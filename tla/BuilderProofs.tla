---------------------------- MODULE BuilderProofs ----------------------------
(***************************************************************************)
(* Proofs about the build plan (module Plan), for every graph: the order   *)
(* edges run in; what the plan's counters say, how the pools are used, and *)
(* what a failure means; then its progress: an edge with an entry waits    *)
(* for another, can be handed out, or has failed, so that a plan that is   *)
(* not done is stuck only by a failure.                                    *)
(*                                                                         *)
(* Then about the build loop (module Builder), for every runner, -j and -k *)
(* too: what it does to the plan are steps of the plan, so that all of     *)
(* that holds in a build, and it starts nothing once its failures are used *)
(* up; then about what a build returns: the loop knows what runs, so that  *)
(* it gives up only with a reason and leaves no output of an unfinished    *)
(* command behind.                                                         *)
(*                                                                         *)
(* Last about the plan while dyndep files are loaded (module DyndepPlan),  *)
(* for the manifests of InScope: however the graph grows, an edge is       *)
(* scheduled after its file is loaded and after the edges it needs, and    *)
(* the plan is stuck only by a failure; if no initial edge has a pool,     *)
(* each edge is scheduled once, and the books are kept.                    *)
(***************************************************************************)
EXTENDS Builder, DyndepPlan, TLAPS, FiniteSetTheorems, SequenceTheorems

(***************************************************************************)
(* What lies below every closed set A lies below the least one.  The       *)
(* operator is given by the family K of its closed sets.                   *)
(***************************************************************************)
LEMMA BelowClosed ==
    ASSUME NEW D, NEW K, NEW A \in K
    PROVE  D \ UNION {D \ S : S \in K} \subseteq A
  OBVIOUS

LEMMA HeldBackNone == HeldBack({}) = {}
  BY DEF HeldBack, OutEdges

LEMMA PassedNothing ==
    ASSUME NEW w, NEW done, NEW seen, NEW Q
    PROVE  Passed(w, done, seen, Q) \subseteq {f \in Edge \ HeldBack(Q) : w[f] = "Nothing"}
  BY DEF Passed, Least

LEMMA CleanedWanted ==
    ASSUME NEW N
    PROVE  Cleaned(N) \subseteq Wanted(want)
  BY DEF Cleaned, Least

(***************************************************************************)
(* CleanNode starts at outputs of e and goes on through wanted edges: if   *)
(* none of them is ready, it reaches only edges that still wait for one.   *)
(***************************************************************************)
LEMMA CleanedWaits ==
    ASSUME NEW N, NEW e \in Edge, N \subseteq outs[e], e \notin oready,
           \A f \in Wanted(want) : f \notin oready
    PROVE  \A f \in Cleaned(N) : ~AllInputsReady(f, oready)
<1> DEFINE D == Wanted(want) \ (depsMissing \cup stale)
           F(C) == {f \in Edge :
                      /\ AllIns(f) \cap (N \cup NodesOf(C)) # {}
                      /\ ins[f] \cap (dirty \ (N \cup NodesOf(C))) = {}}
           K == {C \in SUBSET D : F(C) \cap D \subseteq C}
           A == {f \in D : ~AllInputsReady(f, oready)}
<1>1. A \in K
  <2>1. A \in SUBSET D /\ A \subseteq Edge
    BY DEF Wanted
  <2>2. ASSUME NEW f \in F(A) \cap D  PROVE f \in A
    <3>1. f \in D /\ f \in Edge
      OBVIOUS
    <3>2. PICK n \in AllIns(f) : n \in N \cup NodesOf(A)
      OBVIOUS
    <3>3. \E p \in Edge : n \in outs[p] /\ p \notin oready
      BY <3>2 DEF NodesOf, Wanted
    <3>4. \E p \in Producers(f) : p \notin oready
      BY <3>2, <3>3 DEF Producers
    <3> QED
      BY <3>1, <3>4 DEF AllInputsReady
  <2> QED
    BY <2>1, <2>2
<1>2. Cleaned(N) = D \ UNION {D \ S : S \in K}
  BY DEF Cleaned, Least
<1>3. D \ UNION {D \ S : S \in K} \subseteq A
  <2> HIDE DEF D, K, A
  <2> QED  BY <1>1, BelowClosed
<1> QED
  BY <1>2, <1>3

LEMMA EdgeSetFinite ==
    ASSUME NEW S, S \subseteq Edge
    PROVE  IsFiniteSet(S) /\ Cardinality(S) \in Nat
  BY GraphAssumption, FS_Subset, FS_CardinalityType DEF GraphAssumption

-----------------------------------------------------------------------------
(***************************************************************************)
(* Type correctness.                                                       *)
(***************************************************************************)
LEMMA PushType ==
    ASSUME TypeOK, NEW used \in [Pool -> Int],
           NEW U \in SUBSET Edge, NEW T \in SUBSET Edge, NEW N \in SUBSET Edge,
           Push(used, U, T, N)
    PROVE  ready' \in [Edge -> Nat] /\ use' \in [Pool -> Int]
<1>1. ready' \in [Edge -> Nat]
  BY DEF Push, Count, TypeOK
<1>2. ASSUME NEW p \in Pool
      PROVE  /\ Cardinality(T \cap Members(p)) \in Nat
             /\ Cardinality(N \cap Members(p)) \in Nat
  BY EdgeSetFinite
<1> QED
  BY <1>1, <1>2 DEF Push

LEMMA UseWithoutType ==
    ASSUME TypeOK, NEW e
    PROVE  UseWithout(e) \in [Pool -> Int]
  BY DEF UseWithout, TypeOK

(***************************************************************************)
(* What Settle does to the edges, without the arithmetic of the pools.     *)
(***************************************************************************)
SettlesBy(w, done, met, T, passed, sched, pooled, N) ==
    /\ \A f \in passed : w[f] = "Nothing"
    /\ sched = Schedulable(w, done \cup passed, met)
    /\ N \subseteq pooled /\ pooled \subseteq sched
    /\ ready' = [f \in Edge |-> ready[f] + Count(f, sched \ pooled)
                                + Count(f, T) + Count(f, N)]
    /\ delayed' = (delayed \ T) \cup (pooled \ N)
    /\ oready' = done \cup passed
    /\ want' = [f \in Edge |-> IF f \in passed THEN "Absent"
                               ELSE IF f \in sched THEN "ToFinish" ELSE w[f]]
    /\ ready' \in [Edge -> Nat] /\ use' \in [Pool -> Int]

\* The same when no dyndep file is pending.
SettlesTo(w, done, seen, T, passed, sched, pooled, N) ==
    SettlesBy(w, done, seen \cup OutEdges(NodesOf(passed) \ {}), T, passed, sched, pooled, N)

\* What it does to the pools, whose use was `used`.
Pooled(used, T, sched, pooled, N) ==
    /\ pooled = {f \in sched : ShouldDelayEdge(f)}
    /\ \A p \in Pool : Depth[p] # 0 =>
         Admitted(p, used[p] + Cardinality(T \cap Members(p)),
                  pooled \cap Members(p), N \cap Members(p))
    /\ Push(used, sched \ pooled, T, N)

SettlesFor(w, done, seen, T, used, Q, passed, sched, pooled, N) ==
    /\ passed = Passed(w, done, seen, Q)
    /\ SettlesBy(w, done, (seen \cup OutEdges(NodesOf(passed) \ Q)) \ HeldBack(Q),
                 T, passed, sched, pooled, N)
    /\ Pooled(used, T, sched, pooled, N)

LEMMA SettleEffect ==
    ASSUME TypeOK, NEW w \in [Edge -> Want], NEW done \in SUBSET Edge,
           NEW seen \in SUBSET Edge, NEW T \in SUBSET delayed,
           NEW used \in [Pool -> Int], NEW Q, Settle(w, done, seen, T, used, Q)
    PROVE  \E passed, sched, pooled, N \in SUBSET Edge :
             SettlesFor(w, done, seen, T, used, Q, passed, sched, pooled, N)
<1> DEFINE passed == Passed(w, done, seen, Q)
           met == (seen \cup OutEdges(NodesOf(passed) \ Q)) \ HeldBack(Q)
           sched == Schedulable(w, done \cup passed, met)
           pooled == {f \in sched : ShouldDelayEdge(f)}
<1>1. /\ passed \in SUBSET Edge
      /\ \A f \in passed : w[f] = "Nothing"
  BY PassedNothing
<1>2. sched \in SUBSET Edge /\ pooled \in SUBSET Edge
  <2>1. met \subseteq Edge
    BY DEF OutEdges
  <2> QED
    BY <2>1 DEF Schedulable
<1>3. PICK N \in SUBSET pooled :
        /\ \A p \in Pool : Depth[p] # 0 =>
             Admitted(p, used[p] + Cardinality(T \cap Members(p)),
                      pooled \cap Members(p), N \cap Members(p))
        /\ Push(used, sched \ pooled, T, N)
        /\ delayed' = (delayed \ T) \cup (pooled \ N)
        /\ oready' = done \cup passed
        /\ want' = [f \in Edge |-> IF f \in passed THEN "Absent"
                                   ELSE IF f \in sched THEN "ToFinish" ELSE w[f]]
  BY DEF Settle
<1>3a. /\ pooled = {f \in sched : ShouldDelayEdge(f)} /\ passed = Passed(w, done, seen, Q)
       /\ met = (seen \cup OutEdges(NodesOf(passed) \ Q)) \ HeldBack(Q)
  OBVIOUS
<1>7. pooled \subseteq sched /\ sched = Schedulable(w, done \cup passed, met)
  OBVIOUS
<1> HIDE DEF passed, sched, pooled, met
<1>4. T \in SUBSET Edge /\ N \in SUBSET Edge /\ sched \ pooled \in SUBSET Edge
  BY <1>2, <1>3 DEF TypeOK
<1>5. ready' \in [Edge -> Nat] /\ use' \in [Pool -> Int]
  BY <1>3, <1>4, PushType
<1>6. ready' = [f \in Edge |-> ready[f] + Count(f, sched \ pooled)
                               + Count(f, T) + Count(f, N)]
  BY <1>3 DEF Push
<1>9. SettlesBy(w, done, met, T, passed, sched, pooled, N)
  BY <1>1, <1>3, <1>5, <1>6, <1>7 DEF SettlesBy
<1>10. Pooled(used, T, sched, pooled, N)
  BY <1>3, <1>3a DEF Pooled
<1>11. SettlesFor(w, done, seen, T, used, Q, passed, sched, pooled, N)
  BY <1>3a, <1>9, <1>10 DEF SettlesFor
<1> QED
  BY <1>1, <1>2, <1>4, <1>11

\* The entries of want_ between CleanNode and NodesFinished.
WantAfter(e, cleaned) ==
    [f \in Edge |-> IF f \in cleaned THEN "Nothing"
                    ELSE IF f = e THEN "Absent" ELSE want[f]]

LEMMA WantAfterType ==
    ASSUME TypeOK, NEW e, NEW cleaned
    PROVE  WantAfter(e, cleaned) \in [Edge -> Want]
  BY DEF WantAfter, TypeOK, Want

(***************************************************************************)
(* The same for the whole of EdgeSucceeded.                                *)
(***************************************************************************)
LEMMA SucceededEffect ==
    ASSUME TypeOK, NEW e \in Edge, NEW unchanged \in SUBSET outs[e],
           EdgeSucceeded(e, unchanged, {})
    PROVE  \E T \in SUBSET delayed : \E passed, sched, pooled, N \in SUBSET Edge :
             /\ passed = Passed(WantAfter(e, Cleaned(unchanged)), oready \cup {e},
                                OutEdges(outs[e]), {})
             /\ SettlesTo(WantAfter(e, Cleaned(unchanged)), oready \cup {e},
                        OutEdges(outs[e]), T, passed, sched, pooled, N)
             /\ Released(e, T)
             /\ Pooled(UseWithout(e), T, sched, pooled, N)
<1> DEFINE w == WantAfter(e, Cleaned(unchanged))
           done == oready \cup {e}
           seen == OutEdges(outs[e] \ {})
           used == UseWithout(e)
<1>1. PICK T \in SUBSET delayed : Released(e, T) /\ Settle(w, done, seen, T, used, {})
  BY DEF EdgeSucceeded, WantAfter
<1>3. w \in [Edge -> Want]
  BY WantAfterType
<1>4. done \in SUBSET Edge /\ seen \in SUBSET Edge
  BY DEF TypeOK, OutEdges
<1>5. used \in [Pool -> Int]
  BY UseWithoutType
<1> HIDE DEF w, done, seen, used
<1>6. PICK passed, sched, pooled, N \in SUBSET Edge :
        SettlesFor(w, done, seen, T, used, {}, passed, sched, pooled, N)
  BY <1>1, <1>3, <1>4, <1>5, SettleEffect
<1>6a. /\ passed = Passed(w, done, seen, {}) /\ Pooled(used, T, sched, pooled, N)
       /\ SettlesTo(w, done, seen, T, passed, sched, pooled, N)
  BY <1>6, HeldBackNone DEF SettlesFor, SettlesTo
<1>7. seen = OutEdges(outs[e])
  BY DEF seen
<1> QED
  BY <1>1, <1>6a, <1>7 DEF w, done, used

LEMMA TypeInit == Init => TypeOK
<1> SUFFICES ASSUME Init  PROVE TypeOK
  OBVIOUS
<1>1. /\ ins \in [Edge -> SUBSET Node] /\ outs \in [Edge -> SUBSET Node]
      /\ stale \subseteq Edge /\ depsMissing \subseteq Edge
  BY GraphAssumption DEF Init, GraphAssumption
<1>2. /\ dirty \subseteq Node /\ oready \subseteq Edge /\ want \in [Edge -> Want]
  <2>1. PICK dirtyEdges \in {DirtyEdges}, scanned \in {Sorted} :
        \E notReady \in {NotReadyEdges(dirtyEdges)} :
        \E reached \in {Reached(notReady)} :
          /\ dirty = NodesOf(dirtyEdges \cap scanned)
          /\ oready = scanned \ notReady
          /\ want = [e \in Edge |-> IF e \notin reached THEN "Absent"
                                    ELSE IF e \in dirtyEdges THEN "ToStart"
                                    ELSE "Nothing"]
    BY DEF Init
  <2>2. scanned \subseteq Edge
    BY DEF Sorted, Least
  <2>3. dirty \subseteq Node
    BY <1>1, <2>1, <2>2 DEF NodesOf
  <2> QED
    BY <2>1, <2>2, <2>3 DEF Want
<1>3. wanted \in Int /\ command \in Int
  BY EdgeSetFinite DEF Init, Wanted
<1>4. /\ ready = [e \in Edge |-> 0] /\ running = [e \in Edge |-> 0]
      /\ starts = [e \in Edge |-> 0] /\ use = [p \in Pool |-> 0]
      /\ delayed = {} /\ failed = {} /\ prepared = FALSE
  BY DEF Init
<1>5. /\ ready \in [Edge -> Nat] /\ running \in [Edge -> Nat]
      /\ starts \in [Edge -> Nat] /\ use \in [Pool -> Int]
      /\ delayed \subseteq Edge /\ failed \subseteq Edge
  BY <1>4
<1>6. prepared \in BOOLEAN
  BY <1>4
<1> QED
  BY <1>1, <1>2, <1>3, <1>5, <1>6 DEF TypeOK

LEMMA TypeStep == TypeOK /\ [Next]_planVars => TypeOK'
<1> SUFFICES ASSUME TypeOK, [Next]_planVars  PROVE TypeOK'
  OBVIOUS
<1>1. CASE PrepareQueue
  <2>1. PICK pooled, free, T \in SUBSET Edge :
          /\ want' = [e \in Edge |-> IF e \in free THEN "ToFinish" ELSE want[e]]
          /\ Push(use, free, T, {})
          /\ delayed' = pooled \ T
    BY <1>1 DEF PrepareQueue, InitialEdges
  <2>2. ready' \in [Edge -> Nat] /\ use' \in [Pool -> Int]
    <3>1. use \in [Pool -> Int] /\ {} \in SUBSET Edge
      BY DEF TypeOK
    <3> QED
      BY <2>1, <3>1, PushType
  <2> QED
    BY <1>1, <2>1, <2>2 DEF PrepareQueue, TypeOK, Want, graph, history
<1>2. ASSUME NEW e \in Edge, FindWork(e)  PROVE TypeOK'
  BY <1>2 DEF FindWork, TypeOK, graph
<1>3. ASSUME NEW e \in Edge, EdgeFailed(e)  PROVE TypeOK'
  <2>1. PICK T \in SUBSET delayed :
          Push(UseWithout(e), {}, T, {}) /\ delayed' = delayed \ T
    BY <1>3 DEF EdgeFailed
  <2>2. ready' \in [Edge -> Nat] /\ use' \in [Pool -> Int]
    <3>1. T \in SUBSET Edge /\ {} \in SUBSET Edge
      BY DEF TypeOK
    <3>2. UseWithout(e) \in [Pool -> Int]
      BY UseWithoutType
    <3> QED
      BY <2>1, <3>1, <3>2, PushType
  <2>3. /\ delayed' \subseteq Edge /\ failed' \subseteq Edge
        /\ running' \in [Edge -> Nat]
    BY <1>3, <2>1 DEF EdgeFailed, TypeOK
  <2> QED
    BY <1>3, <2>2, <2>3 DEF EdgeFailed, TypeOK, graph
<1>4. ASSUME NEW e \in Edge, NEW unchanged \in SUBSET outs[e],
             EdgeSucceeded(e, unchanged, {})
      PROVE  TypeOK'
  <2>1. PICK T \in SUBSET delayed : \E passed, sched, pooled, N \in SUBSET Edge :
          SettlesTo(WantAfter(e, Cleaned(unchanged)), oready \cup {e},
                  OutEdges(outs[e]), T, passed, sched, pooled, N)
    BY <1>4, SucceededEffect
  <2>2. /\ ready' \in [Edge -> Nat] /\ use' \in [Pool -> Int]
        /\ delayed' \subseteq Edge /\ oready' \subseteq Edge
        /\ want' \in [Edge -> Want]
    <3> DEFINE w == WantAfter(e, Cleaned(unchanged))
    <3>1. w \in [Edge -> Want]
      BY WantAfterType
    <3> HIDE DEF w
    <3>2. PICK passed, sched, pooled, N \in SUBSET Edge :
            SettlesTo(w, oready \cup {e}, OutEdges(outs[e]), T, passed, sched, pooled, N)
      BY <2>1 DEF w
    <3>3. ready' \in [Edge -> Nat] /\ use' \in [Pool -> Int]
      BY <3>2 DEF SettlesTo, SettlesBy
    <3>4. delayed' \subseteq Edge /\ oready' \subseteq Edge
      BY <3>2 DEF SettlesTo, SettlesBy, TypeOK
    <3>5. want' \in [Edge -> Want]
      BY <3>1, <3>2 DEF SettlesTo, SettlesBy, Want
    <3> QED
      BY <3>3, <3>4, <3>5
  <2>3. wanted' \in Int /\ command' \in Int
    <3>1. /\ Cardinality(Cleaned(unchanged)) \in Nat
          /\ Cardinality(Cleaned(unchanged) \ Phony) \in Nat
      BY CleanedWanted, EdgeSetFinite DEF Wanted
    <3> QED
      BY <1>4, <3>1 DEF EdgeSucceeded, TypeOK
  <2>4. /\ dirty' \subseteq Node /\ running' \in [Edge -> Nat]
        /\ UNCHANGED <<graph, weight, prepared, starts, failed>>
    BY <1>4 DEF EdgeSucceeded, TypeOK
  <2> QED
    BY <2>2, <2>3, <2>4 DEF TypeOK, graph
<1>5. CASE UNCHANGED planVars
  BY <1>5 DEF TypeOK, planVars, graph, history
<1> QED
  BY <1>1, <1>2, <1>3, <1>4, <1>5 DEF Next

\* Type correctness of the plan's state in every reachable state.
THEOREM TypeCorrect == Spec => []TypeOK
<1>1. Init => TypeOK
  BY TypeInit
<1>2. TypeOK /\ [Next]_planVars => TypeOK'
  BY TypeStep
<1> QED
  BY <1>1, <1>2, PTL DEF Spec

-----------------------------------------------------------------------------
(***************************************************************************)
(* Scheduling: not early, not twice, not never.                            *)
(***************************************************************************)
(***************************************************************************)
(* What EdgeSucceeded comes to for each edge: e leaves, `cleaned` are      *)
(* withdrawn, `passed` have nothing to do, `sched` are scheduled.  None of *)
(* these was held before, but e.                                           *)
(***************************************************************************)
SucceedsAs(e, cleaned, w, T, passed, sched, pooled, N) ==
    /\ /\ running[e] > 0 /\ running' = [running EXCEPT ![e] = @ - 1]
       /\ UNCHANGED <<ins, outs, prepared, starts, failed>>
    /\ /\ starts[e] = 1 /\ running[e] = 1 /\ ready[e] = 0 /\ e \notin delayed
       /\ e \in Wanted(want) /\ e \notin oready /\ prepared
    /\ \A f \in cleaned : f \in Wanted(want) /\ ~AllInputsReady(f, oready)
    /\ \A f \in Edge : Held(f) > 0 \/ starts[f] > 0 \/ want[f] = "ToFinish" => f \notin cleaned
    /\ /\ w[e] = "Absent"
       /\ \A f \in cleaned : w[f] = "Nothing"
       /\ \A f \in Edge \ {e} : f \notin cleaned => w[f] = want[f]
    /\ \A f \in passed : /\ f \in Edge /\ f # e /\ f \notin oready
                         /\ w[f] = "Nothing" /\ Held(f) = 0
    /\ \A f \in Edge : /\ AllInputsReady(f, oready)' <=> AllInputsReady(f, oready')
                       /\ AllInputsReady(f, oready) => AllInputsReady(f, oready)'
                       /\ AllInputsReady(f, oready)' /\ ~AllInputsReady(f, oready)
                            => f \in OutEdges(outs[e]) \cup OutEdges(NodesOf(passed))
    /\ \A f \in sched : /\ f \in Edge /\ w[f] = "ToStart" /\ want[f] = "ToStart" /\ f # e
                        /\ AllInputsReady(f, oready)'
                        /\ Held(f) = 0 /\ starts[f] = 0
    /\ \A f \in Edge :
         /\ ready'[f] = ready[f] + Count(f, sched \ pooled) + Count(f, T) + Count(f, N)
         /\ f \in delayed' <=> (f \in delayed /\ f \notin T) \/ (f \in pooled /\ f \notin N)
         /\ want'[f] = IF f \in passed THEN "Absent" ELSE IF f \in sched THEN "ToFinish" ELSE w[f]
         /\ running'[f] = IF f = e THEN 0 ELSE running[f]
         /\ starts'[f] = starts[f]
    /\ N \subseteq pooled /\ pooled \subseteq sched

LEMMA SucceededFacts ==
    ASSUME TypeOK, ScheduleInv, NEW e \in Edge, NEW unchanged \in SUBSET outs[e],
           EdgeSucceeded(e, unchanged, {}),
           NEW T \in SUBSET delayed, NEW passed \in SUBSET Edge, NEW sched \in SUBSET Edge,
           NEW pooled \in SUBSET Edge, NEW N \in SUBSET Edge,
           SettlesTo(WantAfter(e, Cleaned(unchanged)), oready \cup {e}, OutEdges(outs[e]),
                   T, passed, sched, pooled, N)
    PROVE  SucceedsAs(e, Cleaned(unchanged), WantAfter(e, Cleaned(unchanged)),
                     T, passed, sched, pooled, N)
<1> DEFINE cleaned == Cleaned(unchanged)
           w == WantAfter(e, cleaned)
<1>1. SettlesTo(w, oready \cup {e}, OutEdges(outs[e]), T, passed, sched, pooled, N)
  OBVIOUS
<1>2. /\ running[e] > 0 /\ running' = [running EXCEPT ![e] = @ - 1]
      /\ UNCHANGED <<ins, outs, prepared, starts, failed>>
  BY DEF EdgeSucceeded, graph
<1>3. /\ starts[e] = 1 /\ running[e] = 1 /\ ready[e] = 0 /\ e \notin delayed
      /\ e \in Wanted(want) /\ e \notin oready /\ prepared
  <2>1. starts[e] = 1 /\ running[e] = 1 /\ ready[e] = 0 /\ e \notin delayed
    <3>1. starts[e] + ready[e] + Count(e, delayed) <= 1 /\ running[e] <= starts[e]
      BY DEF ScheduleInv, Once
    <3>2. starts[e] \in Nat /\ running[e] \in Nat /\ ready[e] \in Nat
      BY DEF TypeOK
    <3> QED
      BY <1>2, <3>1, <3>2 DEF Count
  <2>2. Held(e) > 0
    BY <2>1 DEF Held, Count
  <2>3. e \in Wanted(want) /\ e \notin oready
    BY <2>2 DEF ScheduleInv, Entries, Wanted
  <2>4. prepared
    BY <2>1 DEF ScheduleInv, Fresh
  <2> QED
    BY <2>1, <2>3, <2>4
<1>4. \A f \in Wanted(want) : f \in Edge /\ f \notin oready
  BY DEF ScheduleInv, Entries, Wanted
<1>5. \A f \in cleaned : f \in Wanted(want) /\ ~AllInputsReady(f, oready)
  BY <1>3, <1>4, CleanedWanted, CleanedWaits
<1>6. \A f \in Edge : Held(f) > 0 \/ starts[f] > 0 \/ want[f] = "ToFinish" => f \notin cleaned
  BY <1>5 DEF ScheduleInv, ScheduledReady
<1>7. /\ w[e] = "Absent"
      /\ \A f \in cleaned : w[f] = "Nothing"
      /\ \A f \in Edge \ {e} : f \notin cleaned => w[f] = want[f]
  BY <1>3, <1>4, <1>5, <1>6 DEF WantAfter
<1> HIDE DEF cleaned, w
<1>8. \A f \in passed : /\ f \in Edge /\ f # e /\ f \notin oready
                        /\ w[f] = "Nothing" /\ Held(f) = 0
  <2> SUFFICES ASSUME NEW f \in passed
               PROVE  f # e /\ f \notin oready /\ w[f] = "Nothing" /\ Held(f) = 0
    OBVIOUS
  <2>1. w[f] = "Nothing" /\ f # e
    BY <1>1, <1>7 DEF SettlesTo, SettlesBy
  <2>2. CASE f \in cleaned
    BY <2>1, <2>2, <1>4, <1>5, <1>6 DEF Held, Count, TypeOK
  <2>3. CASE f \notin cleaned
    BY <2>1, <2>3, <1>7 DEF ScheduleInv, Entries, Held, Count, TypeOK
  <2> QED
    BY <2>1, <2>2, <2>3
<1>9. \A f \in Edge : /\ AllInputsReady(f, oready)' <=> AllInputsReady(f, oready')
                      /\ AllInputsReady(f, oready) => AllInputsReady(f, oready)'
                      /\ AllInputsReady(f, oready)' /\ ~AllInputsReady(f, oready)
                           => f \in OutEdges(outs[e]) \cup OutEdges(NodesOf(passed))
  <2>1. oready' = oready \cup {e} \cup passed
    BY <1>1 DEF SettlesTo, SettlesBy
  <2>2. \A f \in Edge : Producers(f)' = Producers(f)
    BY <1>2 DEF Producers, AllIns
  <2>3. ASSUME NEW f \in Edge, NEW p \in Producers(f), p \in {e} \cup passed
        PROVE  f \in OutEdges(outs[e]) \cup OutEdges(NodesOf(passed))
    BY <2>3 DEF Producers, OutEdges, NodesOf
  <2> QED
    BY <2>1, <2>2, <2>3 DEF AllInputsReady
<1>10. \A f \in sched : /\ f \in Edge /\ w[f] = "ToStart" /\ want[f] = "ToStart" /\ f # e
                        /\ AllInputsReady(f, oready)'
                        /\ Held(f) = 0 /\ starts[f] = 0
  <2> SUFFICES ASSUME NEW f \in sched
               PROVE  /\ w[f] = "ToStart" /\ want[f] = "ToStart" /\ f # e
                      /\ AllInputsReady(f, oready)'
                      /\ Held(f) = 0 /\ starts[f] = 0
    OBVIOUS
  <2>1. /\ w[f] = "ToStart" /\ AllInputsReady(f, oready \cup {e} \cup passed)
        /\ f \in OutEdges(outs[e]) \cup OutEdges(NodesOf(passed))
    BY <1>1 DEF SettlesTo, SettlesBy, Schedulable
  <2>2. want[f] = "ToStart" /\ f # e
    BY <2>1, <1>7
  <2>3. AllInputsReady(f, oready)'
    BY <2>1, <1>1, <1>9 DEF SettlesTo, SettlesBy
  <2>4. ~AllInputsReady(f, oready)
    <3>1. PICK p \in Edge : p \in {e} \cup passed /\ AllIns(f) \cap outs[p] # {}
      BY <2>1, <1>8 DEF OutEdges, NodesOf
    <3>2. p \in Producers(f) /\ p \notin oready
      BY <3>1, <1>3, <1>8 DEF Producers
    <3> QED
      BY <3>2 DEF AllInputsReady
  <2> QED
    BY <2>1, <2>2, <2>3, <2>4 DEF ScheduleInv, ScheduledReady, Held, Count, TypeOK
<1>11. \A f \in Edge :
         /\ ready'[f] = ready[f] + Count(f, sched \ pooled) + Count(f, T) + Count(f, N)
         /\ f \in delayed' <=> (f \in delayed /\ f \notin T) \/ (f \in pooled /\ f \notin N)
         /\ want'[f] = IF f \in passed THEN "Absent" ELSE IF f \in sched THEN "ToFinish" ELSE w[f]
         /\ running'[f] = IF f = e THEN 0 ELSE running[f]
         /\ starts'[f] = starts[f]
  <2>1. \A f \in Edge :
          /\ ready'[f] = ready[f] + Count(f, sched \ pooled) + Count(f, T) + Count(f, N)
          /\ want'[f] = IF f \in passed THEN "Absent" ELSE IF f \in sched THEN "ToFinish" ELSE w[f]
    BY <1>1 DEF SettlesTo, SettlesBy
  <2>2. delayed' = (delayed \ T) \cup (pooled \ N)
    BY <1>1 DEF SettlesTo, SettlesBy
  <2>3. \A f \in Edge : /\ running'[f] = IF f = e THEN 0 ELSE running[f]
                        /\ starts'[f] = starts[f]
    BY <1>2, <1>3 DEF TypeOK
  <2> QED
    BY <2>1, <2>2, <2>3
<1>12. N \subseteq pooled /\ pooled \subseteq sched
  BY <1>1 DEF SettlesTo, SettlesBy
<1>13. SucceedsAs(e, cleaned, w, T, passed, sched, pooled, N)
  BY <1>2, <1>3, <1>5, <1>6, <1>7, <1>8, <1>9, <1>10, <1>11, <1>12 DEF SucceedsAs
<1> QED
  BY <1>13 DEF w, cleaned

LEMMA SucceededKeeps ==
    ASSUME TypeOK, ScheduleInv, NEW e \in Edge, NEW unchanged \in SUBSET outs[e],
           EdgeSucceeded(e, unchanged, {})
    PROVE  /\ ScheduleInv'
           /\ \A f \in Withdrawn : Held(f) = 0
<1> DEFINE cleaned == Cleaned(unchanged)
           w == WantAfter(e, cleaned)
<1>0. TypeOK'
  BY TypeStep DEF Next
<1>1. PICK T \in SUBSET delayed, passed, sched, pooled, N \in SUBSET Edge :
        SettlesTo(w, oready \cup {e}, OutEdges(outs[e]), T, passed, sched, pooled, N)
  BY SucceededEffect
<1>a. SucceedsAs(e, cleaned, w, T, passed, sched, pooled, N)
  BY <1>1, SucceededFacts
<1> HIDE DEF cleaned, w
<1>2. /\ running[e] > 0 /\ running' = [running EXCEPT ![e] = @ - 1]
      /\ UNCHANGED <<ins, outs, prepared, starts, failed>>
  BY <1>a DEF SucceedsAs
<1>3. /\ starts[e] = 1 /\ running[e] = 1 /\ ready[e] = 0 /\ e \notin delayed
      /\ e \in Wanted(want) /\ e \notin oready /\ prepared
  BY <1>a DEF SucceedsAs
<1>4. \A f \in Wanted(want) : f \in Edge /\ f \notin oready
  BY DEF ScheduleInv, Entries, Wanted
<1>5. \A f \in cleaned : f \in Wanted(want) /\ ~AllInputsReady(f, oready)
  BY <1>a DEF SucceedsAs
<1>6. \A f \in Edge : Held(f) > 0 \/ starts[f] > 0 \/ want[f] = "ToFinish" => f \notin cleaned
  BY <1>a DEF SucceedsAs
<1>7. /\ w[e] = "Absent"
      /\ \A f \in cleaned : w[f] = "Nothing"
      /\ \A f \in Edge \ {e} : f \notin cleaned => w[f] = want[f]
  BY <1>a DEF SucceedsAs
<1>8. \A f \in passed : /\ f \in Edge /\ f # e /\ f \notin oready
                        /\ w[f] = "Nothing" /\ Held(f) = 0
  BY <1>a DEF SucceedsAs
<1>9. \A f \in Edge : /\ AllInputsReady(f, oready)' <=> AllInputsReady(f, oready')
                      /\ AllInputsReady(f, oready) => AllInputsReady(f, oready)'
                      /\ AllInputsReady(f, oready)' /\ ~AllInputsReady(f, oready)
                           => f \in OutEdges(outs[e]) \cup OutEdges(NodesOf(passed))
  BY <1>a DEF SucceedsAs
<1>10. \A f \in sched : /\ f \in Edge /\ w[f] = "ToStart" /\ want[f] = "ToStart" /\ f # e
                        /\ AllInputsReady(f, oready)'
                        /\ Held(f) = 0 /\ starts[f] = 0
  BY <1>a DEF SucceedsAs
<1>11. \A f \in Edge :
         /\ ready'[f] = ready[f] + Count(f, sched \ pooled) + Count(f, T) + Count(f, N)
         /\ f \in delayed' <=> (f \in delayed /\ f \notin T) \/ (f \in pooled /\ f \notin N)
         /\ want'[f] = IF f \in passed THEN "Absent" ELSE IF f \in sched THEN "ToFinish" ELSE w[f]
         /\ running'[f] = IF f = e THEN 0 ELSE running[f]
         /\ starts'[f] = starts[f]
  BY <1>a DEF SucceedsAs
<1>12. N \subseteq pooled /\ pooled \subseteq sched
  BY <1>a DEF SucceedsAs
<1>13. \A f \in Edge :
         /\ f \notin sched /\ f # e =>
              ready'[f] + Count(f, delayed)' = ready[f] + Count(f, delayed)
         /\ f \in sched => ready'[f] + Count(f, delayed)' = 1
         /\ Held(e)' = 0
  BY <1>3, <1>10, <1>11, <1>12 DEF Count, Held, TypeOK
<1>14. \A f \in Edge : f # e /\ f \notin sched => Held(f)' = Held(f)
  BY <1>11, <1>13, <1>0 DEF Held, Count, TypeOK
<1>15. Once'
  BY <1>3, <1>10, <1>11, <1>13, <1>0 DEF ScheduleInv, Once, Held, Count, TypeOK
<1>16. Entries'
  <2> SUFFICES ASSUME NEW f \in Edge
               PROVE  /\ want'[f] # "Absent" => f \notin oready'
                      /\ Held(f)' > 0 => want'[f] \in {"ToStart", "ToFinish"}
    BY DEF Entries
  <2>1. want'[f] # "Absent" => f \notin oready'
    <3>1. want'[f] # "Absent" => f \notin passed /\ f # e /\ want[f] # "Absent"
      BY <1>5, <1>7, <1>10, <1>11 DEF Wanted
    <3> QED
      BY <3>1, <1>1 DEF SettlesTo, SettlesBy, ScheduleInv, Entries
  <2>2. Held(f)' > 0 => want'[f] \in {"ToStart", "ToFinish"}
    <3>1. CASE f \in sched
      BY <3>1, <1>8, <1>10, <1>11
    <3>2. CASE f = e
      BY <3>2, <1>13
    <3>3. CASE f # e /\ f \notin sched
      BY <3>3, <1>6, <1>7, <1>8, <1>11, <1>14 DEF ScheduleInv, Entries
    <3> QED
      BY <3>1, <3>2, <3>3
  <2> QED
    BY <2>1, <2>2
<1>17. ScheduledReady'
  <2> SUFFICES ASSUME NEW f \in Edge,
                      Held(f)' > 0 \/ starts'[f] > 0 \/ want'[f] = "ToFinish"
               PROVE  AllInputsReady(f, oready)'
    BY DEF ScheduledReady
  <2>1. CASE f \in sched
    BY <2>1, <1>10
  <2>2. CASE f \notin sched
    <3>1. Held(f) > 0 \/ starts[f] > 0 \/ want[f] = "ToFinish"
      BY <2>2, <1>3, <1>5, <1>7, <1>11, <1>14
    <3> QED
      BY <3>1, <1>9 DEF ScheduleInv, ScheduledReady
  <2> QED
    BY <2>1, <2>2
<1>18. Fresh'
  BY <1>2, <1>3 DEF Fresh
<1>19. NothingForgotten'
  <2> SUFFICES ASSUME NEW f \in Edge, want'[f] \in {"ToStart", "ToFinish"},
                      f \notin failed, AllInputsReady(f, oready)'
               PROVE  Held(f)' > 0
    BY <1>2 DEF NothingForgotten, Wanted
  <2>1. CASE f \in sched
    BY <2>1, <1>0, <1>11, <1>13 DEF Held, Count, TypeOK
  <2>2. CASE f \notin sched
    <3>1. f # e /\ f \notin cleaned /\ w[f] = want[f] /\ f \in Wanted(want)
      BY <2>2, <1>7, <1>11 DEF Wanted
    <3>2. AllInputsReady(f, oready)
      <4>1. CASE want[f] = "ToFinish"
        BY <4>1 DEF ScheduleInv, ScheduledReady
      <4>2. CASE want[f] = "ToStart"
        BY <2>2, <3>1, <4>2, <1>1, <1>9 DEF SettlesTo, SettlesBy, Schedulable
      <4> QED
        BY <3>1, <4>1, <4>2 DEF Wanted
    <3> QED
      BY <2>2, <3>1, <3>2, <1>3, <1>14 DEF ScheduleInv, NothingForgotten
  <2> QED
    BY <2>1, <2>2
<1>20. \A f \in Withdrawn : Held(f) = 0
  <2> SUFFICES ASSUME NEW f \in Edge, f \in Wanted(want), f \notin Wanted(want'),
                      running'[f] = running[f]
               PROVE  Held(f) = 0
    BY DEF Withdrawn, Wanted
  <2>1. f # e
    BY <1>2, <1>3 DEF TypeOK
  <2>2. f \in cleaned
    BY <1>7, <1>8, <1>11, <2>1 DEF Wanted
  <2> QED
    BY <2>2, <1>6 DEF Held, Count, TypeOK
<1> QED
  BY <1>15, <1>16, <1>17, <1>18, <1>19, <1>20 DEF ScheduleInv

LEMMA PrepareKeeps ==
    ASSUME TypeOK, ScheduleInv, PrepareQueue
    PROVE  /\ ScheduleInv'
           /\ \A f \in Withdrawn : Held(f) = 0
<1>1. PICK pooled, free, T \in SUBSET Edge :
        /\ pooled = {f \in InitialEdges : ShouldDelayEdge(f)}
        /\ free = InitialEdges \ pooled /\ T \subseteq pooled
        /\ want' = [f \in Edge |-> IF f \in free THEN "ToFinish" ELSE want[f]]
        /\ ready' = [f \in Edge |-> ready[f] + Count(f, free) + Count(f, T) + Count(f, {})]
        /\ delayed' = pooled \ T
  BY DEF PrepareQueue, InitialEdges, Push
<1>2. /\ ~prepared /\ prepared'
      /\ UNCHANGED <<ins, outs, oready, running, starts, failed>>
  BY DEF PrepareQueue, graph, history
<1>3. \A f \in Edge : /\ ready[f] = 0 /\ running[f] = 0 /\ starts[f] = 0
                      /\ f \notin delayed /\ want[f] # "ToFinish"
  BY <1>2 DEF ScheduleInv, Fresh, Held, Count, TypeOK
<1>4. \A f \in Edge : f \in InitialEdges <=> want[f] = "ToStart" /\ AllInputsReady(f, oready)
  BY DEF InitialEdges
<1>5. \A f \in Edge : AllInputsReady(f, oready)' <=> AllInputsReady(f, oready)
  BY <1>2 DEF AllInputsReady, Producers, AllIns
<1>6. \A f \in Edge : /\ want'[f] = IF f \in free THEN "ToFinish" ELSE want[f]
                      /\ Held(f)' = IF f \in InitialEdges THEN 1 ELSE 0
                      /\ starts'[f] = 0 /\ running'[f] = 0
                      /\ ready'[f] + Count(f, delayed)' <= 1
  BY <1>1, <1>2, <1>3 DEF Held, Count, TypeOK
<1>6a. \A f \in Edge : /\ Held(f)' > 0 <=> f \in InitialEdges
                       /\ ~(starts'[f] > 0)
  BY <1>6
<1>7. Once'
  BY <1>6, TypeStep DEF Once, Count, Next, TypeOK
<1>8. Entries'
  BY <1>1, <1>2, <1>4, <1>6 DEF Entries, ScheduleInv
<1>9. ScheduledReady'
  <2> SUFFICES ASSUME NEW f \in Edge,
                      Held(f)' > 0 \/ starts'[f] > 0 \/ want'[f] = "ToFinish"
               PROVE  AllInputsReady(f, oready)'
    BY DEF ScheduledReady
  <2>1. f \in InitialEdges
    BY <1>1, <1>3, <1>6, <1>6a
  <2> QED
    BY <2>1, <1>4, <1>5
<1>10. Fresh'
  BY <1>2 DEF Fresh
<1>11. NothingForgotten'
  <2> SUFFICES ASSUME NEW f \in Edge, want'[f] \in {"ToStart", "ToFinish"},
                      AllInputsReady(f, oready)'
               PROVE  Held(f)' > 0
    BY DEF NothingForgotten, Wanted
  <2>1. f \in InitialEdges
    BY <1>1, <1>3, <1>4, <1>5, <1>6
  <2> QED
    BY <2>1, <1>6a
<1>12. Withdrawn = {}
  BY <1>1, <1>4 DEF Withdrawn, Wanted
<1> QED
  BY <1>7, <1>8, <1>9, <1>10, <1>11, <1>12 DEF ScheduleInv, Wanted

LEMMA FindWorkKeeps ==
    ASSUME TypeOK, ScheduleInv, NEW e \in Edge, FindWork(e)
    PROVE  ScheduleInv' /\ want' = want
<1>1. /\ prepared /\ ready[e] > 0
      /\ ready' = [ready EXCEPT ![e] = @ - 1]
      /\ running' = [running EXCEPT ![e] = @ + 1]
      /\ starts' = [starts EXCEPT ![e] = @ + 1]
      /\ UNCHANGED <<ins, outs, oready, want, delayed, prepared, failed>>
  BY DEF FindWork, graph
<1>2. \A f \in Edge :
        /\ ready'[f] = IF f = e THEN ready[f] - 1 ELSE ready[f]
        /\ running'[f] = IF f = e THEN running[f] + 1 ELSE running[f]
        /\ starts'[f] = IF f = e THEN starts[f] + 1 ELSE starts[f]
        /\ Count(f, delayed)' = Count(f, delayed)
  BY <1>1 DEF TypeOK, Count
<1>3. \A f \in Edge : AllInputsReady(f, oready)' <=> AllInputsReady(f, oready)
  BY <1>1 DEF AllInputsReady, Producers, AllIns
<1>4. \A f \in Edge : Held(f)' = Held(f)
  BY <1>2 DEF Held, TypeOK, Count
<1>5. Held(e) > 0
  BY <1>1 DEF Held, TypeOK, Count
<1>6. Once'
  BY <1>1, <1>2 DEF ScheduleInv, Once, TypeOK, Count
<1>7. Entries'
  BY <1>1, <1>4 DEF ScheduleInv, Entries
<1>8. ScheduledReady'
  BY <1>1, <1>2, <1>3, <1>4, <1>5 DEF ScheduleInv, ScheduledReady
<1>9. Fresh'
  BY <1>1 DEF Fresh
<1>10. NothingForgotten'
  BY <1>1, <1>3, <1>4 DEF ScheduleInv, NothingForgotten, Wanted
<1> QED
  BY <1>1, <1>6, <1>7, <1>8, <1>9, <1>10 DEF ScheduleInv

LEMMA FailedKeeps ==
    ASSUME TypeOK, ScheduleInv, NEW e \in Edge, EdgeFailed(e)
    PROVE  ScheduleInv' /\ want' = want
<1>1. PICK T \in SUBSET delayed :
        /\ ready' = [f \in Edge |-> ready[f] + Count(f, {}) + Count(f, T) + Count(f, {})]
        /\ delayed' = delayed \ T
  BY DEF EdgeFailed, Push
<1>2. /\ running[e] > 0
      /\ running' = [running EXCEPT ![e] = @ - 1]
      /\ failed' = failed \cup {e}
      /\ UNCHANGED <<ins, outs, oready, want, starts, prepared>>
  BY DEF EdgeFailed, graph
<1>3. \A f \in Edge :
        /\ ready'[f] + Count(f, delayed)' = ready[f] + Count(f, delayed)
        /\ running'[f] = IF f = e THEN running[f] - 1 ELSE running[f]
        /\ starts'[f] = starts[f]
  BY <1>1, <1>2 DEF TypeOK, Count
<1>4. \A f \in Edge : AllInputsReady(f, oready)' <=> AllInputsReady(f, oready)
  BY <1>2 DEF AllInputsReady, Producers, AllIns
<1>5. ready' \in [Edge -> Nat] /\ running' \in [Edge -> Nat]
  BY TypeStep DEF Next, TypeOK
<1>6. \A f \in Edge : /\ f # e => Held(f)' = Held(f)
                      /\ Held(f)' > 0 => Held(f) > 0
  <2> SUFFICES ASSUME NEW f \in Edge
               PROVE  /\ f # e => Held(f)' = Held(f)
                      /\ Held(f)' > 0 => Held(f) > 0
    OBVIOUS
  <2>1. /\ ready[f] \in Nat /\ running[f] \in Nat
        /\ ready'[f] \in Nat /\ running'[f] \in Nat
    BY <1>5 DEF TypeOK
  <2>2. Count(f, delayed) \in Nat /\ Count(f, delayed)' \in Nat
    BY DEF Count
  <2>3. /\ Held(f) = ready[f] + running[f] + Count(f, delayed)
        /\ Held(f)' = ready'[f] + running'[f] + Count(f, delayed)'
    BY DEF Held
  <2> QED
    BY <1>2, <1>3, <2>1, <2>2, <2>3
<1>7. prepared
  BY <1>2 DEF ScheduleInv, Fresh, Held, TypeOK, Count
<1>8. Once'
  BY <1>2, <1>3, <1>5 DEF ScheduleInv, Once, TypeOK, Count
<1>9. Entries'
  BY <1>2, <1>6 DEF ScheduleInv, Entries
<1>10. ScheduledReady'
  BY <1>2, <1>3, <1>4, <1>6 DEF ScheduleInv, ScheduledReady
<1>11. Fresh'
  BY <1>2, <1>7 DEF Fresh
<1>12. NothingForgotten'
  BY <1>2, <1>4, <1>6, <1>7 DEF ScheduleInv, NothingForgotten, Wanted
<1> QED
  BY <1>2, <1>8, <1>9, <1>10, <1>11, <1>12 DEF ScheduleInv

LEMMA ScheduleInit == Init => ScheduleInv
<1> SUFFICES ASSUME Init  PROVE ScheduleInv
  OBVIOUS
<1>1. PICK dirtyEdges, notReady, reached :
        /\ notReady = NotReadyEdges(dirtyEdges)
        /\ reached = Reached(notReady)
        /\ oready \cap notReady = {}
        /\ want = [e \in Edge |-> IF e \notin reached THEN "Absent"
                                  ELSE IF e \in dirtyEdges THEN "ToStart"
                                  ELSE "Nothing"]
  BY DEF Init
<1>2. notReady \subseteq Edge
  BY <1>1 DEF NotReadyEdges, Least
<1>3. reached \subseteq notReady
  BY <1>1 DEF Reached, Least
<1>4. /\ ready = [e \in Edge |-> 0] /\ running = [e \in Edge |-> 0]
      /\ starts = [e \in Edge |-> 0] /\ delayed = {} /\ ~prepared
  BY DEF Init
<1>5. \A e \in Edge : /\ starts[e] = 0 /\ ready[e] = 0 /\ running[e] = 0
                      /\ Count(e, delayed) = 0 /\ Held(e) = 0
  BY <1>4 DEF Held, Count
<1>6. \A e \in Edge : /\ want[e] # "ToFinish"
                      /\ want[e] # "Absent" => e \notin oready
  BY <1>1, <1>3
<1>7. Once /\ Entries /\ ScheduledReady /\ Fresh
  BY <1>5, <1>6 DEF Once, Entries, ScheduledReady, Fresh
<1> QED
  BY <1>4, <1>7 DEF ScheduleInv, NothingForgotten

LEMMA ScheduleStep == TypeOK /\ ScheduleInv /\ [Next]_planVars =>
                        /\ ScheduleInv'
                        /\ \A e \in Withdrawn : Held(e) = 0
<1> SUFFICES ASSUME TypeOK, ScheduleInv, [Next]_planVars
             PROVE  /\ ScheduleInv'
                    /\ \A e \in Withdrawn : Held(e) = 0
  OBVIOUS
<1>1. CASE PrepareQueue
  BY <1>1, PrepareKeeps
<1>2. ASSUME want' = want
      PROVE  \A e \in Withdrawn : Held(e) = 0
  BY <1>2 DEF Withdrawn
<1>3. CASE \E e \in Edge : FindWork(e)
  BY <1>2, <1>3, FindWorkKeeps
<1>4. CASE \E e \in Edge : EdgeFailed(e)
  BY <1>2, <1>4, FailedKeeps
<1>5. CASE \E e \in Edge : \E unchanged \in SUBSET outs[e] : EdgeSucceeded(e, unchanged, {})
  BY <1>5, SucceededKeeps
<1>6. CASE UNCHANGED planVars
  <2>1. ScheduleInv'
    BY <1>6 DEF planVars, graph, history, ScheduleInv, Once, Entries, ScheduledReady,
                Fresh, NothingForgotten, Held, Count, Wanted, AllInputsReady,
                Producers, AllIns
  <2> QED
    BY <1>2, <1>6, <2>1 DEF planVars
<1> QED
  BY <1>1, <1>3, <1>4, <1>5, <1>6 DEF Next

\* The inductive invariant of scheduling holds in every reachable state.
THEOREM ScheduleCorrect == Spec => []ScheduleInv
<1>1. Init => TypeOK /\ ScheduleInv
  BY TypeInit, ScheduleInit
<1>2. TypeOK /\ ScheduleInv /\ [Next]_planVars => (TypeOK /\ ScheduleInv)'
  BY TypeStep, ScheduleStep
<1> QED
  BY <1>1, <1>2, PTL DEF Spec

\* No edge is queued, delayed or handed out before its inputs are done.
THEOREM InputsFirst == Spec => []InputsBuiltFirst
<1>1. ScheduleInv => InputsBuiltFirst
  BY DEF ScheduleInv, ScheduledReady, InputsBuiltFirst
<1> QED
  BY <1>1, ScheduleCorrect, PTL

\* No edge is handed out, or held, twice.
THEOREM AtMostOnce == Spec => []RunsOnce
<1>1. TypeOK /\ ScheduleInv => RunsOnce
  BY DEF TypeOK, ScheduleInv, Once, RunsOnce, Held, Count
<1> QED
  BY <1>1, TypeCorrect, ScheduleCorrect, PTL

\* A wanted edge that waits for nothing is held, unless it failed.
THEOREM NeverForgotten == Spec => []NothingForgotten
<1>1. ScheduleInv => NothingForgotten
  BY DEF ScheduleInv
<1> QED
  BY <1>1, ScheduleCorrect, PTL

\* CleanNode withdraws only edges that have not been scheduled.
THEOREM CleaningIsSafe == Spec => CleanedNotHeld
<1>1. TypeOK /\ ScheduleInv /\ [Next]_planVars =>
        [\A e \in Withdrawn : Held(e) = 0]_planVars
  BY ScheduleStep
<1> QED
  BY <1>1, TypeCorrect, ScheduleCorrect, PTL DEF Spec, CleanedNotHeld

-----------------------------------------------------------------------------
(***************************************************************************)
(* The sets written with Least are closed under their step.                *)
(***************************************************************************)
LEMMA InLeast ==
    ASSUME NEW D, NEW K, NEW x \in D, \A S \in K : x \in S
    PROVE  x \in D \ UNION {D \ S : S \in K}
  OBVIOUS

LEMMA NotReadyClosed ==
    ASSUME NEW dirtyEdges, NEW e \in Edge, NEW f \in Producers(e),
           f \in NotReadyEdges(dirtyEdges)
    PROVE  e \in NotReadyEdges(dirtyEdges)
<1> DEFINE waits == {g \in dirtyEdges : ~(g \in Phony /\ AllIns(g) = {})}
           F(S) == waits \cup {g \in Edge : Producers(g) \cap S # {}}
           K == {C \in SUBSET Edge : F(C) \cap Edge \subseteq C}
<1>1. NotReadyEdges(dirtyEdges) = Edge \ UNION {Edge \ S : S \in K}
  BY DEF NotReadyEdges, Least
<1>2. ASSUME NEW S \in K  PROVE e \in S
  <2>1. f \in S
    BY <1>1, BelowClosed
  <2>2. e \in F(S)
    BY <2>1
  <2> QED
    BY <2>2
<1> HIDE DEF K
<1> QED
  BY <1>1, <1>2, InLeast

LEMMA SortedClosed ==
    ASSUME NEW f \in Sorted, NEW e \in Producers(f)
    PROVE  e \in Sorted
<1> DEFINE F(S) == {g \in Edge : \/ outs[g] \cap Targets # {}
                                 \/ \E h \in S : g \in Producers(h)}
           K == {C \in SUBSET Edge : F(C) \cap Edge \subseteq C}
<1>1. Sorted = Edge \ UNION {Edge \ S : S \in K}
  BY DEF Sorted, Least
<1>2. e \in Edge
  BY DEF Producers
<1>3. ASSUME NEW S \in K  PROVE e \in S
  <2>1. f \in S
    BY <1>1, BelowClosed
  <2>2. e \in F(S)
    BY <1>2, <2>1
  <2> QED
    BY <1>2, <2>2
<1> HIDE DEF K
<1> QED
  BY <1>1, <1>2, <1>3, InLeast

\* An edge that is passed has its inputs done, by then.
LEMMA PassedReady ==
    ASSUME NEW w, NEW done, NEW seen, NEW Q,
           NEW f \in Passed(w, done, seen, Q)
    PROVE  AllInputsReady(f, done \cup Passed(w, done, seen, Q))
<1> DEFINE D == {g \in Edge \ HeldBack(Q) : w[g] = "Nothing"}
           F(S) == {g \in Edge : /\ g \in seen \cup OutEdges(NodesOf(S) \ Q)
                                 /\ AllInputsReady(g, done \cup S)}
           K == {C \in SUBSET D : F(C) \cap D \subseteq C}
           L == Passed(w, done, seen, Q)
           A == F(L) \cap D
<1>1. L = D \ UNION {D \ S : S \in K}
  BY DEF Passed, Least
<1>2. ASSUME NEW S \in K  PROVE L \subseteq S
  <2> HIDE DEF D, K, L
  <2> QED
    BY <1>1, <1>2, BelowClosed
<1>3. A \subseteq L
  <2>1. ASSUME NEW g \in A, NEW S \in K  PROVE g \in S
    <3>1. L \subseteq S
      BY <1>2
    <3>2. g \in F(S)
      BY <3>1 DEF AllInputsReady, OutEdges, NodesOf
    <3> QED
      BY <3>2
  <2>2. ASSUME NEW g \in A  PROVE g \in D /\ \A S \in K : g \in S
    BY <2>1
  <2> HIDE DEF D, K, A, L
  <2> QED
    BY <1>1, <2>2, InLeast
<1>4. A \in K
  <2>1. A \in SUBSET D
    OBVIOUS
  <2>2. ASSUME NEW g \in F(A) \cap D  PROVE g \in A
    BY <1>3 DEF AllInputsReady, OutEdges, NodesOf
  <2> QED
    BY <2>1, <2>2
<1>5. f \in A
  BY <1>2, <1>4
<1> QED
  BY <1>5

-----------------------------------------------------------------------------
(***************************************************************************)
(* Failures.  An edge that failed stays wanted and is not run again, so    *)
(* that it never becomes ready.                                            *)
(***************************************************************************)
FailedStay ==
    \A f \in failed : starts[f] > 0 /\ running[f] = 0 /\ f \in Wanted(want)

LEMMA BlocksInit == Init => FailedStay /\ FailureBlocks
<1> SUFFICES ASSUME Init  PROVE FailedStay /\ FailureBlocks
  OBVIOUS
<1>1. PICK dirtyEdges, scanned, notReady :
        /\ scanned = Sorted /\ notReady = NotReadyEdges(dirtyEdges)
        /\ oready = scanned \ notReady
  BY DEF Init
<1>2. failed = {}
  BY DEF Init
<1>3. ASSUME NEW e \in oready  PROVE AllInputsReady(e, oready)
  <2>1. e \in Edge /\ e \in Sorted /\ e \notin notReady
    BY <1>1 DEF Sorted, Least
  <2>2. ASSUME NEW f \in Producers(e)  PROVE f \in oready
    BY <1>1, <2>1, NotReadyClosed, SortedClosed
  <2> QED
    BY <2>2 DEF AllInputsReady
<1> QED
  BY <1>2, <1>3 DEF FailedStay, FailureBlocks

LEMMA BlocksStep ==
    ASSUME TypeOK, ScheduleInv, FailedStay, FailureBlocks, [Next]_planVars
    PROVE  FailedStay' /\ FailureBlocks'
<1>1. CASE PrepareQueue
  <2>1. /\ \A e \in Edge : starts[e] = 0 /\ running[e] = 0
        /\ UNCHANGED <<ins, outs, oready, failed>>
    BY <1>1 DEF PrepareQueue, graph, history, ScheduleInv, Fresh, Held, Count, TypeOK
  <2>2. failed = {}
    BY <2>1 DEF FailedStay, Wanted
  <2> QED
    BY <2>1, <2>2 DEF FailedStay, FailureBlocks, AllInputsReady, Producers, AllIns
<1>2. ASSUME NEW e \in Edge, FindWork(e)
      PROVE  FailedStay' /\ FailureBlocks'
  <2>1. /\ UNCHANGED <<ins, outs, oready, failed, want>> /\ ready[e] > 0
        /\ running' = [running EXCEPT ![e] = @ + 1]
        /\ starts' = [starts EXCEPT ![e] = @ + 1]
    BY <1>2 DEF FindWork, graph
  <2>2. e \notin failed
    BY <2>1 DEF FailedStay, ScheduleInv, Once, TypeOK, Count
  <2>3. FailedStay'
    BY <2>1, <2>2 DEF FailedStay, Wanted, TypeOK
  <2> QED
    BY <2>1, <2>3 DEF FailureBlocks, AllInputsReady, Producers, AllIns
<1>3. ASSUME NEW e \in Edge, EdgeFailed(e)
      PROVE  FailedStay' /\ FailureBlocks'
  <2>1. /\ UNCHANGED <<ins, outs, oready, starts, want>> /\ running[e] > 0
        /\ running' = [running EXCEPT ![e] = @ - 1]
        /\ failed' = failed \cup {e}
    BY <1>3 DEF EdgeFailed, graph
  <2>2. starts[e] = 1 /\ running[e] = 1
    BY <2>1 DEF ScheduleInv, Once, TypeOK, Count
  <2>3. e \in Wanted(want) /\ e \notin oready
    BY <2>2 DEF ScheduleInv, Entries, Wanted, Held, Count, TypeOK
  <2>4. FailedStay'
    BY <2>1, <2>2, <2>3 DEF FailedStay, Wanted, TypeOK
  <2> QED
    BY <2>1, <2>3, <2>4 DEF FailureBlocks, AllInputsReady, Producers, AllIns
<1>4. ASSUME NEW e \in Edge, NEW unchanged \in SUBSET outs[e],
             EdgeSucceeded(e, unchanged, {})
      PROVE  FailedStay' /\ FailureBlocks'
  <2> DEFINE cleaned == Cleaned(unchanged)
             w == WantAfter(e, cleaned)
  <2>1. PICK T \in SUBSET delayed, passed, sched, pooled, N \in SUBSET Edge :
          /\ passed = Passed(w, oready \cup {e}, OutEdges(outs[e]), {})
          /\ SettlesTo(w, oready \cup {e}, OutEdges(outs[e]), T, passed, sched, pooled, N)
    BY <1>4, SucceededEffect
  <2>2. SucceedsAs(e, cleaned, w, T, passed, sched, pooled, N)
    BY <1>4, <2>1, SucceededFacts
  <2>3. /\ UNCHANGED <<ins, outs, failed>>
        /\ oready' = oready \cup {e} \cup passed
    BY <2>1, <2>2 DEF SucceedsAs, SettlesTo, SettlesBy
  <2>4. AllInputsReady(e, oready)
    BY <2>2 DEF SucceedsAs, ScheduleInv, ScheduledReady
  <2>5. ASSUME NEW f \in passed  PROVE AllInputsReady(f, oready')
    BY <2>1, <2>3, PassedReady, HeldBackNone
  <2> HIDE DEF cleaned, w
  <2>6. ASSUME NEW f \in failed
        PROVE  /\ f \in Edge /\ f # e /\ f \notin cleaned /\ f \notin sched
               /\ w[f] \in {"ToStart", "ToFinish"} /\ f \notin passed
    <3>1. f \in Edge /\ starts[f] > 0 /\ running[f] = 0 /\ f \in Wanted(want)
      BY DEF FailedStay, Wanted
    <3>2. f # e /\ f \notin cleaned /\ f \notin sched
      BY <2>2, <3>1 DEF SucceedsAs
    <3>3. w[f] \in {"ToStart", "ToFinish"}
      BY <2>2, <3>1, <3>2 DEF SucceedsAs, Wanted
    <3> QED
      BY <2>2, <3>1, <3>2, <3>3 DEF SucceedsAs
  <2>7. FailedStay'
    <3> SUFFICES ASSUME NEW f \in failed
                 PROVE  starts'[f] > 0 /\ running'[f] = 0 /\ f \in Wanted(want')
      BY <2>3 DEF FailedStay
    <3>1. /\ running'[f] = running[f] /\ starts'[f] = starts[f] /\ want'[f] = w[f]
      BY <2>2, <2>6 DEF SucceedsAs
    <3> QED
      BY <2>6, <3>1 DEF FailedStay, Wanted
  <2>8. failed' \cap oready' = {}
    BY <2>3, <2>6 DEF FailureBlocks
  <2>9. ASSUME NEW f \in oready'  PROVE AllInputsReady(f, oready')
    <3>1. CASE f \in oready
      BY <2>3, <3>1 DEF FailureBlocks, AllInputsReady
    <3>2. CASE f = e
      BY <2>3, <2>4, <3>2 DEF AllInputsReady
    <3>3. CASE f \in passed
      BY <2>5, <3>3
    <3> QED
      BY <2>3, <3>1, <3>2, <3>3
  <2>10. \A f \in oready' : AllInputsReady(f, oready)'
    BY <2>3, <2>9 DEF AllInputsReady, Producers, AllIns
  <2> QED
    BY <2>7, <2>8, <2>10 DEF FailureBlocks
<1>5. CASE UNCHANGED planVars
  BY <1>5 DEF planVars, graph, history, FailedStay, FailureBlocks, AllInputsReady,
              Producers, AllIns, Wanted
<1> QED
  BY <1>1, <1>2, <1>3, <1>4, <1>5 DEF Next

-----------------------------------------------------------------------------
(***************************************************************************)
(* The counters.  An edge that is withdrawn or done leaves the wanted set  *)
(* and is counted once.                                                    *)
(***************************************************************************)
LEMMA CountedInit == Init => Counted
<1> SUFFICES ASSUME Init  PROVE Counted
  OBVIOUS
<1>1. wanted = Cardinality(Wanted(want)) /\ command = Cardinality(Wanted(want) \ Phony)
  BY DEF Init
<1>2. Cardinality(Wanted(want) \ Phony) \in Nat
  BY EdgeSetFinite DEF Wanted
<1> QED
  BY <1>1, <1>2 DEF Counted

\* The edge e leaves the wanted edges, and those that are withdrawn with it.
LEMMA CountedLeaves ==
    ASSUME TypeOK, Counted, NEW e \in Wanted(want), want[e] # "Nothing",
           NEW cleaned, cleaned \subseteq Wanted(want), e \notin cleaned,
           wanted' = wanted - Cardinality(cleaned) - (IF want[e] # "Nothing" THEN 1 ELSE 0),
           command' = command - Cardinality(cleaned \ Phony),
           Wanted(want') = (Wanted(want) \ cleaned) \ {e}
    PROVE  Counted'
<1> DEFINE W == Wanted(want)
<1>1. e \in Edge /\ e \in W /\ W \subseteq Edge /\ cleaned \subseteq W
  BY DEF Wanted
<1> HIDE DEF W
<1>2. IsFiniteSet(W) /\ IsFiniteSet(cleaned)
  BY <1>1, EdgeSetFinite
<1>3. Cardinality(W \ cleaned) = Cardinality(W) - Cardinality(cleaned)
  <2>1. W \cap cleaned = cleaned
    BY <1>1
  <2> QED
    BY <1>2, <2>1, FS_Difference
<1>4. Cardinality((W \ cleaned) \ {e}) = Cardinality(W \ cleaned) - 1
  <2>1. IsFiniteSet(W \ cleaned) /\ e \in W \ cleaned
    BY <1>1, EdgeSetFinite
  <2> QED
    BY <2>1, FS_RemoveElement
<1>5. Cardinality(W \ Phony) - Cardinality(cleaned \ Phony)
        >= Cardinality(((W \ cleaned) \ {e}) \ Phony)
  <2> DEFINE A == W \ Phony
             B == cleaned \ Phony
             C == ((W \ cleaned) \ {e}) \ Phony
  <2>1. A \cap B = B /\ C \subseteq A \ B
    BY <1>1
  <2>2. IsFiniteSet(A) /\ IsFiniteSet(A \ B)
    BY <1>1, EdgeSetFinite
  <2>3. Cardinality(A) \in Nat /\ Cardinality(B) \in Nat /\ Cardinality(C) \in Nat
    BY <1>1, EdgeSetFinite
  <2> HIDE DEF A, B, C
  <2>4. Cardinality(A \ B) = Cardinality(A) - Cardinality(B)
    BY <2>1, <2>2, FS_Difference
  <2>5. Cardinality(C) <= Cardinality(A \ B)
    BY <2>1, <2>2, FS_Subset
  <2>6. Cardinality(A) - Cardinality(B) >= Cardinality(C)
    BY <2>3, <2>4, <2>5
  <2> QED
    BY <2>6 DEF A, B, C
<1>6. /\ wanted = Cardinality(W) /\ command >= Cardinality(W \ Phony)
      /\ wanted \in Int /\ command \in Int
  BY DEF Counted, TypeOK, W
<1>7. /\ Cardinality(W \ Phony) \in Nat /\ Cardinality(cleaned \ Phony) \in Nat
      /\ Cardinality(cleaned) \in Nat /\ Cardinality(W) \in Nat
      /\ Cardinality(((W \ cleaned) \ {e}) \ Phony) \in Nat
  BY <1>1, EdgeSetFinite
<1>8. wanted' = Cardinality(Wanted(want'))
  BY <1>1, <1>3, <1>4, <1>6, <1>7 DEF W
<1>9. command' >= Cardinality(Wanted(want') \ Phony)
  <2> DEFINE a == Cardinality(W \ Phony)
             b == Cardinality(cleaned \ Phony)
             c == Cardinality(((W \ cleaned) \ {e}) \ Phony)
  <2>1. Wanted(want') = (W \ cleaned) \ {e}
    BY DEF W
  <2>2. /\ a - b >= c /\ a \in Nat /\ b \in Nat /\ c \in Nat
        /\ command >= a /\ command \in Int /\ command' = command - b
    BY <1>5, <1>6, <1>7
  <2> HIDE DEF a, b, c
  <2>3. command' >= c
    BY <2>2
  <2> QED
    BY <2>1, <2>3 DEF c
<1> QED
  BY <1>8, <1>9 DEF Counted

LEMMA CountedPrepare ==
    ASSUME Counted, PrepareQueue
    PROVE  Counted'
<1>1. UNCHANGED <<wanted, command>>
  BY DEF PrepareQueue
<1>2. PICK free \in SUBSET Edge :
        /\ \A f \in free : want[f] = "ToStart"
        /\ want' = [f \in Edge |-> IF f \in free THEN "ToFinish" ELSE want[f]]
  BY DEF PrepareQueue, InitialEdges
<1>3. Wanted(want') = Wanted(want)
  BY <1>2 DEF Wanted
<1> QED
  BY <1>1, <1>3 DEF Counted

LEMMA CountedStep ==
    ASSUME TypeOK, ScheduleInv, Counted, [Next]_planVars
    PROVE  Counted'
<1>1. CASE PrepareQueue
  BY <1>1, CountedPrepare
<1>2. ASSUME NEW e \in Edge, FindWork(e)  PROVE Counted'
  BY <1>2 DEF FindWork, Counted
<1>3. ASSUME NEW e \in Edge, EdgeFailed(e)  PROVE Counted'
  BY <1>3 DEF EdgeFailed, Counted
<1>4. ASSUME NEW e \in Edge, NEW unchanged \in SUBSET outs[e],
             EdgeSucceeded(e, unchanged, {})
      PROVE  Counted'
  <2> DEFINE cleaned == Cleaned(unchanged)
             w == WantAfter(e, cleaned)
  <2>1. PICK T \in SUBSET delayed, passed, sched, pooled, N \in SUBSET Edge :
          SettlesTo(w, oready \cup {e}, OutEdges(outs[e]), T, passed, sched, pooled, N)
    BY <1>4, SucceededEffect
  <2>2. SucceedsAs(e, cleaned, w, T, passed, sched, pooled, N)
    BY <1>4, <2>1, SucceededFacts
  <2>3. /\ wanted' = wanted - Cardinality(cleaned)
                     - (IF want[e] # "Nothing" THEN 1 ELSE 0)
        /\ command' = command - Cardinality(cleaned \ Phony)
    BY <1>4 DEF EdgeSucceeded
  <2>4. /\ want[e] # "Nothing" /\ e \in Wanted(want) /\ e \notin cleaned
        /\ cleaned \subseteq Wanted(want)
    BY <2>2 DEF SucceedsAs, Wanted
  <2>5. \A f \in Edge : /\ want'[f] = IF f \in passed THEN "Absent"
                                      ELSE IF f \in sched THEN "ToFinish" ELSE w[f]
                        /\ f \in passed => w[f] = "Nothing"
                        /\ f \in sched => w[f] = "ToStart"
    BY <2>2 DEF SucceedsAs
  <2>6. \A f \in Edge : /\ f = e => w[f] = "Absent"
                        /\ f \in cleaned => w[f] = "Nothing"
                        /\ f # e /\ f \notin cleaned => w[f] = want[f]
    BY <2>2 DEF SucceedsAs
  <2> HIDE DEF cleaned, w
  <2>7. Wanted(want') = (Wanted(want) \ cleaned) \ {e}
    BY <2>5, <2>6 DEF Wanted
  <2> QED
    BY <2>3, <2>4, <2>7, CountedLeaves
<1>5. CASE UNCHANGED planVars
  BY <1>5 DEF planVars, Counted
<1> QED
  BY <1>1, <1>2, <1>3, <1>4, <1>5 DEF Next

-----------------------------------------------------------------------------
(***************************************************************************)
(* The pools.                                                              *)
(***************************************************************************)
\* A pool that admits as many of P as it can is not overfilled, and is full if
\* it keeps one back.
LEMMA AdmitsFills ==
    ASSUME NEW p \in Pool, NEW u \in Int, u <= Depth[p],
           NEW P \in SUBSET Edge, NEW N \in SUBSET P,
           Cardinality(N) = Admits(p, u, Cardinality(P))
    PROVE  /\ u + Cardinality(N) <= Depth[p]
           /\ P \ N # {} => u + Cardinality(N) = Depth[p]
<1>1. IsFiniteSet(P) /\ Cardinality(P) \in Nat /\ Cardinality(N) \in Nat
  BY EdgeSetFinite
<1>2. Depth[p] \in Nat
  BY GraphAssumption DEF GraphAssumption
<1>3. Cardinality(N) = Cardinality(P) => P = N
  BY <1>1, FS_Subset
<1>4. CASE Cardinality(P) <= Depth[p] - u
  <2>1. Cardinality(N) = Cardinality(P)
    BY <1>4 DEF Admits
  <2> QED
    BY <1>1, <1>2, <1>3, <1>4, <2>1
<1>5. CASE ~(Cardinality(P) <= Depth[p] - u)
  <2>1. Cardinality(N) = Depth[p] - u
    BY <1>5 DEF Admits
  <2> QED
    BY <1>1, <1>2, <2>1
<1> QED
  BY <1>4, <1>5

\* Edges of different kinds are counted apart.
LEMMA CountApart ==
    ASSUME NEW A \in SUBSET Edge, NEW B \in SUBSET Edge, A \cap B = {}
    PROVE  Cardinality(A \cup B) = Cardinality(A) + Cardinality(B)
<1>1. /\ IsFiniteSet(A) /\ IsFiniteSet(B)
      /\ Cardinality(A) \in Nat /\ Cardinality(B) \in Nat
  BY EdgeSetFinite
<1>2. Cardinality(A \cap B) = 0
  BY FS_EmptySet
<1>3. Cardinality(A \cup B) = Cardinality(A) + Cardinality(B) - Cardinality(A \cap B)
  BY <1>1, FS_Union
<1> QED
  BY <1>1, <1>2, <1>3

\* The pool p when its places are held by B and the edges D wait for it.
Filled(p, u, B, D) ==
    /\ u = Cardinality(B)
    /\ u <= Depth[p]
    /\ D \cap Members(p) # {} => u = Depth[p]

\* Who holds a place once e has left and T has been released.
PlacedAfter(p, e, T) == (Placed(p) \ {e}) \cup (T \cap Members(p))

LEMMA ReleaseFills ==
    ASSUME TypeOK, Once, PoolsKept, NEW e \in Edge, running[e] > 0, want[e] # "Nothing",
           NEW T \in SUBSET delayed, Released(e, T),
           NEW p \in Pool, Depth[p] # 0
    PROVE  Filled(p, UseWithout(e)[p] + Cardinality(T \cap Members(p)),
                  PlacedAfter(p, e, T), delayed \ T)
<1>2. ASSUME NEW f \in delayed  PROVE f \in Edge /\ ready[f] = 0 /\ running[f] = 0
  <2>1. f \in Edge /\ starts[f] \in Nat /\ ready[f] \in Nat /\ running[f] \in Nat
    BY DEF TypeOK
  <2>2. starts[f] + ready[f] + 1 <= 1 /\ running[f] <= starts[f]
    BY <2>1 DEF Once, Count
  <2> QED
    BY <2>1, <2>2
<1>3. T \subseteq Members(PoolOf[e]) /\ T \in SUBSET Edge
  BY DEF Released, Retrieved, Members
<1>4. /\ use[p] = Cardinality(Placed(p)) /\ use[p] <= Depth[p]
      /\ delayed \cap Members(p) # {} => use[p] = Depth[p]
      /\ use[p] \in Int /\ Depth[p] \in Nat
  BY GraphAssumption DEF PoolsKept, TypeOK, GraphAssumption
<1>5. Placed(p) \in SUBSET Edge
  BY DEF Placed, Members
<1>6. CASE PoolOf[e] = p
  <2>1. UseWithout(e)[p] = use[p] - 1
    BY <1>6 DEF UseWithout
  <2>2. e \in Placed(p)
    BY <1>6 DEF Placed, Members, TypeOK
  <2>3. Cardinality(Placed(p) \ {e}) = use[p] - 1
    BY <1>4, <1>5, <2>2, EdgeSetFinite, FS_RemoveElement
  <2>4. T \cap Members(p) = T
    BY <1>3, <1>6
  <2>5. T \cap (Placed(p) \ {e}) = {}
    BY <1>2 DEF Placed
  <2>6. Cardinality(PlacedAfter(p, e, T)) = (use[p] - 1) + Cardinality(T)
    <3>1. Placed(p) \ {e} \in SUBSET Edge
      BY <1>5
    <3> QED
      BY <1>3, <2>3, <2>4, <2>5, <3>1, CountApart DEF PlacedAfter
  <2>7. /\ T \in SUBSET (delayed \cap Members(p))
        /\ Cardinality(T) = Admits(p, use[p] - 1, Cardinality(delayed \cap Members(p)))
    BY <1>6, <2>1 DEF Released, Retrieved
  <2>8. /\ (use[p] - 1) + Cardinality(T) <= Depth[p]
        /\ (delayed \cap Members(p)) \ T # {} => (use[p] - 1) + Cardinality(T) = Depth[p]
    <3>1. delayed \cap Members(p) \in SUBSET Edge
      BY DEF TypeOK
    <3>2. use[p] - 1 \in Int /\ use[p] - 1 <= Depth[p]
      BY <1>4
    <3> QED
      BY <2>7, <3>1, <3>2, AdmitsFills
  <2>9. (delayed \ T) \cap Members(p) # {} => (delayed \cap Members(p)) \ T # {}
    OBVIOUS
  <2> QED
    BY <2>1, <2>4, <2>6, <2>8, <2>9 DEF Filled
<1>7. CASE PoolOf[e] # p
  <2>1. UseWithout(e)[p] = use[p]
    BY <1>7 DEF UseWithout
  <2>2. T \cap Members(p) = {}
    BY <1>3, <1>7 DEF Members
  <2>3. PlacedAfter(p, e, T) = Placed(p)
    BY <1>7, <2>2 DEF PlacedAfter, Placed, Members
  <2>4. UseWithout(e)[p] + Cardinality(T \cap Members(p)) = use[p]
    BY <1>4, <2>1, <2>2, FS_EmptySet
  <2>5. (delayed \ T) \cap Members(p) # {} => delayed \cap Members(p) # {}
    OBVIOUS
  <2> QED
    BY <1>4, <2>3, <2>4, <2>5 DEF Filled
<1> QED
  BY <1>6, <1>7

LEMMA PoolsInit == Init => PoolsKept
<1> SUFFICES ASSUME Init, NEW p \in Pool, Depth[p] # 0
             PROVE  /\ use[p] = Cardinality(Placed(p)) /\ use[p] <= Depth[p]
                    /\ delayed \cap Members(p) # {} => use[p] = Depth[p]
  BY DEF PoolsKept
<1>1. use[p] = 0 /\ delayed = {}
  BY DEF Init
<1>2. Placed(p) = {}
  BY DEF Init, Placed, Members
<1>3. Depth[p] \in Nat
  BY GraphAssumption DEF GraphAssumption
<1> QED
  BY <1>1, <1>2, <1>3, FS_EmptySet

LEMMA PoolBooks ==
    ASSUME TypeOK, PoolsKept, NEW p \in Pool, Depth[p] # 0
    PROVE  /\ use[p] = Cardinality(Placed(p)) /\ use[p] <= Depth[p]
           /\ delayed \cap Members(p) # {} => use[p] = Depth[p]
           /\ use[p] \in Int /\ Depth[p] \in Nat
           /\ Cardinality({}) = 0 /\ {} \cap Members(p) = {}
  BY GraphAssumption, FS_EmptySet DEF PoolsKept, TypeOK, GraphAssumption

LEMMA PoolsPrepare ==
    ASSUME TypeOK, Fresh, PoolsKept, PrepareQueue
    PROVE  PoolsKept'
<1> SUFFICES ASSUME NEW p \in Pool, Depth[p] # 0
             PROVE  Filled(p, use'[p], Placed(p)', delayed')
  BY DEF PoolsKept, Filled
<1>0. /\ use[p] = Cardinality(Placed(p)) /\ use[p] <= Depth[p]
      /\ delayed \cap Members(p) # {} => use[p] = Depth[p]
      /\ use[p] \in Int /\ Depth[p] \in Nat
      /\ Cardinality({}) = 0 /\ {} \cap Members(p) = {}
  BY PoolBooks
<1>1. PICK pooled, free, T \in SUBSET Edge :
        /\ pooled = {f \in InitialEdges : ShouldDelayEdge(f)}
        /\ free = InitialEdges \ pooled /\ T \subseteq pooled
        /\ Retrieved(weight', p, use[p], pooled \cap Members(p), T \cap Members(p))
        /\ ready' = [f \in Edge |-> ready[f] + Count(f, free) + Count(f, T) + Count(f, {})]
        /\ use'[p] = use[p] + Cardinality(T \cap Members(p))
                            + Cardinality({} \cap Members(p))
        /\ delayed' = pooled \ T
  <2>1. PICK pooled, free, T :
          /\ pooled = {f \in InitialEdges : ShouldDelayEdge(f)}
          /\ free = InitialEdges \ pooled /\ T \subseteq pooled
          /\ \A q \in Pool : Depth[q] # 0 =>
               Retrieved(weight', q, use[q], pooled \cap Members(q), T \cap Members(q))
          /\ Push(use, free, T, {})
          /\ delayed' = pooled \ T
    BY DEF PrepareQueue
  <2>2. pooled \in SUBSET Edge /\ free \in SUBSET Edge /\ T \in SUBSET Edge
    BY <2>1 DEF InitialEdges
  <2>3. /\ ready' = [f \in Edge |-> ready[f] + Count(f, free) + Count(f, T) + Count(f, {})]
        /\ use'[p] = use[p] + Cardinality(T \cap Members(p))
                            + Cardinality({} \cap Members(p))
    BY <2>1 DEF Push
  <2> QED
    BY <2>1, <2>2, <2>3
<1>2. \A f \in Edge : ready[f] = 0 /\ running[f] = 0 /\ running'[f] = 0
  BY DEF PrepareQueue, history, Fresh, Held, Count, TypeOK
<1>3. Placed(p) = {} /\ use[p] = 0
  <2>1. \A f \in Edge : ~(ready[f] + running[f] > 0)
    BY <1>2
  <2>2. Placed(p) = {}
    BY <2>1 DEF Placed, Members
  <2> QED
    BY <1>0, <2>2
<1>4. Placed(p)' = T \cap Members(p)
  BY <1>1, <1>2 DEF Placed, Members, Count, ShouldDelayEdge
<1>5. Cardinality(T \cap Members(p)) \in Nat
  BY EdgeSetFinite
<1>6. use'[p] = Cardinality(T \cap Members(p))
  BY <1>0, <1>1, <1>3, <1>5
<1>7. /\ 0 + Cardinality(T \cap Members(p)) <= Depth[p]
      /\ (pooled \cap Members(p)) \ (T \cap Members(p)) # {}
           => 0 + Cardinality(T \cap Members(p)) = Depth[p]
  <2>1. /\ pooled \cap Members(p) \in SUBSET Edge
        /\ T \cap Members(p) \in SUBSET (pooled \cap Members(p))
        /\ Cardinality(T \cap Members(p))
             = Admits(p, 0, Cardinality(pooled \cap Members(p)))
    BY <1>1, <1>3 DEF Retrieved
  <2> QED
    BY <1>0, <2>1, AdmitsFills
<1>8. delayed' \cap Members(p) # {}
        => (pooled \cap Members(p)) \ (T \cap Members(p)) # {}
  BY <1>1
<1> QED
  BY <1>4, <1>5, <1>6, <1>7, <1>8 DEF Filled

LEMMA PoolsFindWork ==
    ASSUME TypeOK, PoolsKept, NEW e \in Edge, FindWork(e)
    PROVE  PoolsKept'
<1> SUFFICES ASSUME NEW p \in Pool, Depth[p] # 0
             PROVE  Filled(p, use'[p], Placed(p)', delayed')
  BY DEF PoolsKept, Filled
<1>0. /\ use[p] = Cardinality(Placed(p)) /\ use[p] <= Depth[p]
      /\ delayed \cap Members(p) # {} => use[p] = Depth[p]
      /\ use[p] \in Int /\ Depth[p] \in Nat
      /\ Cardinality({}) = 0 /\ {} \cap Members(p) = {}
  BY PoolBooks
<1>1. /\ ready[e] > 0 /\ ready' = [ready EXCEPT ![e] = @ - 1]
      /\ running' = [running EXCEPT ![e] = @ + 1] /\ UNCHANGED <<use, delayed>>
  BY DEF FindWork
<1>2. \A f \in Edge : ready'[f] + running'[f] = ready[f] + running[f]
  BY <1>1 DEF TypeOK
<1>3. Placed(p)' = Placed(p)
  BY <1>2 DEF Placed, Members
<1> QED
  BY <1>0, <1>1, <1>3 DEF Filled

LEMMA PoolsFailed ==
    ASSUME TypeOK, Once, PoolsKept, NEW e \in Edge, EdgeFailed(e), want[e] # "Nothing"
    PROVE  PoolsKept'
<1> SUFFICES ASSUME NEW p \in Pool, Depth[p] # 0
             PROVE  Filled(p, use'[p], Placed(p)', delayed')
  BY DEF PoolsKept, Filled
<1>0. /\ use[p] = Cardinality(Placed(p)) /\ use[p] <= Depth[p]
      /\ delayed \cap Members(p) # {} => use[p] = Depth[p]
      /\ use[p] \in Int /\ Depth[p] \in Nat
      /\ Cardinality({}) = 0 /\ {} \cap Members(p) = {}
  BY PoolBooks
<1>1. PICK T \in SUBSET delayed :
        /\ Released(e, T) /\ delayed' = delayed \ T
        /\ ready' = [f \in Edge |-> ready[f] + Count(f, {}) + Count(f, T) + Count(f, {})]
        /\ use'[p] = UseWithout(e)[p] + Cardinality(T \cap Members(p))
                                      + Cardinality({} \cap Members(p))
  BY DEF EdgeFailed, Push
<1>2. running[e] > 0 /\ running' = [running EXCEPT ![e] = @ - 1]
  BY DEF EdgeFailed
<1>3. Filled(p, UseWithout(e)[p] + Cardinality(T \cap Members(p)),
             PlacedAfter(p, e, T), delayed \ T)
  BY <1>1, <1>2, ReleaseFills
<1>4. running[e] = 1 /\ ready[e] = 0 /\ e \notin delayed
  <2>1. starts[e] + ready[e] + Count(e, delayed) <= 1 /\ running[e] <= starts[e]
    BY DEF Once
  <2>2. starts[e] \in Nat /\ running[e] \in Nat /\ ready[e] \in Nat
    BY DEF TypeOK
  <2> QED
    BY <1>2, <2>1, <2>2 DEF Count
<1>5. \A f \in Edge : /\ f = e => ready'[f] + running'[f] = 0
                      /\ f \in T => ready'[f] + running'[f] > 0
                      /\ f # e /\ f \notin T => ready'[f] + running'[f] = ready[f] + running[f]
  BY <1>1, <1>2, <1>4 DEF Count, TypeOK
<1>6. Placed(p)' = PlacedAfter(p, e, T)
  BY <1>4, <1>5 DEF Placed, PlacedAfter, Members
<1>7. use'[p] = UseWithout(e)[p] + Cardinality(T \cap Members(p))
  <2>1. UseWithout(e)[p] \in Int /\ Cardinality(T \cap Members(p)) \in Nat
    BY UseWithoutType, EdgeSetFinite DEF TypeOK
  <2> QED
    BY <1>0, <1>1, <2>1
<1> QED
  BY <1>1, <1>3, <1>6, <1>7

\* A pool in which B hold a place once T has been released: it admits N of the
\* edges that ask for one.
LEMMA SettleFills ==
    ASSUME TypeOK, NEW p \in Pool, Depth[p] # 0, NEW used \in [Pool -> Int],
           NEW T \in SUBSET Edge, NEW B \in SUBSET Edge,
           Filled(p, used[p] + Cardinality(T \cap Members(p)), B, delayed \ T),
           NEW sched, NEW pooled \in SUBSET Edge, NEW N \in SUBSET pooled,
           Pooled(used, T, sched, pooled, N),
           B \cap N = {}, Placed(p)' = B \cup (N \cap Members(p)),
           delayed' = (delayed \ T) \cup (pooled \ N)
    PROVE  Filled(p, use'[p], Placed(p)', delayed')
<1> DEFINE M == Members(p)
           u == used[p] + Cardinality(T \cap M)
<1>1. /\ N \cap M \in SUBSET Edge /\ pooled \cap M \in SUBSET Edge
      /\ N \cap M \in SUBSET (pooled \cap M)
      /\ Cardinality(B) \in Nat /\ Cardinality(N \cap M) \in Nat
  <2>1. N \cap M \in SUBSET Edge /\ pooled \cap M \in SUBSET Edge
    OBVIOUS
  <2> HIDE DEF M
  <2> QED
    BY <2>1, EdgeSetFinite
<1>2. u = Cardinality(B) /\ u <= Depth[p] /\ u \in Int
  BY <1>1 DEF Filled
<1>3. Cardinality(Placed(p)') = Cardinality(B) + Cardinality(N \cap M)
  <2>1. B \cap (N \cap M) = {} /\ Placed(p)' = B \cup (N \cap M)
    OBVIOUS
  <2> HIDE DEF M
  <2> QED
    BY <1>1, <2>1, CountApart
<1>4. use'[p] = u + Cardinality(N \cap M)
  BY DEF Pooled, Push
<1>5. /\ u + Cardinality(N \cap M) <= Depth[p]
      /\ (pooled \cap M) \ (N \cap M) # {} => u + Cardinality(N \cap M) = Depth[p]
  <2>1. Cardinality(N \cap M) = Admits(p, u, Cardinality(pooled \cap M))
    BY DEF Pooled, Admitted
  <2> HIDE DEF u, M
  <2> QED
    BY <1>1, <1>2, <2>1, AdmitsFills
<1>6. delayed' \cap M # {} => u + Cardinality(N \cap M) = Depth[p]
  <2>1. CASE (delayed \ T) \cap M # {}
    <3>1. u = Depth[p] /\ Depth[p] \in Nat
      BY <2>1, GraphAssumption DEF Filled, GraphAssumption
    <3> HIDE DEF u, M
    <3> QED
      BY <1>1, <1>5, <3>1
  <2>2. CASE (pooled \ N) \cap M # {}
    BY <1>5, <2>2
  <2> QED
    BY <2>1, <2>2
<1> HIDE DEF u
<1> QED
  BY <1>2, <1>3, <1>4, <1>5, <1>6 DEF Filled

\* The edge e leaves, T is released, and edges that were not held are scheduled.
LEMMA PoolsSettled ==
    ASSUME TypeOK, Once, PoolsKept, NEW e \in Edge, running[e] > 0, want[e] # "Nothing",
           running' = [running EXCEPT ![e] = @ - 1],
           NEW T \in SUBSET delayed, Released(e, T),
           NEW sched \in SUBSET Edge, NEW pooled \in SUBSET sched, NEW N \in SUBSET pooled,
           Pooled(UseWithout(e), T, sched, pooled, N),
           delayed' = (delayed \ T) \cup (pooled \ N),
           \A f \in sched : Held(f) = 0
    PROVE  PoolsKept'
<1> SUFFICES ASSUME NEW p \in Pool, Depth[p] # 0
             PROVE  Filled(p, use'[p], Placed(p)', delayed')
  BY DEF PoolsKept, Filled
<1> DEFINE M == Members(p)
           B == PlacedAfter(p, e, T)
<1>1. T \in SUBSET Edge /\ UseWithout(e) \in [Pool -> Int]
  BY UseWithoutType DEF TypeOK
<1>2. running[e] = 1 /\ ready[e] = 0 /\ e \notin delayed
  <2>1. starts[e] + ready[e] + Count(e, delayed) <= 1 /\ running[e] <= starts[e]
    BY DEF Once
  <2>2. starts[e] \in Nat /\ running[e] \in Nat /\ ready[e] \in Nat
    BY DEF TypeOK
  <2> QED
    BY <2>1, <2>2 DEF Count
<1>3. Filled(p, UseWithout(e)[p] + Cardinality(T \cap M), B, delayed \ T)
  BY ReleaseFills
<1>4. \A f \in sched : f # e /\ f \notin delayed /\ ready[f] + running[f] = 0
  BY <1>2 DEF Held, Count, TypeOK
<1>5. ASSUME NEW f \in M
      PROVE  /\ f \in T \cup N => ready'[f] + running'[f] > 0
             /\ f = e => ready'[f] + running'[f] = 0
             /\ f # e /\ f \notin T \cup N
                  => ready'[f] + running'[f] = ready[f] + running[f]
  <2>1. f \in Edge /\ ready[f] \in Nat /\ running[f] \in Nat
    BY DEF TypeOK, Members
  <2>2. f \notin sched \ pooled
    BY <1>5 DEF Pooled, ShouldDelayEdge, Members
  <2>3. ready'[f] = ready[f] + (IF f \in T THEN 1 ELSE 0) + (IF f \in N THEN 1 ELSE 0)
    BY <2>1, <2>2 DEF Pooled, Push, Count
  <2>4. running'[f] = IF f = e THEN 0 ELSE running[f]
    BY <1>2, <2>1 DEF TypeOK
  <2>5. f = e => f \notin T /\ f \notin N
    BY <1>2, <1>4
  <2> QED
    BY <1>2, <2>1, <2>3, <2>4, <2>5
<1>6. Placed(p)' = B \cup (N \cap M)
  <2>1. e \notin T \cup N
    BY <1>2, <1>4
  <2>2. Placed(p)' = {f \in M : ready'[f] + running'[f] > 0}
    BY DEF Placed, Members
  <2>3. Placed(p) = {f \in M : ready[f] + running[f] > 0}
    BY DEF Placed, Members
  <2> HIDE DEF M
  <2> QED
    BY <1>5, <2>1, <2>2, <2>3 DEF PlacedAfter, M
<1>7. B \in SUBSET Edge /\ B \cap N = {}
  BY <1>4 DEF PlacedAfter, Placed, Members
<1> HIDE DEF B
<1> QED
  BY <1>1, <1>3, <1>6, <1>7, SettleFills

LEMMA PoolsStep ==
    ASSUME TypeOK, ScheduleInv, PoolsKept, [Next]_planVars
    PROVE  PoolsKept'
<1>0. Once /\ Fresh
  BY DEF ScheduleInv
<1>1. ASSUME NEW e \in Edge, running[e] > 0  PROVE want[e] # "Nothing"
  <2>1. Held(e) > 0
    BY <1>1 DEF Held, Count, TypeOK
  <2> QED
    BY <2>1 DEF ScheduleInv, Entries
<1>2. CASE PrepareQueue
  BY <1>0, <1>2, PoolsPrepare
<1>3. ASSUME NEW e \in Edge, FindWork(e)  PROVE PoolsKept'
  BY <1>3, PoolsFindWork
<1>4. ASSUME NEW e \in Edge, EdgeFailed(e)  PROVE PoolsKept'
  <2>1. running[e] > 0
    BY <1>4 DEF EdgeFailed
  <2> QED
    BY <1>0, <1>1, <1>4, <2>1, PoolsFailed
<1>5. ASSUME NEW e \in Edge, NEW unchanged \in SUBSET outs[e],
             EdgeSucceeded(e, unchanged, {})
      PROVE  PoolsKept'
  <2> DEFINE cleaned == Cleaned(unchanged)
             w == WantAfter(e, cleaned)
  <2>1. PICK T \in SUBSET delayed, passed, sched, pooled, N \in SUBSET Edge :
          /\ SettlesTo(w, oready \cup {e}, OutEdges(outs[e]), T, passed, sched, pooled, N)
          /\ Released(e, T)
          /\ Pooled(UseWithout(e), T, sched, pooled, N)
    BY <1>5, SucceededEffect
  <2>2. SucceedsAs(e, cleaned, w, T, passed, sched, pooled, N)
    BY <1>5, <2>1, SucceededFacts
  <2> HIDE DEF cleaned, w
  <2>3. /\ running[e] > 0 /\ running' = [running EXCEPT ![e] = @ - 1]
        /\ N \subseteq pooled /\ pooled \subseteq sched
        /\ \A f \in sched : Held(f) = 0
    BY <2>2 DEF SucceedsAs
  <2>4. delayed' = (delayed \ T) \cup (pooled \ N)
    BY <2>1 DEF SettlesTo, SettlesBy
  <2> QED
    BY <1>0, <1>1, <2>1, <2>3, <2>4, PoolsSettled
<1>6. CASE UNCHANGED planVars
  BY <1>6 DEF planVars, history, PoolsKept, Placed, Members
<1> QED
  BY <1>2, <1>3, <1>4, <1>5, <1>6 DEF Next

-----------------------------------------------------------------------------
\* The inductive invariant: the schedule, and the books kept about it.
BooksInv == TypeOK /\ ScheduleInv /\ FailedStay /\ BooksKept

LEMMA BooksInit == Init => BooksInv
  BY TypeInit, ScheduleInit, BlocksInit, CountedInit, PoolsInit DEF BooksInv, BooksKept

LEMMA BooksStep == BooksInv /\ [Next]_planVars => BooksInv'
<1> SUFFICES ASSUME BooksInv, [Next]_planVars  PROVE BooksInv'
  OBVIOUS
<1>1. TypeOK /\ ScheduleInv /\ FailedStay /\ PoolsKept /\ Counted /\ FailureBlocks
  BY DEF BooksInv, BooksKept
<1>2. TypeOK' /\ ScheduleInv'
  BY <1>1, TypeStep, ScheduleStep
<1>3. FailedStay' /\ FailureBlocks' /\ Counted' /\ PoolsKept'
  BY <1>1, BlocksStep, CountedStep, PoolsStep
<1> QED
  BY <1>2, <1>3 DEF BooksInv, BooksKept

LEMMA BooksInvariant == Spec => []BooksInv
  BY BooksInit, BooksStep, PTL DEF Spec

\* In every graph and every order of events: each pool counts the edges that
\* hold a place in it, never more than its depth, and holds none back while it
\* has room; the counters that decide whether there is more to do are right; and
\* nothing that needs the outputs of a failed edge counts as done.
THEOREM BooksRight == Spec => []BooksKept
<1>1. BooksInv => BooksKept
  BY DEF BooksInv
<1> QED
  BY <1>1, BooksInvariant, PTL

-----------------------------------------------------------------------------
(***************************************************************************)
(* Progress.                                                               *)
(***************************************************************************)

\* The graph is the manifest's: Plan adds nothing to it.
GraphKept == ins = Inputs /\ outs = Outputs

\* Only an edge of a pool with a depth is delayed.
DelayedPooled == \A e \in delayed : Depth[PoolOf[e]] # 0

\* What an edge with an entry needs is done, or has an entry itself.
EntriesClosed ==
    \A e \in Edge : want[e] # "Absent" =>
      \A p \in Producers(e) : p \in oready \/ want[p] # "Absent"

\* An edge with nothing to do is passed as soon as its inputs are done.
NothingWaits ==
    \A e \in Edge : want[e] = "Nothing" => ~AllInputsReady(e, oready)

\* command_edges_ counts the commands that are wanted or have been started, and
\* there always is one: the command that cleans the others has been started itself.
Commands == {e \in Edge \ Phony : e \in Wanted(want) \/ starts[e] > 0}
CommandsCounted == command = Cardinality(Commands) /\ Commands # {}

ProgressInv ==
    GraphKept /\ DelayedPooled /\ EntriesClosed /\ NothingWaits /\ CommandsCounted

-----------------------------------------------------------------------------
(***************************************************************************)
(* The sets written with Least hold nothing but what their step gives, and *)
(* all of it.                                                              *)
(***************************************************************************)
LEMMA NotReadyReason ==
    ASSUME NEW dirtyEdges, NEW e \in NotReadyEdges(dirtyEdges)
    PROVE  e \in dirtyEdges \/ \E f \in Producers(e) : f \in NotReadyEdges(dirtyEdges)
<1> DEFINE waits == {g \in dirtyEdges : ~(g \in Phony /\ AllIns(g) = {})}
           F(S) == waits \cup {g \in Edge : Producers(g) \cap S # {}}
           K == {C \in SUBSET Edge : F(C) \cap Edge \subseteq C}
           L == NotReadyEdges(dirtyEdges)
           A == F(L) \cap Edge
<1>1. L = Edge \ UNION {Edge \ S : S \in K}
  BY DEF NotReadyEdges, Least
<1>2. ASSUME NEW S \in K  PROVE L \subseteq S
  <2> HIDE DEF K, L
  <2> QED
    BY <1>1, <1>2, BelowClosed
<1>3. ASSUME NEW g \in A  PROVE g \in L
  <2>1. ASSUME NEW S \in K  PROVE g \in S
    <3>1. L \subseteq S
      BY <1>2
    <3>2. g \in F(S) \cap Edge
      BY <1>3, <3>1
    <3> QED
      BY <3>2
  <2>2. g \in Edge
    BY <1>3
  <2> HIDE DEF K, L, A
  <2> QED
    BY <1>1, <2>1, <2>2, InLeast
<1>4. A \in K
  <2>1. A \subseteq L
    BY <1>3
  <2>2. ASSUME NEW g \in F(A) \cap Edge  PROVE g \in A
    BY <2>1
  <2> QED
    BY <2>2
<1>5. e \in A
  BY <1>2, <1>4
<1> QED
  BY <1>5

LEMMA SortedTarget ==
    ASSUME NEW e \in Edge, outs[e] \cap Targets # {}
    PROVE  e \in Sorted
<1> DEFINE F(S) == {g \in Edge : \/ outs[g] \cap Targets # {}
                                 \/ \E h \in S : g \in Producers(h)}
           K == {C \in SUBSET Edge : F(C) \cap Edge \subseteq C}
<1>1. Sorted = Edge \ UNION {Edge \ S : S \in K}
  BY DEF Sorted, Least
<1>2. ASSUME NEW S \in K  PROVE e \in S
  OBVIOUS
<1> HIDE DEF K
<1> QED
  BY <1>1, <1>2, InLeast

LEMMA ReachedSorted ==
    ASSUME NEW notReady, notReady \subseteq Edge
    PROVE  Reached(notReady) \subseteq Sorted /\ Reached(notReady) \subseteq notReady
<1> DEFINE F(S) == {g \in Edge : \/ outs[g] \cap Targets # {}
                                 \/ \E h \in S : g \in Producers(h)}
           K == {C \in SUBSET notReady : F(C) \cap notReady \subseteq C}
           A == Sorted \cap notReady
<1>1. Reached(notReady) = notReady \ UNION {notReady \ S : S \in K}
  BY DEF Reached, Least
<1>2. A \in K
  <2>1. ASSUME NEW g \in F(A) \cap notReady  PROVE g \in Sorted
    <3>1. CASE outs[g] \cap Targets # {}
      BY <3>1, SortedTarget
    <3>2. CASE \E h \in A : g \in Producers(h)
      BY <3>2, SortedClosed
    <3> QED
      BY <3>1, <3>2
  <2> QED
    BY <2>1
<1> HIDE DEF K, A
<1>3. Reached(notReady) \subseteq A
  BY <1>1, <1>2, BelowClosed
<1> QED
  BY <1>1, <1>3 DEF A

LEMMA ReachedClosed ==
    ASSUME NEW notReady, NEW f \in Reached(notReady), NEW e \in Producers(f), e \in notReady
    PROVE  e \in Reached(notReady)
<1> DEFINE F(S) == {g \in Edge : \/ outs[g] \cap Targets # {}
                                 \/ \E h \in S : g \in Producers(h)}
           K == {C \in SUBSET notReady : F(C) \cap notReady \subseteq C}
<1>1. Reached(notReady) = notReady \ UNION {notReady \ S : S \in K}
  BY DEF Reached, Least
<1>2. e \in Edge
  BY DEF Producers
<1>3. ASSUME NEW S \in K  PROVE e \in S
  <2>1. f \in S
    BY <1>1, BelowClosed
  <2>2. e \in F(S)
    BY <1>2, <2>1
  <2> QED
    BY <2>2
<1> HIDE DEF K
<1> QED
  BY <1>1, <1>3, InLeast

LEMMA PassedClosed ==
    ASSUME NEW w, NEW done, NEW seen, NEW Q,
           NEW f \in Edge \ HeldBack(Q), w[f] = "Nothing",
           f \in seen \cup OutEdges(NodesOf(Passed(w, done, seen, Q)) \ Q),
           AllInputsReady(f, done \cup Passed(w, done, seen, Q))
    PROVE  f \in Passed(w, done, seen, Q)
<1> DEFINE D == {g \in Edge \ HeldBack(Q) : w[g] = "Nothing"}
           F(S) == {g \in Edge : /\ g \in seen \cup OutEdges(NodesOf(S) \ Q)
                                 /\ AllInputsReady(g, done \cup S)}
           K == {C \in SUBSET D : F(C) \cap D \subseteq C}
           L == Passed(w, done, seen, Q)
<1>1. L = D \ UNION {D \ S : S \in K}
  BY DEF Passed, Least
<1>2. ASSUME NEW S \in K  PROVE f \in S
  <2>1. L \subseteq S
    <3> HIDE DEF D, K, L
    <3> QED
      BY <1>1, <1>2, BelowClosed
  <2>2. f \in F(S) \cap D
    BY <2>1 DEF AllInputsReady, OutEdges, NodesOf
  <2> QED
    BY <2>2
<1>3. f \in D
  OBVIOUS
<1> HIDE DEF D, K, L
<1>4. f \in L
  BY <1>1, <1>2, <1>3, InLeast
<1> QED
  BY <1>4 DEF L

\* Nothing is cleaned after a command that changed all that it makes.
LEMMA CleanedNone == Cleaned({}) = {}
<1> DEFINE D == Wanted(want) \ (depsMissing \cup stale)
           F(C) == {f \in Edge :
                      /\ AllIns(f) \cap ({} \cup NodesOf(C)) # {}
                      /\ ins[f] \cap (dirty \ ({} \cup NodesOf(C))) = {}}
           K == {C \in SUBSET D : F(C) \cap D \subseteq C}
<1>1. Cleaned({}) = D \ UNION {D \ S : S \in K}
  BY DEF Cleaned, Least
<1>2. {} \in K
  BY DEF NodesOf
<1> HIDE DEF D, K
<1> QED
  BY <1>1, <1>2, BelowClosed

-----------------------------------------------------------------------------
LEMMA ProgressInit == Init => ProgressInv
<1> SUFFICES ASSUME Init  PROVE ProgressInv
  OBVIOUS
<1>1. PICK dirtyEdges, notReady, reached :
        /\ notReady = NotReadyEdges(dirtyEdges) /\ reached = Reached(notReady)
        /\ oready = Sorted \ notReady
        /\ want = [e \in Edge |-> IF e \notin reached THEN "Absent"
                                  ELSE IF e \in dirtyEdges THEN "ToStart"
                                  ELSE "Nothing"]
  BY DEF Init
<1>2. GraphKept /\ DelayedPooled
  BY DEF Init, GraphKept, DelayedPooled
<1>3. notReady \subseteq Edge
  BY <1>1 DEF NotReadyEdges, Least
<1>4. reached \subseteq Sorted /\ reached \subseteq notReady
  BY <1>1, <1>3, ReachedSorted
<1>5. EntriesClosed
  <2> SUFFICES ASSUME NEW e \in Edge, want[e] # "Absent", NEW p \in Producers(e),
                      p \notin oready
               PROVE  want[p] # "Absent"
    BY DEF EntriesClosed
  <2>1. e \in reached /\ p \in Edge
    BY <1>1 DEF Producers
  <2>2. p \in Sorted
    BY <1>4, <2>1, SortedClosed
  <2>3. p \in notReady
    BY <1>1, <2>2
  <2>4. p \in reached
    BY <1>1, <2>1, <2>3, ReachedClosed
  <2> QED
    BY <1>1, <2>1, <2>4
<1>6. NothingWaits
  <2> SUFFICES ASSUME NEW e \in Edge, want[e] = "Nothing"
               PROVE  ~AllInputsReady(e, oready)
    BY DEF NothingWaits
  <2>1. e \in reached /\ e \notin dirtyEdges
    BY <1>1
  <2>2. PICK f \in Producers(e) : f \in notReady
    BY <1>1, <1>4, <2>1, NotReadyReason
  <2> QED
    BY <1>1, <2>2 DEF AllInputsReady
<1>7. CommandsCounted
  <2>1. \A e \in Edge : starts[e] = 0
    BY DEF Init
  <2>2. Commands = Wanted(want) \ Phony
    BY <2>1 DEF Commands, Wanted
  <2>3. command = Cardinality(Wanted(want) \ Phony) /\ command > 0
    BY DEF Init
  <2> QED
    BY <2>2, <2>3, FS_EmptySet DEF CommandsCounted
<1> QED
  BY <1>2, <1>5, <1>6, <1>7 DEF ProgressInv

\* A step that leaves the entries' kinds and what is done as they were.
LEMMA ProgressKept ==
    ASSUME ProgressInv, UNCHANGED <<ins, outs, oready, command>>,
           \A e \in Edge : /\ (want'[e] = "Absent") <=> (want[e] = "Absent")
                           /\ (want'[e] = "Nothing") <=> (want[e] = "Nothing"),
           \A e \in delayed' : Depth[PoolOf[e]] # 0,
           Commands' = Commands
    PROVE  ProgressInv'
<1>1. GraphKept' /\ DelayedPooled' /\ CommandsCounted'
  BY DEF ProgressInv, GraphKept, DelayedPooled, CommandsCounted
<1>2. \A e \in Edge : /\ Producers(e)' = Producers(e)
                      /\ AllInputsReady(e, oready)' <=> AllInputsReady(e, oready)
  BY DEF Producers, AllIns, AllInputsReady
<1>3. \A e \in Edge : \A p \in Producers(e) : p \in Edge
  BY DEF Producers
<1>4. EntriesClosed' /\ NothingWaits'
  BY <1>2, <1>3 DEF ProgressInv, EntriesClosed, NothingWaits
<1> QED
  BY <1>1, <1>4 DEF ProgressInv

LEMMA ProgressStep ==
    ASSUME TypeOK, ScheduleInv, ProgressInv, [Next]_planVars
    PROVE  ProgressInv'
<1>0. GraphKept /\ DelayedPooled /\ EntriesClosed /\ NothingWaits /\ CommandsCounted
  BY DEF ProgressInv
<1>1. CASE PrepareQueue
  <2>1. PICK free, pooled \in SUBSET Edge :
          /\ \A f \in free : want[f] = "ToStart"
          /\ \A f \in pooled : Depth[PoolOf[f]] # 0
          /\ want' = [f \in Edge |-> IF f \in free THEN "ToFinish" ELSE want[f]]
          /\ delayed' \subseteq pooled
    BY <1>1 DEF PrepareQueue, InitialEdges, ShouldDelayEdge
  <2>2. UNCHANGED <<ins, outs, oready, command, starts>>
    BY <1>1 DEF PrepareQueue, graph, history
  <2>3. \A f \in Edge : /\ (want'[f] = "Absent") <=> (want[f] = "Absent")
                        /\ (want'[f] = "Nothing") <=> (want[f] = "Nothing")
                        /\ f \in Wanted(want') <=> f \in Wanted(want)
    BY <2>1 DEF Wanted
  <2>4. Commands' = Commands
    BY <2>2, <2>3 DEF Commands
  <2> QED
    BY <2>1, <2>2, <2>3, <2>4, ProgressKept
<1>2. ASSUME NEW e \in Edge, FindWork(e)
      PROVE  ProgressInv'
  <2>1. /\ ready[e] > 0 /\ starts' = [starts EXCEPT ![e] = @ + 1]
        /\ UNCHANGED <<ins, outs, oready, command, want, delayed>>
    BY <1>2 DEF FindWork, graph
  <2>2. Held(e) > 0
    BY <2>1 DEF Held, Count, TypeOK
  <2>3. e \in Wanted(want)
    BY <2>2 DEF ScheduleInv, Entries, Wanted
  <2>4. \A f \in Edge : f # e => starts'[f] = starts[f]
    BY <2>1 DEF TypeOK
  <2>5. Commands' = Commands
    BY <2>1, <2>3, <2>4 DEF Commands
  <2> QED
    BY <1>0, <2>1, <2>5, ProgressKept DEF DelayedPooled
<1>3. ASSUME NEW e \in Edge, EdgeFailed(e)
      PROVE  ProgressInv'
  <2>1. UNCHANGED <<ins, outs, oready, command, want, starts>> /\ delayed' \subseteq delayed
    BY <1>3 DEF EdgeFailed, graph
  <2>2. Commands' = Commands
    BY <2>1 DEF Commands
  <2> QED
    BY <1>0, <2>1, <2>2, ProgressKept DEF DelayedPooled
<1>4. ASSUME NEW e \in Edge, NEW unchanged \in SUBSET outs[e],
             EdgeSucceeded(e, unchanged, {})
      PROVE  ProgressInv'
  <2> DEFINE cleaned == Cleaned(unchanged)
             w == WantAfter(e, cleaned)
  <2>1. PICK T \in SUBSET delayed, passed, sched, pooled, N \in SUBSET Edge :
          /\ passed = Passed(w, oready \cup {e}, OutEdges(outs[e]), {})
          /\ SettlesTo(w, oready \cup {e}, OutEdges(outs[e]), T, passed, sched, pooled, N)
          /\ Pooled(UseWithout(e), T, sched, pooled, N)
    BY <1>4, SucceededEffect
  <2>2. SucceedsAs(e, cleaned, w, T, passed, sched, pooled, N)
    BY <1>4, <2>1, SucceededFacts
  <2>3. UNCHANGED <<ins, outs, starts>> /\ oready' = oready \cup {e} \cup passed
    BY <2>1, <2>2 DEF SucceedsAs, SettlesTo, SettlesBy
  <2>4. command' = command - Cardinality(cleaned \ Phony)
    BY <1>4 DEF EdgeSucceeded
  <2>5. cleaned = {} \/ e \in Restat
    BY <1>4, CleanedNone DEF EdgeSucceeded
  <2>6. \A f \in Edge :
          /\ want'[f] = IF f \in passed THEN "Absent"
                        ELSE IF f \in sched THEN "ToFinish" ELSE w[f]
          /\ f \in passed => w[f] = "Nothing"
          /\ f \in sched => w[f] = "ToStart"
          /\ f = e => w[f] = "Absent"
          /\ f \in cleaned => w[f] = "Nothing" /\ f \in Wanted(want)
                              /\ starts[f] = 0 /\ f # e
          /\ f # e /\ f \notin cleaned => w[f] = want[f]
    BY <2>2 DEF SucceedsAs, TypeOK
  <2>7. /\ starts[e] = 1 /\ e \in Wanted(want) /\ pooled \subseteq sched
        /\ \A f \in Edge : /\ AllInputsReady(f, oready)' <=> AllInputsReady(f, oready')
                           /\ AllInputsReady(f, oready)' /\ ~AllInputsReady(f, oready)
                                => f \in OutEdges(outs[e]) \cup OutEdges(NodesOf(passed))
        /\ \A f \in cleaned : ~AllInputsReady(f, oready)
    BY <2>2 DEF SucceedsAs
  <2>8. cleaned \subseteq Edge
    BY CleanedWanted DEF Wanted
  <2>9. ASSUME NEW f \in Edge, w[f] = "Nothing", AllInputsReady(f, oready'),
               f \in OutEdges(outs[e]) \cup OutEdges(NodesOf(passed))
        PROVE  f \in passed
    BY <2>1, <2>3, <2>9, PassedClosed, HeldBackNone
  <2> HIDE DEF cleaned, w
  <2>10. GraphKept'
    BY <1>0, <2>3 DEF GraphKept
  <2>11. DelayedPooled'
    <3>1. delayed' = (delayed \ T) \cup (pooled \ N)
      BY <2>1 DEF SettlesTo, SettlesBy
    <3>2. \A f \in pooled : Depth[PoolOf[f]] # 0
      BY <2>1 DEF Pooled, ShouldDelayEdge
    <3> QED
      BY <1>0, <3>1, <3>2 DEF DelayedPooled
  <2>12. EntriesClosed'
    <3> SUFFICES ASSUME NEW f \in Edge, want'[f] # "Absent", NEW p \in Producers(f)',
                        p \notin oready'
                 PROVE  want'[p] # "Absent"
      BY DEF EntriesClosed
    <3>1. p \in Producers(f) /\ p \in Edge /\ p \notin oready /\ p # e /\ p \notin passed
      BY <2>3 DEF Producers, AllIns
    <3>2. want[f] # "Absent"
      BY <2>6 DEF Wanted
    <3>3. want[p] # "Absent"
      BY <1>0, <3>1, <3>2 DEF EntriesClosed
    <3> QED
      BY <2>6, <3>1, <3>3
  <2>13. NothingWaits'
    <3> SUFFICES ASSUME NEW f \in Edge, want'[f] = "Nothing", AllInputsReady(f, oready)'
                 PROVE  FALSE
      BY DEF NothingWaits
    <3>1. w[f] = "Nothing" /\ f \notin passed
      BY <2>6
    <3>2. ~AllInputsReady(f, oready)
      <4>1. CASE f \in cleaned
        BY <2>7, <4>1
      <4>2. CASE f \notin cleaned
        BY <1>0, <2>6, <3>1, <4>2 DEF NothingWaits
      <4> QED
        BY <4>1, <4>2
    <3> QED
      BY <2>7, <2>9, <3>1, <3>2
  <2>14. Commands' = Commands \ (cleaned \ Phony)
    <3>1. ASSUME NEW f \in Edge
          PROVE  f \in Wanted(want') \/ starts'[f] > 0
                   <=> (f \in Wanted(want) \/ starts[f] > 0) /\ f \notin cleaned
      BY <2>3, <2>6, <2>7 DEF Wanted
    <3> QED
      BY <3>1, <2>8 DEF Commands
  <2>15. cleaned \ Phony \subseteq Commands
    BY <2>6, <2>8 DEF Commands
  <2>16. CommandsCounted'
    <3> DEFINE C == Commands
               B == cleaned \ Phony
    <3>1. C \cap B = B /\ C \subseteq Edge /\ B \subseteq Edge
      BY <2>8, <2>15 DEF Commands
    <3>2. IsFiniteSet(C)
      BY <3>1, EdgeSetFinite
    <3> HIDE DEF C, B
    <3>3. Cardinality(C \ B) = Cardinality(C) - Cardinality(B)
      BY <3>1, <3>2, FS_Difference
    <3>4. command' = Cardinality(Commands')
      BY <1>0, <2>4, <2>14, <3>3 DEF CommandsCounted, C, B
    <3>5. Commands' # {}
      <4>1. CASE cleaned = {}
        BY <1>0, <2>14, <4>1 DEF CommandsCounted
      <4>2. CASE e \in Restat
        <5>1. e \notin Phony
          BY <4>2, GraphAssumption DEF GraphAssumption
        <5>2. starts'[e] > 0
          BY <2>3, <2>7
        <5> QED
          BY <5>1, <5>2 DEF Commands
      <4> QED
        BY <2>5, <4>1, <4>2
    <3> QED
      BY <3>4, <3>5 DEF CommandsCounted
  <2> QED
    BY <2>10, <2>11, <2>12, <2>13, <2>16 DEF ProgressInv
<1>5. CASE UNCHANGED planVars
  <2>1. UNCHANGED <<ins, outs, oready, command, want, starts, delayed>>
    BY <1>5 DEF planVars, graph, history
  <2>2. Commands' = Commands
    BY <2>1 DEF Commands
  <2> QED
    BY <1>0, <2>1, <2>2, ProgressKept DEF DelayedPooled
<1> QED
  BY <1>1, <1>2, <1>3, <1>4, <1>5 DEF Next

-----------------------------------------------------------------------------
(***************************************************************************)
(* What the invariant says of a plan that makes no progress.               *)
(***************************************************************************)
\* Nothing is queued and nothing runs.
Idle == \A e \in Edge : ready[e] = 0 /\ running[e] = 0

\* An edge with an entry that has not failed waits for another with one.
LEMMA WaitsForAnother ==
    ASSUME BooksInv, ProgressInv, prepared, Idle,
           NEW e \in Edge, want[e] # "Absent", e \notin failed
    PROVE  \E f \in Producers(e) : want[f] # "Absent"
<1> SUFFICES ASSUME \A f \in Producers(e) : want[f] = "Absent"
             PROVE  FALSE
  OBVIOUS
<1>1. AllInputsReady(e, oready)
  BY DEF ProgressInv, EntriesClosed, AllInputsReady
<1>2. want[e] # "Nothing"
  BY <1>1 DEF ProgressInv, NothingWaits
<1>3. e \in Wanted(want)
  BY <1>2 DEF Wanted, BooksInv, TypeOK, Want
<1>4. Held(e) > 0
  BY <1>1, <1>3 DEF BooksInv, ScheduleInv, NothingForgotten
<1>5. e \in delayed
  BY <1>4 DEF Idle, Held, Count
<1> DEFINE p == PoolOf[e]
<1>6. p \in Pool /\ Depth[p] # 0
  BY <1>5, GraphAssumption DEF GraphAssumption, ProgressInv, DelayedPooled
<1>7. e \in delayed \cap Members(p)
  BY <1>5 DEF Members
<1>8. use[p] = Cardinality(Placed(p)) /\ use[p] = Depth[p]
  BY <1>6, <1>7 DEF BooksInv, BooksKept, PoolsKept
<1>9. Placed(p) = {}
  BY DEF Placed, Members, Idle
<1> QED
  BY <1>6, <1>8, <1>9, FS_EmptySet

\* In every set of edges there is one that needs no other.
LEMMA OneNeedsNoOther ==
    ASSUME ProgressInv, NEW S, S \subseteq Edge, S # {}
    PROVE  \E e \in S : \A f \in Producers(e) : f \notin S
<1>1. PICK e \in S : \A f \in S : Outputs[f] \cap (Inputs[e] \cup OrderOnly[e]) = {}
  BY DAGAssumption DEF DAGAssumption
<1>2. ASSUME NEW f \in Producers(e)  PROVE f \notin S
  BY <1>1 DEF Producers, AllIns, ProgressInv, GraphKept
<1> QED
  BY <1>2

\* A plan that is neither done nor able to go on has seen a failure.
LEMMA StuckByFailure ==
    ASSUME BooksInv, ProgressInv, prepared, Idle, failed = {}
    PROVE  \A e \in Edge : want[e] = "Absent"
<1> DEFINE S == {e \in Edge : want[e] # "Absent"}
<1>1. S = {}
  <2> SUFFICES ASSUME S # {}  PROVE FALSE
    OBVIOUS
  <2>1. PICK e \in S : \A f \in Producers(e) : f \notin S
    BY OneNeedsNoOther
  <2>2. PICK f \in Producers(e) : want[f] # "Absent"
    BY WaitsForAnother
  <2> QED
    BY <2>1, <2>2 DEF Producers
<1> QED
  BY <1>1

\* When nothing is wanted any more, no entry is left.
LEMMA NothingLeft ==
    ASSUME BooksInv, ProgressInv, Wanted(want) = {}
    PROVE  \A e \in Edge : want[e] = "Absent"
<1> DEFINE S == {e \in Edge : want[e] # "Absent"}
<1>1. \A e \in S : want[e] = "Nothing"
  BY DEF Wanted, BooksInv, TypeOK, Want
<1>2. S = {}
  <2> SUFFICES ASSUME S # {}  PROVE FALSE
    OBVIOUS
  <2>1. PICK e \in S : \A f \in Producers(e) : f \notin S
    BY OneNeedsNoOther
  <2>2. AllInputsReady(e, oready)
    BY <2>1 DEF ProgressInv, EntriesClosed, AllInputsReady, Producers
  <2> QED
    BY <1>1, <2>2 DEF ProgressInv, NothingWaits
<1> QED
  BY <1>2

\* more_to_do asks for wanted_edges_ alone: the commands never run out.
LEMMA MoreToDoWanted ==
    ASSUME BooksInv, ProgressInv
    PROVE  MoreToDo <=> Wanted(want) # {}
<1>1. /\ IsFiniteSet(Commands) /\ Cardinality(Commands) \in Nat
      /\ IsFiniteSet(Wanted(want)) /\ Cardinality(Wanted(want)) \in Nat
  BY EdgeSetFinite DEF Commands, Wanted
<1>2. command > 0
  BY <1>1, FS_EmptySet DEF ProgressInv, CommandsCounted
<1>3. wanted > 0 <=> Wanted(want) # {}
  BY <1>1, FS_EmptySet DEF BooksInv, BooksKept, Counted
<1> QED
  BY <1>2, <1>3 DEF MoreToDo

\* What every step of the plan keeps.
PlanInv == BooksInv /\ ProgressInv

LEMMA PlanInit == Init => PlanInv
  BY BooksInit, ProgressInit DEF PlanInv

LEMMA PlanStep == PlanInv /\ [Next]_planVars => PlanInv'
  BY BooksStep, ProgressStep DEF PlanInv, BooksInv

\* In every graph: while an edge is wanted there is more to do, although the second
\* counter, which counts commands, is lowered for edges that a restat rule cleans
\* and not for those that have run (Plan::more_to_do).
THEOREM MoreToDoIsRight == Spec => [](MoreToDo <=> Wanted(want) # {})
<1>1. PlanInv => (MoreToDo <=> Wanted(want) # {})
  BY MoreToDoWanted DEF PlanInv
<1> QED
  BY <1>1, PlanInit, PlanStep, PTL DEF Spec

-----------------------------------------------------------------------------
(***************************************************************************)
(* The build loop.                                                         *)
(***************************************************************************)
(***************************************************************************)
(* The refinement: each step of the loop is one of the plan, or leaves the *)
(* plan alone.                                                             *)
(***************************************************************************)
LEMMA LoopStep == [BuilderNext]_builderVars => [Next]_planVars
<1> SUFFICES ASSUME [BuilderNext]_builderVars  PROVE [Next]_planVars
  OBVIOUS
<1>1. CASE Prepare
  BY <1>1 DEF Prepare, Next
<1>2. CASE Loop \/ StartDone \/ Interrupt \/ NoProgress
  BY <1>2 DEF Loop, StartDone, Interrupt, NoProgress
<1>3. CASE \E done \in SUBSET Range(active) : DoWork(done)
  BY <1>3 DEF DoWork
<1>4. ASSUME NEW e \in Edge, StartCommand(e) \/ StartFails(e) \/ StartPhony(e)
      PROVE  Next
  BY <1>4 DEF StartCommand, StartFails, StartPhony, Next
<1>5. ASSUME NEW e \in Edge, FinishPhony(e)
      PROVE  Next
  <2>1. EdgeSucceeded(e, {}, {})
    BY <1>5 DEF FinishPhony
  <2> QED
    BY <2>1 DEF Next
<1>6. ASSUME NEW e \in Edge, CommandWrites(e) \/ CommandInterrupted(e)
      PROVE  UNCHANGED planVars
  BY <1>6 DEF CommandWrites, CommandInterrupted
<1>7. ASSUME NEW e \in Edge, FinishFailure(e)
      PROVE  Next
  BY <1>7 DEF FinishFailure, Next
<1>8. ASSUME NEW e \in Edge, NEW unchanged \in SUBSET outs[e],
             FinishSuccess(e, unchanged) \/ FinishError(e, unchanged)
      PROVE  Next
  <2>1. EdgeSucceeded(e, unchanged, {})
    BY <1>8 DEF FinishSuccess, FinishError, Finish
  <2> QED
    BY <2>1 DEF Next
<1>9. CASE UNCHANGED builderVars
  BY <1>9 DEF builderVars
<1> QED
  BY <1>1, <1>2, <1>3, <1>4, <1>5, <1>6, <1>7, <1>8, <1>9 DEF BuilderNext

LEMMA LoopIsPlan == BuilderSpec => Spec
<1>1. BuilderInit => Init
  BY DEF BuilderInit
<1> QED
  BY <1>1, LoopStep, PTL DEF BuilderSpec, Spec

\* In a build no edge is queued, delayed or run before all that makes its inputs is
\* done, order-only inputs included (Plan::EdgeMaybeReady under Builder::Build).
THEOREM BuildInputsFirst == BuilderSpec => []InputsBuiltFirst
  BY LoopIsPlan, InputsFirst, PTL

\* In a build no edge is run twice (Plan::ScheduleWork under Builder::Build).
THEOREM BuildRunsOnce == BuilderSpec => []RunsOnce
  BY LoopIsPlan, AtMostOnce, PTL

\* In a build a wanted edge that waits for nothing is in the queue, in its pool,
\* running, or has failed (Builder::Build, "stuck [this is a bug]").
THEOREM BuildForgetsNothing == BuilderSpec => []NothingForgotten
  BY LoopIsPlan, NeverForgotten, PTL

\* In a build the pools, the counters of more_to_do and what a failure blocks are
\* right (Pool::EdgeScheduled, Plan::EdgeFinished under Builder::Build).
THEOREM BuildKeepsBooks == BuilderSpec => []BooksKept
  BY LoopIsPlan, BooksRight, PTL

(***************************************************************************)
(* The budget of failures.  While some of it is left, it and the failures  *)
(* so far make no more than -k; and only then the inner loop is entered.   *)
(***************************************************************************)
BudgetInv ==
    /\ failed \subseteq Edge /\ allowed \in Nat
    /\ allowed > 0 => Cardinality(failed) + allowed <= FailuresAllowed
    /\ pc \in {"start", "phony"} => allowed > 0

LEMMA FailedFinite ==
    ASSUME NEW S, S \subseteq Edge
    PROVE  /\ IsFiniteSet(S) /\ Cardinality(S) \in Nat
           /\ \A e : Cardinality(S \cup {e}) <= Cardinality(S) + 1
<1>1. IsFiniteSet(S) /\ Cardinality(S) \in Nat
  BY EdgeSetFinite
<1>2. ASSUME NEW e
      PROVE  Cardinality(S \cup {e}) <= Cardinality(S) + 1
  <2>1. Cardinality(S \cup {e}) = IF e \in S THEN Cardinality(S) ELSE Cardinality(S) + 1
    BY <1>1, FS_AddElement
  <2> QED
    BY <1>1, <2>1
<1> QED
  BY <1>1, <1>2

LEMMA BudgetInit == BuilderInit => BudgetInv
<1> SUFFICES ASSUME BuilderInit  PROVE BudgetInv
  OBVIOUS
<1>1. failed = {} /\ allowed = FailuresAllowed /\ pc = "prepare"
  BY DEF BuilderInit, Init
<1> QED
  BY <1>1, FS_EmptySet, BuilderAssumption DEF BudgetInv, BuilderAssumption

\* What a step does to the failures, the budget and the starts.
LEMMA BudgetStep ==
    ASSUME BudgetInv, [BuilderNext]_builderVars
    PROVE  BudgetInv' /\ (Cardinality(failed) >= FailuresAllowed => starts' = starts)
<1>1. FailuresAllowed \in Nat /\ Cardinality(failed) \in Nat
  BY FailedFinite, BuilderAssumption DEF BudgetInv, BuilderAssumption
<1>2. ASSUME UNCHANGED <<failed, allowed>>, pc' \in {"start", "phony"} => allowed > 0
      PROVE  BudgetInv'
  BY <1>2 DEF BudgetInv
<1>3. ASSUME pc = "start"
      PROVE  Cardinality(failed) < FailuresAllowed
  BY <1>1, <1>3 DEF BudgetInv
<1>4. ASSUME Prepare
      PROVE  BudgetInv' /\ starts' = starts
  <2>1. UNCHANGED <<failed, allowed, starts>> /\ pc' = "loop"
    BY <1>4 DEF Prepare, PrepareQueue, history
  <2> QED
    BY <1>2, <2>1
<1>5. ASSUME Loop
      PROVE  BudgetInv' /\ starts' = starts
  <2>1. UNCHANGED <<failed, allowed, starts>>
    BY <1>5 DEF Loop, planVars, history
  <2>2. pc' = "start" => allowed > 0
    BY <1>5 DEF Loop, Return
  <2>3. pc' \in {"returned", "start", "reap"}
    BY <1>5 DEF Loop, Return
  <2> QED
    BY <1>2, <2>1, <2>2, <2>3
<1>6. ASSUME StartDone \/ Interrupt \/ NoProgress
      PROVE  BudgetInv' /\ starts' = starts
  <2>1. UNCHANGED <<failed, allowed, starts>> /\ pc' \in {"returned", "reap"}
    BY <1>6 DEF StartDone, Interrupt, NoProgress, Return, planVars, history
  <2> QED
    BY <1>2, <2>1
<1>7. ASSUME NEW done \in SUBSET Range(active), DoWork(done)
      PROVE  BudgetInv' /\ starts' = starts
  <2>1. UNCHANGED <<failed, allowed, starts>> /\ pc' \in {"reap", "abort"}
    BY <1>7 DEF DoWork, planVars, history
  <2> QED
    BY <1>2, <2>1
<1>8. ASSUME NEW e \in Edge, StartCommand(e) \/ StartFails(e) \/ StartPhony(e)
      PROVE  BudgetInv' /\ pc = "start"
  <2>1. UNCHANGED <<failed, allowed>> /\ pc = "start"
    BY <1>8 DEF StartCommand, StartFails, StartPhony, FindWork
  <2> QED
    BY <1>2, <2>1 DEF BudgetInv
<1>9. ASSUME NEW e \in Edge, FinishPhony(e)
      PROVE  BudgetInv' /\ starts' = starts
  <2>1. UNCHANGED <<failed, allowed, starts>> /\ pc = "phony"
    BY <1>9 DEF FinishPhony, EdgeSucceeded
  <2> QED
    BY <1>2, <2>1 DEF BudgetInv
<1>10. ASSUME NEW e \in Edge, CommandWrites(e) \/ CommandInterrupted(e)
       PROVE  BudgetInv' /\ starts' = starts
  <2>1. UNCHANGED <<failed, allowed, starts>> /\ pc' \in {pc, "returned"}
    BY <1>10 DEF CommandWrites, CommandInterrupted, Return, planVars, history, loopVars
  <2> QED
    BY <1>2, <2>1 DEF BudgetInv
<1>11. ASSUME NEW e \in Edge, FinishFailure(e)
       PROVE  BudgetInv' /\ starts' = starts
  <2>1. /\ failed' = failed \cup {e} /\ starts' = starts /\ pc' = "loop"
        /\ allowed' = IF allowed > 0 THEN allowed - 1 ELSE 0
    BY <1>11 DEF FinishFailure, EdgeFailed
  <2>2. failed' \subseteq Edge /\ Cardinality(failed') <= Cardinality(failed) + 1
    BY <2>1, FailedFinite DEF BudgetInv
  <2>3. Cardinality(failed') \in Nat
    BY <2>2, FailedFinite
  <2> QED
    BY <1>1, <2>1, <2>2, <2>3 DEF BudgetInv
<1>12. ASSUME NEW e \in Edge, NEW unchanged \in SUBSET outs[e],
              FinishSuccess(e, unchanged) \/ FinishError(e, unchanged)
       PROVE  BudgetInv' /\ starts' = starts
  <2>1. UNCHANGED <<failed, allowed, starts>> /\ pc' \in {"loop", "returned"}
    BY <1>12 DEF FinishSuccess, FinishError, Finish, EdgeSucceeded, Return
  <2> QED
    BY <1>2, <2>1
<1>13. ASSUME UNCHANGED builderVars
       PROVE  BudgetInv' /\ starts' = starts
  <2>1. UNCHANGED <<failed, allowed, starts, pc>>
    BY <1>13 DEF builderVars, planVars, history, loopVars
  <2> QED
    BY <1>2, <2>1 DEF BudgetInv
<1>14. ASSUME pc = "start" \/ starts' = starts
       PROVE  Cardinality(failed) >= FailuresAllowed => starts' = starts
  BY <1>1, <1>3, <1>14
<1> QED
  BY <1>4, <1>5, <1>6, <1>7, <1>8, <1>9, <1>10, <1>11, <1>12, <1>13, <1>14 DEF BuilderNext

\* Once as many commands have failed as -k allows, no command is started.
THEOREM BudgetKept == BuilderSpec => FailureBudget
<1>1. BuilderInit => BudgetInv
  BY BudgetInit
<1>2. BudgetInv /\ [BuilderNext]_builderVars => BudgetInv'
  BY BudgetStep
<1>3. BudgetInv /\ [BuilderNext]_builderVars =>
        [Cardinality(failed) >= FailuresAllowed => UNCHANGED starts]_builderVars
  BY BudgetStep
<1> QED
  BY <1>1, <1>2, <1>3, PTL DEF BuilderSpec, FailureBudget

\* No step of a build withdraws an edge that has been scheduled, or starts a command
\* once the failures are used up.
THEOREM BuildStepsKept == BuilderSpec => StepsKept
  BY CleaningIsSafe, LoopIsPlan, BudgetKept, PTL DEF StepsKept

-----------------------------------------------------------------------------
(***************************************************************************)
(* Sequences without repetitions.                                          *)
(***************************************************************************)
OneEach(s) == \A i, j \in DOMAIN s : s[i] = s[j] => i = j

LEMMA Appending ==
    ASSUME NEW S, NEW s \in Seq(S), NEW x \in S
    PROVE  /\ Append(s, x) \in Seq(S)
           /\ Range(Append(s, x)) = Range(s) \cup {x}
           /\ OneEach(s) /\ x \notin Range(s) => OneEach(Append(s, x))
<1>1. /\ Append(s, x) \in Seq(S) /\ Len(s) \in Nat
      /\ \A i \in 1 .. Len(s) : Append(s, x)[i] = s[i]
      /\ Append(s, x)[Len(s) + 1] = x
      /\ DOMAIN Append(s, x) = (1 .. Len(s)) \cup {Len(s) + 1} /\ DOMAIN s = 1 .. Len(s)
  OBVIOUS
<1>2. Range(Append(s, x)) = Range(s) \cup {x}
  BY <1>1 DEF Range
<1>3. ASSUME OneEach(s), x \notin Range(s)
      PROVE  OneEach(Append(s, x))
  <2>1. \A i \in 1 .. Len(s) : s[i] # x
    BY <1>1, <1>3 DEF Range
  <2> QED
    BY <1>1, <1>3, <2>1 DEF OneEach
<1> QED
  BY <1>1, <1>2, <1>3

LEMMA Popping ==
    ASSUME NEW S, NEW s \in Seq(S), s # <<>>
    PROVE  /\ Tail(s) \in Seq(S) /\ Head(s) \in S /\ Head(s) = s[1]
           /\ 1 \in DOMAIN s
           /\ \A i \in DOMAIN Tail(s) : Tail(s)[i] = s[i + 1] /\ i + 1 \in DOMAIN s
           /\ \A i \in DOMAIN Tail(s) : i \in Nat /\ i # 0
<1>1. /\ Tail(s) \in Seq(S) /\ Head(s) \in S /\ Head(s) = s[1]
      /\ Len(s) \in Nat \ {0} /\ Len(Tail(s)) = Len(s) - 1
  OBVIOUS
<1>2. DOMAIN Tail(s) = 1 .. Len(s) - 1 /\ DOMAIN s = 1 .. Len(s) /\ 1 \in DOMAIN s
  BY <1>1
<1>3. \A i \in DOMAIN Tail(s) : Tail(s)[i] = s[i + 1] /\ i + 1 \in DOMAIN s
  BY <1>1, <1>2
<1> QED
  BY <1>1, <1>2, <1>3

LEMMA NoElements ==
    ASSUME NEW S, NEW s \in Seq(S)
    PROVE  /\ DOMAIN s = {} => s = <<>>
           /\ s = <<>> => DOMAIN s = {} /\ Len(s) = 0
  OBVIOUS

LEMMA InOrderFacts ==
    ASSUME NEW S, S \subseteq Edge, active \in Seq(Edge), NEW s \in InOrder(S)
    PROVE  /\ s \in Seq(S) /\ s \in Seq(Edge)
           /\ \A i \in DOMAIN s : s[i] \in S
           /\ OneEach(active) => OneEach(s)
<1>1. Cardinality(S) \in Nat
  BY EdgeSetFinite
<1>2. s \in [1 .. Cardinality(S) -> S] /\ DOMAIN s = 1 .. Cardinality(S)
  BY DEF InOrder
<1>3. s \in Seq(S) /\ s \in Seq(Edge)
  BY <1>1, <1>2
<1>4. ASSUME OneEach(active), NEW i \in DOMAIN s, NEW j \in DOMAIN s, i < j, s[i] = s[j]
      PROVE  FALSE
  <2>1. PICK k, l \in DOMAIN active : k < l /\ active[k] = s[i] /\ active[l] = s[j]
    BY <1>4 DEF InOrder
  <2>2. k = l /\ k \in Nat
    <3>1. DOMAIN active \subseteq Nat /\ active[k] = active[l]
      BY <1>4, <2>1
    <3> QED
      BY <1>4, <2>1, <3>1 DEF OneEach
  <2> QED
    BY <2>1, <2>2
<1>5. OneEach(active) => OneEach(s)
  <2> SUFFICES ASSUME OneEach(active), NEW i \in DOMAIN s, NEW j \in DOMAIN s, s[i] = s[j]
               PROVE  i = j
    BY DEF OneEach
  <2>1. i \in Nat /\ j \in Nat
    BY <1>2
  <2>2. ~(i < j)
    BY <1>4
  <2>3. ~(j < i)
    BY <1>4
  <2> QED
    BY <2>1, <2>2, <2>3
<1> QED
  BY <1>2, <1>3, <1>5

-----------------------------------------------------------------------------
\* The commands the plan takes to be running, and those waiting to be reaped.
Started == {e \in Edge \ Phony : running[e] > 0}
Waiting == {exited[i][1] : i \in DOMAIN exited}

\* The types, of the state the proofs need.
LoopType ==
    /\ pc \in {"prepare", "loop", "start", "phony", "reap", "abort", "returned"}
    /\ active \in Seq(Edge) /\ exited \in Seq(Edge \X Status)
    /\ disk \in [Edge -> {"old", "touched", "built", "removed"}]
    /\ pc = "prepare" <=> ~prepared
    /\ allowed \in Nat /\ allowed <= FailuresAllowed
    /\ allowed = FailuresAllowed => failed = {}
    /\ \A e \in Edge : disk[e] = "touched" => starts[e] > 0

\* The runner has exactly the commands that the plan takes to be running.
RunnerInv ==
    /\ \A e \in Phony : running[e] > 0 => pc = "phony"
    /\ \A e, f \in Phony : running[e] > 0 /\ running[f] > 0 => e = f
    /\ pending = Cardinality(Started)
    /\ Started \subseteq toEdge
    /\ Range(active) \subseteq Started /\ Waiting \subseteq Started
    /\ Range(active) \cap Waiting = {}
    /\ OneEach(active)
    /\ \A i, j \in DOMAIN exited : exited[i][1] = exited[j][1] => i = j

\* With nothing running there is room for a command, and the loop waits for none
\* unless the failures are used up.
CapacityInv ==
    pending = 0 =>
      /\ pc \in {"start", "phony"} => capacity > 0
      /\ pc = "reap" /\ allowed > 0 => Idle /\ MoreToDo

ReturnedInv == active = <<>> /\ ResultIsTrue /\ CleanupCoversActive

LoopInv ==
    /\ LoopType
    /\ pc # "returned" => RunnerInv /\ CapacityInv /\ result = "none"
    /\ pc = "returned" => ReturnedInv

LEMMA StartedFinite == IsFiniteSet(Started) /\ Cardinality(Started) \in Nat
  BY EdgeSetFinite DEF Started

LEMMA NothingPending ==
    ASSUME LoopType, RunnerInv, pending = 0
    PROVE  Started = {} /\ active = <<>> /\ exited = <<>> /\ Len(active) = 0
<1>1. Started = {}
  BY StartedFinite, FS_EmptySet DEF RunnerInv
<1>2. Range(active) = {} /\ Waiting = {}
  BY <1>1 DEF RunnerInv
<1>3. DOMAIN active = {} /\ DOMAIN exited = {}
  BY <1>2 DEF Range, Waiting
<1>4. active = <<>> /\ exited = <<>>
  BY <1>3, NoElements DEF LoopType
<1> QED
  BY <1>1, <1>4, NoElements DEF LoopType

\* What is true when the build says that all is done.
LEMMA AllDone ==
    ASSUME PlanInv, LoopType, RunnerInv, ~MoreToDo, pc # "phony"
    PROVE  /\ \A e \in Edge : want[e] = "Absent"
           /\ failed = {} /\ active = <<>> /\ exited = <<>>
<1>1. Wanted(want) = {}
  BY MoreToDoWanted DEF PlanInv
<1>2. \A e \in Edge : want[e] = "Absent"
  BY <1>1, NothingLeft DEF PlanInv
<1>3. failed = {}
  BY <1>1 DEF PlanInv, BooksInv, FailedStay
<1>4. \A e \in Edge : ~(running[e] > 0)
  <2> SUFFICES ASSUME NEW e \in Edge, running[e] > 0  PROVE FALSE
    OBVIOUS
  <2>1. Held(e) > 0
    BY DEF Held, Count, PlanInv, BooksInv, TypeOK
  <2> QED
    BY <1>2, <2>1 DEF PlanInv, BooksInv, ScheduleInv, Entries
<1>5. Started = {}
  BY <1>4 DEF Started
<1>6. pending = 0
  BY <1>5, FS_EmptySet DEF RunnerInv
<1> QED
  BY <1>2, <1>3, <1>6, NothingPending

\* A return with nothing running; the plan and the disk stay as they are.
LEMMA ReturnsOk ==
    ASSUME PlanInv, LoopType, RunnerInv, ~MoreToDo, pc # "phony",
           UNCHANGED <<want, failed, active, exited>>, result' = "ok"
    PROVE  ReturnedInv'
<1>1. /\ \A e \in Edge : want[e] = "Absent"
      /\ failed = {} /\ active = <<>> /\ exited = <<>>
  BY AllDone
<1> QED
  BY <1>1 DEF ReturnedInv, ResultIsTrue, NeverStuck, SuccessMeansDone, KeepsGoing,
              CleanupCoversActive

\* A return that cleans up: but for `own`, no running command's outputs stay touched.
LEMMA ReturnsCleaned ==
    ASSUME active' = <<>>, result' \in {"error", "interrupted"}, NEW own,
           own = {} \/ (result' = "interrupted" /\ \E e \in Edge : own = {e}),
           \A e \in Edge \ own : running'[e] > 0 => disk'[e] # "touched"
    PROVE  ReturnedInv'
<1>1. ResultIsTrue'
  BY DEF ResultIsTrue, NeverStuck, SuccessMeansDone, KeepsGoing
<1> DEFINE B == {e \in Edge : running'[e] > 0 /\ disk'[e] = "touched"}
<1>2. B \subseteq own /\ B \subseteq Edge
  OBVIOUS
<1> HIDE DEF B
<1>3. Cardinality(B) <= IF result' = "interrupted" THEN 1 ELSE 0
  <2>0. Cardinality({}) = 0 /\ IsFiniteSet({})
    BY FS_EmptySet
  <2>1. CASE own = {}
    <3>1. B = {}
      BY <1>2, <2>1
    <3> QED
      BY <2>0, <3>1
  <2>2. CASE result' = "interrupted" /\ \E e \in Edge : own = {e}
    <3>1. PICK e \in Edge : own = {e}
      BY <2>2
    <3>2. Cardinality({e}) = 1
      BY FS_Singleton
    <3>3. B = {} \/ B = {e}
      BY <1>2, <3>1
    <3>4. Cardinality(B) = 0 \/ Cardinality(B) = 1
      BY <2>0, <3>2, <3>3
    <3> QED
      BY <2>2, <3>4
  <2> QED
    BY <2>1, <2>2
<1>4. CleanupCoversActive'
  BY <1>3 DEF CleanupCoversActive, B
<1> QED
  BY <1>1, <1>4 DEF ReturnedInv

\* The command that has been reaped leaves the runner and the plan alike.
LEMMA RunnerAfter ==
    ASSUME PlanInv, LoopType, RunnerInv, NEW e \in Edge, NEW status, Reap(e, status), Popped,
           \A f \in Edge : running'[f] = IF f = e THEN 0 ELSE running[f],
           pending' = pending - 1, pc' = "loop"
    PROVE  RunnerInv'
<1>1. /\ pc = "reap" /\ exited # <<>> /\ Head(exited) = <<e, status>>
      /\ toEdge' = toEdge \ {e} /\ exited' = Tail(exited) /\ active' = active
  BY DEF Reap, Popped
<1>2. /\ exited[1] = <<e, status>> /\ 1 \in DOMAIN exited
      /\ \A i \in DOMAIN exited' : exited'[i] = exited[i + 1] /\ i + 1 \in DOMAIN exited
      /\ \A i \in DOMAIN exited' : i \in Nat /\ i # 0
  BY <1>1, Popping DEF LoopType
<1>3. e \in Waiting /\ e \in Started
  BY <1>2 DEF Waiting, RunnerInv
<1>4. Started' = Started \ {e}
  BY DEF Started
<1>5. pending' = Cardinality(Started')
  BY <1>3, <1>4, StartedFinite, FS_RemoveElement DEF RunnerInv
<1>6. \A i \in DOMAIN exited' : exited'[i][1] \in Waiting /\ exited'[i][1] # e
  <2> SUFFICES ASSUME NEW i \in DOMAIN exited'
               PROVE  exited'[i][1] \in Waiting /\ exited'[i][1] # e
    OBVIOUS
  <2>1. exited'[i] = exited[i + 1] /\ i + 1 \in DOMAIN exited /\ i + 1 # 1
    BY <1>2
  <2>2. exited[i + 1][1] # exited[1][1]
    BY <1>2, <2>1 DEF RunnerInv
  <2> QED
    BY <1>2, <2>1, <2>2 DEF Waiting
<1>7. Waiting' \subseteq Waiting \ {e}
  BY <1>6 DEF Waiting
<1>8. \A i, j \in DOMAIN exited' : exited'[i][1] = exited'[j][1] => i = j
  <2> SUFFICES ASSUME NEW i \in DOMAIN exited', NEW j \in DOMAIN exited',
                      exited'[i][1] = exited'[j][1]
               PROVE  i = j
    OBVIOUS
  <2>1. /\ exited[i + 1][1] = exited[j + 1][1] /\ i \in Nat /\ j \in Nat
        /\ i + 1 \in DOMAIN exited /\ j + 1 \in DOMAIN exited
    BY <1>2
  <2>2. i + 1 = j + 1
    BY <2>1 DEF RunnerInv
  <2> QED
    BY <2>1, <2>2
<1>9. Range(active') = Range(active) /\ OneEach(active') /\ e \notin Range(active)
  BY <1>1, <1>3 DEF RunnerInv
<1>10. \A f \in Phony : ~(running'[f] > 0)
  BY <1>1, GraphAssumption DEF RunnerInv, GraphAssumption
<1> QED
  BY <1>1, <1>3, <1>4, <1>5, <1>7, <1>8, <1>9, <1>10 DEF RunnerInv

\* What FindWork finds has not been run.
LEMMA Found ==
    ASSUME PlanInv, NEW e \in Edge, FindWork(e)
    PROVE  /\ running[e] = 0 /\ starts[e] = 0 /\ prepared
           /\ \A f \in Edge : /\ running'[f] = IF f = e THEN 1 ELSE running[f]
                              /\ starts'[f] = IF f = e THEN 1 ELSE starts[f]
           /\ UNCHANGED <<prepared, failed, want, wanted, command>>
<1>1. /\ ready[e] > 0 /\ prepared
      /\ running' = [running EXCEPT ![e] = @ + 1]
      /\ starts' = [starts EXCEPT ![e] = @ + 1]
      /\ UNCHANGED <<prepared, failed, want, wanted, command>>
  BY DEF FindWork
<1>2. running[e] \in Nat /\ starts[e] \in Nat /\ ready[e] \in Nat
  BY DEF PlanInv, BooksInv, TypeOK
<1>3. starts[e] + ready[e] + Count(e, delayed) <= 1 /\ running[e] <= starts[e]
  BY DEF PlanInv, BooksInv, ScheduleInv, Once
<1>4. running[e] = 0 /\ starts[e] = 0
  BY <1>1, <1>2, <1>3 DEF Count
<1> QED
  BY <1>1, <1>4 DEF PlanInv, BooksInv, TypeOK

\* An edge that leaves the plan's running edges is not running any more.
LEMMA Left ==
    ASSUME PlanInv, NEW e \in Edge, running[e] > 0,
           running' = [running EXCEPT ![e] = @ - 1]
    PROVE  \A f \in Edge : running'[f] = IF f = e THEN 0 ELSE running[f]
<1>1. running[e] \in Nat /\ starts[e] \in Nat /\ ready[e] \in Nat
  BY DEF PlanInv, BooksInv, TypeOK
<1>2. starts[e] + ready[e] + Count(e, delayed) <= 1 /\ running[e] <= starts[e]
  BY DEF PlanInv, BooksInv, ScheduleInv, Once
<1>3. running[e] = 1
  BY <1>1, <1>2 DEF Count
<1> QED
  BY <1>3 DEF PlanInv, BooksInv, TypeOK

\* The length of the queue is a number.
LEMMA QueueLengthType == PlanInv => QueueLength(ready) \in Nat
<1> SUFFICES ASSUME PlanInv  PROVE QueueLength(ready) \in Nat
  OBVIOUS
<1> DEFINE Q == UNION {{e} \X (1 .. ready[e]) : e \in Edge}
<1>1. Q \subseteq Edge \X {1}
  <2> SUFFICES ASSUME NEW e \in Edge, NEW i \in 1 .. ready[e]
               PROVE  i \in {1}
    OBVIOUS
  <2>1. ready[e] \in Nat /\ starts[e] \in Nat
    BY DEF PlanInv, BooksInv, TypeOK
  <2>2. starts[e] + ready[e] + Count(e, delayed) <= 1
    BY DEF PlanInv, BooksInv, ScheduleInv, Once
  <2> QED
    BY <2>1, <2>2 DEF Count
<1>2. IsFiniteSet(Edge \X {1})
  <2>1. IsFiniteSet(Edge) /\ IsFiniteSet({1})
    BY GraphAssumption, FS_Singleton DEF GraphAssumption
  <2> QED
    BY <2>1, FS_Product
<1> HIDE DEF Q
<1>3. Cardinality(Q) \in Nat
  BY <1>1, <1>2, FS_Subset, FS_CardinalityType
<1> QED
  BY <1>3 DEF Q, QueueLength

\* A round that begins with nothing running has room for a command.
LEMMA RoomForOne ==
    ASSUME PlanInv, LoopType, RunnerInv, pending = 0,
           NEW c \in CanRunMore(Len(active), Len(exited), QueueLength(ready))
    PROVE  c > 0
<1>1. Len(active) = 0 /\ Len(exited) = 0
  BY NothingPending, NoElements DEF LoopType
<1> DEFINE slots == IF Runner = "share" THEN QueueLength(ready)
                    ELSE Parallelism - (Len(active) + Len(exited))
           counted == IF slots < 0 THEN 0 ELSE slots
           limited == IF LoadLimited /\ Runner = "real" THEN 0 .. counted ELSE {counted}
<1>2. slots \in Int
  BY <1>1, QueueLengthType, BuilderAssumption DEF BuilderAssumption
<1>3. counted \in Nat
  BY <1>2
<1>4. \A x \in limited : x \in Nat
  BY <1>3
<1>5. PICK x \in limited : c = IF x = 0 /\ Len(active) = 0 THEN 1 ELSE x
  BY DEF CanRunMore
<1> QED
  BY <1>1, <1>4, <1>5

-----------------------------------------------------------------------------
(***************************************************************************)
(* The invariant, in the first state and after each step.                  *)
(***************************************************************************)
LEMMA LoopInit == BuilderInit => LoopInv
<1> SUFFICES ASSUME BuilderInit  PROVE LoopInv
  OBVIOUS
<1>1. /\ pc = "prepare" /\ result = "none" /\ ~prepared /\ pending = 0
      /\ allowed = FailuresAllowed /\ FailuresAllowed \in Nat \ {0}
      /\ active = <<>> /\ exited = <<>> /\ toEdge = {} /\ failed = {}
      /\ disk = [e \in Edge |-> "old"] /\ \A e \in Edge : running[e] = 0
  BY BuilderAssumption DEF BuilderInit, Init, BuilderAssumption
<1>2. LoopType
  BY <1>1 DEF LoopType
<1>3. Started = {} /\ Waiting = {} /\ Range(active) = {}
  BY <1>1 DEF Started, Waiting, Range
<1>4. OneEach(active) /\ \A i, j \in DOMAIN exited : exited[i][1] = exited[j][1] => i = j
  BY <1>1 DEF OneEach
<1>5. Phony \subseteq Edge
  BY GraphAssumption DEF GraphAssumption
<1>6. RunnerInv
  BY <1>1, <1>3, <1>4, <1>5, FS_EmptySet DEF RunnerInv
<1> QED
  BY <1>1, <1>2, <1>6 DEF LoopInv, CapacityInv

\* The types, when neither the runner nor the budget changes.
LEMMA TypeKept ==
    ASSUME LoopType, UNCHANGED <<active, exited, allowed, failed, disk>>,
           \A e \in Edge : starts[e] > 0 => starts'[e] > 0,
           pc' \in {"loop", "start", "phony", "reap", "abort", "returned"}, prepared'
    PROVE  LoopType'
  BY DEF LoopType

\* The runner, when only phony edges come and go.
LEMMA RunnerKept ==
    ASSUME RunnerInv, UNCHANGED <<pending, runnerVars>>,
           \A e \in Edge \ Phony : running'[e] = running[e],
           \A e \in Phony : running'[e] > 0 => pc' = "phony",
           \A e, f \in Phony : running'[e] > 0 /\ running'[f] > 0 => e = f
    PROVE  RunnerInv'
<1>1. Started' = Started /\ Waiting' = Waiting
  BY DEF Started, Waiting, runnerVars
<1> QED
  BY <1>1 DEF RunnerInv, OneEach, Range, runnerVars

\* The same, for a step that runs no edge.
LEMMA RunnerSame ==
    ASSUME RunnerInv, UNCHANGED <<pending, runnerVars, running>>, pc # "phony"
    PROVE  RunnerInv'
<1>1. \A e \in Phony : ~(running[e] > 0)
  BY DEF RunnerInv
<1> QED
  BY <1>1, RunnerKept

LEMMA LoopPrepares ==
    ASSUME PlanInv, LoopInv, Prepare
    PROVE  LoopInv'
<1>1. /\ pc = "prepare" /\ pc' = "loop"
      /\ UNCHANGED <<starts, running, failed>>
      /\ UNCHANGED <<capacity, pending, allowed, result, active, exited, toEdge, disk>>
  BY DEF Prepare, PrepareQueue, history, runnerVars
<1>7. prepared' = TRUE
  BY DEF Prepare, PrepareQueue
<1>2. LoopType /\ RunnerInv /\ result = "none"
  BY <1>1 DEF LoopInv
<1>3. LoopType'
  BY <1>1, <1>2, <1>7, TypeKept
<1>4. RunnerInv'
  BY <1>1, <1>2, RunnerSame DEF runnerVars
<1>5. CapacityInv'
  BY <1>1 DEF CapacityInv
<1>6. pc' = "loop" /\ result' = "none"
  BY <1>1, <1>2
<1>8. LoopInv'
  BY <1>3, <1>4, <1>5, <1>6 DEF LoopInv
<1> QED
  BY <1>8

LEMMA LoopKeeps ==
    ASSUME PlanInv, LoopInv, Loop
    PROVE  LoopInv'
<1>1. /\ pc = "loop"
      /\ UNCHANGED <<prepared, starts, running, failed, want>>
      /\ UNCHANGED <<pending, allowed, active, exited, toEdge, disk>>
  BY DEF Loop, planVars, history, runnerVars
<1>2. LoopType /\ RunnerInv /\ result = "none"
  BY <1>1 DEF LoopInv
<1>3. prepared' /\ pc' \in {"start", "reap", "returned"}
  BY <1>1, <1>2 DEF Loop, Return, LoopType
<1>4. LoopType'
  BY <1>1, <1>2, <1>3, TypeKept
<1>5. RunnerInv'
  BY <1>1, <1>2, RunnerSame DEF runnerVars
<1>6. CASE ~MoreToDo
  <2>1. pc' = "returned" /\ result' = "ok"
    BY <1>6 DEF Loop, Return
  <2>2. ReturnedInv'
    BY <1>1, <1>2, <1>6, <2>1, ReturnsOk
  <2> QED
    BY <1>4, <2>1, <2>2 DEF LoopInv
<1>7. CASE MoreToDo /\ allowed > 0
  <2>0. pc' = "start"
    BY <1>2, <1>7 DEF Loop, LoopType
  <2>1. result' = result /\ capacity' \in CanRunMore(Len(active), Len(exited), QueueLength(ready))
    BY <1>2, <1>7 DEF Loop, LoopType
  <2>2. pending = 0 => capacity' > 0
    BY <1>2, <2>1, RoomForOne
  <2> QED
    BY <1>1, <1>2, <1>4, <1>5, <2>0, <2>1, <2>2 DEF LoopInv, CapacityInv
<1>8. CASE MoreToDo /\ allowed = 0
  <2>1. pc' = "reap" /\ result' = result
    BY <1>8 DEF Loop
  <2> QED
    BY <1>1, <1>2, <1>4, <1>5, <1>8, <2>1 DEF LoopInv, CapacityInv
<1> QED
  BY <1>2, <1>6, <1>7, <1>8 DEF LoopType

LEMMA StartDoneKeeps ==
    ASSUME PlanInv, LoopInv, StartDone
    PROVE  LoopInv'
<1>1. /\ (pc = "start" /\ capacity = 0) \/ (\A e \in Edge : ready[e] = 0)
      /\ UNCHANGED <<prepared, starts, running, failed, want, ready, wanted, command>>
      /\ UNCHANGED <<pending, allowed, active, exited, toEdge, disk>>
  BY DEF StartDone, planVars, history, runnerVars
<1>0. pc = "start"
  BY DEF StartDone
<1>2. LoopType /\ RunnerInv /\ CapacityInv /\ result = "none"
  BY <1>0 DEF LoopInv
<1>3. prepared' /\ pc' \in {"reap", "returned"}
  BY <1>0, <1>1, <1>2 DEF StartDone, Return, LoopType
<1>4. LoopType'
  BY <1>1, <1>2, <1>3, TypeKept
<1>5. RunnerInv'
  BY <1>0, <1>1, <1>2, RunnerSame DEF runnerVars
<1>6. CASE pending = 0 /\ ~MoreToDo
  <2>1. pc' = "returned" /\ result' = "ok"
    BY <1>6 DEF StartDone, Return
  <2>2. ReturnedInv'
    BY <1>0, <1>1, <1>2, <1>6, <2>1, ReturnsOk
  <2> QED
    BY <1>4, <2>1, <2>2 DEF LoopInv
<1>7. CASE ~(pending = 0 /\ ~MoreToDo)
  <2>1. pc' = "reap" /\ result' = result
    BY <1>7 DEF StartDone
  <2>2. ASSUME pending = 0  PROVE Idle /\ MoreToDo
    <3>1. \A e \in Edge : ready[e] = 0
      BY <1>0, <1>2, <2>2 DEF StartDone, CapacityInv
    <3>2. Started = {}
      BY <1>2, <2>2, NothingPending
    <3>3. \A e \in Edge : ~(running[e] > 0)
      BY <1>0, <1>2, <3>2 DEF Started, RunnerInv
    <3>4. \A e \in Edge : running[e] = 0
      BY <3>3 DEF PlanInv, BooksInv, TypeOK
    <3> QED
      BY <1>7, <2>2, <3>1, <3>4 DEF Idle
  <2>3. (pending = 0 => Idle /\ MoreToDo)'
    BY <1>1, <2>2 DEF Idle, MoreToDo
  <2> QED
    BY <1>2, <1>4, <1>5, <2>1, <2>3 DEF LoopInv, CapacityInv
<1> QED
  BY <1>6, <1>7

LEMMA StartCommandKeeps ==
    ASSUME PlanInv, LoopInv, NEW e \in Edge, StartCommand(e)
    PROVE  LoopInv'
<1>1. /\ pc = "start" /\ pc' = "start" /\ e \notin Phony /\ FindWork(e)
      /\ pending' = pending + 1 /\ active' = Append(active, e) /\ toEdge' = toEdge \cup {e}
      /\ UNCHANGED <<allowed, result, exited, disk>>
  BY DEF StartCommand
<1>2. LoopType /\ RunnerInv /\ result = "none"
  BY <1>1 DEF LoopInv
<1>3. /\ running[e] = 0 /\ prepared
      /\ \A f \in Edge : /\ running'[f] = IF f = e THEN 1 ELSE running[f]
                         /\ starts'[f] = IF f = e THEN 1 ELSE starts[f]
      /\ UNCHANGED <<prepared, failed>>
  BY <1>1, Found
<1>4. e \notin Started /\ Started' = Started \cup {e}
  BY <1>1, <1>3 DEF Started
<1>5. e \notin Range(active) /\ e \notin Waiting
  BY <1>2, <1>4 DEF RunnerInv
<1>6. /\ active' \in Seq(Edge) /\ Range(active') = Range(active) \cup {e}
      /\ OneEach(active')
  BY <1>1, <1>2, <1>5, Appending DEF LoopType, RunnerInv
<1>7. Cardinality(Started) \in Nat /\ Cardinality(Started') = Cardinality(Started) + 1
  BY <1>4, StartedFinite, FS_AddElement
<1>8. \A f \in Phony : ~(running'[f] > 0)
  BY <1>1, <1>2, <1>3, GraphAssumption DEF RunnerInv, GraphAssumption
<1>9. Waiting' = Waiting
  BY <1>1 DEF Waiting
<1>10. RunnerInv'
  <2>1. pending' = Cardinality(Started')
    BY <1>1, <1>2, <1>7 DEF RunnerInv
  <2>2. /\ Started' \subseteq toEdge'
        /\ Range(active') \subseteq Started' /\ Waiting' \subseteq Started'
        /\ Range(active') \cap Waiting' = {}
    BY <1>1, <1>2, <1>4, <1>5, <1>6, <1>9 DEF RunnerInv
  <2> QED
    BY <1>1, <1>2, <1>6, <1>8, <2>1, <2>2 DEF RunnerInv
<1>11. LoopType'
  BY <1>1, <1>2, <1>3, <1>6 DEF LoopType
<1>12. CapacityInv'
  BY <1>1, <1>2, <1>7 DEF CapacityInv, RunnerInv
<1> QED
  BY <1>1, <1>2, <1>10, <1>11, <1>12 DEF LoopInv

LEMMA StartPhonyKeeps ==
    ASSUME PlanInv, LoopInv, NEW e \in Edge, StartPhony(e)
    PROVE  LoopInv'
<1>1. /\ pc = "start" /\ pc' = "phony" /\ capacity > 0 /\ e \in Phony /\ FindWork(e)
      /\ UNCHANGED <<capacity, pending, allowed, result, active, exited, toEdge, disk>>
  BY DEF StartPhony, runnerVars
<1>2. LoopType /\ RunnerInv /\ result = "none"
  BY <1>1 DEF LoopInv
<1>3. /\ prepared
      /\ \A f \in Edge : /\ running'[f] = IF f = e THEN 1 ELSE running[f]
                         /\ starts'[f] = IF f = e THEN 1 ELSE starts[f]
      /\ UNCHANGED <<prepared, failed>>
  BY <1>1, Found
<1>4. \A f \in Phony : running'[f] > 0 => f = e
  BY <1>1, <1>2, <1>3, GraphAssumption DEF RunnerInv, GraphAssumption
<1>5. RunnerInv'
  BY <1>1, <1>2, <1>3, <1>4, RunnerKept DEF runnerVars
<1>6. LoopType'
  BY <1>1, <1>2, <1>3, TypeKept
<1>7. CapacityInv'
  BY <1>1 DEF CapacityInv
<1> QED
  BY <1>1, <1>2, <1>5, <1>6, <1>7 DEF LoopInv

LEMMA FinishPhonyKeeps ==
    ASSUME PlanInv, LoopInv, NEW e \in Edge, FinishPhony(e)
    PROVE  LoopInv'
<1>1. /\ pc = "phony" /\ pc' = "start" /\ e \in Phony
      /\ running[e] > 0 /\ running' = [running EXCEPT ![e] = @ - 1]
      /\ UNCHANGED <<prepared, starts, failed>>
      /\ UNCHANGED <<capacity, pending, allowed, result, active, exited, toEdge, disk>>
  BY DEF FinishPhony, EdgeSucceeded, runnerVars
<1>2. LoopType /\ RunnerInv /\ CapacityInv /\ result = "none"
  BY <1>1 DEF LoopInv
<1>3. \A f \in Edge : running'[f] = IF f = e THEN 0 ELSE running[f]
  BY <1>1, Left
<1>4. \A f \in Phony : ~(running'[f] > 0)
  BY <1>1, <1>2, <1>3, GraphAssumption DEF RunnerInv, GraphAssumption
<1>5. RunnerInv'
  BY <1>1, <1>2, <1>3, <1>4, RunnerKept DEF runnerVars
<1>6. LoopType'
  BY <1>1, <1>2, TypeKept DEF LoopType
<1>7. CapacityInv'
  BY <1>1, <1>2 DEF CapacityInv
<1> QED
  BY <1>1, <1>2, <1>5, <1>6, <1>7 DEF LoopInv

LEMMA StartFailsKeeps ==
    ASSUME PlanInv, LoopInv, NEW e \in Edge, StartFails(e)
    PROVE  LoopInv'
<1>1. /\ pc = "start" /\ pc' = "returned" /\ result' = "error" /\ e \notin Phony
      /\ FindWork(e) /\ active' = <<>> /\ disk' = Removed(toEdge)
      /\ UNCHANGED <<allowed, exited>>
  BY DEF StartFails, Abort, Return
<1>2. LoopType /\ RunnerInv
  BY <1>1 DEF LoopInv
<1>3. /\ starts[e] = 0 /\ prepared
      /\ \A f \in Edge : /\ running'[f] = IF f = e THEN 1 ELSE running[f]
                         /\ starts'[f] = IF f = e THEN 1 ELSE starts[f]
      /\ UNCHANGED <<prepared, failed>>
  BY <1>1, Found
<1>4. \A f \in Edge : disk'[f] = IF f \in toEdge /\ (disk[f] = "touched" \/ f \in HasDeps)
                                 THEN "removed" ELSE disk[f]
  BY <1>1 DEF Removed
<1>5. disk[e] # "touched"
  BY <1>2, <1>3 DEF LoopType
<1>6. ASSUME NEW f \in Edge, running'[f] > 0
      PROVE  disk'[f] # "touched"
  <2>1. CASE f = e
    BY <1>4, <1>5, <2>1
  <2>2. CASE f # e
    <3>1. f \in toEdge
      BY <1>1, <1>2, <1>3, <1>6, <2>2 DEF Started, RunnerInv
    <3> QED
      BY <1>4, <3>1
  <2> QED
    BY <2>1, <2>2
<1>7. ReturnedInv'
  BY <1>1, <1>6, ReturnsCleaned
<1>8. LoopType'
  <2>1. disk' \in [Edge -> {"old", "touched", "built", "removed"}]
    BY <1>1, <1>2 DEF LoopType, Removed
  <2>2. \A f \in Edge : disk'[f] = "touched" => starts'[f] > 0
    BY <1>2, <1>3, <1>4 DEF LoopType
  <2> QED
    BY <1>1, <1>2, <1>3, <2>1, <2>2 DEF LoopType
<1> QED
  BY <1>1, <1>7, <1>8 DEF LoopInv

LEMMA CommandWritesKeeps ==
    ASSUME PlanInv, LoopInv, NEW e \in Edge, CommandWrites(e)
    PROVE  LoopInv'
<1>1. /\ e \in Range(active) /\ disk' = [disk EXCEPT ![e] = "touched"]
      /\ UNCHANGED <<want, wanted, command, ready, prepared, running, starts, failed>>
      /\ UNCHANGED <<pc, capacity, pending, allowed, result, active, exited, toEdge>>
  BY DEF CommandWrites, planVars, history, loopVars, runnerVars
<1>2. pc # "returned"
  BY <1>1 DEF LoopInv, ReturnedInv, Range
<1>3. LoopType /\ RunnerInv /\ CapacityInv /\ result = "none"
  BY <1>2 DEF LoopInv
<1>4. starts[e] > 0
  <2>1. running[e] > 0 /\ running[e] <= starts[e]
    BY <1>1, <1>3 DEF RunnerInv, Started, PlanInv, BooksInv, ScheduleInv, Once
  <2> QED
    BY <2>1 DEF PlanInv, BooksInv, TypeOK
<1>5. LoopType'
  BY <1>1, <1>3, <1>4 DEF LoopType
<1>6. Started' = Started /\ Waiting' = Waiting
  BY <1>1 DEF Started, Waiting
<1>7. RunnerInv'
  BY <1>1, <1>3, <1>6 DEF RunnerInv, OneEach, Range
<1>8. CapacityInv'
  BY <1>1, <1>3 DEF CapacityInv, Idle, MoreToDo
<1> QED
  BY <1>1, <1>2, <1>3, <1>5, <1>7, <1>8 DEF LoopInv

LEMMA DoWorkKeeps ==
    ASSUME PlanInv, LoopInv, NEW done \in SUBSET Range(active), DoWork(done)
    PROVE  LoopInv'
<1>1. /\ pc = "reap" /\ pending > 0 /\ exited = <<>> /\ pc' \in {"reap", "abort"}
      /\ UNCHANGED <<want, wanted, command, ready, prepared, running, starts, failed>>
      /\ UNCHANGED <<capacity, pending, allowed, result, toEdge, disk>>
  BY DEF DoWork, planVars, history
<1>2. LoopType /\ RunnerInv /\ result = "none"
  BY <1>1 DEF LoopInv
<1>3. PICK moved \in InOrder(done), status \in [done -> Status] :
        exited' = [i \in DOMAIN moved |-> <<moved[i], status[moved[i]]>>]
  BY DEF DoWork
<1>4. active' \in InOrder(Range(active) \ done)
  BY DEF DoWork
<1>5. Range(active) \subseteq Edge /\ done \subseteq Edge /\ active \in Seq(Edge)
  BY <1>2 DEF LoopType, Range
<1>6. /\ moved \in Seq(done) /\ (\A i \in DOMAIN moved : moved[i] \in done)
      /\ OneEach(moved)
  BY <1>2, <1>5, InOrderFacts DEF RunnerInv
<1>7. /\ active' \in Seq(Edge) /\ OneEach(active')
      /\ \A i \in DOMAIN active' : active'[i] \in Range(active) \ done
  <2>1. Range(active) \ done \subseteq Edge
    BY <1>5
  <2> QED
    BY <1>2, <1>4, <1>5, <2>1, InOrderFacts DEF RunnerInv
<1>8. /\ DOMAIN exited' = DOMAIN moved
      /\ \A i \in DOMAIN moved : exited'[i] = <<moved[i], status[moved[i]]>>
      /\ \A i \in DOMAIN moved : exited'[i][1] = moved[i]
  BY <1>3
<1>9. exited' \in Seq(Edge \X Status)
  <2>1. DOMAIN moved = 1 .. Len(moved) /\ Len(moved) \in Nat
    BY <1>6
  <2>2. \A i \in DOMAIN moved : <<moved[i], status[moved[i]]>> \in Edge \X Status
    BY <1>5, <1>6
  <2> QED
    BY <1>3, <2>1, <2>2
<1>10. Waiting' \subseteq done /\ Range(active') \subseteq Range(active) \ done
  <2>1. Waiting' \subseteq done
    BY <1>6, <1>8 DEF Waiting
  <2>2. Range(active') \subseteq Range(active) \ done
    BY <1>7 DEF Range
  <2> QED
    BY <2>1, <2>2
<1>11. \A i, j \in DOMAIN exited' : exited'[i][1] = exited'[j][1] => i = j
  BY <1>6, <1>8 DEF OneEach
<1>12. Started' = Started
  BY <1>1 DEF Started
<1>13. RunnerInv'
  BY <1>1, <1>2, <1>7, <1>10, <1>11, <1>12 DEF RunnerInv
<1>14. LoopType'
  BY <1>1, <1>2, <1>7, <1>9 DEF LoopType
<1>15. pending # 0 /\ CapacityInv'
  <2>1. pending \in Nat
    BY <1>2, StartedFinite DEF RunnerInv
  <2> QED
    BY <1>1, <2>1 DEF CapacityInv
<1> QED
  BY <1>1, <1>2, <1>13, <1>14, <1>15 DEF LoopInv

LEMMA InterruptKeeps ==
    ASSUME PlanInv, LoopInv, Interrupt
    PROVE  LoopInv'
<1>1. /\ pc = "abort" /\ pc' = "returned" /\ result' = "interrupted"
      /\ active' = <<>> /\ disk' = Removed(toEdge)
      /\ UNCHANGED <<prepared, starts, running, failed, allowed, exited>>
  BY DEF Interrupt, Abort, Return, planVars, history
<1>2. LoopType /\ RunnerInv
  BY <1>1 DEF LoopInv
<1>3. \A f \in Edge : disk'[f] = IF f \in toEdge /\ (disk[f] = "touched" \/ f \in HasDeps)
                                 THEN "removed" ELSE disk[f]
  BY <1>1 DEF Removed
<1>4. ASSUME NEW f \in Edge, running'[f] > 0
      PROVE  disk'[f] # "touched"
  <2>1. f \in toEdge
    BY <1>1, <1>2, <1>4 DEF Started, RunnerInv
  <2> QED
    BY <1>3, <2>1
<1>5. ReturnedInv'
  BY <1>1, <1>4, ReturnsCleaned
<1>6. LoopType'
  <2>1. disk' \in [Edge -> {"old", "touched", "built", "removed"}]
    BY <1>1, <1>2 DEF LoopType, Removed
  <2>2. \A f \in Edge : disk'[f] = "touched" => starts'[f] > 0
    BY <1>1, <1>2, <1>3 DEF LoopType
  <2> QED
    BY <1>1, <1>2, <2>1, <2>2 DEF LoopType
<1> QED
  BY <1>1, <1>5, <1>6 DEF LoopInv

\* A command that is reaped has been started and is not phony.
LEMMA Reaped ==
    ASSUME PlanInv, LoopInv, NEW e \in Edge, NEW status, Reap(e, status), exited' = Tail(exited)
    PROVE  /\ pc = "reap" /\ LoopType /\ RunnerInv /\ result = "none"
           /\ toEdge' = toEdge \ {e}
           /\ exited' \in Seq(Edge \X Status)
           /\ e \notin Phony /\ running[e] > 0 /\ starts[e] > 0
<1>1. pc = "reap" /\ exited # <<>> /\ Head(exited) = <<e, status>> /\ toEdge' = toEdge \ {e}
  BY DEF Reap
<1>2. LoopType /\ RunnerInv /\ result = "none"
  BY <1>1 DEF LoopInv
<1>3. exited' \in Seq(Edge \X Status) /\ exited[1] = <<e, status>> /\ 1 \in DOMAIN exited
  BY <1>1, <1>2, Popping DEF LoopType
<1>4. e \in Started
  BY <1>2, <1>3 DEF Waiting, RunnerInv
<1>5. e \notin Phony /\ running[e] > 0
  BY <1>4 DEF Started
<1>6. starts[e] > 0
  <2>1. running[e] <= starts[e] /\ running[e] \in Nat /\ starts[e] \in Nat
    BY DEF PlanInv, BooksInv, ScheduleInv, Once, TypeOK
  <2> QED
    BY <1>5, <2>1
<1> QED
  BY <1>1, <1>2, <1>3, <1>5, <1>6

LEMMA CommandInterruptedKeeps ==
    ASSUME PlanInv, LoopInv, NEW e \in Edge, CommandInterrupted(e)
    PROVE  LoopInv'
<1>0. Reap(e, "interrupted") /\ exited' = Tail(exited)
  BY DEF CommandInterrupted
<1>1. /\ pc' = "returned" /\ result' = "interrupted"
      /\ active' = <<>> /\ disk' = Removed(toEdge')
      /\ UNCHANGED <<prepared, starts, running, failed, allowed>>
  BY DEF CommandInterrupted, Abort, Return, planVars, history
<1>2. /\ pc = "reap" /\ LoopType /\ RunnerInv /\ toEdge' = toEdge \ {e}
      /\ exited' \in Seq(Edge \X Status)
  BY <1>0, Reaped
<1>3. \A f \in Edge : disk'[f] = IF f \in toEdge' /\ (disk[f] = "touched" \/ f \in HasDeps)
                                 THEN "removed" ELSE disk[f]
  BY <1>1 DEF Removed
<1>4. ASSUME NEW f \in Edge \ {e}, running'[f] > 0
      PROVE  disk'[f] # "touched"
  <2>1. f \in toEdge'
    BY <1>1, <1>2, <1>4 DEF Started, RunnerInv
  <2> QED
    BY <1>3, <2>1
<1>5. ReturnedInv'
  <2> DEFINE own == {e}
  <2>1. result' = "interrupted" /\ \E f \in Edge : own = {f}
    BY <1>1
  <2>2. \A f \in Edge \ own : running'[f] > 0 => disk'[f] # "touched"
    BY <1>4
  <2> HIDE DEF own
  <2> QED
    BY <1>1, <2>1, <2>2, ReturnsCleaned
<1>6. LoopType'
  <2>1. disk' \in [Edge -> {"old", "touched", "built", "removed"}]
    BY <1>1, <1>2 DEF LoopType, Removed
  <2>2. \A f \in Edge : disk'[f] = "touched" => starts'[f] > 0
    BY <1>1, <1>2, <1>3 DEF LoopType
  <2>3. active' \in Seq(Edge)
    BY <1>1
  <2> QED
    BY <1>1, <1>2, <2>1, <2>2, <2>3 DEF LoopType
<1> QED
  BY <1>1, <1>5, <1>6 DEF LoopInv

LEMMA FinishFailureKeeps ==
    ASSUME PlanInv, LoopInv, NEW e \in Edge, FinishFailure(e)
    PROVE  LoopInv'
<1>0. Reap(e, "failure") /\ Popped /\ exited' = Tail(exited) /\ active' = active
  BY DEF FinishFailure, Popped
<1>1. /\ pc' = "loop" /\ pending' = pending - 1
      /\ allowed' = IF allowed > 0 THEN allowed - 1 ELSE 0
      /\ running' = [running EXCEPT ![e] = @ - 1]
      /\ UNCHANGED <<prepared, starts, result, disk>>
  BY DEF FinishFailure, EdgeFailed
<1>2. /\ pc = "reap" /\ LoopType /\ RunnerInv /\ result = "none"
      /\ exited' \in Seq(Edge \X Status) /\ running[e] > 0
  BY <1>0, Reaped
<1>3. \A f \in Edge : running'[f] = IF f = e THEN 0 ELSE running[f]
  BY <1>1, <1>2, Left
<1>4. RunnerInv'
  BY <1>0, <1>1, <1>2, <1>3, RunnerAfter
<1>5. allowed' \in Nat /\ allowed' < FailuresAllowed
  <2>1. allowed \in Nat /\ allowed <= FailuresAllowed /\ FailuresAllowed \in Nat \ {0}
    BY <1>2, BuilderAssumption DEF LoopType, BuilderAssumption
  <2> QED
    BY <1>1, <2>1
<1>6. LoopType'
  <2>1. allowed' <= FailuresAllowed /\ allowed' # FailuresAllowed
    BY <1>5, BuilderAssumption DEF BuilderAssumption
  <2> QED
    BY <1>0, <1>1, <1>2, <1>5, <2>1 DEF LoopType
<1>7. CapacityInv'
  BY <1>1 DEF CapacityInv
<1> QED
  BY <1>1, <1>2, <1>4, <1>6, <1>7 DEF LoopInv

LEMMA FinishSuccessKeeps ==
    ASSUME PlanInv, LoopInv, NEW e \in Edge, NEW unchanged, FinishSuccess(e, unchanged)
    PROVE  LoopInv'
<1>0. Reap(e, "success") /\ Popped /\ exited' = Tail(exited) /\ active' = active
  BY DEF FinishSuccess, Finish, Popped
<1>1. /\ pc' = "loop" /\ pending' = pending - 1
      /\ running' = [running EXCEPT ![e] = @ - 1]
      /\ disk' = [disk EXCEPT ![e] = "built"]
      /\ UNCHANGED <<prepared, starts, failed, result, allowed>>
  BY DEF FinishSuccess, Finish, EdgeSucceeded
<1>2. /\ pc = "reap" /\ LoopType /\ RunnerInv /\ result = "none"
      /\ exited' \in Seq(Edge \X Status) /\ running[e] > 0
  BY <1>0, Reaped
<1>3. \A f \in Edge : running'[f] = IF f = e THEN 0 ELSE running[f]
  BY <1>1, <1>2, Left
<1>4. RunnerInv'
  BY <1>0, <1>1, <1>2, <1>3, RunnerAfter
<1>5. LoopType'
  BY <1>0, <1>1, <1>2 DEF LoopType
<1>6. CapacityInv'
  BY <1>1 DEF CapacityInv
<1> QED
  BY <1>1, <1>2, <1>4, <1>5, <1>6 DEF LoopInv

LEMMA FinishErrorKeeps ==
    ASSUME PlanInv, LoopInv, NEW e \in Edge, NEW unchanged, FinishError(e, unchanged)
    PROVE  LoopInv'
<1>0. Reap(e, "success") /\ exited' = Tail(exited)
  BY DEF FinishError, Finish
<1>1. /\ pc' = "returned" /\ result' = "error"
      /\ running' = [running EXCEPT ![e] = @ - 1]
      /\ active' = <<>> /\ disk' = [Removed(toEdge') EXCEPT ![e] = "built"]
      /\ UNCHANGED <<prepared, starts, failed, allowed>>
  BY DEF FinishError, Finish, EdgeSucceeded, Abort, Return
<1>2. /\ pc = "reap" /\ LoopType /\ RunnerInv /\ toEdge' = toEdge \ {e}
      /\ exited' \in Seq(Edge \X Status) /\ running[e] > 0
  BY <1>0, Reaped
<1>3. \A f \in Edge : running'[f] = IF f = e THEN 0 ELSE running[f]
  BY <1>1, <1>2, Left
<1>4. \A f \in Edge : disk'[f] = IF f = e THEN "built"
                                 ELSE IF f \in toEdge' /\ (disk[f] = "touched" \/ f \in HasDeps)
                                 THEN "removed" ELSE disk[f]
  BY <1>1 DEF Removed
<1>5. ASSUME NEW f \in Edge, running'[f] > 0
      PROVE  disk'[f] # "touched"
  <2>1. f # e /\ running[f] > 0
    BY <1>3, <1>5
  <2>2. f \in toEdge'
    BY <1>2, <2>1 DEF Started, RunnerInv
  <2> QED
    BY <1>4, <2>1, <2>2
<1>6. ReturnedInv'
  BY <1>1, <1>5, ReturnsCleaned
<1>7. LoopType'
  <2>1. disk' \in [Edge -> {"old", "touched", "built", "removed"}]
    BY <1>1, <1>2 DEF LoopType, Removed
  <2>2. \A f \in Edge : disk'[f] = "touched" => starts'[f] > 0
    <3>1. \A f \in Edge : disk'[f] = "touched" => disk[f] = "touched"
      BY <1>4
    <3> QED
      BY <1>1, <1>2, <3>1 DEF LoopType
  <2>3. active' \in Seq(Edge)
    BY <1>1
  <2> QED
    BY <1>1, <1>2, <2>1, <2>2, <2>3 DEF LoopType
<1> QED
  BY <1>1, <1>6, <1>7 DEF LoopInv

LEMMA NoProgressKeeps ==
    ASSUME PlanInv, LoopInv, NoProgress
    PROVE  LoopInv'
<1>1. /\ pc = "reap" /\ pending = 0 /\ pc' = "returned"
      /\ result' = IF allowed = 0 THEN "failed"
                   ELSE IF allowed < FailuresAllowed THEN "no progress" ELSE "stuck"
      /\ UNCHANGED <<prepared, starts, running, failed, want, outs, ins, allowed>>
      /\ UNCHANGED <<active, exited, disk>>
  BY DEF NoProgress, Return, planVars, graph, history, runnerVars
<1>2. LoopType /\ RunnerInv /\ CapacityInv
  BY <1>1 DEF LoopInv
<1>3. active = <<>> /\ prepared
  BY <1>1, <1>2, NothingPending DEF LoopType
<1>4. allowed > 0 => Idle /\ MoreToDo
  BY <1>1, <1>2 DEF CapacityInv
<1>5. allowed \in Nat /\ allowed <= FailuresAllowed /\ FailuresAllowed \in Nat \ {0}
  BY <1>2, BuilderAssumption DEF LoopType, BuilderAssumption
<1>6. result' = "no progress" => Idle
  <2>1. allowed = 0 => result' = "failed"
    BY <1>1
  <2>2. allowed # 0 => Idle
    BY <1>4, <1>5
  <2> QED
    BY <2>1, <2>2
<1>11. result' # "stuck"
  <2> SUFFICES ASSUME result' = "stuck"  PROVE FALSE
    OBVIOUS
  <2>1. allowed = FailuresAllowed
    BY <1>1, <1>5
  <2>2. failed = {} /\ Idle /\ MoreToDo
    BY <1>2, <1>4, <1>5, <2>1 DEF LoopType
  <2>3. \A e \in Edge : want[e] = "Absent"
    BY <1>3, <2>2, StuckByFailure DEF PlanInv
  <2>4. Wanted(want) # {}
    BY <2>2, MoreToDoWanted DEF PlanInv
  <2> QED
    BY <2>3, <2>4 DEF Wanted
<1>7. (result = "no progress" =>
         \A e \in {f \in Edge : want[f] # "Absent"} :
           e \in failed \/ \E f \in Producers(e) : want[f] # "Absent")'
  <2> SUFFICES ASSUME result' = "no progress", NEW e \in Edge, want[e] # "Absent",
                      e \notin failed
               PROVE  \E f \in Producers(e) : want[f] # "Absent"
    BY <1>1 DEF Producers, AllIns
  <2>1. Idle
    BY <1>1, <1>6
  <2> QED
    BY <1>3, <2>1, WaitsForAnother DEF PlanInv
<1>8. result' \in {"failed", "no progress", "stuck"}
  BY <1>1
<1>9. ReturnedInv'
  <2>1. KeepsGoing'
    BY <1>7 DEF KeepsGoing
  <2>2. NeverStuck' /\ SuccessMeansDone' /\ CleanupCoversActive'
    BY <1>11, <1>8 DEF NeverStuck, SuccessMeansDone, CleanupCoversActive
  <2> QED
    BY <1>1, <1>3, <2>1, <2>2 DEF ReturnedInv, ResultIsTrue
<1>10. LoopType'
  BY <1>1, <1>2, <1>3, TypeKept
<1> QED
  BY <1>1, <1>9, <1>10 DEF LoopInv

\* A step in which the loop and the runner do nothing.
LEMMA StutterKeeps ==
    ASSUME LoopInv, UNCHANGED builderVars
    PROVE  LoopInv'
<1>1. /\ UNCHANGED <<want, wanted, command, ready, prepared, running, starts, failed,
                     ins, outs>>
      /\ UNCHANGED <<pc, capacity, pending, allowed, result, active, exited, toEdge, disk>>
  BY DEF builderVars, planVars, graph, history, loopVars, runnerVars
<1>2. LoopType'
  BY <1>1 DEF LoopInv, LoopType
<1>3. RunnerInv => RunnerInv'
  BY <1>1 DEF RunnerInv, OneEach, Range, Started, Waiting
<1>4. CapacityInv => CapacityInv'
  BY <1>1 DEF CapacityInv, Idle, MoreToDo
<1>5. ReturnedInv => ReturnedInv'
  BY <1>1 DEF ReturnedInv, ResultIsTrue, NeverStuck, SuccessMeansDone, KeepsGoing,
              CleanupCoversActive, Producers, AllIns
<1> QED
  BY <1>1, <1>2, <1>3, <1>4, <1>5 DEF LoopInv

LEMMA LoopInvStep ==
    ASSUME PlanInv, LoopInv, [BuilderNext]_builderVars
    PROVE  PlanInv' /\ LoopInv'
<1>1. PlanInv'
  BY LoopStep, PlanStep
<1>2. CASE Prepare \/ Loop \/ StartDone \/ Interrupt \/ NoProgress
  BY <1>1, <1>2, LoopPrepares, LoopKeeps, StartDoneKeeps, InterruptKeeps, NoProgressKeeps
<1>3. CASE \E done \in SUBSET Range(active) : DoWork(done)
  BY <1>1, <1>3, DoWorkKeeps
<1>4. ASSUME NEW e \in Edge, StartCommand(e) \/ StartFails(e) \/ StartPhony(e)
                               \/ FinishPhony(e) \/ CommandWrites(e)
      PROVE  LoopInv'
  BY <1>4, StartCommandKeeps, StartFailsKeeps, StartPhonyKeeps, FinishPhonyKeeps,
     CommandWritesKeeps
<1>5. ASSUME NEW e \in Edge, CommandInterrupted(e) \/ FinishFailure(e)
      PROVE  LoopInv'
  BY <1>5, CommandInterruptedKeeps, FinishFailureKeeps
<1>6. ASSUME NEW e \in Edge, NEW unchanged \in SUBSET outs[e],
             FinishSuccess(e, unchanged) \/ FinishError(e, unchanged)
      PROVE  LoopInv'
  BY <1>6, FinishSuccessKeeps, FinishErrorKeeps
<1>7. CASE UNCHANGED builderVars
  BY <1>1, <1>7, StutterKeeps
<1> QED
  BY <1>1, <1>2, <1>3, <1>4, <1>5, <1>6, <1>7 DEF BuilderNext

LEMMA LoopInvariant == BuilderSpec => [](PlanInv /\ LoopInv)
<1>1. BuilderInit => PlanInv /\ LoopInv
  BY PlanInit, LoopInit DEF BuilderInit
<1>2. PlanInv /\ LoopInv /\ [BuilderNext]_builderVars => (PlanInv /\ LoopInv)'
  BY LoopInvStep
<1> QED
  BY <1>1, <1>2, PTL DEF BuilderSpec

-----------------------------------------------------------------------------
\* In every build: success means that all the targets need is done, without a
\* failure; the build gives up with work left only if every edge it leaves has
\* failed or needs such a one; and it never says "stuck [this is a bug]"
\* (Builder::Build).
THEOREM BuildResultIsTrue == BuilderSpec => []ResultIsTrue
<1>1. LoopInv => ResultIsTrue
  BY DEF LoopInv, ReturnedInv, ResultIsTrue, NeverStuck, SuccessMeansDone, KeepsGoing
<1> QED
  BY <1>1, LoopInvariant, PTL

\* In every build that is cut short, the changed outputs of all started commands
\* that did not finish are gone, but for those of a command that a signal ended
\* itself (Builder::Cleanup, CommandRunner::GetActiveEdges).
THEOREM BuildCleansUp == BuilderSpec => []CleanupCoversActive
<1>1. LoopInv => CleanupCoversActive
  BY DEF LoopInv, ReturnedInv, CleanupCoversActive
<1> QED
  BY <1>1, LoopInvariant, PTL

-----------------------------------------------------------------------------
(***************************************************************************)
(* Dyndep files.  What the graph looks like, however many of the files     *)
(* have been loaded.                                                       *)
(***************************************************************************)
GraphOK ==
    /\ \A e, f \in Edge : outs[e] \cap outs[f] # {} => e = f
    /\ \A n \in Files : \E p \in Edge : outs[p] = {n}
    /\ HeldBack(dynPending) = OutEdges(dynPending)
    /\ \A f \in DynEdges : Dyndep[f] \in AllIns(f)
    /\ \A e \in OutEdges(Files) : e \in BelowFiles
    /\ \A e \in Edge : \A g \in Producers(e) : g \in BelowFiles => e \in BelowFiles
    /\ \A e \in BelowFiles : outs[e] \cap Files = {}
    /\ \A S \in (SUBSET Edge) \ {{}} : \E e \in S : Producers(e) \cap S = {}

LEMMA BelowFilesClosed ==
    /\ \A e \in Edge : AllInputs(e) \cap Files # {} => e \in BelowFiles
    /\ \A e \in Edge, g \in BelowFiles :
         AllOutputs(g) \cap AllInputs(e) # {} => e \in BelowFiles
<1> DEFINE F(S) == {e \in Edge : \/ AllInputs(e) \cap Files # {}
                                 \/ \E g \in S : AllOutputs(g) \cap AllInputs(e) # {}}
           K == {C \in SUBSET Edge : F(C) \cap Edge \subseteq C}
<1>1. BelowFiles = Edge \ UNION {Edge \ S : S \in K}
  BY DEF BelowFiles, Least
<1>2. ASSUME NEW e \in Edge, AllInputs(e) \cap Files # {}, NEW S \in K
      PROVE  e \in S
  <2>1. e \in F(S)
    BY <1>2
  <2> QED
    BY <2>1
<1>3. ASSUME NEW e \in Edge, NEW g \in BelowFiles,
             AllOutputs(g) \cap AllInputs(e) # {}, NEW S \in K
      PROVE  e \in S
  <2>1. g \in S
    BY <1>1, BelowClosed
  <2>2. e \in F(S)
    BY <1>3, <2>1
  <2> QED
    BY <2>2
<1> HIDE DEF K
<1> QED
  BY <1>1, <1>2, <1>3, InLeast

LEMMA GraphIsOK ==
    ASSUME InScope, GraphGrows, dynPending \subseteq Files
    PROVE  GraphOK
<1>1. \A e \in Edge : /\ Inputs[e] \cup OrderOnly[e] \subseteq AllIns(e)
                      /\ AllIns(e) \subseteq AllInputs(e)
                      /\ Outputs[e] \subseteq outs[e] /\ outs[e] \subseteq AllOutputs(e)
                      /\ e \notin DynEdges => outs[e] = AllOutputs(e)
  BY DEF GraphGrows, AllIns, AllInputs, AllOutputs
<1>2. \A e, f \in Edge : AllOutputs(e) \cap AllOutputs(f) # {} => e = f
  BY WellFormedAssumption
<1>3. \A f \in DynEdges : f \in Edge /\ Dyndep[f] \in AllIns(f) /\ Dyndep[f] \in Files
  BY <1>1, DyndepAssumption DEF DyndepAssumption, Files
<1>4. \A e \in OutEdges(Files) : e \in BelowFiles
  BY <1>1, BelowFilesClosed DEF OutEdges
<1>5. \A e \in BelowFiles : e \in Edge /\ AllOutputs(e) \cap Files = {}
  BY LevelAssumption DEF BelowFiles, Least
<1>6. \A n \in Files : \E p \in Edge : outs[p] = {n}
  <2> SUFFICES ASSUME NEW n \in Files  PROVE \E p \in Edge : outs[p] = {n}
    OBVIOUS
  <2>1. PICK p \in Edge : AllOutputs(p) = {n}
    BY DEF InScope, FilesAlone
  <2>2. p \notin DynEdges
    BY <1>3, <1>4, <1>5, <2>1 DEF OutEdges
  <2> QED
    BY <1>1, <2>1, <2>2
<1>7. HeldBack(dynPending) = OutEdges(dynPending)
  BY <1>6 DEF HeldBack, OutEdges
<1>8. \A e \in Edge : \A g \in Producers(e) : g \in BelowFiles => e \in BelowFiles
  BY <1>1, BelowFilesClosed DEF Producers
<1>9. \A e \in BelowFiles : outs[e] \cap Files = {}
  BY <1>1, <1>5
<1>10. \A e, f \in Edge : outs[e] \cap outs[f] # {} => e = f
  BY <1>1, <1>2
<1>11. \A S \in (SUBSET Edge) \ {{}} : \E e \in S : Producers(e) \cap S = {}
  <2> SUFFICES ASSUME NEW S \in (SUBSET Edge) \ {{}}
               PROVE  \E e \in S : Producers(e) \cap S = {}
    OBVIOUS
  <2>1. PICK e \in S : \A f \in S : AllOutputs(f) \cap AllInputs(e) = {}
    BY WellFormedAssumption
  <2>2. \A f \in S : f \notin Producers(e)
    BY <1>1, <2>1 DEF Producers
  <2> QED
    BY <2>2
<1> QED
  BY <1>3, <1>4, <1>6, <1>7, <1>8, <1>9, <1>10, <1>11 DEF GraphOK

-----------------------------------------------------------------------------
(***************************************************************************)
(* What Settle comes to for each edge, while the files dynPending wait.    *)
(***************************************************************************)
SettlesWell(w, done, seen, passed, sched) ==
    /\ oready' = done \cup passed
    /\ \A f \in Edge : want'[f] = IF f \in passed THEN "Absent"
                                  ELSE IF f \in sched THEN "ToFinish" ELSE w[f]
    /\ \A f \in passed : /\ w[f] = "Nothing" /\ f \notin HeldBack(dynPending)
                         /\ AllInputsReady(f, done \cup passed)
    /\ \A f \in sched : /\ w[f] = "ToStart" /\ f \notin HeldBack(dynPending)
                        /\ AllInputsReady(f, done \cup passed)
    /\ \A f \in (seen \cup OutEdges(NodesOf(passed) \ dynPending)) \ HeldBack(dynPending) :
         AllInputsReady(f, done \cup passed) =>
           /\ w[f] = "ToStart" => f \in sched
           /\ w[f] = "Nothing" => f \in passed
    /\ \A f \in Edge : ready'[f] + Count(f, delayed') > 0
                         <=> ready[f] + Count(f, delayed) > 0 \/ f \in sched
    /\ \A f \in Edge : ready'[f] + Count(f, delayed')
                         <= ready[f] + Count(f, delayed) + Count(f, sched)
    /\ /\ ready' \in [Edge -> Nat] /\ use' \in [Pool -> Int]
       /\ delayed' \subseteq Edge /\ oready' \subseteq Edge /\ want' \in [Edge -> Want]

\* The same with what it does to the pools.
SettlesInPools(w, done, seen, T, used, passed, sched, pooled, N) ==
    /\ SettlesWell(w, done, seen, passed, sched)
    /\ Pooled(used, T, sched, pooled, N)
    /\ N \subseteq pooled /\ pooled \subseteq sched
    /\ delayed' = (delayed \ T) \cup (pooled \ N)

LEMMA SettlePools ==
    ASSUME TypeOK, NEW w \in [Edge -> Want], NEW done \in SUBSET Edge,
           NEW seen \in SUBSET Edge, NEW T \in SUBSET delayed,
           NEW used \in [Pool -> Int], Settle(w, done, seen, T, used, dynPending)
    PROVE  \E passed, sched, pooled, N \in SUBSET Edge :
             SettlesInPools(w, done, seen, T, used, passed, sched, pooled, N)
<1> DEFINE Met(P) == (seen \cup OutEdges(NodesOf(P) \ dynPending)) \ HeldBack(dynPending)
<1>0. PICK passed, sched, pooled, N \in SUBSET Edge :
        SettlesFor(w, done, seen, T, used, dynPending, passed, sched, pooled, N)
  BY SettleEffect
<1>1. /\ passed = Passed(w, done, seen, dynPending)
      /\ SettlesBy(w, done, Met(passed), T, passed, sched, pooled, N)
      /\ Pooled(used, T, sched, pooled, N)
  BY <1>0 DEF SettlesFor
<1>2. \A f \in passed : /\ w[f] = "Nothing" /\ f \notin HeldBack(dynPending)
                        /\ AllInputsReady(f, done \cup passed)
  BY <1>1, PassedNothing, PassedReady
<1>3. \A f \in sched : /\ w[f] = "ToStart" /\ f \notin HeldBack(dynPending)
                       /\ AllInputsReady(f, done \cup passed)
  BY <1>1 DEF SettlesBy, Schedulable
<1>4. Met(passed) \subseteq Edge
  BY DEF OutEdges
<1>5. ASSUME NEW f \in Met(passed), AllInputsReady(f, done \cup passed)
      PROVE  /\ w[f] = "ToStart" => f \in sched
             /\ w[f] = "Nothing" => f \in passed
  <2>1. f \in Edge \ HeldBack(dynPending)
    BY <1>4
  <2>2. w[f] = "Nothing" => f \in passed
    BY <1>1, <1>5, <2>1, PassedClosed
  <2>3. w[f] = "ToStart" => f \in sched
    BY <1>1, <1>5 DEF SettlesBy, Schedulable
  <2> QED
    BY <2>2, <2>3
<1>6. /\ N \subseteq pooled /\ pooled \subseteq sched
      /\ ready' = [f \in Edge |-> ready[f] + Count(f, sched \ pooled)
                                  + Count(f, T) + Count(f, N)]
      /\ delayed' = (delayed \ T) \cup (pooled \ N)
      /\ oready' = done \cup passed
      /\ want' = [f \in Edge |-> IF f \in passed THEN "Absent"
                                 ELSE IF f \in sched THEN "ToFinish" ELSE w[f]]
      /\ ready' \in [Edge -> Nat] /\ use' \in [Pool -> Int]
  BY <1>1 DEF SettlesBy
<1>7. \A f \in Edge : ready'[f] + Count(f, delayed') > 0
                        <=> ready[f] + Count(f, delayed) > 0 \/ f \in sched
  <2> SUFFICES ASSUME NEW f \in Edge
               PROVE  ready'[f] + Count(f, delayed') > 0
                        <=> ready[f] + Count(f, delayed) > 0 \/ f \in sched
    OBVIOUS
  <2>1. ready[f] \in Nat
    BY DEF TypeOK
  <2>2. ready'[f] = ready[f] + Count(f, sched \ pooled) + Count(f, T) + Count(f, N)
    BY <1>6
  <2>3. f \in delayed' <=> (f \in delayed /\ f \notin T) \/ (f \in pooled /\ f \notin N)
    BY <1>6
  <2> QED
    BY <1>6, <2>1, <2>2, <2>3 DEF Count
<1>7a. \A f \in Edge : ready'[f] + Count(f, delayed')
                          <= ready[f] + Count(f, delayed) + Count(f, sched)
  <2> SUFFICES ASSUME NEW f \in Edge
               PROVE  ready'[f] + Count(f, delayed')
                        <= ready[f] + Count(f, delayed) + Count(f, sched)
    OBVIOUS
  <2>1. ready[f] \in Nat
    BY DEF TypeOK
  <2>2. ready'[f] = ready[f] + Count(f, sched \ pooled) + Count(f, T) + Count(f, N)
    BY <1>6
  <2>3. f \in delayed' <=> (f \in delayed /\ f \notin T) \/ (f \in pooled /\ f \notin N)
    BY <1>6
  <2> QED
    BY <1>6, <2>1, <2>2, <2>3 DEF Count
<1>8. delayed' \subseteq Edge /\ oready' \subseteq Edge /\ want' \in [Edge -> Want]
  BY <1>6 DEF TypeOK, Want
<1>9. \A f \in Edge : want'[f] = IF f \in passed THEN "Absent"
                                 ELSE IF f \in sched THEN "ToFinish" ELSE w[f]
  BY <1>6
<1> HIDE DEF Met
<1>10. \A f \in Met(passed) : AllInputsReady(f, done \cup passed) =>
           /\ w[f] = "ToStart" => f \in sched
           /\ w[f] = "Nothing" => f \in passed
  BY <1>5
<1>11. SettlesWell(w, done, seen, passed, sched)
  BY <1>2, <1>3, <1>6, <1>7, <1>7a, <1>8, <1>9, <1>10 DEF SettlesWell, Met
<1>12. SettlesInPools(w, done, seen, T, used, passed, sched, pooled, N)
  BY <1>1, <1>6, <1>11 DEF SettlesInPools
<1> QED
  BY <1>12

LEMMA SettleFacts ==
    ASSUME TypeOK, NEW w \in [Edge -> Want], NEW done \in SUBSET Edge,
           NEW seen \in SUBSET Edge, NEW T \in SUBSET delayed,
           NEW used \in [Pool -> Int], Settle(w, done, seen, T, used, dynPending)
    PROVE  \E passed, sched \in SUBSET Edge : SettlesWell(w, done, seen, passed, sched)
<1>1. PICK passed, sched, pooled, N \in SUBSET Edge :
        SettlesInPools(w, done, seen, T, used, passed, sched, pooled, N)
  BY SettlePools
<1> QED
  BY <1>1 DEF SettlesInPools

(***************************************************************************)
(* What a call of EdgeFinished has come to before it looks at the edges    *)
(* `seen`: the entries are w, the edges `done` are ready, B are held, and  *)
(* the edges that are ready but still have an entry are all passed.        *)
(***************************************************************************)
MidCall(w, done, seen, B, passed) ==
    /\ /\ done \subseteq visited' /\ B \subseteq visited' /\ visited' \subseteq Edge
       /\ \A f \in Edge : w[f] # "Absent" => f \in visited'
       /\ \A f \in visited' \ done : w[f] # "Absent"
    /\ \A f \in done : w[f] # "Absent" => f \in passed
    /\ \A f \in Edge : f \in done \/ f \in B \/ w[f] = "ToFinish" => AllInputsReady(f, done)
    /\ \A f \in HeldBack(dynPending) : f \notin done /\ f \notin B /\ w[f] # "ToFinish"
    /\ \A f \in Edge : w[f] # "Absent" => Producers(f) \subseteq visited'
    /\ /\ dirty' \subseteq NodesOf(visited')
       /\ \A f \in Wanted(w) : f \in stale \/ ins[f] \cap dirty' # {}
       /\ \A f \in Edge : w[f] = "Nothing" => outs[f] \cap dirty' = {}
    /\ \A f \in Wanted(w) \ failed :
         /\ w[f] = "ToFinish" => f \in B
         /\ w[f] = "ToStart" /\ AllInputsReady(f, done \cup passed)
              /\ f \notin HeldBack(dynPending) =>
                f \in B \/ f \in seen \cup OutEdges(NodesOf(passed) \ dynPending)

LEMMA SettlesKeep ==
    ASSUME TypeOK, GraphOK, GraphGrows, dynPending \subseteq Files,
           NEW w \in [Edge -> Want], NEW done, NEW seen, NEW B,
           NEW passed \in SUBSET Edge, NEW sched \in SUBSET Edge,
           SettlesWell(w, done, seen, passed, sched), MidCall(w, done, seen, B, passed),
           UNCHANGED <<ins, outs, stale, depsMissing, dynPending, failed>>,
           prepared', loaded' = {}, running' \in [Edge -> Nat],
           \A f \in Edge : Held(f)' > 0 <=> f \in B \/ f \in sched,
           \A n \in dynPending : \A p \in Edge :
             n \in outs[p] => p \in visited' /\ (p \in oready' <=> n \in loading')
    PROVE  DyndepInv'
<1>1. /\ oready' = done \cup passed
      /\ \A f \in Edge : want'[f] = IF f \in passed THEN "Absent"
                                    ELSE IF f \in sched THEN "ToFinish" ELSE w[f]
      /\ \A f \in passed : /\ w[f] = "Nothing" /\ f \notin HeldBack(dynPending)
                           /\ AllInputsReady(f, oready')
      /\ \A f \in sched : /\ w[f] = "ToStart" /\ f \notin HeldBack(dynPending)
                          /\ AllInputsReady(f, oready')
      /\ ready' \in [Edge -> Nat] /\ delayed' \subseteq Edge
  BY DEF SettlesWell
<1>2. \A f \in Edge : Held(f)' \in Nat
  BY <1>1 DEF Held, Count
<1>3. \A f \in Edge : /\ Producers(f)' = Producers(f) /\ AllIns(f)' = AllIns(f)
                      /\ AllInputsReady(f, oready)' <=> Producers(f) \subseteq oready'
  BY DEF Producers, AllIns, AllInputsReady
<1>4. \A f \in passed \cup sched : f \in Edge /\ Producers(f) \subseteq oready'
  BY <1>1 DEF AllInputsReady
<1>5. GraphGrows'
  BY DEF GraphGrows
<1>6. FilesFollowed'
  BY DEF FilesFollowed
<1>7. EntriesVisited'
  <2>1. done \subseteq Edge
    BY DEF MidCall
  <2>2. oready' \subseteq visited'
    BY <1>1 DEF MidCall
  <2>3. ASSUME NEW f \in Edge
        PROVE  want'[f] # "Absent" <=> f \in visited' \ oready'
    BY <1>1 DEF MidCall
  <2>4. ASSUME NEW f \in Edge, Held(f)' > 0  PROVE f \in visited'
    BY <1>1, <2>4 DEF MidCall
  <2> QED
    BY <2>2, <2>3, <2>4 DEF EntriesVisited
<1>8. HeldBack(dynPending) = OutEdges(dynPending)
  BY DEF GraphOK
<1>9. FileFirst'
  <2> SUFFICES ASSUME NEW n \in dynPending, NEW f \in Edge, n \in AllIns(f)
               PROVE  f \notin oready' /\ Held(f)' = 0 /\ want'[f] # "ToFinish"
    BY <1>3 DEF FileFirst, OutEdges
  <2>1. f \in HeldBack(dynPending)
    BY <1>8 DEF OutEdges
  <2>2. f \notin done /\ f \notin B /\ w[f] # "ToFinish" /\ f \notin passed /\ f \notin sched
    BY <1>1, <2>1 DEF MidCall
  <2> QED
    BY <1>1, <1>2, <2>2
<1>10. ReadyBelow'
  <2> SUFFICES ASSUME NEW f \in Edge,
                      f \in oready' \/ Held(f)' > 0 \/ want'[f] = "ToFinish"
               PROVE  Producers(f) \subseteq oready'
    BY <1>3 DEF ReadyBelow
  <2>1. CASE f \in passed \/ f \in sched
    BY <2>1, <1>4
  <2>2. CASE f \notin passed /\ f \notin sched
    <3>1. f \in done \/ f \in B \/ w[f] = "ToFinish"
      BY <1>1, <2>2
    <3>2. Producers(f) \subseteq done
      BY <3>1 DEF MidCall, AllInputsReady
    <3> QED
      BY <1>1, <3>2
  <2> QED
    BY <2>1, <2>2
<1>11. PlanKnows'
  <2> SUFFICES ASSUME NEW f \in Edge, want'[f] # "Absent"
               PROVE  Producers(f) \subseteq visited'
    BY <1>3 DEF PlanKnows
  <2>1. w[f] # "Absent"
    BY <1>1
  <2> QED
    BY <2>1 DEF MidCall
<1>12. DirtyReasons'
  <2>1. dirty' \subseteq NodesOf(visited)'
    BY DEF MidCall, NodesOf
  <2>2. ASSUME NEW f \in Edge, want'[f] \in {"ToStart", "ToFinish"}
        PROVE  f \in stale \/ ins[f] \cap dirty' # {}
    <3>1. f \in Wanted(w)
      BY <1>1, <2>2 DEF Wanted
    <3> QED
      BY <3>1 DEF MidCall
  <2>3. ASSUME NEW f \in Edge, want'[f] = "Nothing"
        PROVE  outs[f] \cap dirty' = {}
    <3>1. w[f] = "Nothing"
      BY <1>1, <2>3
    <3> QED
      BY <3>1 DEF MidCall
  <2> QED
    BY <2>1, <2>2, <2>3 DEF DirtyReasons, Wanted
<1>13. NoneWaits'
  <2> SUFFICES ASSUME NEW f \in Edge, want'[f] \in {"ToStart", "ToFinish"}, f \notin failed,
                      Producers(f) \subseteq oready', AllIns(f) \cap loading' = {}
               PROVE  Held(f)' > 0
    BY <1>3 DEF NoneWaits, Wanted
  <2>1. CASE f \in sched
    BY <2>1
  <2>2. CASE f \notin sched
    <3>1. f \in Wanted(w) \ failed /\ w[f] = want'[f]
      BY <1>1, <2>2 DEF Wanted
    <3>2. f \notin HeldBack(dynPending)
      <4> SUFFICES ASSUME NEW n \in dynPending, n \in AllIns(f)  PROVE FALSE
        BY <1>8 DEF OutEdges
      <4>1. PICK p \in Edge : outs[p] = {n}
        BY DEF GraphOK
      <4>2. p \in Producers(f)
        BY <4>1 DEF Producers
      <4> QED
        BY <4>1, <4>2
    <3>3. AllInputsReady(f, done \cup passed)
      BY <1>1 DEF AllInputsReady
    <3>4. f \in B
      <4>1. f \in B \/ f \in seen \cup OutEdges(NodesOf(passed) \ dynPending)
        BY <3>1, <3>2, <3>3 DEF MidCall
      <4> QED
        BY <2>2, <3>1, <3>2, <3>3, <4>1 DEF SettlesWell, MidCall
    <3> QED
      BY <3>4
  <2> QED
    BY <2>1, <2>2
<1>14. Fresh' /\ (~prepared => Settled)'
  BY DEF Fresh
<1> QED
  BY <1>5, <1>6, <1>7, <1>9, <1>10, <1>11, <1>12, <1>13, <1>14 DEF DyndepInv

\* An edge whose last dirty input is cleaned is cleaned.
LEMMA CleanedClosed ==
    ASSUME NEW N, NEW f \in Wanted(want) \ (depsMissing \cup stale),
           AllIns(f) \cap (N \cup NodesOf(Cleaned(N))) # {},
           ins[f] \cap (dirty \ (N \cup NodesOf(Cleaned(N)))) = {}
    PROVE  f \in Cleaned(N)
<1> DEFINE D == Wanted(want) \ (depsMissing \cup stale)
           F(C) == {g \in Edge :
                      /\ AllIns(g) \cap (N \cup NodesOf(C)) # {}
                      /\ ins[g] \cap (dirty \ (N \cup NodesOf(C))) = {}}
           K == {C \in SUBSET D : F(C) \cap D \subseteq C}
           L == Cleaned(N)
<1>1. L = D \ UNION {D \ S : S \in K}
  BY DEF Cleaned, Least
<1>2. ASSUME NEW S \in K  PROVE f \in S
  <2>1. L \subseteq S
    <3> HIDE DEF D, K, L
    <3> QED
      BY <1>1, <1>2, BelowClosed
  <2>2. f \in Edge
    BY DEF Wanted
  <2>3. NodesOf(L) \subseteq NodesOf(S)
    BY <2>1 DEF NodesOf
  <2>4. f \in F(S)
    BY <2>2, <2>3
  <2> QED
    BY <2>4
<1>3. f \in D
  OBVIOUS
<1> HIDE DEF D, K, L
<1>4. f \in L
  BY <1>1, <1>2, <1>3, InLeast
<1> QED
  BY <1>4 DEF L

\* What follows from a held edge, and from an entry.
LEMMA HeldFacts ==
    ASSUME DyndepInv, NEW e \in Edge, Held(e) > 0
    PROVE  /\ AllInputsReady(e, oready) /\ e \in visited /\ prepared
           /\ e \notin HeldBack(dynPending)
<1>1. AllInputsReady(e, oready) /\ e \in visited
  BY DEF DyndepInv, ReadyBelow, EntriesVisited
<1>2. prepared
  BY DEF DyndepInv, Fresh
<1>3. e \notin HeldBack(dynPending)
  BY DEF DyndepInv, FileFirst, HeldBack, OutEdges
<1> QED
  BY <1>1, <1>2, <1>3

LEMMA SucceededMidCall ==
    ASSUME TypeOK, DyndepInv, GraphOK, Settled, visited \subseteq Edge, visited' = visited,
           NEW e \in Edge, NEW unchanged \in SUBSET outs[e], Held(e) > 0,
           dirty' = dirty \ (unchanged \cup NodesOf(Cleaned(unchanged))),
           NEW B \in SUBSET Edge,
           \A f \in Edge : (f \in B => Held(f) > 0) /\ (f # e /\ Held(f) > 0 => f \in B),
           NEW passed \in SUBSET Edge
    PROVE  MidCall(WantAfter(e, Cleaned(unchanged)), oready \cup {e},
                   OutEdges(outs[e] \ dynPending), B, passed)
<1> DEFINE C == Cleaned(unchanged)
           w == WantAfter(e, C)
           done == oready \cup {e}
           seen == OutEdges(outs[e] \ dynPending)
<1>1. /\ AllInputsReady(e, oready) /\ e \in visited /\ prepared
      /\ e \notin HeldBack(dynPending)
  BY HeldFacts
<1>2. /\ oready \subseteq visited
      /\ \A f \in Edge : want[f] # "Absent" <=> f \in visited \ oready
      /\ \A f \in Edge : Held(f) > 0 => f \in visited
  BY DEF DyndepInv, EntriesVisited
<1>3. C \subseteq Wanted(want)
  BY CleanedWanted
<1>4. \A f \in Wanted(want) : f \in Edge /\ want[f] # "Absent" /\ f \notin oready
  BY <1>2 DEF Wanted
<1>5. e \notin C
  <2>1. CASE e \in oready
    BY <2>1, <1>3, <1>4
  <2>2. CASE e \notin oready
    BY <2>2, <1>1, <1>4, CleanedWaits
  <2> QED
    BY <2>1, <2>2
<1>6. /\ w[e] = "Absent" /\ \A f \in C : w[f] = "Nothing"
      /\ \A f \in Edge : f # e /\ f \notin C => w[f] = want[f]
  BY <1>3, <1>4, <1>5 DEF WantAfter
<1>7. HeldBack(dynPending) = OutEdges(dynPending)
  BY DEF GraphOK
<1>8. \A f \in Edge : w[f] # "Absent" => want[f] # "Absent" /\ f # e
  BY <1>3, <1>4, <1>6
<1>9. \A f \in Wanted(w) : f \in Edge /\ f # e /\ f \notin C /\ w[f] = want[f]
                           /\ f \in Wanted(want)
  BY <1>6 DEF Wanted
<1> HIDE DEF C, w
<1>10. /\ done \subseteq visited' /\ B \subseteq visited' /\ visited' \subseteq Edge
       /\ \A f \in Edge : w[f] # "Absent" => f \in visited'
       /\ \A f \in visited' \ done : w[f] # "Absent"
       /\ \A f \in done : w[f] # "Absent" => f \in passed
  <2>1. ASSUME NEW f \in visited \ done  PROVE w[f] # "Absent"
    BY <1>2, <1>6
  <2> QED
    BY <1>1, <1>2, <1>8, <2>1
<1>11. ASSUME NEW f \in Edge, f \in done \/ f \in B \/ w[f] = "ToFinish"
       PROVE  AllInputsReady(f, done)
  <2>1. f = e \/ f \in oready \/ Held(f) > 0 \/ want[f] = "ToFinish"
    BY <1>6, <1>11
  <2>2. AllInputsReady(f, oready)
    BY <1>1, <2>1 DEF DyndepInv, ReadyBelow
  <2> QED
    BY <2>2 DEF AllInputsReady
<1>12. ASSUME NEW f \in HeldBack(dynPending)
       PROVE  f \notin done /\ f \notin B /\ w[f] # "ToFinish"
  <2>1. f \in Edge /\ f \notin oready /\ Held(f) = 0 /\ want[f] # "ToFinish"
    BY <1>7 DEF DyndepInv, FileFirst, OutEdges
  <2>2. f \notin B
    BY <2>1
  <2> QED
    BY <1>1, <1>6, <2>1, <2>2
<1>13. ASSUME NEW f \in Edge, w[f] # "Absent"  PROVE Producers(f) \subseteq visited'
  BY <1>8, <1>13 DEF DyndepInv, PlanKnows, Settled
<1>14. dirty' \subseteq NodesOf(visited')
  BY DEF DyndepInv, DirtyReasons, NodesOf
<1>15. ASSUME NEW f \in Wanted(w)  PROVE f \in stale \/ ins[f] \cap dirty' # {}
  <2>1. f \in Wanted(want) /\ f \notin C /\ f \in Edge
    BY <1>9
  <2>2. f \in stale \/ ins[f] \cap dirty # {}
    BY <2>1 DEF DyndepInv, DirtyReasons
  <2>3. CASE f \notin stale /\ ins[f] \cap dirty' = {}
    <3>1. f \in Wanted(want) \ (depsMissing \cup stale)
      BY <2>1, <2>3 DEF DyndepInv, GraphGrows
    <3>2. AllIns(f) \cap (unchanged \cup NodesOf(C)) # {}
      BY <2>2, <2>3 DEF AllIns, C
    <3>3. ins[f] \cap (dirty \ (unchanged \cup NodesOf(C))) = {}
      BY <2>3 DEF C
    <3> QED
      BY <2>1, <3>1, <3>2, <3>3, CleanedClosed DEF C
  <2> QED
    BY <2>3
<1>16. ASSUME NEW f \in Edge, w[f] = "Nothing"  PROVE outs[f] \cap dirty' = {}
  <2>1. CASE f \in C
    BY <2>1 DEF NodesOf, C
  <2>2. CASE f \notin C
    BY <2>2, <1>6, <1>16 DEF DyndepInv, DirtyReasons
  <2> QED
    BY <2>1, <2>2
<1>17. ASSUME NEW f \in Wanted(w) \ failed
       PROVE  /\ w[f] = "ToFinish" => f \in B
              /\ w[f] = "ToStart" /\ AllInputsReady(f, done \cup passed)
                   /\ f \notin HeldBack(dynPending) =>
                     f \in B \/ f \in seen \cup OutEdges(NodesOf(passed) \ dynPending)
  <2>1. f \in Edge /\ f # e /\ w[f] = want[f] /\ f \in Wanted(want) \ failed
    BY <1>9
  <2>2. AllInputsReady(f, oready) => f \in B
    BY <1>1, <2>1 DEF DyndepInv, NoneWaits, Settled
  <2>3. w[f] = "ToFinish" => f \in B
    BY <2>1, <2>2 DEF DyndepInv, ReadyBelow
  <2>4. ASSUME AllInputsReady(f, done \cup passed), f \notin HeldBack(dynPending),
               ~AllInputsReady(f, oready)
        PROVE  f \in seen \cup OutEdges(NodesOf(passed) \ dynPending)
    <3>1. PICK p \in Producers(f) : p = e \/ p \in passed
      BY <2>4 DEF AllInputsReady
    <3>2. PICK m \in outs[p] : m \in AllIns(f) \ dynPending
      BY <2>1, <2>4, <1>7 DEF Producers, OutEdges
    <3>3. CASE p = e
      BY <2>1, <3>2, <3>3 DEF OutEdges
    <3>4. CASE p \in passed
      BY <2>1, <3>2, <3>4 DEF OutEdges, NodesOf
    <3> QED
      BY <3>1, <3>3, <3>4
  <2> QED
    BY <2>2, <2>3, <2>4
<1> HIDE DEF done, seen
<1>18. MidCall(w, done, seen, B, passed)
  BY <1>10, <1>11, <1>12, <1>13, <1>14, <1>15, <1>16, <1>17 DEF MidCall
<1> QED
  BY <1>18 DEF C, w, done, seen

LEMMA DyndepSucceeded ==
    ASSUME DyndepTypeOK, DyndepInv, GraphOK, Settled,
           NEW e \in Edge, NEW unchanged \in SUBSET outs[e], Succeeded(e, unchanged)
    PROVE  DyndepTypeOK' /\ DyndepInv'
<1> DEFINE C == Cleaned(unchanged)
           w == WantAfter(e, C)
           done == oready \cup {e}
           seen == OutEdges(outs[e] \ dynPending)
           used == UseWithout(e)
           B == {f \in Edge : ready[f] + Count(f, delayed) + running'[f] > 0}
<1>0. TypeOK /\ visited \subseteq Edge /\ dynPending \subseteq Node
  BY DEF DyndepTypeOK
<1>1. /\ running[e] > 0 /\ running' = [running EXCEPT ![e] = @ - 1]
      /\ dirty' = dirty \ (unchanged \cup NodesOf(C))
      /\ wanted' = wanted - Cardinality(C) - (IF want[e] # "Nothing" THEN 1 ELSE 0)
      /\ command' = command - Cardinality(C \ Phony)
      /\ UNCHANGED <<graph, weight, prepared, starts, failed>>
  BY DEF Succeeded, EdgeSucceeded
<1>2. PICK T \in SUBSET delayed : Settle(w, done, seen, T, used, dynPending)
  BY DEF Succeeded, EdgeSucceeded, WantAfter
<1>3. w \in [Edge -> Want]
  BY <1>0, WantAfterType
<1>4. done \in SUBSET Edge /\ seen \in SUBSET Edge /\ used \in [Pool -> Int]
  BY <1>0, UseWithoutType DEF TypeOK, OutEdges
<1>5. /\ visited' = visited /\ dynPending' = dynPending /\ loaded' = loaded
      /\ loading' = dynPending \cap NodesOf({e} \cup (oready' \ oready))
      /\ UNCHANGED <<ins, outs, stale, depsMissing, failed>>
  BY <1>1 DEF Succeeded, graph
<1> HIDE DEF w, done, seen, used
<1>6. PICK passed, sched \in SUBSET Edge : SettlesWell(w, done, seen, passed, sched)
  BY <1>0, <1>2, <1>3, <1>4, SettleFacts
<1>7. \A f \in Edge : ready[f] \in Nat /\ running[f] \in Nat /\ Count(f, delayed) \in Nat
  BY <1>0 DEF TypeOK, Count
<1>8. Held(e) > 0
  BY <1>1, <1>7 DEF Held
<1>9. /\ running' \in [Edge -> Nat]
      /\ \A f \in Edge : running'[f] = IF f = e THEN running[f] - 1 ELSE running[f]
  BY <1>0, <1>1 DEF TypeOK
<1>10. /\ B \in SUBSET Edge
       /\ \A f \in Edge : (f \in B => Held(f) > 0) /\ (f # e /\ Held(f) > 0 => f \in B)
  BY <1>7, <1>9 DEF Held
<1>11. \A f \in Edge : Held(f)' > 0 <=> f \in B \/ f \in sched
  <2> SUFFICES ASSUME NEW f \in Edge
               PROVE  Held(f)' > 0 <=> f \in B \/ f \in sched
    OBVIOUS
  <2>1. Held(f)' = ready'[f] + running'[f] + Count(f, delayed')
    BY DEF Held, Count
  <2>2. /\ ready'[f] \in Nat /\ running'[f] \in Nat /\ Count(f, delayed') \in Nat
        /\ ready[f] \in Nat /\ Count(f, delayed) \in Nat
    BY <1>6, <1>7, <1>9 DEF SettlesWell, Count
  <2>3. ready'[f] + Count(f, delayed') > 0
           <=> ready[f] + Count(f, delayed) > 0 \/ f \in sched
    BY <1>6 DEF SettlesWell
  <2> QED
    BY <2>1, <2>2, <2>3
<1> HIDE DEF B
<1>12. MidCall(w, done, seen, B, passed)
  BY <1>0, <1>1, <1>5, <1>8, <1>10, SucceededMidCall DEF w, done, seen
<1>13. prepared
  BY <1>8, HeldFacts
<1>14. ASSUME NEW n \in dynPending, NEW p \in Edge, n \in outs[p]
       PROVE  p \in visited' /\ (p \in oready' <=> n \in loading')
  <2>1. p \in visited /\ p \notin oready
    BY <1>14 DEF DyndepInv, FilesFollowed, Settled
  <2>2. oready' \subseteq Edge
    BY <1>6 DEF SettlesWell
  <2>3. p \in oready' => n \in loading'
    BY <1>5, <1>14, <2>1 DEF NodesOf
  <2>4. ASSUME n \in loading'  PROVE p \in oready'
    <3>1. PICK q \in {e} \cup (oready' \ oready) : n \in outs[q]
      BY <1>5, <2>4 DEF NodesOf
    <3>2. q = p
      BY <1>14, <2>2, <3>1 DEF GraphOK
    <3>3. e \in oready'
      BY <1>6 DEF SettlesWell, done
    <3> QED
      BY <3>1, <3>2, <3>3
  <2> QED
    BY <1>5, <2>1, <2>3, <2>4
<1>15. DyndepInv'
  <2>1. GraphGrows /\ dynPending \subseteq Files
    BY DEF DyndepInv, FilesFollowed
  <2>2. prepared' /\ loaded' = {}
    BY <1>1, <1>5, <1>13 DEF Settled
  <2> QED
    BY <1>0, <1>3, <1>5, <1>6, <1>9, <1>11, <1>12, <1>14, <2>1, <2>2, SettlesKeep
<1>16. wanted' \in Int /\ command' \in Int
  <2>1. Cardinality(C) \in Nat /\ Cardinality(C \ Phony) \in Nat
    BY CleanedWanted, EdgeSetFinite DEF Wanted
  <2>2. wanted \in Int /\ command \in Int
    BY <1>0 DEF TypeOK
  <2> HIDE DEF C
  <2> QED
    BY <1>1, <2>1, <2>2
<1>17. TypeOK'
  <2>1. dirty' \subseteq Node
    BY <1>0, <1>1 DEF TypeOK
  <2> QED
    BY <1>0, <1>1, <1>6, <1>9, <1>16, <2>1 DEF TypeOK, SettlesWell, graph
<1>18. DyndepTypeOK'
  BY <1>5, <1>17 DEF DyndepTypeOK
<1> QED
  BY <1>15, <1>18

LEMMA DyndepPrepare ==
    ASSUME DyndepTypeOK, DyndepInv, GraphOK, PrepareQueue, UNCHANGED dynVars
    PROVE  DyndepTypeOK' /\ DyndepInv'
<1>0. TypeOK /\ TypeOK'
  BY TypeStep DEF DyndepTypeOK, Next
<1>1. DyndepTypeOK'
  BY <1>0 DEF DyndepTypeOK, dynVars
<1>2. PICK pooled, free, T \in SUBSET Edge :
        /\ pooled \subseteq InitialEdges
        /\ free = InitialEdges \ pooled /\ T \subseteq pooled
        /\ want' = [f \in Edge |-> IF f \in free THEN "ToFinish" ELSE want[f]]
        /\ ready' = [f \in Edge |-> ready[f] + Count(f, free) + Count(f, T) + Count(f, {})]
        /\ delayed' = pooled \ T
  BY DEF PrepareQueue, InitialEdges, Push
<1>3. /\ ~prepared /\ prepared'
      /\ UNCHANGED <<ins, outs, stale, depsMissing, dirty, oready, running, failed>>
      /\ UNCHANGED <<visited, dynPending, loading, loaded>>
  BY DEF PrepareQueue, graph, history, dynVars
<1>4. /\ loading = {} /\ loaded = {}
      /\ \A f \in Edge : Held(f) = 0 /\ want[f] # "ToFinish"
  BY <1>3 DEF DyndepInv, Fresh, Settled
<1>5. \A f \in Edge : ready[f] = 0 /\ running[f] = 0 /\ f \notin delayed
  BY <1>0, <1>4 DEF Held, Count, TypeOK
<1>6. \A f \in Edge : f \in InitialEdges <=> want[f] = "ToStart" /\ Producers(f) \subseteq oready
  BY DEF InitialEdges, AllInputsReady
<1>7. \A f \in Edge : Held(f)' \in Nat /\ (Held(f)' > 0 <=> f \in InitialEdges)
  BY <1>2, <1>3, <1>5 DEF Held, Count
<1>8. \A f \in Edge : want'[f] = IF f \in free THEN "ToFinish" ELSE want[f]
  BY <1>2
<1>9. \A f \in Edge : /\ Producers(f)' = Producers(f) /\ AllIns(f)' = AllIns(f)
                      /\ AllInputsReady(f, oready)' <=> Producers(f) \subseteq oready
  BY <1>3 DEF Producers, AllIns, AllInputsReady
<1>10. GraphGrows' /\ FilesFollowed'
  BY <1>3 DEF DyndepInv, GraphGrows, FilesFollowed
<1>11. EntriesVisited'
  BY <1>2, <1>3, <1>6, <1>7, <1>8 DEF DyndepInv, EntriesVisited
<1>12. FileFirst'
  <2> SUFFICES ASSUME NEW n \in dynPending, NEW f \in Edge, n \in AllIns(f)
               PROVE  f \notin oready /\ f \notin InitialEdges
    BY <1>2, <1>3, <1>4, <1>7, <1>8, <1>9 DEF FileFirst, OutEdges
  <2>1. f \notin oready
    BY DEF DyndepInv, FileFirst, OutEdges
  <2>2. PICK p \in Edge : outs[p] = {n}
    BY DEF DyndepInv, FilesFollowed, GraphOK
  <2>3. p \in Producers(f) /\ p \notin oready
    BY <1>4, <2>2 DEF DyndepInv, FilesFollowed, Producers
  <2> QED
    BY <1>6, <2>1, <2>3
<1>13. ReadyBelow'
  BY <1>2, <1>3, <1>4, <1>6, <1>7, <1>8, <1>9 DEF DyndepInv, ReadyBelow, AllInputsReady
<1>14. PlanKnows'
  BY <1>2, <1>3, <1>4, <1>6, <1>8, <1>9 DEF DyndepInv, PlanKnows
<1>15. DirtyReasons'
  <2>1. dirty' \subseteq NodesOf(visited)'
    BY <1>3 DEF DyndepInv, DirtyReasons, NodesOf
  <2>2. /\ Wanted(want') \subseteq Wanted(want)
        /\ \A f \in Edge : want'[f] = "Nothing" => want[f] = "Nothing"
    BY <1>2, <1>6, <1>8 DEF Wanted
  <2> QED
    BY <1>3, <2>1, <2>2 DEF DyndepInv, DirtyReasons, Wanted
<1>16. NoneWaits'
  <2> SUFFICES ASSUME NEW f \in Edge, want'[f] \in {"ToStart", "ToFinish"},
                      Producers(f) \subseteq oready
               PROVE  Held(f)' > 0
    BY <1>9 DEF NoneWaits, Wanted
  <2>1. f \in InitialEdges
    BY <1>2, <1>4, <1>6, <1>8
  <2> QED
    BY <2>1, <1>7
<1>17. Fresh' /\ (~prepared => Settled)'
  BY <1>3 DEF Fresh
<1> QED
  BY <1>1, <1>10, <1>11, <1>12, <1>13, <1>14, <1>15, <1>16, <1>17 DEF DyndepInv

(***************************************************************************)
(* FindWork and a failure leave the graph and the entries as they are, and *)
(* hold no edge that was not held.                                         *)
(***************************************************************************)
LEMMA DyndepHeldOn ==
    ASSUME DyndepInv, prepared,
           UNCHANGED <<ins, outs, stale, depsMissing, dirty, oready, want, prepared>>,
           UNCHANGED dynVars, failed \subseteq failed',
           \A f \in Edge : /\ Held(f)' \in Nat /\ Held(f) \in Nat
                           /\ Held(f)' > 0 => Held(f) > 0
                           /\ f \notin failed' => Held(f)' = Held(f)
    PROVE  DyndepInv'
<1>1. \A f \in Edge : /\ Producers(f)' = Producers(f) /\ AllIns(f)' = AllIns(f)
                      /\ AllInputsReady(f, oready)' <=> AllInputsReady(f, oready)
                      /\ Held(f) = 0 => Held(f)' = 0
  BY DEF Producers, AllIns, AllInputsReady
<1>2. UNCHANGED <<visited, dynPending, loading, loaded>>
  BY DEF dynVars
<1>3. GraphGrows' /\ FilesFollowed'
  BY <1>2 DEF DyndepInv, GraphGrows, FilesFollowed
<1>4. EntriesVisited'
  BY <1>2 DEF DyndepInv, EntriesVisited
<1>5. FileFirst'
  <2> SUFFICES ASSUME NEW n \in dynPending \cup loaded, NEW f \in Edge, n \in AllIns(f)
               PROVE  f \notin oready /\ Held(f)' = 0 /\ want[f] # "ToFinish"
    BY <1>1, <1>2 DEF FileFirst, OutEdges
  <2>1. f \notin oready /\ Held(f) = 0 /\ want[f] # "ToFinish"
    BY DEF DyndepInv, FileFirst, OutEdges
  <2> QED
    BY <1>1, <2>1
<1>6. ReadyBelow'
  BY <1>1 DEF DyndepInv, ReadyBelow
<1>7. PlanKnows'
  BY <1>1, <1>2 DEF DyndepInv, PlanKnows
<1>8. DirtyReasons'
  BY <1>2 DEF DyndepInv, DirtyReasons, NodesOf, Wanted
<1>9. NoneWaits'
  <2> SUFFICES ASSUME NEW f \in Wanted(want), f \notin failed', AllInputsReady(f, oready),
                      AllIns(f) \cap (loading \cup loaded) = {}
               PROVE  Held(f)' > 0
    BY <1>1, <1>2 DEF NoneWaits, Wanted
  <2>1. f \in Edge /\ Held(f) > 0
    BY DEF DyndepInv, NoneWaits, Wanted
  <2> QED
    BY <2>1
<1>10. Fresh' /\ (~prepared => Settled)'
  BY DEF Fresh
<1> QED
  BY <1>3, <1>4, <1>5, <1>6, <1>7, <1>8, <1>9, <1>10 DEF DyndepInv

LEMMA DyndepFindWork ==
    ASSUME DyndepTypeOK, DyndepInv, NEW e \in Edge, FindWork(e), UNCHANGED dynVars
    PROVE  DyndepTypeOK' /\ DyndepInv'
<1>0. TypeOK /\ TypeOK'
  BY TypeStep DEF DyndepTypeOK, Next
<1>1. DyndepTypeOK'
  BY <1>0 DEF DyndepTypeOK, dynVars
<1>2. /\ prepared
      /\ ready' = [ready EXCEPT ![e] = @ - 1] /\ running' = [running EXCEPT ![e] = @ + 1]
      /\ UNCHANGED <<ins, outs, stale, depsMissing, dirty, oready, want, prepared,
                     delayed, failed>>
  BY DEF FindWork, graph
<1>3. \A f \in Edge : Held(f)' = Held(f) /\ Held(f) \in Nat
  BY <1>0, <1>2 DEF Held, TypeOK, Count
<1> QED
  BY <1>1, <1>2, <1>3, DyndepHeldOn

LEMMA DyndepFailed ==
    ASSUME DyndepTypeOK, DyndepInv, NEW e \in Edge, EdgeFailed(e), UNCHANGED dynVars
    PROVE  DyndepTypeOK' /\ DyndepInv'
<1>0. TypeOK /\ TypeOK'
  BY TypeStep DEF DyndepTypeOK, Next
<1>1. DyndepTypeOK'
  BY <1>0 DEF DyndepTypeOK, dynVars
<1>2. PICK T \in SUBSET delayed :
        /\ ready' = [f \in Edge |-> ready[f] + Count(f, {}) + Count(f, T) + Count(f, {})]
        /\ delayed' = delayed \ T
  BY DEF EdgeFailed, Push
<1>3. /\ running[e] > 0
      /\ running' = [running EXCEPT ![e] = @ - 1] /\ failed' = failed \cup {e}
      /\ UNCHANGED <<ins, outs, stale, depsMissing, dirty, oready, want, prepared>>
  BY DEF EdgeFailed, graph
<1>4. \A f \in Edge :
        /\ ready'[f] + Count(f, delayed)' = ready[f] + Count(f, delayed)
        /\ running'[f] = IF f = e THEN running[f] - 1 ELSE running[f]
  BY <1>0, <1>2, <1>3 DEF TypeOK, Count
<1>5. \A f \in Edge : /\ Held(f) \in Nat /\ Held(f)' \in Nat
                      /\ Held(f)' = IF f = e THEN Held(f) - 1 ELSE Held(f)
  <2> SUFFICES ASSUME NEW f \in Edge
               PROVE  /\ Held(f) \in Nat /\ Held(f)' \in Nat
                      /\ Held(f)' = IF f = e THEN Held(f) - 1 ELSE Held(f)
    OBVIOUS
  <2>1. /\ ready[f] \in Nat /\ running[f] \in Nat
        /\ ready'[f] \in Nat /\ running'[f] \in Nat
    BY <1>0 DEF TypeOK
  <2>2. Count(f, delayed) \in Nat /\ Count(f, delayed)' \in Nat
    BY DEF Count
  <2>3. /\ Held(f) = ready[f] + running[f] + Count(f, delayed)
        /\ Held(f)' = ready'[f] + running'[f] + Count(f, delayed)'
    BY DEF Held
  <2> QED
    BY <1>4, <2>1, <2>2, <2>3
<1>6. prepared
  <2>1. Held(e) > 0
    BY <1>0, <1>3 DEF Held, TypeOK, Count
  <2> QED
    BY <2>1, HeldFacts
<1>7. \A f \in Edge : /\ Held(f)' > 0 => Held(f) > 0
                      /\ f \notin failed' => Held(f)' = Held(f)
  BY <1>3, <1>5
<1> QED
  BY <1>1, <1>3, <1>5, <1>6, <1>7, DyndepHeldOn

-----------------------------------------------------------------------------
(***************************************************************************)
(* The scan before the build.                                              *)
(***************************************************************************)
\* What the scan visits and finds not ready has an entry.
LEMMA ReachedAll ==
    ASSUME NEW dirtyEdges, NEW f \in Sorted \cap NotReadyEdges(dirtyEdges)
    PROVE  f \in Reached(NotReadyEdges(dirtyEdges))
<1> DEFINE notReady == NotReadyEdges(dirtyEdges)
           F(S) == {g \in Edge : \/ outs[g] \cap Targets # {}
                                 \/ \E h \in S : g \in Producers(h)}
           K == {C \in SUBSET Edge : F(C) \cap Edge \subseteq C}
           R == Reached(notReady)
           A == {g \in Edge : g \in notReady => g \in R}
<1>1. Sorted = Edge \ UNION {Edge \ S : S \in K}
  BY DEF Sorted, Least
<1>2. ASSUME NEW g \in Edge, outs[g] \cap Targets # {}, g \in notReady
      PROVE  g \in R
  <2> DEFINE M == {C \in SUBSET notReady : F(C) \cap notReady \subseteq C}
  <2>1. R = notReady \ UNION {notReady \ S : S \in M}
    BY DEF Reached, Least
  <2>2. ASSUME NEW S \in M  PROVE g \in S
    BY <1>2
  <2> HIDE DEF M, R, notReady
  <2> QED
    BY <1>2, <2>1, <2>2, InLeast
<1>3. ASSUME NEW g \in Edge, NEW h \in A, g \in Producers(h), g \in notReady
      PROVE  g \in R
  <2>1. h \in notReady
    BY <1>3, NotReadyClosed
  <2> QED
    BY <1>3, <2>1, ReachedClosed
<1>4. A \in K
  <2>1. ASSUME NEW g \in F(A)  PROVE g \in A
    BY <1>2, <1>3
  <2> QED
    BY <2>1
<1> HIDE DEF K, A
<1>5. Sorted \subseteq A
  BY <1>1, <1>4, BelowClosed
<1> QED
  BY <1>5 DEF A

LEMMA DirtyReason ==
    ASSUME NEW f \in DirtyEdges
    PROVE  f \in Edge /\ (f \in stale \cup depsMissing \/ ins[f] \cap NodesOf(DirtyEdges) # {})
<1> DEFINE F(S) == stale \cup depsMissing \cup {g \in Edge : ins[g] \cap NodesOf(S) # {}}
           K == {C \in SUBSET Edge : F(C) \cap Edge \subseteq C}
           L == DirtyEdges
           A == F(L) \cap Edge
<1>1. L = Edge \ UNION {Edge \ S : S \in K}
  BY DEF DirtyEdges, Least
<1>2. ASSUME NEW S \in K  PROVE L \subseteq S
  <2> HIDE DEF K, L
  <2> QED
    BY <1>1, <1>2, BelowClosed
<1>3. ASSUME NEW g \in A  PROVE g \in L
  <2>1. ASSUME NEW S \in K  PROVE g \in S
    <3>1. NodesOf(L) \subseteq NodesOf(S)
      BY <1>2 DEF NodesOf
    <3>2. g \in F(S) \cap Edge
      BY <1>3, <3>1
    <3> QED
      BY <3>2
  <2>2. g \in Edge
    BY <1>3
  <2> HIDE DEF K, L, A
  <2> QED
    BY <1>1, <2>1, <2>2, InLeast
<1>4. A \in K
  <2>1. A \subseteq L
    BY <1>3
  <2>2. NodesOf(A) \subseteq NodesOf(L)
    BY <2>1 DEF NodesOf
  <2>3. ASSUME NEW g \in F(A) \cap Edge  PROVE g \in A
    BY <2>2
  <2> QED
    BY <2>3
<1>5. f \in A
  BY <1>2, <1>4
<1> QED
  BY <1>5

LEMMA DyndepStarts ==
    ASSUME InScope, DyndepInit
    PROVE  DyndepTypeOK /\ DyndepInv
<1>1. TypeOK /\ Fresh /\ FailureBlocks
  BY TypeInit, ScheduleInit, BlocksInit DEF DyndepInit, ScheduleInv
<1>2. PICK dirtyEdges, notReady, reached :
        /\ dirtyEdges = DirtyEdges /\ notReady = NotReadyEdges(dirtyEdges)
        /\ reached = Reached(notReady)
        /\ dirty = NodesOf(dirtyEdges \cap Sorted)
        /\ oready = Sorted \ notReady
        /\ want = [e \in Edge |-> IF e \notin reached THEN "Absent"
                                  ELSE IF e \in dirtyEdges THEN "ToStart"
                                  ELSE "Nothing"]
  <2>1. Init
    BY DEF DyndepInit
  <2>2. PICK dirtyEdges \in {DirtyEdges}, scanned \in {Sorted} :
          \E notReady \in {NotReadyEdges(dirtyEdges)} :
          \E reached \in {Reached(notReady)} :
            /\ dirty = NodesOf(dirtyEdges \cap scanned)
            /\ oready = scanned \ notReady
            /\ want = [e \in Edge |-> IF e \notin reached THEN "Absent"
                                      ELSE IF e \in dirtyEdges THEN "ToStart"
                                      ELSE "Nothing"]
    BY <2>1 DEF Init
  <2> QED
    BY <2>2
<1>3. /\ ins = Inputs /\ outs = Outputs /\ depsMissing = {} /\ ~prepared
      /\ visited = Sorted /\ dynPending = Files /\ loading = {} /\ loaded = {}
      /\ \A e \in Edge : outs[e] \cap dynPending # {} => e \in visited \ oready
  BY DEF DyndepInit, Init, Files, InScope, NothingLost
<1>4. \A e \in Edge : Held(e) = 0 /\ want[e] # "ToFinish"
  BY <1>1, <1>3 DEF Fresh
<1>5. GraphGrows
  BY <1>3 DEF GraphGrows, Files
<1>6. FilesFollowed
  BY <1>3 DEF FilesFollowed
<1>7. GraphOK
  BY <1>3, <1>5, GraphIsOK
<1>8. notReady \subseteq Edge /\ Sorted \subseteq Edge
  BY <1>2 DEF NotReadyEdges, Sorted, Least
<1>9. \A f \in Edge : f \in reached <=> f \in Sorted /\ f \in notReady
  BY <1>2, <1>8, ReachedSorted, ReachedAll
<1>10. \A f \in Edge : want[f] # "Absent" <=> f \in reached
  BY <1>2
<1>11. EntriesVisited
  BY <1>2, <1>3, <1>4, <1>9, <1>10 DEF EntriesVisited
<1>12. FileFirst
  <2> SUFFICES ASSUME NEW n \in Files, NEW f \in Edge, n \in AllIns(f)
               PROVE  f \notin oready
    BY <1>3, <1>4 DEF FileFirst, OutEdges
  <2>1. PICK p \in Edge : outs[p] = {n}
    BY <1>7 DEF GraphOK
  <2>2. p \in Producers(f) /\ p \in notReady
    BY <1>2, <1>3, <2>1 DEF Producers
  <2> QED
    BY <1>2, <2>2, NotReadyClosed
<1>13. ReadyBelow
  BY <1>1, <1>4 DEF ReadyBelow, FailureBlocks
<1>14. PlanKnows
  BY <1>3, <1>9, <1>10, SortedClosed DEF PlanKnows
<1>15. DirtyReasons
  <2>1. dirty \subseteq NodesOf(visited)
    BY <1>2, <1>3 DEF NodesOf
  <2>2. ASSUME NEW f \in Wanted(want)  PROVE f \in stale \/ ins[f] \cap dirty # {}
    <3>1. f \in Edge /\ f \in dirtyEdges /\ f \in reached
      BY <1>2, <2>2 DEF Wanted
    <3>2. CASE ins[f] \cap NodesOf(dirtyEdges) # {}
      <4>1. PICK g \in dirtyEdges : outs[g] \cap ins[f] # {}
        BY <3>2 DEF NodesOf
      <4>2. g \in Edge /\ g \in Producers(f)
        BY <1>2, <4>1, DirtyReason DEF Producers, AllIns
      <4>3. g \in Sorted
        BY <1>9, <3>1, <4>2, SortedClosed
      <4> QED
        BY <1>2, <4>1, <4>3 DEF NodesOf
    <3> QED
      BY <1>2, <1>3, <3>1, <3>2, DirtyReason
  <2>3. ASSUME NEW f \in Edge, want[f] = "Nothing"  PROVE outs[f] \cap dirty = {}
    <3>1. f \notin dirtyEdges
      BY <1>2, <2>3
    <3>2. \A g \in dirtyEdges \cap Sorted : outs[f] \cap outs[g] = {}
      BY <1>7, <1>8, <3>1 DEF GraphOK
    <3> QED
      BY <1>2, <3>2 DEF NodesOf
  <2> QED
    BY <2>1, <2>2, <2>3 DEF DirtyReasons
<1>16. NoneWaits
  BY <1>3 DEF NoneWaits
<1>17. DyndepInv
  BY <1>1, <1>3, <1>5, <1>6, <1>11, <1>12, <1>13, <1>14, <1>15, <1>16 DEF DyndepInv, Settled
<1>18. DyndepTypeOK
  <2>1. Files \subseteq Node
    BY DyndepAssumption DEF DyndepAssumption, Files
  <2> QED
    BY <1>1, <1>3, <1>8, <2>1 DEF DyndepTypeOK
<1> QED
  BY <1>17, <1>18

-----------------------------------------------------------------------------
(***************************************************************************)
(* Loading a file: the graph grows, and nothing else changes.              *)
(***************************************************************************)
LEMMA DyndepLoads ==
    ASSUME InScope, DyndepTypeOK, DyndepInv, GraphOK, NEW n \in Node, LoadDyndeps(n)
    PROVE  DyndepTypeOK' /\ DyndepInv'
<1> DEFINE U == {f \in DynEdges : Dyndep[f] = n}
<1>1. /\ n \in loading /\ loaded = {}
      /\ loading' = loading \ {n} /\ loaded' = {n} /\ dynPending' = dynPending \ {n}
      /\ stale \subseteq stale' /\ stale' \subseteq stale \cup U
      /\ ins' = [f \in Edge |-> IF f \in U THEN ins[f] \cup DynIns[f] ELSE ins[f]]
      /\ outs' = [f \in Edge |-> IF f \in U THEN outs[f] \cup DynOuts[f] ELSE outs[f]]
      /\ UNCHANGED <<depsMissing, dirty, oready, want, wanted, command, ready,
                     delayed, use, prepared, running, starts, failed, visited>>
  BY DEF LoadDyndeps, history
<1>2. DynEdges \subseteq Edge /\ DynIns \in [DynEdges -> SUBSET Node]
      /\ DynOuts \in [DynEdges -> SUBSET Node]
  BY DyndepAssumption DEF DyndepAssumption
<1>3. n \in dynPending /\ n \in Files /\ dynPending \subseteq Files
  BY <1>1 DEF DyndepTypeOK, DyndepInv, FilesFollowed
<1>4. /\ U \subseteq DynEdges /\ U \subseteq Edge
      /\ \A f \in U : n \in AllIns(f) /\ f \in BelowFiles /\ outs[f] \cap Files = {}
  BY <1>2, <1>3 DEF GraphOK, OutEdges
<1>5. \A f \in Edge : /\ ins'[f] = IF f \in U THEN ins[f] \cup DynIns[f] ELSE ins[f]
                      /\ outs'[f] = IF f \in U THEN outs[f] \cup DynOuts[f] ELSE outs[f]
                      /\ AllIns(f)' = IF f \in U THEN AllIns(f) \cup DynIns[f] ELSE AllIns(f)
                      /\ Held(f)' = Held(f)
  BY <1>1 DEF AllIns, Held, Count
<1>6. DyndepTypeOK'
  <2>1. ins' \in [Edge -> SUBSET Node] /\ outs' \in [Edge -> SUBSET Node]
    BY <1>1, <1>2 DEF DyndepTypeOK, TypeOK
  <2>2. stale' \subseteq Edge
    BY <1>1, <1>4 DEF DyndepTypeOK, TypeOK
  <2> QED
    BY <1>1, <2>1, <2>2 DEF DyndepTypeOK, TypeOK
<1>7. \A f \in U : ins[f] = Inputs[f] /\ outs[f] = Outputs[f]
  BY <1>3, <1>4 DEF DyndepInv, GraphGrows
<1>8. \A f \in Edge : AllIns(f) \subseteq AllInputs(f) /\ outs'[f] \subseteq AllOutputs(f)
                      /\ Outputs[f] \subseteq outs[f] /\ outs[f] \subseteq AllOutputs(f)
                      /\ Inputs[f] \cup OrderOnly[f] \subseteq AllIns(f)
  BY <1>2, <1>5 DEF DyndepInv, GraphGrows, AllIns, AllInputs, AllOutputs
\* What a consumer of the file may need anew, and nobody else does.
<1>9. ASSUME NEW e \in Edge, NEW p \in Edge, p \in Producers(e)'
      PROVE  \/ p \in Producers(e)
             \/ e \in U /\ outs'[p] \cap DynIns[e] # {}
  <2>1. outs'[p] \cap AllIns(e)' # {}
    BY <1>9 DEF Producers
  <2>2. CASE outs[p] \cap AllIns(e) # {}
    BY <2>2 DEF Producers
  <2>3. CASE e \in U /\ outs'[p] \cap DynIns[e] # {}
    BY <2>3
  <2>4. CASE p \in U /\ DynOuts[p] \cap AllIns(e) # {}
    <3>1. DynOuts[p] \cap AllInputs(e) # {}
      BY <1>8, <2>4
    <3>2. CASE Outputs[p] \cap (Inputs[e] \cup OrderOnly[e]) # {}
      BY <1>8, <3>2 DEF Producers
    <3>3. CASE /\ e \in DynEdges /\ Dyndep[e] = Dyndep[p]
               /\ DynOuts[p] \cap (Inputs[e] \cup OrderOnly[e]) = {}
      BY <1>7, <2>4, <3>3 DEF AllIns
    <3> QED
      BY <1>4, <2>4, <3>1, <3>2, <3>3 DEF InScope, OutputsFound
  <2> QED
    BY <1>5, <2>1, <2>2, <2>3, <2>4
<1>10. \A e \in U : e \notin oready /\ Held(e) = 0 /\ want[e] # "ToFinish"
  BY <1>3, <1>4 DEF DyndepInv, FileFirst, OutEdges
<1> HIDE DEF U
<1>11. GraphGrows'
  BY <1>1, <1>3, <1>5 DEF DyndepInv, GraphGrows, U
<1>12. FilesFollowed'
  <2>1. ASSUME NEW m \in dynPending', NEW p \in Edge, m \in outs'[p]
        PROVE  p \in visited /\ (p \in oready <=> m \in loading')
    <3>1. m \in Files /\ m # n /\ m \in dynPending
      BY <1>1, <1>3, <2>1
    <3>2. p \notin U
      BY <1>4, <1>8, <2>1, <3>1, LevelAssumption
    <3>3. m \in outs[p]
      BY <1>5, <2>1, <3>2
    <3> QED
      BY <1>1, <3>1, <3>3 DEF DyndepInv, FilesFollowed
  <2> QED
    BY <1>1, <1>3, <2>1 DEF FilesFollowed
<1>13. EntriesVisited'
  BY <1>1, <1>5 DEF DyndepInv, EntriesVisited
<1>14. FileFirst'
  <2> SUFFICES ASSUME NEW m \in dynPending, NEW e \in Edge, m \in AllIns(e)'
               PROVE  e \notin oready /\ Held(e) = 0 /\ want[e] # "ToFinish"
    BY <1>1, <1>3, <1>5 DEF FileFirst, OutEdges
  <2>1. CASE e \in U
    BY <1>10, <2>1
  <2>2. CASE e \notin U
    BY <1>5, <2>2 DEF DyndepInv, FileFirst, OutEdges
  <2> QED
    BY <2>1, <2>2
<1>15. ReadyBelow'
  <2> SUFFICES ASSUME NEW e \in Edge, e \in oready \/ Held(e) > 0 \/ want[e] = "ToFinish",
                      NEW p \in Producers(e)'
               PROVE  p \in oready
    BY <1>1, <1>5 DEF ReadyBelow, AllInputsReady
  <2>1. p \in Edge
    BY DEF Producers
  <2>2. e \notin U
    BY <1>10
  <2>3. p \in Producers(e)
    BY <1>9, <2>1, <2>2
  <2> QED
    BY <2>3 DEF DyndepInv, ReadyBelow, AllInputsReady
<1>16. PlanKnows'
  <2> SUFFICES ASSUME NEW e \in Edge, want[e] # "Absent", NEW p \in Producers(e)'
               PROVE  \/ p \in visited
                      \/ e \in DynEdges /\ Dyndep[e] = n /\ outs'[p] \cap DynIns[e] # {}
    BY <1>1 DEF PlanKnows
  <2>1. p \in Edge
    BY DEF Producers
  <2> QED
    BY <1>1, <1>9, <2>1 DEF DyndepInv, PlanKnows, U
<1>17. DirtyReasons'
  <2>1. dirty \subseteq NodesOf(visited)'
    <3>1. visited \subseteq Edge
      BY DEF DyndepTypeOK
    <3>2. \A f \in visited : outs[f] \subseteq outs'[f]
      BY <1>5, <3>1
    <3> QED
      BY <1>1, <3>2 DEF DyndepInv, DirtyReasons, NodesOf
  <2>2. ASSUME NEW f \in Wanted(want)  PROVE f \in stale' \/ ins'[f] \cap dirty # {}
    <3>1. f \in Edge /\ (f \in stale \/ ins[f] \cap dirty # {})
      BY DEF DyndepInv, DirtyReasons, Wanted
    <3> QED
      BY <1>1, <1>5, <3>1
  <2>3. ASSUME NEW f \in Edge, want[f] = "Nothing"  PROVE outs'[f] \cap dirty = {}
    <3>1. outs[f] \cap dirty = {}
      BY <2>3 DEF DyndepInv, DirtyReasons
    <3>2. ASSUME NEW m \in outs'[f], m \in dirty  PROVE m \in outs[f]
      <4>1. PICK g \in visited : m \in outs[g]
        BY <3>2 DEF DyndepInv, DirtyReasons, NodesOf
      <4>2. g \in Edge
        BY DEF DyndepTypeOK
      <4>3. g = f
        BY <1>8, <3>2, <4>1, <4>2, WellFormedAssumption
      <4> QED
        BY <4>1, <4>3
    <3> QED
      BY <3>1, <3>2
  <2> QED
    BY <1>1, <2>1, <2>2, <2>3 DEF DirtyReasons, Wanted
<1>18. NoneWaits'
  <2> SUFFICES ASSUME prepared, NEW f \in Wanted(want), f \notin failed,
                      Producers(f)' \subseteq oready,
                      AllIns(f)' \cap (loading' \cup loaded') = {}
               PROVE  Held(f) > 0
    <3>1. Wanted(want)' = Wanted(want) /\ Wanted(want) \subseteq Edge
      BY <1>1 DEF Wanted
    <3> QED
      BY <1>1, <1>5, <3>1 DEF NoneWaits, AllInputsReady
  <2>1. f \in Edge
    BY DEF Wanted
  <2>2. AllIns(f) \subseteq AllIns(f)' /\ \A p \in Edge : outs[p] \subseteq outs'[p]
    BY <1>5, <2>1
  <2>3. Producers(f) \subseteq Producers(f)'
    BY <2>2 DEF Producers
  <2>4. AllIns(f) \cap (loading \cup loaded) = {}
    BY <1>1, <2>2
  <2> QED
    BY <2>3, <2>4 DEF DyndepInv, NoneWaits, AllInputsReady
<1>19. Fresh' /\ (~prepared => Settled)'
  <2>1. prepared
    BY <1>1 DEF DyndepInv, Settled
  <2> QED
    BY <1>1, <2>1 DEF Fresh
<1> QED
  BY <1>6, <1>11, <1>12, <1>13, <1>14, <1>15, <1>16, <1>17, <1>18, <1>19 DEF DyndepInv

-----------------------------------------------------------------------------
(***************************************************************************)
(* The second scan, and the walk into what a file has added: what these    *)
(* sets hold.                                                              *)
(***************************************************************************)
LEMMA DependentsFacts ==
    ASSUME GraphOK, visited \subseteq Edge, NEW n \in Files
    PROVE  /\ Dependents(n) \subseteq {f \in visited : want[f] # "Absent"}
           /\ \A f \in visited : /\ want[f] # "Absent"
                                 /\ AllIns(f) \cap ({n} \cup NodesOf(Dependents(n))) # {}
                                 => f \in Dependents(n)
           /\ \A f \in Dependents(n) :
                n \in AllIns(f) \/ \E g \in Dependents(n) : g \in Producers(f)
           /\ Dependents(n) \subseteq BelowFiles
<1> DEFINE D == {f \in visited : want[f] # "Absent"}
           F(S) == {f \in Edge : AllIns(f) \cap ({n} \cup NodesOf(S)) # {}}
           K == {C \in SUBSET D : F(C) \cap D \subseteq C}
           L == Dependents(n)
           A == F(L) \cap D
           B == {f \in D : f \in BelowFiles}
<1>1. L = D \ UNION {D \ S : S \in K}
  BY DEF Dependents, Least
<1>2. L \subseteq D
  BY <1>1
<1>3. ASSUME NEW S \in K  PROVE L \subseteq S
  <2> HIDE DEF D, K, L
  <2> QED
    BY <1>1, <1>3, BelowClosed
<1>4. ASSUME NEW f \in A  PROVE f \in L
  <2>1. ASSUME NEW S \in K  PROVE f \in S
    <3>1. NodesOf(L) \subseteq NodesOf(S)
      BY <1>3 DEF NodesOf
    <3>2. f \in F(S) \cap D
      BY <1>4, <3>1
    <3> QED
      BY <3>2
  <2>2. f \in D
    BY <1>4
  <2> HIDE DEF D, K, L, A
  <2> QED
    BY <1>1, <2>1, <2>2, InLeast
<1>5. A \in K
  <2>1. A \subseteq L
    BY <1>4
  <2>2. NodesOf(A) \subseteq NodesOf(L)
    BY <2>1 DEF NodesOf
  <2>3. ASSUME NEW f \in F(A) \cap D  PROVE f \in A
    BY <2>2
  <2> QED
    BY <2>3
<1>6. L \subseteq A
  BY <1>3, <1>5
<1>7. B \in K
  <2>1. ASSUME NEW f \in F(B) \cap D  PROVE f \in BelowFiles
    <3>1. CASE n \in AllIns(f)
      BY <2>1, <3>1 DEF GraphOK, OutEdges
    <3>2. CASE \E g \in B : g \in Producers(f)
      BY <2>1, <3>2 DEF GraphOK
    <3>3. n \in AllIns(f) \/ \E g \in B : AllIns(f) \cap outs[g] # {}
      BY <2>1 DEF NodesOf
    <3> QED
      BY <3>1, <3>2, <3>3 DEF Producers
  <2> QED
    BY <2>1
<1>8. L \subseteq B
  BY <1>3, <1>7
<1>9. ASSUME NEW f \in L
      PROVE  n \in AllIns(f) \/ \E g \in L : g \in Producers(f)
  <2>1. AllIns(f) \cap ({n} \cup NodesOf(L)) # {}
    BY <1>6, <1>9
  <2> QED
    BY <1>2, <2>1 DEF NodesOf, Producers
<1> HIDE DEF L
<1>10. \A f \in visited : want[f] # "Absent" /\ AllIns(f) \cap ({n} \cup NodesOf(L)) # {}
                            => f \in L
  BY <1>4
<1> QED
  BY <1>2, <1>8, <1>9, <1>10 DEF L

LEMMA RescannedFacts ==
    ASSUME NEW dependents \in SUBSET Edge
    PROVE  /\ Rescanned(dependents) \subseteq Edge
           /\ dependents \subseteq Rescanned(dependents)
           /\ \A g \in Rescanned(dependents) : \A f \in Producers(g) :
                f \in visited \cup Rescanned(dependents)
<1> DEFINE F(S) == dependents \cup
                     {f \in Edge \ visited :
                        \E g \in S : f \in Producers(g) \/ outs[f] \cap Validations[g] # {}}
           K == {C \in SUBSET Edge : F(C) \cap Edge \subseteq C}
           L == Rescanned(dependents)
<1>1. L = Edge \ UNION {Edge \ S : S \in K}
  BY DEF Rescanned, Least
<1>2. ASSUME NEW S \in K  PROVE L \subseteq S /\ dependents \subseteq S
  <2>1. dependents \subseteq S
    OBVIOUS
  <2> HIDE DEF K, L
  <2> QED
    BY <1>1, <1>2, <2>1, BelowClosed
<1>3. ASSUME NEW g \in L, NEW f \in Producers(g), f \notin visited  PROVE f \in L
  <2>1. f \in Edge
    BY DEF Producers
  <2>2. ASSUME NEW S \in K  PROVE f \in S
    <3>1. g \in S
      BY <1>2
    <3>2. f \in F(S) \cap Edge
      BY <1>3, <2>1, <3>1
    <3> QED
      BY <3>2
  <2> HIDE DEF K, L
  <2> QED
    BY <1>1, <2>1, <2>2, InLeast
<1>4. ASSUME NEW f \in dependents  PROVE f \in L
  <2>1. f \in Edge /\ \A S \in K : f \in S
    BY <1>2
  <2> HIDE DEF K, L
  <2> QED
    BY <1>1, <2>1, InLeast
<1> HIDE DEF K, L
<1>5. L \subseteq Edge
  BY <1>1
<1> QED
  BY <1>3, <1>4, <1>5 DEF L

\* What lies below: without validations it is the dependents and what they need.
LEMMA RescannedOnly ==
    ASSUME InScope, NEW dependents \in SUBSET Edge, NEW A \in SUBSET Edge,
           dependents \subseteq A,
           \A g \in A : \A f \in Producers(g) : f \notin visited => f \in A
    PROVE  Rescanned(dependents) \subseteq A
<1> DEFINE F(S) == dependents \cup
                     {f \in Edge \ visited :
                        \E g \in S : f \in Producers(g) \/ outs[f] \cap Validations[g] # {}}
           K == {C \in SUBSET Edge : F(C) \cap Edge \subseteq C}
<1>1. Rescanned(dependents) = Edge \ UNION {Edge \ S : S \in K}
  BY DEF Rescanned, Least
<1>2. A \in K
  <2>1. \A g \in A : Validations[g] = {}
    BY DEF InScope, NothingLost
  <2> QED
    BY <2>1
<1> HIDE DEF K
<1> QED
  BY <1>1, <1>2, BelowClosed

LEMMA RescanDirtyFacts ==
    ASSUME depsMissing = {}, NEW R \in SUBSET Edge
    PROVE  /\ RescanDirty(R) \subseteq R
           /\ \A f \in R : f \in RescanDirty(R)
                <=> f \in stale \/ ins[f] \cap (dirty \cup NodesOf(RescanDirty(R))) # {}
<1> DEFINE F(S) == {f \in R : \/ f \in stale \cup (depsMissing \ visited)
                              \/ ins[f] \cap (dirty \cup NodesOf(S)) # {}}
           K == {C \in SUBSET R : F(C) \cap R \subseteq C}
           L == RescanDirty(R)
           A == F(L)
<1>1. L = R \ UNION {R \ S : S \in K}
  BY DEF RescanDirty, Least
<1>2. ASSUME NEW S \in K  PROVE L \subseteq S
  <2> HIDE DEF K, L
  <2> QED
    BY <1>1, <1>2, BelowClosed
<1>3. ASSUME NEW f \in A  PROVE f \in L
  <2>1. ASSUME NEW S \in K  PROVE f \in S
    <3>1. NodesOf(L) \subseteq NodesOf(S)
      BY <1>2 DEF NodesOf
    <3>2. f \in F(S) \cap R
      BY <1>3, <3>1
    <3> QED
      BY <3>2
  <2>2. f \in R
    BY <1>3
  <2> HIDE DEF K, L, A
  <2> QED
    BY <1>1, <2>1, <2>2, InLeast
<1>4. A \in K
  <2>1. NodesOf(A) \subseteq NodesOf(L)
    BY <1>3 DEF NodesOf
  <2>2. ASSUME NEW f \in F(A) \cap R  PROVE f \in A
    BY <2>1
  <2> QED
    BY <2>2
<1>5. L \subseteq A
  BY <1>2, <1>4
<1> HIDE DEF L
<1>6. \A f \in R : f \in L <=> f \in stale \/ ins[f] \cap (dirty \cup NodesOf(L)) # {}
  BY <1>3, <1>5
<1>7. L \subseteq R
  BY <1>5
<1> QED
  BY <1>6, <1>7 DEF L

LEMMA RescanNotReadyFacts ==
    ASSUME NEW R \in SUBSET Edge, NEW E \in SUBSET R
    PROVE  /\ RescanNotReady(R, E) \subseteq R
           /\ \A f \in E : AllIns(f) # {} => f \in RescanNotReady(R, E)
           /\ \A f \in R : f \in HeldBack(dynPending) => f \in RescanNotReady(R, E)
           /\ \A f \in R : \A p \in Producers(f) :
                p \in RescanNotReady(R, E) \/ p \notin oready \cup R
                  => f \in RescanNotReady(R, E)
<1> DEFINE waits == {f \in E : ~(f \in Phony /\ AllIns(f) = {})}
           F(S) == waits \cup HeldBack(dynPending) \cup
                     {f \in R : Producers(f) \cap (S \cup (Edge \ (oready \cup R))) # {}}
           K == {C \in SUBSET R : F(C) \cap R \subseteq C}
           L == RescanNotReady(R, E)
<1>1. L = R \ UNION {R \ S : S \in K}
  BY DEF RescanNotReady, Least
<1>2. ASSUME NEW S \in K  PROVE L \subseteq S
  <2> HIDE DEF K, L
  <2> QED
    BY <1>1, <1>2, BelowClosed
<1>3. ASSUME NEW f \in R,
             \/ f \in E /\ AllIns(f) # {}
             \/ f \in HeldBack(dynPending)
             \/ \E p \in Producers(f) : p \in L \/ p \notin oready \cup R
      PROVE  f \in L
  <2>1. ASSUME NEW S \in K  PROVE f \in S
    <3>1. L \subseteq S
      BY <1>2
    <3>2. Producers(f) \subseteq Edge
      BY DEF Producers
    <3>3. f \in F(S) \cap R
      <4>1. CASE f \in E /\ AllIns(f) # {}
        BY <4>1
      <4>2. CASE f \in HeldBack(dynPending)
        BY <4>2
      <4>3. CASE \E p \in Producers(f) : p \in L \/ p \notin oready \cup R
        <5> HIDE DEF L
        <5> QED
          BY <3>1, <3>2, <4>3
      <4> QED
        BY <1>3, <4>1, <4>2, <4>3
    <3> QED
      BY <3>3
  <2> HIDE DEF K, L
  <2> QED
    BY <1>1, <2>1, InLeast
<1> HIDE DEF L
<1>4. L \subseteq R
  BY <1>1
<1> QED
  BY <1>3, <1>4 DEF L

\* The walk that AddSubTarget makes from the inputs N that a file adds.
DyndepWalk(w, N, isReady) == Walk(w, N, isReady, TRUE)

LEMMA WalkFacts ==
    ASSUME NEW w, NEW N, NEW isReady, NEW walk, walk = DyndepWalk(w, N, isReady)
    PROVE  /\ \A f \in walk : f \in Edge \ isReady /\ w[f] # "ToFinish"
           /\ \A f \in Edge \ isReady : w[f] # "ToFinish" /\ outs[f] \cap N # {} => f \in walk
           /\ \A g \in walk : \A f \in Producers(g) \ isReady :
                w[f] # "ToFinish" /\ w[g] = "Absent" => f \in walk
<1> DEFINE D == {f \in Edge \ isReady : TRUE => w[f] # "ToFinish"}
           F(S) == {f \in Edge : \/ outs[f] \cap N # {}
                                 \/ \E g \in S : w[g] = "Absent" /\ f \in Producers(g)}
           K == {C \in SUBSET D : F(C) \cap D \subseteq C}
<1>1. walk = D \ UNION {D \ S : S \in K}
  BY DEF DyndepWalk, Walk, Least
<1>2. ASSUME NEW S \in K  PROVE walk \subseteq S
  <2> HIDE DEF D, K
  <2> QED
    BY <1>1, <1>2, BelowClosed
<1>3. ASSUME NEW f \in D,
             outs[f] \cap N # {} \/ \E g \in walk : w[g] = "Absent" /\ f \in Producers(g)
      PROVE  f \in walk
  <2>1. ASSUME NEW S \in K  PROVE f \in S
    <3>1. walk \subseteq S
      BY <1>2
    <3>2. f \in F(S) \cap D
      BY <1>3, <3>1
    <3> QED
      BY <3>2
  <2> HIDE DEF D, K
  <2> QED
    BY <1>1, <2>1, InLeast
<1>4. walk \subseteq D
  BY <1>1
<1>5. ASSUME NEW g \in walk, NEW f \in Producers(g) \ isReady, w[f] # "ToFinish", w[g] = "Absent"
      PROVE  f \in walk
  BY <1>3, <1>5 DEF Producers
<1>6. \A f \in Edge \ isReady : w[f] # "ToFinish" /\ outs[f] \cap N # {} => f \in walk
  BY <1>3
<1> QED
  BY <1>4, <1>5, <1>6

LEMMA WalkOnly ==
    ASSUME NEW w, NEW N, NEW isReady, NEW dyndepWalk, NEW A \in SUBSET Edge,
           \A f \in Edge \ isReady : outs[f] \cap N # {} => f \in A,
           \A g \in A : \A f \in Producers(g) \ isReady : w[g] = "Absent" => f \in A
    PROVE  Walk(w, N, isReady, dyndepWalk) \subseteq A
<1> DEFINE D == {f \in Edge \ isReady : dyndepWalk => w[f] # "ToFinish"}
           F(S) == {f \in Edge : \/ outs[f] \cap N # {}
                                 \/ \E g \in S : w[g] = "Absent" /\ f \in Producers(g)}
           K == {C \in SUBSET D : F(C) \cap D \subseteq C}
<1>1. Walk(w, N, isReady, dyndepWalk) = D \ UNION {D \ S : S \in K}
  BY DEF Walk, Least
<1>2. A \cap D \in K
  OBVIOUS
<1> HIDE DEF D, K
<1> QED
  BY <1>1, <1>2, BelowClosed

LEMMA DyndepWalkOnly ==
    ASSUME NEW w, NEW N, NEW isReady, NEW A \in SUBSET Edge,
           \A f \in Edge \ isReady : outs[f] \cap N # {} => f \in A,
           \A g \in A : \A f \in Producers(g) \ isReady : w[g] = "Absent" => f \in A
    PROVE  DyndepWalk(w, N, isReady) \subseteq A
  BY WalkOnly DEF DyndepWalk

(***************************************************************************)
(* After the file n: the dependents Dp, the edges R that are scanned       *)
(* again, those of them that are dirty (E), and the edges that are ready   *)
(* then (IR).  No edge of R was ready before.                              *)
(***************************************************************************)
ScannedAgain(n, Dp, R, E, IR) ==
    /\ /\ Dp \subseteq visited /\ Dp \subseteq BelowFiles
       /\ \A f \in Dp : /\ want[f] # "Absent"
                        /\ n \in AllIns(f) \/ \E g \in Dp : g \in Producers(f)
       /\ \A f \in visited : want[f] # "Absent" /\ n \in AllIns(f) => f \in Dp
    /\ /\ R \subseteq Edge /\ Dp \subseteq R /\ R \cap oready = {}
       /\ \A f \in R : f \in Dp \/ f \notin visited
       /\ \A g \in R : \A f \in Producers(g) : f \in visited \cup R
    /\ E \subseteq R
    /\ \A f \in R : f \in E <=> f \in stale \/ ins[f] \cap (dirty \cup NodesOf(E)) # {}
    /\ /\ oready \subseteq IR /\ IR \subseteq oready \cup R
       /\ \A f \in IR : Producers(f) \subseteq IR
       /\ \A f \in E : AllIns(f) # {} => f \notin IR
       /\ \A f \in HeldBack(dynPending) : f \notin IR

LEMMA Rescans ==
    ASSUME InScope, DyndepTypeOK, DyndepInv, GraphOK, NEW n \in loaded,
           NEW Dp, Dp = Dependents(n), NEW R, R = Rescanned(Dp),
           NEW E, E = RescanDirty(R),
           NEW IR, IR = (oready \ R) \cup (R \ RescanNotReady(R, E))
    PROVE  ScannedAgain(n, Dp, R, E, IR)
<1>0. /\ visited \subseteq Edge /\ n \in Files /\ oready \subseteq visited
      /\ depsMissing = {}
      /\ \A f \in Edge : want[f] # "Absent" <=> f \in visited \ oready
  BY DEF DyndepTypeOK, DyndepInv, FilesFollowed, EntriesVisited, GraphGrows
<1>1. /\ Dp \subseteq visited /\ Dp \subseteq BelowFiles
      /\ \A f \in Dp : /\ want[f] # "Absent"
                       /\ n \in AllIns(f) \/ \E g \in Dp : g \in Producers(f)
      /\ \A f \in visited : want[f] # "Absent" /\ n \in AllIns(f) => f \in Dp
  BY <1>0, DependentsFacts
<1>2. Dp \in SUBSET Edge
  BY <1>0, <1>1
<1>3. /\ R \subseteq Edge /\ Dp \subseteq R
      /\ \A g \in R : \A f \in Producers(g) : f \in visited \cup R
  BY <1>2, RescannedFacts
<1>4. \A f \in R : f \in Dp \/ f \notin visited
  <2> DEFINE A == Dp \cup (Edge \ visited)
  <2>1. A \in SUBSET Edge /\ Dp \subseteq A
    BY <1>2
  <2>2. \A g \in A : \A f \in Producers(g) : f \notin visited => f \in A
    BY DEF Producers
  <2> HIDE DEF A
  <2>3. R \subseteq A
    BY <1>2, <2>1, <2>2, RescannedOnly
  <2> QED
    BY <2>3 DEF A
<1>5. R \cap oready = {}
  BY <1>0, <1>1, <1>3, <1>4
<1>6. /\ E \subseteq R
      /\ \A f \in R : f \in E <=> f \in stale \/ ins[f] \cap (dirty \cup NodesOf(E)) # {}
  BY <1>0, <1>3, RescanDirtyFacts
<1> DEFINE NR == RescanNotReady(R, E)
<1>7. /\ NR \subseteq R
      /\ \A f \in E : AllIns(f) # {} => f \in NR
      /\ \A f \in R : f \in HeldBack(dynPending) => f \in NR
      /\ \A f \in R : \A p \in Producers(f) : p \in NR \/ p \notin oready \cup R => f \in NR
  BY <1>3, <1>6, RescanNotReadyFacts
<1>8. IR = oready \cup (R \ NR)
  BY <1>5
<1> HIDE DEF NR
<1>9. ASSUME NEW f \in IR, NEW p \in Producers(f)  PROVE p \in IR
  <2>1. CASE f \in oready
    <3>1. f \in Edge
      BY <1>0, <2>1
    <3>2. p \in oready
      BY <2>1, <3>1 DEF DyndepInv, ReadyBelow, AllInputsReady
    <3> QED
      BY <1>8, <3>2
  <2>2. CASE f \in R \ NR
    BY <1>7, <1>8, <2>2
  <2> QED
    BY <1>8, <2>1, <2>2
<1>10. \A f \in E : AllIns(f) # {} => f \notin IR
  BY <1>5, <1>6, <1>7, <1>8
<1>11. ASSUME NEW f \in HeldBack(dynPending)  PROVE f \notin IR
  <2>1. f \notin oready
    BY DEF GraphOK, OutEdges, DyndepInv, FileFirst
  <2> QED
    BY <1>7, <1>8, <2>1
<1> QED
  BY <1>1, <1>3, <1>4, <1>5, <1>6, <1>8, <1>9, <1>10, <1>11 DEF ScannedAgain

(***************************************************************************)
(* The entries w then, when the walk has come to the edges K.              *)
(***************************************************************************)
WalkedAgain(Dp, R, E, IR, K, w) ==
    /\ /\ K \subseteq Edge /\ K \cap IR = {}
       /\ \A f \in K : want[f] # "Absent" \/ f \in R
       /\ \A f \in R \ visited : f \in IR \/ f \in K
    /\ LET isDirty(f) == outs[f] \cap (dirty \cup NodesOf(E)) # {}
       IN  \A f \in Edge :
             /\ want[f] \in {"ToStart", "ToFinish"} => w[f] = want[f]
             /\ want[f] = "Nothing" =>
                  w[f] = IF (f \in K \/ f \in Dp) /\ isDirty(f) THEN "ToStart" ELSE "Nothing"
             /\ want[f] = "Absent" =>
                  w[f] = IF f \notin K THEN "Absent"
                         ELSE IF isDirty(f) THEN "ToStart" ELSE "Nothing"
    /\ w \in [Edge -> Want]

LEMMA NoWalk ==
    ASSUME NEW w, NEW isReady, NEW dyndepWalk
    PROVE  Walk(w, {}, isReady, dyndepWalk) = {}
<1>1. Walk(w, {}, isReady, dyndepWalk) \subseteq {}
  BY WalkOnly
<1> QED
  BY <1>1

\* The inputs the file adds to the edges S.
Added(S) == UNION {DynIns[f] : f \in S}

LEMMA Walks ==
    ASSUME InScope, DyndepTypeOK, DyndepInv, GraphOK, NEW n \in loaded,
           NEW Dp, NEW R, R = Rescanned(Dp), NEW E, NEW IR, ScannedAgain(n, Dp, R, E, IR),
           NEW isDirty, isDirty = dirty \cup NodesOf(E),
           NEW w, w = Wants(want, Dp, isDirty),
           NEW roots, roots = {f \in DynEdges : Dyndep[f] = n /\ f \notin IR /\ w[f] # "Absent"},
           NEW K, K = DyndepWalk(w, Added(roots), IR)
    PROVE  WalkedAgain(Dp, R, E, IR, K, Entered(w, K, isDirty))
<1> DEFINE N == Added(roots)
<1>0. /\ visited \subseteq Edge /\ want \in [Edge -> Want] /\ loaded = {n}
      /\ n \in Files \ dynPending
      /\ \A f \in Edge : want[f] # "Absent" <=> f \in visited \ oready
      /\ DynEdges \subseteq Edge
  BY DyndepAssumption DEF DyndepAssumption, DyndepTypeOK, TypeOK, DyndepInv,
     FilesFollowed, EntriesVisited
<1>1. /\ Dp \subseteq visited /\ R \subseteq Edge /\ Dp \subseteq R
      /\ \A f \in visited : want[f] # "Absent" /\ n \in AllIns(f) => f \in Dp
      /\ \A g \in R : \A f \in Producers(g) : f \in visited \cup R
      /\ oready \subseteq IR /\ \A f \in IR : Producers(f) \subseteq IR
      /\ \A f \in R : f \in Dp \/ f \notin visited
  BY DEF ScannedAgain
<1>2. \A f \in Edge :
        w[f] = IF f \in Dp /\ want[f] = "Nothing" /\ outs[f] \cap isDirty # {}
               THEN "ToStart" ELSE want[f]
  BY DEF Wants
<1>3. \A f \in Edge : w[f] = "Absent" <=> want[f] = "Absent"
  BY <1>2
<1>4. \A f \in roots : /\ f \in Dp /\ f \notin IR /\ DynIns[f] \subseteq AllIns(f)
  <2> SUFFICES ASSUME NEW f \in roots
               PROVE  f \in Dp /\ f \notin IR /\ DynIns[f] \subseteq AllIns(f)
    OBVIOUS
  <2>1. f \in DynEdges /\ f \in Edge /\ Dyndep[f] = n /\ f \notin IR /\ want[f] # "Absent"
    BY <1>0, <1>3
  <2>2. n \in AllIns(f)
    BY <2>1 DEF GraphOK
  <2>3. DynIns[f] \subseteq ins[f]
    BY <1>0, <2>1 DEF DyndepInv, GraphGrows
  <2> QED
    BY <1>0, <1>1, <2>1, <2>2, <2>3 DEF AllIns
<1>5. K = DyndepWalk(w, N, IR)
  OBVIOUS
<1>6. \A f \in DynEdges : Dyndep[f] = n /\ f \notin IR /\ want[f] # "Absent"
                            => DynIns[f] \subseteq N
  BY <1>0, <1>3 DEF Added
<1>7. \A m \in N : \E g \in roots : m \in AllIns(g)
  BY <1>4 DEF Added
<1> HIDE DEF N
<1>8. /\ \A f \in K : f \in Edge \ IR /\ w[f] # "ToFinish"
      /\ \A f \in Edge \ IR : w[f] # "ToFinish" /\ outs[f] \cap N # {} => f \in K
      /\ \A g \in K : \A f \in Producers(g) \ IR :
           w[f] # "ToFinish" /\ w[g] = "Absent" => f \in K
  <2>1. \A f \in K : f \in Edge \ IR /\ w[f] # "ToFinish"
    BY <1>5, WalkFacts
  <2>2. \A f \in Edge \ IR : w[f] # "ToFinish" /\ outs[f] \cap N # {} => f \in K
    BY <1>5, WalkFacts
  <2>3. \A g \in K : \A f \in Producers(g) \ IR :
          w[f] # "ToFinish" /\ w[g] = "Absent" => f \in K
    BY <1>5, WalkFacts
  <2> QED
    BY <2>1, <2>2, <2>3
<1>9. K \subseteq {f \in Edge : want[f] # "Absent" \/ f \in R}
  <2> DEFINE A == {f \in Edge : want[f] # "Absent" \/ f \in R}
  <2>1. ASSUME NEW f \in Edge \ IR, NEW g \in R, f \in Producers(g)  PROVE f \in A
    BY <1>0, <1>1, <2>1
  <2>2. ASSUME NEW f \in Edge \ IR, outs[f] \cap N # {}  PROVE f \in A
    <3>1. \E g \in roots : f \in Producers(g)
      BY <1>7, <2>2 DEF Producers
    <3> QED
      BY <1>1, <1>4, <2>1, <3>1
  <2>3. ASSUME NEW g \in A, NEW f \in Producers(g) \ IR, w[g] = "Absent"  PROVE f \in A
    <3>1. g \in R
      BY <1>3, <2>3
    <3>2. f \in Edge
      BY DEF Producers
    <3> QED
      BY <2>1, <2>3, <3>1, <3>2
  <2>4. A \in SUBSET Edge
    OBVIOUS
  <2> HIDE DEF A
  <2>5. K \subseteq A
    BY <1>5, <2>2, <2>3, <2>4, DyndepWalkOnly
  <2> QED
    BY <2>5 DEF A
<1> DEFINE v == Entered(w, K, isDirty)
<1>10. \A f \in Edge :
         v[f] = IF f \in K /\ w[f] \in {"Absent", "Nothing"}
                THEN IF outs[f] \cap isDirty # {} THEN "ToStart" ELSE "Nothing"
                ELSE w[f]
  BY DEF Entered
<1>11. ASSUME NEW f \in Edge
       PROVE  /\ want[f] \in {"ToStart", "ToFinish"} => v[f] = want[f]
              /\ want[f] = "Nothing" =>
                   v[f] = IF (f \in K \/ f \in Dp) /\ outs[f] \cap isDirty # {}
                          THEN "ToStart" ELSE "Nothing"
              /\ want[f] = "Absent" =>
                   v[f] = IF f \notin K THEN "Absent"
                          ELSE IF outs[f] \cap isDirty # {} THEN "ToStart" ELSE "Nothing"
  <2> HIDE DEF v
  <2>1. want[f] \in {"ToStart", "ToFinish"} => v[f] = want[f]
    BY <1>2, <1>10
  <2>2. ASSUME want[f] = "Nothing"
        PROVE  v[f] = IF (f \in K \/ f \in Dp) /\ outs[f] \cap isDirty # {}
                      THEN "ToStart" ELSE "Nothing"
    <3>1. w[f] = IF f \in Dp /\ outs[f] \cap isDirty # {} THEN "ToStart" ELSE "Nothing"
      BY <1>2, <2>2
    <3> QED
      BY <1>10, <3>1
  <2>3. ASSUME want[f] = "Absent"
        PROVE  v[f] = IF f \notin K THEN "Absent"
                      ELSE IF outs[f] \cap isDirty # {} THEN "ToStart" ELSE "Nothing"
    <3>1. w[f] = "Absent"
      BY <1>2, <2>3
    <3> QED
      BY <1>10, <3>1
  <2> QED
    BY <2>1, <2>2, <2>3
<1>12. v \in [Edge -> Want]
  <2>1. w \in [Edge -> Want]
    BY <1>0 DEF Wants, Want
  <2> QED
    BY <2>1 DEF Entered, Want
\* What was not visited and is not ready: the walk comes to it from a root.
<1>13. \A f \in R \ visited : f \in IR \/ f \in K
  <2> DEFINE A == Dp \cup {f \in Edge \ visited : f \in IR \/ f \in K}
  <2>1. ASSUME NEW g \in Dp, NEW f \in Producers(g), f \notin visited  PROVE f \in A
    <3>1. f \in Edge /\ g \in Edge /\ want[g] # "Absent" /\ w[f] # "ToFinish"
      BY <1>0, <1>1, <1>2, <2>1 DEF ScannedAgain, Producers
    <3>2. g \in DynEdges /\ Dyndep[g] = n /\ outs[f] \cap DynIns[g] # {}
      BY <1>0, <2>1, <3>1 DEF DyndepInv, PlanKnows
    <3>3. CASE g \in IR
      BY <1>1, <2>1, <3>1, <3>3
    <3>4. CASE g \notin IR /\ f \notin IR
      <4>1. outs[f] \cap N # {}
        BY <1>6, <3>1, <3>2, <3>4
      <4> QED
        BY <1>8, <2>1, <3>1, <3>4, <4>1
    <3> QED
      BY <2>1, <3>1, <3>3, <3>4
  <2>2. ASSUME NEW g \in Edge \ visited, g \in IR \/ g \in K,
               NEW f \in Producers(g), f \notin visited
        PROVE  f \in A
    <3>1. f \in Edge /\ w[f] = "Absent" /\ w[g] = "Absent"
      BY <1>0, <1>3, <2>2 DEF Producers
    <3> QED
      BY <1>1, <1>8, <2>2, <3>1
  <2>3. Dp \in SUBSET Edge /\ A \in SUBSET Edge /\ Dp \subseteq A
    BY <1>1
  <2>4. \A g \in A : \A f \in Producers(g) : f \notin visited => f \in A
    BY <2>1, <2>2
  <2>5. A \cap (Edge \ visited) \subseteq {f \in Edge : f \in IR \/ f \in K}
    BY <1>1
  <2> HIDE DEF A
  <2>6. R \subseteq A
    BY <2>3, <2>4, RescannedOnly
  <2> QED
    BY <1>1, <2>5, <2>6
<1> HIDE DEF v
<1>14. WalkedAgain(Dp, R, E, IR, K, v)
  BY <1>8, <1>9, <1>11, <1>12, <1>13 DEF WalkedAgain
<1> QED
  BY <1>14 DEF v

(***************************************************************************)
(* An edge that turns out to be ready although it has an entry is a        *)
(* dependent with nothing to do; the visit of the file's consumers comes   *)
(* to it, in the order of the graph.                                       *)
(***************************************************************************)
LEMMA ReadyArePassed ==
    ASSUME DyndepTypeOK, DyndepInv, GraphOK, NEW n \in loaded,
           NEW Dp, NEW R, NEW E, NEW IR, ScannedAgain(n, Dp, R, E, IR),
           NEW K, NEW w, WalkedAgain(Dp, R, E, IR, K, w),
           NEW seen, {f \in OutEdges({n}) : w[f] # "Absent"} \subseteq seen,
           NEW passed \in SUBSET Edge, NEW sched, SettlesWell(w, IR, seen, passed, sched)
    PROVE  \A f \in IR : w[f] # "Absent" => f \in passed
<1>0. /\ visited \subseteq Edge /\ oready \subseteq visited /\ depsMissing = {}
      /\ want \in [Edge -> Want]
      /\ \A f \in Edge : want[f] # "Absent" <=> f \in visited \ oready
  BY DEF DyndepTypeOK, TypeOK, DyndepInv, EntriesVisited, GraphGrows
<1>1. /\ Dp \subseteq visited /\ Dp \subseteq R /\ E \subseteq R
      /\ R \subseteq Edge /\ IR \subseteq oready \cup R /\ K \cap IR = {}
  BY DEF ScannedAgain, WalkedAgain
<1>2. ASSUME NEW f \in IR, w[f] # "Absent"
      PROVE  /\ f \in Dp /\ f \notin E /\ w[f] = "Nothing"
             /\ f \notin HeldBack(dynPending) /\ Producers(f) \subseteq IR
  <2>1. f \in Edge /\ f \notin K
    BY <1>0, <1>1
  <2>2. want[f] # "Absent"
    BY <1>2, <2>1 DEF WalkedAgain
  <2>3. f \in Dp
    BY <1>0, <1>1, <2>1, <2>2 DEF ScannedAgain
  <2>4. AllIns(f) # {}
    BY <2>3 DEF ScannedAgain, Producers
  <2>5. f \notin E
    BY <1>2, <2>4 DEF ScannedAgain
  <2>6. f \notin stale /\ ins[f] \cap dirty = {}
    BY <1>1, <2>3, <2>5 DEF ScannedAgain
  <2>7. want[f] = "Nothing"
    <3>1. f \notin Wanted(want)
      BY <2>6 DEF DyndepInv, DirtyReasons
    <3> QED
      BY <1>0, <2>1, <2>2, <3>1 DEF Wanted, Want
  <2>8. outs[f] \cap (dirty \cup NodesOf(E)) = {}
    <3>1. outs[f] \cap dirty = {}
      BY <2>1, <2>7 DEF DyndepInv, DirtyReasons
    <3>2. \A g \in E : outs[f] \cap outs[g] = {}
      BY <1>1, <2>1, <2>5 DEF GraphOK
    <3> QED
      BY <3>1, <3>2 DEF NodesOf
  <2>9. w[f] = "Nothing"
    BY <2>1, <2>7, <2>8 DEF WalkedAgain
  <2> QED
    BY <1>2, <2>3, <2>5, <2>9 DEF ScannedAgain
<1> DEFINE X == {f \in IR : w[f] # "Absent" /\ f \notin passed}
<1> SUFFICES ASSUME X # {}  PROVE FALSE
  OBVIOUS
<1>3. X \in (SUBSET Edge) \ {{}}
  BY <1>0, <1>1
<1>4. PICK f \in X : Producers(f) \cap X = {}
  BY <1>3 DEF GraphOK
<1>5. /\ f \in Dp /\ f \in Edge /\ w[f] = "Nothing" /\ f \notin passed
      /\ f \notin HeldBack(dynPending) /\ AllInputsReady(f, IR \cup passed)
  BY <1>0, <1>1, <1>2 DEF AllInputsReady
<1>6. f \in seen \cup OutEdges(NodesOf(passed) \ dynPending)
  <2>1. CASE n \in AllIns(f)
    BY <1>5, <2>1 DEF OutEdges
  <2>2. CASE \E g \in Dp : g \in Producers(f)
    <3>1. PICK g \in Dp : g \in Producers(f)
      BY <2>2
    <3>2. g \in IR /\ g \in Edge /\ g \notin X
      BY <1>2, <1>4, <3>1 DEF Producers
    <3>3. w[g] # "Absent"
      <4>1. want[g] # "Absent"
        BY <3>1 DEF ScannedAgain
      <4>2. want[g] \in {"Nothing", "ToStart", "ToFinish"}
        BY <1>0, <3>2, <4>1 DEF Want
      <4> QED
        BY <3>2, <4>2 DEF WalkedAgain
    <3>4. g \in passed
      BY <3>2, <3>3
    <3>5. PICK m \in outs[g] : m \in AllIns(f)
      BY <3>1 DEF Producers
    <3>6. m \notin dynPending
      BY <1>5, <3>5 DEF GraphOK, OutEdges
    <3> QED
      BY <1>5, <3>4, <3>5, <3>6 DEF OutEdges, NodesOf
  <2> QED
    BY <1>5, <2>1, <2>2 DEF ScannedAgain
<1> QED
  BY <1>5, <1>6 DEF SettlesWell

LEMMA LoadedMidCall ==
    ASSUME DyndepTypeOK, DyndepInv, GraphOK, NEW n \in loaded,
           NEW Dp, NEW R, NEW E, NEW IR, ScannedAgain(n, Dp, R, E, IR),
           NEW K, NEW w, WalkedAgain(Dp, R, E, IR, K, w),
           visited' = visited \cup R, dirty' = dirty \cup NodesOf(E),
           NEW seen, K \subseteq seen, {f \in OutEdges({n}) : w[f] # "Absent"} \subseteq seen,
           NEW passed \in SUBSET Edge, NEW sched, SettlesWell(w, IR, seen, passed, sched),
           NEW B, B = {f \in Edge : Held(f) > 0}
    PROVE  MidCall(w, IR, seen, B, passed)
<1>0. /\ visited \subseteq Edge /\ oready \subseteq visited /\ depsMissing = {}
      /\ want \in [Edge -> Want] /\ n \in Files \ dynPending /\ loaded = {n}
      /\ \A f \in Edge : want[f] # "Absent" <=> f \in visited \ oready
      /\ \A f \in Edge : Held(f) > 0 => f \in visited
  BY DEF DyndepTypeOK, TypeOK, DyndepInv, EntriesVisited, FilesFollowed, GraphGrows
<1>1. /\ Dp \subseteq visited /\ Dp \subseteq R /\ E \subseteq R /\ R \subseteq Edge
      /\ oready \subseteq IR /\ IR \subseteq oready \cup R /\ K \cap IR = {} /\ K \subseteq Edge
      /\ \A f \in R : f \in Dp \/ f \notin visited
      /\ \A f \in R \ visited : f \in IR \/ f \in K
      /\ \A f \in K : want[f] # "Absent" \/ f \in R
  BY DEF ScannedAgain, WalkedAgain
<1>2. ASSUME NEW f \in Edge
      PROVE  /\ w[f] # "Absent" <=> want[f] # "Absent" \/ f \in K
             /\ w[f] = "ToFinish" <=> want[f] = "ToFinish"
             /\ want[f] \in {"ToStart", "ToFinish"} => w[f] = want[f]
  <2>1. want[f] \in {"Absent", "Nothing", "ToStart", "ToFinish"}
    BY <1>0 DEF Want
  <2>2. CASE want[f] = "Absent"
    BY <2>2 DEF WalkedAgain
  <2>3. CASE want[f] = "Nothing"
    BY <2>3 DEF WalkedAgain
  <2>4. CASE want[f] \in {"ToStart", "ToFinish"}
    BY <2>4 DEF WalkedAgain
  <2> QED
    BY <2>1, <2>2, <2>3, <2>4
<1>3. \A f \in IR : w[f] # "Absent" => f \in passed
  BY ReadyArePassed
<1>4. HeldBack(dynPending) = OutEdges(dynPending)
  BY DEF GraphOK
\* The entries are the edges that have been visited and are not ready.
<1>5. /\ IR \subseteq visited' /\ B \subseteq visited' /\ visited' \subseteq Edge
      /\ \A f \in Edge : w[f] # "Absent" => f \in visited'
      /\ \A f \in visited' \ IR : w[f] # "Absent"
  <2>1. ASSUME NEW f \in Edge, w[f] # "Absent"  PROVE f \in visited'
    BY <1>0, <1>1, <1>2, <2>1
  <2>2. ASSUME NEW f \in visited', f \notin IR  PROVE w[f] # "Absent"
    BY <1>0, <1>1, <1>2, <2>2
  <2> QED
    BY <1>0, <1>1, <2>1, <2>2
<1>6. ASSUME NEW f \in Edge, f \in IR \/ f \in B \/ w[f] = "ToFinish"
      PROVE  AllInputsReady(f, IR)
  <2>1. CASE f \in IR
    BY <2>1 DEF ScannedAgain, AllInputsReady
  <2>2. CASE Held(f) > 0 \/ want[f] = "ToFinish"
    BY <1>1, <2>2 DEF DyndepInv, ReadyBelow, AllInputsReady
  <2> QED
    BY <1>2, <1>6, <2>1, <2>2
<1>7. ASSUME NEW f \in HeldBack(dynPending)
      PROVE  f \notin IR /\ f \notin B /\ w[f] # "ToFinish"
  <2>1. f \in Edge /\ Held(f) = 0 /\ want[f] # "ToFinish"
    BY <1>4 DEF DyndepInv, FileFirst, OutEdges
  <2> QED
    BY <1>2, <2>1 DEF ScannedAgain
<1>8. ASSUME NEW f \in Edge, w[f] # "Absent"  PROVE Producers(f) \subseteq visited'
  <2>1. CASE f \in R
    BY <2>1 DEF ScannedAgain
  <2>2. CASE f \notin R
    <3>1. want[f] # "Absent" /\ f \in visited
      BY <1>0, <1>1, <1>2, <1>8, <2>2
    <3>2. n \notin AllIns(f)
      BY <1>1, <2>2, <3>1 DEF ScannedAgain
    <3>3. ~(f \in DynEdges /\ Dyndep[f] \in loaded)
      BY <1>0, <3>2 DEF GraphOK
    <3> QED
      BY <3>1, <3>3 DEF DyndepInv, PlanKnows
  <2> QED
    BY <2>1, <2>2
<1>9. dirty' \subseteq NodesOf(visited')
  BY <1>1 DEF DyndepInv, DirtyReasons, NodesOf
\* A new entry, or a dependent that had nothing to do, is dirty by itself.
<1>10. ASSUME NEW f \in Edge, outs[f] \cap dirty' # {}, f \in K \/ f \in Dp,
              want[f] = "Absent" \/ want[f] = "Nothing"
       PROVE  f \in E
  <2>1. outs[f] \cap dirty = {}
    <3>1. CASE want[f] = "Nothing"
      BY <3>1 DEF DyndepInv, DirtyReasons
    <3>2. CASE want[f] = "Absent"
      <4>1. f \notin visited
        <5>1. f \in K
          BY <1>10, <3>2 DEF ScannedAgain
        <5> QED
          BY <1>0, <1>1, <3>2, <5>1
      <4>2. \A g \in visited : outs[f] \cap outs[g] = {}
        BY <1>0, <4>1 DEF GraphOK
      <4> QED
        BY <4>2 DEF DyndepInv, DirtyReasons, NodesOf
    <3> QED
      BY <1>10, <3>1, <3>2
  <2>2. PICK g \in E : outs[f] \cap outs[g] # {}
    BY <1>10, <2>1 DEF NodesOf
  <2> QED
    BY <1>1, <2>2 DEF GraphOK
<1>11. ASSUME NEW f \in Wanted(w), f \notin Wanted(want)
       PROVE  f \in Edge /\ f \in E /\ (f \in K \/ f \in Dp)
  <2>1. f \in Edge /\ w[f] \in {"ToStart", "ToFinish"}
        /\ (want[f] = "Absent" \/ want[f] = "Nothing")
    BY <1>0, <1>11 DEF Wanted, Want
  <2>2. outs[f] \cap dirty' # {} /\ (f \in K \/ f \in Dp)
    <3>1. CASE want[f] = "Absent"
      BY <2>1, <3>1 DEF WalkedAgain
    <3>2. CASE want[f] = "Nothing"
      BY <2>1, <3>2 DEF WalkedAgain
    <3> QED
      BY <2>1, <3>1, <3>2
  <2> QED
    BY <1>10, <2>1, <2>2
<1>12. ASSUME NEW f \in Wanted(w)  PROVE f \in stale \/ ins[f] \cap dirty' # {}
  <2>1. CASE f \in Wanted(want)
    BY <2>1 DEF DyndepInv, DirtyReasons
  <2>2. CASE f \notin Wanted(want)
    BY <1>1, <1>11, <2>2 DEF ScannedAgain
  <2> QED
    BY <2>1, <2>2
<1>13. ASSUME NEW f \in Edge, w[f] = "Nothing"  PROVE outs[f] \cap dirty' = {}
  <2>1. CASE want[f] = "Absent"
    BY <1>13, <2>1 DEF WalkedAgain
  <2>2. CASE want[f] = "Nothing" /\ (f \in K \/ f \in Dp)
    BY <1>13, <2>2 DEF WalkedAgain
  <2>3. CASE want[f] = "Nothing" /\ f \notin Dp
    <3>1. outs[f] \cap dirty = {} /\ f \notin E
      BY <1>0, <1>1, <2>3 DEF DyndepInv, DirtyReasons
    <3>2. \A g \in E : outs[f] \cap outs[g] = {}
      BY <1>1, <3>1 DEF GraphOK
    <3> QED
      BY <3>1, <3>2 DEF NodesOf
  <2>4. want[f] \in {"Absent", "Nothing"}
    BY <1>0, <1>2, <1>13 DEF Want
  <2> QED
    BY <2>1, <2>2, <2>3, <2>4
<1>14. ASSUME NEW f \in Wanted(w) \ failed
       PROVE  /\ w[f] = "ToFinish" => f \in B
              /\ w[f] = "ToStart" /\ AllInputsReady(f, IR \cup passed)
                   /\ f \notin HeldBack(dynPending) =>
                     f \in B \/ f \in seen \cup OutEdges(NodesOf(passed) \ dynPending)
  <2>0. f \in Edge
    BY DEF Wanted
  <2>1. prepared /\ loading \subseteq dynPending
    BY <1>0 DEF DyndepInv, Settled, DyndepTypeOK
  <2>2. ASSUME w[f] = "ToFinish"  PROVE f \in B
    <3>1. want[f] = "ToFinish" /\ f \in Wanted(want)
      BY <1>2, <2>0, <2>2 DEF Wanted
    <3>2. AllInputsReady(f, oready) /\ AllIns(f) \cap (loading \cup loaded) = {}
      BY <2>0, <2>1, <3>1 DEF DyndepInv, ReadyBelow, FileFirst, OutEdges
    <3> QED
      BY <2>0, <2>1, <3>1, <3>2 DEF DyndepInv, NoneWaits
\* The consumers of the file are seen; what waits for a passed edge is met.
  <2>3. ASSUME w[f] = "ToStart", AllInputsReady(f, IR \cup passed),
               f \notin HeldBack(dynPending)
        PROVE  f \in B \/ f \in seen \cup OutEdges(NodesOf(passed) \ dynPending)
    <3>1. CASE n \in AllIns(f)
      BY <2>0, <2>3, <3>1 DEF OutEdges
    <3>2. ASSUME NEW g \in Producers(f), g \in passed
          PROVE  f \in OutEdges(NodesOf(passed) \ dynPending)
      <4>1. PICK m \in outs[g] : m \in AllIns(f)
        BY DEF Producers
      <4>2. m \notin dynPending
        BY <1>4, <2>0, <2>3, <4>1 DEF OutEdges
      <4> QED
        BY <2>0, <3>2, <4>1, <4>2 DEF OutEdges, NodesOf
    <3>3. ASSUME NEW g \in Producers(f), want[g] # "Absent"
          PROVE  g \in passed
      <4>1. g \in Edge /\ g \in IR \cup passed /\ w[g] # "Absent"
        BY <1>2, <2>3, <3>3 DEF Producers, AllInputsReady
      <4> QED
        BY <1>3, <4>1
    <3>4. CASE f \in Wanted(want) /\ n \notin AllIns(f)
      <4>1. AllIns(f) \cap (loading \cup loaded) = {}
        BY <1>0, <1>4, <2>0, <2>1, <2>3, <3>4 DEF OutEdges
      <4>2. CASE AllInputsReady(f, oready)
        BY <2>0, <2>1, <3>4, <4>1, <4>2 DEF DyndepInv, NoneWaits
      <4>3. CASE \E g \in Producers(f) : g \notin oready
        <5>1. PICK g \in Producers(f) : g \notin oready
          BY <4>3
        <5>2. g \in Edge /\ want[f] # "Absent"
          BY <3>4 DEF Producers, Wanted
        <5>3. g \in visited
          <6>1. ~(f \in DynEdges /\ Dyndep[f] \in loaded)
            BY <1>0, <3>4 DEF GraphOK
          <6> QED
            BY <2>0, <5>2, <6>1 DEF DyndepInv, PlanKnows
        <5>4. want[g] # "Absent"
          BY <1>0, <5>1, <5>2, <5>3
        <5> QED
          BY <3>2, <3>3, <5>4
      <4> QED
        BY <4>2, <4>3 DEF AllInputsReady
    <3>5. CASE f \notin Wanted(want) /\ n \notin AllIns(f)
      <4>1. CASE f \in K
        BY <4>1
      <4>2. CASE f \in Dp
        <5>1. PICK g \in Dp : g \in Producers(f)
          BY <3>5, <4>2 DEF ScannedAgain
        <5>2. want[g] # "Absent"
          BY DEF ScannedAgain
        <5> QED
          BY <3>2, <3>3, <5>1, <5>2
      <4> QED
        BY <1>11, <3>5, <4>1, <4>2
    <3> QED
      BY <3>1, <3>4, <3>5
  <2> QED
    BY <2>2, <2>3
<1> QED
  BY <1>3, <1>5, <1>6, <1>7, <1>8, <1>9, <1>12, <1>13, <1>14 DEF MidCall

(***************************************************************************)
(* DyndepsLoaded(n), with the sets of the second scan and of the walk, the *)
(* entries w then, and the edges it looks at.                              *)
(***************************************************************************)
TakesUp(n, Dp, R, E, IR, K, w, seen) ==
    /\ ScannedAgain(n, Dp, R, E, IR) /\ WalkedAgain(Dp, R, E, IR, K, w)
    /\ K \subseteq seen /\ {f \in OutEdges({n}) : w[f] # "Absent"} \subseteq seen
    /\ w \in [Edge -> Want] /\ IR \in SUBSET Edge /\ seen \in SUBSET Edge
    /\ dirty' = dirty \cup NodesOf(E)
    /\ depsMissing' = depsMissing \ Dp
    /\ visited' = visited \cup R
    /\ wanted' = wanted + Cardinality(Wanted(w) \ Wanted(want))
    /\ command' = command + Cardinality((Wanted(w) \ Wanted(want)) \ Phony)
    /\ Settle(w, IR, seen, {}, use, dynPending)
    /\ loading' = loading \cup (dynPending \cap NodesOf(oready' \ IR))

LEMMA LoadedTakesUp ==
    ASSUME InScope, DyndepTypeOK, DyndepInv, GraphOK, NEW n \in Node, DyndepsLoaded(n)
    PROVE  \E Dp, R, E, IR, K, w, seen : TakesUp(n, Dp, R, E, IR, K, w, seen)
<1>0. TypeOK /\ n \in loaded
  BY DEF DyndepTypeOK, DyndepsLoaded
<1> DEFINE Dp == Dependents(n)
           R == Rescanned(Dp)
           E == RescanDirty(R)
           IR == (oready \ R) \cup (R \ RescanNotReady(R, E))
           isDirty == dirty \cup NodesOf(E)
           v == Wants(want, Dp, isDirty)
           roots == {f \in DynEdges : Dyndep[f] = n /\ f \notin IR /\ v[f] # "Absent"}
           K == DyndepWalk(v, Added(roots), IR)
           w == Entered(v, K, isDirty)
           seen == ToCheck(n, K, w)
<1>1. /\ dirty' = isDirty
      /\ depsMissing' = depsMissing \ Dp
      /\ visited' = visited \cup R
      /\ wanted' = wanted + Cardinality(Wanted(w) \ Wanted(want))
      /\ command' = command + Cardinality((Wanted(w) \ Wanted(want)) \ Phony)
      /\ Settle(w, IR, seen, {}, use, dynPending)
      /\ loading' = loading \cup (dynPending \cap NodesOf(oready' \ IR))
  <2>1. UNION {Validations[f] : f \in R} = {}
    <3>1. R \subseteq Edge
      BY DEF Rescanned, Least
    <3> QED
      BY <3>1 DEF InScope, NothingLost
  <2>2. Walk(want, UNION {Validations[f] : f \in R}, IR, FALSE) = {}
    BY <2>1, NoWalk
  <2>3. Entered(want, {}, isDirty) = want
    BY <1>0 DEF Entered, TypeOK
  <2> DEFINE Taken(ready2, isD, w2, walk) ==
               /\ dirty' = isD
               /\ depsMissing' = depsMissing \ Dp
               /\ visited' = visited \cup R
               /\ wanted' = wanted + Cardinality(Wanted(w2) \ Wanted(want))
               /\ command' = command + Cardinality((Wanted(w2) \ Wanted(want)) \ Phony)
               /\ Settle(w2, ready2, ToCheck(n, walk, w2), {}, use, dynPending)
               /\ loading' = loading \cup (dynPending \cap NodesOf(oready' \ ready2))
  <2> DEFINE Roots(w1) == {f \in DynEdges : Dyndep[f] = n /\ f \notin IR /\ w1[f] # "Absent"}
             Then(validated) ==
               LET w1 == Wants(Entered(want, validated, isDirty), Dp, isDirty)
                   walk == Walk(w1, UNION {DynIns[f] : f \in Roots(w1)}, IR, TRUE)
               IN  Taken(IR, isDirty, Entered(w1, walk, isDirty), walk)
  <2>4. Then(Walk(want, UNION {Validations[f] : f \in R}, IR, FALSE))
    <3>1. TakenUp(n, Dp, R, IR, isDirty)
      BY Zenon DEF DyndepsLoaded
    <3> HIDE DEF Dp, R, IR, isDirty
    <3> QED
      BY <3>1, Zenon DEF TakenUp
  <2>5. Then({})
    BY <2>2, <2>4, Zenon
  <2>6. v = Wants(Entered(want, {}, isDirty), Dp, isDirty)
    BY <2>3
  <2>7. Taken(IR, isDirty, Entered(v, K, isDirty), K)
    BY <2>5, <2>6, Zenon DEF DyndepWalk, Added
  <2> QED
    BY <2>7
<1>3. ScannedAgain(n, Dp, R, E, IR)
  BY <1>0, Rescans
<1> HIDE DEF E, IR
<1>4. WalkedAgain(Dp, R, E, IR, K, w)
  BY <1>0, <1>3, Walks
<1>5. K \subseteq seen /\ {f \in OutEdges({n}) : w[f] # "Absent"} \subseteq seen
  BY DEF ToCheck
<1> HIDE DEF Dp, R, isDirty, v, roots, K, w, seen
<1>6. w \in [Edge -> Want] /\ IR \in SUBSET Edge /\ seen \in SUBSET Edge
  <2>1. R \subseteq Edge /\ IR \subseteq oready \cup R
    BY <1>3 DEF ScannedAgain
  <2>2. w \in [Edge -> Want] /\ K \subseteq Edge
    BY <1>4 DEF WalkedAgain
  <2> QED
    BY <1>0, <2>1, <2>2 DEF TypeOK, ToCheck, OutEdges, seen
<1>7. dirty' = dirty \cup NodesOf(E)
  BY <1>1 DEF isDirty
<1>8. TakesUp(n, Dp, R, E, IR, K, w, seen)
  BY <1>1, <1>3, <1>4, <1>5, <1>6, <1>7 DEF TakesUp
<1> QED
  BY <1>8

LEMMA DyndepTaken ==
    ASSUME InScope, DyndepTypeOK, DyndepInv, GraphOK, NEW n \in Node, DyndepsLoaded(n)
    PROVE  DyndepTypeOK' /\ DyndepInv'
<1>0. /\ TypeOK /\ visited \subseteq Edge /\ n \in loaded /\ dynPending \subseteq Files
      /\ GraphGrows /\ prepared
  BY DEF DyndepTypeOK, DyndepInv, FilesFollowed, DyndepsLoaded, Settled
<1>1. PICK Dp, R, E, IR, K, w, seen : TakesUp(n, Dp, R, E, IR, K, w, seen)
  BY LoadedTakesUp
<1>2. /\ loaded' = {} /\ dynPending' = dynPending
      /\ UNCHANGED <<ins, outs, stale, weight, prepared, running, starts, failed>>
  BY DEF DyndepsLoaded, history
<1>3. /\ ScannedAgain(n, Dp, R, E, IR) /\ WalkedAgain(Dp, R, E, IR, K, w)
      /\ K \subseteq seen /\ {f \in OutEdges({n}) : w[f] # "Absent"} \subseteq seen
      /\ w \in [Edge -> Want] /\ IR \in SUBSET Edge /\ seen \in SUBSET Edge
  BY <1>1 DEF TakesUp
<1>4. /\ dirty' = dirty \cup NodesOf(E)
      /\ depsMissing' = depsMissing \ Dp
      /\ visited' = visited \cup R
      /\ wanted' = wanted + Cardinality(Wanted(w) \ Wanted(want))
      /\ command' = command + Cardinality((Wanted(w) \ Wanted(want)) \ Phony)
      /\ Settle(w, IR, seen, {}, use, dynPending)
      /\ loading' = loading \cup (dynPending \cap NodesOf(oready' \ IR))
  BY <1>1 DEF TakesUp
<1>6. R \subseteq Edge /\ E \subseteq R /\ K \subseteq Edge
  BY <1>3 DEF ScannedAgain, WalkedAgain
<1>7. PICK passed, sched \in SUBSET Edge : SettlesWell(w, IR, seen, passed, sched)
  <2>1. {} \in SUBSET delayed /\ use \in [Pool -> Int]
    BY <1>0 DEF TypeOK
  <2> QED
    BY <1>0, <1>3, <1>4, <2>1, SettleFacts
<1> DEFINE B == {f \in Edge : Held(f) > 0}
<1>8. MidCall(w, IR, seen, B, passed)
  BY <1>0, <1>3, <1>4, <1>7, LoadedMidCall
<1>9. \A f \in Edge : Held(f)' > 0 <=> f \in B \/ f \in sched
  <2> SUFFICES ASSUME NEW f \in Edge
               PROVE  Held(f)' > 0 <=> f \in B \/ f \in sched
    OBVIOUS
  <2>1. /\ Held(f)' = ready'[f] + running[f] + Count(f, delayed')
        /\ Held(f) = ready[f] + running[f] + Count(f, delayed)
    BY <1>2 DEF Held, Count
  <2>2. /\ ready'[f] \in Nat /\ running[f] \in Nat /\ Count(f, delayed') \in Nat
        /\ ready[f] \in Nat /\ Count(f, delayed) \in Nat
    BY <1>0, <1>7 DEF SettlesWell, Count, TypeOK
  <2>3. ready'[f] + Count(f, delayed') > 0
           <=> ready[f] + Count(f, delayed) > 0 \/ f \in sched
    BY <1>7 DEF SettlesWell
  <2> QED
    BY <2>1, <2>2, <2>3
<1> HIDE DEF B
<1>10. ASSUME NEW m \in dynPending, NEW p \in Edge, m \in outs[p]
       PROVE  p \in visited' /\ (p \in oready' <=> m \in loading')
  <2>1. p \in visited /\ (p \in oready <=> m \in loading)
    BY <1>10 DEF DyndepInv, FilesFollowed
  <2>2. oready' \subseteq Edge /\ IR \subseteq oready'
    BY <1>7 DEF SettlesWell
  <2>3. p \notin R
    <3>1. p \notin Dp
      BY <1>0, <1>3, <1>10 DEF ScannedAgain, GraphOK
    <3> QED
      BY <1>3, <2>1, <3>1 DEF ScannedAgain
  <2>4. p \in IR => p \in oready
    BY <1>3, <2>3 DEF ScannedAgain
  <2>5. ASSUME m \in NodesOf(oready' \ IR)  PROVE p \in oready'
    BY <1>10, <2>2, <2>5 DEF NodesOf, GraphOK
  <2>6. p \in oready' \ IR => m \in NodesOf(oready' \ IR)
    BY <1>10 DEF NodesOf
  <2>7. oready \subseteq IR
    BY <1>3 DEF ScannedAgain
  <2> QED
    BY <1>4, <2>1, <2>2, <2>4, <2>5, <2>6, <2>7
<1>11. DyndepInv'
  <2>1. depsMissing' = depsMissing
    BY <1>0, <1>4 DEF GraphGrows
  <2>2. running' \in [Edge -> Nat]
    BY <1>0, <1>2 DEF TypeOK
  <2>3. w \in [Edge -> Want]
    BY <1>3
  <2> QED
    BY <1>0, <1>2, <1>7, <1>8, <1>9, <1>10, <2>1, <2>2, <2>3, SettlesKeep
<1>12. DyndepTypeOK'
  <2>1. wanted' \in Int /\ command' \in Int
    <3>1. /\ Cardinality(Wanted(w) \ Wanted(want)) \in Nat
          /\ Cardinality((Wanted(w) \ Wanted(want)) \ Phony) \in Nat
      BY EdgeSetFinite DEF Wanted
    <3> QED
      BY <1>0, <1>4, <3>1 DEF TypeOK
  <2>2. dirty' \subseteq Node
    BY <1>0, <1>4, <1>6 DEF TypeOK, NodesOf
  <2>3. depsMissing' \subseteq Edge /\ visited' \subseteq Edge
    BY <1>0, <1>4, <1>6 DEF TypeOK
  <2>4. TypeOK'
    BY <1>0, <1>2, <1>7, <2>1, <2>2, <2>3 DEF TypeOK, SettlesWell
  <2>5. loading' \subseteq dynPending
    BY <1>4 DEF DyndepTypeOK
  <2> QED
    BY <1>2, <2>3, <2>4, <2>5 DEF DyndepTypeOK
<1> QED
  BY <1>11, <1>12

-----------------------------------------------------------------------------
LEMMA DyndepUnchanged ==
    ASSUME DyndepTypeOK, DyndepInv, UNCHANGED allPlanVars
    PROVE  DyndepTypeOK' /\ DyndepInv'
<1>1. /\ UNCHANGED <<ins, outs, stale, depsMissing, dirty, oready, want, wanted, command, weight,
                     ready, delayed, use, prepared, running, starts, failed>>
      /\ UNCHANGED <<visited, dynPending, loading, loaded>>
  BY DEF allPlanVars, planVars, dynVars, graph, history
<1>2. DyndepTypeOK'
  BY <1>1 DEF DyndepTypeOK, TypeOK
<1>3. /\ \A e \in Edge : /\ Producers(e)' = Producers(e) /\ AllIns(e)' = AllIns(e)
                         /\ Held(e)' = Held(e)
      /\ NodesOf(visited)' = NodesOf(visited)
      /\ \A n : OutEdges({n})' = OutEdges({n})
  BY <1>1 DEF Producers, AllIns, Held, Count, NodesOf, OutEdges
<1>4. GraphGrows' /\ FilesFollowed' /\ EntriesVisited'
  BY <1>1, <1>3 DEF DyndepInv, GraphGrows, FilesFollowed, EntriesVisited
<1>5. FileFirst'
  BY <1>1, <1>3 DEF DyndepInv, FileFirst, OutEdges
<1>6. ReadyBelow' /\ PlanKnows'
  BY <1>1, <1>3 DEF DyndepInv, ReadyBelow, PlanKnows, AllInputsReady
<1>7. DirtyReasons' /\ NoneWaits'
  BY <1>1, <1>3 DEF DyndepInv, DirtyReasons, NoneWaits, AllInputsReady, Wanted
<1>8. Fresh' /\ (~prepared => Settled)'
  BY <1>1, <1>3 DEF DyndepInv, Fresh, Settled
<1> QED
  BY <1>2, <1>4, <1>5, <1>6, <1>7, <1>8 DEF DyndepInv

LEMMA DyndepStep ==
    ASSUME InScope
    PROVE  DyndepTypeOK /\ DyndepInv /\ [DyndepNext]_allPlanVars => (DyndepTypeOK /\ DyndepInv)'
<1> SUFFICES ASSUME DyndepTypeOK, DyndepInv, [DyndepNext]_allPlanVars
             PROVE  DyndepTypeOK' /\ DyndepInv'
  OBVIOUS
<1>0. GraphOK
  BY GraphIsOK DEF DyndepInv, FilesFollowed
<1>1. CASE Settled /\ PrepareQueue /\ UNCHANGED dynVars
  BY <1>0, <1>1, DyndepPrepare
<1>2. ASSUME NEW e \in Edge, FindWork(e), UNCHANGED dynVars
      PROVE  DyndepTypeOK' /\ DyndepInv'
  BY <1>2, DyndepFindWork
<1>3. ASSUME NEW e \in Edge, EdgeFailed(e), UNCHANGED dynVars
      PROVE  DyndepTypeOK' /\ DyndepInv'
  BY <1>3, DyndepFailed
<1>4. ASSUME NEW e \in Edge, Settled, NEW unchanged \in SUBSET outs[e], Succeeded(e, unchanged)
      PROVE  DyndepTypeOK' /\ DyndepInv'
  BY <1>0, <1>4, DyndepSucceeded
<1>5. ASSUME NEW n \in Node, LoadDyndeps(n)  PROVE DyndepTypeOK' /\ DyndepInv'
  BY <1>0, <1>5, DyndepLoads
<1>6. ASSUME NEW n \in Node, DyndepsLoaded(n)  PROVE DyndepTypeOK' /\ DyndepInv'
  BY <1>0, <1>6, DyndepTaken
<1>7. CASE UNCHANGED allPlanVars
  BY <1>7, DyndepUnchanged
<1> QED
  BY <1>1, <1>2, <1>3, <1>4, <1>5, <1>6, <1>7 DEF DyndepNext

LEMMA DyndepInvariant ==
    ASSUME InScope
    PROVE  DyndepSpec => [](DyndepTypeOK /\ DyndepInv)
<1>1. DyndepInit => DyndepTypeOK /\ DyndepInv
  BY DyndepStarts
<1>2. DyndepTypeOK /\ DyndepInv /\ [DyndepNext]_allPlanVars => (DyndepTypeOK /\ DyndepInv)'
  BY DyndepStep
<1> QED
  BY <1>1, <1>2, PTL DEF DyndepSpec

\* Type correctness of the plan's state while the graph grows.
THEOREM DyndepTypeCorrect ==
    ASSUME InScope
    PROVE  DyndepSpec => []DyndepTypeOK
<1> QED
  BY DyndepInvariant, PTL

\* In scope, an edge with dyndep inputs is scheduled only when the edges that make
\* them have left the plan, also those the file brought into it.
THEOREM DyndepBuiltFirst ==
    ASSUME InScope
    PROVE  DyndepSpec => []BuiltBeforeUse
<1>1. DyndepTypeOK /\ DyndepInv => BuiltBeforeUse
  <2> SUFFICES ASSUME DyndepTypeOK, DyndepInv, NEW e \in Edge, Held(e) > 0,
                      NEW p \in Producers(e)
               PROVE  want[p] = "Absent"
    BY DEF BuiltBeforeUse
  <2>1. p \in oready /\ p \in Edge
    BY DEF DyndepInv, ReadyBelow, AllInputsReady, Producers
  <2> QED
    BY <2>1 DEF DyndepInv, EntriesVisited
<1> QED
  BY <1>1, DyndepInvariant, PTL

-----------------------------------------------------------------------------
(***************************************************************************)
(* Edges with nothing to do leave the plan, while the graph grows.         *)
(***************************************************************************)
\* What is settled and looked at has not stayed behind.
LEMMA StaysSettles ==
    ASSUME GraphOK, dynPending \subseteq Files, dynPending' = dynPending,
           UNCHANGED <<ins, outs>>, loaded' = {},
           NEW w, NEW done, NEW seen, NEW passed, NEW sched,
           SettlesWell(w, done, seen, passed, sched),
           \A n \in dynPending : \A p \in Edge :
             n \in outs[p] => (p \in oready' <=> n \in loading'),
           \A f \in Edge : w[f] = "Nothing" /\ f \notin HeldBack(dynPending)
                             /\ Producers(f) \subseteq done \cup passed =>
             f \in seen \cup OutEdges(NodesOf(passed) \ dynPending)
    PROVE  NoneStays'
<1>1. \A f \in Edge : Producers(f)' = Producers(f) /\ AllIns(f)' = AllIns(f)
  BY DEF Producers, AllIns
<1> SUFFICES ASSUME NEW f \in Edge, want'[f] = "Nothing", Producers(f) \subseteq oready',
                    AllIns(f) \cap loading' = {}
             PROVE  FALSE
  BY <1>1 DEF NoneStays, AllInputsReady
<1>2. w[f] = "Nothing" /\ f \notin passed /\ Producers(f) \subseteq done \cup passed
  BY DEF SettlesWell
<1>3. f \notin HeldBack(dynPending)
  <2> SUFFICES ASSUME NEW n \in dynPending, n \in AllIns(f)  PROVE FALSE
    BY DEF GraphOK, OutEdges
  <2>2. PICK p \in Edge : outs[p] = {n}
    BY DEF GraphOK
  <2>3. p \in Producers(f)
    BY <2>2 DEF Producers
  <2> QED
    BY <2>2, <2>3
<1> QED
  BY <1>2, <1>3 DEF SettlesWell, AllInputsReady

\* What CleanNode reaches has an input that was cleaned.
LEMMA CleanedReason ==
    ASSUME NEW N, NEW f \in Cleaned(N)
    PROVE  AllIns(f) \cap (N \cup NodesOf(Cleaned(N))) # {}
<1> DEFINE D == Wanted(want) \ (depsMissing \cup stale)
           F(C) == {g \in Edge :
                      /\ AllIns(g) \cap (N \cup NodesOf(C)) # {}
                      /\ ins[g] \cap (dirty \ (N \cup NodesOf(C))) = {}}
           K == {C \in SUBSET D : F(C) \cap D \subseteq C}
           L == Cleaned(N)
           A == F(L) \cap D
<1>1. L = D \ UNION {D \ S : S \in K}
  BY DEF Cleaned, Least
<1>2. ASSUME NEW S \in K  PROVE L \subseteq S
  <2> HIDE DEF D, K, L
  <2> QED
    BY <1>1, <1>2, BelowClosed
<1>3. ASSUME NEW g \in A  PROVE g \in L
  <2>1. ASSUME NEW S \in K  PROVE g \in S
    <3>1. L \subseteq S
      BY <1>2
    <3>2. NodesOf(L) \subseteq NodesOf(S)
      BY <3>1 DEF NodesOf
    <3>3. g \in F(S) \cap D
      BY <1>3, <3>2
    <3> QED
      BY <3>3
  <2>2. g \in D
    BY <1>3
  <2> HIDE DEF D, K, L, A
  <2> QED
    BY <1>1, <2>1, <2>2, InLeast
<1>4. A \in K
  <2>1. A \subseteq L /\ A \in SUBSET D
    BY <1>3
  <2>2. NodesOf(A) \subseteq NodesOf(L)
    BY <2>1 DEF NodesOf
  <2>3. ASSUME NEW g \in F(A) \cap D  PROVE g \in A
    BY <2>2
  <2> QED
    BY <2>1, <2>3
<1>5. f \in A
  BY <1>2, <1>4
<1> QED
  BY <1>5

LEMMA StaysSucceeds ==
    ASSUME DyndepTypeOK, DyndepInv, NoneStays, GraphOK, Settled, DyndepInv',
           NEW e \in Edge, NEW unchanged \in SUBSET outs[e], Succeeded(e, unchanged)
    PROVE  NoneStays'
<1> DEFINE C == Cleaned(unchanged)
           w == WantAfter(e, C)
           done == oready \cup {e}
           seen == OutEdges(outs[e] \ dynPending)
           used == UseWithout(e)
<1>0. /\ TypeOK /\ loading = {} /\ loaded = {}
      /\ \A f \in Edge : want[f] # "Absent" <=> f \in visited \ oready
  BY DEF DyndepTypeOK, DyndepInv, EntriesVisited, Settled
<1>1. UNCHANGED <<ins, outs, dynPending, loaded>>
  BY DEF Succeeded, EdgeSucceeded, graph
<1>2. PICK T \in SUBSET delayed : Settle(w, done, seen, T, used, dynPending)
  BY DEF Succeeded, EdgeSucceeded, WantAfter
<1>3. w \in [Edge -> Want]
  BY <1>0, WantAfterType
<1>4. done \in SUBSET Edge /\ seen \in SUBSET Edge /\ used \in [Pool -> Int]
  BY <1>0, UseWithoutType DEF TypeOK, OutEdges
<1>5. \A f \in C : f \in Edge /\ f \notin oready
  BY <1>0, CleanedWanted DEF Wanted
<1>6. \A f \in Edge : w[f] = IF f \in C THEN "Nothing"
                             ELSE IF f = e THEN "Absent" ELSE want[f]
  BY DEF WantAfter
<1> HIDE DEF w, seen, used
<1>7. PICK passed, sched \in SUBSET Edge : SettlesWell(w, done, seen, passed, sched)
  BY <1>0, <1>2, <1>3, <1>4, SettleFacts
<1>8. e \notin C
  <2>1. Held(e) > 0
    BY <1>0 DEF Succeeded, EdgeSucceeded, Held, TypeOK, Count
  <2>2. AllInputsReady(e, oready)
    BY <2>1 DEF DyndepInv, ReadyBelow
  <2>3. e \notin oready => e \notin C
    BY <1>0, <2>2, CleanedWaits DEF Wanted
  <2> QED
    BY <1>5, <2>3
<1>9. HeldBack(dynPending) = OutEdges(dynPending)
  BY DEF GraphOK
<1>10. ASSUME NEW f \in Edge, w[f] = "Nothing", f \notin HeldBack(dynPending),
              Producers(f) \subseteq done \cup passed
       PROVE  f \in seen \cup OutEdges(NodesOf(passed) \ dynPending)
  <2>1. AllIns(f) \cap dynPending = {}
    BY <1>9, <1>10 DEF OutEdges
  <2>2. CASE AllIns(f) \cap unchanged # {}
    BY <2>1, <2>2 DEF seen, OutEdges
  <2>3. ASSUME NEW p \in Producers(f), p \notin oready
        PROVE  f \in seen \cup OutEdges(NodesOf(passed) \ dynPending)
    <3>1. PICK m \in outs[p] : m \in AllIns(f) \ dynPending
      BY <2>1 DEF Producers
    <3>2. CASE p = e
      BY <3>1, <3>2 DEF seen, OutEdges
    <3>3. CASE p \in passed
      BY <3>1, <3>3 DEF OutEdges, NodesOf
    <3> QED
      BY <1>10, <2>3, <3>2, <3>3
  <2>4. CASE f \in C /\ AllIns(f) \cap unchanged = {}
    <3>1. PICK g \in C : outs[g] \cap AllIns(f) # {}
      BY <2>4, CleanedReason DEF NodesOf
    <3>2. g \in Producers(f) /\ g \notin oready
      BY <1>5, <3>1 DEF Producers
    <3> QED
      BY <2>3, <3>2
  <2>5. CASE f \notin C
    <3>1. want[f] = "Nothing"
      BY <1>6, <1>10, <2>5
    <3>2. ~AllInputsReady(f, oready)
      BY <1>0, <3>1 DEF NoneStays
    <3> QED
      BY <2>3, <3>2 DEF AllInputsReady
  <2> QED
    BY <2>2, <2>4, <2>5
<1>12. dynPending \subseteq Files
  BY DEF DyndepInv, FilesFollowed
<1>11. \A n \in dynPending : \A p \in Edge : n \in outs[p] => (p \in oready' <=> n \in loading')
  BY <1>1 DEF DyndepInv, FilesFollowed
<1> HIDE DEF done, C
<1> QED
  BY <1>0, <1>1, <1>7, <1>10, <1>11, <1>12, StaysSettles

LEMMA StaysTaken ==
    ASSUME InScope, DyndepTypeOK, DyndepInv, NoneStays, GraphOK, DyndepInv',
           NEW n \in Node, DyndepsLoaded(n)
    PROVE  NoneStays'
<1>0. /\ TypeOK /\ visited \subseteq Edge /\ n \in loaded /\ dynPending \subseteq Files
      /\ loaded = {n} /\ loading \subseteq dynPending
      /\ HeldBack(dynPending) = OutEdges(dynPending)
      /\ \A f \in Edge : want[f] # "Absent" <=> f \in visited \ oready
  BY DEF DyndepTypeOK, DyndepInv, FilesFollowed, DyndepsLoaded, EntriesVisited, GraphOK
<1>1. PICK Dp, R, E, IR, K, w, seen : TakesUp(n, Dp, R, E, IR, K, w, seen)
  BY LoadedTakesUp
<1>2. loaded' = {} /\ UNCHANGED <<ins, outs, dynPending>>
  BY DEF DyndepsLoaded
<1>3. /\ ScannedAgain(n, Dp, R, E, IR) /\ WalkedAgain(Dp, R, E, IR, K, w)
      /\ K \subseteq seen /\ {f \in OutEdges({n}) : w[f] # "Absent"} \subseteq seen
      /\ w \in [Edge -> Want] /\ IR \in SUBSET Edge /\ seen \in SUBSET Edge
      /\ Settle(w, IR, seen, {}, use, dynPending)
  BY <1>1 DEF TakesUp
<1>4. PICK passed, sched \in SUBSET Edge : SettlesWell(w, IR, seen, passed, sched)
  <2>1. {} \in SUBSET delayed /\ use \in [Pool -> Int]
    BY <1>0 DEF TypeOK
  <2> QED
    BY <1>0, <1>3, <2>1, SettleFacts
<1>5. \A g \in IR : w[g] # "Absent" => g \in passed
  BY <1>0, <1>3, <1>4, ReadyArePassed
<1>6. ASSUME NEW f \in Edge, w[f] = "Nothing", f \notin HeldBack(dynPending),
             Producers(f) \subseteq IR \cup passed
      PROVE  f \in seen \cup OutEdges(NodesOf(passed) \ dynPending)
  <2>1. want[f] \in {"Absent", "Nothing", "ToStart", "ToFinish"}
    BY <1>0 DEF TypeOK, Want
  <2>2. CASE n \in AllIns(f)
    BY <1>3, <1>6, <2>2 DEF OutEdges
  <2>3. CASE want[f] = "Absent"
    <3>1. f \in K
      BY <1>3, <1>6, <2>3 DEF WalkedAgain
    <3> QED
      BY <1>3, <3>1
  <2>4. CASE want[f] = "Nothing" /\ n \notin AllIns(f)
    <3>1. AllIns(f) \cap dynPending = {}
      BY <1>0, <1>6 DEF OutEdges
    <3>2. ~AllInputsReady(f, oready)
      BY <1>0, <2>4, <3>1 DEF NoneStays
    <3>3. PICK g \in Producers(f) : g \notin oready
      BY <3>2 DEF AllInputsReady
    <3>4. g \in Edge /\ g \in visited
      <4>1. ~(f \in DynEdges /\ Dyndep[f] \in loaded)
        BY <1>0, <2>4 DEF GraphOK
      <4> QED
        BY <2>4, <4>1 DEF DyndepInv, PlanKnows, Producers
    <3>5. want[g] # "Absent" /\ want[g] \in {"Absent", "Nothing", "ToStart", "ToFinish"}
      BY <1>0, <3>3, <3>4 DEF TypeOK, Want
    <3>6. w[g] # "Absent"
      BY <1>3, <3>4, <3>5 DEF WalkedAgain
    <3>7. g \in passed
      BY <1>5, <1>6, <3>6
    <3>8. PICK m \in outs[g] : m \in AllIns(f)
      BY DEF Producers
    <3> QED
      BY <3>1, <3>7, <3>8 DEF OutEdges, NodesOf
  <2>5. want[f] \notin {"ToStart", "ToFinish"}
    BY <1>3, <1>6 DEF WalkedAgain
  <2> QED
    BY <2>1, <2>2, <2>3, <2>4, <2>5
<1>7. \A m \in dynPending : \A p \in Edge : m \in outs[p] => (p \in oready' <=> m \in loading')
  BY <1>2 DEF DyndepInv, FilesFollowed
<1> QED
  BY <1>0, <1>2, <1>4, <1>6, <1>7, StaysSettles

\* A loaded file keeps those of its edges that it finds complete.
LEMMA StaysLoads ==
    ASSUME NoneStays, NEW n \in Node, LoadDyndeps(n)
    PROVE  NoneStays'
<1>1. /\ \A f \in Edge : ins[f] \subseteq ins'[f] /\ outs[f] \subseteq outs'[f]
      /\ oready' = oready /\ want' = want /\ loading' \cup loaded' = loading \cup loaded
  BY DEF LoadDyndeps
<1>2. \A f \in Edge : AllIns(f) \subseteq AllIns(f)' /\ Producers(f) \subseteq Producers(f)'
  BY <1>1 DEF AllIns, Producers
<1> QED
  BY <1>1, <1>2 DEF NoneStays, AllInputsReady

\* What neither finishes an edge nor gives one an entry with nothing to do.
LEMMA StaysSame ==
    ASSUME NoneStays, UNCHANGED <<ins, outs, oready, loading, loaded>>,
           \A f \in Edge : want'[f] = "Nothing" => want[f] = "Nothing"
    PROVE  NoneStays'
<1>1. \A f \in Edge : AllIns(f)' = AllIns(f) /\ Producers(f)' = Producers(f)
  BY DEF AllIns, Producers
<1> QED
  BY <1>1 DEF NoneStays, AllInputsReady

LEMMA StaysStep ==
    ASSUME InScope
    PROVE  DyndepTypeOK /\ DyndepInv /\ NoneStays /\ (DyndepTypeOK /\ DyndepInv)'
             /\ [DyndepNext]_allPlanVars => NoneStays'
<1> SUFFICES ASSUME DyndepTypeOK, DyndepInv, NoneStays, DyndepInv', [DyndepNext]_allPlanVars
             PROVE  NoneStays'
  OBVIOUS
<1>0. GraphOK
  BY GraphIsOK DEF DyndepInv, FilesFollowed
<1>1. CASE Settled /\ PrepareQueue /\ UNCHANGED dynVars
  BY <1>1, StaysSame DEF PrepareQueue, dynVars, graph
<1>2. ASSUME NEW e \in Edge, FindWork(e), UNCHANGED dynVars  PROVE NoneStays'
  BY <1>2, StaysSame DEF FindWork, dynVars, graph
<1>3. ASSUME NEW e \in Edge, EdgeFailed(e), UNCHANGED dynVars  PROVE NoneStays'
  BY <1>3, StaysSame DEF EdgeFailed, dynVars, graph
<1>4. ASSUME NEW e \in Edge, Settled, NEW unchanged \in SUBSET outs[e], Succeeded(e, unchanged)
      PROVE  NoneStays'
  BY <1>0, <1>4, StaysSucceeds
<1>5. ASSUME NEW n \in Node, LoadDyndeps(n)  PROVE NoneStays'
  BY <1>5, StaysLoads
<1>6. ASSUME NEW n \in Node, DyndepsLoaded(n)  PROVE NoneStays'
  BY <1>0, <1>6, StaysTaken
<1>7. CASE UNCHANGED allPlanVars
  BY <1>7, StaysSame DEF allPlanVars, planVars, dynVars, graph
<1> QED
  BY <1>1, <1>2, <1>3, <1>4, <1>5, <1>6, <1>7 DEF DyndepNext

LEMMA StaysInvariant ==
    ASSUME InScope
    PROVE  DyndepSpec => []NoneStays
<1>1. DyndepInit => NoneStays
  BY ProgressInit DEF DyndepInit, ProgressInv, NothingWaits, NoneStays
<1>2. DyndepTypeOK /\ DyndepInv /\ NoneStays /\ (DyndepTypeOK /\ DyndepInv)'
             /\ [DyndepNext]_allPlanVars => NoneStays'
  BY StaysStep
<1> QED
  BY <1>1, <1>2, DyndepInvariant, PTL DEF DyndepSpec

LEMMA DyndepProgress ==
    ASSUME InScope, DyndepTypeOK, DyndepInv, NoneStays
    PROVE  StuckOnlyByFailure
<1> SUFFICES ASSUME prepared, Settled, failed = {}, \A e \in Edge : Held(e) = 0,
                    \E e \in Edge : want[e] # "Absent"
             PROVE  FALSE
  BY DEF StuckOnlyByFailure
<1>0. /\ GraphOK /\ want \in [Edge -> Want] /\ loading = {} /\ loaded = {}
      /\ \A e \in Edge : want[e] # "Absent" <=> e \in visited \ oready
  BY GraphIsOK DEF DyndepTypeOK, TypeOK, DyndepInv, EntriesVisited, FilesFollowed, Settled
<1> DEFINE S == {e \in Edge : want[e] # "Absent"}
<1>1. PICK e \in S : Producers(e) \cap S = {}
  <2>1. S \in (SUBSET Edge) \ {{}}
    OBVIOUS
  <2> QED
    BY <1>0, <2>1 DEF GraphOK
<1>2. AllInputsReady(e, oready)
  <2> SUFFICES ASSUME NEW p \in Producers(e)  PROVE p \in oready
    BY DEF AllInputsReady
  <2>1. p \in Edge /\ p \in visited
    BY <1>0 DEF DyndepInv, PlanKnows, Producers
  <2> QED
    BY <1>0, <1>1, <2>1
<1>3. want[e] \in {"Nothing", "ToStart", "ToFinish"}
  BY <1>0 DEF Want
<1>4. want[e] # "Nothing"
  BY <1>0, <1>2 DEF NoneStays
<1>5. e \in Wanted(want) \ failed
  BY <1>3, <1>4 DEF Wanted
<1>6. Held(e) > 0
  BY <1>0, <1>2, <1>5 DEF DyndepInv, NoneWaits
<1> QED
  BY <1>6

\* In scope, no edge is scheduled before its dyndep file is loaded, an entry waits
\* only for what has an entry, none that waits for nothing is forgotten, and the
\* build does not get stuck while nothing has failed.
THEOREM DyndepPlanIsWhole ==
    ASSUME InScope
    PROVE  DyndepSpec => []PlanIsWhole
<1>1. DyndepTypeOK /\ DyndepInv /\ NoneStays => PlanIsWhole
  <2> SUFFICES ASSUME DyndepTypeOK, DyndepInv, NoneStays
               PROVE  PlanIsWhole
    OBVIOUS
  <2>1. LoadedBeforeScheduled
    <3> SUFFICES ASSUME NEW f \in DynEdges, Held(f) > 0, Dyndep[f] \in dynPending \cup loaded
                 PROVE  FALSE
      BY DEF LoadedBeforeScheduled
    <3>1. f \in Edge /\ Dyndep[f] \in Inputs[f] \cup OrderOnly[f]
      BY DyndepAssumption DEF DyndepAssumption
    <3>2. f \in OutEdges({Dyndep[f]})
      BY <3>1 DEF DyndepInv, GraphGrows, OutEdges, AllIns
    <3>3. Held(f) = 0
      BY <3>2 DEF DyndepInv, FileFirst
    <3> QED
      BY <3>3
  <2>2. PlanClosed
    <3> SUFFICES ASSUME Settled, NEW e \in Edge, want[e] # "Absent", NEW p \in Producers(e)
                 PROVE  p \in oready \/ want[p] # "Absent"
      BY DEF PlanClosed
    <3>1. p \in Edge /\ p \in visited
      BY DEF DyndepInv, PlanKnows, Producers, Settled
    <3> QED
      BY <3>1 DEF DyndepInv, EntriesVisited
  <2>3. NoneForgotten
    BY DEF DyndepInv, NoneWaits, NoneForgotten, NothingForgotten, Settled
  <2>4. WantedNotReady
    BY DEF DyndepInv, EntriesVisited, WantedNotReady, Wanted
  <2>5. StuckOnlyByFailure
    BY DyndepProgress
  <2> QED
    BY <2>1, <2>2, <2>3, <2>4, <2>5 DEF PlanIsWhole
<1> QED
  BY <1>1, DyndepInvariant, StaysInvariant, PTL

-----------------------------------------------------------------------------
(***************************************************************************)
(* Each edge once, while the graph grows.                                  *)
(***************************************************************************)
LEMMA OnceSettles ==
    ASSUME TypeOK, DyndepOnce, prepared', starts' = starts,
           NEW w, NEW done, NEW seen, NEW passed, NEW sched,
           SettlesWell(w, done, seen, passed, sched), oready \subseteq done,
           running' \in [Edge -> Nat], \A f \in Edge : running'[f] <= running[f],
           \A f \in Edge : w[f] = "ToStart" => starts[f] = 0 /\ Held(f) = 0,
           \A f \in Edge :
             /\ ready[f] + Count(f, delayed) + running'[f] > 0 => w[f] = "ToFinish"
             /\ starts[f] > 0 => w[f] = "ToFinish" \/ f \in done
    PROVE  DyndepOnce'
<1>1. ASSUME NEW f \in Edge
      PROVE  /\ ready[f] \in Nat /\ running[f] \in Nat /\ starts[f] \in Nat
             /\ ready'[f] \in Nat /\ running'[f] \in Nat /\ running'[f] <= running[f]
             /\ Count(f, delayed) \in Nat /\ Count(f, delayed)' \in Nat
             /\ Count(f, sched) = IF f \in sched THEN 1 ELSE 0
             /\ Held(f) = ready[f] + running[f] + Count(f, delayed)
             /\ Held(f)' = ready'[f] + running'[f] + Count(f, delayed)'
             /\ ready'[f] + Count(f, delayed)'
                  <= ready[f] + Count(f, delayed) + Count(f, sched)
  BY DEF TypeOK, SettlesWell, Held, Count
<1>2. ASSUME NEW f \in sched, f \in Edge
      PROVE  starts[f] = 0 /\ Held(f) = 0 /\ f \notin passed
  BY <1>2 DEF SettlesWell
<1>3. Once'
  <2> SUFFICES ASSUME NEW f \in Edge
               PROVE  /\ starts[f] + ready'[f] + Count(f, delayed)' <= 1
                      /\ running'[f] <= starts[f]
    BY DEF Once
  <2>1. starts[f] + ready[f] + Count(f, delayed) <= 1 /\ running[f] <= starts[f]
    BY DEF DyndepOnce, Once
  <2>2. CASE f \in sched
    BY <1>1, <1>2, <2>1, <2>2
  <2>3. CASE f \notin sched
    BY <1>1, <2>1, <2>3
  <2> QED
    BY <2>2, <2>3
<1>4. ASSUME NEW f \in Edge
      PROVE  /\ Held(f)' > 0 => want'[f] = "ToFinish"
             /\ starts[f] > 0 => want'[f] = "ToFinish" \/ f \in oready'
  <2>1. CASE f \in sched
    BY <1>2, <2>1 DEF SettlesWell
  <2>2. CASE f \notin sched
    <3>1. Held(f)' > 0 => ready[f] + Count(f, delayed) + running'[f] > 0
      BY <1>1, <2>2
    <3>2. f \in passed => w[f] = "Nothing" /\ f \in oready'
      BY DEF SettlesWell
    <3>3. f \notin passed => want'[f] = w[f]
      BY <2>2 DEF SettlesWell
    <3>4. done \subseteq oready'
      BY DEF SettlesWell
    <3> QED
      BY <3>1, <3>2, <3>3, <3>4
  <2> QED
    BY <2>1, <2>2
<1> QED
  BY <1>3, <1>4 DEF DyndepOnce

LEMMA OncePrepares ==
    ASSUME TypeOK, DyndepOnce, Fresh, PooledBelow, PrepareQueue
    PROVE  DyndepOnce'
<1>1. PICK pooled \in {{e \in InitialEdges : ShouldDelayEdge(e)}} :
      \E free \in {InitialEdges \ pooled}, T \in SUBSET pooled :
        /\ want' = [e \in Edge |-> IF e \in free THEN "ToFinish" ELSE want[e]]
        /\ Push(use, free, T, {})
        /\ delayed' = pooled \ T
  BY DEF PrepareQueue
<1>2. ~prepared /\ prepared' /\ UNCHANGED <<running, starts, oready>>
  BY DEF PrepareQueue, history
<1>3. pooled = {}
  <2>1. \A e \in InitialEdges : e \in Edge /\ AllInputsReady(e, oready)
    BY DEF InitialEdges
  <2> QED
    BY <1>2, <2>1 DEF PooledBelow, DyndepOnce
<1>4. /\ want' = [e \in Edge |-> IF e \in InitialEdges THEN "ToFinish" ELSE want[e]]
      /\ Push(use, InitialEdges, {}, {}) /\ delayed' = {}
  BY <1>1, <1>3
<1>5. ASSUME NEW f \in Edge
      PROVE  /\ ready[f] = 0 /\ running[f] = 0 /\ starts[f] = 0
             /\ ready'[f] = IF f \in InitialEdges THEN 1 ELSE 0
             /\ Count(f, delayed)' = 0
  <2>1. Held(f) = 0 /\ starts[f] = 0
    BY <1>2 DEF Fresh
  <2>2. ready[f] \in Nat /\ running[f] \in Nat /\ Count(f, delayed) \in Nat
    BY DEF TypeOK, Count
  <2>3. ready[f] = 0 /\ running[f] = 0
    <3>1. ready[f] + running[f] + Count(f, delayed) = 0
      BY <2>1 DEF Held
    <3> QED
      BY <2>2, <3>1
  <2>4. ready'[f] = ready[f] + Count(f, InitialEdges) + Count(f, {}) + Count(f, {})
    BY <1>4 DEF Push
  <2> QED
    BY <1>4, <2>1, <2>3, <2>4 DEF Count
<1>6. Once'
  BY <1>2, <1>5 DEF Once
<1>7. \A f \in Edge : Held(f)' > 0 \/ starts'[f] > 0 => want'[f] = "ToFinish"
  BY <1>2, <1>4, <1>5 DEF Held
<1> QED
  BY <1>2, <1>6, <1>7 DEF DyndepOnce

LEMMA OnceFinds ==
    ASSUME TypeOK, DyndepOnce, NEW e \in Edge, FindWork(e)
    PROVE  DyndepOnce'
<1>1. /\ prepared' /\ ready[e] > 0 /\ UNCHANGED <<want, oready, delayed>>
      /\ ready' = [ready EXCEPT ![e] = @ - 1]
      /\ running' = [running EXCEPT ![e] = @ + 1]
      /\ starts' = [starts EXCEPT ![e] = @ + 1]
  BY DEF FindWork
<1>2. ASSUME NEW f \in Edge
      PROVE  /\ ready[f] \in Nat /\ running[f] \in Nat /\ starts[f] \in Nat
             /\ Count(f, delayed) \in Nat /\ Count(f, delayed)' = Count(f, delayed)
             /\ Held(f) = ready[f] + running[f] + Count(f, delayed)
             /\ Held(f)' = ready'[f] + running'[f] + Count(f, delayed)
             /\ starts[f] + ready[f] + Count(f, delayed) <= 1 /\ running[f] <= starts[f]
             /\ f = e => /\ ready'[f] = ready[f] - 1 /\ running'[f] = running[f] + 1
                         /\ starts'[f] = starts[f] + 1
             /\ f # e => /\ ready'[f] = ready[f] /\ running'[f] = running[f]
                         /\ starts'[f] = starts[f]
  BY <1>1 DEF TypeOK, Held, Count, DyndepOnce, Once
<1>3. \A f \in Edge : /\ starts'[f] + ready'[f] + Count(f, delayed)' <= 1
                      /\ running'[f] <= starts'[f]
  BY <1>1, <1>2
<1>4. \A f \in Edge : /\ Held(f)' > 0 => Held(f) > 0
                      /\ starts'[f] > 0 => Held(f) > 0 \/ starts[f] > 0
  BY <1>1, <1>2
<1> QED
  BY <1>1, <1>3, <1>4 DEF DyndepOnce, Once

LEMMA OnceFails ==
    ASSUME TypeOK, DyndepOnce, Fresh, NEW e \in Edge, EdgeFailed(e)
    PROVE  DyndepOnce'
<1>1. PICK T \in SUBSET delayed :
        /\ ready' = [f \in Edge |-> ready[f] + Count(f, {}) + Count(f, T) + Count(f, {})]
        /\ delayed' = delayed \ T
  BY DEF EdgeFailed, Push
<1>2. /\ running[e] > 0 /\ running' = [running EXCEPT ![e] = @ - 1]
      /\ UNCHANGED <<want, oready, starts, prepared>>
  BY DEF EdgeFailed
<1>3. ASSUME NEW f \in Edge
      PROVE  /\ ready'[f] + Count(f, delayed)' = ready[f] + Count(f, delayed)
             /\ running'[f] <= running[f] /\ running'[f] \in Nat /\ ready'[f] \in Nat
             /\ ready[f] \in Nat /\ running[f] \in Nat /\ starts[f] \in Nat
             /\ Count(f, delayed) \in Nat /\ Count(f, delayed)' \in Nat
             /\ Held(f) = ready[f] + running[f] + Count(f, delayed)
             /\ Held(f)' = ready'[f] + running'[f] + Count(f, delayed)'
             /\ starts[f] + ready[f] + Count(f, delayed) <= 1 /\ running[f] <= starts[f]
  BY <1>1, <1>2 DEF TypeOK, Held, Count, DyndepOnce, Once
<1>4. prepared
  <2>1. Held(e) > 0
    BY <1>2, <1>3
  <2> QED
    BY <2>1 DEF Fresh
<1>5. \A f \in Edge : /\ starts[f] + ready'[f] + Count(f, delayed)' <= 1
                      /\ running'[f] <= starts[f]
  BY <1>3
<1>6. \A f \in Edge : Held(f)' > 0 => Held(f) > 0
  BY <1>3
<1> QED
  BY <1>2, <1>4, <1>5, <1>6 DEF DyndepOnce, Once

LEMMA OnceSucceeds ==
    ASSUME DyndepTypeOK, DyndepInv, DyndepOnce,
           NEW e \in Edge, NEW unchanged \in SUBSET outs[e], Succeeded(e, unchanged)
    PROVE  DyndepOnce'
<1> DEFINE C == Cleaned(unchanged)
           w == WantAfter(e, C)
           done == oready \cup {e}
           seen == OutEdges(outs[e] \ dynPending)
           used == UseWithout(e)
<1>0. TypeOK /\ \A f \in Edge : want[f] # "Absent" <=> f \in visited \ oready
  BY DEF DyndepTypeOK, DyndepInv, EntriesVisited
<1>1. /\ running[e] > 0 /\ running' = [running EXCEPT ![e] = @ - 1]
      /\ UNCHANGED <<prepared, starts>>
  BY DEF Succeeded, EdgeSucceeded
<1>2. PICK T \in SUBSET delayed : Settle(w, done, seen, T, used, dynPending)
  BY DEF Succeeded, EdgeSucceeded, WantAfter
<1>3. w \in [Edge -> Want]
  BY <1>0, WantAfterType
<1>4. done \in SUBSET Edge /\ seen \in SUBSET Edge /\ used \in [Pool -> Int]
  BY <1>0, UseWithoutType DEF TypeOK, OutEdges
<1>5. \A f \in C : f \in Edge /\ want[f] \in {"ToStart", "ToFinish"} /\ f \notin oready
  BY <1>0, CleanedWanted DEF Wanted
<1>6. \A f \in Edge : w[f] = IF f \in C THEN "Nothing"
                             ELSE IF f = e THEN "Absent" ELSE want[f]
  BY DEF WantAfter
<1> HIDE DEF w, seen, used
<1>7. PICK passed, sched \in SUBSET Edge : SettlesWell(w, done, seen, passed, sched)
  BY <1>0, <1>2, <1>3, <1>4, SettleFacts
<1>8. /\ running' \in [Edge -> Nat] /\ \A f \in Edge : running'[f] <= running[f]
  BY <1>0, <1>1 DEF TypeOK
<1>9. Held(e) > 0 /\ prepared
  <2>1. Held(e) > 0
    BY <1>0, <1>1 DEF Held, TypeOK, Count
  <2> QED
    BY <2>1, HeldFacts
<1>10. ASSUME NEW f \in Edge, w[f] = "ToStart"
       PROVE  starts[f] = 0 /\ Held(f) = 0
  <2>1. want[f] = "ToStart"
    BY <1>6, <1>10
  <2>2. f \notin oready
    BY <1>0, <2>1
  <2>3. ~(Held(f) > 0 \/ starts[f] > 0)
    BY <2>1, <2>2 DEF DyndepOnce
  <2>4. Held(f) \in Nat /\ starts[f] \in Nat
    BY <1>0 DEF Held, Count, TypeOK
  <2> QED
    BY <2>3, <2>4
<1>11. ASSUME NEW f \in Edge
       PROVE  /\ ready[f] + Count(f, delayed) + running'[f] > 0 => w[f] = "ToFinish"
              /\ starts[f] > 0 => w[f] = "ToFinish" \/ f \in done
  <2>1. /\ ready[f] \in Nat /\ running[f] \in Nat /\ starts[f] \in Nat
        /\ Count(f, delayed) \in Nat
        /\ Held(f) = ready[f] + running[f] + Count(f, delayed)
        /\ starts[f] + ready[f] + Count(f, delayed) <= 1 /\ running[f] <= starts[f]
        /\ running'[f] = IF f = e THEN running[f] - 1 ELSE running[f]
    BY <1>0, <1>1 DEF TypeOK, Held, Count, DyndepOnce, Once
  <2>2. CASE f = e
    BY <1>1, <2>1, <2>2
  <2>3. CASE f # e /\ f \in C
    <3>1. want[e] = "ToFinish"
      BY <1>9 DEF DyndepOnce
    <3>2. e \notin oready
      BY <1>0, <3>1
    <3>3. ~AllInputsReady(f, oready)
      BY <1>5, <2>3, <3>2, <1>0, CleanedWaits DEF Wanted
    <3>4. want[f] # "ToFinish"
      BY <3>3 DEF DyndepInv, ReadyBelow
    <3>5. Held(f) = 0 /\ starts[f] = 0
      BY <1>5, <2>1, <2>3, <3>4 DEF DyndepOnce
    <3> QED
      BY <2>1, <2>3, <3>5
  <2>4. CASE f # e /\ f \notin C
    <3>1. Held(f) > 0 => want[f] = "ToFinish"
      BY DEF DyndepOnce
    <3>2. starts[f] > 0 => want[f] = "ToFinish" \/ f \in oready
      BY DEF DyndepOnce
    <3> QED
      BY <1>6, <2>1, <2>4, <3>1, <3>2
  <2> QED
    BY <2>2, <2>3, <2>4
<1>12. oready \subseteq done
  OBVIOUS
<1> HIDE DEF done, C
<1>13. prepared' /\ starts' = starts
  BY <1>1, <1>9
<1> QED
  BY <1>0, <1>7, <1>8, <1>10, <1>11, <1>12, <1>13, OnceSettles

LEMMA OnceTakesUp ==
    ASSUME InScope, DyndepTypeOK, DyndepInv, DyndepOnce, GraphOK,
           NEW n \in Node, DyndepsLoaded(n)
    PROVE  DyndepOnce'
<1>0. /\ TypeOK /\ prepared
      /\ \A f \in Edge : want[f] # "Absent" <=> f \in visited \ oready
  BY DEF DyndepTypeOK, DyndepInv, EntriesVisited, DyndepsLoaded, Settled
<1>1. PICK Dp, R, E, IR, K, w, seen : TakesUp(n, Dp, R, E, IR, K, w, seen)
  BY LoadedTakesUp
<1>2. /\ ScannedAgain(n, Dp, R, E, IR) /\ WalkedAgain(Dp, R, E, IR, K, w)
      /\ w \in [Edge -> Want] /\ IR \in SUBSET Edge /\ seen \in SUBSET Edge
      /\ Settle(w, IR, seen, {}, use, dynPending)
  BY <1>1 DEF TakesUp
<1>3. PICK passed, sched \in SUBSET Edge : SettlesWell(w, IR, seen, passed, sched)
  <2>1. {} \in SUBSET delayed /\ use \in [Pool -> Int]
    BY <1>0 DEF TypeOK
  <2> QED
    BY <1>0, <1>2, <2>1, SettleFacts
<1>4. UNCHANGED <<running, starts, prepared>>
  BY DEF DyndepsLoaded, history
<1>5. oready \subseteq IR /\ K \cap IR = {}
  BY <1>2 DEF ScannedAgain, WalkedAgain
<1>6. ASSUME NEW f \in Edge
      PROVE  /\ want[f] = "ToFinish" => w[f] = "ToFinish"
             /\ w[f] = "ToStart" => want[f] # "ToFinish" /\ f \notin oready
  <2>1. want[f] \in {"Absent", "Nothing", "ToStart", "ToFinish"}
    BY <1>0 DEF TypeOK, Want
  <2>2. CASE want[f] = "Absent"
    BY <1>5, <2>2, <1>2 DEF WalkedAgain
  <2>3. CASE want[f] = "Nothing"
    BY <1>0, <2>3
  <2>4. CASE want[f] \in {"ToStart", "ToFinish"}
    BY <1>0, <1>2, <2>4 DEF WalkedAgain
  <2> QED
    BY <2>1, <2>2, <2>3, <2>4
<1>7. ASSUME NEW f \in Edge
      PROVE  /\ starts[f] \in Nat /\ Held(f) \in Nat /\ running[f] \in Nat
             /\ Held(f) = ready[f] + Count(f, delayed) + running[f]
             /\ Held(f) > 0 => want[f] = "ToFinish"
             /\ starts[f] > 0 => want[f] = "ToFinish" \/ f \in oready
  BY <1>0 DEF TypeOK, Held, Count, DyndepOnce
<1>8. \A f \in Edge : w[f] = "ToStart" => starts[f] = 0 /\ Held(f) = 0
  BY <1>6, <1>7
<1>9. \A f \in Edge :
        /\ ready[f] + Count(f, delayed) + running'[f] > 0 => w[f] = "ToFinish"
        /\ starts[f] > 0 => w[f] = "ToFinish" \/ f \in IR
  BY <1>4, <1>5, <1>6, <1>7
<1>10. running' \in [Edge -> Nat] /\ \A f \in Edge : running'[f] <= running[f]
  BY <1>0, <1>4, <1>7 DEF TypeOK
<1> QED
  BY <1>0, <1>3, <1>4, <1>5, <1>8, <1>9, <1>10, OnceSettles

\* What needs a file is not ready, as the file's edge is not.
LEMMA BelowNotReady ==
    ASSUME InScope, DyndepInit, NEW e \in BelowFiles
    PROVE  ~AllInputsReady(e, oready)
<1>1. PICK dirtyEdges :
        LET notReady == NotReadyEdges(dirtyEdges) IN oready = Sorted \ notReady
  BY DEF DyndepInit, Init
<1> DEFINE NR == NotReadyEdges(dirtyEdges)
           S == {f \in Edge : Producers(f) \cap NR # {}}
           F(C) == {f \in Edge : \/ AllInputs(f) \cap Files # {}
                                 \/ \E g \in C : AllOutputs(g) \cap AllInputs(f) # {}}
           K == {C \in SUBSET Edge : F(C) \cap Edge \subseteq C}
<1>2. /\ ins = Inputs /\ outs = Outputs /\ oready = Sorted \ NR
      /\ \A f \in Edge : outs[f] \cap Files # {} => f \in Sorted \ oready
      /\ \A f \in Edge : AllIns(f) = Inputs[f] \cup OrderOnly[f]
  BY <1>1 DEF DyndepInit, Init, Files, AllIns
<1>3. \A f \in S : f \in NR
  BY NotReadyClosed
<1> HIDE DEF NR
<1>4. ASSUME NEW f \in Edge, AllIns(f) \cap Files # {}  PROVE f \in S
  <2>1. PICK n \in Files : n \in AllIns(f)
    BY <1>4
  <2>2. GraphOK
    BY DyndepStarts, GraphIsOK DEF DyndepInv, FilesFollowed
  <2>3. PICK q \in Edge : outs[q] = {n}
    BY <2>2 DEF GraphOK
  <2>4. q \in Producers(f) /\ q \in NR
    BY <1>2, <2>1, <2>3 DEF Producers
  <2> QED
    BY <2>4
<1>5. ASSUME NEW f \in DynEdges  PROVE f \in S
  <2>1. f \in Edge /\ Dyndep[f] \in AllIns(f) /\ Dyndep[f] \in Files
    BY <1>2, DyndepAssumption DEF DyndepAssumption, Files
  <2> QED
    BY <1>4, <2>1
<1>6. ASSUME NEW f \in F(S)  PROVE f \in S
  <2>1. CASE f \in DynEdges
    BY <1>5, <2>1
  <2>2. CASE f \notin DynEdges /\ AllInputs(f) \cap Files # {}
    BY <1>2, <1>4, <2>2 DEF AllInputs
  <2>3. CASE f \notin DynEdges /\ \E g \in S : AllOutputs(g) \cap AllInputs(f) # {}
    <3>1. PICK g \in S : AllOutputs(g) \cap AllInputs(f) # {}
      BY <2>3
    <3>2. g \in Edge /\ g \in NR
      BY <1>3
    <3>3. outs[g] \cap AllIns(f) # {}
      <4>1. AllInputs(f) = AllIns(f)
        BY <1>2, <2>3 DEF AllInputs
      <4>2. CASE Outputs[g] \cap AllInputs(f) # {}
        BY <1>2, <4>1, <4>2
      <4>3. CASE Outputs[g] \cap AllInputs(f) = {}
        <5>1. g \in DynEdges /\ DynOuts[g] \cap AllInputs(f) # {}
          BY <3>1, <4>3 DEF AllOutputs
        <5> QED
          BY <1>2, <2>3, <5>1 DEF InScope, OutputsFound
      <4> QED
        BY <4>2, <4>3
    <3>4. g \in Producers(f)
      BY <3>2, <3>3 DEF Producers
    <3> QED
      BY <3>2, <3>4
  <2> QED
    BY <2>1, <2>2, <2>3
<1>7. S \in K
  BY <1>6
<1>8. BelowFiles = Edge \ UNION {Edge \ C : C \in K}
  BY DEF BelowFiles, Least
<1>9. e \in S
  <2> HIDE DEF S, K
  <2> QED
    BY <1>7, <1>8, BelowClosed
<1>10. PICK p \in Producers(e) : p \in NR
  BY <1>9
<1> QED
  BY <1>2, <1>10 DEF AllInputsReady

LEMMA OnceStarts ==
    ASSUME InScope, DyndepInit
    PROVE  DyndepOnce
<1>1. /\ ready = [e \in Edge |-> 0] /\ running = [e \in Edge |-> 0]
      /\ starts = [e \in Edge |-> 0] /\ delayed = {}
  BY DEF DyndepInit, Init
<1>2. \A e \in BelowFiles : ~AllInputsReady(e, oready)
  BY BelowNotReady
<1> QED
  BY <1>1, <1>2 DEF DyndepOnce, Once, Held, Count

LEMMA OnceUnchanged ==
    ASSUME DyndepOnce,
           UNCHANGED <<outs, ins, want, oready, ready, running, starts, delayed, prepared>>
    PROVE  DyndepOnce'
<1>1. \A e \in Edge : /\ Held(e)' = Held(e) /\ Count(e, delayed)' = Count(e, delayed)
                      /\ Producers(e)' = Producers(e)
  BY DEF Held, Count, Producers, AllIns
<1>2. Once'
  BY <1>1 DEF DyndepOnce, Once
<1>3. \A e \in Edge : /\ Held(e)' > 0 => want'[e] = "ToFinish"
                      /\ starts'[e] > 0 => want'[e] = "ToFinish" \/ e \in oready'
  BY <1>1 DEF DyndepOnce
<1>4. ~prepared => \A e \in BelowFiles : ~AllInputsReady(e, oready)'
  <2>1. BelowFiles \subseteq Edge
    BY DEF BelowFiles, Least
  <2> QED
    BY <1>1, <2>1 DEF DyndepOnce, AllInputsReady
<1> QED
  BY <1>2, <1>3, <1>4 DEF DyndepOnce

LEMMA OnceLoads ==
    ASSUME DyndepInv, DyndepOnce, NEW n \in Node, LoadDyndeps(n)
    PROVE  DyndepOnce'
<1>1. UNCHANGED <<want, oready, ready, running, starts, delayed, prepared>>
  BY DEF LoadDyndeps, history
<1>2. prepared
  BY DEF DyndepInv, Settled, LoadDyndeps
<1>3. \A e \in Edge : Held(e)' = Held(e) /\ Count(e, delayed)' = Count(e, delayed)
  BY <1>1 DEF Held, Count
<1> QED
  BY <1>1, <1>2, <1>3 DEF DyndepOnce, Once

LEMMA OnceStep ==
    ASSUME InScope, PooledBelow
    PROVE  DyndepTypeOK /\ DyndepInv /\ DyndepOnce /\ [DyndepNext]_allPlanVars => DyndepOnce'
<1> SUFFICES ASSUME DyndepTypeOK, DyndepInv, DyndepOnce, [DyndepNext]_allPlanVars
             PROVE  DyndepOnce'
  OBVIOUS
<1>0. TypeOK /\ Fresh /\ GraphOK
  BY GraphIsOK DEF DyndepTypeOK, DyndepInv, FilesFollowed
<1>1. CASE PrepareQueue
  BY <1>0, <1>1, OncePrepares
<1>2. ASSUME NEW e \in Edge, FindWork(e)  PROVE DyndepOnce'
  BY <1>0, <1>2, OnceFinds
<1>3. ASSUME NEW e \in Edge, EdgeFailed(e)  PROVE DyndepOnce'
  BY <1>0, <1>3, OnceFails
<1>4. ASSUME NEW e \in Edge, NEW unchanged \in SUBSET outs[e], Succeeded(e, unchanged)
      PROVE  DyndepOnce'
  BY <1>4, OnceSucceeds
<1>5. ASSUME NEW n \in Node, LoadDyndeps(n)  PROVE DyndepOnce'
  BY <1>5, OnceLoads
<1>6. ASSUME NEW n \in Node, DyndepsLoaded(n)  PROVE DyndepOnce'
  BY <1>0, <1>6, OnceTakesUp
<1>7. CASE UNCHANGED allPlanVars
  BY <1>7, OnceUnchanged DEF allPlanVars, planVars, graph, history
<1> QED
  BY <1>1, <1>2, <1>3, <1>4, <1>5, <1>6, <1>7 DEF DyndepNext

\* In scope, and with no initial edge in a pool, no edge is run twice, although
\* files may lead to it again while it is held: what RunsOnce is refuted by in
\* general is only ScheduleInitialEdges.
THEOREM DyndepRunsOnce ==
    ASSUME InScope, PooledBelow
    PROVE  DyndepSpec => []RunsOnce
<1>1. DyndepInit => DyndepOnce
  BY OnceStarts
<1>2. DyndepTypeOK /\ DyndepInv /\ DyndepOnce /\ [DyndepNext]_allPlanVars => DyndepOnce'
  BY OnceStep
<1>3. DyndepTypeOK /\ DyndepOnce => RunsOnce
  <2> SUFFICES ASSUME TypeOK, DyndepOnce, NEW e \in Edge
               PROVE  starts[e] <= 1 /\ Held(e) <= 1
    BY DEF RunsOnce, DyndepTypeOK
  <2>1. /\ starts[e] + ready[e] + Count(e, delayed) <= 1 /\ running[e] <= starts[e]
        /\ starts[e] \in Nat /\ ready[e] \in Nat /\ running[e] \in Nat
        /\ Count(e, delayed) \in Nat
        /\ Held(e) = ready[e] + running[e] + Count(e, delayed)
    BY DEF DyndepOnce, Once, TypeOK, Count, Held
  <2> QED
    BY <2>1
<1> QED
  BY <1>1, <1>2, <1>3, DyndepInvariant, PTL DEF DyndepSpec

-----------------------------------------------------------------------------
(***************************************************************************)
(* The books, while the graph grows.                                       *)
(***************************************************************************)
\* EdgeFinished(e), with the edges C that CleanNode withdraws, T that the pool
\* releases, and those that are passed, scheduled and, of a pool, let in.
LeavesAs(e, C, T, passed, sched, pooled, N) ==
    /\ want[e] = "ToFinish" /\ running[e] > 0 /\ running' = [running EXCEPT ![e] = @ - 1]
    /\ starts' = starts /\ failed' = failed
    /\ C \subseteq Wanted(want) /\ e \notin C
    /\ \A f \in C \cup sched : Held(f) = 0 /\ starts[f] = 0
    /\ \A f \in Edge : want'[f] = IF f \in passed THEN "Absent"
                                  ELSE IF f \in sched THEN "ToFinish" ELSE WantAfter(e, C)[f]
    /\ \A f \in passed : WantAfter(e, C)[f] = "Nothing"
    /\ \A f \in sched : WantAfter(e, C)[f] = "ToStart"
    /\ T \subseteq delayed /\ Released(e, T) /\ Pooled(UseWithout(e), T, sched, pooled, N)
    /\ N \subseteq pooled /\ pooled \subseteq sched
    /\ delayed' = (delayed \ T) \cup (pooled \ N)
    /\ wanted' = wanted - Cardinality(C) - (IF want[e] # "Nothing" THEN 1 ELSE 0)
    /\ command' = command - Cardinality(C \ Phony)

LEMMA LeavesEffect ==
    ASSUME DyndepTypeOK, DyndepInv, DyndepOnce,
           NEW e \in Edge, NEW unchanged \in SUBSET outs[e], Succeeded(e, unchanged)
    PROVE  \E T, passed, sched, pooled, N \in SUBSET Edge :
             LeavesAs(e, Cleaned(unchanged), T, passed, sched, pooled, N)
<1> DEFINE C == Cleaned(unchanged)
           w == WantAfter(e, C)
           done == oready \cup {e}
           seen == OutEdges(outs[e] \ dynPending)
           used == UseWithout(e)
<1>0. TypeOK /\ \A f \in Edge : want[f] # "Absent" <=> f \in visited \ oready
  BY DEF DyndepTypeOK, DyndepInv, EntriesVisited
<1>1. /\ running[e] > 0 /\ running' = [running EXCEPT ![e] = @ - 1]
      /\ starts' = starts /\ failed' = failed
      /\ wanted' = wanted - Cardinality(C) - (IF want[e] # "Nothing" THEN 1 ELSE 0)
      /\ command' = command - Cardinality(C \ Phony)
  BY DEF Succeeded, EdgeSucceeded
<1>2. PICK T \in SUBSET delayed : Released(e, T) /\ Settle(w, done, seen, T, used, dynPending)
  BY DEF Succeeded, EdgeSucceeded, WantAfter
<1>3. w \in [Edge -> Want]
  BY <1>0, WantAfterType
<1>4. done \in SUBSET Edge /\ seen \in SUBSET Edge /\ used \in [Pool -> Int]
  BY <1>0, UseWithoutType DEF TypeOK, OutEdges
<1>5. C \subseteq Wanted(want) /\ Wanted(want) \subseteq Edge
  BY CleanedWanted DEF Wanted
<1>6. \A f \in Edge : w[f] = IF f \in C THEN "Nothing"
                             ELSE IF f = e THEN "Absent" ELSE want[f]
  BY DEF WantAfter
<1>7. ASSUME NEW f \in Edge
      PROVE  /\ Held(f) \in Nat /\ starts[f] \in Nat
             /\ Held(f) > 0 => want[f] = "ToFinish"
             /\ starts[f] > 0 => want[f] = "ToFinish" \/ f \in oready
             /\ want[f] = "ToFinish" => AllInputsReady(f, oready)
  BY <1>0 DEF Held, Count, TypeOK, DyndepOnce, DyndepInv, ReadyBelow
<1>8. want[e] = "ToFinish" /\ e \notin oready
  <2>1. Held(e) > 0
    BY <1>0, <1>1 DEF Held, TypeOK, Count
  <2> QED
    BY <1>0, <1>7, <2>1
<1>9. ASSUME NEW f \in C  PROVE f \in Edge /\ f # e /\ Held(f) = 0 /\ starts[f] = 0
  <2>1. f \in Edge /\ f \in Wanted(want)
    BY <1>5
  <2>2. f \notin oready
    BY <1>0, <2>1 DEF Wanted
  <2>3. ~AllInputsReady(f, oready)
    BY <1>0, <1>5, <1>8, CleanedWaits DEF Wanted
  <2> QED
    BY <1>7, <1>8, <2>1, <2>2, <2>3
<1> HIDE DEF w, seen, used
<1>10. PICK passed, sched, pooled, N \in SUBSET Edge :
         SettlesInPools(w, done, seen, T, used, passed, sched, pooled, N)
  BY <1>0, <1>2, <1>3, <1>4, SettlePools
<1>11. ASSUME NEW f \in sched
       PROVE  w[f] = "ToStart" /\ Held(f) = 0 /\ starts[f] = 0
  <2>1. w[f] = "ToStart"
    BY <1>10 DEF SettlesInPools, SettlesWell
  <2>2. want[f] = "ToStart" /\ f \in Edge
    BY <1>6, <2>1
  <2>3. f \notin oready
    BY <1>0, <2>2
  <2> QED
    BY <1>7, <2>1, <2>2, <2>3
<1>12. /\ \A f \in Edge : want'[f] = IF f \in passed THEN "Absent"
                                     ELSE IF f \in sched THEN "ToFinish" ELSE w[f]
       /\ \A f \in passed : w[f] = "Nothing"
  BY <1>10 DEF SettlesInPools, SettlesWell
<1>13. T \in SUBSET Edge
  BY <1>0, <1>2 DEF TypeOK
<1> HIDE DEF done, C
<1>14. LeavesAs(e, C, T, passed, sched, pooled, N)
  BY <1>1, <1>2, <1>5, <1>8, <1>9, <1>10, <1>11, <1>12 DEF LeavesAs, SettlesInPools, w, used
<1> QED
  BY <1>13, <1>14 DEF C

\* DyndepsLoaded, with the entries w it gives and those of them it passes,
\* schedules and, of a pool, lets in.
EntersAs(w, passed, sched, pooled, N) ==
    /\ w \in [Edge -> Want] /\ Wanted(want) \subseteq Wanted(w)
    /\ \A f \in sched : Held(f) = 0
    /\ \A f \in Edge : want'[f] = IF f \in passed THEN "Absent"
                                  ELSE IF f \in sched THEN "ToFinish" ELSE w[f]
    /\ \A f \in passed : w[f] = "Nothing"
    /\ \A f \in sched : w[f] = "ToStart"
    /\ Pooled(use, {}, sched, pooled, N)
    /\ N \subseteq pooled /\ pooled \subseteq sched
    /\ delayed' = delayed \cup (pooled \ N)
    /\ wanted' = wanted + Cardinality(Wanted(w) \ Wanted(want))
    /\ command' = command + Cardinality((Wanted(w) \ Wanted(want)) \ Phony)
    /\ UNCHANGED <<running, starts, failed>>

LEMMA EntersEffect ==
    ASSUME InScope, DyndepTypeOK, DyndepInv, DyndepOnce, GraphOK,
           NEW n \in Node, DyndepsLoaded(n)
    PROVE  \E w : \E passed, sched, pooled, N \in SUBSET Edge :
             EntersAs(w, passed, sched, pooled, N)
<1>0. /\ TypeOK
      /\ \A f \in Edge : want[f] # "Absent" <=> f \in visited \ oready
  BY DEF DyndepTypeOK, DyndepInv, EntriesVisited
<1>1. PICK Dp, R, E, IR, K, w, seen : TakesUp(n, Dp, R, E, IR, K, w, seen)
  BY LoadedTakesUp
<1>2. /\ ScannedAgain(n, Dp, R, E, IR) /\ WalkedAgain(Dp, R, E, IR, K, w)
      /\ w \in [Edge -> Want] /\ IR \in SUBSET Edge /\ seen \in SUBSET Edge
      /\ Settle(w, IR, seen, {}, use, dynPending)
      /\ wanted' = wanted + Cardinality(Wanted(w) \ Wanted(want))
      /\ command' = command + Cardinality((Wanted(w) \ Wanted(want)) \ Phony)
  BY <1>1 DEF TakesUp
<1>3. PICK passed, sched, pooled, N \in SUBSET Edge :
        SettlesInPools(w, IR, seen, {}, use, passed, sched, pooled, N)
  <2>1. {} \in SUBSET delayed /\ use \in [Pool -> Int]
    BY <1>0 DEF TypeOK
  <2> QED
    BY <1>0, <1>2, <2>1, SettlePools
<1>4. UNCHANGED <<running, starts, failed>>
  BY DEF DyndepsLoaded, history
<1>5. ASSUME NEW f \in Edge, want[f] \in {"ToStart", "ToFinish"}  PROVE w[f] = want[f]
  BY <1>2, <1>5 DEF WalkedAgain
<1>6. Wanted(want) \subseteq Wanted(w)
  BY <1>5 DEF Wanted
<1>7. ASSUME NEW f \in sched  PROVE w[f] = "ToStart" /\ Held(f) = 0
  <2>1. w[f] = "ToStart" /\ f \in Edge
    BY <1>3 DEF SettlesInPools, SettlesWell
  <2>2. want[f] # "ToFinish"
    BY <1>5, <2>1
  <2>3. Held(f) \in Nat
    BY <1>0 DEF Held, Count, TypeOK
  <2> QED
    BY <2>1, <2>2, <2>3 DEF DyndepOnce
<1>8. /\ \A f \in Edge : want'[f] = IF f \in passed THEN "Absent"
                                    ELSE IF f \in sched THEN "ToFinish" ELSE w[f]
      /\ \A f \in passed : w[f] = "Nothing"
  BY <1>3 DEF SettlesInPools, SettlesWell
<1>9. EntersAs(w, passed, sched, pooled, N)
  BY <1>2, <1>3, <1>4, <1>6, <1>7, <1>8 DEF EntersAs, SettlesInPools
<1> QED
  BY <1>9

\* New entries are counted once.
LEMMA CountedEnters ==
    ASSUME TypeOK, Counted, NEW w, NEW passed, NEW sched, NEW pooled, NEW N,
           EntersAs(w, passed, sched, pooled, N)
    PROVE  Counted'
<1> DEFINE W == Wanted(want)
           New == Wanted(w) \ Wanted(want)
<1>1. Wanted(want') = W \cup New
  BY DEF EntersAs, Wanted
<1>2. W \in SUBSET Edge /\ New \in SUBSET Edge /\ W \cap New = {}
  BY DEF Wanted
<1>3. /\ wanted = Cardinality(W) /\ command >= Cardinality(W \ Phony)
      /\ wanted' = wanted + Cardinality(New)
      /\ command' = command + Cardinality(New \ Phony)
      /\ command \in Int
  BY DEF Counted, EntersAs, TypeOK
<1> HIDE DEF W, New
<1>4. Cardinality(W \cup New) = Cardinality(W) + Cardinality(New)
  BY <1>2, CountApart
<1>5. Cardinality((W \cup New) \ Phony) = Cardinality(W \ Phony) + Cardinality(New \ Phony)
  <2>1. /\ W \ Phony \in SUBSET Edge /\ New \ Phony \in SUBSET Edge
        /\ (W \ Phony) \cap (New \ Phony) = {}
        /\ (W \cup New) \ Phony = (W \ Phony) \cup (New \ Phony)
    BY <1>2
  <2>2. Cardinality((W \ Phony) \cup (New \ Phony))
          = Cardinality(W \ Phony) + Cardinality(New \ Phony)
    BY <2>1, CountApart
  <2> QED
    BY <2>1, <2>2
<1>6. Cardinality(W \ Phony) \in Nat /\ Cardinality(New \ Phony) \in Nat
  BY <1>2, EdgeSetFinite
<1>7. wanted' = Cardinality(Wanted(want'))
  BY <1>1, <1>3, <1>4
<1>8. command' >= Cardinality(Wanted(want') \ Phony)
  BY <1>1, <1>3, <1>5, <1>6
<1> QED
  BY <1>7, <1>8 DEF Counted

\* New entries of a pool take the places that are left.
LEMMA PoolsEnter ==
    ASSUME TypeOK, PoolsKept, NEW w, NEW passed, NEW sched \in SUBSET Edge,
           NEW pooled, NEW N, EntersAs(w, passed, sched, pooled, N)
    PROVE  PoolsKept'
<1> SUFFICES ASSUME NEW p \in Pool, Depth[p] # 0
             PROVE  Filled(p, use'[p], Placed(p)', delayed')
  BY DEF PoolsKept, Filled
<1>1. /\ N \in SUBSET pooled /\ pooled \in SUBSET sched /\ pooled \in SUBSET Edge
      /\ Pooled(use, {}, sched, pooled, N) /\ running' = running
      /\ delayed' = delayed \cup (pooled \ N) /\ \A f \in sched : Held(f) = 0
  BY DEF EntersAs
<1>2. Filled(p, use[p] + Cardinality({} \cap Members(p)), Placed(p), delayed \ {})
  <2>1. /\ use[p] = Cardinality(Placed(p)) /\ use[p] <= Depth[p]
        /\ delayed \cap Members(p) # {} => use[p] = Depth[p]
        /\ use[p] \in Int /\ Cardinality({}) = 0 /\ {} \cap Members(p) = {}
    BY PoolBooks
  <2> QED
    BY <2>1 DEF Filled
<1>3. ASSUME NEW f \in Members(p)
      PROVE  /\ f \in N => ready'[f] + running'[f] > 0 /\ ready[f] + running[f] = 0
             /\ f \notin N => ready'[f] + running'[f] = ready[f] + running[f]
  <2>1. f \in Edge /\ ready[f] \in Nat /\ running[f] \in Nat
    BY DEF TypeOK, Members
  <2>2. f \notin sched \ pooled
    BY <1>1, <1>3 DEF Pooled, ShouldDelayEdge, Members
  <2>3. ready'[f] = ready[f] + (IF f \in N THEN 1 ELSE 0)
    BY <1>1, <2>1, <2>2 DEF Pooled, Push, Count
  <2>4. f \in N => ready[f] + running[f] = 0
    BY <1>1, <2>1 DEF Held, Count
  <2> QED
    BY <1>1, <2>1, <2>3, <2>4
<1>4. Placed(p)' = Placed(p) \cup (N \cap Members(p)) /\ Placed(p) \cap N = {}
  <2>1. /\ Placed(p)' = {f \in Members(p) : ready'[f] + running'[f] > 0}
        /\ Placed(p) = {f \in Members(p) : ready[f] + running[f] > 0}
    BY DEF Placed, Members
  <2> QED
    BY <1>3, <2>1
<1>5. /\ Placed(p) \in SUBSET Edge /\ use \in [Pool -> Int] /\ {} \in SUBSET Edge
      /\ delayed' = (delayed \ {}) \cup (pooled \ N)
  BY <1>1 DEF Placed, Members, TypeOK
<1> QED
  BY <1>1, <1>2, <1>4, <1>5, SettleFills

DyndepBooks == FailedStay /\ Counted /\ PoolsKept

LEMMA BooksPrepare ==
    ASSUME TypeOK, Fresh, DyndepBooks, PrepareQueue
    PROVE  DyndepBooks'
<1>1. Counted' /\ PoolsKept'
  BY CountedPrepare, PoolsPrepare DEF DyndepBooks
<1>2. UNCHANGED <<starts, running, failed>> /\ ~prepared
  BY DEF PrepareQueue, history
<1>3. failed = {}
  BY <1>2 DEF DyndepBooks, FailedStay, Fresh, Wanted
<1> QED
  BY <1>1, <1>2, <1>3 DEF DyndepBooks, FailedStay

LEMMA BooksFind ==
    ASSUME TypeOK, Once, DyndepBooks, NEW e \in Edge, FindWork(e)
    PROVE  DyndepBooks'
<1>1. Counted' /\ PoolsKept'
  BY PoolsFindWork DEF DyndepBooks, FindWork, Counted
<1>2. /\ UNCHANGED <<failed, want>> /\ ready[e] > 0
      /\ running' = [running EXCEPT ![e] = @ + 1]
      /\ starts' = [starts EXCEPT ![e] = @ + 1]
  BY DEF FindWork
<1>3. e \notin failed
  BY <1>2 DEF DyndepBooks, FailedStay, Once, TypeOK, Count
<1>4. FailedStay'
  BY <1>2, <1>3 DEF DyndepBooks, FailedStay, Wanted, TypeOK
<1> QED
  BY <1>1, <1>4 DEF DyndepBooks

LEMMA BooksFail ==
    ASSUME TypeOK, DyndepOnce, DyndepBooks, NEW e \in Edge, EdgeFailed(e)
    PROVE  DyndepBooks'
<1>1. /\ UNCHANGED <<starts, want, wanted, command>> /\ running[e] > 0
      /\ running' = [running EXCEPT ![e] = @ - 1]
      /\ failed' = failed \cup {e}
  BY DEF EdgeFailed
<1>2. starts[e] > 0 /\ running[e] = 1 /\ Once
  <2>1. starts[e] + ready[e] + Count(e, delayed) <= 1 /\ running[e] <= starts[e]
    BY DEF DyndepOnce, Once
  <2>2. starts[e] \in Nat /\ ready[e] \in Nat /\ running[e] \in Nat /\ Count(e, delayed) \in Nat
    BY DEF TypeOK, Count
  <2> QED
    BY <1>1, <2>1, <2>2 DEF DyndepOnce
<1>3. want[e] = "ToFinish"
  <2>1. Held(e) > 0
    BY <1>1 DEF Held, Count, TypeOK
  <2> QED
    BY <2>1 DEF DyndepOnce
<1>4. Counted' /\ PoolsKept'
  BY <1>1, <1>2, <1>3, PoolsFailed DEF DyndepBooks, Counted
<1>5. FailedStay'
  BY <1>1, <1>2, <1>3 DEF DyndepBooks, FailedStay, Wanted, TypeOK
<1> QED
  BY <1>4, <1>5 DEF DyndepBooks

LEMMA BooksSucceed ==
    ASSUME DyndepTypeOK, DyndepInv, DyndepOnce, DyndepBooks,
           NEW e \in Edge, NEW unchanged \in SUBSET outs[e], Succeeded(e, unchanged)
    PROVE  DyndepBooks'
<1>0. TypeOK /\ Once
  BY DEF DyndepTypeOK, DyndepOnce
<1> DEFINE C == Cleaned(unchanged)
<1>1. PICK T, passed, sched, pooled, N \in SUBSET Edge :
        LeavesAs(e, C, T, passed, sched, pooled, N)
  BY LeavesEffect
<1> HIDE DEF C
<1>2. \A f \in Edge : WantAfter(e, C)[f] = IF f \in C THEN "Nothing"
                                           ELSE IF f = e THEN "Absent" ELSE want[f]
  BY DEF WantAfter
<1>3. /\ want[e] = "ToFinish" /\ running[e] > 0 /\ running' = [running EXCEPT ![e] = @ - 1]
      /\ starts' = starts /\ failed' = failed
      /\ C \subseteq Wanted(want) /\ e \notin C
      /\ \A f \in C \cup sched : Held(f) = 0 /\ starts[f] = 0
      /\ \A f \in Edge : want'[f] = IF f \in passed THEN "Absent"
                                    ELSE IF f \in sched THEN "ToFinish"
                                    ELSE WantAfter(e, C)[f]
      /\ \A f \in passed : WantAfter(e, C)[f] = "Nothing"
      /\ \A f \in sched : WantAfter(e, C)[f] = "ToStart"
  BY <1>1 DEF LeavesAs
<1>4. PoolsKept'
  <2>1. /\ T \in SUBSET delayed /\ Released(e, T) /\ Pooled(UseWithout(e), T, sched, pooled, N)
        /\ N \in SUBSET pooled /\ pooled \in SUBSET sched
        /\ delayed' = (delayed \ T) \cup (pooled \ N)
    BY <1>1 DEF LeavesAs
  <2> QED
    BY <1>0, <1>3, <2>1, PoolsSettled DEF DyndepBooks
<1>5. Counted'
  <2>1. Wanted(want') = (Wanted(want) \ C) \ {e}
    BY <1>2, <1>3 DEF Wanted
  <2>2. /\ wanted' = wanted - Cardinality(C) - (IF want[e] # "Nothing" THEN 1 ELSE 0)
        /\ command' = command - Cardinality(C \ Phony)
    BY <1>1 DEF LeavesAs
  <2>3. e \in Wanted(want) /\ want[e] # "Nothing"
    BY <1>3 DEF Wanted
  <2> QED
    BY <1>0, <1>3, <2>1, <2>2, <2>3, CountedLeaves DEF DyndepBooks
<1>6. FailedStay'
  <2> SUFFICES ASSUME NEW f \in failed
               PROVE  starts'[f] > 0 /\ running'[f] = 0 /\ f \in Wanted(want')
    BY <1>3 DEF FailedStay
  <2>1. f \in Edge /\ starts[f] > 0 /\ running[f] = 0 /\ want[f] \in {"ToStart", "ToFinish"}
    BY DEF DyndepBooks, FailedStay, Wanted
  <2>2. f # e /\ f \notin C
    BY <1>3, <2>1
  <2>3. WantAfter(e, C)[f] = want[f]
    BY <1>2, <2>1, <2>2
  <2>4. want'[f] \in {"ToStart", "ToFinish"}
    BY <1>3, <2>1, <2>3
  <2>5. running'[f] = running[f]
    BY <1>0, <1>3, <2>1, <2>2 DEF TypeOK
  <2> QED
    BY <1>3, <2>1, <2>4, <2>5 DEF Wanted
<1> QED
  BY <1>4, <1>5, <1>6 DEF DyndepBooks

LEMMA BooksTakeUp ==
    ASSUME InScope, DyndepTypeOK, DyndepInv, DyndepOnce, DyndepBooks, GraphOK,
           NEW n \in Node, DyndepsLoaded(n)
    PROVE  DyndepBooks'
<1>0. TypeOK
  BY DEF DyndepTypeOK
<1>1. PICK w : \E passed, sched, pooled, N \in SUBSET Edge :
        EntersAs(w, passed, sched, pooled, N)
  BY EntersEffect
<1>2. PICK passed, sched, pooled, N \in SUBSET Edge : EntersAs(w, passed, sched, pooled, N)
  BY <1>1
<1>3. Counted' /\ PoolsKept'
  BY <1>0, <1>2, CountedEnters, PoolsEnter DEF DyndepBooks
<1>4. Wanted(want) \subseteq Wanted(want') /\ UNCHANGED <<running, starts, failed>>
  BY <1>2 DEF EntersAs, Wanted
<1>5. FailedStay'
  BY <1>4 DEF DyndepBooks, FailedStay
<1> QED
  BY <1>3, <1>5 DEF DyndepBooks

LEMMA BooksSame ==
    ASSUME DyndepBooks,
           UNCHANGED <<want, wanted, command, ready, delayed, use, running, starts, failed>>
    PROVE  DyndepBooks'
  BY DEF DyndepBooks, FailedStay, Counted, PoolsKept, Placed, Members

LEMMA DyndepBooksStep ==
    ASSUME InScope
    PROVE  DyndepTypeOK /\ DyndepInv /\ DyndepOnce /\ DyndepBooks
             /\ [DyndepNext]_allPlanVars => DyndepBooks'
<1> SUFFICES ASSUME DyndepTypeOK, DyndepInv, DyndepOnce, DyndepBooks, [DyndepNext]_allPlanVars
             PROVE  DyndepBooks'
  OBVIOUS
<1>0. TypeOK /\ Fresh /\ Once /\ GraphOK
  BY GraphIsOK DEF DyndepTypeOK, DyndepInv, FilesFollowed, DyndepOnce
<1>1. CASE PrepareQueue
  BY <1>0, <1>1, BooksPrepare
<1>2. ASSUME NEW e \in Edge, FindWork(e)  PROVE DyndepBooks'
  BY <1>0, <1>2, BooksFind
<1>3. ASSUME NEW e \in Edge, EdgeFailed(e)  PROVE DyndepBooks'
  BY <1>0, <1>3, BooksFail
<1>4. ASSUME NEW e \in Edge, NEW unchanged \in SUBSET outs[e], Succeeded(e, unchanged)
      PROVE  DyndepBooks'
  BY <1>4, BooksSucceed
<1>5. ASSUME NEW n \in Node, LoadDyndeps(n)  PROVE DyndepBooks'
  BY <1>5, BooksSame DEF LoadDyndeps, history
<1>6. ASSUME NEW n \in Node, DyndepsLoaded(n)  PROVE DyndepBooks'
  BY <1>0, <1>6, BooksTakeUp
<1>7. CASE UNCHANGED allPlanVars
  BY <1>7, BooksSame DEF allPlanVars, planVars, history
<1> QED
  BY <1>1, <1>2, <1>3, <1>4, <1>5, <1>6, <1>7 DEF DyndepNext

LEMMA DyndepBooksInvariant ==
    ASSUME InScope, PooledBelow
    PROVE  DyndepSpec => [](DyndepTypeOK /\ DyndepInv /\ DyndepOnce /\ DyndepBooks)
<1>1. DyndepInit => DyndepOnce /\ DyndepBooks
  BY OnceStarts, BlocksInit, CountedInit, PoolsInit DEF DyndepInit, DyndepBooks
<1>2. DyndepTypeOK /\ DyndepInv /\ DyndepOnce /\ [DyndepNext]_allPlanVars => DyndepOnce'
  BY OnceStep
<1>3. DyndepTypeOK /\ DyndepInv /\ DyndepOnce /\ DyndepBooks
        /\ [DyndepNext]_allPlanVars => DyndepBooks'
  BY DyndepBooksStep
<1> QED
  BY <1>1, <1>2, <1>3, DyndepInvariant, PTL DEF DyndepSpec

\* In scope, and with no initial edge in a pool: while files bring edges into the
\* plan each pool counts the edges that hold a place in it, never more than its
\* depth, and holds none back while it has room; the counters behind more_to_do are
\* right; and nothing that needs the outputs of a failed edge counts as done.
THEOREM DyndepKeepsBooks ==
    ASSUME InScope, PooledBelow
    PROVE  DyndepSpec => []BooksKept
<1>1. DyndepTypeOK /\ DyndepInv /\ DyndepBooks => BooksKept
  <2> SUFFICES ASSUME DyndepTypeOK, DyndepInv, DyndepBooks  PROVE BooksKept
    OBVIOUS
  <2>1. ASSUME NEW f \in failed, f \in oready  PROVE FALSE
    <3>1. f \in Edge /\ want[f] # "Absent"
      BY DEF DyndepBooks, FailedStay, Wanted
    <3> QED
      BY <2>1, <3>1 DEF DyndepInv, EntriesVisited
  <2>2. \A e \in oready : AllInputsReady(e, oready)
    BY DEF DyndepTypeOK, TypeOK, DyndepInv, ReadyBelow
  <2> QED
    BY <2>1, <2>2 DEF BooksKept, FailureBlocks, DyndepBooks
<1> QED
  BY <1>1, DyndepBooksInvariant, PTL

\* In scope, and with no initial edge in a pool, CleanNode withdraws no edge that has
\* been scheduled, and loading a file withdraws none at all.
THEOREM DyndepCleaningIsSafe ==
    ASSUME InScope, PooledBelow
    PROVE  DyndepSpec => CleanedNotHeld
<1>1. ASSUME DyndepTypeOK, DyndepInv, DyndepOnce, [DyndepNext]_allPlanVars
      PROVE  [\A e \in Withdrawn : Held(e) = 0]_planVars
  <2>0. TypeOK /\ GraphOK
    BY <1>1, GraphIsOK DEF DyndepTypeOK, DyndepInv, FilesFollowed
  <2>1. ASSUME Wanted(want) \subseteq Wanted(want')
        PROVE  \A e \in Withdrawn : Held(e) = 0
    BY <2>1 DEF Withdrawn
  <2>2. CASE PrepareQueue
    <3>1. PICK free : /\ \A f \in free : want[f] = "ToStart"
                      /\ want' = [f \in Edge |-> IF f \in free THEN "ToFinish" ELSE want[f]]
      BY <2>2 DEF PrepareQueue, InitialEdges
    <3> QED
      BY <2>1, <3>1 DEF Wanted
  <2>3. ASSUME NEW e \in Edge, FindWork(e)  PROVE Wanted(want) \subseteq Wanted(want')
    BY <2>3 DEF FindWork
  <2>4. ASSUME NEW e \in Edge, EdgeFailed(e)  PROVE Wanted(want) \subseteq Wanted(want')
    BY <2>4 DEF EdgeFailed
  <2>5. ASSUME NEW e \in Edge, NEW unchanged \in SUBSET outs[e], Succeeded(e, unchanged),
               NEW f \in Withdrawn
        PROVE  Held(f) = 0
    <3> DEFINE C == Cleaned(unchanged)
    <3>1. PICK T, passed, sched, pooled, N \in SUBSET Edge :
            LeavesAs(e, C, T, passed, sched, pooled, N)
      BY <1>1, <2>5, LeavesEffect
    <3> HIDE DEF C
    <3>2. f \in Edge /\ f \in Wanted(want) /\ f \notin Wanted(want') /\ running'[f] = running[f]
      BY DEF Withdrawn, Wanted
    <3>3. f # e
      BY <2>0, <3>1, <3>2 DEF LeavesAs, TypeOK
    <3>4. f \in C
      <4>1. f \notin C => WantAfter(e, C)[f] = want[f]
        BY <3>2, <3>3 DEF WantAfter
      <4>2. f \notin C => f \notin passed /\ want'[f] \in {"ToStart", "ToFinish"}
        BY <3>1, <3>2, <4>1 DEF LeavesAs, Wanted
      <4> QED
        BY <3>2, <4>2 DEF Wanted
    <3> QED
      BY <3>1, <3>4 DEF LeavesAs
  <2>6. ASSUME NEW n \in Node, LoadDyndeps(n)  PROVE Wanted(want) \subseteq Wanted(want')
    BY <2>6 DEF LoadDyndeps
  <2>7. ASSUME NEW n \in Node, DyndepsLoaded(n)
        PROVE  InScope => Wanted(want) \subseteq Wanted(want')
    <3> SUFFICES ASSUME InScope  PROVE Wanted(want) \subseteq Wanted(want')
      OBVIOUS
    <3>1. PICK w : \E passed, sched, pooled, N \in SUBSET Edge :
            EntersAs(w, passed, sched, pooled, N)
      BY <1>1, <2>0, <2>7, EntersEffect
    <3> QED
      BY <3>1 DEF EntersAs, Wanted
  <2>8. CASE UNCHANGED allPlanVars
    BY <2>8 DEF allPlanVars
  <2> QED
    BY <1>1, <2>1, <2>2, <2>3, <2>4, <2>5, <2>6, <2>7, <2>8 DEF DyndepNext
<1> QED
  BY <1>1, DyndepBooksInvariant, PTL DEF DyndepSpec, CleanedNotHeld
=============================================================================
