------------------------------- MODULE LogProofs -------------------------------
(***************************************************************************)
(* Proofs about the two logs (module Logs): for any number of ninja        *)
(* processes, nodes, edges, records and starts.  First what Load makes of  *)
(* a record that is appended, then what Recompact writes, then the deps    *)
(* log's invariant; then the same for the lines of the build log.          *)
(***************************************************************************)
EXTENDS Logs, SequenceFacts

-----------------------------------------------------------------------------
(***************************************************************************)
(* The deps log: the invariant.                                            *)
(***************************************************************************)
Record == {D!Header, D!Torn} \cup [kind : {"path"}, node : Node, id : Nat]
             \cup [kind : {"deps"}, out : Nat, mtime : Nat, ids : Seq(Nat)]

Entry == [mtime : Nat, deps : Seq(Node)]

Size(f) == Cardinality(D!Paths(f))

\* Each id below the number of path records is that of one of them.
Ranked(f) ==
    /\ \A i \in D!Paths(f) : D!NextId(f, i) < Size(f)
    /\ \A i, j \in D!Paths(f) : D!NextId(f, i) = D!NextId(f, j) => i = j
    /\ \A k \in 1 .. Size(f) : \E i \in D!Paths(f) : D!NextId(f, i) = k - 1

Distinct(s) == \A i, j \in DOMAIN s : s[i] = s[j] => i = j

\* What Load takes whole: no node has two ids, and no record names an id that no
\* path record gave.
Sound(f) ==
    /\ f \in Seq(Record) /\ f # <<>> /\ f[1] = D!Header
    /\ \A i \in 2 .. Len(f) : D!Readable(f, i)
    /\ Ranked(f)
    /\ D!NodesIn(f) \in Seq(Node) /\ Len(D!NodesIn(f)) = Size(f) /\ Distinct(D!NodesIn(f))
    /\ \A i \in DOMAIN f : f[i].kind = "deps" =>
         f[i].out < Size(f) /\ \A j \in DOMAIN f[i].ids : f[i].ids[j] < Size(f)

\* What Load makes of a file.
Whole(f)     == D!Good(f) = f
DiskNodes(f) == D!NodesIn(D!Good(f))
DiskDeps(f)  == D!DepsIn(D!Good(f), DiskNodes(f))

\* Every entry of the log f is one of those given for its node, and which one.
MadeOf(gv, f) ==
    \A id \in DOMAIN DiskDeps(f) : /\ id \in Nat /\ id + 1 \in 1 .. Len(DiskNodes(f))
                                   /\ DiskDeps(f)[id] \in ToSet(gv[DiskNodes(f)[id + 1]])

HeldOf(gv, f) ==
    [n \in Node |-> LET d == D!GetDeps(DiskNodes(f), DiskDeps(f), n)
                    IN  IF d = D!NoRecord THEN 0 ELSE IF d \in ToSet(gv[n]) THEN d.mtime ELSE -1]

\* A log that Load may find: its good part, with a header, is sound.
OnDisk(gv, f) == f \in Seq(Record) /\ Sound(D!Opened(D!Good(f))) /\ MadeOf(gv, f)

\* The file that the next build would find.
Unlinked  == \E p \in Process : dpc[p] = "unlinked"
Effective == IF Unlinked THEN dtemp ELSE file

Prefix(s, t) == Len(s) <= Len(t) /\ \A i \in 1 .. Len(s) : s[i] = t[i]

DepsTyped ==
    /\ dtemp \in Seq(Record)
    /\ dpc \in [Process -> {"off", "idle", "record", "compact", "unlinked"}]
    /\ nodes \in [Process -> Seq(Node)] /\ deps = [p \in Process |-> deps[p]]
    /\ opened \in [Process -> BOOLEAN] /\ alone \in [Process -> BOOLEAN]
    /\ dtodo = [p \in Process |-> dtodo[p]]
    /\ dwrote \in [Process -> SUBSET Node]
    /\ dgiven \in [Node -> Seq(Entry)]

\* The records given for a node are numbered; what the log holds comes from them.
DiskRight ==
    /\ OnDisk(dgiven, file)
    /\ \A n \in Node : \A i \in DOMAIN dgiven[n] : dgiven[n][i].mtime = i
    /\ dheld = HeldOf(dgiven, Effective)

\* A process is recording the newest entry of its output, alone among the processes.
TodoRight(p) ==
    dpc[p] = "record" =>
        /\ dtodo[p].out \in Node /\ dgiven[dtodo[p].out] # <<>>
        /\ dtodo[p].rec = dgiven[dtodo[p].out][Len(dgiven[dtodo[p].out])]
        /\ \A q \in Process \ {p} : dpc[q] = "record" => dtodo[q].out # dtodo[p].out

AloneRight(p) ==
    /\ dpc[p] # "off" /\ alone[p] => D!Others(p) = {}
    /\ dpc[p] \in {"compact", "unlinked"} => alone[p] /\ ~opened[p]

\* The ids a process has in memory are those on disk, or the first of them when
\* another process has written since; unless the ids on disk no longer fit.
MemoryRight(p) ==
    dpc[p] \in {"idle", "record"} =>
        /\ Whole(file) => Prefix(nodes[p], DiskNodes(file))
        /\ alone[p] => Whole(file) /\ nodes[p] = DiskNodes(file) /\ deps[p] = DiskDeps(file)

\* The log that is to take the place of the old one holds no more than that one.
CompactRight(p) ==
    dpc[p] \in {"compact", "unlinked"} =>
        /\ Sound(dtemp) /\ nodes[p] = DiskNodes(dtemp) /\ deps[p] = DiskDeps(dtemp)
        /\ MadeOf(dgiven, dtemp)
        /\ \A n \in Node : HeldOf(dgiven, dtemp)[n] \in {0, dheld[n]}
        /\ dpc[p] = "unlinked" => file = D!Absent

WroteRight(p) ==
    dpc[p] # "off" =>
        /\ ~opened[p] => dwrote[p] = {}
        /\ alone[p] => \A n \in dwrote[p] : \/ dpc[p] = "record" /\ dtodo[p].out = n
                                            \/ dheld[n] = Len(dgiven[n])

ProcessRight(p) == /\ TodoRight(p) /\ AloneRight(p) /\ MemoryRight(p)
                   /\ CompactRight(p) /\ WroteRight(p)

DepsInv == DepsTyped /\ DiskRight /\ \A p \in Process : ProcessRight(p)

-----------------------------------------------------------------------------
(***************************************************************************)
(* What Load makes of a record that is appended to a file.                 *)
(***************************************************************************)
LEMMA Kinds ==
    ASSUME NEW r \in Record
    PROVE  /\ r.kind = "path" => r.node \in Node /\ r.id \in Nat
           /\ r.kind = "deps" => r.out \in Nat /\ r.mtime \in Nat /\ r.ids \in Seq(Nat)
  BY DEF Record, D!Header, D!Torn

\* What DepsLog and BuildLog have from FiniteSets and SequencesExt is what is there.
LEMMA Counted == \A S : D!Cardinality(S) = Cardinality(S)
<1> SUFFICES ASSUME NEW S  PROVE D!Cardinality(S) = Cardinality(S)
  OBVIOUS
<1> QED
  BY DEF D!Cardinality, Cardinality

LEMMA Collected == \A s : D!ToSet(s) = ToSet(s) /\ B!ToSet(s) = ToSet(s)
  BY DEF D!ToSet, B!ToSet, ToSet

LEMMA Elements ==
    ASSUME NEW S, NEW s \in Seq(S)
    PROVE  /\ DOMAIN s = 1 .. Len(s) /\ Len(s) \in Nat /\ \A i \in 1 .. Len(s) : s[i] \in S
  OBVIOUS

LEMMA Appended ==
    ASSUME NEW S, NEW s \in Seq(S), NEW x \in S
    PROVE  /\ Append(s, x) \in Seq(S) /\ Len(Append(s, x)) = Len(s) + 1
           /\ DOMAIN Append(s, x) = 1 .. Len(s) + 1
           /\ \A i \in 1 .. Len(s) : Append(s, x)[i] = s[i]
           /\ Append(s, x)[Len(s) + 1] = x
  BY AppendProperties

LEMMA SameSeq ==
    ASSUME NEW S, NEW s \in Seq(S), NEW t \in Seq(S), Len(s) = Len(t),
           \A i \in 1 .. Len(s) : s[i] = t[i]
    PROVE  s = t
  OBVIOUS

LEMMA PathsFinite ==
    ASSUME NEW f \in Seq(Record)
    PROVE  /\ D!Paths(f) \subseteq 1 .. Len(f) /\ IsFiniteSet(D!Paths(f)) /\ Size(f) \in Nat
           /\ \A i : IsFiniteSet({j \in D!Paths(f) : j < i}) /\ D!NextId(f, i) \in Nat
<1>1. D!Paths(f) \subseteq 1 .. Len(f) /\ Len(f) \in Nat
  BY Elements DEF D!Paths
<1>2. IsFiniteSet(1 .. Len(f))
  BY <1>1, FS_Interval
<1>3. IsFiniteSet(D!Paths(f))
  BY <1>1, <1>2, FS_Subset
<1>4. ASSUME NEW i
      PROVE  IsFiniteSet({j \in D!Paths(f) : j < i}) /\ D!NextId(f, i) \in Nat
  <2>1. IsFiniteSet({j \in D!Paths(f) : j < i})
    BY <1>3, FS_Subset
  <2> QED
    BY <2>1, Counted, FS_CardinalityType DEF D!NextId
<1>5. Size(f) \in Nat
  BY <1>3, FS_CardinalityType DEF Size
<1> QED
  BY <1>1, <1>3, <1>4, <1>5

LEMMA AppendPaths ==
    ASSUME NEW f \in Seq(Record), NEW r \in Record
    PROVE  /\ D!Paths(Append(f, r)) = IF r.kind = "path" THEN D!Paths(f) \cup {Len(f) + 1} ELSE D!Paths(f)
           /\ Size(Append(f, r)) = IF r.kind = "path" THEN Size(f) + 1 ELSE Size(f)
           /\ \A i \in 1 .. Len(f) : D!NextId(Append(f, r), i) = D!NextId(f, i)
           /\ D!NextId(Append(f, r), Len(f) + 1) = Size(f)
<1> DEFINE g == Append(f, r)
<1>1. /\ g \in Seq(Record) /\ DOMAIN g = 1 .. Len(f) + 1 /\ g[Len(f) + 1] = r
      /\ \A i \in 1 .. Len(f) : g[i] = f[i]
  BY Appended
<1>2. DOMAIN f = 1 .. Len(f) /\ Len(f) \in Nat
  BY Elements
<1>3. D!Paths(f) \subseteq 1 .. Len(f) /\ IsFiniteSet(D!Paths(f)) /\ Size(f) \in Nat
  BY PathsFinite
<1> HIDE DEF g
<1>4. D!Paths(g) = IF r.kind = "path" THEN D!Paths(f) \cup {Len(f) + 1} ELSE D!Paths(f)
  BY <1>1, <1>2 DEF D!Paths
<1>5. Size(g) = IF r.kind = "path" THEN Size(f) + 1 ELSE Size(f)
  <2>1. Len(f) + 1 \notin D!Paths(f)
    BY <1>2, <1>3
  <2>2. Cardinality(D!Paths(f) \cup {Len(f) + 1}) = Cardinality(D!Paths(f)) + 1
    BY <1>3, <2>1, FS_AddElement
  <2> QED
    BY <1>4, <2>2 DEF Size
<1>6. ASSUME NEW i \in 1 .. Len(f)  PROVE D!NextId(g, i) = D!NextId(f, i)
  <2>1. {j \in D!Paths(g) : j < i} = {j \in D!Paths(f) : j < i}
    BY <1>2, <1>4
  <2> QED
    BY <2>1 DEF D!NextId
<1>7. D!NextId(g, Len(f) + 1) = Size(f)
  <2>1. {j \in D!Paths(g) : j < Len(f) + 1} = D!Paths(f)
    BY <1>2, <1>3, <1>4
  <2>2. D!NextId(g, Len(f) + 1) = Cardinality({j \in D!Paths(g) : j < Len(f) + 1})
    BY Counted DEF D!NextId
  <2> QED
    BY <2>1, <2>2 DEF Size
<1> QED
  BY <1>4, <1>5, <1>6, <1>7 DEF g

\* Which record has the id k - 1, when the ids are those of the records.
LEMMA TheRecord ==
    ASSUME NEW f, Ranked(f), NEW k, NEW i \in D!Paths(f), D!NextId(f, i) = k - 1
    PROVE  (CHOOSE j \in D!Paths(f) : D!NextId(f, j) = k - 1) = i
  BY DEF Ranked

LEMMA AppendRanked ==
    ASSUME NEW f \in Seq(Record), NEW r \in Record, Ranked(f)
    PROVE  Ranked(Append(f, r))
<1> DEFINE g == Append(f, r)
           n == Len(f) + 1
<1>1. /\ D!Paths(g) = IF r.kind = "path" THEN D!Paths(f) \cup {n} ELSE D!Paths(f)
      /\ Size(g) = IF r.kind = "path" THEN Size(f) + 1 ELSE Size(f)
      /\ \A i \in 1 .. Len(f) : D!NextId(g, i) = D!NextId(f, i)
      /\ D!NextId(g, n) = Size(f)
  BY AppendPaths
<1>2. D!Paths(f) \subseteq 1 .. Len(f) /\ Size(f) \in Nat /\ \A i : D!NextId(f, i) \in Nat
  BY PathsFinite
<1> HIDE DEF g, n
<1>3. \A i \in D!Paths(f) : D!NextId(g, i) = D!NextId(f, i) /\ D!NextId(f, i) < Size(f)
  BY <1>1, <1>2 DEF Ranked
<1>4. \A i \in D!Paths(g) : (i = n /\ r.kind = "path") \/ i \in D!Paths(f)
  BY <1>1
<1>5. \A i \in D!Paths(g) : D!NextId(g, i) < Size(g)
  BY <1>1, <1>2, <1>3, <1>4
<1>6. ASSUME NEW i \in D!Paths(g), NEW j \in D!Paths(g), D!NextId(g, i) = D!NextId(g, j)  PROVE i = j
  BY <1>1, <1>2, <1>3, <1>4, <1>6 DEF Ranked
<1>7. ASSUME NEW k \in 1 .. Size(g)  PROVE \E i \in D!Paths(g) : D!NextId(g, i) = k - 1
  <2>1. CASE k \in 1 .. Size(f)
    <3>1. PICK i \in D!Paths(f) : D!NextId(f, i) = k - 1
      BY <2>1 DEF Ranked
    <3> QED
      BY <1>1, <1>3, <3>1
  <2>2. CASE r.kind = "path" /\ k = Size(f) + 1
    BY <1>1, <1>2, <2>2
  <2> QED
    BY <1>1, <1>2, <2>1, <2>2
<1>8. Ranked(g)
  BY <1>5, <1>6, <1>7 DEF Ranked
<1> QED
  BY <1>8 DEF g

LEMMA AppendNodes ==
    ASSUME NEW f \in Seq(Record), NEW r \in Record, Ranked(f),
           D!NodesIn(f) \in Seq(Node), Len(D!NodesIn(f)) = Size(f)
    PROVE  D!NodesIn(Append(f, r)) = IF r.kind = "path" THEN Append(D!NodesIn(f), r.node) ELSE D!NodesIn(f)
<1> DEFINE g == Append(f, r)
           n == Len(f) + 1
           At(h, k) == CHOOSE j \in D!Paths(h) : D!NextId(h, j) = k - 1
<1>1. /\ D!Paths(g) = IF r.kind = "path" THEN D!Paths(f) \cup {n} ELSE D!Paths(f)
      /\ Size(g) = IF r.kind = "path" THEN Size(f) + 1 ELSE Size(f)
      /\ \A i \in 1 .. Len(f) : D!NextId(g, i) = D!NextId(f, i)
      /\ D!NextId(g, n) = Size(f)
  BY AppendPaths
<1>2. D!Paths(f) \subseteq 1 .. Len(f) /\ Size(f) \in Nat /\ \A i : D!NextId(f, i) \in Nat
  BY PathsFinite
<1>3. Ranked(g)
  BY AppendRanked
<1>4. g[n] = r /\ \A i \in 1 .. Len(f) : g[i] = f[i]
  BY Appended
<1>5. r.kind = "path" => r.node \in Node
  BY Kinds
<1> HIDE DEF g, n
<1>6. ASSUME NEW k \in 1 .. Size(f)  PROVE g[At(g, k)] = f[At(f, k)]
  <2>1. PICK i \in D!Paths(f) : D!NextId(f, i) = k - 1
    BY DEF Ranked
  <2>2. i \in D!Paths(g) /\ D!NextId(g, i) = k - 1
    BY <1>1, <1>2, <2>1
  <2>3. At(f, k) = i
    BY <2>1, TheRecord
  <2>4. At(g, k) = i
    BY <1>3, <2>2, TheRecord
  <2> QED
    BY <1>2, <1>4, <2>3, <2>4
<1>7. ASSUME r.kind = "path"  PROVE g[At(g, Size(f) + 1)] = r
  <2>1. n \in D!Paths(g) /\ D!NextId(g, n) = (Size(f) + 1) - 1
    BY <1>1, <1>2, <1>7
  <2>2. At(g, Size(f) + 1) = n
    BY <1>3, <2>1, TheRecord
  <2> QED
    BY <1>4, <2>2
<1> DEFINE ns == D!NodesIn(f)
           ms == D!NodesIn(g)
<1>9. /\ ns = [k \in 1 .. Size(f) |-> f[At(f, k)].node]
      /\ ms = [k \in 1 .. Size(g) |-> g[At(g, k)].node]
  BY Counted DEF D!NodesIn, Size
<1> HIDE DEF At, ns, ms
<1>10. \A k \in 1 .. Size(f) : ns[k] = g[At(g, k)].node
  BY <1>6, <1>9
<1>11. CASE r.kind = "path"
  <2>1. \A k \in 1 .. Size(f) + 1 : Append(ns, r.node)[k] = g[At(g, k)].node
    <3>1. ns \in Seq(Node) /\ Len(ns) = Size(f)
      BY DEF ns
    <3>2. /\ \A k \in 1 .. Size(f) : Append(ns, r.node)[k] = ns[k]
          /\ Append(ns, r.node)[Size(f) + 1] = r.node
      BY <1>5, <1>11, <3>1, Appended
    <3>3. ASSUME NEW k \in 1 .. Size(f) + 1  PROVE Append(ns, r.node)[k] = g[At(g, k)].node
      <4>1. CASE k = Size(f) + 1
        BY <1>7, <1>11, <3>2, <4>1
      <4>2. CASE k \in 1 .. Size(f)
        BY <1>10, <3>2, <4>2
      <4>3. k = Size(f) + 1 \/ k \in 1 .. Size(f)
        BY <1>2
      <4> QED
        BY <4>1, <4>2, <4>3
    <3> QED
      BY <3>3
  <2>2. /\ Append(ns, r.node) \in Seq(Node) /\ DOMAIN Append(ns, r.node) = 1 .. Size(f) + 1
    BY <1>5, <1>11, Appended DEF ns
  <2>3. Append(ns, r.node) = [k \in 1 .. Size(f) + 1 |-> Append(ns, r.node)[k]]
    BY <2>2
  <2>4. Append(ns, r.node) = ms
    BY <1>1, <1>9, <1>11, <2>1, <2>3
  <2> QED
    BY <1>11, <2>4 DEF ns, ms, g
<1>12. CASE r.kind # "path"
  <2>1. ns = ms
    BY <1>1, <1>9, <1>10, <1>12
  <2> QED
    BY <1>12, <2>1 DEF ns, ms, g
<1> QED
  BY <1>11, <1>12

-----------------------------------------------------------------------------
\* The deps record that counts for an id, and what it says.
DepIds(f)      == {f[i].out : i \in {j \in DOMAIN f : f[j].kind = "deps"}}
Newest(f, id, i) == /\ i \in DOMAIN f /\ D!IsDepsFor(f, i, id)
                  /\ \A j \in i + 1 .. Len(f) : ~D!IsDepsFor(f, j, id)
LastAt(f, id)  == CHOOSE i \in DOMAIN f : /\ D!IsDepsFor(f, i, id)
                                         /\ \A j \in i + 1 .. Len(f) : ~D!IsDepsFor(f, j, id)
Saying(r, ns)  == [mtime |-> r.mtime, deps |-> [i \in DOMAIN r.ids |-> ns[r.ids[i] + 1]]]

LEMMA DepsInIs ==
    ASSUME NEW f, NEW ns
    PROVE  D!DepsIn(f, ns) = [id \in DepIds(f) |-> Saying(f[LastAt(f, id)], ns)]
  BY DEF D!DepsIn, DepIds, LastAt, Saying

LEMMA Latest ==
    ASSUME NEW n \in Nat, NEW T, T \subseteq 1 .. n, T # {}
    PROVE  \E m \in T : \A k \in T : k <= m
<1> DEFINE U == {n - k : k \in T}
<1>1. U \subseteq Nat /\ U # {}
  <2>1. \A k \in T : n - k \in Nat
    OBVIOUS
  <2> QED
    BY <2>1
<1>2. PICK u \in U : \A v \in U : u <= v
  <2> HIDE DEF U
  <2> QED
    BY <1>1, Smallest
<1>3. PICK m \in T : u = n - m
  BY <1>2
<1>4. ASSUME NEW k \in T  PROVE k <= m
  <2>1. n - k \in U
    OBVIOUS
  <2> QED
    BY <1>2, <1>3, <2>1
<1> QED
  BY <1>4

LEMMA LastExists ==
    ASSUME NEW f \in Seq(Record), NEW id \in DepIds(f)
    PROVE  \E i : Newest(f, id, i)
<1> DEFINE T == {j \in DOMAIN f : D!IsDepsFor(f, j, id)}
<1>1. DOMAIN f = 1 .. Len(f) /\ Len(f) \in Nat
  BY Elements
<1>2. T \subseteq 1 .. Len(f) /\ T # {}
  BY <1>1 DEF DepIds, D!IsDepsFor
<1>3. PICK m \in T : \A k \in T : k <= m
  <2> HIDE DEF T
  <2> QED
    BY <1>1, <1>2, Latest
<1>4. ASSUME NEW j \in m + 1 .. Len(f)  PROVE ~D!IsDepsFor(f, j, id)
  <2>1. j \in DOMAIN f /\ ~(j <= m)
    BY <1>1, <1>2
  <2> QED
    BY <1>3, <2>1
<1> QED
  BY <1>3, <1>4 DEF Newest

LEMMA LastIs ==
    ASSUME NEW f \in Seq(Record), NEW id, NEW i, Newest(f, id, i)
    PROVE  LastAt(f, id) = i
<1>1. DOMAIN f = 1 .. Len(f) /\ Len(f) \in Nat
  BY Elements
<1>2. ASSUME NEW j, Newest(f, id, j)  PROVE j = i
  BY <1>1, <1>2 DEF Newest
<1>3. Newest(f, id, LastAt(f, id))
  BY DEF Newest, LastAt
<1> QED
  BY <1>2, <1>3

LEMMA LastIn ==
    ASSUME NEW f \in Seq(Record), NEW id \in DepIds(f)
    PROVE  Newest(f, id, LastAt(f, id))
  BY LastExists, LastIs

LEMMA AppendDepIds ==
    ASSUME NEW f \in Seq(Record), NEW r \in Record
    PROVE  DepIds(Append(f, r)) = IF r.kind = "deps" THEN DepIds(f) \cup {r.out} ELSE DepIds(f)
<1> DEFINE g == Append(f, r)
<1>1. /\ DOMAIN g = 1 .. Len(f) + 1 /\ g[Len(f) + 1] = r
      /\ \A i \in 1 .. Len(f) : g[i] = f[i]
      /\ DOMAIN f = 1 .. Len(f) /\ Len(f) \in Nat
  BY Appended, Elements
<1> HIDE DEF g
<1>2. \A x : x \in DepIds(g) <=> \E i \in 1 .. Len(f) + 1 : g[i].kind = "deps" /\ x = g[i].out
  BY <1>1 DEF DepIds
<1>3. \A x : x \in DepIds(f) <=> \E i \in 1 .. Len(f) : f[i].kind = "deps" /\ x = f[i].out
  BY <1>1 DEF DepIds
<1>4. ASSUME NEW x  PROVE x \in DepIds(g) <=> x \in DepIds(f) \/ (r.kind = "deps" /\ x = r.out)
  <2>1. ASSUME x \in DepIds(g)  PROVE x \in DepIds(f) \/ (r.kind = "deps" /\ x = r.out)
    <3>1. PICK i \in 1 .. Len(f) + 1 : g[i].kind = "deps" /\ x = g[i].out
      BY <1>2, <2>1
    <3>2. i = Len(f) + 1 \/ i \in 1 .. Len(f)
      BY <1>1
    <3> QED
      BY <1>1, <1>3, <3>1, <3>2
  <2>2. ASSUME x \in DepIds(f)  PROVE x \in DepIds(g)
    <3>1. PICK i \in 1 .. Len(f) : f[i].kind = "deps" /\ x = f[i].out
      BY <1>3, <2>2
    <3>2. i \in 1 .. Len(f) + 1 /\ g[i] = f[i]
      BY <1>1
    <3> QED
      BY <1>2, <3>1, <3>2
  <2>3. ASSUME r.kind = "deps" /\ x = r.out  PROVE x \in DepIds(g)
    <3>1. Len(f) + 1 \in 1 .. Len(f) + 1
      BY <1>1
    <3> QED
      BY <1>1, <1>2, <2>3, <3>1
  <2> QED
    BY <2>1, <2>2, <2>3
<1>5. DepIds(g) = IF r.kind = "deps" THEN DepIds(f) \cup {r.out} ELSE DepIds(f)
  BY <1>4
<1> QED
  BY <1>5 DEF g

LEMMA AppendLast ==
    ASSUME NEW f \in Seq(Record), NEW r \in Record, NEW id
    PROVE  /\ r.kind = "deps" /\ r.out = id => LastAt(Append(f, r), id) = Len(f) + 1
           /\ ~(r.kind = "deps" /\ r.out = id) /\ id \in DepIds(f) =>
                /\ LastAt(Append(f, r), id) = LastAt(f, id)
                /\ LastAt(f, id) \in 1 .. Len(f)
<1> DEFINE g == Append(f, r)
<1>1. /\ g \in Seq(Record) /\ Len(g) = Len(f) + 1
      /\ DOMAIN g = 1 .. Len(f) + 1 /\ g[Len(f) + 1] = r
      /\ \A i \in 1 .. Len(f) : g[i] = f[i]
      /\ DOMAIN f = 1 .. Len(f) /\ Len(f) \in Nat
  BY Appended, Elements
<1> HIDE DEF g
<1>2. ASSUME r.kind = "deps", r.out = id  PROVE LastAt(g, id) = Len(f) + 1
  <2>1. Newest(g, id, Len(f) + 1)
    BY <1>1, <1>2 DEF Newest, D!IsDepsFor
  <2> QED
    BY <1>1, <2>1, LastIs
<1>3. ASSUME ~(r.kind = "deps" /\ r.out = id), id \in DepIds(f)
      PROVE  LastAt(g, id) = LastAt(f, id) /\ LastAt(f, id) \in 1 .. Len(f)
  <2> DEFINE i == LastAt(f, id)
  <2>1. Newest(f, id, i)
    BY <1>3, LastIn
  <2> HIDE DEF i
  <2>2. i \in 1 .. Len(f)
    BY <1>1, <2>1 DEF Newest
  <2>3. D!IsDepsFor(g, i, id)
    BY <1>1, <2>1, <2>2 DEF Newest, D!IsDepsFor
  <2>4. ASSUME NEW j \in i + 1 .. Len(g)  PROVE ~D!IsDepsFor(g, j, id)
    <3>1. CASE j = Len(f) + 1
      BY <1>1, <1>3, <3>1 DEF D!IsDepsFor
    <3>2. CASE j \in i + 1 .. Len(f)
      <4>1. ~D!IsDepsFor(f, j, id) /\ g[j] = f[j]
        BY <1>1, <2>1, <2>2, <3>2 DEF Newest
      <4> QED
        BY <4>1 DEF D!IsDepsFor
    <3> QED
      BY <1>1, <2>2, <3>1, <3>2
  <2>5. Newest(g, id, i)
    BY <1>1, <2>2, <2>3, <2>4 DEF Newest
  <2> QED
    BY <1>1, <2>2, <2>5, LastIs DEF i
<1> QED
  BY <1>2, <1>3 DEF g

LEMMA IdIs ==
    ASSUME NEW ns \in Seq(Node), NEW n
    PROVE  \/ D!Id(ns, n) = -1 /\ \A i \in 1 .. Len(ns) : ns[i] # n
           \/ \E i \in 1 .. Len(ns) : ns[i] = n /\ D!Id(ns, n) = i - 1
<1>1. DOMAIN ns = 1 .. Len(ns)
  BY Elements
<1>2. CASE \E i \in DOMAIN ns : ns[i] = n
  <2> DEFINE i == CHOOSE i \in DOMAIN ns : ns[i] = n
  <2>1. i \in DOMAIN ns /\ ns[i] = n
    BY <1>2
  <2>2. D!Id(ns, n) = i - 1
    BY <1>2 DEF D!Id
  <2> QED
    BY <1>1, <2>1, <2>2
<1>3. CASE ~\E i \in DOMAIN ns : ns[i] = n
  BY <1>1, <1>3 DEF D!Id
<1> QED
  BY <1>2, <1>3

LEMMA IdAt ==
    ASSUME NEW ns \in Seq(Node), Distinct(ns), NEW i \in 1 .. Len(ns)
    PROVE  D!Id(ns, ns[i]) = i - 1
<1>1. DOMAIN ns = 1 .. Len(ns) /\ Len(ns) \in Nat
  BY Elements
<1> QED
  BY <1>1, IdIs DEF Distinct

\* A file with only its header, and no file, come to the same.
LEMMA SoundStart ==
    /\ Sound(<<D!Header>>)
    /\ D!NodesIn(<<D!Header>>) = <<>> /\ D!NodesIn(<<>>) = <<>>
    /\ DepIds(<<D!Header>>) = {} /\ DepIds(<<>>) = {}
    /\ D!DepsIn(<<D!Header>>, <<>>) = D!DepsIn(<<>>, <<>>)
    /\ Size(<<D!Header>>) = 0
<1> DEFINE f == <<D!Header>>
<1>1. f \in Seq(Record) /\ Len(f) = 1 /\ DOMAIN f = {1} /\ f[1] = D!Header
  BY DEF Record
<1>2. D!Header.kind = "header"
  BY DEF D!Header
<1> HIDE DEF f
<1>3. D!Paths(f) = {} /\ D!Paths(<<>>) = {}
  BY <1>1, <1>2 DEF D!Paths
<1>4. Size(f) = 0 /\ Size(<<>>) = 0
  BY <1>3, FS_EmptySet DEF Size
<1>5. ASSUME NEW g, Size(g) = 0  PROVE D!NodesIn(g) = <<>>
  <2>1. D!Cardinality(D!Paths(g)) = 0
    BY <1>5, Counted DEF Size
  <2>2. 1 .. 0 = {}
    OBVIOUS
  <2> QED
    BY <2>1, <2>2 DEF D!NodesIn
<1>6. D!NodesIn(f) = <<>> /\ D!NodesIn(<<>>) = <<>>
  BY <1>4, <1>5
<1>7. DepIds(f) = {} /\ DepIds(<<>>) = {}
  BY <1>1, <1>2 DEF DepIds
<1>8. D!DepsIn(f, <<>>) = D!DepsIn(<<>>, <<>>)
  BY <1>7, DepsInIs
<1>9. Ranked(f)
  BY <1>3, <1>4 DEF Ranked
<1>10. Sound(f)
  <2>1. <<>> \in Seq(Node) /\ Len(<<>>) = 0 /\ Distinct(<<>>)
    BY DEF Distinct
  <2>2. f # <<>>
    BY <1>1
  <2>3. \A i \in DOMAIN f : f[i].kind # "deps"
    BY <1>1, <1>2
  <2>4. \A i \in 2 .. Len(f) : FALSE
    BY <1>1
  <2> QED
    BY <1>1, <1>4, <1>6, <1>9, <2>1, <2>2, <2>3, <2>4 DEF Sound
<1> QED
  BY <1>4, <1>6, <1>7, <1>8, <1>10 DEF f

\* A path record for a node that has none, with the next id.
LEMMA SoundPath ==
    ASSUME NEW f, Sound(f), NEW n \in Node, D!Id(D!NodesIn(f), n) = -1
    PROVE  LET g == Append(f, D!PathRec(n, Len(D!NodesIn(f))))
           IN  /\ Sound(g) /\ D!NodesIn(g) = Append(D!NodesIn(f), n)
               /\ D!DepsIn(g, D!NodesIn(g)) = D!DepsIn(f, D!NodesIn(f))
<1> DEFINE ns == D!NodesIn(f)
           r == D!PathRec(n, Len(ns))
           g == Append(f, r)
<1>1. /\ f \in Seq(Record) /\ f # <<>> /\ f[1] = D!Header /\ Ranked(f)
      /\ ns \in Seq(Node) /\ Len(ns) = Size(f) /\ Distinct(ns) /\ Size(f) \in Nat
  BY PathsFinite DEF Sound
<1>2. r \in Record /\ r.kind = "path" /\ r.node = n /\ r.id = Size(f)
  BY <1>1 DEF Record, D!PathRec
<1> HIDE DEF r, ns
<1>3. /\ g \in Seq(Record) /\ Len(g) = Len(f) + 1
      /\ DOMAIN g = 1 .. Len(f) + 1 /\ g[Len(f) + 1] = r
      /\ \A i \in 1 .. Len(f) : g[i] = f[i]
      /\ DOMAIN f = 1 .. Len(f) /\ Len(f) \in Nat
  BY <1>1, <1>2, Appended, Elements
<1>4. /\ Size(g) = Size(f) + 1 /\ \A i \in 1 .. Len(f) : D!NextId(g, i) = D!NextId(f, i)
      /\ D!NextId(g, Len(f) + 1) = Size(f)
  BY <1>1, <1>2, AppendPaths
<1>5. Ranked(g)
  BY <1>1, <1>2, AppendRanked
<1>6. D!NodesIn(g) = Append(ns, n)
  BY <1>1, <1>2, AppendNodes DEF ns
<1>7. Len(f) \in Nat \ {0}
  BY <1>1, <1>3, EmptySeq
<1> HIDE DEF g
<1>8. ASSUME NEW i \in 2 .. Len(g)  PROVE D!Readable(g, i)
  <2>1. CASE i = Len(f) + 1
    BY <1>2, <1>3, <1>4, <2>1 DEF D!Readable
  <2>2. CASE i \in 2 .. Len(f)
    <3>1. D!Readable(f, i) /\ g[i] = f[i] /\ D!NextId(g, i) = D!NextId(f, i)
      BY <1>3, <1>4, <2>2 DEF Sound
    <3> QED
      BY <3>1 DEF D!Readable
  <2> QED
    BY <1>3, <2>1, <2>2
<1> DEFINE ms == Append(ns, n)
<1>9. /\ ms \in Seq(Node) /\ Len(ms) = Size(f) + 1 /\ DOMAIN ms = 1 .. Size(f) + 1
      /\ \A i \in 1 .. Size(f) : ms[i] = ns[i]
      /\ ms[Size(f) + 1] = n
  BY <1>1, Appended
<1>10. \A i \in 1 .. Size(f) : ns[i] # n
  BY <1>1, IdIs DEF ns
<1> HIDE DEF ms
<1>11. Distinct(ms)
  <2>1. DOMAIN ns = 1 .. Size(f)
    BY <1>1, Elements
  <2> SUFFICES ASSUME NEW i \in DOMAIN ms, NEW j \in DOMAIN ms, ms[i] = ms[j]  PROVE i = j
    BY DEF Distinct
  <2>2. \A k \in DOMAIN ms : k = Size(f) + 1 \/ k \in 1 .. Size(f)
    BY <1>1, <1>9
  <2> QED
    BY <1>1, <1>9, <1>10, <2>1, <2>2 DEF Distinct
<1>12. ASSUME NEW i \in DOMAIN g, g[i].kind = "deps"
       PROVE  /\ i \in 1 .. Len(f) /\ g[i] = f[i] /\ f[i] \in Record /\ f[i].out < Size(f)
              /\ \A j \in DOMAIN f[i].ids : f[i].ids[j] < Size(f)
  <2>1. i \in 1 .. Len(f)
    BY <1>2, <1>3, <1>12
  <2>2. g[i] = f[i] /\ f[i] \in Record
    BY <1>1, <1>3, <2>1
  <2>3. f[i].kind = "deps"
    BY <1>12, <2>2
  <2> QED
    BY <1>3, <2>1, <2>2, <2>3 DEF Sound
<1>13. ASSUME NEW i \in DOMAIN g, g[i].kind = "deps"
       PROVE  g[i].out < Size(g) /\ \A j \in DOMAIN g[i].ids : g[i].ids[j] < Size(g)
  <2>1. /\ g[i] = f[i] /\ f[i] \in Record /\ f[i].out < Size(f)
        /\ \A j \in DOMAIN f[i].ids : f[i].ids[j] < Size(f)
    BY <1>12, <1>13
  <2>2. f[i].out \in Nat /\ f[i].ids \in Seq(Nat)
    BY <1>13, <2>1, Kinds
  <2>3. \A j \in DOMAIN f[i].ids : f[i].ids[j] \in Nat
    BY <2>2
  <2> QED
    BY <1>1, <1>4, <2>1, <2>2, <2>3
<1>14. Sound(g)
  <2>1. g # <<>> /\ g[1] = D!Header
    BY <1>1, <1>3, <1>7, EmptySeq
  <2>2. D!NodesIn(g) = ms
    BY <1>6 DEF ms
  <2> QED
    BY <1>3, <1>4, <1>5, <1>8, <1>9, <1>11, <1>13, <2>1, <2>2 DEF Sound
<1>15. D!DepsIn(g, ms) = D!DepsIn(f, ns)
  <2>1. DepIds(g) = DepIds(f)
    BY <1>1, <1>2, AppendDepIds DEF g
  <2>2. ASSUME NEW x \in DepIds(f)
        PROVE  Saying(g[LastAt(g, x)], ms) = Saying(f[LastAt(f, x)], ns)
    <3> DEFINE i == LastAt(f, x)
               q == f[i]
    <3>1. LastAt(g, x) = i /\ i \in 1 .. Len(f)
      BY <1>1, <1>2, AppendLast DEF g
    <3>2. q.kind = "deps"
      BY <1>1, LastIn DEF Newest, D!IsDepsFor
    <3>3. g[i] = q /\ i \in DOMAIN g
      BY <1>3, <3>1
    <3> HIDE DEF i, q
    <3>4. q \in Record /\ \A j \in DOMAIN q.ids : q.ids[j] < Size(f)
      BY <1>12, <3>2, <3>3 DEF q
    <3>5. q.ids \in Seq(Nat)
      BY <3>2, <3>4, Kinds
    <3>6. \A j \in DOMAIN q.ids : ms[q.ids[j] + 1] = ns[q.ids[j] + 1]
      <4> SUFFICES ASSUME NEW j \in DOMAIN q.ids  PROVE ms[q.ids[j] + 1] = ns[q.ids[j] + 1]
        OBVIOUS
      <4>1. q.ids[j] \in Nat /\ q.ids[j] < Size(f)
        BY <3>4, <3>5
      <4>2. q.ids[j] + 1 \in 1 .. Size(f)
        BY <1>1, <4>1
      <4> QED
        BY <1>9, <4>2
    <3>7. Saying(q, ms) = Saying(q, ns)
      BY <3>6 DEF Saying
    <3> QED
      BY <3>1, <3>3, <3>7 DEF i, q
  <2> QED
    BY <2>1, <2>2, DepsInIs
<1> QED
  BY <1>6, <1>14, <1>15 DEF g, r, ms, ns

\* A deps record all of whose nodes have their ids.
LEMMA SoundDeps ==
    ASSUME NEW f, Sound(f), NEW o, NEW d \in Entry, D!Id(D!NodesIn(f), o) # -1,
           \A j \in DOMAIN d.deps : D!Id(D!NodesIn(f), d.deps[j]) # -1
    PROVE  LET ns == D!NodesIn(f)
               g  == Append(f, D!DepsRecFor(ns, o, d))
           IN  /\ Sound(g) /\ D!NodesIn(g) = ns
               /\ D!DepsIn(g, ns) = D!UpdateDeps(D!DepsIn(f, ns), D!Id(ns, o), d)
<1> DEFINE ns == D!NodesIn(f)
           r == D!DepsRecFor(ns, o, d)
           g == Append(f, r)
<1>1. /\ f \in Seq(Record) /\ f # <<>> /\ f[1] = D!Header /\ Ranked(f)
      /\ ns \in Seq(Node) /\ Len(ns) = Size(f) /\ Distinct(ns) /\ Size(f) \in Nat
  BY PathsFinite DEF Sound
<1>2. d.mtime \in Nat /\ d.deps \in Seq(Node) /\ d = [mtime |-> d.mtime, deps |-> d.deps]
  BY DEF Entry
<1> HIDE DEF ns
<1>3. \A n : D!Id(ns, n) # -1 =>
        /\ D!Id(ns, n) \in Nat /\ D!Id(ns, n) < Size(f) /\ ns[D!Id(ns, n) + 1] = n
  <2> SUFFICES ASSUME NEW n, D!Id(ns, n) # -1
               PROVE  D!Id(ns, n) \in Nat /\ D!Id(ns, n) < Size(f) /\ ns[D!Id(ns, n) + 1] = n
    OBVIOUS
  <2>1. PICK i \in 1 .. Len(ns) : ns[i] = n /\ D!Id(ns, n) = i - 1
    BY <1>1, IdIs
  <2> QED
    BY <1>1, <2>1
<1> DEFINE ids == [i \in DOMAIN d.deps |-> D!Id(ns, d.deps[i])]
<1>4. /\ ids \in Seq(Nat) /\ DOMAIN ids = DOMAIN d.deps
      /\ \A j \in DOMAIN ids : ids[j] < Size(f) /\ ns[ids[j] + 1] = d.deps[j]
  <2>1. DOMAIN d.deps = 1 .. Len(d.deps) /\ Len(d.deps) \in Nat
    BY <1>2, Elements
  <2>2. \A j \in DOMAIN d.deps : D!Id(ns, d.deps[j]) # -1
    BY DEF ns
  <2>3. \A j \in DOMAIN d.deps : ids[j] \in Nat /\ ids[j] < Size(f) /\ ns[ids[j] + 1] = d.deps[j]
    BY <1>3, <2>2
  <2>4. ids \in [1 .. Len(d.deps) -> Nat]
    BY <2>1, <2>3
  <2>5. ids \in Seq(Nat)
    BY <2>1, <2>4
  <2> QED
    BY <2>3, <2>5
<1>5. D!Id(ns, o) \in Nat /\ D!Id(ns, o) < Size(f)
  <2>1. D!Id(ns, o) # -1
    BY DEF ns
  <2> QED
    BY <1>3, <2>1
<1> HIDE DEF ids
<1>6. /\ r \in Record /\ r.kind = "deps" /\ r.out = D!Id(ns, o) /\ r.ids = ids
      /\ r.mtime = d.mtime
  <2>1. r = [kind |-> "deps", out |-> D!Id(ns, o), mtime |-> d.mtime, ids |-> ids]
    BY DEF D!DepsRecFor, D!DepsRec, ids
  <2> HIDE DEF r
  <2>2. r \in Record
    BY <1>2, <1>4, <1>5, <2>1 DEF Record
  <2> QED
    BY <2>1, <2>2
<1> HIDE DEF r
<1>7. Saying(r, ns) = d
  <2>1. [i \in DOMAIN ids |-> ns[ids[i] + 1]] = [i \in DOMAIN d.deps |-> d.deps[i]]
    BY <1>4
  <2>2. d.deps = [i \in DOMAIN d.deps |-> d.deps[i]]
    BY <1>2
  <2>3. Saying(r, ns) = [mtime |-> r.mtime, deps |-> [i \in DOMAIN r.ids |-> ns[r.ids[i] + 1]]]
    BY DEF Saying
  <2>4. Saying(r, ns) = [mtime |-> d.mtime, deps |-> d.deps]
    BY <1>6, <2>1, <2>2, <2>3
  <2> QED
    BY <1>2, <2>4
<1>8. /\ g \in Seq(Record) /\ Len(g) = Len(f) + 1
      /\ DOMAIN g = 1 .. Len(f) + 1 /\ g[Len(f) + 1] = r
      /\ \A i \in 1 .. Len(f) : g[i] = f[i]
      /\ DOMAIN f = 1 .. Len(f) /\ Len(f) \in Nat
  BY <1>1, <1>6, Appended, Elements
<1>9. /\ Size(g) = Size(f) /\ \A i \in 1 .. Len(f) : D!NextId(g, i) = D!NextId(f, i)
  BY <1>1, <1>6, AppendPaths
<1>10. Ranked(g)
  BY <1>1, <1>6, AppendRanked
<1>11. D!NodesIn(g) = ns
  BY <1>1, <1>6, AppendNodes DEF ns
<1>12. Len(f) \in Nat \ {0}
  BY <1>1, <1>8, EmptySeq
<1> HIDE DEF g
<1>13. ASSUME NEW i \in 2 .. Len(g)  PROVE D!Readable(g, i)
  <2>1. CASE i = Len(f) + 1
    BY <1>6, <1>8, <2>1 DEF D!Readable
  <2>2. CASE i \in 2 .. Len(f)
    <3>1. D!Readable(f, i) /\ g[i] = f[i] /\ D!NextId(g, i) = D!NextId(f, i)
      BY <1>8, <1>9, <2>2 DEF Sound
    <3> QED
      BY <3>1 DEF D!Readable
  <2> QED
    BY <1>8, <2>1, <2>2
<1>14. ASSUME NEW i \in DOMAIN g, g[i].kind = "deps"
       PROVE  g[i].out < Size(g) /\ \A j \in DOMAIN g[i].ids : g[i].ids[j] < Size(g)
  <2>1. CASE i = Len(f) + 1
    BY <1>4, <1>5, <1>6, <1>8, <1>9, <2>1
  <2>2. CASE i \in 1 .. Len(f)
    <3>1. i \in DOMAIN f /\ g[i] = f[i]
      BY <1>8, <2>2
    <3> QED
      BY <1>9, <1>14, <3>1 DEF Sound
  <2> QED
    BY <1>8, <2>1, <2>2
<1>15. Sound(g)
  <2>1. g # <<>> /\ g[1] = D!Header
    BY <1>1, <1>8, <1>12, EmptySeq
  <2> QED
    BY <1>1, <1>8, <1>9, <1>10, <1>11, <1>13, <1>14, <2>1 DEF Sound
<1>16. D!DepsIn(g, ns) = D!UpdateDeps(D!DepsIn(f, ns), D!Id(ns, o), d)
  <2> DEFINE id == D!Id(ns, o)
  <2>1. DepIds(g) = DepIds(f) \cup {id}
    BY <1>1, <1>6, AppendDepIds DEF g
  <2>2. Saying(g[LastAt(g, id)], ns) = d
    <3>1. LastAt(g, id) = Len(f) + 1
      BY <1>1, <1>6, AppendLast DEF g
    <3> QED
      BY <1>7, <1>8, <3>1
  <2> HIDE DEF id
  <2>3. ASSUME NEW x \in DepIds(f), x # id
        PROVE  Saying(g[LastAt(g, x)], ns) = Saying(f[LastAt(f, x)], ns)
    <3>1. LastAt(g, x) = LastAt(f, x) /\ LastAt(f, x) \in 1 .. Len(f)
      BY <1>1, <1>6, <2>3, AppendLast DEF g, id
    <3> QED
      BY <1>8, <3>1
  <2> DEFINE old == D!DepsIn(f, ns)
             new == D!DepsIn(g, ns)
  <2>4. old = [x \in DepIds(f) |-> Saying(f[LastAt(f, x)], ns)]
    BY DepsInIs
  <2>5. new = [x \in DepIds(f) \cup {id} |-> Saying(g[LastAt(g, x)], ns)]
    BY <2>1, DepsInIs
  <2> HIDE DEF old, new
  <2>6. D!UpdateDeps(old, id, d) = [x \in DepIds(f) \cup {id} |-> IF x = id THEN d ELSE old[x]]
    BY <2>4 DEF D!UpdateDeps
  <2>7. \A x \in DepIds(f) \cup {id} : Saying(g[LastAt(g, x)], ns) = IF x = id THEN d ELSE old[x]
    BY <2>2, <2>3, <2>4
  <2> QED
    BY <2>5, <2>6, <2>7 DEF old, new, id
<1> QED
  BY <1>11, <1>15, <1>16 DEF g, r, ns

-----------------------------------------------------------------------------
(***************************************************************************)
(* What Load reads of a file.                                              *)
(***************************************************************************)
\* n is the number of records up to the first one that Load does not take.
GoodUpTo(f, n) == /\ n \in 1 .. Len(f) /\ \A i \in 2 .. n : D!Readable(f, i)
                  /\ n = Len(f) \/ ~D!Readable(f, n + 1)

LEMMA GoodIs ==
    ASSUME NEW f \in Seq(Record), f # <<>>, f[1] = D!Header, NEW n, GoodUpTo(f, n)
    PROVE  D!Good(f) = SubSeq(f, 1, n)
<1> DEFINE c == CHOOSE m \in 1 .. Len(f) : /\ \A i \in 2 .. m : D!Readable(f, i)
                                           /\ m = Len(f) \/ ~D!Readable(f, m + 1)
<1>1. Len(f) \in Nat
  BY Elements
<1>2. GoodUpTo(f, c)
  BY DEF GoodUpTo
<1> HIDE DEF c
<1>3. \A m : GoodUpTo(f, m) => m \in Nat /\ m <= Len(f) /\ m >= 1
  BY <1>1 DEF GoodUpTo
<1>4. c = n
  <2>1. ASSUME NEW k, NEW m, GoodUpTo(f, k), GoodUpTo(f, m), k < m  PROVE FALSE
    <3>1. k + 1 \in 2 .. m /\ k # Len(f)
      BY <1>1, <1>3, <2>1
    <3> QED
      BY <2>1, <3>1 DEF GoodUpTo
  <2>2. ~(c < n) /\ ~(n < c)
    BY <1>2, <2>1
  <2>3. c \in Nat /\ n \in Nat
    BY <1>2, <1>3
  <2> QED
    BY <2>2, <2>3
<1>5. D!Good(f) = SubSeq(f, 1, c)
  BY DEF D!Good, D!ValidHeader, D!Absent, c
<1> QED
  BY <1>4, <1>5

LEMMA GoodExists ==
    ASSUME NEW f \in Seq(Record), f # <<>>, f[1] = D!Header
    PROVE  \E n : GoodUpTo(f, n)
<1>1. Len(f) \in Nat \ {0}
  BY Elements, EmptySeq
<1> DEFINE T == {n \in 1 .. Len(f) : n = Len(f) \/ ~D!Readable(f, n + 1)}
<1>2. T \subseteq Nat /\ Len(f) \in T
  BY <1>1
<1>3. PICK n \in T : \A m \in T : n <= m
  <2> HIDE DEF T
  <2> QED
    BY <1>2, Smallest
<1>4. ASSUME NEW i \in 2 .. n  PROVE D!Readable(f, i)
  <2>1. i - 1 \in 1 .. Len(f) /\ ~(n <= i - 1) /\ (i - 1) + 1 = i
    BY <1>1, <1>3
  <2> QED
    BY <1>3, <2>1
<1> QED
  BY <1>3, <1>4 DEF GoodUpTo

LEMMA Cut ==
    ASSUME NEW f \in Seq(Record), NEW n \in 1 .. Len(f)
    PROVE  /\ SubSeq(f, 1, n) \in Seq(Record) /\ Len(SubSeq(f, 1, n)) = n
           /\ SubSeq(f, 1, n) = f => n = Len(f)
           /\ SubSeq(f, 1, Len(f)) = f
           /\ \A r \in Record : SubSeq(Append(f, r), 1, n) = SubSeq(f, 1, n)
<1>1. Len(f) \in Nat
  BY Elements
<1>2. /\ SubSeq(f, 1, n) \in Seq(Record) /\ Len(SubSeq(f, 1, n)) = n
      /\ \A i \in 1 .. n : SubSeq(f, 1, n)[i] = f[i]
  BY <1>1, SubSeqProperties
<1>3. SubSeq(f, 1, Len(f)) = f
  BY <1>1
<1>4. ASSUME NEW r \in Record  PROVE SubSeq(Append(f, r), 1, n) = SubSeq(f, 1, n)
  <2> DEFINE g == Append(f, r)
  <2>1. g \in Seq(Record) /\ Len(g) = Len(f) + 1 /\ \A i \in 1 .. Len(f) : g[i] = f[i]
    BY Appended
  <2> HIDE DEF g
  <2>2. /\ SubSeq(g, 1, n) \in Seq(Record) /\ Len(SubSeq(g, 1, n)) = n
        /\ \A i \in 1 .. n : SubSeq(g, 1, n)[i] = g[i]
    BY <1>1, <2>1, SubSeqProperties
  <2>3. \A i \in 1 .. n : i \in 1 .. Len(f)
    BY <1>1
  <2>4. SubSeq(g, 1, n) = SubSeq(f, 1, n)
    BY <1>2, <2>1, <2>2, <2>3, SameSeq
  <2> QED
    BY <2>4 DEF g
<1> QED
  BY <1>2, <1>3, <1>4

LEMMA GoodSound ==
    ASSUME NEW f, Sound(f)
    PROVE  D!Good(f) = f
<1>1. f \in Seq(Record) /\ f # <<>> /\ f[1] = D!Header /\ Len(f) \in Nat \ {0}
  BY Elements, EmptySeq DEF Sound
<1>2. GoodUpTo(f, Len(f))
  BY <1>1 DEF Sound, GoodUpTo
<1> QED
  BY <1>1, <1>2, GoodIs, Cut

LEMMA GoodEmpty == D!Good(<<>>) = <<>>
  BY DEF D!Good, D!ValidHeader, D!Absent

\* What follows a record that Load does not take is never read.
LEMMA GoodAppend ==
    ASSUME NEW f \in Seq(Record), NEW r \in Record, f # <<>>,
           D!Good(f) # f \/ ~D!Readable(Append(f, r), Len(f) + 1)
    PROVE  D!Good(Append(f, r)) = D!Good(f)
<1> DEFINE g == Append(f, r)
<1>1. Len(f) \in Nat \ {0} /\ DOMAIN f = 1 .. Len(f)
  BY Elements, EmptySeq
<1>2. /\ g \in Seq(Record) /\ Len(g) = Len(f) + 1 /\ \A i \in 1 .. Len(f) : g[i] = f[i]
  BY Appended
<1>3. g # <<>> /\ g[1] = f[1]
  BY <1>1, <1>2, EmptySeq
<1>4. ASSUME NEW i \in 1 .. Len(f)  PROVE D!Readable(g, i) <=> D!Readable(f, i)
  <2>1. g[i] = f[i] /\ D!NextId(g, i) = D!NextId(f, i)
    BY <1>2, AppendPaths
  <2> HIDE DEF g
  <2> QED
    BY <2>1 DEF D!Readable
<1>5. CASE f[1] # D!Header
  BY <1>3, <1>5 DEF D!Good, D!ValidHeader, D!Absent
<1>6. CASE f[1] = D!Header
  <2>1. PICK n : GoodUpTo(f, n)
    BY <1>6, GoodExists
  <2>2. n \in 1 .. Len(f)
    BY <2>1 DEF GoodUpTo
  <2>3. D!Good(f) = SubSeq(f, 1, n)
    BY <1>6, <2>1, GoodIs
  <2>4. ~D!Readable(g, n + 1)
    <3>1. CASE n = Len(f)
      <4>1. D!Good(f) = f
        BY <2>2, <2>3, <3>1, Cut
      <4> QED
        BY <3>1, <4>1
    <3>2. CASE n # Len(f)
      <4>0. n \in Nat /\ n >= 1 /\ n <= Len(f) /\ Len(f) \in Nat
        BY <1>1, <2>2
      <4>1. n + 1 \in 1 .. Len(f)
        BY <3>2, <4>0
      <4> QED
        BY <1>4, <2>1, <3>2, <4>1 DEF GoodUpTo
    <3> QED
      BY <3>1, <3>2
  <2> HIDE DEF g
  <2>5. GoodUpTo(g, n)
    <3>1. n \in 1 .. Len(g) /\ \A i \in 2 .. n : i \in 1 .. Len(f)
      BY <1>1, <1>2, <2>2
    <3> QED
      BY <1>4, <2>1, <2>4, <3>1 DEF GoodUpTo
  <2>6. D!Good(g) = SubSeq(g, 1, n)
    BY <1>2, <1>3, <1>6, <2>5, GoodIs
  <2>7. SubSeq(g, 1, n) = SubSeq(f, 1, n)
    BY <2>2, Cut DEF g
  <2> QED
    BY <2>3, <2>6, <2>7 DEF g
<1> QED
  BY <1>5, <1>6

LEMMA LoadedIs ==
    ASSUME NEW f
    PROVE  D!Loaded(f) = [nodes |-> DiskNodes(f), deps |-> DiskDeps(f)]
<1> DEFINE l == [nodes |-> DiskNodes(f), deps |-> DiskDeps(f)]
           A == UNION {{[nodes |-> ns, deps |-> D!DepsIn(recs, ns)] : ns \in {D!NodesIn(recs)}} :
                       recs \in {D!Good(f)}}
<1>1. A = {l}
  BY DEF DiskNodes, DiskDeps
<1>2. D!Loaded(f) = CHOOSE x \in A : TRUE
  BY DEF D!Loaded
<1> HIDE DEF A, l
<1>3. (CHOOSE x \in A : TRUE) = l
  BY <1>1
<1> QED
  BY <1>2, <1>3 DEF l

-----------------------------------------------------------------------------
(***************************************************************************)
(* What Recompact writes.                                                  *)
(***************************************************************************)
IsLog(l) == Sound(l.recs) /\ l.nodes = D!NodesIn(l.recs)
DepsOfLog(l) == D!DepsIn(l.recs, l.nodes)
HasId(ns, n) == D!Id(ns, n) # -1

LEMMA PrefixKeeps ==
    ASSUME NEW s \in Seq(Node), NEW t \in Seq(Node), Distinct(s), Distinct(t), Prefix(s, t)
    PROVE  \A n : HasId(s, n) => HasId(t, n) /\ D!Id(t, n) = D!Id(s, n)
<1> SUFFICES ASSUME NEW n, HasId(s, n)  PROVE HasId(t, n) /\ D!Id(t, n) = D!Id(s, n)
  OBVIOUS
<1>1. PICK i \in 1 .. Len(s) : s[i] = n /\ D!Id(s, n) = i - 1
  BY IdIs DEF HasId
<1>2. i \in 1 .. Len(t) /\ t[i] = n
  <2>1. Len(s) \in Nat /\ Len(t) \in Nat
    BY Elements
  <2> QED
    BY <1>1, <2>1 DEF Prefix
<1>3. D!Id(t, n) = i - 1
  BY <1>2, IdAt
<1> QED
  BY <1>1, <1>3 DEF HasId

LEMMA PrefixTwice ==
    ASSUME NEW s \in Seq(Node), NEW t \in Seq(Node), NEW u \in Seq(Node),
           Prefix(s, t), Prefix(t, u)
    PROVE  Prefix(s, u)
<1>1. Len(s) \in Nat /\ Len(t) \in Nat /\ Len(u) \in Nat
  BY Elements
<1> QED
  BY <1>1 DEF Prefix

LEMMA PrefixAppend ==
    ASSUME NEW s \in Seq(Node), NEW n \in Node
    PROVE  Prefix(s, s) /\ Prefix(s, Append(s, n))
<1>1. Len(s) \in Nat
  BY Elements
<1> QED
  BY <1>1, Appended DEF Prefix

LEMMA NamedRight ==
    ASSUME NEW l, IsLog(l), NEW n \in Node
    PROVE  LET m == D!Named(l, n)
           IN  /\ IsLog(m) /\ HasId(m.nodes, n) /\ Prefix(l.nodes, m.nodes)
               /\ DepsOfLog(m) = DepsOfLog(l)
<1>1. /\ Sound(l.recs) /\ l.nodes = D!NodesIn(l.recs) /\ l.nodes \in Seq(Node)
      /\ Distinct(l.nodes)
  BY DEF IsLog, Sound
<1>2. CASE D!Id(l.nodes, n) # -1
  <2>1. D!Named(l, n) = l
    BY <1>2 DEF D!Named
  <2> QED
    BY <1>1, <1>2, <2>1, PrefixAppend DEF HasId
<1>3. CASE D!Id(l.nodes, n) = -1
  <2> DEFINE r == D!PathRec(n, Len(l.nodes))
             ms == Append(l.nodes, n)
             g == Append(l.recs, r)
  <2>1. D!Named(l, n) = [nodes |-> ms, recs |-> g]
    BY <1>3 DEF D!Named
  <2>2. /\ Sound(g) /\ D!NodesIn(g) = ms
        /\ D!DepsIn(g, ms) = D!DepsIn(l.recs, l.nodes)
    <3>1. D!Id(D!NodesIn(l.recs), n) = -1
      BY <1>1, <1>3
    <3> QED
      BY <1>1, <3>1, SoundPath
  <2>3. HasId(ms, n)
    <3>1. ms \in Seq(Node) /\ Distinct(ms)
      BY <2>2 DEF Sound
    <3>2. Len(l.nodes) + 1 \in 1 .. Len(ms) /\ ms[Len(l.nodes) + 1] = n /\ Len(l.nodes) \in Nat
      BY <1>1, Appended, Elements
    <3> HIDE DEF ms
    <3>3. D!Id(ms, n) = (Len(l.nodes) + 1) - 1
      BY <3>1, <3>2, IdAt
    <3> QED
      BY <3>2, <3>3 DEF HasId
  <2>4. Prefix(l.nodes, ms)
    BY <1>1, PrefixAppend
  <2> HIDE DEF ms, g
  <2> QED
    BY <2>1, <2>2, <2>3, <2>4 DEF IsLog, DepsOfLog
<1> QED
  BY <1>2, <1>3

\* The ids that RecordDeps gives to the first k names.
UpTo0(f, k) == f = [j \in 0 .. k |-> f[j]]

IsNaming(f, l, names, n) ==
    f = [j \in 0 .. n |-> IF j = 0 THEN l ELSE D!Named(f[j - 1], names[j])]

Naming(l, names, f, k) ==
    f[0] = l /\ \A j \in 1 .. k : f[j] = D!Named(f[j - 1], names[j])

LEMMA NamingExists ==
    ASSUME NEW l, NEW names, NEW n \in Nat
    PROVE  \E f : IsNaming(f, l, names, n)
<1> DEFINE N == {k \in Nat : \E f : UpTo0(f, k) /\ Naming(l, names, f, k)}
<1>1. 0 \in N
  <2> DEFINE f == [j \in 0 .. 0 |-> l]
  <2>1. UpTo0(f, 0) /\ Naming(l, names, f, 0)
    BY DEF Naming, UpTo0
  <2> QED
    BY <2>1
<1>2. ASSUME NEW k \in Nat, k >= 0 /\ k \in N  PROVE k + 1 \in N
  <2>1. PICK f : UpTo0(f, k) /\ Naming(l, names, f, k)
    BY <1>2
  <2> HIDE DEF N
  <2> DEFINE v == D!Named(f[k], names[k + 1])
             g == [j \in 0 .. k + 1 |-> IF j = k + 1 THEN v ELSE f[j]]
  <2> HIDE DEF v
  <2>2. g[k + 1] = v /\ \A j \in 0 .. k : g[j] = f[j]
    OBVIOUS
  <2>6. UpTo0(g, k + 1)
    BY DEF UpTo0
  <2> HIDE DEF g
  <2>3. ASSUME NEW j \in 1 .. k + 1  PROVE g[j] = D!Named(g[j - 1], names[j])
    <3>1. CASE j = k + 1
      <4>1. g[j - 1] = f[k]
        BY <2>2, <3>1
      <4> QED
        BY <2>2, <3>1, <4>1 DEF v
    <3>2. CASE j \in 1 .. k
      <4>1. g[j - 1] = f[j - 1] /\ g[j] = f[j]
        BY <2>2, <3>2
      <4> QED
        BY <2>1, <3>2, <4>1 DEF Naming
    <3> QED
      BY <3>1, <3>2
  <2>4. Naming(l, names, g, k + 1)
    BY <2>1, <2>2, <2>3 DEF Naming
  <2>5. k + 1 \in Nat /\ \E h : UpTo0(h, k + 1) /\ Naming(l, names, h, k + 1)
    BY <2>6, <2>4
  <2> QED
    BY <2>5 DEF N
<1>3. n \in N
  <2> HIDE DEF N
  <2> QED
    BY <1>1, <1>2, Counting
<1>4. PICK f : UpTo0(f, n) /\ Naming(l, names, f, n)
  BY <1>3
<1> DEFINE h == [j \in 0 .. n |-> IF j = 0 THEN l ELSE D!Named(f[j - 1], names[j])]
<1>5. ASSUME NEW j \in 0 .. n  PROVE f[j] = h[j]
  <2>1. CASE j = 0
    BY <1>4, <2>1 DEF Naming
  <2>2. CASE j \in 1 .. n
    BY <1>4, <2>2 DEF Naming
  <2> QED
    BY <2>1, <2>2
<1>6. f = h
  BY <1>4, <1>5 DEF UpTo0
<1>7. IsNaming(f, l, names, n)
  BY <1>6 DEF IsNaming
<1> QED
  BY <1>7

\* RecordDeps into a log: its nodes get ids, and the entry is that of its output.
LEMMA RecordedRight ==
    ASSUME NEW l, IsLog(l), NEW o \in Node, NEW d \in Entry
    PROVE  LET m == D!Recorded(l, o, d)
           IN  /\ IsLog(m) /\ HasId(m.nodes, o) /\ Prefix(l.nodes, m.nodes)
               /\ DepsOfLog(m) = D!UpdateDeps(DepsOfLog(l), D!Id(m.nodes, o), d)
<1> DEFINE names == <<o>> \o d.deps
           n == Len(names)
           F(f) == IsNaming(f, l, names, n)
<1>1. d.deps \in Seq(Node) /\ <<o>> \in Seq(Node)
  BY DEF Entry
<1>2. names \in Seq(Node)
  BY <1>1
<1>3. /\ n \in Nat /\ \A j \in 1 .. n : names[j] \in Node
      /\ n = 1 + Len(d.deps) /\ names[1] = o
      /\ \A j \in 1 .. Len(d.deps) : j + 1 \in 1 .. n /\ names[j + 1] = d.deps[j]
  <2>1. n = 1 + Len(d.deps) /\ Len(d.deps) \in Nat
    BY <1>1, Elements
  <2>2. DOMAIN names = 1 .. 1 + Len(d.deps) /\ Len(<<o>>) = 1
    BY <1>1, Joined
  <2>3. \A i \in 1 .. 1 + Len(d.deps) : names[i] = IF i <= 1 THEN <<o>>[i] ELSE d.deps[i - 1]
    BY <1>1, <2>2, Joined
  <2>4. names[1] = o
    BY <2>1, <2>3
  <2>5. \A j \in 1 .. Len(d.deps) : j + 1 \in 1 .. n /\ names[j + 1] = d.deps[j]
    BY <2>1, <2>3
  <2> QED
    BY <1>2, <2>1, <2>4, <2>5, Elements
<1> HIDE DEF names, n
<1>4. \E f : F(f)
  BY <1>3, NamingExists
<1> DEFINE c == CHOOSE f : F(f)
           q == c[n]
<1>5. F(c)
  BY <1>4
<1>6. D!Recorded(l, o, d) = [nodes |-> q.nodes, recs |-> Append(q.recs, D!DepsRecFor(q.nodes, o, d))]
  BY DEF D!Recorded, names, n, IsNaming
<1> HIDE DEF c
<1> DEFINE Kept(j) == /\ IsLog(c[j]) /\ Prefix(l.nodes, c[j].nodes)
                      /\ \A i \in 1 .. j : HasId(c[j].nodes, names[i])
                      /\ DepsOfLog(c[j]) = DepsOfLog(l)
           K == {j \in Nat : j <= n => Kept(j)}
<1>7. 0 \in K
  <2>1. c[0] = l
    BY <1>3, <1>5 DEF IsNaming
  <2>2. Prefix(l.nodes, l.nodes)
    BY PrefixAppend DEF IsLog, Sound
  <2> QED
    BY <2>1, <2>2
<1>8. ASSUME NEW j \in Nat, j >= 0 /\ j \in K  PROVE j + 1 \in K
  <2> SUFFICES ASSUME j + 1 <= n  PROVE Kept(j + 1)
    OBVIOUS
  <2>1. Kept(j) /\ j + 1 \in 0 .. n /\ j + 1 # 0 /\ (j + 1) - 1 = j /\ names[j + 1] \in Node
    BY <1>3, <1>8
  <2>2. c[j + 1] = D!Named(c[j], names[j + 1])
    BY <1>5, <2>1 DEF IsNaming
  <2>3. /\ IsLog(c[j + 1]) /\ HasId(c[j + 1].nodes, names[j + 1])
        /\ Prefix(c[j].nodes, c[j + 1].nodes) /\ DepsOfLog(c[j + 1]) = DepsOfLog(c[j])
    BY <2>1, <2>2, NamedRight
  <2>4. /\ c[j].nodes \in Seq(Node) /\ Distinct(c[j].nodes)
        /\ c[j + 1].nodes \in Seq(Node) /\ Distinct(c[j + 1].nodes) /\ l.nodes \in Seq(Node)
    BY <2>1, <2>3 DEF IsLog, Sound
  <2>5. Prefix(l.nodes, c[j + 1].nodes)
    BY <2>1, <2>3, <2>4, PrefixTwice
  <2>6. ASSUME NEW i \in 1 .. j + 1  PROVE HasId(c[j + 1].nodes, names[i])
    <3>1. CASE i = j + 1
      BY <2>3, <3>1
    <3>2. CASE i \in 1 .. j
      <4>1. HasId(c[j].nodes, names[i])
        BY <2>1, <3>2
      <4> QED
        BY <2>3, <2>4, <4>1, PrefixKeeps
    <3> QED
      BY <3>1, <3>2
  <2> QED
    BY <2>1, <2>3, <2>5, <2>6
<1>9. Kept(n)
  <2> HIDE DEF Kept
  <2>1. n \in K
    <3> HIDE DEF K
    <3> QED
      BY <1>3, <1>7, <1>8, Counting
  <2> QED
    BY <1>3, <2>1
<1>10. IsLog(q) /\ Prefix(l.nodes, q.nodes) /\ DepsOfLog(q) = DepsOfLog(l)
       /\ HasId(q.nodes, o) /\ \A j \in DOMAIN d.deps : HasId(q.nodes, d.deps[j])
  <2>1. HasId(q.nodes, names[1])
    BY <1>3, <1>9
  <2>2. DOMAIN d.deps = 1 .. Len(d.deps)
    BY <1>1, Elements
  <2>3. \A j \in DOMAIN d.deps : HasId(q.nodes, names[j + 1])
    BY <1>3, <1>9, <2>2
  <2> QED
    BY <1>3, <1>9, <2>1, <2>2, <2>3
<1> HIDE DEF q
<1> DEFINE g == Append(q.recs, D!DepsRecFor(q.nodes, o, d))
<1>11. /\ Sound(g) /\ D!NodesIn(g) = q.nodes
       /\ D!DepsIn(g, q.nodes) = D!UpdateDeps(D!DepsIn(q.recs, q.nodes), D!Id(q.nodes, o), d)
  <2>1. Sound(q.recs) /\ q.nodes = D!NodesIn(q.recs)
    BY <1>10 DEF IsLog
  <2>2. D!Id(q.nodes, o) # -1 /\ \A j \in DOMAIN d.deps : D!Id(q.nodes, d.deps[j]) # -1
    BY <1>10 DEF HasId
  <2> QED
    BY <2>1, <2>2, SoundDeps
<1> HIDE DEF g
<1>12. D!Recorded(l, o, d) = [nodes |-> q.nodes, recs |-> g]
  BY <1>6 DEF g
<1>13. D!DepsIn(q.recs, q.nodes) = DepsOfLog(l)
  BY <1>10 DEF DepsOfLog
<1> QED
  BY <1>10, <1>11, <1>12, <1>13 DEF IsLog, DepsOfLog

\* The log that Recompact writes, entry by entry.
Compacted(l, ns, ds, i) ==
    IF i - 1 \in DOMAIN ds /\ ns[i] \in Live THEN D!Recorded(l, ns[i], ds[i - 1]) ELSE l

NewLog == [nodes |-> <<>>, recs |-> <<D!Header>>]

IsCompacting(f, ns, ds) ==
    f = [i \in 0 .. Len(ns) |->
            IF i = 0 THEN NewLog
            ELSE IF i - 1 \in DOMAIN ds /\ ns[i] \in Live
                 THEN D!Recorded(f[i - 1], ns[i], ds[i - 1])
                 ELSE f[i - 1]]

Compacting(f, ns, ds, k) ==
    f[0] = NewLog /\ \A i \in 1 .. k : f[i] = Compacted(f[i - 1], ns, ds, i)

LEMMA CompactingExists ==
    ASSUME NEW ns \in Seq(Node), NEW ds
    PROVE  \E f : IsCompacting(f, ns, ds)
<1> DEFINE n == Len(ns)
           N == {k \in Nat : \E f : UpTo0(f, k) /\ Compacting(f, ns, ds, k)}
<1>0. n \in Nat
  BY Elements
<1> HIDE DEF n
<1>1. 0 \in N
  <2> DEFINE f == [j \in 0 .. 0 |-> NewLog]
  <2>1. UpTo0(f, 0) /\ Compacting(f, ns, ds, 0)
    BY DEF Compacting, UpTo0
  <2> QED
    BY <2>1
<1>2. ASSUME NEW k \in Nat, k >= 0 /\ k \in N  PROVE k + 1 \in N
  <2>1. PICK f : UpTo0(f, k) /\ Compacting(f, ns, ds, k)
    BY <1>2
  <2> HIDE DEF N
  <2> DEFINE v == Compacted(f[k], ns, ds, k + 1)
             g == [j \in 0 .. k + 1 |-> IF j = k + 1 THEN v ELSE f[j]]
  <2> HIDE DEF v
  <2>2. g[k + 1] = v /\ \A j \in 0 .. k : g[j] = f[j]
    OBVIOUS
  <2>6. UpTo0(g, k + 1)
    BY DEF UpTo0
  <2> HIDE DEF g
  <2>3. ASSUME NEW j \in 1 .. k + 1  PROVE g[j] = Compacted(g[j - 1], ns, ds, j)
    <3>1. CASE j = k + 1
      <4>1. g[j - 1] = f[k]
        BY <2>2, <3>1
      <4> QED
        BY <2>2, <3>1, <4>1 DEF v
    <3>2. CASE j \in 1 .. k
      <4>1. g[j - 1] = f[j - 1] /\ g[j] = f[j]
        BY <2>2, <3>2
      <4> QED
        BY <2>1, <3>2, <4>1 DEF Compacting
    <3> QED
      BY <3>1, <3>2
  <2>4. Compacting(g, ns, ds, k + 1)
    BY <2>1, <2>2, <2>3 DEF Compacting
  <2>5. k + 1 \in Nat /\ \E h : UpTo0(h, k + 1) /\ Compacting(h, ns, ds, k + 1)
    BY <2>6, <2>4
  <2> QED
    BY <2>5 DEF N
<1>3. n \in N
  <2> HIDE DEF N
  <2> QED
    BY <1>0, <1>1, <1>2, Counting
<1>4. PICK f : UpTo0(f, n) /\ Compacting(f, ns, ds, n)
  BY <1>3
<1> DEFINE h == [i \in 0 .. n |->
                    IF i = 0 THEN NewLog
                    ELSE IF i - 1 \in DOMAIN ds /\ ns[i] \in Live
                         THEN D!Recorded(f[i - 1], ns[i], ds[i - 1])
                         ELSE f[i - 1]]
<1>5. ASSUME NEW j \in 0 .. n  PROVE f[j] = h[j]
  <2>1. CASE j = 0
    BY <1>4, <2>1 DEF Compacting
  <2>2. CASE j \in 1 .. n
    BY <1>4, <2>2 DEF Compacting, Compacted
  <2> QED
    BY <2>1, <2>2
<1>6. f = h
  BY <1>4, <1>5 DEF UpTo0
<1>7. IsCompacting(f, ns, ds)
  BY <1>6 DEF IsCompacting, n
<1> QED
  BY <1>7

\* What the log l holds is what the entries ds of the nodes ns say.
From(l, ns, ds) ==
    \A id \in DOMAIN DepsOfLog(l) :
        /\ id \in Nat /\ id + 1 \in 1 .. Len(l.nodes)
        /\ \E i \in 1 .. Len(ns) : /\ i - 1 \in DOMAIN ds /\ ns[i] = l.nodes[id + 1]
                                   /\ DepsOfLog(l)[id] = ds[i - 1]

LEMMA FromRecorded ==
    ASSUME NEW l, IsLog(l), NEW ns \in Seq(Node), NEW ds, From(l, ns, ds),
           NEW i \in 1 .. Len(ns), i - 1 \in DOMAIN ds, ds[i - 1] \in Entry
    PROVE  LET m == D!Recorded(l, ns[i], ds[i - 1]) IN IsLog(m) /\ From(m, ns, ds)
<1> DEFINE o == ns[i]
           d == ds[i - 1]
           m == D!Recorded(l, o, d)
<1>1. o \in Node
  BY Elements
<1>2. /\ IsLog(m) /\ HasId(m.nodes, o) /\ Prefix(l.nodes, m.nodes)
      /\ DepsOfLog(m) = D!UpdateDeps(DepsOfLog(l), D!Id(m.nodes, o), d)
  BY <1>1, RecordedRight
<1>3. l.nodes \in Seq(Node) /\ m.nodes \in Seq(Node)
  BY <1>2 DEF IsLog, Sound
<1>4. Len(l.nodes) \in Nat /\ Len(m.nodes) \in Nat
  BY <1>3, Elements
<1>5. PICK k \in 1 .. Len(m.nodes) : m.nodes[k] = o /\ D!Id(m.nodes, o) = k - 1
  BY <1>2, <1>3, IdIs DEF HasId
<1> DEFINE old == DepsOfLog(l)
           new == DepsOfLog(m)
<1>6. new = [x \in DOMAIN old \cup {k - 1} |-> IF x = k - 1 THEN d ELSE old[x]]
  BY <1>2, <1>5 DEF D!UpdateDeps
<1>7. ASSUME NEW id \in DOMAIN new
      PROVE  /\ id \in Nat /\ id + 1 \in 1 .. Len(m.nodes)
             /\ \E q \in 1 .. Len(ns) : /\ q - 1 \in DOMAIN ds /\ ns[q] = m.nodes[id + 1]
                                        /\ new[id] = ds[q - 1]
  <2> HIDE DEF old, new, m
  <2>1. CASE id = k - 1
    <3>1. id \in Nat /\ id + 1 = k
      BY <1>4, <2>1
    <3>2. ns[i] = m.nodes[id + 1] /\ new[id] = ds[i - 1]
      BY <1>5, <1>6, <2>1, <3>1
    <3> QED
      BY <3>1, <3>2
  <2>2. CASE id # k - 1
    <3>1. id \in DOMAIN old /\ new[id] = old[id]
      BY <1>6, <2>2
    <3>2. PICK q \in 1 .. Len(ns) : /\ q - 1 \in DOMAIN ds /\ ns[q] = l.nodes[id + 1]
                                    /\ old[id] = ds[q - 1]
      BY <3>1 DEF From, old
    <3>3. id \in Nat /\ id + 1 \in 1 .. Len(l.nodes)
      BY <3>1 DEF From, old
    <3>4. id + 1 \in 1 .. Len(m.nodes) /\ m.nodes[id + 1] = l.nodes[id + 1]
      BY <1>2, <1>4, <3>3 DEF Prefix
    <3> QED
      BY <3>1, <3>2, <3>3, <3>4
  <2> QED
    BY <2>1, <2>2
<1>8. From(m, ns, ds)
  BY <1>7 DEF From
<1> QED
  BY <1>2, <1>8

LEMMA RecompactedRight ==
    ASSUME NEW ns \in Seq(Node), NEW ds, \A id \in DOMAIN ds : ds[id] \in Entry
    PROVE  LET g == D!Recompacted(ns, ds)
           IN  Sound(g) /\ From([nodes |-> D!NodesIn(g), recs |-> g], ns, ds)
<1> DEFINE n == Len(ns)
           c == CHOOSE f : IsCompacting(f, ns, ds)
           g == c[n].recs
<1>1. n \in Nat
  BY Elements
<1>2. IsCompacting(c, ns, ds)
  BY CompactingExists
<1>3. D!Recompacted(ns, ds) = g
  BY DEF D!Recompacted, IsCompacting, NewLog
<1> HIDE DEF c, n
<1> DEFINE K == {j \in Nat : j <= n => IsLog(c[j]) /\ From(c[j], ns, ds)}
<1>4. 0 \in K
  <2>1. c[0] = NewLog
    BY <1>1, <1>2 DEF IsCompacting, n
  <2>2. IsLog(NewLog)
    BY SoundStart DEF IsLog, NewLog
  <2>3. DOMAIN DepsOfLog(NewLog) = {}
    BY SoundStart, DepsInIs DEF NewLog, DepsOfLog
  <2>4. From(NewLog, ns, ds)
    BY <2>3 DEF From
  <2> QED
    BY <2>1, <2>2, <2>4
<1>5. ASSUME NEW j \in Nat, j >= 0 /\ j \in K  PROVE j + 1 \in K
  <2> SUFFICES ASSUME j + 1 <= n  PROVE IsLog(c[j + 1]) /\ From(c[j + 1], ns, ds)
    OBVIOUS
  <2>1. /\ IsLog(c[j]) /\ From(c[j], ns, ds)
        /\ j + 1 \in 0 .. n /\ j + 1 # 0 /\ (j + 1) - 1 = j /\ j + 1 \in 1 .. n
    BY <1>1, <1>5
  <2>2. c[j + 1] = IF j \in DOMAIN ds /\ ns[j + 1] \in Live
                   THEN D!Recorded(c[j], ns[j + 1], ds[j]) ELSE c[j]
    BY <1>2, <2>1 DEF IsCompacting, n
  <2>3. CASE j \in DOMAIN ds /\ ns[j + 1] \in Live
    <3>1. LET m == D!Recorded(c[j], ns[j + 1], ds[(j + 1) - 1]) IN IsLog(m) /\ From(m, ns, ds)
      BY <2>1, <2>3, FromRecorded DEF n
    <3> QED
      BY <2>1, <2>2, <2>3, <3>1
  <2> QED
    BY <2>1, <2>2, <2>3
<1>6. IsLog(c[n]) /\ From(c[n], ns, ds)
  <2>1. n \in K
    <3> HIDE DEF K
    <3> QED
      BY <1>1, <1>4, <1>5, Counting
  <2> QED
    BY <1>1, <2>1
<1>7. Sound(g) /\ c[n].nodes = D!NodesIn(g)
  BY <1>6 DEF IsLog
<1>8. From([nodes |-> D!NodesIn(g), recs |-> g], ns, ds)
  BY <1>6, <1>7 DEF From, DepsOfLog
<1> QED
  BY <1>3, <1>7, <1>8

-----------------------------------------------------------------------------
(***************************************************************************)
(* What a write does to what the next build loads.                         *)
(***************************************************************************)
LEMMA GoodShort ==
    ASSUME NEW f \in Seq(Record)
    PROVE  D!Good(f) \in Seq(Record) /\ Len(D!Good(f)) <= Len(f)
<1>0. Len(f) \in Nat
  BY Elements
<1>1. CASE f # <<>> /\ f[1] = D!Header
  <2>1. PICK n : GoodUpTo(f, n)
    BY <1>1, GoodExists
  <2>2. n \in 1 .. Len(f) /\ D!Good(f) = SubSeq(f, 1, n)
    BY <1>1, <2>1, GoodIs DEF GoodUpTo
  <2>3. SubSeq(f, 1, n) \in Seq(Record) /\ Len(SubSeq(f, 1, n)) = n
    BY <2>2, Cut
  <2> QED
    BY <1>0, <2>2, <2>3
<1>2. CASE ~(f # <<>> /\ f[1] = D!Header)
  <2>1. D!Good(f) = <<>>
    BY <1>2 DEF D!Good, D!ValidHeader, D!Absent
  <2>2. <<>> \in Seq(Record) /\ Len(<<>>) = 0
    OBVIOUS
  <2> QED
    BY <1>0, <2>1, <2>2
<1> QED
  BY <1>1, <1>2

\* The good part of a log, with its header, is what Load reads.
Base(f) == D!Opened(D!Good(f))

LEMMA BaseIs ==
    ASSUME NEW f, Sound(Base(f))
    PROVE  /\ DiskNodes(f) = D!NodesIn(Base(f)) /\ DiskDeps(f) = D!DepsIn(Base(f), DiskNodes(f))
           /\ DiskNodes(f) \in Seq(Node) /\ Distinct(DiskNodes(f))
           /\ Size(Base(f)) = Len(DiskNodes(f)) /\ Len(DiskNodes(f)) \in Nat
           /\ D!Good(D!Good(f)) = D!Good(f)
<1>1. CASE D!Good(f) = <<>>
  <2>1. Base(f) = <<D!Header>>
    BY <1>1 DEF Base, D!Opened, D!Absent
  <2>2. <<>> \in Seq(Node) /\ Distinct(<<>>) /\ Len(<<>>) = 0
    BY DEF Distinct
  <2>3. DiskNodes(f) = <<>> /\ D!NodesIn(Base(f)) = <<>> /\ Size(Base(f)) = 0
    BY <1>1, <2>1, SoundStart DEF DiskNodes
  <2>4. DiskDeps(f) = D!DepsIn(Base(f), <<>>)
    BY <1>1, <2>1, <2>3, SoundStart DEF DiskDeps
  <2>5. D!Good(D!Good(f)) = D!Good(f)
    BY <1>1, GoodEmpty
  <2> QED
    BY <2>2, <2>3, <2>4, <2>5
<1>2. CASE D!Good(f) # <<>>
  <2>1. Base(f) = D!Good(f)
    BY <1>2 DEF Base, D!Opened, D!Absent
  <2>2. D!Good(D!Good(f)) = D!Good(f)
    BY <2>1, GoodSound
  <2>3. D!NodesIn(Base(f)) \in Seq(Node) /\ Len(D!NodesIn(Base(f))) \in Nat
    BY Elements DEF Sound
  <2> QED
    BY <2>1, <2>2, <2>3 DEF DiskNodes, DiskDeps, Sound
<1> QED
  BY <1>1, <1>2

\* Two files with the same good part are the same to Load.
LEMMA SameGood ==
    ASSUME NEW f, NEW g, D!Good(g) = D!Good(f)
    PROVE  /\ DiskNodes(g) = DiskNodes(f) /\ DiskDeps(g) = DiskDeps(f)
           /\ \A gv : (MadeOf(gv, g) <=> MadeOf(gv, f)) /\ HeldOf(gv, g) = HeldOf(gv, f)
<1>1. DiskNodes(g) = DiskNodes(f) /\ DiskDeps(g) = DiskDeps(f)
  BY DEF DiskNodes, DiskDeps
<1> QED
  BY <1>1 DEF MadeOf, HeldOf

\* The same, when a header was all that differs.
LEMMA OpenedIs ==
    ASSUME NEW f \in Seq(Record), Sound(Base(f))
    PROVE  LET g == D!Opened(f)
           IN  /\ g \in Seq(Record) /\ g # <<>> /\ Sound(Base(g))
               /\ DiskNodes(g) = DiskNodes(f) /\ DiskDeps(g) = DiskDeps(f)
               /\ \A gv : (MadeOf(gv, g) <=> MadeOf(gv, f)) /\ HeldOf(gv, g) = HeldOf(gv, f)
               /\ Whole(f) => g = Base(f) /\ Whole(g)
               /\ ~Whole(f) => g = f
<1>1. CASE f = <<>>
  <2>1. D!Opened(f) = <<D!Header>> /\ D!Good(f) = <<>>
    BY <1>1, GoodEmpty DEF D!Opened, D!Absent
  <2>2. Base(f) = <<D!Header>>
    BY <2>1 DEF Base, D!Opened, D!Absent
  <2>3. Sound(<<D!Header>>) /\ D!Good(<<D!Header>>) = <<D!Header>>
    BY SoundStart, GoodSound
  <2>4. <<D!Header>> \in Seq(Record) /\ <<D!Header>> # <<>>
    BY <2>3 DEF Sound
  <2>5. Base(<<D!Header>>) = <<D!Header>>
    BY <2>3, <2>4 DEF Base, D!Opened, D!Absent
  <2>6. DiskNodes(<<D!Header>>) = <<>> /\ DiskNodes(f) = <<>>
    BY <2>1, <2>3, SoundStart DEF DiskNodes
  <2>7. DiskDeps(<<D!Header>>) = DiskDeps(f)
    BY <2>1, <2>3, <2>6, SoundStart DEF DiskDeps
  <2>8. \A gv : /\ MadeOf(gv, <<D!Header>>) <=> MadeOf(gv, f)
                /\ HeldOf(gv, <<D!Header>>) = HeldOf(gv, f)
    BY <2>6, <2>7 DEF MadeOf, HeldOf
  <2> QED
    BY <1>1, <2>1, <2>2, <2>3, <2>4, <2>5, <2>6, <2>7, <2>8 DEF Whole
<1>2. CASE f # <<>>
  <2>1. D!Opened(f) = f
    BY <1>2 DEF D!Opened, D!Absent
  <2>2. Whole(f) => Base(f) = f
    BY <1>2 DEF Whole, Base, D!Opened, D!Absent
  <2> QED
    BY <1>2, <2>1, <2>2
<1> QED
  BY <1>1, <1>2

\* A record that Load does not take, or does not come to.
LEMMA WriteLost ==
    ASSUME NEW f \in Seq(Record), Sound(Base(f)), NEW r \in Record,
           ~Whole(f) \/ ~D!Readable(Append(D!Opened(f), r), Len(D!Opened(f)) + 1)
    PROVE  LET g == Append(D!Opened(f), r)
           IN  /\ g \in Seq(Record) /\ Sound(Base(g)) /\ ~Whole(g)
               /\ DiskNodes(g) = DiskNodes(f) /\ DiskDeps(g) = DiskDeps(f)
               /\ \A gv : (MadeOf(gv, g) <=> MadeOf(gv, f)) /\ HeldOf(gv, g) = HeldOf(gv, f)
<1> DEFINE h == D!Opened(f)
           g == Append(h, r)
<1>1. /\ h \in Seq(Record) /\ h # <<>> /\ Sound(Base(h))
      /\ DiskNodes(h) = DiskNodes(f) /\ DiskDeps(h) = DiskDeps(f)
      /\ \A gv : (MadeOf(gv, h) <=> MadeOf(gv, f)) /\ HeldOf(gv, h) = HeldOf(gv, f)
      /\ ~Whole(f) => h = f
  BY OpenedIs
<1>2. D!Good(h) # h \/ ~D!Readable(Append(h, r), Len(h) + 1)
  BY <1>1 DEF Whole
<1> HIDE DEF h
<1>3. D!Good(g) = D!Good(h)
  BY <1>1, <1>2, GoodAppend
<1>4. /\ DiskNodes(g) = DiskNodes(h) /\ DiskDeps(g) = DiskDeps(h)
      /\ \A gv : (MadeOf(gv, g) <=> MadeOf(gv, h)) /\ HeldOf(gv, g) = HeldOf(gv, h)
  BY <1>3, SameGood
<1>5. g \in Seq(Record) /\ Len(g) = Len(h) + 1 /\ Len(h) \in Nat
  BY <1>1, Appended, Elements
<1>6. D!Good(h) \in Seq(Record) /\ Len(D!Good(h)) <= Len(h) /\ Len(D!Good(h)) \in Nat
  BY <1>1, GoodShort, Elements
<1>7. ~Whole(g)
  <2> SUFFICES ASSUME D!Good(g) = g  PROVE FALSE
    BY DEF Whole
  <2>1. Len(g) = Len(D!Good(h))
    BY <1>3
  <2> HIDE DEF g
  <2> QED
    BY <1>5, <1>6, <2>1
<1>8. Sound(Base(g))
  BY <1>1, <1>3 DEF Base
<1> HIDE DEF g
<1> QED
  BY <1>1, <1>4, <1>5, <1>7, <1>8 DEF g, h

\* A write that was cut short.
LEMMA WriteTorn ==
    ASSUME NEW gv, NEW f, OnDisk(gv, f)
    PROVE  OnDisk(gv, Append(f, D!Torn)) /\ HeldOf(gv, Append(f, D!Torn)) = HeldOf(gv, f)
<1> DEFINE g == Append(f, D!Torn)
<1>1. D!Torn \in Record /\ f \in Seq(Record) /\ Sound(Base(f)) /\ MadeOf(gv, f)
  BY DEF Record, OnDisk, Base
<1>2. g \in Seq(Record) /\ g[Len(f) + 1] = D!Torn
  BY <1>1, Appended
<1>3. D!Good(g) = D!Good(f)
  <2>1. CASE f = <<>>
    <3>1. g = <<D!Torn>> /\ g[1] = D!Torn /\ D!Torn # D!Header
      BY <2>1 DEF D!Torn, D!Header
    <3> HIDE DEF g
    <3> QED
      BY <2>1, <3>1, GoodEmpty DEF D!Good, D!ValidHeader
  <2>2. CASE f # <<>>
    <3>1. ~D!Readable(g, Len(f) + 1)
      <4> HIDE DEF g
      <4> QED
        BY <1>2 DEF D!Readable, D!Torn
    <3> QED
      BY <1>1, <2>2, <3>1, GoodAppend
  <2> QED
    BY <2>1, <2>2
<1>4. (MadeOf(gv, g) <=> MadeOf(gv, f)) /\ HeldOf(gv, g) = HeldOf(gv, f)
  BY <1>3, SameGood
<1> HIDE DEF g
<1>5. OnDisk(gv, g)
  BY <1>1, <1>2, <1>3, <1>4 DEF OnDisk, Base
<1> QED
  BY <1>4, <1>5 DEF g

\* Which entry a log holds for a node.
LEMMA HeldIs ==
    ASSUME NEW gv, NEW f, NEW n \in Node
    PROVE  LET id == D!Id(DiskNodes(f), n)
           IN  /\ id \notin DOMAIN DiskDeps(f) => HeldOf(gv, f)[n] = 0
               /\ id \in DOMAIN DiskDeps(f) =>
                    HeldOf(gv, f)[n] = LET d == DiskDeps(f)[id]
                                       IN  IF d = D!NoRecord THEN 0
                                           ELSE IF d \in ToSet(gv[n]) THEN d.mtime ELSE -1
<1> QED
  BY DEF HeldOf, D!GetDeps

\* RecordId: the node gets the next id, unless another process has given it away.
LEMMA WritePath ==
    ASSUME NEW gv, NEW f, OnDisk(gv, f), NEW n \in Node, NEW k \in Nat,
           Whole(f) /\ k = Len(DiskNodes(f)) => D!Id(DiskNodes(f), n) = -1
    PROVE  LET g == Append(D!Opened(f), D!PathRec(n, k))
           IN  /\ OnDisk(gv, g) /\ HeldOf(gv, g) = HeldOf(gv, f) /\ DiskDeps(g) = DiskDeps(f)
               /\ IF Whole(f) /\ k = Len(DiskNodes(f))
                  THEN Whole(g) /\ DiskNodes(g) = Append(DiskNodes(f), n)
                  ELSE ~Whole(g) /\ DiskNodes(g) = DiskNodes(f)
<1> DEFINE h == D!Opened(f)
           r == D!PathRec(n, k)
           g == Append(h, r)
<1>1. f \in Seq(Record) /\ Sound(Base(f)) /\ MadeOf(gv, f)
  BY DEF OnDisk, Base
<1>2. /\ DiskNodes(f) = D!NodesIn(Base(f)) /\ DiskDeps(f) = D!DepsIn(Base(f), DiskNodes(f))
      /\ DiskNodes(f) \in Seq(Node) /\ Distinct(DiskNodes(f))
      /\ Size(Base(f)) = Len(DiskNodes(f)) /\ Len(DiskNodes(f)) \in Nat
  BY <1>1, BaseIs
<1>3. r \in Record /\ r.kind = "path" /\ r.id = k
  BY DEF Record, D!PathRec
<1>4. h \in Seq(Record) /\ (Whole(f) => h = Base(f))
  BY <1>1, OpenedIs
<1> HIDE DEF h, r
<1>5. ASSUME Whole(f), k = Len(DiskNodes(f))
      PROVE  /\ OnDisk(gv, g) /\ HeldOf(gv, g) = HeldOf(gv, f) /\ DiskDeps(g) = DiskDeps(f)
             /\ Whole(g) /\ DiskNodes(g) = Append(DiskNodes(f), n)
  <2> DEFINE ns == DiskNodes(f)
             ms == Append(ns, n)
  <2>1. /\ Sound(g) /\ D!NodesIn(g) = ms
        /\ D!DepsIn(g, ms) = D!DepsIn(Base(f), ns)
    <3>1. D!Id(D!NodesIn(Base(f)), n) = -1
      BY <1>2, <1>5
    <3>2. r = D!PathRec(n, Len(D!NodesIn(Base(f)))) /\ h = Base(f)
      BY <1>2, <1>4, <1>5 DEF r
    <3>3. /\ Sound(g) /\ D!NodesIn(g) = Append(D!NodesIn(Base(f)), n)
          /\ D!DepsIn(g, D!NodesIn(g)) = D!DepsIn(Base(f), D!NodesIn(Base(f)))
      BY <1>1, <3>1, <3>2, SoundPath
    <3> HIDE DEF g
    <3> QED
      BY <1>2, <3>3
  <2> HIDE DEF g
  <2>2. Whole(g) /\ DiskNodes(g) = ms /\ DiskDeps(g) = DiskDeps(f) /\ g # <<>> /\ g \in Seq(Record)
    <3>1. D!Good(g) = g
      BY <2>1, GoodSound
    <3> QED
      BY <1>2, <2>1, <3>1 DEF Whole, DiskNodes, DiskDeps, Sound
  <2>3. Sound(Base(g))
    BY <2>1, <2>2 DEF Whole, Base, D!Opened, D!Absent
  <2>4. /\ Len(ms) = Len(ns) + 1 /\ \A i \in 1 .. Len(ns) : ms[i] = ns[i]
        /\ ms \in Seq(Node) /\ ms[Len(ns) + 1] = n
    BY <1>2, Appended
  <2> HIDE DEF ns, ms
  <2>5. MadeOf(gv, g)
    <3> SUFFICES ASSUME NEW id \in DOMAIN DiskDeps(f)
                 PROVE  /\ id \in Nat /\ id + 1 \in 1 .. Len(ms)
                        /\ DiskDeps(f)[id] \in ToSet(gv[ms[id + 1]])
      BY <2>2 DEF MadeOf
    <3>1. /\ id \in Nat /\ id + 1 \in 1 .. Len(ns)
          /\ DiskDeps(f)[id] \in ToSet(gv[ns[id + 1]])
      BY <1>1 DEF MadeOf, ns
    <3>2. Len(ns) \in Nat
      BY <1>2 DEF ns
    <3> QED
      BY <2>4, <3>1, <3>2
  <2>6. ASSUME NEW m \in Node  PROVE HeldOf(gv, g)[m] = HeldOf(gv, f)[m]
    <3>1. CASE D!Id(ns, m) # -1
      <4>1. D!Id(ms, m) = D!Id(ns, m)
        <5>1. Prefix(ns, ms)
          BY <1>2, PrefixAppend DEF ns, ms
        <5>2. Distinct(ms) /\ ns \in Seq(Node) /\ Distinct(ns)
          BY <1>2, <2>1 DEF Sound, ns
        <5> QED
          BY <2>4, <3>1, <5>1, <5>2, PrefixKeeps DEF HasId
      <4> QED
        BY <2>2, <4>1 DEF HeldOf, D!GetDeps, ns
    <3>2. CASE D!Id(ns, m) = -1
      <4>1. -1 \notin DOMAIN DiskDeps(f)
        BY <1>1 DEF MadeOf
      <4>2. D!Id(ms, m) \notin DOMAIN DiskDeps(f)
        <5>1. CASE D!Id(ms, m) = -1
          BY <4>1, <5>1
        <5>2. CASE D!Id(ms, m) # -1
          <6>1. PICK i \in 1 .. Len(ms) : ms[i] = m /\ D!Id(ms, m) = i - 1
            BY <2>4, <5>2, IdIs
          <6>2. \A j \in 1 .. Len(ns) : ns[j] # m
            BY <1>2, <3>2, IdIs DEF ns
          <6>3. i \notin 1 .. Len(ns)
            BY <2>4, <6>1, <6>2
          <6>4. \A id \in DOMAIN DiskDeps(f) : id + 1 \in 1 .. Len(ns) /\ id \in Nat
            BY <1>1 DEF MadeOf, ns
          <6>5. Len(ms) \in Nat /\ i \in Nat /\ (i - 1) + 1 = i
            BY <2>4, <6>1, Elements
          <6> QED
            BY <6>1, <6>3, <6>4, <6>5
        <5> QED
          BY <5>1, <5>2
      <4>3. HeldOf(gv, g)[m] = 0
        BY <2>2, <4>2, HeldIs
      <4>4. HeldOf(gv, f)[m] = 0
        BY <3>2, <4>1, HeldIs DEF ns
      <4> QED
        BY <4>3, <4>4
    <3> QED
      BY <3>1, <3>2
  <2>7. HeldOf(gv, g) = HeldOf(gv, f)
    BY <2>6 DEF HeldOf
  <2>8. OnDisk(gv, g)
    BY <2>2, <2>3, <2>5 DEF OnDisk, Base
  <2> QED
    BY <2>2, <2>7, <2>8 DEF ms, ns
<1>6. ASSUME ~(Whole(f) /\ k = Len(DiskNodes(f)))
      PROVE  /\ OnDisk(gv, g) /\ HeldOf(gv, g) = HeldOf(gv, f) /\ DiskDeps(g) = DiskDeps(f)
             /\ ~Whole(g) /\ DiskNodes(g) = DiskNodes(f)
  <2>1. ~Whole(f) \/ ~D!Readable(Append(h, r), Len(h) + 1)
    <3> SUFFICES ASSUME Whole(f)  PROVE ~D!Readable(g, Len(h) + 1)
      OBVIOUS
    <3>1. g[Len(h) + 1] = r
      BY <1>3, <1>4, Appended
    <3>2. D!NextId(g, Len(h) + 1) = Len(DiskNodes(f))
      BY <1>2, <1>3, <1>4, AppendPaths
    <3> HIDE DEF g
    <3> QED
      BY <1>3, <1>6, <3>1, <3>2 DEF D!Readable
  <2>2. /\ g \in Seq(Record) /\ Sound(Base(g)) /\ ~Whole(g)
        /\ DiskNodes(g) = DiskNodes(f) /\ DiskDeps(g) = DiskDeps(f)
        /\ (MadeOf(gv, g) <=> MadeOf(gv, f)) /\ HeldOf(gv, g) = HeldOf(gv, f)
    BY <1>1, <1>3, <2>1, WriteLost DEF h
  <2> HIDE DEF g
  <2> QED
    BY <1>1, <2>2 DEF OnDisk, Base
<1> HIDE DEF g
<1> QED
  BY <1>5, <1>6 DEF g, h, r

\* The rest of RecordDeps: the entry of the output is the new one.
LEMMA WriteEntry ==
    ASSUME NEW gv, NEW f, OnDisk(gv, f), NEW ns \in Seq(Node),
           Whole(f) => Prefix(ns, DiskNodes(f)),
           NEW o \in Node, NEW d \in Entry, d \in ToSet(gv[o]), d.mtime > 0,
           HasId(ns, o), \A j \in DOMAIN d.deps : HasId(ns, d.deps[j])
    PROVE  LET g == Append(D!Opened(f), D!DepsRecFor(ns, o, d))
           IN  /\ OnDisk(gv, g) /\ DiskNodes(g) = DiskNodes(f)
               /\ IF Whole(f)
                  THEN /\ Whole(g)
                       /\ DiskDeps(g) = D!UpdateDeps(DiskDeps(f), D!Id(ns, o), d)
                       /\ \A n \in Node :
                            HeldOf(gv, g)[n] = IF n = o THEN d.mtime ELSE HeldOf(gv, f)[n]
                  ELSE ~Whole(g) /\ DiskDeps(g) = DiskDeps(f) /\ HeldOf(gv, g) = HeldOf(gv, f)
<1> DEFINE h == D!Opened(f)
           r == D!DepsRecFor(ns, o, d)
           g == Append(h, r)
           N == DiskNodes(f)
<1>1. f \in Seq(Record) /\ Sound(Base(f)) /\ MadeOf(gv, f)
  BY DEF OnDisk, Base
<1>2. /\ N = D!NodesIn(Base(f)) /\ DiskDeps(f) = D!DepsIn(Base(f), N)
      /\ N \in Seq(Node) /\ Distinct(N)
      /\ Size(Base(f)) = Len(N) /\ Len(N) \in Nat
  BY <1>1, BaseIs
<1>3. h \in Seq(Record) /\ (Whole(f) => h = Base(f))
  BY <1>1, OpenedIs
<1>4. d.mtime \in Nat /\ d.deps \in Seq(Node)
  BY DEF Entry
<1> HIDE DEF h, N
<1>5. ASSUME Whole(f)
      PROVE  /\ OnDisk(gv, g) /\ DiskNodes(g) = N /\ Whole(g)
             /\ DiskDeps(g) = D!UpdateDeps(DiskDeps(f), D!Id(ns, o), d)
             /\ \A n \in Node : HeldOf(gv, g)[n] = IF n = o THEN d.mtime ELSE HeldOf(gv, f)[n]
  <2>0. Distinct(ns)
    <3>1. Prefix(ns, N) /\ DOMAIN ns = 1 .. Len(ns) /\ DOMAIN N = 1 .. Len(N) /\ Len(ns) \in Nat
      BY <1>2, <1>5, Elements DEF N
    <3> QED
      BY <1>2, <3>1 DEF Distinct, Prefix
  <2>1. \A n : HasId(ns, n) => HasId(N, n) /\ D!Id(N, n) = D!Id(ns, n)
    BY <1>2, <1>5, <2>0, PrefixKeeps DEF N
  <2>2. r = D!DepsRecFor(N, o, d)
    <3>1. [i \in DOMAIN d.deps |-> D!Id(ns, d.deps[i])] = [i \in DOMAIN d.deps |-> D!Id(N, d.deps[i])]
      BY <2>1
    <3> QED
      BY <2>1, <3>1 DEF D!DepsRecFor
  <2> DEFINE id == D!Id(N, o)
  <2>3. /\ Sound(g) /\ D!NodesIn(g) = N
        /\ D!DepsIn(g, N) = D!UpdateDeps(DiskDeps(f), id, d)
    <3>1. D!Id(D!NodesIn(Base(f)), o) # -1
          /\ \A j \in DOMAIN d.deps : D!Id(D!NodesIn(Base(f)), d.deps[j]) # -1
      BY <1>2, <2>1 DEF HasId
    <3>2. r = D!DepsRecFor(D!NodesIn(Base(f)), o, d) /\ h = Base(f)
      BY <1>2, <1>3, <1>5, <2>2
    <3> HIDE DEF r
    <3>3. /\ Sound(g) /\ D!NodesIn(g) = D!NodesIn(Base(f))
          /\ D!DepsIn(g, D!NodesIn(Base(f)))
               = D!UpdateDeps(D!DepsIn(Base(f), D!NodesIn(Base(f))), D!Id(D!NodesIn(Base(f)), o), d)
      BY <1>1, <3>1, <3>2, SoundDeps
    <3> HIDE DEF g
    <3> QED
      BY <1>2, <3>3
  <2> HIDE DEF g, r
  <2>4. /\ Whole(g) /\ DiskNodes(g) = N /\ g # <<>> /\ g \in Seq(Record)
        /\ DiskDeps(g) = D!UpdateDeps(DiskDeps(f), id, d)
    <3>1. D!Good(g) = g
      BY <2>3, GoodSound
    <3> QED
      BY <2>3, <3>1 DEF Whole, DiskNodes, DiskDeps, Sound
  <2>5. Sound(Base(g))
    BY <2>3, <2>4 DEF Whole, Base, D!Opened, D!Absent
  <2>6. PICK k \in 1 .. Len(N) : N[k] = o /\ id = k - 1
    BY <1>2, <2>1, IdIs DEF HasId
  <2> HIDE DEF id
  <2>7. id \in Nat /\ id + 1 = k
    BY <1>2, <2>6
  <2> DEFINE old == DiskDeps(f)
             new == DiskDeps(g)
  <2>8. new = [x \in DOMAIN old \cup {id} |-> IF x = id THEN d ELSE old[x]]
    BY <2>4 DEF D!UpdateDeps
  <2>9. \A x \in DOMAIN old : /\ x \in Nat /\ x + 1 \in 1 .. Len(N)
                              /\ old[x] \in ToSet(gv[N[x + 1]])
    BY <1>1 DEF MadeOf, N
  <2>10. MadeOf(gv, g)
    <3> HIDE DEF old, new
    <3>1. ASSUME NEW x \in DOMAIN new
          PROVE  /\ x \in Nat /\ x + 1 \in 1 .. Len(N) /\ new[x] \in ToSet(gv[N[x + 1]])
      <4>1. CASE x = id
        <5>1. new[x] = d /\ N[x + 1] = o
          BY <2>6, <2>7, <2>8, <4>1
        <5> QED
          BY <2>6, <2>7, <4>1, <5>1
      <4>2. CASE x # id
        <5>1. x \in DOMAIN old /\ new[x] = old[x]
          BY <2>8, <4>2
        <5> QED
          BY <2>9, <5>1
      <4> QED
        BY <4>1, <4>2
    <3> QED
      BY <2>4, <3>1 DEF MadeOf, new
  <2>11. ASSUME NEW n \in Node
         PROVE  HeldOf(gv, g)[n] = IF n = o THEN d.mtime ELSE HeldOf(gv, f)[n]
    <3>1. CASE n = o
      <4>1. D!Id(DiskNodes(g), n) = id /\ id \in DOMAIN new /\ new[id] = d
        BY <2>4, <2>8, <3>1 DEF id
      <4>2. d # D!NoRecord
        BY DEF D!NoRecord
      <4> HIDE DEF new
      <4>3. HeldOf(gv, g)[n] = IF d = D!NoRecord THEN 0 ELSE IF d \in ToSet(gv[n]) THEN d.mtime ELSE -1
        BY <4>1, HeldIs DEF new
      <4> QED
        BY <3>1, <4>2, <4>3
    <3>2. CASE n # o
      <4>1. D!Id(N, n) # id
        <5>1. CASE D!Id(N, n) = -1
          BY <2>7, <5>1
        <5>2. CASE D!Id(N, n) # -1
          <6>1. PICK i \in 1 .. Len(N) : N[i] = n /\ D!Id(N, n) = i - 1
            BY <1>2, <5>2, IdIs
          <6> QED
            BY <1>2, <2>6, <3>2, <6>1
        <5> QED
          BY <5>1, <5>2
      <4>2. /\ D!Id(N, n) \in DOMAIN new <=> D!Id(N, n) \in DOMAIN old
            /\ D!Id(N, n) \in DOMAIN old => new[D!Id(N, n)] = old[D!Id(N, n)]
        <5> HIDE DEF old, new
        <5> QED
          BY <2>8, <4>1
      <4>3. D!GetDeps(N, new, n) = D!GetDeps(N, old, n)
        BY <4>2 DEF D!GetDeps
      <4> QED
        BY <2>4, <3>2, <4>3 DEF HeldOf, N
    <3> QED
      BY <3>1, <3>2
  <2>12. OnDisk(gv, g)
    BY <2>4, <2>5, <2>10 DEF OnDisk, Base
  <2>13. id = D!Id(ns, o)
    BY <2>1 DEF id
  <2> QED
    BY <2>4, <2>11, <2>12, <2>13
<1>6. ASSUME ~Whole(f)
      PROVE  /\ OnDisk(gv, g) /\ DiskNodes(g) = N
             /\ ~Whole(g) /\ DiskDeps(g) = DiskDeps(f) /\ HeldOf(gv, g) = HeldOf(gv, f)
  <2>1. r \in Record
    <3>1. \A n : HasId(ns, n) => D!Id(ns, n) \in Nat
      <4> SUFFICES ASSUME NEW n, HasId(ns, n)  PROVE D!Id(ns, n) \in Nat
        OBVIOUS
      <4>1. PICK i \in 1 .. Len(ns) : D!Id(ns, n) = i - 1
        BY IdIs DEF HasId
      <4>2. Len(ns) \in Nat
        BY Elements
      <4> QED
        BY <4>1, <4>2
    <3> DEFINE ids == [i \in DOMAIN d.deps |-> D!Id(ns, d.deps[i])]
    <3>2. DOMAIN d.deps = 1 .. Len(d.deps) /\ Len(d.deps) \in Nat
      BY <1>4, Elements
    <3>3. ids \in [1 .. Len(d.deps) -> Nat]
      BY <3>1, <3>2
    <3>4. ids \in Seq(Nat)
      BY <3>2, <3>3
    <3>5. r = [kind |-> "deps", out |-> D!Id(ns, o), mtime |-> d.mtime, ids |-> ids]
      BY DEF D!DepsRecFor, D!DepsRec
    <3>6. D!Id(ns, o) \in Nat
      BY <3>1
    <3> HIDE DEF r, ids
    <3> QED
      BY <1>4, <3>4, <3>5, <3>6 DEF Record
  <2> HIDE DEF r
  <2>2. /\ g \in Seq(Record) /\ Sound(Base(g)) /\ ~Whole(g)
        /\ DiskNodes(g) = DiskNodes(f) /\ DiskDeps(g) = DiskDeps(f)
        /\ (MadeOf(gv, g) <=> MadeOf(gv, f)) /\ HeldOf(gv, g) = HeldOf(gv, f)
    BY <1>1, <1>6, <2>1, WriteLost DEF h
  <2> HIDE DEF g
  <2> QED
    BY <1>1, <2>2 DEF OnDisk, Base, N
<1> HIDE DEF g
<1> QED
  BY <1>5, <1>6 DEF g, h, N

LEMMA MadeEntry ==
    ASSUME NEW gv \in [Node -> Seq(Entry)], NEW f, OnDisk(gv, f)
    PROVE  \A id \in DOMAIN DiskDeps(f) : DiskDeps(f)[id] \in Entry
<1> SUFFICES ASSUME NEW id \in DOMAIN DiskDeps(f)  PROVE DiskDeps(f)[id] \in Entry
  OBVIOUS
<1> DEFINE ns == DiskNodes(f)
           d == DiskDeps(f)[id]
<1>1. id + 1 \in 1 .. Len(ns) /\ d \in ToSet(gv[ns[id + 1]])
  BY DEF OnDisk, MadeOf
<1>2. ns \in Seq(Node)
  BY BaseIs DEF OnDisk, Base
<1> HIDE DEF ns, d
<1>3. ns[id + 1] \in Node
  BY <1>1, <1>2, Elements
<1>4. gv[ns[id + 1]] \in Seq(Entry)
  BY <1>3
<1>5. d \in Entry
  BY <1>1, <1>4, ElementsIn
<1> QED
  BY <1>5 DEF d

\* Recompact: the new log holds some of what the old one does.
LEMMA CompactDisk ==
    ASSUME NEW gv \in [Node -> Seq(Entry)], NEW f, OnDisk(gv, f)
    PROVE  LET g == D!Recompacted(DiskNodes(f), DiskDeps(f))
           IN  /\ Sound(g) /\ OnDisk(gv, g)
               /\ \A n \in Node : HeldOf(gv, g)[n] \in {0, HeldOf(gv, f)[n]}
<1> DEFINE ns == DiskNodes(f)
           ds == DiskDeps(f)
           g == D!Recompacted(ns, ds)
           l == [nodes |-> D!NodesIn(g), recs |-> g]
<1>1. ns \in Seq(Node) /\ Distinct(ns)
  BY BaseIs DEF OnDisk, Base
<1>2. Sound(g) /\ From(l, ns, ds)
  BY <1>1, MadeEntry, RecompactedRight
<1> HIDE DEF g, ns, ds
<1>3. D!Good(g) = g /\ g \in Seq(Record) /\ g # <<>>
  BY <1>2, GoodSound DEF Sound
<1>4. DiskNodes(g) = D!NodesIn(g) /\ DiskDeps(g) = D!DepsIn(g, D!NodesIn(g))
  BY <1>3 DEF DiskNodes, DiskDeps
<1>5. \A id \in DOMAIN DiskDeps(g) :
        /\ id \in Nat /\ id + 1 \in 1 .. Len(DiskNodes(g))
        /\ \E i \in 1 .. Len(ns) : /\ i - 1 \in DOMAIN ds /\ ns[i] = DiskNodes(g)[id + 1]
                                   /\ DiskDeps(g)[id] = ds[i - 1]
  BY <1>2, <1>4 DEF From, DepsOfLog
<1>6. \A i \in 1 .. Len(ns) : i - 1 \in DOMAIN ds => ds[i - 1] \in ToSet(gv[ns[i]])
  <2> SUFFICES ASSUME NEW i \in 1 .. Len(ns), i - 1 \in DOMAIN ds  PROVE ds[i - 1] \in ToSet(gv[ns[i]])
    OBVIOUS
  <2>1. (i - 1) + 1 = i
    BY <1>1, Elements
  <2>2. ds[i - 1] \in ToSet(gv[ns[(i - 1) + 1]])
    BY DEF OnDisk, MadeOf, ns, ds
  <2> QED
    BY <2>1, <2>2
<1>7. MadeOf(gv, g)
  BY <1>5, <1>6 DEF MadeOf
<1>8. OnDisk(gv, g)
  BY <1>2, <1>3, <1>7 DEF OnDisk, D!Opened, D!Absent
<1>9. ASSUME NEW n \in Node  PROVE HeldOf(gv, g)[n] \in {0, HeldOf(gv, f)[n]}
  <2> DEFINE id == D!Id(DiskNodes(g), n)
  <2>1. CASE id \notin DOMAIN DiskDeps(g)
    BY <2>1, HeldIs
  <2>2. CASE id \in DOMAIN DiskDeps(g)
    <3>1. PICK i \in 1 .. Len(ns) : /\ i - 1 \in DOMAIN ds /\ ns[i] = DiskNodes(g)[id + 1]
                                    /\ DiskDeps(g)[id] = ds[i - 1]
      BY <1>5, <2>2
    <3>2. DiskNodes(g) \in Seq(Node)
      BY <1>4, <1>2 DEF Sound
    <3>3. id # -1
      BY <1>5, <2>2
    <3>4. DiskNodes(g)[id + 1] = n
      <4>1. PICK k \in 1 .. Len(DiskNodes(g)) : DiskNodes(g)[k] = n /\ id = k - 1
        BY <3>2, <3>3, IdIs
      <4>2. id + 1 = k
        BY <3>2, <4>1, Elements
      <4> QED
        BY <4>1, <4>2
    <3>5. D!Id(ns, n) = i - 1
      BY <1>1, <3>1, <3>4, IdAt
    <3> HIDE DEF id
    <3> DEFINE d == ds[i - 1]
    <3>6. HeldOf(gv, g)[n] = IF d = D!NoRecord THEN 0 ELSE IF d \in ToSet(gv[n]) THEN d.mtime ELSE -1
      BY <2>2, <3>1, HeldIs DEF id
    <3>7. HeldOf(gv, f)[n] = IF d = D!NoRecord THEN 0 ELSE IF d \in ToSet(gv[n]) THEN d.mtime ELSE -1
      BY <3>1, <3>5, HeldIs DEF ns, ds
    <3> QED
      BY <3>6, <3>7
  <2> QED
    BY <2>1, <2>2
<1> QED
  BY <1>2, <1>8, <1>9 DEF g, ns, ds

\* A record that is given is in no log yet.
LEMMA GiveDisk ==
    ASSUME NEW gv, NEW f, OnDisk(gv, f), NEW gw,
           \A n \in Node : ToSet(gv[n]) \subseteq ToSet(gw[n])
    PROVE  OnDisk(gw, f) /\ HeldOf(gw, f) = HeldOf(gv, f)
<1> DEFINE ns == DiskNodes(f)
           ds == DiskDeps(f)
<1>1. ns \in Seq(Node) /\ Distinct(ns)
  BY BaseIs DEF OnDisk, Base
<1>2. \A id \in DOMAIN ds : /\ id \in Nat /\ id + 1 \in 1 .. Len(ns)
                            /\ ds[id] \in ToSet(gv[ns[id + 1]])
  BY DEF OnDisk, MadeOf
<1> HIDE DEF ns, ds
<1>3. \A id \in DOMAIN ds : ns[id + 1] \in Node
  BY <1>1, <1>2, Elements
<1>4. MadeOf(gw, f)
  BY <1>2, <1>3 DEF MadeOf, ns, ds
<1>5. OnDisk(gw, f)
  BY <1>4 DEF OnDisk
<1>6. ASSUME NEW n \in Node  PROVE HeldOf(gw, f)[n] = HeldOf(gv, f)[n]
  <2> DEFINE id == D!Id(ns, n)
             d == ds[id]
  <2>1. CASE id \notin DOMAIN ds
    BY <2>1, HeldIs DEF ns, ds
  <2>2. CASE id \in DOMAIN ds
    <3>1. ns[id + 1] = n
      <4>1. id # -1
        BY <1>2, <2>2
      <4>2. PICK k \in 1 .. Len(ns) : ns[k] = n /\ id = k - 1
        BY <1>1, <4>1, IdIs
      <4>3. id + 1 = k
        BY <1>1, <4>2, Elements
      <4> QED
        BY <4>2, <4>3
    <3>2. d \in ToSet(gv[n]) /\ d \in ToSet(gw[n])
      BY <1>2, <2>2, <3>1
    <3>3. HeldOf(gv, f)[n] = IF d = D!NoRecord THEN 0 ELSE IF d \in ToSet(gv[n]) THEN d.mtime ELSE -1
      BY <2>2, HeldIs DEF ns, ds
    <3>4. HeldOf(gw, f)[n] = IF d = D!NoRecord THEN 0 ELSE IF d \in ToSet(gw[n]) THEN d.mtime ELSE -1
      BY <2>2, HeldIs DEF ns, ds
    <3> QED
      BY <3>2, <3>3, <3>4
  <2> QED
    BY <2>1, <2>2
<1>7. HeldOf(gw, f) = HeldOf(gv, f)
  BY <1>6 DEF HeldOf
<1> QED
  BY <1>5, <1>7

\* What Load leaves of a file, and the file that Close leaves.
LEMMA LoadDisk ==
    ASSUME NEW gv, NEW f, OnDisk(gv, f)
    PROVE  /\ OnDisk(gv, D!Good(f)) /\ HeldOf(gv, D!Good(f)) = HeldOf(gv, f)
           /\ Whole(D!Good(f)) /\ DiskNodes(D!Good(f)) = DiskNodes(f)
           /\ DiskDeps(D!Good(f)) = DiskDeps(f)
<1>1. D!Good(D!Good(f)) = D!Good(f) /\ D!Good(f) \in Seq(Record)
  BY BaseIs, GoodShort DEF OnDisk, Base
<1> QED
  BY <1>1, SameGood DEF OnDisk, Whole

LEMMA OpenDisk ==
    ASSUME NEW gv, NEW f, OnDisk(gv, f)
    PROVE  LET g == D!Opened(f)
           IN  /\ OnDisk(gv, g) /\ HeldOf(gv, g) = HeldOf(gv, f) /\ (Whole(g) <=> Whole(f))
               /\ DiskNodes(g) = DiskNodes(f) /\ DiskDeps(g) = DiskDeps(f)
<1>1. f \in Seq(Record) /\ Sound(Base(f))
  BY DEF OnDisk, Base
<1> QED
  BY <1>1, OpenedIs DEF OnDisk, Base

LEMMA NoDisk ==
    ASSUME NEW gv
    PROVE  /\ OnDisk(gv, <<>>) /\ Whole(<<>>) /\ \A n \in Node : HeldOf(gv, <<>>)[n] = 0
           /\ DiskNodes(<<>>) = <<>>
<1>1. D!Good(<<>>) = <<>> /\ Whole(<<>>) /\ DiskNodes(<<>>) = <<>>
  BY GoodEmpty, SoundStart DEF Whole, DiskNodes
<1>2. DiskDeps(<<>>) = D!DepsIn(<<>>, <<>>)
  BY <1>1 DEF DiskDeps
<1>3. DOMAIN DiskDeps(<<>>) = {}
  BY <1>2, SoundStart, DepsInIs
<1>4. \A n \in Node : HeldOf(gv, <<>>)[n] = 0
  BY <1>3, HeldIs
<1>5. MadeOf(gv, <<>>)
  BY <1>3 DEF MadeOf
<1>6. Sound(D!Opened(<<>>))
  BY SoundStart DEF D!Opened, D!Absent
<1>7. <<>> \in Seq(Record)
  OBVIOUS
<1>8. OnDisk(gv, <<>>)
  BY <1>1, <1>5, <1>6, <1>7 DEF OnDisk
<1> QED
  BY <1>1, <1>4, <1>8

-----------------------------------------------------------------------------
(***************************************************************************)
(* The deps log: every step keeps the invariant.                           *)
(***************************************************************************)
HeldWith(gv, ns, ds) ==
    [n \in Node |-> LET d == D!GetDeps(ns, ds, n)
                    IN  IF d = D!NoRecord THEN 0 ELSE IF d \in ToSet(gv[n]) THEN d.mtime ELSE -1]

LEMMA HeldOfIs == \A gv, f : HeldOf(gv, f) = HeldWith(gv, DiskNodes(f), DiskDeps(f))
  BY DEF HeldOf, HeldWith

LEMMA OnlyChoice ==
    ASSUME NEW x, NEW S, S = {x}
    PROVE  (CHOOSE y \in S : TRUE) = x
  OBVIOUS

LEMMA AtNow == (D!At)' = HeldOf(dgiven', Effective')
<1> DEFINE S == {HeldWith(dgiven', l.nodes, l.deps) : l \in {D!Loaded(Effective')}}
<1>1. (D!At)' = CHOOSE at \in S : TRUE
  <2>1. ASSUME NEW ns, NEW ds  PROVE (D!Held(ns, ds))' = HeldWith(dgiven', ns, ds)
    BY Collected DEF D!Held, HeldWith
  <2> QED
    BY <2>1 DEF D!At, Effective, Unlinked
<1>2. S = {HeldWith(dgiven', DiskNodes(Effective'), DiskDeps(Effective'))}
  BY LoadedIs
<1> HIDE DEF S
<1>3. (CHOOSE at \in S : TRUE) = HeldWith(dgiven', DiskNodes(Effective'), DiskDeps(Effective'))
  BY <1>2, OnlyChoice
<1> QED
  BY <1>1, <1>3, HeldOfIs

\* What a step does to the promise of the log: it loses an entry, or moves on to
\* the newest one.
Moved == /\ dgiven' = dgiven
         /\ \A n \in Node : dheld'[n] \in {0, dheld[n], Len(dgiven[n])}

\* A process that is not alone is building, and so are the others.
LEMMA Company ==
    ASSUME DepsInv, NEW p \in Process, NEW q \in Process, p # q, dpc[p] # "off", dpc[q] # "off"
    PROVE  ~alone[p] /\ ~alone[q] /\ dpc[p] \in {"idle", "record"} /\ dpc[q] \in {"idle", "record"}
<1>1. AloneRight(p) /\ AloneRight(q)
  BY DEF DepsInv, ProcessRight
<1>2. q \in D!Others(p) /\ p \in D!Others(q)
  BY DEF D!Others
<1>3. ~alone[p] /\ ~alone[q]
  BY <1>1, <1>2 DEF AloneRight
<1>4. dpc[p] \notin {"compact", "unlinked"} /\ dpc[q] \notin {"compact", "unlinked"}
  BY <1>1, <1>3 DEF AloneRight
<1> QED
  BY <1>3, <1>4 DEF DepsInv, DepsTyped

LEMMA NotUnlinked ==
    ASSUME DepsInv, NEW p \in Process, dpc[p] \in {"idle", "record", "compact"}
    PROVE  Effective = file
  BY Company DEF Effective, Unlinked

\* What a process that is recording has to do.
LEMMA Task ==
    ASSUME DepsInv, NEW p \in Process, dpc[p] = "record"
    PROVE  LET o == dtodo[p].out
               d == dtodo[p].rec
           IN  /\ o \in Node /\ d \in Entry /\ d \in ToSet(dgiven[o])
               /\ d.mtime = Len(dgiven[o]) /\ d.mtime > 0
               /\ D!Names(p) \in Seq(Node) /\ D!Names(p)[1] = o /\ 1 \in DOMAIN D!Names(p)
               /\ \A j \in DOMAIN d.deps : j + 1 \in DOMAIN D!Names(p) /\ D!Names(p)[j + 1] = d.deps[j]
<1> DEFINE o == dtodo[p].out
           d == dtodo[p].rec
           s == dgiven[o]
<1>1. o \in Node /\ s # <<>> /\ d = s[Len(s)]
  BY DEF DepsInv, ProcessRight, TodoRight
<1>2. s \in Seq(Entry) /\ \A i \in DOMAIN s : s[i].mtime = i
  BY <1>1 DEF DepsInv, DepsTyped, DiskRight
<1> DEFINE names == <<o>> \o d.deps
<1>3. D!Names(p) = names
  BY DEF D!Names
<1> HIDE DEF o, d, s
<1>4. Len(s) \in DOMAIN s /\ Len(s) > 0
  BY <1>1, <1>2, Elements, EmptySeq
<1>5. d \in Entry /\ d \in ToSet(s) /\ d.mtime = Len(s)
  BY <1>1, <1>2, <1>4 DEF ToSet
<1>6. d.deps \in Seq(Node) /\ <<o>> \in Seq(Node) /\ Len(<<o>>) = 1
  BY <1>1, <1>5 DEF Entry
<1>7. DOMAIN d.deps = 1 .. Len(d.deps) /\ Len(d.deps) \in Nat
  BY <1>6, Elements
<1>8. /\ names \in Seq(Node) /\ DOMAIN names = 1 .. 1 + Len(d.deps)
      /\ \A i \in 1 .. 1 + Len(d.deps) : names[i] = IF i <= 1 THEN <<o>>[i] ELSE d.deps[i - 1]
  <2>1. DOMAIN names = 1 .. Len(<<o>>) + Len(d.deps)
        /\ \A i \in 1 .. Len(<<o>>) + Len(d.deps) :
              names[i] = IF i <= Len(<<o>>) THEN <<o>>[i] ELSE d.deps[i - Len(<<o>>)]
    BY <1>6, Joined
  <2>2. names \in Seq(Node)
    BY <1>6, ConcatProperties
  <2> HIDE DEF names
  <2> QED
    BY <1>6, <2>1, <2>2
<1> HIDE DEF names
<1>9. names[1] = o /\ 1 \in DOMAIN names
  BY <1>7, <1>8
<1>10. \A j \in DOMAIN d.deps : j + 1 \in DOMAIN names /\ names[j + 1] = d.deps[j]
  BY <1>7, <1>8
<1> QED
  BY <1>1, <1>3, <1>4, <1>5, <1>8, <1>9, <1>10 DEF o, d, s

\* The other processes, when p takes a step.
LEMMA OthersRight ==
    ASSUME DepsInv, NEW p \in Process, NEW q \in Process \ {p}, dpc[p] # "off",
           \A r \in Process \ {p} : dpc'[r] = dpc[r] /\ dtodo'[r] = dtodo[r],
           nodes'[q] = nodes[q], opened'[q] = opened[q],
           dwrote'[q] = dwrote[q], alone'[q] = alone[q],
           dpc[q] = "record" =>
              /\ dgiven'[dtodo[q].out] = dgiven[dtodo[q].out]
              /\ dpc'[p] = "record" => dtodo'[p].out # dtodo[q].out,
           dpc[q] # "off" =>
              (Whole(file') => Whole(file) /\ Prefix(DiskNodes(file), DiskNodes(file'))
                                /\ DiskNodes(file') \in Seq(Node))
    PROVE  ProcessRight(q)'
<1>0. DepsTyped /\ ProcessRight(q) /\ q \in Process /\ q # p
  BY DEF DepsInv
<1>1. CASE dpc[q] = "off"
  <2>1. dpc'[q] = "off"
    BY <1>0, <1>1
  <2> QED
    BY <2>1 DEF ProcessRight, TodoRight, AloneRight, MemoryRight, CompactRight, WroteRight
<1>2. CASE dpc[q] # "off"
  <2>1. ~alone[q] /\ dpc[q] \in {"idle", "record"} /\ dpc'[q] = dpc[q] /\ ~alone'[q]
    BY <1>0, <1>2, Company
  <2>2. TodoRight(q)'
    <3> SUFFICES ASSUME dpc[q] = "record"
                 PROVE  /\ dtodo'[q].out \in Node /\ dgiven'[dtodo'[q].out] # <<>>
                        /\ dtodo'[q].rec = dgiven'[dtodo'[q].out][Len(dgiven'[dtodo'[q].out])]
                        /\ \A r \in Process \ {q} : dpc'[r] = "record" => dtodo'[r].out # dtodo'[q].out
      BY <2>1 DEF TodoRight
    <3>1. TodoRight(q) /\ dtodo'[q] = dtodo[q] /\ dgiven'[dtodo[q].out] = dgiven[dtodo[q].out]
      BY <1>0 DEF ProcessRight
    <3>2. ASSUME NEW r \in Process \ {q}, dpc'[r] = "record"  PROVE dtodo'[r].out # dtodo'[q].out
      <4>1. CASE r = p
        BY <3>1, <3>2, <4>1
      <4>2. CASE r # p
        <5>1. dpc[r] = "record" /\ dtodo'[r] = dtodo[r]
          BY <3>2, <4>2
        <5> QED
          BY <3>1, <5>1 DEF TodoRight
      <4> QED
        BY <4>1, <4>2
    <3> QED
      BY <3>1, <3>2 DEF TodoRight
  <2>3. AloneRight(q)'
    BY <2>1 DEF AloneRight
  <2>4. MemoryRight(q)'
    <3>1. ASSUME Whole(file')  PROVE Prefix(nodes'[q], DiskNodes(file'))
      <4>1. Whole(file) /\ Prefix(DiskNodes(file), DiskNodes(file')) /\ DiskNodes(file') \in Seq(Node)
        BY <1>2, <3>1
      <4>2. Prefix(nodes[q], DiskNodes(file))
        BY <1>0, <2>1, <4>1 DEF ProcessRight, MemoryRight
      <4>3. DiskNodes(file) \in Seq(Node) /\ nodes[q] \in Seq(Node)
        BY BaseIs DEF DepsInv, DepsTyped, DiskRight, OnDisk, Base
      <4> QED
        BY <4>1, <4>2, <4>3, PrefixTwice
    <3> QED
      BY <2>1, <3>1 DEF MemoryRight
  <2>5. CompactRight(q)'
    BY <2>1 DEF CompactRight
  <2>6. WroteRight(q)'
    BY <1>0, <2>1 DEF ProcessRight, WroteRight
  <2> QED
    BY <2>2, <2>3, <2>4, <2>5, <2>6 DEF ProcessRight
<1> QED
  BY <1>1, <1>2

LEMMA RecordIdStep ==
    ASSUME DepsInv, NEW p \in Process, D!RecordId(p), dheld' = (D!At)'
    PROVE  DepsInv' /\ Moved
<1> DEFINE names == D!Names(p)
           M == D!Missing(p)
           n == names[CHOOSE i \in M : \A j \in M : i <= j]
           k == Len(nodes[p])
           g == Append(D!Opened(file), D!PathRec(n, k))
<1>1. /\ dpc[p] = "record" /\ M # {}
      /\ file' = g /\ nodes' = [nodes EXCEPT ![p] = Append(@, n)]
      /\ opened' = [opened EXCEPT ![p] = TRUE]
      /\ UNCHANGED <<dtemp, dpc, deps, dtodo, alone, dwrote, dgiven, dstarts>>
  BY DEF D!RecordId, D!histVars
<1>2. DepsTyped /\ DiskRight /\ ProcessRight(p) /\ OnDisk(dgiven, file)
  BY DEF DepsInv, DiskRight
<1>3. nodes[p] \in Seq(Node) /\ k \in Nat
  BY <1>2 DEF DepsTyped
<1>4. n \in Node /\ D!Id(nodes[p], n) = -1
  <2>1. names \in Seq(Node)
    BY <1>1, Task
  <2>2. M \subseteq Nat /\ M \subseteq DOMAIN names
    BY <2>1, Elements DEF D!Missing
  <2>3. \E i \in M : \A j \in M : i <= j
    <3> HIDE DEF M, names
    <3> QED
      BY <1>1, <2>2, Smallest
  <2> DEFINE i == CHOOSE i \in M : \A j \in M : i <= j
  <2>4. i \in M
    BY <2>3
  <2>5. i \in DOMAIN names /\ D!Id(nodes[p], names[i]) = -1
    BY <2>4 DEF D!Missing
  <2> HIDE DEF i, names
  <2>6. names[i] \in Node
    BY <2>1, <2>5, Elements
  <2> QED
    BY <2>5, <2>6 DEF i
<1> HIDE DEF n, M, names
<1> DEFINE N == DiskNodes(file)
<1>5. N \in Seq(Node) /\ Len(N) \in Nat
  BY <1>2, BaseIs, Elements DEF OnDisk, Base
<1>6. ASSUME Whole(file), k = Len(N)  PROVE nodes[p] = N
  <2>1. Prefix(nodes[p], N)
    BY <1>1, <1>2, <1>6 DEF ProcessRight, MemoryRight
  <2> QED
    BY <1>3, <1>5, <1>6, <2>1, SameSeq DEF Prefix
<1>7. /\ OnDisk(dgiven, g) /\ HeldOf(dgiven, g) = HeldOf(dgiven, file) /\ DiskDeps(g) = DiskDeps(file)
      /\ IF Whole(file) /\ k = Len(N)
         THEN Whole(g) /\ DiskNodes(g) = Append(N, n)
         ELSE ~Whole(g) /\ DiskNodes(g) = N
  <2>1. Whole(file) /\ k = Len(N) => D!Id(N, n) = -1
    BY <1>4, <1>6
  <2> QED
    BY <1>2, <1>3, <1>4, <2>1, WritePath
<1> HIDE DEF g, k, N
<1>8. Effective = file /\ Effective' = file'
  <2>1. ~Unlinked
    BY <1>1, Company DEF Unlinked
  <2> QED
    BY <1>1, <2>1 DEF Effective, Unlinked
<1>9. dheld' = dheld
  BY <1>1, <1>2, <1>7, <1>8, AtNow DEF DiskRight
<1>10. nodes'[p] = Append(nodes[p], n) /\ nodes' \in [Process -> Seq(Node)]
       /\ \A q \in Process \ {p} : nodes'[q] = nodes[q] /\ opened'[q] = opened[q]
  <2>1. Append(nodes[p], n) \in Seq(Node)
    BY <1>3, <1>4, Appended
  <2> DEFINE v == Append(nodes[p], n)
  <2>2. nodes' = [nodes EXCEPT ![p] = v] /\ opened' = [opened EXCEPT ![p] = TRUE]
    BY <1>1
  <2> HIDE DEF v
  <2>3. nodes'[p] = v /\ nodes' \in [Process -> Seq(Node)]
        /\ \A q \in Process \ {p} : nodes'[q] = nodes[q] /\ opened'[q] = opened[q]
    BY <1>2, <2>1, <2>2 DEF DepsTyped, v
  <2> QED
    BY <2>3 DEF v
<1>11. DepsTyped'
  BY <1>1, <1>2, <1>10 DEF DepsTyped
<1>12. DiskRight'
  <2>1. dheld' = HeldOf(dgiven', Effective')
    BY AtNow
  <2> QED
    BY <1>1, <1>2, <1>7, <2>1 DEF DiskRight
<1>13. ProcessRight(p)'
  <2>1. TodoRight(p)'
    BY <1>1, <1>2 DEF ProcessRight, TodoRight
  <2>2. AloneRight(p)'
    BY <1>1, <1>2 DEF ProcessRight, AloneRight, D!Others
  <2>3. MemoryRight(p)'
    <3>1. ASSUME Whole(file')  PROVE Prefix(nodes'[p], DiskNodes(file'))
      <4>1. Whole(file) /\ k = Len(N) /\ DiskNodes(g) = Append(N, n)
        BY <1>1, <1>7, <3>1
      <4>2. nodes[p] = N
        BY <1>6, <4>1
      <4>3. nodes'[p] = DiskNodes(file') /\ nodes'[p] \in Seq(Node)
        BY <1>1, <1>10, <4>1, <4>2
      <4> QED
        BY <4>3, PrefixAppend, <1>4
    <3>2. ASSUME alone[p]
          PROVE  Whole(file') /\ nodes'[p] = DiskNodes(file') /\ deps'[p] = DiskDeps(file')
      <4>1. Whole(file) /\ nodes[p] = N /\ deps[p] = DiskDeps(file)
        BY <1>1, <1>2, <3>2 DEF ProcessRight, MemoryRight, N
      <4>2. k = Len(N)
        BY <4>1 DEF k
      <4> QED
        BY <1>1, <1>7, <1>10, <4>1, <4>2
    <3> QED
      BY <1>1, <3>1, <3>2 DEF MemoryRight
  <2>4. CompactRight(p)'
    BY <1>1 DEF CompactRight
  <2>5. WroteRight(p)'
    <3>1. opened'[p] = TRUE
      BY <1>1, <1>2 DEF DepsTyped
    <3> QED
      BY <1>1, <1>2, <1>9, <3>1 DEF ProcessRight, WroteRight
  <2> QED
    BY <2>1, <2>2, <2>3, <2>4, <2>5 DEF ProcessRight
<1>14. ASSUME NEW q \in Process \ {p}  PROVE ProcessRight(q)'
  <2>1. dpc[q] = "record" => dpc[p] = "record" /\ dtodo[p].out # dtodo[q].out
    BY <1>1, <1>2, <1>14 DEF ProcessRight, TodoRight
  <2>2. Whole(file') => Whole(file) /\ Prefix(DiskNodes(file), DiskNodes(file'))
                          /\ DiskNodes(file') \in Seq(Node)
    <3> SUFFICES ASSUME Whole(g)
                 PROVE  Whole(file) /\ Prefix(N, DiskNodes(g)) /\ DiskNodes(g) \in Seq(Node)
      BY <1>1 DEF N
    <3>1. Whole(file) /\ DiskNodes(g) = Append(N, n)
      BY <1>7
    <3>2. Append(N, n) \in Seq(Node) /\ Prefix(N, Append(N, n))
      BY <1>4, <1>5, Appended, PrefixAppend
    <3> QED
      BY <3>1, <3>2
  <2>3. dtodo' = dtodo /\ dgiven' = dgiven /\ dpc' = dpc /\ dwrote' = dwrote /\ alone' = alone
    BY <1>1
  <2>4. nodes'[q] = nodes[q] /\ opened'[q] = opened[q]
    BY <1>10
  <2> QED
    BY <1>1, <2>1, <2>2, <2>3, <2>4, OthersRight
<1>15. DepsInv'
  BY <1>11, <1>12, <1>13, <1>14 DEF DepsInv
<1>16. Moved
  BY <1>1, <1>9 DEF Moved
<1> QED
  BY <1>15, <1>16

LEMMA UpdatedAt ==
    ASSUME NEW S, NEW f \in [Process -> S], NEW p \in Process, NEW v \in S,
           NEW g, g = [f EXCEPT ![p] = v]
    PROVE  g \in [Process -> S] /\ g[p] = v /\ \A q \in Process \ {p} : g[q] = f[q]
  OBVIOUS

LEMMA Assigned ==
    ASSUME NEW f, f = [q \in Process |-> f[q]], NEW p \in Process, NEW v,
           NEW g, g = [f EXCEPT ![p] = v]
    PROVE  g = [q \in Process |-> g[q]] /\ g[p] = v /\ \A q \in Process \ {p} : g[q] = f[q]
<1>1. DOMAIN f = Process
  OBVIOUS
<1>2. DOMAIN g = Process /\ g[p] = v /\ \A q \in Process \ {p} : g[q] = f[q]
  BY <1>1
<1>3. g = [q \in Process |-> IF q = p THEN v ELSE f[q]]
  BY <1>1
<1>4. [q \in Process |-> g[q]] = [q \in Process |-> IF q = p THEN v ELSE f[q]]
  BY <1>2
<1> QED
  BY <1>2, <1>3, <1>4

LEMMA WriteDepsStep ==
    ASSUME DepsInv, NEW p \in Process, D!WriteDeps(p), dheld' = (D!At)'
    PROVE  DepsInv' /\ Moved
<1> DEFINE o == dtodo[p].out
           d == dtodo[p].rec
           ns == nodes[p]
           g == Append(D!Opened(file), D!DepsRecFor(ns, o, d))
           ds == D!UpdateDeps(deps[p], D!Id(ns, o), d)
           N == DiskNodes(file)
<1>1. /\ dpc[p] = "record" /\ D!Missing(p) = {}
      /\ file' = g
      /\ deps' = [deps EXCEPT ![p] = ds]
      /\ opened' = [opened EXCEPT ![p] = TRUE]
      /\ dpc' = [dpc EXCEPT ![p] = "idle"]
      /\ dtodo' = [dtodo EXCEPT ![p] = D!Nothing]
      /\ dwrote' = [dwrote EXCEPT ![p] = dwrote[p] \cup {o}]
      /\ UNCHANGED <<dtemp, nodes, alone, dgiven, dstarts>>
  BY DEF D!WriteDeps
<1>2. DepsTyped /\ DiskRight /\ ProcessRight(p) /\ OnDisk(dgiven, file)
  BY DEF DepsInv, DiskRight
<1>3. ns \in Seq(Node)
  BY <1>2 DEF DepsTyped
<1>4. /\ o \in Node /\ d \in Entry /\ d \in ToSet(dgiven[o])
      /\ d.mtime = Len(dgiven[o]) /\ d.mtime > 0
      /\ D!Names(p)[1] = o /\ 1 \in DOMAIN D!Names(p)
      /\ \A j \in DOMAIN d.deps : j + 1 \in DOMAIN D!Names(p) /\ D!Names(p)[j + 1] = d.deps[j]
  BY <1>1, Task
<1>5. HasId(ns, o) /\ \A j \in DOMAIN d.deps : HasId(ns, d.deps[j])
  <2>1. \A i \in DOMAIN D!Names(p) : HasId(ns, D!Names(p)[i])
    BY <1>1 DEF D!Missing, HasId
  <2> QED
    BY <1>4, <2>1
<1>6. Whole(file) => Prefix(ns, N)
  BY <1>1, <1>2 DEF ProcessRight, MemoryRight
<1> HIDE DEF o, d
<1>7. /\ OnDisk(dgiven, g) /\ DiskNodes(g) = N
      /\ IF Whole(file)
         THEN /\ Whole(g)
              /\ DiskDeps(g) = D!UpdateDeps(DiskDeps(file), D!Id(ns, o), d)
              /\ \A n \in Node :
                   HeldOf(dgiven, g)[n] = IF n = o THEN d.mtime ELSE HeldOf(dgiven, file)[n]
         ELSE ~Whole(g) /\ DiskDeps(g) = DiskDeps(file) /\ HeldOf(dgiven, g) = HeldOf(dgiven, file)
  BY <1>2, <1>3, <1>4, <1>5, <1>6, WriteEntry
<1> HIDE DEF g, ds
<1>8. /\ dpc' \in [Process -> {"off", "idle", "record", "compact", "unlinked"}]
      /\ dpc'[p] = "idle" /\ \A q \in Process \ {p} : dpc'[q] = dpc[q]
  <2>1. dpc \in [Process -> {"off", "idle", "record", "compact", "unlinked"}]
    BY <1>2 DEF DepsTyped
  <2> QED
    BY <1>1, <2>1, UpdatedAt
<1>9. /\ opened' \in [Process -> BOOLEAN] /\ opened'[p] = TRUE
      /\ \A q \in Process \ {p} : opened'[q] = opened[q]
  <2>1. opened \in [Process -> BOOLEAN]
    BY <1>2 DEF DepsTyped
  <2> QED
    BY <1>1, <2>1, UpdatedAt
<1>10. /\ dwrote' \in [Process -> SUBSET Node] /\ dwrote'[p] = dwrote[p] \cup {o}
       /\ \A q \in Process \ {p} : dwrote'[q] = dwrote[q]
  <2>1. dwrote \in [Process -> SUBSET Node]
    BY <1>2 DEF DepsTyped
  <2>2. dwrote[p] \cup {o} \in SUBSET Node
    BY <1>4, <2>1
  <2> DEFINE v == dwrote[p] \cup {o}
  <2>3. dwrote' = [dwrote EXCEPT ![p] = v] /\ v \in SUBSET Node
    BY <1>1, <2>2
  <2> HIDE DEF v
  <2>4. /\ dwrote' \in [Process -> SUBSET Node] /\ dwrote'[p] = v
        /\ \A q \in Process \ {p} : dwrote'[q] = dwrote[q]
    BY <2>1, <2>3, UpdatedAt
  <2> QED
    BY <2>4 DEF v
<1>11. deps' = [q \in Process |-> deps'[q]] /\ deps'[p] = ds
  BY <1>1, <1>2, Assigned DEF DepsTyped
<1>12. dtodo' = [q \in Process |-> dtodo'[q]] /\ \A q \in Process \ {p} : dtodo'[q] = dtodo[q]
  BY <1>1, <1>2, Assigned DEF DepsTyped
<1>13. Effective = file /\ Effective' = file'
  <2>1. \A q \in Process : dpc[q] # "unlinked"
    BY <1>1, Company
  <2>2. \A q \in Process : dpc'[q] # "unlinked"
    BY <1>8, <2>1
  <2> QED
    BY <2>1, <2>2 DEF Effective, Unlinked
<1>14. dheld' = HeldOf(dgiven, g) /\ dheld = HeldOf(dgiven, file)
  BY <1>1, <1>2, <1>13, AtNow DEF DiskRight
<1>15. \A n \in Node : dheld'[n] = dheld[n] \/ (n = o /\ dheld'[n] = Len(dgiven[n]))
  BY <1>4, <1>7, <1>14
<1>16. DepsTyped'
  BY <1>1, <1>2, <1>8, <1>9, <1>10, <1>11, <1>12 DEF DepsTyped
<1>17. DiskRight'
  <2>1. dheld' = HeldOf(dgiven', Effective')
    BY AtNow
  <2> QED
    BY <1>1, <1>2, <1>7, <2>1 DEF DiskRight
<1>18. ProcessRight(p)'
  <2>1. TodoRight(p)'
    BY <1>8 DEF TodoRight
  <2>2. AloneRight(p)'
    <3>1. D!Others(p)' = D!Others(p)
      BY <1>8 DEF D!Others
    <3> QED
      BY <1>1, <1>2, <1>8, <3>1 DEF ProcessRight, AloneRight
  <2>3. MemoryRight(p)'
    <3>1. Whole(file') => Prefix(nodes'[p], DiskNodes(file'))
      BY <1>1, <1>6, <1>7
    <3>2. ASSUME alone[p]
          PROVE  Whole(file') /\ nodes'[p] = DiskNodes(file') /\ deps'[p] = DiskDeps(file')
      <4>1. Whole(file) /\ ns = N /\ deps[p] = DiskDeps(file)
        BY <1>1, <1>2, <3>2 DEF ProcessRight, MemoryRight
      <4> QED
        BY <1>1, <1>7, <1>11, <4>1 DEF ds
    <3> QED
      BY <1>1, <3>1, <3>2 DEF MemoryRight
  <2>4. CompactRight(p)'
    BY <1>8 DEF CompactRight
  <2>5. WroteRight(p)'
    <3> SUFFICES ASSUME alone[p], NEW n \in dwrote'[p]  PROVE dheld'[n] = Len(dgiven[n])
      BY <1>1, <1>8, <1>9 DEF WroteRight
    <3>1. Whole(file)
      BY <1>1, <1>2 DEF ProcessRight, MemoryRight
    <3>2. CASE n = o
      BY <1>4, <1>7, <1>14, <3>1, <3>2
    <3>3. CASE n # o
      <4>1. n \in dwrote[p] /\ n \in Node
        BY <1>2, <1>10, <3>3 DEF DepsTyped
      <4>2. dheld[n] = Len(dgiven[n])
        BY <1>1, <1>2, <3>3, <4>1 DEF ProcessRight, WroteRight, o
      <4> QED
        BY <1>15, <4>1, <4>2
    <3> QED
      BY <3>2, <3>3
  <2> QED
    BY <2>1, <2>2, <2>3, <2>4, <2>5 DEF ProcessRight
<1>19. ASSUME NEW q \in Process \ {p}  PROVE ProcessRight(q)'
  <2>1. Whole(file') => Whole(file) /\ Prefix(DiskNodes(file), DiskNodes(file'))
                          /\ DiskNodes(file') \in Seq(Node)
    <3>1. DiskNodes(file) \in Seq(Node)
      BY <1>2, BaseIs DEF OnDisk, Base
    <3>2. Prefix(N, N)
      BY <3>1 DEF Prefix
    <3> QED
      BY <1>1, <1>7, <3>1, <3>2
  <2>2. nodes'[q] = nodes[q] /\ alone'[q] = alone[q] /\ dgiven' = dgiven
    BY <1>1
  <2>3. dpc'[p] # "record" /\ dpc[p] # "off"
    BY <1>1, <1>8
  <2>4. \A r \in Process \ {p} : dpc'[r] = dpc[r] /\ dtodo'[r] = dtodo[r]
    BY <1>8, <1>12
  <2>5. opened'[q] = opened[q] /\ dwrote'[q] = dwrote[q]
    BY <1>9, <1>10
  <2> QED
    BY <2>1, <2>2, <2>3, <2>4, <2>5, OthersRight
<1>20. DepsInv'
  BY <1>16, <1>17, <1>18, <1>19 DEF DepsInv
<1>21. Moved
  BY <1>1, <1>15 DEF Moved
<1> QED
  BY <1>20, <1>21

LEMMA CloseStep ==
    ASSUME DepsInv, NEW p \in Process, D!Close(p), dheld' = (D!At)'
    PROVE  DepsInv' /\ Moved
<1> DEFINE g == IF opened[p] THEN file ELSE D!Opened(file)
<1>1. /\ dpc[p] = "idle" /\ file' = g
      /\ dpc' = [dpc EXCEPT ![p] = "off"]
      /\ UNCHANGED <<dtemp, nodes, deps, opened, dtodo, alone, dwrote, dgiven, dstarts>>
  BY DEF D!Close, D!histVars
<1>2. DepsTyped /\ DiskRight /\ OnDisk(dgiven, file)
  BY DEF DepsInv, DiskRight
<1>3. /\ OnDisk(dgiven, g) /\ HeldOf(dgiven, g) = HeldOf(dgiven, file) /\ (Whole(g) <=> Whole(file))
      /\ DiskNodes(g) = DiskNodes(file)
  BY <1>2, OpenDisk
<1> HIDE DEF g
<1>4. /\ dpc' \in [Process -> {"off", "idle", "record", "compact", "unlinked"}]
      /\ dpc'[p] = "off" /\ \A q \in Process \ {p} : dpc'[q] = dpc[q]
  <2>1. dpc \in [Process -> {"off", "idle", "record", "compact", "unlinked"}]
    BY <1>2 DEF DepsTyped
  <2> QED
    BY <1>1, <2>1, UpdatedAt
<1>5. Effective = file /\ Effective' = file'
  <2>1. \A q \in Process : dpc[q] # "unlinked"
    BY <1>1, Company
  <2>2. \A q \in Process : dpc'[q] # "unlinked"
    BY <1>4, <2>1
  <2> QED
    BY <2>1, <2>2 DEF Effective, Unlinked
<1>6. dheld' = dheld
  BY <1>1, <1>2, <1>3, <1>5, AtNow DEF DiskRight
<1>7. DepsTyped'
  BY <1>1, <1>2, <1>4 DEF DepsTyped
<1>8. DiskRight'
  <2>1. dheld' = HeldOf(dgiven', Effective')
    BY AtNow
  <2> QED
    BY <1>1, <1>2, <1>3, <2>1 DEF DiskRight
<1>9. ProcessRight(p)'
  BY <1>4 DEF ProcessRight, TodoRight, AloneRight, MemoryRight, CompactRight, WroteRight
<1>10. ASSUME NEW q \in Process \ {p}  PROVE ProcessRight(q)'
  <2>1. Whole(file') => Whole(file) /\ Prefix(DiskNodes(file), DiskNodes(file'))
                          /\ DiskNodes(file') \in Seq(Node)
    <3>1. DiskNodes(file) \in Seq(Node)
      BY <1>2, BaseIs DEF OnDisk, Base
    <3>2. Prefix(DiskNodes(file), DiskNodes(file))
      BY <3>1 DEF Prefix
    <3> QED
      BY <1>1, <1>3, <3>1, <3>2
  <2>2. UNCHANGED <<nodes, opened, dtodo, alone, dwrote, dgiven>>
    BY <1>1
  <2> QED
    BY <1>1, <1>4, <2>1, <2>2, OthersRight
<1>11. DepsInv'
  BY <1>7, <1>8, <1>9, <1>10 DEF DepsInv
<1>12. Moved
  BY <1>1, <1>6 DEF Moved
<1> QED
  BY <1>11, <1>12

LEMMA CrashStep ==
    ASSUME DepsInv, NEW p \in Process, D!Crash(p), dheld' = (D!At)'
    PROVE  DepsInv' /\ Moved
<1>1. /\ dpc[p] # "off"
      /\ dpc' = [dpc EXCEPT ![p] = "off"]
      /\ dtodo' = [dtodo EXCEPT ![p] = D!Nothing]
      /\ file' = file \/ (D!Others(p) = {} /\ dpc[p] = "record" /\ file' = Append(file, D!Torn))
      /\ UNCHANGED <<dtemp, nodes, deps, opened, alone, dwrote, dgiven, dstarts>>
  BY DEF D!Crash, D!histVars
<1>2. DepsTyped /\ DiskRight /\ ProcessRight(p) /\ OnDisk(dgiven, file)
  BY DEF DepsInv, DiskRight
<1>3. OnDisk(dgiven, file') /\ HeldOf(dgiven, file') = HeldOf(dgiven, file)
  BY <1>1, <1>2, WriteTorn
<1>4. /\ dpc' \in [Process -> {"off", "idle", "record", "compact", "unlinked"}]
      /\ dpc'[p] = "off" /\ \A q \in Process \ {p} : dpc'[q] = dpc[q]
  <2>1. dpc \in [Process -> {"off", "idle", "record", "compact", "unlinked"}]
    BY <1>2 DEF DepsTyped
  <2> QED
    BY <1>1, <2>1, UpdatedAt
<1>5. dtodo' = [q \in Process |-> dtodo'[q]] /\ \A q \in Process \ {p} : dtodo'[q] = dtodo[q]
  BY <1>1, <1>2, Assigned DEF DepsTyped
<1>6. Effective' = file'
  <2>1. \A q \in Process \ {p} : dpc[q] # "unlinked"
    BY <1>1, Company
  <2>2. \A q \in Process : dpc'[q] # "unlinked"
    BY <1>4, <2>1
  <2> QED
    BY <2>2 DEF Effective, Unlinked
<1>7. dheld' = HeldOf(dgiven, file)
  BY <1>1, <1>3, <1>6, AtNow
<1>8. \A n \in Node : dheld'[n] \in {0, dheld[n]}
  <2>1. CASE dpc[p] = "unlinked"
    <3>1. file = <<>>
      BY <1>2, <2>1 DEF ProcessRight, CompactRight, D!Absent
    <3> QED
      BY <1>7, <3>1, NoDisk
  <2>2. CASE dpc[p] # "unlinked"
    <3>1. dpc[p] \in {"idle", "record", "compact"}
      BY <1>1, <1>2, <2>2 DEF DepsTyped
    <3>2. dheld' = dheld
      BY <1>2, <1>7, <3>1, NotUnlinked DEF DiskRight
    <3> QED
      BY <3>2
  <2> QED
    BY <2>1, <2>2
<1>9. DepsTyped'
  BY <1>1, <1>2, <1>4, <1>5 DEF DepsTyped
<1>10. DiskRight'
  BY <1>1, <1>2, <1>3, AtNow DEF DiskRight
<1>11. ProcessRight(p)'
  BY <1>4 DEF ProcessRight, TodoRight, AloneRight, MemoryRight, CompactRight, WroteRight
<1>12. ASSUME NEW q \in Process \ {p}  PROVE ProcessRight(q)'
  <2>1. dpc[q] # "off" =>
          (Whole(file') => Whole(file) /\ Prefix(DiskNodes(file), DiskNodes(file'))
                            /\ DiskNodes(file') \in Seq(Node))
    <3> SUFFICES ASSUME dpc[q] # "off", Whole(file')
                 PROVE  Whole(file) /\ Prefix(DiskNodes(file), DiskNodes(file'))
                            /\ DiskNodes(file') \in Seq(Node)
      OBVIOUS
    <3>1. q \in D!Others(p)
      BY DEF D!Others
    <3>2. file' = file
      BY <1>1, <3>1
    <3>3. DiskNodes(file) \in Seq(Node)
      BY <1>2, BaseIs DEF OnDisk, Base
    <3>4. Prefix(DiskNodes(file), DiskNodes(file))
      BY <3>3 DEF Prefix
    <3> QED
      BY <3>2, <3>3, <3>4
  <2>2. UNCHANGED <<nodes, opened, alone, dwrote, dgiven>>
    BY <1>1
  <2>3. dpc'[p] # "record"
    BY <1>4
  <2>4. \A r \in Process \ {p} : dpc'[r] = dpc[r] /\ dtodo'[r] = dtodo[r]
    BY <1>4, <1>5
  <2> QED
    BY <1>1, <2>1, <2>2, <2>3, <2>4, OthersRight
<1>13. DepsInv'
  BY <1>9, <1>10, <1>11, <1>12 DEF DepsInv
<1>14. Moved
  BY <1>1, <1>8 DEF Moved
<1> QED
  BY <1>13, <1>14

\* A process without another one: it is alone, and the others are off.
LEMMA OthersOff ==
    ASSUME DepsTyped, NEW p \in Process, D!Others(p) = {},
           \A q \in Process \ {p} : dpc'[q] = dpc[q]
    PROVE  /\ \A q \in Process \ {p} : dpc[q] = "off" /\ ProcessRight(q)'
           /\ D!Others(p)' = {}
<1>1. \A q \in Process \ {p} : dpc[q] = "off"
  BY DEF D!Others
<1>2. \A q \in Process \ {p} : dpc'[q] = "off"
  BY <1>1
<1>3. D!Others(p)' = {}
  BY <1>2 DEF D!Others
<1>4. ASSUME NEW q \in Process \ {p}  PROVE ProcessRight(q)'
  <2>1. dpc'[q] = "off"
    BY <1>2
  <2> QED
    BY <2>1 DEF ProcessRight, TodoRight, AloneRight, MemoryRight, CompactRight, WroteRight
<1> QED
  BY <1>1, <1>3, <1>4

LEMMA WriteTempStep ==
    ASSUME DepsInv, NEW p \in Process, D!WriteTemp(p), dheld' = (D!At)'
    PROVE  DepsInv' /\ Moved
<1> DEFINE new == D!Recompacted(nodes[p], deps[p])
<1>1. /\ dpc[p] = "idle" /\ ~opened[p] /\ alone[p] /\ D!Others(p) = {}
      /\ \/ /\ dtemp' = new
            /\ nodes' = [nodes EXCEPT ![p] = D!Loaded(new).nodes]
            /\ deps' = [deps EXCEPT ![p] = D!Loaded(new).deps]
            /\ dpc' = [dpc EXCEPT ![p] = "compact"]
         \/ /\ \E i \in 1 .. Len(new) : dtemp' = Append(SubSeq(new, 1, i - 1), D!Torn)
            /\ dpc' = [dpc EXCEPT ![p] = "off"]
            /\ UNCHANGED <<nodes, deps>>
      /\ UNCHANGED <<file, opened, dtodo, alone, dwrote, dgiven, dstarts>>
  BY DEF D!WriteTemp, D!histVars
<1>2. DepsTyped /\ DiskRight /\ ProcessRight(p) /\ OnDisk(dgiven, file)
  BY DEF DepsInv, DiskRight
<1>3. /\ dpc \in [Process -> {"off", "idle", "record", "compact", "unlinked"}]
      /\ nodes \in [Process -> Seq(Node)] /\ dgiven \in [Node -> Seq(Entry)]
  BY <1>2 DEF DepsTyped
<1>4. nodes[p] = DiskNodes(file) /\ deps[p] = DiskDeps(file)
  BY <1>1, <1>2 DEF ProcessRight, MemoryRight
<1>5. /\ Sound(new) /\ OnDisk(dgiven, new)
      /\ \A n \in Node : HeldOf(dgiven, new)[n] \in {0, HeldOf(dgiven, file)[n]}
  BY <1>2, <1>3, <1>4, CompactDisk
<1> HIDE DEF new
<1>6. dheld = HeldOf(dgiven, file)
  BY <1>1, <1>2, NotUnlinked DEF DiskRight
<1>7. \A q \in Process \ {p} : dpc[q] = "off"
  BY <1>1 DEF D!Others
<1>8. CASE /\ dtemp' = new
           /\ nodes' = [nodes EXCEPT ![p] = D!Loaded(new).nodes]
           /\ deps' = [deps EXCEPT ![p] = D!Loaded(new).deps]
           /\ dpc' = [dpc EXCEPT ![p] = "compact"]
  <2>1. OnDisk(dgiven, file') /\ HeldOf(dgiven, file') = HeldOf(dgiven, file)
    BY <1>1, <1>2
  <2>2. /\ dpc' \in [Process -> {"off", "idle", "record", "compact", "unlinked"}]
        /\ dpc'[p] = "compact" /\ \A q \in Process \ {p} : dpc'[q] = dpc[q]
    BY <1>3, <1>8, UpdatedAt
  <2>3. /\ D!Loaded(new).nodes = DiskNodes(new) /\ D!Loaded(new).deps = DiskDeps(new)
        /\ DiskNodes(new) \in Seq(Node)
    BY <1>5, LoadedIs, BaseIs DEF OnDisk, Base
  <2>4. nodes' \in [Process -> Seq(Node)] /\ nodes'[p] = DiskNodes(new)
    BY <1>3, <1>8, <2>3, UpdatedAt
  <2>5. deps' = [q \in Process |-> deps'[q]] /\ deps'[p] = DiskDeps(new)
    BY <1>2, <1>8, <2>3, Assigned DEF DepsTyped
  <2>6. \A q \in Process : dpc'[q] # "unlinked"
    BY <1>7, <2>2
  <2>7. Effective' = file'
    BY <2>6 DEF Effective, Unlinked
  <2>8. dheld' = dheld
    BY <1>1, <1>6, <2>1, <2>7, AtNow
  <2>9. DepsTyped'
    BY <1>1, <1>2, <1>5, <1>8, <2>2, <2>4, <2>5 DEF DepsTyped, Sound
  <2>10. DiskRight'
    BY <1>1, <1>2, <2>1, AtNow DEF DiskRight
  <2>11. /\ D!Others(p)' = {} /\ \A q \in Process \ {p} : ProcessRight(q)'
    BY <1>1, <1>2, <2>2, OthersOff
  <2>12. CompactRight(p)'
    <3>1. \A n \in Node : HeldOf(dgiven, new)[n] \in {0, dheld[n]}
      BY <1>5, <1>6
    <3>2. MadeOf(dgiven, new)
      BY <1>5 DEF OnDisk
    <3> QED
      BY <1>1, <1>5, <1>8, <2>2, <2>4, <2>5, <2>8, <3>1, <3>2 DEF CompactRight
  <2>13. ProcessRight(p)'
    <3>1. TodoRight(p)' /\ MemoryRight(p)'
      BY <2>2 DEF TodoRight, MemoryRight
    <3>2. AloneRight(p)'
      BY <1>1, <2>2, <2>11 DEF AloneRight
    <3>3. dwrote[p] = {}
      BY <1>1, <1>2 DEF ProcessRight, WroteRight
    <3>4. WroteRight(p)'
      BY <1>1, <3>3 DEF WroteRight
    <3> QED
      BY <2>12, <3>1, <3>2, <3>4 DEF ProcessRight
  <2>14. DepsInv'
    BY <2>9, <2>10, <2>11, <2>13 DEF DepsInv
  <2> QED
    BY <1>1, <2>8, <2>14 DEF Moved
<1>9. CASE /\ \E i \in 1 .. Len(new) : dtemp' = Append(SubSeq(new, 1, i - 1), D!Torn)
           /\ dpc' = [dpc EXCEPT ![p] = "off"]
           /\ UNCHANGED <<nodes, deps>>
  <2>1. /\ dpc' \in [Process -> {"off", "idle", "record", "compact", "unlinked"}]
        /\ dpc'[p] = "off" /\ \A q \in Process \ {p} : dpc'[q] = dpc[q]
    BY <1>3, <1>9, UpdatedAt
  <2>2. dtemp' \in Seq(Record)
    <3>1. PICK i \in 1 .. Len(new) : dtemp' = Append(SubSeq(new, 1, i - 1), D!Torn)
      BY <1>9
    <3>2. new \in Seq(Record) /\ D!Torn \in Record /\ Len(new) \in Nat
      BY <1>5, Elements DEF OnDisk, Record
    <3>3. SubSeq(new, 1, i - 1) \in Seq(Record)
      BY <3>2, SubSeqProperties
    <3> QED
      BY <3>1, <3>2, <3>3, Appended
  <2>3. \A q \in Process : dpc'[q] # "unlinked"
    BY <1>7, <2>1
  <2>4. Effective' = file
    BY <1>1, <2>3 DEF Effective, Unlinked
  <2>5. dheld' = dheld
    BY <1>1, <1>6, <2>4, AtNow
  <2>6. DepsTyped'
    BY <1>1, <1>2, <1>9, <2>1, <2>2 DEF DepsTyped
  <2>7. DiskRight'
    BY <1>1, <1>2, <1>9, AtNow DEF DiskRight
  <2>8. \A q \in Process \ {p} : ProcessRight(q)'
    BY <1>1, <1>2, <2>1, OthersOff
  <2>9. ProcessRight(p)'
    BY <2>1 DEF ProcessRight, TodoRight, AloneRight, MemoryRight, CompactRight, WroteRight
  <2>10. DepsInv'
    BY <2>6, <2>7, <2>8, <2>9 DEF DepsInv
  <2> QED
    BY <1>1, <2>5, <2>10 DEF Moved
<1> QED
  BY <1>1, <1>8, <1>9

LEMMA UnlinkStep ==
    ASSUME DepsInv, NEW p \in Process, D!UnlinkOld(p), dheld' = (D!At)'
    PROVE  DepsInv' /\ Moved
<1>1. /\ dpc[p] = "compact" /\ file' = <<>>
      /\ dpc' = [dpc EXCEPT ![p] = IF file = <<>> THEN "off" ELSE "unlinked"]
      /\ UNCHANGED <<dtemp, nodes, deps, opened, dtodo, alone, dwrote, dgiven, dstarts>>
  BY DEF D!UnlinkOld, D!histVars, D!Absent
<1>2. DepsTyped /\ DiskRight /\ ProcessRight(p) /\ AloneRight(p) /\ CompactRight(p)
  BY DEF DepsInv, ProcessRight
<1>3. dpc \in [Process -> {"off", "idle", "record", "compact", "unlinked"}]
  BY <1>2 DEF DepsTyped
<1>4. alone[p] /\ ~opened[p] /\ D!Others(p) = {}
  BY <1>1, <1>2 DEF AloneRight
<1> DEFINE next == IF file = <<>> THEN "off" ELSE "unlinked"
<1>5. /\ dpc' \in [Process -> {"off", "idle", "record", "compact", "unlinked"}]
      /\ dpc'[p] = next /\ \A q \in Process \ {p} : dpc'[q] = dpc[q]
  <2>1. dpc' = [dpc EXCEPT ![p] = next] /\ next \in {"off", "unlinked"}
    BY <1>1
  <2> HIDE DEF next
  <2> QED
    BY <1>3, <2>1, UpdatedAt
<1>6. dheld = HeldOf(dgiven, file) /\ \A q \in Process : dpc[q] # "unlinked"
  <2>1. Effective = file /\ ~Unlinked
    BY <1>1, Company, NotUnlinked DEF Unlinked
  <2> QED
    BY <1>2, <2>1 DEF DiskRight, Unlinked
<1>7. CASE file = <<>>
  <2>1. dpc'[p] = "off" /\ \A q \in Process : dpc'[q] # "unlinked"
    BY <1>5, <1>6, <1>7
  <2>2. Effective' = file
    BY <1>1, <1>7, <2>1 DEF Effective, Unlinked
  <2>3. dheld' = dheld
    BY <1>1, <1>6, <2>2, AtNow
  <2>4. DepsTyped'
    BY <1>1, <1>2, <1>5 DEF DepsTyped
  <2>5. DiskRight'
    BY <1>1, <1>2, NoDisk, AtNow DEF DiskRight
  <2>6. \A q \in Process \ {p} : ProcessRight(q)'
    BY <1>2, <1>4, <1>5, OthersOff
  <2>7. ProcessRight(p)'
    BY <2>1 DEF ProcessRight, TodoRight, AloneRight, MemoryRight, CompactRight, WroteRight
  <2>8. DepsInv'
    BY <2>4, <2>5, <2>6, <2>7 DEF DepsInv
  <2> QED
    BY <1>1, <2>3, <2>8 DEF Moved
<1>8. CASE file # <<>>
  <2>1. dpc'[p] = "unlinked"
    BY <1>5, <1>8
  <2>2. Effective' = dtemp
    BY <1>1, <2>1 DEF Effective, Unlinked
  <2>3. dheld' = HeldOf(dgiven, dtemp)
    BY <1>1, <2>2, AtNow
  <2>4. \A n \in Node : dheld'[n] \in {0, dheld[n]}
    BY <1>1, <1>2, <2>3 DEF CompactRight
  <2>5. DepsTyped'
    BY <1>1, <1>2, <1>5 DEF DepsTyped
  <2>6. DiskRight'
    BY <1>1, <1>2, NoDisk, AtNow DEF DiskRight
  <2>7. D!Others(p)' = {} /\ \A q \in Process \ {p} : ProcessRight(q)'
    BY <1>2, <1>4, <1>5, OthersOff
  <2>8. TodoRight(p)' /\ MemoryRight(p)'
    BY <2>1 DEF TodoRight, MemoryRight
  <2>9. AloneRight(p)'
    BY <1>1, <1>4, <2>7 DEF AloneRight
  <2>10. CompactRight(p)'
    <3>1. \A n \in Node : HeldOf(dgiven, dtemp)[n] \in {0, dheld'[n]}
      BY <2>3
    <3> QED
      BY <1>1, <1>2, <3>1 DEF CompactRight, D!Absent
  <2>11. WroteRight(p)'
    <3>1. dwrote[p] = {}
      BY <1>1, <1>2, <1>4 DEF ProcessRight, WroteRight
    <3> QED
      BY <1>1, <3>1 DEF WroteRight
  <2>12. DepsInv'
    BY <2>5, <2>6, <2>7, <2>8, <2>9, <2>10, <2>11 DEF DepsInv, ProcessRight
  <2> QED
    BY <1>1, <2>4, <2>12 DEF Moved
<1> QED
  BY <1>7, <1>8

LEMMA RenameStep ==
    ASSUME DepsInv, NEW p \in Process, D!RenameTemp(p), dheld' = (D!At)'
    PROVE  DepsInv' /\ Moved
<1>1. /\ dpc[p] = "unlinked" /\ file' = dtemp /\ dtemp' = <<>>
      /\ dpc' = [dpc EXCEPT ![p] = "idle"]
      /\ UNCHANGED <<nodes, deps, opened, dtodo, alone, dwrote, dgiven, dstarts>>
  BY DEF D!RenameTemp, D!histVars, D!Absent
<1>2. DepsTyped /\ DiskRight /\ ProcessRight(p) /\ AloneRight(p) /\ CompactRight(p)
  BY DEF DepsInv, ProcessRight
<1>3. dpc \in [Process -> {"off", "idle", "record", "compact", "unlinked"}]
  BY <1>2 DEF DepsTyped
<1>4. alone[p] /\ ~opened[p] /\ D!Others(p) = {}
  BY <1>1, <1>2 DEF AloneRight
<1>5. /\ Sound(dtemp) /\ nodes[p] = DiskNodes(dtemp) /\ deps[p] = DiskDeps(dtemp)
      /\ MadeOf(dgiven, dtemp)
  BY <1>1, <1>2 DEF CompactRight
<1>6. /\ dpc' \in [Process -> {"off", "idle", "record", "compact", "unlinked"}]
      /\ dpc'[p] = "idle" /\ \A q \in Process \ {p} : dpc'[q] = dpc[q]
  BY <1>1, <1>3, UpdatedAt
<1>7. D!Good(dtemp) = dtemp /\ dtemp # <<>> /\ dtemp \in Seq(Record)
  BY <1>5, GoodSound DEF Sound
<1>8. OnDisk(dgiven, dtemp)
  BY <1>5, <1>7 DEF OnDisk, D!Opened, D!Absent
<1>9. Effective = dtemp
  BY <1>1 DEF Effective, Unlinked
<1>10. Effective' = dtemp
  <2>1. \A q \in Process \ {p} : dpc[q] = "off"
    BY <1>4 DEF D!Others
  <2>2. \A q \in Process : dpc'[q] # "unlinked"
    BY <1>6, <2>1
  <2> QED
    BY <1>1, <2>2 DEF Effective, Unlinked
<1>11. dheld' = dheld
  BY <1>1, <1>2, <1>9, <1>10, AtNow DEF DiskRight
<1>12. DepsTyped'
  BY <1>1, <1>2, <1>6 DEF DepsTyped
<1>13. DiskRight'
  BY <1>1, <1>2, <1>8, AtNow DEF DiskRight
<1>14. D!Others(p)' = {} /\ \A q \in Process \ {p} : ProcessRight(q)'
  BY <1>2, <1>4, <1>6, OthersOff
<1>15. ProcessRight(p)'
  <2>1. TodoRight(p)' /\ CompactRight(p)'
    BY <1>6 DEF TodoRight, CompactRight
  <2>2. AloneRight(p)'
    BY <1>6, <1>14 DEF AloneRight
  <2>3. MemoryRight(p)'
    <3>1. nodes[p] \in Seq(Node)
      BY <1>2 DEF DepsTyped
    <3>2. Prefix(nodes[p], nodes[p])
      BY <3>1 DEF Prefix
    <3> QED
      BY <1>1, <1>5, <1>7, <3>2 DEF MemoryRight, Whole
  <2>4. dwrote[p] = {}
    BY <1>1, <1>2, <1>4 DEF ProcessRight, WroteRight
  <2>5. WroteRight(p)'
    BY <1>1, <2>4 DEF WroteRight
  <2> QED
    BY <2>1, <2>2, <2>3, <2>5 DEF ProcessRight
<1>16. DepsInv'
  BY <1>12, <1>13, <1>14, <1>15 DEF DepsInv
<1> QED
  BY <1>1, <1>11, <1>16 DEF Moved

\* Or a record is given, and the log is as it was.
Given == /\ \E n \in Node : \A m \in Node :
              Len(dgiven'[m]) = IF m = n THEN Len(dgiven[m]) + 1 ELSE Len(dgiven[m])
         /\ dheld' = dheld

LEMMA BeginStep ==
    ASSUME DepsInv, NEW p \in Process, NEW n \in Live, NEW ds \in DepsOf[n],
           D!BeginRecord(p, n, ds), dheld' = (D!At)'
    PROVE  DepsInv' /\ Given
<1> DEFINE d == [mtime |-> Len(dgiven[n]) + 1, deps |-> ds]
           v == Append(dgiven[n], d)
           w == [out |-> n, rec |-> d]
<1>1. /\ dpc[p] = "idle"
      /\ \A q \in D!Others(p) : dtodo[q].out # n
      /\ dgiven' = [dgiven EXCEPT ![n] = v]
      /\ dtodo' = [dtodo EXCEPT ![p] = w]
      /\ dpc' = [dpc EXCEPT ![p] = "record"]
      /\ UNCHANGED <<file, dtemp, nodes, deps, opened, alone, dwrote, dstarts>>
  BY DEF D!BeginRecord, D!logVars
<1>2. DepsTyped /\ DiskRight /\ ProcessRight(p) /\ OnDisk(dgiven, file)
  BY DEF DepsInv, DiskRight
<1>3. n \in Node /\ ds \in Seq(Node)
  BY LogsAssumption DEF D!DepsAssumption
<1>4. /\ dpc \in [Process -> {"off", "idle", "record", "compact", "unlinked"}]
      /\ dgiven \in [Node -> Seq(Entry)]
  BY <1>2 DEF DepsTyped
<1>5. dgiven[n] \in Seq(Entry) /\ Len(dgiven[n]) \in Nat /\ DOMAIN dgiven[n] = 1 .. Len(dgiven[n])
  BY <1>3, <1>4, Elements
<1>6. d \in Entry
  BY <1>3, <1>5 DEF Entry
<1>7. /\ v \in Seq(Entry) /\ Len(v) = Len(dgiven[n]) + 1 /\ v[Len(v)] = d
      /\ DOMAIN v = 1 .. Len(dgiven[n]) + 1 /\ v # <<>>
      /\ \A i \in 1 .. Len(dgiven[n]) : v[i] = dgiven[n][i]
  <2>1. /\ v \in Seq(Entry) /\ Len(v) = Len(dgiven[n]) + 1 /\ v[Len(dgiven[n]) + 1] = d
        /\ DOMAIN v = 1 .. Len(dgiven[n]) + 1
        /\ \A i \in 1 .. Len(dgiven[n]) : v[i] = dgiven[n][i]
    BY <1>5, <1>6, Appended
  <2> HIDE DEF v, d
  <2> QED
    BY <1>5, <2>1, EmptySeq
<1>8. d.mtime = Len(v) /\ w.out = n /\ w.rec = d
  BY <1>7
<1> HIDE DEF d, v, w
<1>9. /\ dgiven' \in [Node -> Seq(Entry)] /\ dgiven'[n] = v
      /\ \A m \in Node \ {n} : dgiven'[m] = dgiven[m]
  BY <1>1, <1>3, <1>4, <1>7
<1>10. /\ dpc' \in [Process -> {"off", "idle", "record", "compact", "unlinked"}]
       /\ dpc'[p] = "record" /\ \A q \in Process \ {p} : dpc'[q] = dpc[q]
  BY <1>1, <1>4, UpdatedAt
<1>11. /\ dtodo' = [q \in Process |-> dtodo'[q]] /\ dtodo'[p] = w
       /\ \A q \in Process \ {p} : dtodo'[q] = dtodo[q]
  BY <1>1, <1>2, Assigned DEF DepsTyped
<1>12. \A m \in Node : ToSet(dgiven[m]) \subseteq ToSet(dgiven'[m])
  <2> SUFFICES ASSUME NEW m \in Node, m = n  PROVE ToSet(dgiven[m]) \subseteq ToSet(dgiven'[m])
    BY <1>9
  <2> QED
    BY <1>5, <1>7, <1>9 DEF ToSet
<1>13. OnDisk(dgiven', file) /\ HeldOf(dgiven', file) = HeldOf(dgiven, file)
  BY <1>2, <1>12, GiveDisk
<1>14. Effective = file /\ Effective' = file
  <2>1. \A q \in Process : dpc[q] # "unlinked"
    BY <1>1, Company
  <2>2. \A q \in Process : dpc'[q] # "unlinked"
    BY <1>10, <2>1
  <2> QED
    BY <1>1, <2>1, <2>2 DEF Effective, Unlinked
<1>15. dheld' = dheld
  BY <1>2, <1>13, <1>14, AtNow DEF DiskRight
<1>16. DepsTyped'
  BY <1>1, <1>2, <1>9, <1>10, <1>11 DEF DepsTyped
<1>17. DiskRight'
  <2>1. ASSUME NEW m \in Node, NEW i \in DOMAIN dgiven'[m]  PROVE dgiven'[m][i].mtime = i
    <3>1. CASE m # n
      BY <1>2, <1>9, <2>1, <3>1 DEF DiskRight
    <3>2. CASE m = n
      <4>1. i = Len(v) \/ i \in 1 .. Len(dgiven[n])
        BY <1>5, <1>7, <1>9, <2>1, <3>2
      <4>2. CASE i = Len(v)
        BY <1>7, <1>8, <1>9, <3>2, <4>2
      <4>3. CASE i \in 1 .. Len(dgiven[n])
        <5>1. dgiven[n][i].mtime = i
          BY <1>2, <1>3, <1>5, <4>3 DEF DiskRight
        <5> QED
          BY <1>7, <1>9, <3>2, <4>3, <5>1
      <4> QED
        BY <4>1, <4>2, <4>3
    <3> QED
      BY <3>1, <3>2
  <2> QED
    BY <1>1, <1>13, <2>1, AtNow DEF DiskRight
<1>18. ProcessRight(p)'
  <2>1. TodoRight(p)'
    <3>1. ASSUME NEW q \in Process \ {p}, dpc'[q] = "record"  PROVE dtodo'[q].out # n
      <4>1. q \in D!Others(p)
        BY <1>10, <3>1 DEF D!Others
      <4> QED
        BY <1>1, <1>11, <4>1
    <3> QED
      BY <1>3, <1>7, <1>8, <1>9, <1>11, <3>1 DEF TodoRight
  <2>2. AloneRight(p)'
    <3>1. D!Others(p)' = D!Others(p)
      BY <1>10 DEF D!Others
    <3> QED
      BY <1>1, <1>2, <1>10, <3>1 DEF ProcessRight, AloneRight
  <2>3. MemoryRight(p)'
    BY <1>1, <1>2 DEF ProcessRight, MemoryRight
  <2>4. CompactRight(p)'
    BY <1>10 DEF CompactRight
  <2>5. WroteRight(p)'
    <3> SUFFICES ASSUME alone[p], NEW m \in dwrote[p], m # n
                 PROVE  dheld'[m] = Len(dgiven'[m])
      BY <1>1, <1>2, <1>8, <1>10, <1>11 DEF ProcessRight, WroteRight
    <3>1. m \in Node
      BY <1>2 DEF DepsTyped
    <3>2. dheld[m] = Len(dgiven[m])
      BY <1>1, <1>2 DEF ProcessRight, WroteRight
    <3> QED
      BY <1>9, <1>15, <3>1, <3>2
  <2> QED
    BY <2>1, <2>2, <2>3, <2>4, <2>5 DEF ProcessRight
<1>19. ASSUME NEW q \in Process \ {p}  PROVE ProcessRight(q)'
  <2>1. ASSUME dpc[q] = "record"
        PROVE  dgiven'[dtodo[q].out] = dgiven[dtodo[q].out] /\ dtodo'[p].out # dtodo[q].out
    <3>1. q \in D!Others(p)
      BY <2>1 DEF D!Others
    <3>2. dtodo[q].out \in Node \ {n}
      BY <1>1, <2>1, <3>1 DEF DepsInv, ProcessRight, TodoRight
    <3> QED
      BY <1>8, <1>9, <1>11, <3>2
  <2>2. Whole(file') => Whole(file) /\ Prefix(DiskNodes(file), DiskNodes(file'))
                          /\ DiskNodes(file') \in Seq(Node)
    <3>1. DiskNodes(file) \in Seq(Node)
      BY <1>2, BaseIs DEF OnDisk, Base
    <3>2. Prefix(DiskNodes(file), DiskNodes(file))
      BY <3>1 DEF Prefix
    <3> QED
      BY <1>1, <3>1, <3>2
  <2>3. nodes'[q] = nodes[q] /\ opened'[q] = opened[q] /\ dwrote'[q] = dwrote[q] /\ alone'[q] = alone[q]
    BY <1>1
  <2>4. \A r \in Process \ {p} : dpc'[r] = dpc[r] /\ dtodo'[r] = dtodo[r]
    BY <1>10, <1>11
  <2>5. dpc[p] # "off"
    BY <1>1
  <2> QED
    BY <2>1, <2>2, <2>3, <2>4, <2>5, OthersRight
<1>20. DepsInv'
  BY <1>16, <1>17, <1>18, <1>19 DEF DepsInv
<1>21. Given
  BY <1>3, <1>7, <1>9, <1>15 DEF Given
<1> QED
  BY <1>20, <1>21

LEMMA StartStep ==
    ASSUME DepsInv, NEW p \in Process, D!Start(p), dheld' = (D!At)'
    PROVE  DepsInv' /\ Moved
<1> DEFINE v == [q \in Process |-> IF q = p THEN D!Others(p) = {} ELSE FALSE]
<1>1. /\ dpc[p] = "off"
      /\ D!Others(p) # {} => D!Recovered(file) = file /\ \A q \in D!Others(p) : dpc[q] \in {"idle", "record"}
      /\ nodes' = [nodes EXCEPT ![p] = D!Loaded(file).nodes]
      /\ deps' = [deps EXCEPT ![p] = D!Loaded(file).deps]
      /\ file' = D!Good(file)
      /\ dpc' = [dpc EXCEPT ![p] = "idle"]
      /\ opened' = [opened EXCEPT ![p] = FALSE]
      /\ alone' = v
      /\ dwrote' = [dwrote EXCEPT ![p] = {}]
      /\ UNCHANGED <<dtemp, dtodo, dgiven>>
  BY DEF D!Start, D!Recovered
<1>2. DepsTyped /\ DiskRight /\ OnDisk(dgiven, file)
  BY DEF DepsInv, DiskRight
<1>3. /\ dpc \in [Process -> {"off", "idle", "record", "compact", "unlinked"}]
      /\ nodes \in [Process -> Seq(Node)] /\ opened \in [Process -> BOOLEAN]
      /\ dwrote \in [Process -> SUBSET Node]
  BY <1>2 DEF DepsTyped
<1>4. /\ OnDisk(dgiven, file') /\ HeldOf(dgiven, file') = HeldOf(dgiven, file)
      /\ Whole(file') /\ DiskNodes(file') = DiskNodes(file)
      /\ DiskDeps(file') = DiskDeps(file)
  BY <1>1, <1>2, LoadDisk
<1>5. /\ D!Loaded(file).nodes = DiskNodes(file) /\ D!Loaded(file).deps = DiskDeps(file)
      /\ DiskNodes(file) \in Seq(Node)
  BY <1>2, LoadedIs, BaseIs DEF OnDisk, Base
<1>6. /\ dpc' \in [Process -> {"off", "idle", "record", "compact", "unlinked"}]
      /\ dpc'[p] = "idle" /\ \A q \in Process \ {p} : dpc'[q] = dpc[q]
  BY <1>1, <1>3, UpdatedAt
<1>7. /\ nodes' \in [Process -> Seq(Node)] /\ nodes'[p] = DiskNodes(file)
      /\ \A q \in Process \ {p} : nodes'[q] = nodes[q]
  BY <1>1, <1>3, <1>5, UpdatedAt
<1>8. deps' = [q \in Process |-> deps'[q]] /\ deps'[p] = DiskDeps(file)
  BY <1>1, <1>2, <1>5, Assigned DEF DepsTyped
<1>9. /\ opened' \in [Process -> BOOLEAN] /\ opened'[p] = FALSE
      /\ \A q \in Process \ {p} : opened'[q] = opened[q]
  BY <1>1, <1>3, UpdatedAt
<1>10. /\ dwrote' \in [Process -> SUBSET Node] /\ dwrote'[p] = {}
       /\ \A q \in Process \ {p} : dwrote'[q] = dwrote[q]
  <2>1. {} \in SUBSET Node
    OBVIOUS
  <2> QED
    BY <1>1, <1>3, <2>1, UpdatedAt
<1>11. /\ alone' \in [Process -> BOOLEAN] /\ (alone'[p] => D!Others(p) = {})
       /\ \A q \in Process \ {p} : ~alone'[q]
  BY <1>1
<1> HIDE DEF v
<1>12. \A q \in Process \ {p} : dpc[q] \in {"off", "idle", "record"}
  <2> SUFFICES ASSUME NEW q \in Process \ {p}, dpc[q] # "off"  PROVE dpc[q] \in {"off", "idle", "record"}
    OBVIOUS
  <2>1. q \in D!Others(p)
    BY DEF D!Others
  <2> QED
    BY <1>1, <2>1
<1>13. Effective = file /\ Effective' = file'
  <2>1. \A q \in Process : dpc[q] # "unlinked"
    BY <1>1, <1>12
  <2>2. \A q \in Process : dpc'[q] # "unlinked"
    BY <1>6, <2>1
  <2> QED
    BY <2>1, <2>2 DEF Effective, Unlinked
<1>14. dheld' = dheld
  BY <1>1, <1>2, <1>4, <1>13, AtNow DEF DiskRight
<1>15. DepsTyped'
  BY <1>1, <1>2, <1>6, <1>7, <1>8, <1>9, <1>10, <1>11 DEF DepsTyped
<1>16. DiskRight'
  BY <1>1, <1>2, <1>4, AtNow DEF DiskRight
<1>17. ProcessRight(p)'
  <2>1. TodoRight(p)' /\ CompactRight(p)'
    BY <1>6 DEF TodoRight, CompactRight
  <2>2. AloneRight(p)'
    <3>1. D!Others(p)' = D!Others(p)
      BY <1>6 DEF D!Others
    <3> QED
      BY <1>6, <1>11, <3>1 DEF AloneRight
  <2>3. MemoryRight(p)'
    <3>1. Prefix(DiskNodes(file), DiskNodes(file))
      BY <1>5 DEF Prefix
    <3> QED
      BY <1>4, <1>7, <1>8, <3>1 DEF MemoryRight
  <2>4. WroteRight(p)'
    BY <1>10 DEF WroteRight
  <2> QED
    BY <2>1, <2>2, <2>3, <2>4 DEF ProcessRight
<1>18. ASSUME NEW q \in Process \ {p}  PROVE ProcessRight(q)'
  <2>0. ProcessRight(q) /\ dpc'[q] = dpc[q] /\ dpc[q] \in {"off", "idle", "record"} /\ ~alone'[q]
    BY <1>6, <1>11, <1>12 DEF DepsInv
  <2>1. TodoRight(q)'
    <3>1. dtodo' = dtodo /\ dgiven' = dgiven
      BY <1>1
    <3>2. \A r \in Process : dpc'[r] = "record" => dpc[r] = "record"
      BY <1>6
    <3> QED
      BY <2>0, <3>1, <3>2 DEF ProcessRight, TodoRight
  <2>2. AloneRight(q)' /\ CompactRight(q)'
    BY <2>0 DEF AloneRight, CompactRight
  <2>3. MemoryRight(q)'
    <3> SUFFICES ASSUME dpc[q] \in {"idle", "record"}  PROVE Prefix(nodes'[q], DiskNodes(file'))
      BY <2>0 DEF MemoryRight
    <3>1. q \in D!Others(p)
      BY DEF D!Others
    <3>2. Whole(file)
      BY <1>1, <3>1 DEF D!Recovered, Whole
    <3> QED
      BY <1>4, <1>7, <2>0, <3>2 DEF ProcessRight, MemoryRight
  <2>4. WroteRight(q)'
    BY <1>9, <1>10, <2>0 DEF ProcessRight, WroteRight
  <2> QED
    BY <2>1, <2>2, <2>3, <2>4 DEF ProcessRight
<1>19. DepsInv'
  BY <1>15, <1>16, <1>17, <1>18 DEF DepsInv
<1> QED
  BY <1>1, <1>14, <1>19 DEF Moved

LEMMA DepsInit == D!Init => DepsInv
<1> SUFFICES ASSUME D!Init  PROVE DepsInv
  OBVIOUS
<1>1. /\ file = <<>> /\ dtemp = <<>>
      /\ dpc = [p \in Process |-> "off"]
      /\ nodes = [p \in Process |-> <<>>] /\ deps = [p \in Process |-> <<>>]
      /\ opened = [p \in Process |-> FALSE] /\ dtodo = [p \in Process |-> D!Nothing]
      /\ alone = [p \in Process |-> FALSE] /\ dwrote = [p \in Process |-> {}]
      /\ dgiven = [n \in Node |-> <<>>] /\ dheld = [n \in Node |-> 0]
  BY DEF D!Init, D!Absent
<1>2. \A p \in Process : dpc[p] = "off"
  BY <1>1
<1>3. \A p \in Process : ProcessRight(p)
  BY <1>2 DEF ProcessRight, TodoRight, AloneRight, MemoryRight, CompactRight, WroteRight
<1>4. OnDisk(dgiven, file) /\ \A n \in Node : HeldOf(dgiven, file)[n] = 0
  BY <1>1, NoDisk
<1>5. HeldOf(dgiven, file) = [n \in Node |-> HeldOf(dgiven, file)[n]]
  BY DEF HeldOf
<1>6. HeldOf(dgiven, file) = dheld
  BY <1>1, <1>4, <1>5
<1>7. Effective = file
  BY <1>2 DEF Effective, Unlinked
<1>8. DiskRight
  BY <1>1, <1>4, <1>6, <1>7 DEF DiskRight
<1>9. DepsTyped
  <2>1. <<>> \in Seq(Record) /\ <<>> \in Seq(Node) /\ <<>> \in Seq(Entry)
    OBVIOUS
  <2> QED
    BY <1>1, <2>1 DEF DepsTyped
<1> QED
  BY <1>3, <1>8, <1>9 DEF DepsInv

LEMMA DepsNext ==
    ASSUME DepsInv, D!Next
    PROVE  DepsInv' /\ (Moved \/ Given \/ UNCHANGED <<dgiven, dheld>>)
<1>1. CASE D!Ended
  <2>1. UNCHANGED dvars
    BY <1>1 DEF D!Ended, D!vars, D!logVars, D!procVars, D!histVars, dvars
  <2> QED
    BY <2>1, AtNow DEF dvars, DepsInv, DepsTyped, DiskRight, ProcessRight, TodoRight, AloneRight,
       MemoryRight, CompactRight, WroteRight, Effective, Unlinked, D!Others
<1>2. CASE D!Step /\ dheld' = (D!At)'
  <2>1. PICK p \in Process :
           \/ D!Start(p) \/ D!RecordId(p) \/ D!WriteDeps(p) \/ D!Close(p) \/ D!Crash(p)
           \/ D!WriteTemp(p) \/ D!UnlinkOld(p) \/ D!RenameTemp(p)
           \/ \E n \in Live : \E ds \in DepsOf[n] : D!BeginRecord(p, n, ds)
    BY <1>2 DEF D!Step
  <2>2. CASE D!Start(p)
    BY <1>2, <2>2, StartStep
  <2>3. CASE D!RecordId(p)
    BY <1>2, <2>3, RecordIdStep
  <2>4. CASE D!WriteDeps(p)
    BY <1>2, <2>4, WriteDepsStep
  <2>5. CASE D!Close(p)
    BY <1>2, <2>5, CloseStep
  <2>6. CASE D!Crash(p)
    BY <1>2, <2>6, CrashStep
  <2>7. CASE D!WriteTemp(p)
    BY <1>2, <2>7, WriteTempStep
  <2>8. CASE D!UnlinkOld(p)
    BY <1>2, <2>8, UnlinkStep
  <2>9. CASE D!RenameTemp(p)
    BY <1>2, <2>9, RenameStep
  <2>10. CASE \E n \in Live : \E ds \in DepsOf[n] : D!BeginRecord(p, n, ds)
    BY <1>2, <2>10, BeginStep
  <2> QED
    BY <2>1, <2>2, <2>3, <2>4, <2>5, <2>6, <2>7, <2>8, <2>9, <2>10
<1> QED
  BY <1>1, <1>2 DEF D!Next
-----------------------------------------------------------------------------
(***************************************************************************)
(* The build log: the invariant.                                           *)
(***************************************************************************)
LineRecord ==
    {B!Header, B!OldHeader} \cup B!CutHeaders
        \cup [kind : {"entry"}, out : Output, val : Int]
        \cup [kind : {"cut"}, out : Output, where : {"start", "path", "hash"}]

\* The record number that an entry stands for: a garbage hash fits no command.
Used(f) == [o \in Output |-> IF f[o] = B!Bad THEN 0 ELSE f[o]]

LinesFile == IF bpc = "unlinked" THEN btemp ELSE log

LinesTyped ==
    /\ log \in Seq(LineRecord) /\ btemp \in Seq(LineRecord)
    /\ bpc \in {"off", "idle", "record", "replace", "unlinked"}
    /\ entries \in [Output -> Int]
    /\ writing \in BOOLEAN /\ whole \in BOOLEAN
    /\ btodo \in Seq(Output) /\ bwrote \subseteq Output
    /\ bgiven \in [Output -> Nat]

LinesRight ==
    /\ bheld = Used(B!Loaded(LinesFile))
    /\ bpc = "record" => btodo # <<>>
    \* Nothing is rewritten once the file is open, so that memory is what was loaded.
    /\ bpc \in {"replace", "unlinked"} => ~writing
    /\ bpc # "off" /\ ~writing => bwrote = {}
    /\ bpc = "idle" /\ ~writing => entries = B!Loaded(log)
    /\ bpc = "replace" => \A o \in Output : entries[o] \in {0, B!Bad, bheld[o], bgiven[o]}
    /\ bpc \in {"replace", "unlinked"} => btemp = B!Lines(entries)
    /\ bpc = "unlinked" => log = B!Absent
    \* Without a line cut short, each line is read for itself.
    /\ bpc # "off" /\ whole =>
         /\ \A i \in DOMAIN log : log[i].kind \in {"header", "old_header", "entry"}
         /\ log = <<>> \/ B!ValidHeader(log)
    /\ bpc # "off" /\ whole => \A o \in bwrote : \/ bpc = "record" /\ o \in ToSet(btodo)
                                                 \/ bheld[o] = bgiven[o]

LinesInv == LinesTyped /\ LinesRight

-----------------------------------------------------------------------------
(***************************************************************************)
(* What Load makes of a line that is appended to the build log.            *)
(***************************************************************************)
LEMMA LineKinds ==
    ASSUME NEW r \in LineRecord
    PROVE  /\ r.kind \in {"header", "old_header", "cut_header", "unended_header", "entry", "cut"}
           /\ r.kind = "entry" => r.out \in Output /\ r.val \in Int
           /\ r.kind = "cut" => r.out \in Output
<1>1. CASE r \in {B!Header, B!OldHeader}
  BY <1>1 DEF B!Header, B!OldHeader
<1>2. CASE r \in B!CutHeaders
  BY <1>2 DEF B!CutHeaders
<1>3. CASE r \in [kind : {"entry"}, out : Output, val : Int]
  BY <1>3
<1>4. CASE r \in [kind : {"cut"}, out : Output, where : {"start", "path", "hash"}]
  BY <1>4
<1> QED
  BY <1>1, <1>2, <1>3, <1>4 DEF LineRecord

LEMMA ReadNone ==
    ASSUME NEW f, NEW i, i = 1 \/ f[i].kind # "entry"
    PROVE  B!ReadLine(f, i) = {}
  BY DEF B!ReadLine

LEMMA ReadEntry ==
    ASSUME NEW f, NEW i \in Nat, i # 1, f[i].kind = "entry", f[i - 1].kind # "cut"
    PROVE  B!ReadLine(f, i) = {<<f[i].out, f[i].val>>}
<1>1. ASSUME NEW j \in 2 .. i - 1  PROVE i - 1 \in j .. i - 1
  OBVIOUS
<1>2. B!JoinedCuts(f, i) = {}
  BY <1>1 DEF B!JoinedCuts
<1> QED
  BY <1>2 DEF B!ReadLine

\* Lines that were cut short before it leave a line as it is, or put a garbage
\* hash for the output of the first of them, or nothing, in its place.
LEMMA ReadCut ==
    ASSUME NEW f, NEW i \in Nat, i # 1, f[i].kind = "entry"
    PROVE  \/ B!ReadLine(f, i) = {}
           \/ B!ReadLine(f, i) = {<<f[i].out, f[i].val>>}
           \/ \E j \in 2 .. i - 1 : /\ f[j].kind = "cut"
                                     /\ B!ReadLine(f, i) = {<<f[j].out, B!Bad>>}
<1> DEFINE C == B!JoinedCuts(f, i)
           H == {k \in C : f[k].where = "hash" /\ \A l \in C : k <= l}
<1>1. B!ReadLine(f, i) = IF C = {} THEN {<<f[i].out, f[i].val>>}
                         ELSE {<<f[j].out, B!Bad>> : j \in H}
  BY DEF B!ReadLine
<1>2. \A j \in C : j \in 2 .. i - 1 /\ f[j].kind = "cut"
  <2> SUFFICES ASSUME NEW j \in C  PROVE j \in 2 .. i - 1 /\ f[j].kind = "cut"
    OBVIOUS
  <2>1. j \in 2 .. i - 1 /\ \A k \in j .. i - 1 : f[k].kind = "cut"
    BY DEF B!JoinedCuts
  <2>2. j \in j .. i - 1
    BY <2>1
  <2> QED
    BY <2>1, <2>2
<1> HIDE DEF C
<1>3. CASE H = {}
  BY <1>1, <1>3
<1>4. CASE H # {}
  <2>1. PICK j \in H : TRUE
    BY <1>4
  <2>2. \A k \in H : k = j
    BY <1>2, <2>1
  <2>3. H = {j} /\ C # {}
    BY <2>1, <2>2
  <2> HIDE DEF H
  <2>4. B!ReadLine(f, i) = {<<f[j].out, B!Bad>>}
    BY <1>1, <2>3
  <2>5. j \in C
    BY <2>1 DEF H
  <2> QED
    BY <1>2, <2>4, <2>5
<1> QED
  BY <1>3, <1>4

\* A line says at most one thing.
LEMMA ReadOne ==
    ASSUME NEW f, NEW i \in Nat
    PROVE  B!ReadLine(f, i) = {} \/ \E o, v : B!ReadLine(f, i) = {<<o, v>>}
<1>1. CASE i = 1 \/ f[i].kind # "entry"
  BY <1>1, ReadNone
<1>2. CASE i # 1 /\ f[i].kind = "entry"
  <2>1. \/ B!ReadLine(f, i) = {}
        \/ B!ReadLine(f, i) = {<<f[i].out, f[i].val>>}
        \/ \E j \in 2 .. i - 1 : B!ReadLine(f, i) = {<<f[j].out, B!Bad>>}
    BY <1>2, ReadCut
  <2> QED
    BY <2>1
<1> QED
  BY <1>1, <1>2

\* What is appended changes nothing about the lines before it.
LEMMA ReadSame ==
    ASSUME NEW f \in Seq(LineRecord), NEW r \in LineRecord, NEW i \in 1 .. Len(f)
    PROVE  B!ReadLine(Append(f, r), i) = B!ReadLine(f, i)
<1> DEFINE g == Append(f, r)
<1> SUFFICES B!ReadLine(g, i) = B!ReadLine(f, i)
  OBVIOUS
<1>1. Len(f) \in Nat /\ \A j \in 1 .. Len(f) : g[j] = f[j]
  BY Appended, Elements
<1> HIDE DEF g
<1>2. \A j \in 2 .. i - 1 : g[j] = f[j] /\ \A k \in j .. i - 1 : g[k] = f[k]
  BY <1>1
<1>3. B!JoinedCuts(g, i) = B!JoinedCuts(f, i)
  BY <1>2 DEF B!JoinedCuts
<1>4. \A j \in B!JoinedCuts(f, i) : g[j] = f[j]
  BY <1>2 DEF B!JoinedCuts
<1>5. g[i] = f[i]
  BY <1>1
<1> DEFINE C == B!JoinedCuts(f, i)
           G(e) == {k \in C : e[k].where = "hash" /\ \A l \in C : k <= l}
<1>6. {<<g[j].out, B!Bad>> : j \in G(g)} = {<<f[j].out, B!Bad>> : j \in G(f)}
  <2> HIDE DEF C
  <2>1. \A j \in C : g[j] = f[j]
    BY <1>4 DEF C
  <2>2. G(g) = G(f) /\ \A j \in G(f) : g[j] = f[j]
    BY <2>1
  <2> HIDE DEF G
  <2> QED
    BY <2>2
<1>7. /\ B!ReadLine(g, i) = IF i = 1 \/ g[i].kind # "entry" THEN {}
                            ELSE IF C = {} THEN {<<g[i].out, g[i].val>>}
                            ELSE {<<g[j].out, B!Bad>> : j \in G(g)}
      /\ B!ReadLine(f, i) = IF i = 1 \/ f[i].kind # "entry" THEN {}
                            ELSE IF C = {} THEN {<<f[i].out, f[i].val>>}
                            ELSE {<<f[j].out, B!Bad>> : j \in G(f)}
  BY <1>3 DEF B!ReadLine
<1> HIDE DEF C, G
<1> QED
  BY <1>5, <1>6, <1>7

Speaks(f, i, o) == \E e \in B!ReadLine(f, i) : e[1] = o

\* The line i is the last one of the output o, and says v.
Says(f, o, i, v) == /\ i \in 1 .. Len(f) /\ B!ReadLine(f, i) = {<<o, v>>}
                    /\ \A j \in i + 1 .. Len(f) : ~Speaks(f, j, o)

LEMMA ValueIs ==
    ASSUME NEW f \in Seq(LineRecord), B!ValidHeader(f), NEW o \in Output, NEW i, NEW v, Says(f, o, i, v)
    PROVE  B!Loaded(f)[o] = v
<1> DEFINE lines == {j \in 1 .. Len(f) : Speaks(f, j, o)}
           last == CHOOSE j \in lines : \A k \in lines : k <= j
           Said(j) == CHOOSE e \in B!ReadLine(f, j) : TRUE
<1>1. Len(f) \in Nat
  BY Elements
<1>2. B!Loaded(f)[o] = IF lines = {} THEN 0 ELSE Said(last)[2]
  BY DEF B!Loaded, Speaks
<1>3. i \in lines /\ \A k \in lines : k <= i
  <2>1. Speaks(f, i, o)
    BY DEF Says, Speaks
  <2>2. ASSUME NEW k \in lines  PROVE k <= i
    <3>1. k \notin i + 1 .. Len(f) /\ i \in 1 .. Len(f) /\ k \in 1 .. Len(f)
      BY DEF Says
    <3> QED
      BY <1>1, <3>1
  <2> QED
    BY <2>1, <2>2 DEF Says
<1>4. last = i
  <2>1. \A k \in lines : k \in Nat
    OBVIOUS
  <2> HIDE DEF lines
  <2>2. last \in lines /\ \A k \in lines : k <= last
    BY <1>3
  <2>3. last <= i /\ i <= last
    BY <1>3, <2>2
  <2> QED
    BY <1>3, <2>1, <2>2, <2>3
<1>5. Said(i) = <<o, v>>
  BY OnlyChoice DEF Says
<1> HIDE DEF lines, last, Said
<1>6. B!Loaded(f)[o] = Said(last)[2]
  BY <1>2, <1>3
<1> QED
  BY <1>4, <1>5, <1>6

LEMMA NoValue ==
    ASSUME NEW f, NEW o \in Output, \A j \in 1 .. Len(f) : ~Speaks(f, j, o)
    PROVE  B!Loaded(f)[o] = 0
<1>1. CASE ~B!ValidHeader(f)
  BY <1>1 DEF B!Loaded, B!NoEntries
<1>2. CASE B!ValidHeader(f)
  <2>1. {j \in 1 .. Len(f) : \E e \in B!ReadLine(f, j) : e[1] = o} = {}
    BY DEF Speaks
  <2> QED
    BY <1>2, <2>1 DEF B!Loaded
<1> QED
  BY <1>1, <1>2

LEMMA SaysOrNot ==
    ASSUME NEW f \in Seq(LineRecord), NEW o
    PROVE  (\A j \in 1 .. Len(f) : ~Speaks(f, j, o)) \/ \E i, v : Says(f, o, i, v)
<1> DEFINE T == {j \in 1 .. Len(f) : Speaks(f, j, o)}
<1> SUFFICES ASSUME T # {}  PROVE \E i, v : Says(f, o, i, v)
  OBVIOUS
<1>1. Len(f) \in Nat
  BY Elements
<1>2. PICK i \in T : \A k \in T : k <= i
  <2>1. T \subseteq 1 .. Len(f)
    OBVIOUS
  <2> HIDE DEF T
  <2> QED
    BY <1>1, <2>1, Latest
<1>3. PICK v : B!ReadLine(f, i) = {<<o, v>>}
  <2>1. PICK p, v : B!ReadLine(f, i) = {<<p, v>>}
    <3>1. i \in Nat /\ B!ReadLine(f, i) # {}
      BY <1>1, <1>2 DEF Speaks
    <3> QED
      BY <3>1, ReadOne
  <2>2. p = o
    BY <2>1 DEF Speaks
  <2> QED
    BY <2>1, <2>2
<1>4. ASSUME NEW j \in i + 1 .. Len(f)  PROVE ~Speaks(f, j, o)
  <2>1. j \in 1 .. Len(f) /\ ~(j <= i)
    BY <1>1
  <2> QED
    BY <1>2, <2>1
<1> QED
  BY <1>3, <1>4 DEF Says

\* What the last line says counts; about other outputs nothing changes.
LEMMA LoadedAppend ==
    ASSUME NEW f \in Seq(LineRecord), NEW r \in LineRecord, B!ValidHeader(f),
           B!ValidHeader(Append(f, r)), NEW o \in Output
    PROVE  LET g == Append(f, r)
               n == Len(f) + 1
           IN  /\ ~Speaks(g, n, o) => B!Loaded(g)[o] = B!Loaded(f)[o]
               /\ \A v : B!ReadLine(g, n) = {<<o, v>>} => B!Loaded(g)[o] = v
<1> DEFINE g == Append(f, r)
           n == Len(f) + 1
<1>1. g \in Seq(LineRecord) /\ Len(g) = n /\ Len(f) \in Nat
  BY Appended, Elements
<1>2. \A i \in 1 .. Len(f) : B!ReadLine(g, i) = B!ReadLine(f, i)
  BY ReadSame
<1>3. B!ValidHeader(g)
  OBVIOUS
<1> HIDE DEF g
<1>4. ASSUME ~Speaks(g, n, o)  PROVE B!Loaded(g)[o] = B!Loaded(f)[o]
  <2>1. CASE \A j \in 1 .. Len(f) : ~Speaks(f, j, o)
    <3>1. ASSUME NEW j \in 1 .. Len(g)  PROVE ~Speaks(g, j, o)
      <4>1. j = n \/ j \in 1 .. Len(f)
        BY <1>1
      <4> QED
        BY <1>2, <1>4, <2>1, <4>1 DEF Speaks
    <3> QED
      BY <2>1, <3>1, NoValue
  <2>2. CASE \E i, v : Says(f, o, i, v)
    <3>1. PICK i, v : Says(f, o, i, v)
      BY <2>2
    <3>2. i \in 1 .. Len(f) /\ i \in 1 .. Len(g)
      BY <1>1, <3>1 DEF Says
    <3>3. ASSUME NEW j \in i + 1 .. Len(g)  PROVE ~Speaks(g, j, o)
      <4>1. j = n \/ (j \in i + 1 .. Len(f) /\ j \in 1 .. Len(f))
        BY <1>1, <3>2
      <4> QED
        BY <1>2, <1>4, <3>1, <4>1 DEF Speaks, Says
    <3>4. Says(g, o, i, v)
      BY <1>2, <3>1, <3>2, <3>3 DEF Says
    <3> QED
      BY <1>1, <1>3, <3>1, <3>4, ValueIs
  <2> QED
    BY <2>1, <2>2, SaysOrNot
<1>5. ASSUME NEW v, B!ReadLine(g, n) = {<<o, v>>}  PROVE B!Loaded(g)[o] = v
  <2>1. Says(g, o, n, v)
    BY <1>1, <1>5 DEF Says
  <2> QED
    BY <1>1, <1>3, <2>1, ValueIs
<1> QED
  BY <1>4, <1>5 DEF g

LEMMA LoadedFn ==
    ASSUME NEW f
    PROVE  B!Loaded(f) = [o \in Output |-> B!Loaded(f)[o]]
<1> DEFINE lines(o) == {i \in 1 .. Len(f) : \E e \in B!ReadLine(f, i) : e[1] = o}
           last(o) == CHOOSE i \in lines(o) : \A j \in lines(o) : j <= i
           Said(o) == IF lines(o) = {} THEN 0 ELSE (CHOOSE e \in B!ReadLine(f, last(o)) : TRUE)[2]
<1>1. B!Loaded(f) = IF ~B!ValidHeader(f) THEN [o \in Output |-> 0] ELSE [o \in Output |-> Said(o)]
  BY DEF B!Loaded, B!NoEntries
<1> HIDE DEF Said
<1> QED
  BY <1>1

\* Without a valid header, or with nothing but one, there are no entries.
LEMMA NoLines ==
    ASSUME NEW f \in Seq(LineRecord), ~B!ValidHeader(f) \/ Len(f) = 1
    PROVE  B!Loaded(f) = B!NoEntries
<1>1. CASE ~B!ValidHeader(f)
  BY <1>1 DEF B!Loaded
<1>2. CASE Len(f) = 1
  <2>1. \A j \in 1 .. Len(f) : ~Speaks(f, j, 0) /\ B!ReadLine(f, j) = {}
    BY <1>2, ReadNone DEF Speaks
  <2>2. \A o \in Output : B!Loaded(f)[o] = 0
    BY <2>1, NoValue DEF Speaks
  <2> QED
    BY <2>2, LoadedFn DEF B!NoEntries
<1> QED
  BY <1>1, <1>2

LEMMA NoFile == ~B!ValidHeader(<<>>) /\ B!Loaded(<<>>) = B!NoEntries
  BY DEF B!ValidHeader, B!Absent, B!Loaded

\* No line of the file was cut short.
Plain(f) == /\ \A i \in DOMAIN f : f[i].kind \in {"header", "old_header", "entry"}
            /\ f = <<>> \/ B!ValidHeader(f)

LEMMA OpenedLines ==
    ASSUME NEW f \in Seq(LineRecord)
    PROVE  LET g == B!Opened(f)
           IN  /\ g \in Seq(LineRecord) /\ g # <<>> /\ B!Loaded(g) = B!Loaded(f)
               /\ Plain(f) => Plain(g) /\ B!ValidHeader(g)
<1>1. CASE f = <<>>
  <2> DEFINE g == <<B!Header>>
  <2>1. B!Opened(f) = g
    BY <1>1 DEF B!Opened, B!Absent
  <2>2. B!Header \in LineRecord /\ B!Header.kind = "header"
    BY DEF LineRecord, B!Header
  <2>3. g \in Seq(LineRecord) /\ Len(g) = 1 /\ g # <<>> /\ g[1] = B!Header /\ DOMAIN g = {1}
    BY <2>2
  <2> HIDE DEF g
  <2>4. B!Loaded(g) = B!Loaded(f)
    BY <1>1, <2>3, NoLines, NoFile
  <2>5. B!ValidHeader(g)
    BY <2>2, <2>3 DEF B!ValidHeader, B!Absent
  <2>6. Plain(g)
    BY <2>2, <2>3, <2>5 DEF Plain
  <2> QED
    BY <2>1, <2>3, <2>4, <2>5, <2>6
<1>2. CASE f # <<>>
  <2>1. B!Opened(f) = f
    BY <1>2 DEF B!Opened, B!Absent
  <2> QED
    BY <1>2, <2>1 DEF Plain
<1> QED
  BY <1>1, <1>2

LEMMA UsedIs ==
    ASSUME NEW f, NEW o \in Output
    PROVE  Used(f)[o] = IF f[o] = B!Bad THEN 0 ELSE f[o]
  BY DEF Used

\* WriteEntry: the file gets the newest record of the output, or nothing, or an
\* entry whose hash is garbage in place of what it had.
LEMMA AppendEntry ==
    ASSUME NEW f \in Seq(LineRecord), NEW o \in Output, NEW v \in Nat
    PROVE  LET g == Append(B!Opened(f), B!Line(o, v))
               was == Used(B!Loaded(f))
               is == Used(B!Loaded(g))
           IN  /\ g \in Seq(LineRecord)
               /\ \A k \in Output : is[k] \in {0, was[k]} \/ (k = o /\ is[k] = v)
               /\ Plain(f) => /\ Plain(g) /\ is[o] = v
                              /\ \A k \in Output \ {o} : is[k] = was[k]
<1> DEFINE h == B!Opened(f)
           r == B!Line(o, v)
           g == Append(h, r)
           n == Len(h) + 1
<1>1. h \in Seq(LineRecord) /\ h # <<>> /\ B!Loaded(h) = B!Loaded(f)
      /\ (Plain(f) => Plain(h) /\ B!ValidHeader(h))
  BY OpenedLines
<1>2. r \in LineRecord /\ r.kind = "entry" /\ r.out = o /\ r.val = v
  <2>1. v \in Int
    OBVIOUS
  <2> QED
    BY <2>1 DEF B!Line, LineRecord
<1> HIDE DEF h, r
<1>3. /\ g \in Seq(LineRecord) /\ Len(g) = n /\ g[n] = r /\ DOMAIN g = 1 .. n
      /\ \A i \in 1 .. Len(h) : g[i] = h[i]
  BY <1>1, <1>2, Appended
<1>4. Len(h) \in Nat \ {0} /\ DOMAIN h = 1 .. Len(h)
  BY <1>1, Elements, EmptySeq
<1>5. g[1] = h[1] /\ g # <<>> /\ n # 1 /\ g[n - 1] = h[Len(h)]
  <2> HIDE DEF g
  <2> QED
    BY <1>3, <1>4, EmptySeq
<1>6. B!ValidHeader(g) => B!ValidHeader(h)
  <2> HIDE DEF g
  <2> QED
    BY <1>1, <1>3, <1>4, <1>5 DEF B!ValidHeader, B!Absent
<1>7. ASSUME B!ValidHeader(g), NEW k \in Output
      PROVE  /\ ~Speaks(g, n, k) => B!Loaded(g)[k] = B!Loaded(h)[k]
             /\ \A x : B!ReadLine(g, n) = {<<k, x>>} => B!Loaded(g)[k] = x
  BY <1>1, <1>2, <1>6, <1>7, LoadedAppend
<1>8. v # B!Bad
  BY DEF B!Bad
<1> HIDE DEF g
<1>9. ASSUME B!ValidHeader(g), g[n - 1].kind # "cut"
      PROVE  /\ Used(B!Loaded(g))[o] = v
             /\ \A k \in Output \ {o} : Used(B!Loaded(g))[k] = Used(B!Loaded(h))[k]
  <2>1. B!ReadLine(g, n) = {<<o, v>>}
    BY <1>2, <1>3, <1>5, <1>9, ReadEntry
  <2>2. B!Loaded(g)[o] = v
    BY <1>7, <1>9, <2>1
  <2>3. ASSUME NEW k \in Output \ {o}  PROVE B!Loaded(g)[k] = B!Loaded(h)[k]
    <3>1. ~Speaks(g, n, k)
      BY <2>1 DEF Speaks
    <3> QED
      BY <1>7, <1>9, <3>1
  <2> QED
    BY <1>8, <2>2, <2>3, UsedIs
<1>10. ASSUME NEW k \in Output
       PROVE  \/ Used(B!Loaded(g))[k] \in {0, Used(B!Loaded(h))[k]}
              \/ (k = o /\ Used(B!Loaded(g))[k] = v)
  <2>1. CASE ~B!ValidHeader(g)
    <3>1. B!Loaded(g)[k] = 0
      BY <1>3, <2>1, NoLines DEF B!NoEntries
    <3> QED
      BY <3>1, UsedIs DEF B!Bad
  <2>2. CASE B!ValidHeader(g) /\ g[n - 1].kind # "cut"
    BY <1>9, <2>2
  <2>3. CASE B!ValidHeader(g) /\ g[n - 1].kind = "cut"
    <3>1. \/ B!ReadLine(g, n) = {}
          \/ B!ReadLine(g, n) = {<<o, v>>}
          \/ \E x : B!ReadLine(g, n) = {<<x, B!Bad>>}
      <4>1. \/ B!ReadLine(g, n) = {}
            \/ B!ReadLine(g, n) = {<<g[n].out, g[n].val>>}
            \/ \E j \in 2 .. n - 1 : B!ReadLine(g, n) = {<<g[j].out, B!Bad>>}
        <5>1. n \in Nat
          BY <1>4
        <5> QED
          BY <5>1, <1>2, <1>3, <1>5, ReadCut
      <4> QED
        BY <1>2, <1>3, <4>1
    <3>2. CASE ~Speaks(g, n, k)
      <4>1. B!Loaded(g)[k] = B!Loaded(h)[k]
        BY <1>7, <2>3, <3>2
      <4> QED
        BY <4>1, UsedIs
    <3>3. CASE Speaks(g, n, k)
      <4>1. \/ B!ReadLine(g, n) = {<<k, B!Bad>>}
            \/ k = o /\ B!ReadLine(g, n) = {<<k, v>>}
        BY <3>1, <3>3 DEF Speaks
      <4>2. B!Loaded(g)[k] = B!Bad \/ (k = o /\ B!Loaded(g)[k] = v)
        BY <1>7, <2>3, <4>1
      <4> QED
        BY <1>8, <4>2, UsedIs
    <3> QED
      BY <3>2, <3>3
  <2> QED
    BY <2>1, <2>2, <2>3
<1>11. ASSUME Plain(f)
       PROVE  /\ Plain(g) /\ Used(B!Loaded(g))[o] = v
              /\ \A k \in Output \ {o} : Used(B!Loaded(g))[k] = Used(B!Loaded(h))[k]
  <2>1. Plain(h) /\ B!ValidHeader(h)
    BY <1>1, <1>11
  <2>2. \A i \in 1 .. Len(h) : h[i].kind \in {"header", "old_header", "entry"}
    BY <1>4, <2>1 DEF Plain
  <2>3. g[1].kind \in {"header", "old_header", "entry"} /\ g[n - 1].kind # "cut"
    BY <1>4, <1>5, <2>2
  <2>4. B!ValidHeader(g)
    <3>1. h[1].kind = "header"
      BY <1>4, <2>1, <2>2 DEF B!ValidHeader
    <3> QED
      BY <1>5, <3>1 DEF B!ValidHeader, B!Absent
  <2>5. Plain(g)
    <3>1. \A i \in DOMAIN g : i = n \/ i \in 1 .. Len(h)
      BY <1>3, <1>4
    <3> QED
      BY <1>2, <1>3, <2>2, <2>4, <3>1 DEF Plain
  <2> QED
    BY <1>9, <2>3, <2>4, <2>5
<1> QED
  BY <1>1, <1>3, <1>10, <1>11 DEF g, h, r

\* A line that is cut short says nothing yet.
LEMMA AppendCut ==
    ASSUME NEW f \in Seq(LineRecord), f # <<>>, NEW r \in LineRecord, r.kind = "cut"
    PROVE  Append(f, r) \in Seq(LineRecord) /\ B!Loaded(Append(f, r)) = B!Loaded(f)
<1> DEFINE g == Append(f, r)
           n == Len(f) + 1
<1>1. /\ g \in Seq(LineRecord) /\ Len(g) = n /\ g[n] = r
      /\ \A i \in 1 .. Len(f) : g[i] = f[i]
  BY Appended
<1>2. Len(f) \in Nat \ {0}
  BY Elements, EmptySeq
<1>3. g[1] = f[1] /\ g # <<>>
  <2> HIDE DEF g
  <2> QED
    BY <1>1, <1>2, EmptySeq
<1>4. CASE B!ValidHeader(g)
  <2>1. B!ValidHeader(f)
    <3> HIDE DEF g
    <3> QED
      BY <1>1, <1>2, <1>3, <1>4 DEF B!ValidHeader, B!Absent
  <2>2. B!ReadLine(g, n) = {}
    <3> HIDE DEF g
    <3> QED
      BY <1>1, ReadNone
  <2>3. ASSUME NEW o \in Output  PROVE B!Loaded(g)[o] = B!Loaded(f)[o]
    <3>1. ~Speaks(g, n, o)
      BY <2>2 DEF Speaks
    <3> QED
      BY <1>4, <2>1, <3>1, LoadedAppend
  <2>4. B!Loaded(g) = [o \in Output |-> B!Loaded(g)[o]] /\ B!Loaded(f) = [o \in Output |-> B!Loaded(f)[o]]
    BY LoadedFn
  <2> HIDE DEF g
  <2>5. B!Loaded(g) = B!Loaded(f)
    BY <2>3, <2>4
  <2> QED
    BY <1>1, <2>5 DEF g
<1>5. CASE ~B!ValidHeader(g)
  <2>1. ~B!ValidHeader(f) \/ Len(f) = 1
    <3> HIDE DEF g
    <3> QED
      BY <1>1, <1>2, <1>3, <1>5 DEF B!ValidHeader, B!Absent
  <2>2. B!Loaded(f) = B!NoEntries /\ B!Loaded(g) = B!NoEntries
    BY <1>1, <1>5, <2>1, NoLines
  <2> QED
    BY <1>1, <2>2
<1> QED
  BY <1>4, <1>5

\* Recompact and Restat: the new file has the entries it was written from.
LEMMA Listed ==
    ASSUME NEW S, IsFiniteSet(S)
    PROVE  /\ B!SetToSeq(S) \in Seq(S) /\ ToSet(B!SetToSeq(S)) = S
           /\ \A i, j \in DOMAIN B!SetToSeq(S) : B!SetToSeq(S)[i] = B!SetToSeq(S)[j] => i = j
<1>1. B!SetToSeq(S) = SetToSeq(S)
  BY DEF B!SetToSeq, SetToSeq, B!IsInjective, IsInjective, B!Cardinality, Cardinality
<1> QED
  BY <1>1, Listing

LEMMA LinesAre ==
    ASSUME NEW e \in [Output -> Int]
    PROVE  LET f == B!Lines(e)
           IN  f \in Seq(LineRecord) /\ Plain(f) /\ B!ValidHeader(f) /\ B!Loaded(f) = e
<1> DEFINE S == {o \in Output : e[o] # 0}
           outs == B!SetToSeq(S)
           t == [i \in DOMAIN outs |-> B!Line(outs[i], e[outs[i]])]
           f == B!Lines(e)
<1>1. IsFiniteSet(S)
  <2>1. IsFiniteSet(Output)
    BY LogsAssumption DEF B!LinesAssumption, B!IsFiniteSet, IsFiniteSet
  <2> QED
    BY <2>1, FS_Subset
<1>2. outs \in Seq(S) /\ ToSet(outs) = S /\ \A i, j \in DOMAIN outs : outs[i] = outs[j] => i = j
  BY <1>1, Listed
<1>3. f = <<B!Header>> \o t
  BY DEF B!Lines
<1> HIDE DEF outs
<1>4. DOMAIN outs = 1 .. Len(outs) /\ Len(outs) \in Nat /\ \A i \in 1 .. Len(outs) : outs[i] \in S
  BY <1>2, Elements
<1>5. t \in Seq(LineRecord) /\ Len(t) = Len(outs)
  <2>1. \A i \in 1 .. Len(outs) : B!Line(outs[i], e[outs[i]]) \in LineRecord
    BY <1>4 DEF B!Line, LineRecord
  <2>2. t = [i \in 1 .. Len(outs) |-> B!Line(outs[i], e[outs[i]])]
    BY <1>4
  <2> HIDE DEF t
  <2> QED
    BY <1>4, <2>1, <2>2
<1>6. B!Header \in LineRecord /\ B!Header.kind = "header"
  BY DEF LineRecord, B!Header
<1>7. <<B!Header>> \in Seq(LineRecord) /\ Len(<<B!Header>>) = 1
  BY <1>6
<1>8. \A i \in 1 .. Len(outs) : t[i] = B!Line(outs[i], e[outs[i]])
  BY <1>4
<1> HIDE DEF t, f, S
<1>9. /\ f \in Seq(LineRecord) /\ DOMAIN f = 1 .. 1 + Len(outs) /\ Len(f) = 1 + Len(outs)
      /\ f[1] = B!Header
      /\ \A i \in 1 .. Len(outs) : f[i + 1] = B!Line(outs[i], e[outs[i]])
  <2>1. f \in Seq(LineRecord) /\ Len(f) = 1 + Len(outs)
    BY <1>3, <1>5, <1>7, ConcatProperties
  <2>2. /\ DOMAIN f = 1 .. 1 + Len(outs)
        /\ \A i \in 1 .. 1 + Len(outs) : f[i] = IF i <= 1 THEN <<B!Header>>[i] ELSE t[i - 1]
    BY <1>3, <1>5, <1>7, Joined
  <2>3. f[1] = B!Header
    BY <1>4, <2>2
  <2>4. ASSUME NEW i \in 1 .. Len(outs)  PROVE f[i + 1] = t[i]
    <3>1. i + 1 \in 1 .. 1 + Len(outs) /\ ~(i + 1 <= 1) /\ (i + 1) - 1 = i
      BY <1>4
    <3> QED
      BY <2>2, <3>1
  <2> QED
    BY <1>8, <2>1, <2>2, <2>3, <2>4
<1>10. \A i \in 1 .. Len(outs) : /\ f[i + 1].kind = "entry" /\ f[i + 1].out = outs[i]
                                 /\ f[i + 1].val = e[outs[i]]
  <2> SUFFICES ASSUME NEW i \in 1 .. Len(outs)
               PROVE  /\ f[i + 1].kind = "entry" /\ f[i + 1].out = outs[i]
                      /\ f[i + 1].val = e[outs[i]]
    OBVIOUS
  <2>1. f[i + 1] = [kind |-> "entry", out |-> outs[i], val |-> e[outs[i]]]
    BY <1>9 DEF B!Line
  <2> QED
    BY <2>1
<1>11. \A i \in DOMAIN f : i = 1 \/ (i - 1 \in 1 .. Len(outs) /\ (i - 1) + 1 = i)
  BY <1>4, <1>9
<1>12. \A i \in DOMAIN f : f[i].kind \in {"header", "entry"}
  BY <1>6, <1>9, <1>10, <1>11
<1>13. B!ValidHeader(f)
  <2>1. f # <<>>
    BY <1>4, <1>9
  <2> QED
    BY <1>6, <1>9, <2>1 DEF B!ValidHeader, B!Absent
<1>14. Plain(f)
  BY <1>12, <1>13 DEF Plain
<1>15. B!ReadLine(f, 1) = {}
  BY ReadNone
<1>16. \A i \in 1 .. Len(outs) : B!ReadLine(f, i + 1) = {<<outs[i], e[outs[i]]>>}
  <2> SUFFICES ASSUME NEW i \in 1 .. Len(outs)
               PROVE  B!ReadLine(f, i + 1) = {<<outs[i], e[outs[i]]>>}
    OBVIOUS
  <2>1. i + 1 # 1 /\ (i + 1) - 1 = i /\ i \in DOMAIN f
    BY <1>4, <1>9
  <2>2. f[i].kind # "cut"
    BY <1>12, <2>1
  <2>3. B!ReadLine(f, i + 1) = {<<f[i + 1].out, f[i + 1].val>>}
    BY <1>10, <2>1, <2>2, ReadEntry
  <2> QED
    BY <1>10, <2>3
<1>17. ASSUME NEW o \in Output  PROVE B!Loaded(f)[o] = e[o]
  <2>1. CASE o \in S
    <3>1. PICK i \in 1 .. Len(outs) : outs[i] = o
      BY <1>2, <1>4, <2>1 DEF ToSet
    <3>2. ASSUME NEW j \in (i + 1) + 1 .. Len(f)  PROVE ~Speaks(f, j, o)
      <4>1. j - 1 \in 1 .. Len(outs) /\ (j - 1) + 1 = j /\ j - 1 # i
        BY <1>4, <1>9
      <4>2. B!ReadLine(f, j) = {<<outs[j - 1], e[outs[j - 1]]>>}
        BY <1>16, <4>1
      <4>3. outs[j - 1] # o
        BY <1>2, <1>4, <3>1, <4>1
      <4> QED
        BY <4>2, <4>3 DEF Speaks
    <3>3. i + 1 \in 1 .. Len(f)
      BY <1>4, <1>9
    <3>4. B!ReadLine(f, i + 1) = {<<o, e[o]>>}
      BY <1>16, <3>1
    <3>5. Says(f, o, i + 1, e[o])
      BY <3>2, <3>3, <3>4 DEF Says
    <3> QED
      BY <1>9, <1>13, <3>5, ValueIs
  <2>2. CASE o \notin S
    <3>1. ASSUME NEW j \in 1 .. Len(f)  PROVE ~Speaks(f, j, o)
      <4>1. CASE j = 1
        BY <1>15, <4>1 DEF Speaks
      <4>2. CASE j # 1
        <5>1. j - 1 \in 1 .. Len(outs) /\ (j - 1) + 1 = j
          BY <1>9, <1>11, <4>2
        <5>2. B!ReadLine(f, j) = {<<outs[j - 1], e[outs[j - 1]]>>} /\ outs[j - 1] # o
          BY <1>4, <1>16, <2>2, <5>1
        <5> QED
          BY <5>2 DEF Speaks
      <4> QED
        BY <4>1, <4>2
    <3>2. B!Loaded(f)[o] = 0
      BY <3>1, NoValue
    <3> QED
      BY <2>2, <3>2 DEF S
  <2> QED
    BY <2>1, <2>2
<1>18. B!Loaded(f) = e
  <2>1. B!Loaded(f) = [o \in Output |-> B!Loaded(f)[o]] /\ e = [o \in Output |-> e[o]]
    BY LoadedFn
  <2> QED
    BY <1>17, <2>1
<1> QED
  BY <1>9, <1>13, <1>14, <1>18 DEF f

-----------------------------------------------------------------------------
(***************************************************************************)
(* The build log: every step keeps the invariant.                          *)
(***************************************************************************)
\* In a step of the build log, what the next build would use stays, is lost, or
\* becomes the newest record;
LinesMoved == /\ \A o \in Output : bheld'[o] \in {0, bheld[o], bgiven[o]}
              /\ bgiven' = bgiven

\* or records are given, and the log is as it was.
LinesGiven == /\ \E K \in SUBSET Output :
                   bgiven' = [o \in Output |-> IF o \in K THEN bgiven[o] + 1 ELSE bgiven[o]]
              /\ bheld' = bheld

LEMMA AtLines == (B!At)' = Used(B!Loaded(LinesFile'))
<1> DEFINE file0 == IF bpc' = "unlinked" THEN btemp' ELSE log'
           f0 == B!Loaded(file0)
<1>1. LinesFile' = file0
  BY DEF LinesFile
<1>2. (B!At)' = [o \in Output |-> IF f0[o] = B!Bad THEN 0 ELSE f0[o]]
  BY DEF B!At
<1> HIDE DEF file0
<1> QED
  BY <1>1, <1>2 DEF Used

LEMMA HeldFn ==
    ASSUME LinesInv
    PROVE  bheld = [o \in Output |-> bheld[o]]
  BY DEF LinesInv, LinesRight, Used

LEMMA LoadedType ==
    ASSUME NEW f \in Seq(LineRecord)
    PROVE  B!Loaded(f) \in [Output -> Int]
<1>1. ASSUME NEW o \in Output  PROVE B!Loaded(f)[o] \in Int
  <2>1. CASE ~B!ValidHeader(f)
    BY <2>1 DEF B!Loaded, B!NoEntries
  <2>2. CASE B!ValidHeader(f) /\ \A j \in 1 .. Len(f) : ~Speaks(f, j, o)
    BY <2>2, NoValue
  <2>3. CASE B!ValidHeader(f) /\ \E i, v : Says(f, o, i, v)
    <3>1. PICK i, v : Says(f, o, i, v)
      BY <2>3
    <3>2. B!Loaded(f)[o] = v
      BY <2>3, <3>1, ValueIs
    <3>3. f[i] \in LineRecord /\ B!ReadLine(f, i) = {<<o, v>>}
      BY <3>1, Elements DEF Says
    <3>4. i # 1 /\ f[i].kind = "entry"
      BY <3>3, ReadNone
    <3>5. <<o, v>> = <<f[i].out, f[i].val>> \/ \E x : <<o, v>> = <<x, B!Bad>>
      <4>1. <<o, v>> \in B!ReadLine(f, i) /\ i \in Nat
        BY <3>1, <3>3, Elements DEF Says
      <4> QED
        BY <3>4, <4>1, ReadCut
    <3>6. v = f[i].val \/ v = -1
      BY <3>5 DEF B!Bad
    <3> QED
      BY <3>2, <3>3, <3>4, <3>6, LineKinds
  <2> QED
    BY <2>1, <2>2, <2>3, SaysOrNot
<1> QED
  BY <1>1, LoadedFn

\* A line that was not cut short is of one of the kinds that are read.
LEMMA NotBroken ==
    ASSUME NEW r \in LineRecord, r \notin B!BrokenOff
    PROVE  r.kind \in {"header", "old_header", "entry"}
<1>1. CASE r \in {B!Header, B!OldHeader}
  BY <1>1 DEF B!Header, B!OldHeader
<1>2. CASE r \in B!CutHeaders
  BY <1>2 DEF B!BrokenOff
<1>3. CASE r \in [kind : {"entry"}, out : Output, val : Int]
  BY <1>3
<1>4. CASE r \in [kind : {"cut"}, out : Output, where : {"start", "path", "hash"}]
  <2>1. r.out \in Output /\ r.where \in {"start", "path", "hash"}
        /\ r = [kind |-> "cut", out |-> r.out, where |-> r.where]
    BY <1>4
  <2>2. r \in B!Cuts(r.out)
    BY <2>1 DEF B!Cuts, B!Cut
  <2> QED
    BY <2>1, <2>2 DEF B!BrokenOff
<1> QED
  BY <1>1, <1>2, <1>3, <1>4 DEF LineRecord

LEMMA CutLine ==
    ASSUME NEW o \in Output, NEW c \in B!Cuts(o)
    PROVE  c \in LineRecord /\ c.kind = "cut"
<1>1. PICK w \in {"start", "path", "hash"} : c = [kind |-> "cut", out |-> o, where |-> w]
  BY DEF B!Cuts, B!Cut
<1> QED
  BY <1>1 DEF LineRecord

LEMMA LinesInit == B!Init => LinesInv
<1> SUFFICES ASSUME B!Init  PROVE LinesInv
  OBVIOUS
<1>1. /\ log \in {<<>>, <<B!OldHeader>>} /\ btemp = <<>>
      /\ bpc = "off" /\ entries = [o \in Output |-> 0] /\ writing = FALSE /\ btodo = <<>>
      /\ whole = TRUE /\ bwrote = {}
      /\ bgiven = [o \in Output |-> 0] /\ bheld = [o \in Output |-> 0]
  BY DEF B!Init, B!Absent, B!NoEntries
<1>2. log \in Seq(LineRecord) /\ B!Loaded(log) = B!NoEntries
  <2>1. CASE log = <<>>
    BY <2>1, NoFile
  <2>2. CASE log = <<B!OldHeader>>
    <3>1. B!OldHeader \in LineRecord
      BY DEF LineRecord
    <3>2. log \in Seq(LineRecord) /\ Len(log) = 1
      BY <2>2, <3>1
    <3> QED
      BY <3>2, NoLines
  <2> QED
    BY <1>1, <2>1, <2>2
<1>3. bheld = Used(B!Loaded(LinesFile))
  BY <1>1, <1>2 DEF LinesFile, Used, B!NoEntries, B!Bad
<1>4. LinesTyped
  <2>1. <<>> \in Seq(LineRecord) /\ <<>> \in Seq(Output)
    OBVIOUS
  <2>2. entries \in [Output -> Int] /\ bgiven \in [Output -> Nat]
    BY <1>1
  <2> QED
    BY <1>1, <1>2, <2>1, <2>2 DEF LinesTyped
<1>5. LinesRight
  BY <1>1, <1>3 DEF LinesRight
<1> QED
  BY <1>4, <1>5 DEF LinesInv

LEMMA LinesStart ==
    ASSUME LinesInv, B!Start, bheld' = (B!At)'
    PROVE  LinesInv' /\ LinesMoved
<1>1. /\ bpc = "off"
      /\ log' = IF B!ValidHeader(log) THEN log ELSE <<>>
      /\ entries' = B!Loaded(log)
      /\ whole' = (B!ToSet(log') \cap B!BrokenOff = {})
      /\ bpc' = "idle" /\ writing' = FALSE /\ bwrote' = {}
      /\ UNCHANGED <<btemp, btodo, bgiven>>
  BY DEF B!Start, B!Absent
<1>2. LinesTyped /\ LinesRight /\ log \in Seq(LineRecord)
  BY DEF LinesInv, LinesTyped
<1>3. log' \in Seq(LineRecord) /\ B!Loaded(log') = B!Loaded(log) /\ (log' = <<>> \/ B!ValidHeader(log'))
  BY <1>1, <1>2, NoLines, NoFile
<1>4. LinesFile = log /\ LinesFile' = log'
  BY <1>1 DEF LinesFile
<1>5. bheld' = Used(B!Loaded(log')) /\ bheld' = bheld
  BY <1>2, <1>3, <1>4, AtLines DEF LinesRight
<1>6. whole' => \A i \in DOMAIN log' : log'[i].kind \in {"header", "old_header", "entry"}
  <2> SUFFICES ASSUME whole', NEW i \in DOMAIN log'
               PROVE  log'[i].kind \in {"header", "old_header", "entry"}
    OBVIOUS
  <2>1. log'[i] \in LineRecord
    BY <1>3, Elements
  <2>2. log'[i] \in ToSet(log')
    BY DEF ToSet
  <2>3. log'[i] \notin B!BrokenOff
    BY <1>1, <2>2, Collected
  <2> QED
    BY <2>1, <2>3, NotBroken
<1>7. entries' \in [Output -> Int] /\ whole' \in BOOLEAN
  BY <1>1, <1>2, LoadedType
<1>8. LinesTyped'
  BY <1>1, <1>2, <1>3, <1>7 DEF LinesTyped
<1>9. LinesRight'
  BY <1>1, <1>3, <1>4, <1>5, <1>6 DEF LinesRight
<1> QED
  BY <1>1, <1>5, <1>8, <1>9 DEF LinesInv, LinesMoved

LEMMA LinesBegin ==
    ASSUME LinesInv, NEW e \in Edge, B!BeginRecord(e), bheld' = (B!At)'
    PROVE  LinesInv' /\ LinesGiven
<1> DEFINE K == {o \in Output : o \in ToSet(e)}
<1>1. /\ bpc = "idle"
      /\ bgiven' = [o \in Output |-> IF B!Contains(e, o) THEN bgiven[o] + 1 ELSE bgiven[o]]
      /\ btodo' = e /\ bpc' = "record"
      /\ UNCHANGED <<log, btemp, entries, writing, whole, bwrote>>
  BY DEF B!BeginRecord
<1>2. LinesTyped /\ LinesRight
  BY DEF LinesInv
<1>3. e \in Seq(Output) /\ e # <<>>
  BY LogsAssumption DEF B!LinesAssumption
<1>4. \A o : B!Contains(e, o) <=> o \in ToSet(e)
  BY DEF B!Contains, ToSet
<1>5. bgiven' = [o \in Output |-> IF o \in K THEN bgiven[o] + 1 ELSE bgiven[o]]
  BY <1>1, <1>4
<1>6. bgiven' \in [Output -> Nat]
  BY <1>2, <1>5 DEF LinesTyped
<1>7. \A o \in Output \ ToSet(e) : bgiven'[o] = bgiven[o]
  BY <1>5
<1>8. LinesFile = log /\ LinesFile' = log
  BY <1>1 DEF LinesFile
<1>9. bheld' = Used(B!Loaded(log)) /\ bheld' = bheld
  BY <1>2, <1>8, AtLines DEF LinesRight
<1>10. LinesTyped'
  BY <1>1, <1>2, <1>3, <1>6 DEF LinesTyped
<1>11. LinesRight'
  <2>1. ASSUME whole, NEW o \in bwrote  PROVE o \in ToSet(e) \/ bheld'[o] = bgiven'[o]
    <3>1. o \in Output /\ bheld[o] = bgiven[o]
      BY <1>1, <1>2, <2>1 DEF LinesRight, LinesTyped
    <3> QED
      BY <1>7, <1>9, <3>1
  <2> QED
    BY <1>1, <1>2, <1>3, <1>8, <1>9, <2>1 DEF LinesRight
<1>12. LinesGiven
  <2>1. K \in SUBSET Output
    OBVIOUS
  <2> QED
    BY <1>5, <1>9, <2>1 DEF LinesGiven
<1> QED
  BY <1>10, <1>11, <1>12 DEF LinesInv

\* The first element of a sequence, and the rest of it.
LEMMA HeadAndTail ==
    ASSUME NEW S, NEW s \in Seq(S), s # <<>>
    PROVE  /\ Head(s) \in S /\ Tail(s) \in Seq(S) /\ ToSet(s) = {Head(s)} \cup ToSet(Tail(s))
           /\ Len(s) = 1 <=> Tail(s) = <<>>
<1>1. /\ Len(s) \in Nat \ {0} /\ DOMAIN s = 1 .. Len(s) /\ Head(s) = s[1]
      /\ \A i \in 1 .. Len(s) : s[i] \in S
  BY Elements, EmptySeq
<1>2. /\ Tail(s) \in Seq(S) /\ Len(Tail(s)) = Len(s) - 1
      /\ \A i \in 1 .. Len(s) - 1 : Tail(s)[i] = s[i + 1]
  BY HeadTailProperties
<1>3. DOMAIN Tail(s) = 1 .. Len(s) - 1
  BY <1>2, Elements
<1>4. ASSUME NEW x \in ToSet(s)  PROVE x = Head(s) \/ x \in ToSet(Tail(s))
  <2>1. PICK i \in 1 .. Len(s) : x = s[i]
    BY <1>1 DEF ToSet
  <2>2. CASE i = 1
    BY <1>1, <2>1, <2>2
  <2>3. CASE i # 1
    <3>1. i - 1 \in 1 .. Len(s) - 1 /\ (i - 1) + 1 = i
      BY <1>1, <2>3
    <3>2. Tail(s)[i - 1] = x
      BY <1>2, <2>1, <3>1
    <3> QED
      BY <1>3, <3>1, <3>2 DEF ToSet
  <2> QED
    BY <2>2, <2>3
<1>5. ASSUME NEW x \in ToSet(Tail(s))  PROVE x \in ToSet(s)
  <2>1. PICK i \in 1 .. Len(s) - 1 : x = Tail(s)[i]
    BY <1>3 DEF ToSet
  <2>2. i + 1 \in 1 .. Len(s) /\ x = s[i + 1]
    BY <1>1, <1>2, <2>1
  <2> QED
    BY <1>1, <2>2 DEF ToSet
<1>6. Head(s) \in ToSet(s)
  <2>1. 1 \in 1 .. Len(s)
    BY <1>1
  <2> QED
    BY <1>1, <2>1 DEF ToSet
<1>7. Len(s) = 1 <=> Tail(s) = <<>>
  BY <1>1, <1>2, EmptySeq
<1>8. Head(s) \in S
  BY <1>1
<1> QED
  BY <1>2, <1>4, <1>5, <1>6, <1>7, <1>8

LEMMA LinesWrite ==
    ASSUME LinesInv, B!WriteEntry, bheld' = (B!At)'
    PROVE  LinesInv' /\ LinesMoved
<1> DEFINE o == Head(btodo)
<1>1. /\ bpc = "record"
      /\ log' = Append(B!Opened(log), B!Line(o, bgiven[o]))
      /\ entries' = [entries EXCEPT ![o] = bgiven[o]]
      /\ bwrote' = bwrote \cup {o}
      /\ writing' = TRUE
      /\ btodo' = Tail(btodo)
      /\ bpc' = IF Len(btodo) = 1 THEN "idle" ELSE "record"
      /\ UNCHANGED <<btemp, whole, bgiven>>
  BY DEF B!WriteEntry
<1>2. LinesTyped /\ LinesRight /\ log \in Seq(LineRecord) /\ btodo # <<>> /\ btodo \in Seq(Output)
  BY <1>1 DEF LinesInv, LinesTyped, LinesRight
<1>3. /\ o \in Output /\ Tail(btodo) \in Seq(Output) /\ ToSet(btodo) = {o} \cup ToSet(Tail(btodo))
      /\ Len(btodo) = 1 <=> Tail(btodo) = <<>>
  BY <1>2, HeadAndTail
<1> HIDE DEF o
<1>4. bgiven[o] \in Nat /\ bgiven[o] \in Int
  BY <1>2, <1>3 DEF LinesTyped
<1>5. /\ log' \in Seq(LineRecord)
      /\ \A k \in Output : Used(B!Loaded(log'))[k] \in {0, Used(B!Loaded(log))[k]}
                           \/ (k = o /\ Used(B!Loaded(log'))[k] = bgiven[o])
      /\ Plain(log) => /\ Plain(log') /\ Used(B!Loaded(log'))[o] = bgiven[o]
                       /\ \A k \in Output \ {o} : Used(B!Loaded(log'))[k] = Used(B!Loaded(log))[k]
  BY <1>1, <1>2, <1>3, <1>4, AppendEntry
<1>6. LinesFile = log /\ LinesFile' = log' /\ bpc' # "unlinked" /\ bpc' # "replace" /\ bpc' # "off"
  BY <1>1 DEF LinesFile
<1>7. bheld = Used(B!Loaded(log)) /\ bheld' = Used(B!Loaded(log'))
  BY <1>2, <1>6, AtLines DEF LinesRight
<1>8. entries' \in [Output -> Int]
  BY <1>1, <1>2, <1>3, <1>4 DEF LinesTyped
<1>9. LinesTyped'
  BY <1>1, <1>2, <1>3, <1>5, <1>8 DEF LinesTyped
<1>10. whole => Plain(log)
  BY <1>1, <1>2 DEF LinesRight, Plain
<1>11. ASSUME whole, NEW k \in bwrote'
       PROVE  (bpc' = "record" /\ k \in ToSet(btodo')) \/ bheld'[k] = bgiven'[k]
  <2>1. k \in Output
    BY <1>1, <1>2, <1>3 DEF LinesTyped
  <2>2. CASE k = o
    BY <1>1, <1>5, <1>7, <1>10, <1>11, <2>2
  <2>3. CASE k # o /\ k \in ToSet(btodo)
    <3>1. k \in ToSet(Tail(btodo))
      BY <1>3, <2>3
    <3>2. Tail(btodo) # <<>>
      BY <3>1 DEF ToSet
    <3> QED
      BY <1>1, <1>3, <3>1, <3>2
  <2>4. CASE k # o /\ k \notin ToSet(btodo)
    <3>1. k \in bwrote
      BY <1>1, <2>4
    <3>2. bheld[k] = bgiven[k]
      BY <1>1, <1>2, <1>11, <2>4, <3>1 DEF LinesRight
    <3> QED
      BY <1>1, <1>5, <1>7, <1>10, <1>11, <2>1, <2>4, <3>2
  <2> QED
    BY <2>2, <2>3, <2>4
<1>12. LinesRight'
  <2>1. bpc' = "record" => btodo' # <<>>
    BY <1>1, <1>3
  <2> QED
    BY <1>1, <1>5, <1>6, <1>7, <1>10, <1>11, <2>1 DEF LinesRight, Plain
<1>13. LinesMoved
  BY <1>1, <1>3, <1>5, <1>7 DEF LinesMoved
<1> QED
  BY <1>9, <1>12, <1>13 DEF LinesInv

LEMMA LinesClose ==
    ASSUME LinesInv, B!Close, bheld' = (B!At)'
    PROVE  LinesInv' /\ LinesMoved
<1>1. /\ bpc = "idle" /\ bpc' = "off"
      /\ log' = IF writing THEN log ELSE B!Opened(log)
      /\ UNCHANGED <<btemp, entries, writing, btodo, whole, bwrote, bgiven>>
  BY DEF B!Close
<1>2. LinesTyped /\ LinesRight /\ log \in Seq(LineRecord)
  BY DEF LinesInv, LinesTyped
<1>3. log' \in Seq(LineRecord) /\ B!Loaded(log') = B!Loaded(log)
  BY <1>1, <1>2, OpenedLines
<1>4. LinesFile = log /\ LinesFile' = log'
  BY <1>1 DEF LinesFile
<1>5. bheld' = Used(B!Loaded(log')) /\ bheld' = bheld
  BY <1>2, <1>3, <1>4, AtLines DEF LinesRight
<1>6. LinesTyped'
  BY <1>1, <1>2, <1>3 DEF LinesTyped
<1>7. LinesRight'
  BY <1>1, <1>4, <1>5 DEF LinesRight
<1> QED
  BY <1>1, <1>5, <1>6, <1>7 DEF LinesInv, LinesMoved

LEMMA LinesCrash ==
    ASSUME LinesInv, B!Crash, bheld' = (B!At)'
    PROVE  LinesInv' /\ LinesMoved
<1>1. /\ bpc # "off" /\ bpc' = "off" /\ btodo' = <<>>
      /\ \/ log' = log
         \/ bpc = "record" /\ log = <<>> /\ \E h \in B!CutHeaders : log' = <<h>>
         \/ bpc = "record" /\ log # <<>> /\ \E c \in B!Cuts(Head(btodo)) : log' = Append(log, c)
      /\ UNCHANGED <<btemp, entries, writing, whole, bwrote, bgiven>>
  BY DEF B!Crash, B!Absent
<1>2. LinesTyped /\ LinesRight /\ log \in Seq(LineRecord)
  BY DEF LinesInv, LinesTyped
<1>3. log' \in Seq(LineRecord) /\ B!Loaded(log') = B!Loaded(log)
  <2>1. CASE log' = log
    BY <1>2, <2>1
  <2>2. CASE bpc = "record" /\ log = <<>> /\ \E h \in B!CutHeaders : log' = <<h>>
    <3>1. PICK h \in B!CutHeaders : log' = <<h>>
      BY <2>2
    <3>2. h \in LineRecord
      BY DEF LineRecord
    <3>3. log' \in Seq(LineRecord) /\ Len(log') = 1
      BY <3>1, <3>2
    <3>4. B!Loaded(log') = B!NoEntries
      BY <3>3, NoLines
    <3> QED
      BY <2>2, <3>3, <3>4, NoFile
  <2>3. CASE bpc = "record" /\ log # <<>> /\ \E c \in B!Cuts(Head(btodo)) : log' = Append(log, c)
    <3>1. PICK c \in B!Cuts(Head(btodo)) : log' = Append(log, c)
      BY <2>3
    <3>2. Head(btodo) \in Output
      BY <1>2, <2>3, HeadAndTail DEF LinesTyped, LinesRight
    <3>3. c \in LineRecord /\ c.kind = "cut"
      BY <3>2, CutLine
    <3> QED
      BY <1>2, <2>3, <3>1, <3>3, AppendCut
  <2> QED
    BY <1>1, <2>1, <2>2, <2>3
<1>4. LinesFile' = log'
  BY <1>1 DEF LinesFile
<1>5. bheld' = Used(B!Loaded(log'))
  BY <1>4, AtLines
<1>6. \A o \in Output : bheld'[o] \in {0, bheld[o]}
  <2>1. CASE bpc = "unlinked"
    <3>1. B!Loaded(log) = B!NoEntries
      BY <1>2, <2>1, NoFile DEF LinesRight, B!Absent
    <3> QED
      BY <1>3, <1>5, <3>1, UsedIs DEF B!NoEntries, B!Bad
  <2>2. CASE bpc # "unlinked"
    BY <1>2, <1>3, <1>5, <2>2 DEF LinesRight, LinesFile
  <2> QED
    BY <2>1, <2>2
<1>7. LinesTyped'
  BY <1>1, <1>2, <1>3 DEF LinesTyped
<1>8. LinesRight'
  BY <1>1, <1>4, <1>5 DEF LinesRight
<1> QED
  BY <1>1, <1>6, <1>7, <1>8 DEF LinesInv, LinesMoved

\* Recompact and Restat begin: the new file is written.
LEMMA LinesReplace ==
    ASSUME LinesInv, bpc = "idle", ~writing, bpc' = "replace",
           entries' \in [Output -> Int], bgiven' \in [Output -> Nat], btemp' = B!Lines(entries'),
           \A o \in Output : entries'[o] \in {0, entries[o], bgiven'[o]},
           UNCHANGED <<log, writing, btodo, whole, bwrote>>, bheld' = (B!At)'
    PROVE  LinesInv' /\ bheld' = bheld
<1>1. LinesTyped /\ LinesRight /\ log \in Seq(LineRecord)
  BY DEF LinesInv, LinesTyped
<1>2. log' \in Seq(LineRecord) /\ B!Loaded(log') = B!Loaded(log)
  BY <1>1
<1>3. LinesFile = log /\ LinesFile' = log'
  BY DEF LinesFile
<1>4. bheld' = Used(B!Loaded(log')) /\ bheld' = bheld /\ bheld = Used(B!Loaded(log))
  BY <1>1, <1>2, <1>3, AtLines DEF LinesRight
<1>5. entries = B!Loaded(log) /\ bwrote = {}
  BY <1>1 DEF LinesRight
<1>6. \A o \in Output : entries'[o] \in {0, B!Bad, bheld'[o], bgiven'[o]}
  BY <1>4, <1>5, UsedIs
<1>7. btemp' \in Seq(LineRecord)
  BY LinesAre
<1>8. LinesTyped'
  BY <1>1, <1>2, <1>7 DEF LinesTyped
<1>9. whole => Plain(log')
  BY <1>1 DEF LinesRight, Plain
<1>10. LinesRight'
  BY <1>2, <1>3, <1>4, <1>5, <1>6, <1>9 DEF LinesRight, Plain
<1> QED
  BY <1>4, <1>8, <1>10 DEF LinesInv

LEMMA LinesRecompact ==
    ASSUME LinesInv, B!Recompact, bheld' = (B!At)'
    PROVE  LinesInv' /\ LinesMoved
<1>1. PICK dead \in SUBSET Output :
         /\ entries' = [o \in Output |-> IF o \in dead THEN 0 ELSE entries[o]]
         /\ btemp' = B!Lines(entries')
  BY DEF B!Recompact
<1>2. /\ bpc = "idle" /\ ~writing /\ bpc' = "replace"
      /\ UNCHANGED <<log, writing, btodo, whole, bwrote, bgiven>>
  BY DEF B!Recompact
<1>3. entries \in [Output -> Int] /\ bgiven \in [Output -> Nat]
  BY DEF LinesInv, LinesTyped
<1>4. entries' \in [Output -> Int] /\ \A o \in Output : entries'[o] \in {0, entries[o], bgiven'[o]}
  BY <1>1, <1>3
<1>5. LinesInv' /\ bheld' = bheld
  BY <1>1, <1>2, <1>3, <1>4, LinesReplace
<1> QED
  BY <1>2, <1>5 DEF LinesMoved

LEMMA LinesRestat ==
    ASSUME LinesInv, B!Restat, bheld' = (B!At)'
    PROVE  LinesInv' /\ LinesGiven
<1>1. PICK outs \in SUBSET Output :
         /\ bgiven' = [o \in Output |-> IF o \in outs THEN bgiven[o] + 1 ELSE bgiven[o]]
         /\ entries' = [o \in Output |-> IF o \in outs THEN bgiven'[o] ELSE entries[o]]
         /\ btemp' = B!Lines(entries')
  BY DEF B!Restat
<1>2. /\ bpc = "idle" /\ ~writing /\ bpc' = "replace"
      /\ UNCHANGED <<log, writing, btodo, whole, bwrote>>
  BY DEF B!Restat
<1>3. entries \in [Output -> Int] /\ bgiven \in [Output -> Nat]
  BY DEF LinesInv, LinesTyped
<1>4. bgiven' \in [Output -> Nat]
  BY <1>1, <1>3
<1>5. entries' \in [Output -> Int] /\ \A o \in Output : entries'[o] \in {0, entries[o], bgiven'[o]}
  BY <1>1, <1>3, <1>4
<1>6. LinesInv' /\ bheld' = bheld
  BY <1>1, <1>2, <1>4, <1>5, LinesReplace
<1> QED
  BY <1>1, <1>6 DEF LinesGiven

LEMMA LinesUnlink ==
    ASSUME LinesInv, B!Unlink, bheld' = (B!At)'
    PROVE  LinesInv' /\ LinesMoved
<1>1. /\ bpc = "replace" /\ bpc' = "unlinked" /\ log' = <<>>
      /\ UNCHANGED <<btemp, entries, writing, btodo, whole, bwrote, bgiven>>
  BY DEF B!Unlink, B!Absent
<1>2. LinesTyped /\ LinesRight /\ entries \in [Output -> Int]
  BY DEF LinesInv, LinesTyped
<1>3. /\ btemp = B!Lines(entries) /\ ~writing /\ bwrote = {}
      /\ \A o \in Output : entries[o] \in {0, B!Bad, bheld[o], bgiven[o]}
  BY <1>1, <1>2 DEF LinesRight
<1>4. B!Loaded(btemp) = entries
  BY <1>2, <1>3, LinesAre
<1>5. LinesFile' = btemp
  BY <1>1 DEF LinesFile
<1>6. bheld' = Used(B!Loaded(btemp)) /\ bheld' = Used(entries)
  BY <1>4, <1>5, AtLines
<1>7. LinesMoved
  BY <1>1, <1>3, <1>6, UsedIs DEF LinesMoved
<1>8. LinesTyped'
  <2>1. <<>> \in Seq(LineRecord)
    OBVIOUS
  <2> QED
    BY <1>1, <1>2, <2>1 DEF LinesTyped
<1>9. LinesRight'
  BY <1>1, <1>3, <1>5, <1>6 DEF LinesRight, B!Absent
<1> QED
  BY <1>7, <1>8, <1>9 DEF LinesInv

LEMMA LinesRename ==
    ASSUME LinesInv, B!Rename, bheld' = (B!At)'
    PROVE  LinesInv' /\ LinesMoved
<1>1. /\ bpc = "unlinked" /\ bpc' = "idle" /\ log' = btemp /\ btemp' = <<>> /\ whole' = TRUE
      /\ UNCHANGED <<entries, writing, btodo, bwrote, bgiven>>
  BY DEF B!Rename, B!Absent
<1>2. LinesTyped /\ LinesRight /\ entries \in [Output -> Int]
  BY DEF LinesInv, LinesTyped
<1>3. btemp = B!Lines(entries) /\ ~writing /\ bwrote = {}
  BY <1>1, <1>2 DEF LinesRight
<1>4. log' \in Seq(LineRecord) /\ Plain(log') /\ B!Loaded(log') = entries
  BY <1>1, <1>2, <1>3, LinesAre
<1>5. LinesFile = btemp /\ LinesFile' = log'
  BY <1>1 DEF LinesFile
<1>6. bheld' = Used(B!Loaded(log')) /\ bheld' = bheld
  BY <1>1, <1>2, <1>5, AtLines DEF LinesRight
<1>7. LinesTyped'
  <2>1. <<>> \in Seq(LineRecord)
    OBVIOUS
  <2> QED
    BY <1>1, <1>2, <1>4, <2>1 DEF LinesTyped
<1>8. LinesRight'
  BY <1>1, <1>3, <1>4, <1>5, <1>6 DEF LinesRight, Plain
<1> QED
  BY <1>1, <1>6, <1>7, <1>8 DEF LinesInv, LinesMoved

LEMMA LinesNext ==
    ASSUME LinesInv, B!Next
    PROVE  LinesInv' /\ (LinesMoved \/ LinesGiven \/ UNCHANGED <<bgiven, bheld>>)
<1>1. CASE B!Ended
  <2>1. UNCHANGED bvars
    BY <1>1 DEF B!Ended, B!vars, bvars
  <2> QED
    BY <2>1 DEF bvars, LinesInv, LinesTyped, LinesRight, LinesFile
<1>2. CASE B!Step /\ bheld' = (B!At)'
  <2>1. CASE B!Start
    BY <1>2, <2>1, LinesStart
  <2>2. CASE B!WriteEntry
    BY <1>2, <2>2, LinesWrite
  <2>3. CASE B!Close
    BY <1>2, <2>3, LinesClose
  <2>4. CASE B!Crash
    BY <1>2, <2>4, LinesCrash
  <2>5. CASE B!Recompact
    BY <1>2, <2>5, LinesRecompact
  <2>6. CASE B!Restat
    BY <1>2, <2>6, LinesRestat
  <2>7. CASE B!Unlink
    BY <1>2, <2>7, LinesUnlink
  <2>8. CASE B!Rename
    BY <1>2, <2>8, LinesRename
  <2>9. CASE \E e \in Edge : B!BeginRecord(e)
    BY <1>2, <2>9, LinesBegin
  <2> QED
    BY <1>2, <2>1, <2>2, <2>3, <2>4, <2>5, <2>6, <2>7, <2>8, <2>9 DEF B!Step
<1> QED
  BY <1>1, <1>2 DEF B!Next

-----------------------------------------------------------------------------
(***************************************************************************)
(* The theorems, about either log.                                         *)
(***************************************************************************)
LogsInv == DepsInv /\ LinesInv

LEMMA LogsInit == Init => LogsInv
  BY DepsInit, LinesInit DEF Init, LogsInv

LEMMA DepsStutter ==
    ASSUME DepsInv, UNCHANGED dvars
    PROVE  DepsInv'
  BY DEF dvars, DepsInv, DepsTyped, DiskRight, ProcessRight, TodoRight, AloneRight,
     MemoryRight, CompactRight, WroteRight, Effective, Unlinked, D!Others

LEMMA LinesStutter ==
    ASSUME LinesInv, UNCHANGED bvars
    PROVE  LinesInv'
  BY DEF bvars, LinesInv, LinesTyped, LinesRight, LinesFile

\* A step is one of either log, and leaves the other as it was.
LEMMA LogsNext ==
    ASSUME LogsInv, [Next]_<<which, dvars, bvars>>
    PROVE  /\ LogsInv'
           /\ Moved \/ Given \/ UNCHANGED <<dgiven, dheld>>
           /\ LinesMoved \/ LinesGiven \/ UNCHANGED <<bgiven, bheld>>
<1>1. CASE D!Next /\ UNCHANGED bvars
  <2>1. DepsInv' /\ (Moved \/ Given \/ UNCHANGED <<dgiven, dheld>>)
    BY <1>1, DepsNext DEF LogsInv
  <2>2. LinesInv' /\ UNCHANGED <<bgiven, bheld>>
    BY <1>1, LinesStutter DEF LogsInv, bvars
  <2> QED
    BY <2>1, <2>2 DEF LogsInv
<1>2. CASE B!Next /\ UNCHANGED dvars
  <2>1. LinesInv' /\ (LinesMoved \/ LinesGiven \/ UNCHANGED <<bgiven, bheld>>)
    BY <1>2, LinesNext DEF LogsInv
  <2>2. DepsInv' /\ UNCHANGED <<dgiven, dheld>>
    BY <1>2, DepsStutter DEF LogsInv, dvars
  <2> QED
    BY <2>1, <2>2 DEF LogsInv
<1>3. CASE UNCHANGED <<which, dvars, bvars>>
  <2>1. UNCHANGED dvars /\ UNCHANGED bvars
    BY <1>3
  <2>2. DepsInv' /\ LinesInv'
    BY <2>1, DepsStutter, LinesStutter DEF LogsInv
  <2> QED
    BY <2>1, <2>2 DEF LogsInv, dvars, bvars
<1> QED
  BY <1>1, <1>2, <1>3 DEF Next

\* The invariant of both logs.  Of the deps log: the part of the file that Load
\* keeps is sound (its ids are dense, each names one node, and no record names an
\* id without path), every entry in it was given for its own node, and a process
\* has the first ids of that file in memory.  Of the build log: what the next
\* build would use is what Load makes of the lines, and a file that is about to
\* take its place says the same or less.
THEOREM AlwaysLogsInv == Spec => []LogsInv
<1>1. Init => LogsInv
  BY LogsInit
<1>2. LogsInv /\ [Next]_<<which, dvars, bvars>> => LogsInv'
  BY LogsNext
<1> QED
  BY <1>1, <1>2, PTL DEF Spec

\* What RecordDeps recorded in a process that has the deps log to itself, and what
\* RecordCommand recorded where no line had been cut short, the next build loads,
\* also when ninja crashes or the log is recompacted in between.
THEOREM RecordedIsAlwaysLoaded == Spec => []RecordedIsLoaded
<1>1. LogsInv => RecordedIsLoaded
  <2> SUFFICES ASSUME LogsInv  PROVE RecordedIsLoaded
    OBVIOUS
  <2>1. ASSUME NEW p \in Process, dpc[p] = "idle", alone[p], NEW n \in dwrote[p]
        PROVE  dheld[n] = Len(dgiven[n])
    BY <2>1 DEF LogsInv, DepsInv, ProcessRight, WroteRight
  <2>2. D!RecordedIsLoaded
    BY <2>1 DEF D!RecordedIsLoaded
  <2>3. B!LineIsLoaded
    BY DEF B!LineIsLoaded, LogsInv, LinesInv, LinesRight
  <2> QED
    BY <2>2, <2>3 DEF RecordedIsLoaded
<1> QED
  BY <1>1, AlwaysLogsInv, PTL

\* A process that has the deps log to itself has in memory what Load would make of
\* the file, ids included, whatever was cut short, dropped or recompacted before.
THEOREM MemoryIsAlwaysDisk == Spec => []MemoryIsDisk
<1>1. LogsInv => MemoryIsDisk
  <2> SUFFICES ASSUME LogsInv, NEW p \in Process, dpc[p] \in {"idle", "record"}, alone[p]
               PROVE  nodes[p] = D!Loaded(file).nodes /\ deps[p] = D!Loaded(file).deps
    BY DEF MemoryIsDisk, D!MemoryIsDisk
  <2>1. nodes[p] = DiskNodes(file) /\ deps[p] = DiskDeps(file)
    BY DEF LogsInv, DepsInv, ProcessRight, MemoryRight
  <2> QED
    BY <2>1, LoadedIs
<1> QED
  BY <1>1, AlwaysLogsInv, PTL

\* Both logs implement RecordStore: initial states are initial states of it, and
\* every step, a crash in the middle of a line or another process among them, is a
\* step of it or changes nothing: no log takes the record of one output for
\* another's, makes one up, or goes back to an older one.
THEOREM LogsAreStores == Spec => StoresRecords
<1>1. Init => D!Store!StoreInit
  <2> SUFFICES ASSUME Init  PROVE D!Store!StoreInit
    OBVIOUS
  <2>1. dgiven = [n \in Node |-> <<>>] /\ dheld = [n \in Node |-> 0]
    BY DEF Init, D!Init
  <2> QED
    BY <2>1 DEF D!Store!StoreInit
<1>2. Init => B!Store!StoreInit
  BY DEF Init, B!Init, B!NoEntries, B!Store!StoreInit
<1>3. LogsInv /\ [Next]_<<which, dvars, bvars>>
        => [D!Store!StoreNext]_<<[n \in Node |-> Len(dgiven[n])], dheld>>
  <2> SUFFICES ASSUME LogsInv, [Next]_<<which, dvars, bvars>>,
                      ~UNCHANGED <<dgiven, dheld>>
               PROVE  D!Store!StoreNext
    OBVIOUS
  <2>1. CASE Moved
    BY <2>1 DEF Moved, D!Store!StoreNext, D!Store!Move
  <2>2. CASE Given
    <3>1. PICK n \in Node : \A m \in Node :
             Len(dgiven'[m]) = IF m = n THEN Len(dgiven[m]) + 1 ELSE Len(dgiven[m])
      BY <2>2 DEF Given
    <3>2. {n} \in SUBSET Node
      OBVIOUS
    <3>3. [m \in Node |-> Len(dgiven'[m])]
            = [k \in Node |-> IF k \in {n} THEN [m \in Node |-> Len(dgiven[m])][k] + 1
                              ELSE [m \in Node |-> Len(dgiven[m])][k]]
      BY <3>1
    <3>4. dheld' = dheld
      BY <2>2 DEF Given
    <3> QED
      BY <3>2, <3>3, <3>4 DEF D!Store!StoreNext, D!Store!Give
  <2> QED
    BY <2>1, <2>2, LogsNext
<1>4. LogsInv /\ [Next]_<<which, dvars, bvars>> => [B!Store!StoreNext]_<<bgiven, bheld>>
  BY LogsNext DEF LinesMoved, LinesGiven, B!Store!StoreNext, B!Store!Give, B!Store!Move
<1>5. Spec => D!Store!StoreSpec
  BY <1>1, <1>3, AlwaysLogsInv, PTL DEF Spec, D!Store!StoreSpec
<1>6. Spec => B!Store!StoreSpec
  BY <1>2, <1>4, AlwaysLogsInv, PTL DEF Spec, B!Store!StoreSpec
<1> QED
  BY <1>5, <1>6 DEF StoresRecords, D!StoresRecords, B!LinesAreRecords
=============================================================================
