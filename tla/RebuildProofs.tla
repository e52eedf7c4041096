--------------------------- MODULE RebuildProofs ---------------------------
(***************************************************************************)
(* Proofs about what is rebuilt (module Rebuild), for every graph: an      *)
(* output that the next scan leaves alone is what its command would make   *)
(* of the files as they are, whatever was edited, failed, was interrupted  *)
(* or crashed; and a build that returns success leaves nothing to do.      *)
(*                                                                         *)
(* An entry of the build log is a promise: unless an input was changed     *)
(* after the time in it, the output is what the inputs make.  The promise  *)
(* is kept by all that happens, because a write makes a time later than    *)
(* every time recorded, and because a command only runs where the promise  *)
(* is already void.                                                        *)
(***************************************************************************)
EXTENDS Rebuild, TLAPS

-----------------------------------------------------------------------------
(***************************************************************************)
(* The invariant.                                                          *)
(***************************************************************************)
DiskTyped ==
    /\ clock \in Nat /\ edits \in 0 .. MaxEdits
    /\ version \in [Source -> 0 .. edits] /\ command \in [Out -> 0 .. edits]
    /\ mtime \in [Node -> 0 .. clock] /\ content = [n \in Node |-> content[n]]

LogsTyped ==
    /\ buildLog \in [Out -> [mtime : 0 .. clock, hash : Int]]
    /\ depsLog \in [Out -> [mtime : 0 .. clock, nodes : SUBSET Node]]

ScanTyped ==
    /\ seen \in [Node -> 0 .. clock]
    /\ known \in [Out -> SUBSET Node] /\ missing \subseteq Deps

BuildTyped ==
    /\ pc \in {"idle", "building", "recording"}
    /\ dirty \subseteq Out /\ want \subseteq Out
    /\ phase \in [Out -> {"none", "started", "read", "written", "failed"}]
    /\ start \in [Out -> 0 .. clock]
    /\ got = [o \in Out |-> [nodes |-> got[o].nodes, content |-> got[o].content]]
    /\ \A o \in Out : got[o].nodes \subseteq Node
    /\ recording \in Out \cup {"none"} /\ (pc = "recording" <=> recording # "none")

Typed == DiskTyped /\ LogsTyped /\ ScanTyped /\ BuildTyped

\* Sources are there, a missing output has no content, and a command line that was
\* edited is not one of before.
Present ==
    /\ \A s \in Source : mtime[s] # 0
    /\ \A o \in Out : mtime[o] = 0 => content[o] = {}
    /\ \A o \in Out : buildLog[o].hash <= command[o]

\* One of the files I was changed after time t.
Touched(I, t) == \E i \in I : mtime[i] = 0 \/ t < mtime[i]

\* The promise: c, made at time t from the files I, is still right, or I shows it is not.
Holds(o, c, I, t) == Touched(I, t) \/ (c = Product(o, content) /\ Reads(o) \subseteq I)

\* The inputs an entry speaks of.
Inputs(o) == Ins[o] \cup (IF o \in Deps THEN depsLog[o].nodes ELSE {})

\* What the scan asks of the entries of o, whatever its inputs.
Believed(o) ==
    /\ mtime[o] # 0 /\ buildLog[o].mtime # 0 /\ buildLog[o].hash = command[o]
    /\ o \in Deps => depsLog[o].mtime # 0 /\ mtime[o] <= depsLog[o].mtime

EntriesRight == \A o \in Out : Believed(o) => Holds(o, content[o], Inputs(o), buildLog[o].mtime)

\* The entry of o is void, and stays so until o is made again.
Outdated(o) ==
    \/ buildLog[o].mtime = 0 \/ buildLog[o].hash # command[o]
    \/ Touched(Ins[o], buildLog[o].mtime)

Lasting ==
    \A o \in Out : /\ o \notin Deps /\ mtime[o] = 0 => Outdated(o)
                   /\ o \notin Restat /\ buildLog[o].mtime # 0 /\ mtime[o] # 0
                         => mtime[o] > buildLog[o].mtime

\* What the scan has found still holds: a wanted edge has a dirty input, or a void
\* entry, or discovered inputs.
Scanned ==
    /\ want \subseteq dirty
    /\ \A n \in Node : seen[n] <= mtime[n]
    /\ \A o \in Out \ Deps : known[o] = {}
    /\ \A o \in Out : phase[o] # "none" => o \in want /\ Below(o) \cap want = {}
    /\ \A o \in want : phase[o] \in {"none", "started", "read"} => mtime[o] = seen[o]
    /\ \A i \in dirty \ want, p \in want : mtime[i] > buildLog[p].mtime
    /\ \A p \in want \ Deps : Ins[p] \cap dirty # {} \/ Outdated(p)

\* What a running command has read makes a promise as of its start; it started after
\* every entry of an edge still wanted.
Command(o) ==
    /\ \A p \in want : start[o] > buildLog[p].mtime
    /\ start[o] > depsLog[o].mtime
    /\ phase[o] \in {"read", "written"} =>
          /\ Ins[o] \subseteq got[o].nodes
          /\ o \notin Deps => got[o].nodes = Ins[o]
          /\ Holds(o, got[o].content, got[o].nodes, start[o])
          /\ o \in Restat => got[o].content = Product(o, content)
    /\ phase[o] = "written" =>
          /\ content[o] = got[o].content /\ mtime[o] # 0
          /\ (o \in Restat /\ mtime[o] = seen[o]) \/ mtime[o] > start[o]

Commands == \A o \in Running : Command(o)

\* Between the two entries FinishCommand makes, that of the deps log is void.
Recorded ==
    pc = "recording" =>
      /\ recording \in Deps /\ recording \notin want
      /\ buildLog[recording] = [mtime |-> start[recording], hash |-> command[recording]]
      /\ content[recording] = got[recording].content /\ mtime[recording] > start[recording]
      /\ Ins[recording] \subseteq got[recording].nodes
      /\ Holds(recording, got[recording].content, got[recording].nodes, start[recording])

Idle == pc = "idle" => want = {} /\ \A o \in Out : phase[o] = "none"

RebuildInv ==
    /\ Typed /\ Present /\ EntriesRight /\ Lasting /\ Idle
    /\ pc # "idle" => Scanned /\ Commands /\ Recorded

-----------------------------------------------------------------------------
(***************************************************************************)
(* The least sets of the scan and of CleanNode, given by the family K of   *)
(* the closed ones.                                                        *)
(***************************************************************************)
LEMMA BelowClosed ==
    ASSUME NEW D, NEW K, NEW A \in K
    PROVE  D \ UNION {D \ S : S \in K} \subseteq A
  OBVIOUS

LEMMA InLeast ==
    ASSUME NEW D, NEW K, NEW x \in D, \A S \in K : x \in S
    PROVE  x \in D \ UNION {D \ S : S \in K}
  OBVIOUS

\* An output that is not dirty has entries that are believed, and inputs that are
\* neither dirty nor newer.
LEMMA ScanClosed ==
    ASSUME NEW m, NEW o \in Out \ ScanDirty(m)
    PROVE  LET inputs == Ins[o] \cup DepsKnown(m)[o]
           IN  o \notin DepsLost(m) /\ inputs \cap ScanDirty(m) = {} /\ ~OutputDirty(o, m, inputs)
<1> DEFINE inputs(p) == Ins[p] \cup DepsKnown(m)[p]
           F(S) == {p \in Out : \/ p \in DepsLost(m)
                                \/ inputs(p) \cap S # {}
                                \/ OutputDirty(p, m, inputs(p))}
           K == {C \in SUBSET Out : F(C) \cap Out \subseteq C}
           L == ScanDirty(m)
<1>1. L = Out \ UNION {Out \ S : S \in K}
  BY DEF ScanDirty, Least
<1>2. PICK S \in K : o \notin S
  <2> HIDE DEF K
  <2> QED
    BY <1>1
<1>3. L \subseteq S
  <2> HIDE DEF K, L
  <2> QED
    BY <1>1, BelowClosed
<1>4. o \notin F(S)
  BY <1>2
<1> QED
  BY <1>3, <1>4

\* A dirty output is dirty for one of the reasons there are.
LEMMA ScanOnly ==
    ASSUME NEW m, NEW o \in ScanDirty(m)
    PROVE  LET inputs == Ins[o] \cup DepsKnown(m)[o]
           IN  \/ o \in DepsLost(m)
               \/ inputs \cap ScanDirty(m) # {}
               \/ OutputDirty(o, m, inputs)
<1> DEFINE inputs(p) == Ins[p] \cup DepsKnown(m)[p]
           F(S) == {p \in Out : \/ p \in DepsLost(m)
                                \/ inputs(p) \cap S # {}
                                \/ OutputDirty(p, m, inputs(p))}
           K == {C \in SUBSET Out : F(C) \cap Out \subseteq C}
           L == ScanDirty(m)
           A == F(L)
<1>1. L = Out \ UNION {Out \ S : S \in K}
  BY DEF ScanDirty, Least
<1>2. A \subseteq L
  <2>1. ASSUME NEW p \in A, NEW S \in K  PROVE p \in S
    <3>1. L \subseteq S
      <4> HIDE DEF K, L
      <4> QED
        BY <1>1, BelowClosed
    <3>2. p \in F(S)
      BY <3>1
    <3> QED
      BY <3>2
  <2>2. A \subseteq Out
    OBVIOUS
  <2> HIDE DEF K, L, A
  <2> QED
    BY <1>1, <2>1, <2>2, InLeast
<1>3. A \in K
  BY <1>2
<1>4. L \subseteq A
  <2> HIDE DEF K, L, A
  <2> QED
    BY <1>1, <1>3, BelowClosed
<1> QED
  BY <1>4

\* The inputs of o are below it.
LEMMA BelowHas ==
    ASSUME NEW o \in Out
    PROVE  (Ins[o] \cup OrderOnly[o] \cup known[o]) \cap Node \subseteq Below(o)
<1> DEFINE in(p) == Ins[p] \cup OrderOnly[p] \cup known[p]
           F(S) == in(o) \cup UNION {in(p) : p \in S \cap Out}
           K == {C \in SUBSET Node : F(C) \cap Node \subseteq C}
<1>1. Below(o) = Node \ UNION {Node \ S : S \in K}
  BY DEF Below, Least
<1>2. ASSUME NEW n \in in(o) \cap Node, NEW S \in K  PROVE n \in S
  OBVIOUS
<1> HIDE DEF K
<1> QED
  BY <1>1, <1>2, InLeast

\* CleanNode withdraws an edge for an input that was withdrawn, when none of its
\* inputs is dirty any more, and its output is not.
LEMMA CleanedOnly ==
    ASSUME NEW o, NEW p \in Cleaned(o)
    PROVE  LET gone == Cleaned(o) \cup {o}
               in   == Ins[p] \cup known[p]
           IN  /\ p \in Out /\ p \in want \ missing
               /\ (in \cup OrderOnly[p]) \cap gone # {}
               /\ in \cap (dirty \ gone) = {}
               /\ ~OutputDirty(p, seen, in)
<1> DEFINE in(q) == Ins[q] \cup known[q]
           F(C) == {q \in Out : /\ (in(q) \cup OrderOnly[q]) \cap (C \cup {o}) # {}
                                /\ in(q) \cap (dirty \ (C \cup {o})) = {}
                                /\ ~OutputDirty(q, seen, in(q))}
           D == want \ missing
           K == {C \in SUBSET D : F(C) \cap D \subseteq C}
           L == Cleaned(o)
           A == F(L) \cap D
<1>1. L = D \ UNION {D \ S : S \in K}
  BY DEF Cleaned, Least
<1>2. A \subseteq L
  <2>1. ASSUME NEW q \in A, NEW S \in K  PROVE q \in S
    <3>1. L \subseteq S
      <4> HIDE DEF K, L, D
      <4> QED
        BY <1>1, BelowClosed
    <3>2. q \in F(S)
      BY <3>1
    <3> QED
      BY <3>2
  <2>2. A \subseteq D
    OBVIOUS
  <2> HIDE DEF K, L, A, D
  <2> QED
    BY <1>1, <2>1, <2>2, InLeast
<1>3. A \in K
  BY <1>2
<1>4. L \subseteq A
  <2> HIDE DEF K, L, A, D
  <2> QED
    BY <1>1, <1>3, BelowClosed
<1> QED
  BY <1>4

\* It withdraws every such edge.
LEMMA CleanedClosed ==
    ASSUME NEW o, NEW p \in Out, p \in want \ missing,
           LET gone == Cleaned(o) \cup {o}
               in   == Ins[p] \cup known[p]
           IN  /\ (in \cup OrderOnly[p]) \cap gone # {}
               /\ in \cap (dirty \ gone) = {}
               /\ ~OutputDirty(p, seen, in)
    PROVE  p \in Cleaned(o)
<1> DEFINE in(q) == Ins[q] \cup known[q]
           F(C) == {q \in Out : /\ (in(q) \cup OrderOnly[q]) \cap (C \cup {o}) # {}
                                /\ in(q) \cap (dirty \ (C \cup {o})) = {}
                                /\ ~OutputDirty(q, seen, in(q))}
           D == want \ missing
           K == {C \in SUBSET D : F(C) \cap D \subseteq C}
           L == Cleaned(o)
<1>1. L = D \ UNION {D \ S : S \in K}
  BY DEF Cleaned, Least
<1>2. ASSUME NEW S \in K  PROVE p \in S
  <2>1. L \subseteq S
    <3> HIDE DEF K, L, D
    <3> QED
      BY <1>1, BelowClosed
  <2>2. p \in F(S)
    BY <2>1
  <2> QED
    BY <2>2
<1>3. p \in D
  OBVIOUS
<1> HIDE DEF K, D
<1> QED
  BY <1>1, <1>2, <1>3, InLeast

-----------------------------------------------------------------------------
LEMMA TypedImpliesTypeOK ==
    ASSUME Typed
    PROVE  TypeOK
<1> USE RebuildAssumption DEF RebuildAssumption
<1>1. DiskTyped /\ LogsTyped /\ ScanTyped /\ BuildTyped
  BY DEF Typed
<1>2. /\ clock \in Nat /\ version \in [Source -> 0 .. MaxEdits]
      /\ command \in [Out -> 0 .. MaxEdits] /\ mtime \in [Node -> 0 .. clock]
  BY <1>1 DEF DiskTyped
<1>3. \A o \in Out : buildLog[o].mtime <= clock /\ depsLog[o].mtime <= clock
  BY <1>1, <1>2 DEF LogsTyped
<1> QED
  BY <1>1, <1>2, <1>3 DEF TypeOK, ScanTyped, BuildTyped

(***************************************************************************)
(* An output that is taken to be right is right.                           *)
(***************************************************************************)
LEMMA InvImpliesNoStaleClean ==
    ASSUME RebuildInv
    PROVE  NoStaleClean
<1> SUFFICES ASSUME NEW o \in Out \ ScanDirty(mtime)
             PROVE  content[o] = Product(o, content)
  BY DEF NoStaleClean
<1> USE RebuildAssumption DEF RebuildAssumption
<1> DEFINE inputs == Ins[o] \cup DepsKnown(mtime)[o]
<1>1. /\ o \notin DepsLost(mtime)
      /\ inputs \cap ScanDirty(mtime) = {}
      /\ ~OutputDirty(o, mtime, inputs)
  BY ScanClosed
<1>2. inputs = Inputs(o)
  BY <1>1 DEF DepsKnown, Inputs
<1>3. Believed(o)
  <2>1. mtime[o] # 0 /\ buildLog[o].mtime # 0 /\ buildLog[o].hash = command[o]
    BY <1>1 DEF OutputDirty
  <2>2. o \in Deps => depsLog[o].mtime # 0 /\ ~(mtime[o] > depsLog[o].mtime)
    BY <1>1 DEF DepsLost
  <2>3. mtime[o] \in Nat /\ (o \in Deps => depsLog[o].mtime \in Nat)
    BY DEF RebuildInv, Typed, DiskTyped, LogsTyped, Node
  <2> QED
    BY <2>1, <2>2, <2>3 DEF Believed
<1>4. ~Touched(Inputs(o), buildLog[o].mtime)
  <2> SUFFICES ASSUME NEW i \in inputs  PROVE mtime[i] # 0 /\ ~(buildLog[o].mtime < mtime[i])
    BY <1>2 DEF Touched
  <2>1. ~(buildLog[o].mtime < mtime[i])
    BY <1>1 DEF OutputDirty
  <2>2. i \in Node
    BY <1>2 DEF Inputs, RebuildInv, Typed, LogsTyped
  <2>3. CASE i \in Source
    BY <2>1, <2>3 DEF RebuildInv, Present
  <2>4. CASE i \in Out
    <3>1. i \notin ScanDirty(mtime)
      BY <1>1
    <3>2. ~OutputDirty(i, mtime, Ins[i] \cup DepsKnown(mtime)[i])
      BY <2>4, <3>1, ScanClosed
    <3> QED
      BY <2>1, <3>2 DEF OutputDirty
  <2> QED
    BY <2>2, <2>3, <2>4 DEF Node
<1> QED
  BY <1>3, <1>4 DEF RebuildInv, EntriesRight, Holds

-----------------------------------------------------------------------------
(***************************************************************************)
(* What a step does to the files: what is written is newer than all that   *)
(* was there, so that a promise is kept or seen to be void.                *)
(***************************************************************************)
Kept(n) == mtime'[n] = mtime[n] /\ content'[n] = content[n]

Later ==
    /\ clock' \in Nat /\ clock <= clock' /\ command' = command
    /\ mtime' \in [Node -> Nat]
    /\ \A n \in Node : \/ Kept(n)
                       \/ mtime'[n] = 0
                       \/ clock < mtime'[n] /\ mtime'[n] <= clock'
    /\ \A s \in Source : Kept(s) => version'[s] = version[s]

\* Holds in the next state, of the same arguments.
HoldsThen(o, c, I, t) ==
    \/ \E i \in I : mtime'[i] = 0 \/ t < mtime'[i]
    \/ c = Product(o, content)' /\ Reads(o)' \subseteq I

LEMMA ProductKept ==
    ASSUME NEW o \in Out, command'[o] = command[o],
           \A i \in Reads(o) : content'[i] = content[i],
           \A s \in Ins[o] \cap Source : version'[s] = version[s]
    PROVE  Reads(o)' = Reads(o) /\ Product(o, content)' = Product(o, content)
<1>1. Reads(o)' = Reads(o)
  BY DEF Reads
<1>2. {content'[i] : i \in Reads(o)' \ Ignored[o]} = {content[i] : i \in Reads(o) \ Ignored[o]}
  BY <1>1
<1> QED
  BY <1>1, <1>2 DEF Product

LEMMA HoldsKept ==
    ASSUME Typed, Later, NEW o \in Out, NEW c, NEW I \in SUBSET Node, NEW t \in Nat,
           t <= clock, Holds(o, c, I, t)
    PROVE  HoldsThen(o, c, I, t)
<1> USE RebuildAssumption DEF RebuildAssumption
<1> SUFFICES ASSUME ~(\E i \in I : mtime'[i] = 0 \/ t < mtime'[i])
             PROVE  c = Product(o, content)' /\ Reads(o)' \subseteq I
  BY DEF HoldsThen
<1>1. clock \in Nat /\ mtime \in [Node -> Nat]
  BY DEF Typed, DiskTyped, LogsTyped
<1>2. ASSUME NEW i \in I  PROVE Kept(i)
  BY <1>1 DEF Later
<1>3. ~Touched(I, t)
  BY <1>2 DEF Touched, Kept
<1>4. c = Product(o, content) /\ Reads(o) \subseteq I
  BY <1>3 DEF Holds
<1>5. \A i \in Reads(o) : content'[i] = content[i]
  BY <1>2, <1>4 DEF Kept
<1>6. \A s \in Ins[o] \cap Source : version'[s] = version[s]
  BY <1>2, <1>4 DEF Later, Reads
<1> QED
  BY <1>4, <1>5, <1>6, ProductKept DEF Later

LEMMA OutdatedKept ==
    ASSUME Typed, Later, NEW o \in Out, buildLog'[o] = buildLog[o], Outdated(o)
    PROVE  Outdated(o)'
<1> USE RebuildAssumption DEF RebuildAssumption
<1>1. /\ clock \in Nat /\ mtime \in [Node -> Nat] /\ buildLog[o].mtime \in Nat
      /\ buildLog[o].mtime <= clock /\ Ins[o] \subseteq Node
  BY DEF Typed, DiskTyped, LogsTyped
<1>2. CASE buildLog[o].mtime = 0 \/ buildLog[o].hash # command[o]
  BY <1>2 DEF Outdated, Later
<1>3. CASE Touched(Ins[o], buildLog[o].mtime)
  <2>1. PICK i \in Ins[o] : mtime[i] = 0 \/ buildLog[o].mtime < mtime[i]
    BY <1>3 DEF Touched
  <2>2. mtime'[i] = 0 \/ buildLog[o].mtime < mtime'[i]
    BY <1>1, <2>1 DEF Later, Kept
  <2>3. \E j \in Ins[o] : mtime'[j] = 0 \/ buildLog'[o].mtime < mtime'[j]
    BY <2>2
  <2> QED
    BY <2>3 DEF Outdated, Touched
<1> QED
  BY <1>2, <1>3 DEF Outdated

\* Only outputs are written that have no entry that may be believed.
Written == \A o \in Out : Kept(o) \/ o \in Deps \/ Outdated(o)

LEMMA EntriesKept ==
    ASSUME Typed, Present, EntriesRight, Later, Written, logs' = logs
    PROVE  EntriesRight'
<1> USE RebuildAssumption DEF RebuildAssumption
<1> SUFFICES ASSUME NEW o \in Out, Believed(o)'
             PROVE  Holds(o, content[o], Inputs(o), buildLog[o].mtime)'
  BY DEF EntriesRight
<1>1. /\ clock \in Nat /\ mtime \in [Node -> Nat] /\ buildLog[o].mtime \in Nat
      /\ buildLog[o].mtime <= clock /\ depsLog[o].mtime <= clock /\ depsLog[o].mtime \in Nat
      /\ o \in Node
      /\ Inputs(o) \in SUBSET Node /\ Ins[o] \subseteq Inputs(o)
  <2>1. /\ clock \in Nat /\ mtime \in [Node -> Nat]
        /\ buildLog[o].mtime <= clock /\ depsLog[o].mtime <= clock /\ o \in Node
    BY DEF Typed, DiskTyped, LogsTyped, Node
  <2>2. buildLog[o].mtime \in Nat /\ depsLog[o].mtime \in Nat /\ depsLog[o].nodes \in SUBSET Node
    BY DEF Typed, DiskTyped, LogsTyped
  <2>3. Ins[o] \in SUBSET Node
    OBVIOUS
  <2> QED
    BY <2>1, <2>2, <2>3 DEF Inputs
<1>2. buildLog' = buildLog /\ depsLog' = depsLog
  BY DEF logs
<1>3. Inputs(o)' = Inputs(o)
  BY <1>2 DEF Inputs
<1>4. CASE Kept(o)
  <2>1. Believed(o)
    BY <1>2, <1>4 DEF Believed, Kept, Later
  <2>2. Holds(o, content[o], Inputs(o), buildLog[o].mtime)
    BY <2>1 DEF EntriesRight
  <2>3. HoldsThen(o, content[o], Inputs(o), buildLog[o].mtime)
    BY <1>1, <2>2, HoldsKept
  <2> QED
    BY <1>2, <1>3, <1>4, <2>3 DEF HoldsThen, Holds, Touched, Kept
<1>5. CASE Outdated(o)
  <2>1. Outdated(o)'
    BY <1>2, <1>5, OutdatedKept
  <2>2. Touched(Ins[o], buildLog[o].mtime)'
    BY <2>1 DEF Outdated, Believed
  <2> QED
    BY <1>1, <1>3, <2>2 DEF Holds, Touched
<1>6. CASE o \in Deps /\ ~Kept(o)
  <2>1. mtime'[o] # 0 /\ mtime'[o] <= depsLog[o].mtime
    BY <1>2, <1>6 DEF Believed
  <2> QED
    BY <1>1, <1>6, <2>1 DEF Later
<1> QED
  BY <1>4, <1>5, <1>6 DEF Written

LEMMA LastingKept ==
    ASSUME Typed, Present, Lasting, Later, Written, logs' = logs
    PROVE  Lasting'
<1> USE RebuildAssumption DEF RebuildAssumption
<1> SUFFICES ASSUME NEW o \in Out
             PROVE  /\ o \notin Deps /\ mtime'[o] = 0 => Outdated(o)'
                    /\ o \notin Restat /\ buildLog'[o].mtime # 0 /\ mtime'[o] # 0
                         => mtime'[o] > buildLog'[o].mtime
  BY DEF Lasting
<1>1. /\ clock \in Nat /\ mtime \in [Node -> Nat] /\ buildLog[o].mtime \in Nat
      /\ buildLog[o].mtime <= clock /\ o \in Node
  BY DEF Typed, DiskTyped, LogsTyped, Node
<1>2. buildLog' = buildLog
  BY DEF logs
<1>3. o \notin Deps /\ mtime'[o] = 0 => Outdated(o)'
  <2> SUFFICES ASSUME o \notin Deps, mtime'[o] = 0  PROVE Outdated(o)
    BY <1>2, OutdatedKept
  <2> QED
    BY DEF Written, Kept, Lasting
<1>4. o \notin Restat /\ buildLog'[o].mtime # 0 /\ mtime'[o] # 0 => mtime'[o] > buildLog'[o].mtime
  BY <1>1, <1>2 DEF Later, Kept, Lasting
<1> QED
  BY <1>3, <1>4

-----------------------------------------------------------------------------
(***************************************************************************)
(* What the steps leave alone.                                             *)
(***************************************************************************)
LEMMA LogsTypedKept ==
    ASSUME Typed, clock' \in Nat, clock <= clock', logs' = logs
    PROVE  LogsTyped'
<1>1. clock \in Nat /\ 0 .. clock \subseteq 0 .. clock'
  BY DEF Typed, DiskTyped
<1>2. buildLog' = buildLog /\ depsLog' = depsLog
  BY DEF logs
<1> QED
  BY <1>1, <1>2 DEF Typed, LogsTyped

LEMMA ScanTypedKept ==
    ASSUME Typed, clock' \in Nat, clock <= clock', scan' = scan
    PROVE  ScanTyped'
<1>1. clock \in Nat /\ 0 .. clock \subseteq 0 .. clock'
  BY DEF Typed, DiskTyped
<1>2. seen' = seen /\ known' = known /\ missing' = missing
  BY DEF scan
<1> QED
  BY <1>1, <1>2 DEF Typed, ScanTyped

LEMMA BuildTypedKept ==
    ASSUME Typed, clock' \in Nat, clock <= clock', build' = build
    PROVE  BuildTyped'
<1>1. clock \in Nat /\ 0 .. clock \subseteq 0 .. clock'
  BY DEF Typed, DiskTyped
<1>2. /\ pc' = pc /\ dirty' = dirty /\ want' = want /\ phase' = phase /\ start' = start
      /\ got' = got /\ recording' = recording
  BY DEF build
<1> QED
  BY <1>1, <1>2 DEF Typed, BuildTyped

\* A running command comes after all the edges above it.
LEMMA RunningInputs ==
    ASSUME Typed, Scanned, NEW o \in Out, phase[o] # "none"
    PROVE  o \in want /\ Ins[o] \cap want = {}
<1> USE RebuildAssumption DEF RebuildAssumption
<1>1. Ins[o] \subseteq Below(o)
  BY BelowHas
<1> QED
  BY <1>1 DEF Scanned

LEMMA RunningOutdated ==
    ASSUME Typed, Scanned, NEW o \in Out, phase[o] # "none"
    PROVE  o \in Deps \/ Outdated(o)
<1> USE RebuildAssumption DEF RebuildAssumption
<1> SUFFICES ASSUME o \notin Deps, ~Outdated(o)  PROVE FALSE
  OBVIOUS
<1>1. o \in want /\ Ins[o] \cap want = {}
  BY RunningInputs
<1>2. PICK i \in Ins[o] : i \in dirty
  BY <1>1 DEF Scanned
<1>3. mtime[i] > buildLog[o].mtime
  BY <1>1, <1>2 DEF Scanned
<1>4. buildLog[o].mtime < mtime[i]
  BY <1>3, <1>2 DEF Typed, DiskTyped, LogsTyped, BuildTyped
<1> QED
  BY <1>4 DEF Outdated, Touched

\* A command, while others run.
LEMMA CommandKept ==
    ASSUME Typed, Later, NEW o \in Running, Command(o), Kept(o),
           phase'[o] = phase[o], start'[o] = start[o], got'[o] = got[o], seen'[o] = seen[o],
           depsLog'[o] = depsLog[o], want' \subseteq want,
           \A p \in want' : buildLog'[p] = buildLog[p],
           o \in Restat => Product(o, content)' = Product(o, content)
    PROVE  Command(o)'
<1> USE RebuildAssumption DEF RebuildAssumption
<1>1. o \in Out /\ start[o] \in Nat /\ start[o] <= clock /\ got[o].nodes \in SUBSET Node
  BY DEF Running, Typed, DiskTyped, BuildTyped
<1>2. ASSUME phase[o] \in {"read", "written"}
      PROVE  /\ Ins[o] \subseteq got'[o].nodes
             /\ o \notin Deps => got'[o].nodes = Ins[o]
             /\ Holds(o, got[o].content, got[o].nodes, start[o])'
             /\ o \in Restat => got'[o].content = Product(o, content)'
  <2>1. HoldsThen(o, got[o].content, got[o].nodes, start[o])
    BY <1>1, <1>2, HoldsKept DEF Command
  <2>2. Holds(o, got[o].content, got[o].nodes, start[o])'
    BY <2>1 DEF HoldsThen, Holds, Touched
  <2> QED
    BY <1>2, <2>2 DEF Command
<1>3. /\ \A p \in want' : start'[o] > buildLog'[p].mtime
      /\ start'[o] > depsLog'[o].mtime
  BY DEF Command
<1>4. ASSUME phase[o] = "written"
      PROVE  /\ content'[o] = got'[o].content /\ mtime'[o] # 0
             /\ (o \in Restat /\ mtime'[o] = seen'[o]) \/ mtime'[o] > start'[o]
  BY <1>4 DEF Command, Kept
<1> QED
  BY <1>2, <1>3, <1>4 DEF Command

LEMMA RecordedKept ==
    ASSUME Typed, Later, Recorded, pc' = pc, recording' = recording, want' = want,
           buildLog' = buildLog,
           \A o \in Out \ want : Kept(o) /\ start'[o] = start[o] /\ got'[o] = got[o]
    PROVE  Recorded'
<1> USE RebuildAssumption DEF RebuildAssumption
<1> SUFFICES ASSUME pc = "recording"
             PROVE  /\ recording \in Deps /\ recording \notin want
                    /\ buildLog'[recording] = [mtime |-> start'[recording], hash |-> command'[recording]]
                    /\ content'[recording] = got'[recording].content
                    /\ mtime'[recording] > start'[recording]
                    /\ Ins[recording] \subseteq got'[recording].nodes
                    /\ Holds(recording, got[recording].content, got[recording].nodes, start[recording])'
  BY DEF Recorded
<1>1. PICK o \in Out : o = recording
  BY DEF Recorded
<1>2. /\ o \in Deps /\ o \notin want
      /\ buildLog[o] = [mtime |-> start[o], hash |-> command[o]]
      /\ content[o] = got[o].content /\ mtime[o] > start[o]
      /\ Ins[o] \subseteq got[o].nodes
      /\ Holds(o, got[o].content, got[o].nodes, start[o])
  BY <1>1 DEF Recorded
<1>3. Kept(o) /\ start'[o] = start[o] /\ got'[o] = got[o]
  BY <1>2
<1>4. start[o] \in Nat /\ start[o] <= clock /\ got[o].nodes \in SUBSET Node
  BY DEF Typed, DiskTyped, BuildTyped
<1>5. HoldsThen(o, got[o].content, got[o].nodes, start[o])
  BY <1>2, <1>4, HoldsKept
<1>6. Holds(o, got[o].content, got[o].nodes, start[o])'
  BY <1>3, <1>5 DEF HoldsThen, Holds, Touched
<1> QED
  BY <1>1, <1>2, <1>3, <1>6 DEF Kept, Later

LEMMA ScannedKept ==
    ASSUME Typed, Later, Scanned, logs' = logs, scan' = scan,
           dirty' = dirty, want' = want,
           \A n \in Node : mtime'[n] # 0 \/ mtime'[n] = mtime[n],
           \A o \in Out : phase'[o] # "none" =>
             phase[o] # "none" \/ (o \in want /\ Below(o) \cap want = {}),
           \A o \in want : phase'[o] \in {"none", "started", "read"} =>
             Kept(o) /\ phase[o] \in {"none", "started", "read"}
    PROVE  Scanned'
<1> USE RebuildAssumption DEF RebuildAssumption
<1>1. /\ clock \in Nat /\ mtime \in [Node -> Nat] /\ \A n \in Node : seen[n] \in Nat /\ seen[n] <= clock
      /\ want \subseteq Out /\ \A p \in Out : buildLog[p].mtime \in Nat /\ buildLog[p].mtime <= clock
  BY DEF Typed, DiskTyped, LogsTyped, ScanTyped, BuildTyped
<1>2. buildLog' = buildLog /\ seen' = seen /\ known' = known /\ want' = want /\ dirty' = dirty
  BY DEF logs, scan
<1>3. \A n \in Node : mtime'[n] = mtime[n] \/ clock < mtime'[n]
  BY DEF Later, Kept
<1>4. \A n \in Node : seen'[n] <= mtime'[n]
  BY <1>1, <1>2, <1>3 DEF Scanned, Later
<1>5. \A o \in Out : phase'[o] # "none" => o \in want' /\ Below(o)' \cap want' = {}
  <2> TAKE o \in Out
  <2>1. Below(o)' = Below(o)
    BY <1>2 DEF Below, Least
  <2> QED
    BY <1>2, <2>1 DEF Scanned
<1>6. \A o \in want' : phase'[o] \in {"none", "started", "read"} => mtime'[o] = seen'[o]
  BY <1>2 DEF Scanned, Kept
<1>7. \A i \in dirty' \ want', p \in want' : mtime'[i] > buildLog'[p].mtime
  <2> SUFFICES ASSUME NEW i \in dirty \ want, NEW p \in want  PROVE mtime'[i] > buildLog[p].mtime
    BY <1>2
  <2>1. mtime[i] > buildLog[p].mtime /\ i \in Node /\ p \in Out
    BY <1>1 DEF Scanned, Typed, BuildTyped, Node
  <2> QED
    BY <1>1, <1>3, <2>1 DEF Later
<1>8. \A p \in want' \ Deps : Ins[p] \cap dirty' # {} \/ Outdated(p)'
  <2> SUFFICES ASSUME NEW p \in want \ Deps, Outdated(p)  PROVE Outdated(p)'
    BY <1>2 DEF Scanned
  <2> QED
    BY <1>1, <1>2, OutdatedKept
<1>9. want' \subseteq dirty' /\ \A o \in Out \ Deps : known'[o] = {}
  BY <1>2 DEF Scanned
<1> QED
  BY <1>4, <1>5, <1>6, <1>7, <1>8, <1>9 DEF Scanned

\* A step of a command, or of the user while commands run.
LEMMA BuildingStep ==
    ASSUME RebuildInv, pc # "idle", Typed', Present', Later, Written, logs' = logs, scan' = scan,
           pc' = pc, dirty' = dirty, want' = want, recording' = recording,
           \A n \in Node : mtime'[n] # 0 \/ mtime'[n] = mtime[n],
           \A o \in Out : phase'[o] # "none" =>
             phase[o] # "none" \/ (o \in want /\ Below(o) \cap want = {}),
           \A o \in want : phase'[o] \in {"none", "started", "read"} =>
             Kept(o) /\ phase[o] \in {"none", "started", "read"},
           \A o \in Out \ want : Kept(o) /\ start'[o] = start[o] /\ got'[o] = got[o],
           \A o \in Running' : Command(o)'
    PROVE  RebuildInv'
<1>1. Typed /\ Present /\ EntriesRight /\ Lasting /\ Scanned /\ Recorded
  BY DEF RebuildInv
<1>2. EntriesRight' /\ Lasting'
  BY <1>1, EntriesKept, LastingKept
<1>3. Scanned'
  BY <1>1, ScannedKept
<1>4. Recorded'
  BY <1>1, RecordedKept DEF logs
<1>5. Idle' /\ Commands'
  BY DEF Idle, Commands
<1> QED
  BY <1>2, <1>3, <1>4, <1>5 DEF RebuildInv

\* A step of the user, or the end of the process.
LEMMA IdleStep ==
    ASSUME RebuildInv, Typed', Present', Later, Written, logs' = logs,
           pc' = "idle", want' = {}, \A o \in Out : phase'[o] = "none"
    PROVE  RebuildInv'
<1>1. EntriesRight' /\ Lasting'
  BY EntriesKept, LastingKept DEF RebuildInv
<1> QED
  BY <1>1 DEF RebuildInv, Idle

\* One file is written, or removed.
LEMMA OneFile ==
    ASSUME DiskTyped, NEW n \in Node, NEW t \in Nat, NEW c, clock' \in Nat, clock <= clock', t <= clock',
           mtime' = [mtime EXCEPT ![n] = t], content' = [content EXCEPT ![n] = c]
    PROVE  /\ mtime' \in [Node -> 0 .. clock'] /\ mtime' \in [Node -> Nat]
           /\ content' = [m \in Node |-> content'[m]]
           /\ \A m \in Node \ {n} : Kept(m)
           /\ mtime'[n] = t /\ content'[n] = c
<1>1. /\ clock \in Nat /\ mtime \in [Node -> 0 .. clock] /\ content = [m \in Node |-> content[m]]
  BY DEF DiskTyped
<1>2. 0 .. clock \subseteq 0 .. clock' /\ t \in 0 .. clock' /\ 0 .. clock' \subseteq Nat
  BY <1>1
<1>3. mtime' \in [Node -> 0 .. clock']
  BY <1>1, <1>2
<1>4. content' = [m \in Node |-> content'[m]] /\ content'[n] = c
  BY <1>1
<1>5. \A m \in Node \ {n} : Kept(m)
  BY <1>1 DEF Kept
<1> QED
  BY <1>1, <1>2, <1>3, <1>4, <1>5

-----------------------------------------------------------------------------
(***************************************************************************)
(* The invariant holds initially.                                          *)
(***************************************************************************)
LEMMA InitInv ==
    ASSUME Init
    PROVE  RebuildInv
<1> USE RebuildAssumption DEF RebuildAssumption
<1>1. DiskTyped
  BY DEF Init, DiskTyped, Node
<1>2. LogsTyped
  BY DEF Init, LogsTyped
<1>3. ScanTyped
  BY <1>1 DEF Init, ScanTyped, DiskTyped
<1>4. BuildTyped
  BY DEF Init, BuildTyped
<1>5. Present
  BY DEF Init, Present, Node
<1>6. EntriesRight /\ Lasting
  BY DEF Init, EntriesRight, Believed, Lasting, Outdated
<1> QED
  BY <1>1, <1>2, <1>3, <1>4, <1>5, <1>6 DEF RebuildInv, Typed, Idle, Init

-----------------------------------------------------------------------------
(***************************************************************************)
(* The user's steps.                                                       *)
(***************************************************************************)
\* Nobody edits what a running restat command reads: RaceRestat is FALSE.
LEMMA EditSourceStep ==
    ASSUME RaceRestat = FALSE, RebuildInv, NEW s \in Source, EditSource(s)
    PROVE  RebuildInv'
<1> USE RebuildAssumption DEF RebuildAssumption
<1>1. Typed /\ DiskTyped
  BY DEF RebuildInv, Typed
<1>2. /\ edits' = edits + 1 /\ edits' <= MaxEdits /\ clock' = clock + 1
      /\ version' = [version EXCEPT ![s] = version[s] + 1]
      /\ mtime' = [mtime EXCEPT ![s] = clock']
      /\ content' = [content EXCEPT ![s] = {<<s, version'[s]>>}]
      /\ command' = command /\ logs' = logs /\ scan' = scan /\ build' = build
  BY <1>1 DEF EditSource, DiskTyped
<1>a. /\ s \in Node /\ s \notin Out
      /\ clock \in Nat /\ mtime \in [Node -> 0 .. clock] /\ \A n \in Node : mtime[n] \in Nat /\ mtime[n] <= clock
      /\ clock' \in Nat /\ clock <= clock' /\ clock < clock' /\ clock' <= clock'
  BY <1>1, <1>2 DEF DiskTyped, Node
<1>b. /\ mtime' \in [Node -> 0 .. clock'] /\ mtime' \in [Node -> Nat]
      /\ content' = [n \in Node |-> content'[n]]
      /\ \A n \in Node \ {s} : Kept(n)
      /\ mtime'[s] = clock'
  <2> DEFINE c == {<<s, version'[s]>>}
  <2>1. content' = [content EXCEPT ![s] = c] /\ mtime' = [mtime EXCEPT ![s] = clock']
    BY <1>2
  <2> HIDE DEF c
  <2> QED
    BY <1>1, <2>1, <1>a, OneFile
<1>3. /\ \A n \in Node \ {s} : Kept(n)
      /\ \A r \in Source \ {s} : version'[r] = version[r]
      /\ mtime'[s] = clock + 1 /\ s \in Node /\ s \notin Out
      /\ clock \in Nat /\ mtime \in [Node -> 0 .. clock] /\ \A n \in Node : mtime[n] \in Nat /\ mtime[n] <= clock
  BY <1>1, <1>2, <1>a, <1>b DEF DiskTyped
<1>4. Typed'
  <2>1. /\ edits' \in 0 .. MaxEdits /\ 0 .. edits \subseteq 0 .. edits'
        /\ \A r \in Source : version[r] \in 0 .. edits /\ version[r] + 1 \in 0 .. edits'
    BY <1>1, <1>2 DEF DiskTyped
  <2>2. version' \in [Source -> 0 .. edits'] /\ command' \in [Out -> 0 .. edits']
    BY <1>1, <1>2, <2>1 DEF DiskTyped
  <2>3. DiskTyped'
    BY <1>a, <1>b, <2>1, <2>2 DEF DiskTyped
  <2> QED
    BY <1>1, <1>2, <1>a, <2>3, LogsTypedKept, ScanTypedKept, BuildTypedKept DEF Typed
<1>5. Present'
  BY <1>2, <1>3 DEF RebuildInv, Present, logs, Kept, Node
<1>6. Later
  <2>1. mtime' \in [Node -> Nat]
    BY <1>b
  <2>2. \A n \in Node : Kept(n) \/ mtime'[n] = 0 \/ (clock < mtime'[n] /\ mtime'[n] <= clock')
    BY <1>2, <1>3
  <2>3. ASSUME NEW r \in Source, Kept(r)  PROVE version'[r] = version[r]
    BY <1>3, <2>3 DEF Kept
  <2> QED
    BY <1>2, <1>3, <2>1, <2>2, <2>3 DEF Later
<1>7. Written
  BY <1>3 DEF Written, Node
<1>8. /\ pc' = pc /\ dirty' = dirty /\ want' = want /\ phase' = phase /\ start' = start
      /\ got' = got /\ recording' = recording
  BY <1>2 DEF build
<1>9. CASE pc = "idle"
  BY <1>4, <1>5, <1>6, <1>7, <1>8, <1>2, <1>9, IdleStep DEF RebuildInv, Idle
<1>10. CASE pc # "idle"
  <2>1. Scanned /\ Commands
    BY <1>10 DEF RebuildInv
  <2>2. ASSUME NEW o \in Running'  PROVE Command(o)'
    <3>1. o \in Running /\ o \in Out /\ Command(o)
      BY <1>8, <2>1 DEF Running, Commands
    <3>2. o \in Restat => Product(o, content)' = Product(o, content)
      <4> SUFFICES ASSUME o \in Restat  PROVE Product(o, content)' = Product(o, content)
        OBVIOUS
      <4>1. s \notin Reads(o)
        BY <3>1 DEF EditSource
      <4>2. Reads(o) = Ins[o]
        BY DEF Reads
      <4>3. \A i \in Reads(o) : content'[i] = content[i]
        BY <1>3, <4>1, <4>2 DEF Kept
      <4>4. \A r \in Ins[o] \cap Source : version'[r] = version[r]
        BY <1>3, <4>1, <4>2
      <4> QED
        BY <1>2, <4>3, <4>4, ProductKept
    <3>3. Kept(o)
      BY <1>3, <3>1 DEF Node
    <3> QED
      BY <1>1, <1>2, <1>6, <1>8, <3>1, <3>2, <3>3, CommandKept DEF logs, scan
  <2>3. /\ \A n \in Node : mtime'[n] # 0 \/ mtime'[n] = mtime[n]
        /\ \A o \in Out : Kept(o)
    BY <1>3 DEF Kept, Node
  <2>4. \A o \in want : phase'[o] \in {"none", "started", "read"} =>
          Kept(o) /\ phase[o] \in {"none", "started", "read"}
    BY <1>1, <1>8, <2>3 DEF Typed, BuildTyped
  <2> QED
    BY <1>10, <1>2, <1>4, <1>5, <1>6, <1>7, <1>8, <2>2, <2>3, <2>4, BuildingStep
<1> QED
  BY <1>9, <1>10

LEMMA EditCommandStep ==
    ASSUME GoesBack = FALSE, RebuildInv, NEW p \in Out, EditCommand(p)
    PROVE  RebuildInv'
<1> USE RebuildAssumption DEF RebuildAssumption
<1>1. Typed /\ DiskTyped /\ LogsTyped /\ Present /\ EntriesRight /\ Lasting /\ Idle
  BY DEF RebuildInv, Typed
<1>2. /\ edits' = edits + 1 /\ edits' <= MaxEdits /\ clock' = clock /\ version' = version
      /\ command' = [command EXCEPT ![p] = command[p] + 1]
      /\ mtime' = mtime /\ content' = content /\ pc = "idle"
      /\ logs' = logs /\ scan' = scan /\ build' = build
  BY <1>1 DEF EditCommand, DiskTyped
<1>3. /\ buildLog' = buildLog /\ depsLog' = depsLog /\ pc' = pc /\ want' = want /\ phase' = phase
  BY <1>2 DEF logs, build
<1>4. Typed'
  <2>1. DiskTyped'
    BY <1>1, <1>2 DEF DiskTyped
  <2>2. clock' \in Nat /\ clock <= clock'
    BY <1>1, <1>2 DEF DiskTyped
  <2> QED
    BY <1>1, <1>2, <2>1, <2>2, LogsTypedKept, ScanTypedKept, BuildTypedKept DEF Typed
<1>5. /\ \A o \in Out : command[o] \in Nat /\ buildLog[o].hash \in Int
      /\ \A o \in Out \ {p} : command'[o] = command[o]
      /\ command'[p] = command[p] + 1
  BY <1>1, <1>2 DEF DiskTyped, LogsTyped
<1>6. buildLog[p].hash # command'[p] /\ buildLog[p].hash <= command'[p]
  BY <1>1, <1>5 DEF Present
<1>7. Present'
  BY <1>1, <1>2, <1>3, <1>5, <1>6 DEF Present
<1>8. EntriesRight'
  <2> SUFFICES ASSUME NEW o \in Out, Believed(o)'
               PROVE  Holds(o, content[o], Inputs(o), buildLog[o].mtime)'
    BY DEF EntriesRight
  <2>1. o # p
    BY <1>3, <1>6 DEF Believed
  <2>2. command'[o] = command[o]
    BY <1>5, <2>1
  <2>3. Believed(o)
    BY <1>2, <1>3, <2>2 DEF Believed
  <2>4. Reads(o)' = Reads(o) /\ Product(o, content)' = Product(o, content)
    BY <1>2, <2>2, ProductKept
  <2>5. Holds(o, content[o], Inputs(o), buildLog[o].mtime)
    BY <1>1, <2>3 DEF EntriesRight
  <2>6. Inputs(o)' = Inputs(o)
    BY <1>3 DEF Inputs
  <2> QED
    BY <1>2, <1>3, <2>4, <2>5, <2>6 DEF Holds, Touched
<1>9. Lasting'
  <2>1. \A o \in Out : Outdated(o) => Outdated(o)'
    BY <1>2, <1>3, <1>5, <1>6 DEF Outdated, Touched
  <2> QED
    BY <1>1, <1>2, <1>3, <2>1 DEF Lasting
<1> QED
  BY <1>1, <1>2, <1>3, <1>4, <1>7, <1>8, <1>9 DEF RebuildInv, Idle

\* An output without deps is not removed: GoesBack is FALSE.
LEMMA RemoveOutputStep ==
    ASSUME GoesBack = FALSE, RebuildInv, NEW o \in Out, RemoveOutput(o)
    PROVE  RebuildInv'
<1> USE RebuildAssumption DEF RebuildAssumption
<1>1. Typed /\ DiskTyped /\ Present /\ Idle
  BY DEF RebuildInv, Typed
<1>2. /\ edits' = edits + 1 /\ edits' <= MaxEdits /\ clock' = clock /\ version' = version
      /\ command' = command /\ o \in Deps /\ pc = "idle"
      /\ mtime' = [mtime EXCEPT ![o] = 0] /\ content' = [content EXCEPT ![o] = {}]
      /\ logs' = logs /\ scan' = scan /\ build' = build
  BY <1>1 DEF RemoveOutput, DiskTyped
<1>3. /\ o \in Node /\ o \notin Source /\ clock \in Nat
      /\ clock' \in Nat /\ clock <= clock' /\ 0 <= clock'
  BY <1>1, <1>2 DEF DiskTyped, Node
<1>a. /\ mtime' \in [Node -> 0 .. clock'] /\ mtime' \in [Node -> Nat]
      /\ content' = [n \in Node |-> content'[n]]
      /\ \A n \in Node \ {o} : Kept(n)
      /\ mtime'[o] = 0 /\ content'[o] = {}
  BY <1>1, <1>2, <1>3, OneFile
<1>4. Typed'
  <2>1. edits' \in 0 .. MaxEdits /\ 0 .. edits \subseteq 0 .. edits'
    BY <1>1, <1>2 DEF DiskTyped
  <2>a. version' \in [Source -> 0 .. edits'] /\ command' \in [Out -> 0 .. edits']
    BY <1>1, <1>2, <2>1 DEF DiskTyped
  <2>b. DiskTyped'
    BY <1>3, <1>a, <2>1, <2>a DEF DiskTyped
  <2> QED
    BY <1>1, <1>2, <1>3, <2>b, LogsTypedKept, ScanTypedKept, BuildTypedKept DEF Typed
<1>5. Present'
  BY <1>1, <1>2, <1>3, <1>a DEF Present, logs, Kept, Node
<1>6. Later
  BY <1>2, <1>3, <1>a DEF Later
<1>7. Written
  BY <1>2, <1>a DEF Written, Node
<1> QED
  BY <1>1, <1>2, <1>4, <1>5, <1>6, <1>7, IdleStep DEF build, Idle

-----------------------------------------------------------------------------
(***************************************************************************)
(* The build starts.                                                       *)
(***************************************************************************)
LEMMA NoFile ==
    ASSUME Typed, UNCHANGED disk
    PROVE  /\ Later /\ Written
           /\ \A n : Kept(n)
           /\ clock' \in Nat /\ clock <= clock'
<1>1. clock \in Nat /\ mtime \in [Node -> Nat]
  BY DEF Typed, DiskTyped
<1>2. \A n : Kept(n)
  BY DEF Kept, disk
<1> QED
  BY <1>1, <1>2 DEF Later, Written, disk

\* An output found dirty, that has no deps, has a void entry.
LEMMA DirtyOutdated ==
    ASSUME Typed, Lasting, NEW p \in Out \ Deps, NEW m \in [Node -> Nat],
           m[p] = mtime[p], \A i \in Ins[p] : m[i] <= mtime[i],
           OutputDirty(p, m, Ins[p])
    PROVE  Outdated(p)
<1> USE RebuildAssumption DEF RebuildAssumption
<1>1. /\ mtime \in [Node -> Nat] /\ buildLog[p].mtime \in Nat /\ p \in Node /\ Ins[p] \subseteq Node
  BY DEF Typed, DiskTyped, LogsTyped, Node
<1> SUFFICES ASSUME buildLog[p].mtime # 0, buildLog[p].hash = command[p], m[p] # 0
             PROVE  Touched(Ins[p], buildLog[p].mtime)
  BY DEF Outdated, Lasting
<1>2. \/ p \notin Restat /\ \E i \in Ins[p] : m[p] < m[i]
      \/ \E i \in Ins[p] : buildLog[p].mtime < m[i]
  BY DEF OutputDirty
<1>3. CASE p \notin Restat /\ \E i \in Ins[p] : m[p] < m[i]
  <2>1. PICK i \in Ins[p] : m[p] < m[i]
    BY <1>3
  <2>2. mtime[p] > buildLog[p].mtime
    BY <1>3 DEF Lasting
  <2>3. buildLog[p].mtime < mtime[i]
    BY <1>1, <2>1, <2>2
  <2> QED
    BY <2>3 DEF Touched
<1>4. CASE \E i \in Ins[p] : buildLog[p].mtime < m[i]
  <2>1. PICK i \in Ins[p] : buildLog[p].mtime < m[i]
    BY <1>4
  <2>2. buildLog[p].mtime < mtime[i]
    BY <1>1, <2>1
  <2> QED
    BY <2>2 DEF Touched
<1> QED
  BY <1>2, <1>3, <1>4

LEMMA StartBuildStep ==
    ASSUME RebuildInv, StartBuild
    PROVE  RebuildInv'
<1> USE RebuildAssumption DEF RebuildAssumption
<1>1. Typed /\ Present /\ EntriesRight /\ Lasting /\ Idle
  BY DEF RebuildInv
<1>2. /\ disk' = disk /\ logs' = logs /\ edits' = edits /\ pc = "idle" /\ pc' = "building"
      /\ seen' = mtime /\ known' = DepsKnown(mtime) /\ missing' = DepsLost(mtime)
      /\ dirty' = ScanDirty(mtime) /\ want' = dirty'
      /\ phase' = phase /\ start' = start /\ got' = got /\ recording' = recording
  BY DEF StartBuild
<1>3. /\ clock' = clock /\ version' = version /\ command' = command
      /\ mtime' = mtime /\ content' = content /\ buildLog' = buildLog /\ depsLog' = depsLog
  BY <1>2 DEF disk, logs
<1>4. Later /\ Written /\ clock' \in Nat /\ clock <= clock'
  BY <1>1, <1>2, NoFile
<1>5. EntriesRight' /\ Lasting'
  BY <1>1, <1>2, <1>4, EntriesKept, LastingKept
<1>6. Typed'
  <2>1. DiskTyped' /\ LogsTyped'
    BY <1>1, <1>2, <1>3 DEF Typed, DiskTyped, LogsTyped
  <2>2. DepsLost(mtime) \subseteq Deps /\ DepsKnown(mtime) \in [Out -> SUBSET Node]
    BY <1>1 DEF DepsLost, DepsKnown, Typed, LogsTyped
  <2>3. ScanTyped'
    BY <1>1, <1>2, <1>3, <2>2 DEF Typed, ScanTyped, DiskTyped
  <2>4. ScanDirty(mtime) \subseteq Out
    BY DEF ScanDirty, Least
  <2>5. BuildTyped'
    BY <1>1, <1>2, <1>3, <2>4 DEF Typed, BuildTyped
  <2> QED
    BY <2>1, <2>3, <2>5 DEF Typed
<1>7. Present'
  BY <1>1, <1>3 DEF Present
<1>8. \A o \in Out : phase'[o] = "none"
  BY <1>1, <1>2 DEF Idle
<1>9. Scanned'
  <2>1. \A n \in Node : seen'[n] <= mtime'[n]
    BY <1>1, <1>2, <1>3 DEF Typed, DiskTyped
  <2>2. \A o \in Out \ Deps : known'[o] = {}
    BY <1>2 DEF DepsKnown
  <2>3. \A p \in want' \ Deps : Ins[p] \cap dirty' # {} \/ Outdated(p)'
    <3> SUFFICES ASSUME NEW p \in ScanDirty(mtime) \ Deps, Ins[p] \cap ScanDirty(mtime) = {}
                 PROVE  Outdated(p)'
      BY <1>2
    <3>1. p \in Out
      BY DEF ScanDirty, Least
    <3>2. Ins[p] \cup DepsKnown(mtime)[p] = Ins[p] /\ p \notin DepsLost(mtime)
      BY <3>1 DEF DepsKnown, DepsLost
    <3>3. OutputDirty(p, mtime, Ins[p])
      BY <3>2, ScanOnly
    <3>4. mtime \in [Node -> Nat] /\ \A i \in Ins[p] : mtime[i] <= mtime[i]
      BY <1>1, <3>1 DEF Typed, DiskTyped
    <3>5. Outdated(p)
      BY <1>1, <3>1, <3>3, <3>4, DirtyOutdated
    <3> QED
      BY <1>1, <1>3, <1>4, <3>1, <3>5, OutdatedKept
  <2>4. \A o \in Out : phase'[o] # "none" => o \in want' /\ Below(o)' \cap want' = {}
    BY <1>8
  <2>5. \A o \in want' : mtime'[o] = seen'[o]
    BY <1>2, <1>3
  <2>6. dirty' \ want' = {} /\ want' \subseteq dirty'
    BY <1>2
  <2> QED
    BY <2>1, <2>2, <2>3, <2>4, <2>5, <2>6 DEF Scanned
<1>10. Running' = {}
  BY <1>8 DEF Running
<1> QED
  BY <1>2, <1>5, <1>6, <1>7, <1>9, <1>10 DEF RebuildInv, Idle, Commands, Recorded

-----------------------------------------------------------------------------
(***************************************************************************)
(* The steps of a command.                                                 *)
(***************************************************************************)
LEMMA StartCommandStep ==
    ASSUME RebuildInv, NEW o \in Out, StartCommand(o)
    PROVE  RebuildInv'
<1> USE RebuildAssumption DEF RebuildAssumption
<1>1. Typed /\ Present /\ Scanned /\ Commands /\ DiskTyped /\ BuildTyped /\ LogsTyped /\ pc # "idle"
  BY DEF RebuildInv, StartCommand, Typed
<1>2. /\ pc = "building" /\ o \in want /\ phase[o] = "none" /\ Below(o) \cap want = {}
      /\ clock' = clock + 1 /\ start' = [start EXCEPT ![o] = clock']
      /\ phase' = [phase EXCEPT ![o] = "started"]
      /\ version' = version /\ command' = command /\ mtime' = mtime /\ content' = content
      /\ logs' = logs /\ scan' = scan /\ pc' = pc /\ dirty' = dirty /\ want' = want
      /\ got' = got /\ recording' = recording /\ edits' = edits
  BY DEF StartCommand, bounds
<1>3. /\ buildLog' = buildLog /\ depsLog' = depsLog /\ seen' = seen
      /\ clock \in Nat /\ clock' \in Nat /\ clock <= clock' /\ 0 .. clock \subseteq 0 .. clock'
      /\ clock' \in 0 .. clock'
  BY <1>1, <1>2 DEF logs, scan, DiskTyped
<1>4. /\ \A n : Kept(n)
      /\ start'[o] = clock' /\ phase'[o] = "started"
      /\ \A q \in Out \ {o} : start'[q] = start[q] /\ phase'[q] = phase[q]
  BY <1>1, <1>2 DEF BuildTyped, Kept
<1>5. Typed'
  <2>1. DiskTyped'
    BY <1>1, <1>2, <1>3 DEF DiskTyped
  <2>2. BuildTyped'
    BY <1>1, <1>2, <1>3 DEF BuildTyped
  <2> QED
    BY <1>1, <1>2, <1>3, <2>1, <2>2, LogsTypedKept, ScanTypedKept DEF Typed
<1>6. Present'
  BY <1>1, <1>2, <1>3 DEF Present
<1>7. Later /\ Written
  BY <1>1, <1>2, <1>3, <1>4 DEF Later, Written, DiskTyped
<1>8. ASSUME NEW q \in Running'  PROVE Command(q)'
  <2>1. CASE q = o
    <3>1. \A p \in want : start'[o] > buildLog[p].mtime
      BY <1>1, <1>2, <1>3, <1>4 DEF LogsTyped, BuildTyped
    <3>2. start'[o] > depsLog[o].mtime
      BY <1>1, <1>2, <1>3, <1>4 DEF LogsTyped
    <3> QED
      BY <1>2, <1>3, <1>4, <2>1, <3>1, <3>2 DEF Command
  <2>2. CASE q # o
    <3>1. q \in Running /\ q \in Out /\ Command(q)
      BY <1>1, <1>4, <2>2 DEF Running, Commands
    <3>2. Product(q, content)' = Product(q, content)
      BY <1>2, <3>1, ProductKept
    <3> QED
      BY <1>1, <1>2, <1>3, <1>4, <1>7, <2>2, <3>1, <3>2, CommandKept
  <2> QED
    BY <2>1, <2>2
<1>9. \A q \in want : phase'[q] \in {"none", "started", "read"} =>
        Kept(q) /\ phase[q] \in {"none", "started", "read"}
  BY <1>1, <1>2, <1>4 DEF BuildTyped
<1>10. /\ \A n \in Node : mtime'[n] # 0 \/ mtime'[n] = mtime[n]
       /\ \A q \in Out : phase'[q] # "none" =>
             phase[q] # "none" \/ (q \in want /\ Below(q) \cap want = {})
       /\ \A q \in Out \ want : Kept(q) /\ start'[q] = start[q] /\ got'[q] = got[q]
  BY <1>2, <1>4
<1> QED
  BY <1>1, <1>2, <1>5, <1>6, <1>7, <1>8, <1>9, <1>10, BuildingStep

LEMMA CommandReadsStep ==
    ASSUME RebuildInv, NEW o \in Out, CommandReads(o)
    PROVE  RebuildInv'
<1> USE RebuildAssumption DEF RebuildAssumption
<1>1. Typed /\ Present /\ DiskTyped /\ BuildTyped /\ LogsTyped /\ pc # "idle"
  BY DEF RebuildInv, CommandReads, Typed, Idle
<1>2. Scanned /\ Commands
  BY <1>1 DEF RebuildInv
<1>3. /\ phase[o] = "started" /\ phase' = [phase EXCEPT ![o] = "read"]
      /\ got' = [got EXCEPT ![o] = [nodes |-> Reads(o), content |-> Product(o, content)]]
      /\ disk' = disk /\ logs' = logs /\ scan' = scan /\ pc' = pc /\ dirty' = dirty
      /\ want' = want /\ start' = start /\ recording' = recording /\ edits' = edits
  BY DEF CommandReads, bounds
<1>4. /\ Later /\ Written /\ \A n : Kept(n)
      /\ clock' \in Nat /\ clock <= clock'
  BY <1>1, <1>3, NoFile
<1>5. /\ buildLog' = buildLog /\ depsLog' = depsLog /\ seen' = seen
      /\ version' = version /\ command' = command /\ content' = content /\ mtime' = mtime
      /\ clock' = clock
  BY <1>3 DEF logs, scan, disk
<1>6. /\ got' = [q \in Out |-> [nodes |-> got'[q].nodes, content |-> got'[q].content]]
      /\ got'[o].nodes = Reads(o) /\ got'[o].content = Product(o, content)
      /\ \A q \in Out \ {o} : got'[q] = got[q] /\ phase'[q] = phase[q]
      /\ phase'[o] = "read"
  <2> DEFINE r == [nodes |-> Reads(o), content |-> Product(o, content)]
  <2>1. /\ r.nodes = Reads(o) /\ r.content = Product(o, content)
        /\ r = [nodes |-> r.nodes, content |-> r.content]
    OBVIOUS
  <2>2. got' = [got EXCEPT ![o] = r]
    BY <1>3
  <2> HIDE DEF r
  <2>3. got = [q \in Out |-> [nodes |-> got[q].nodes, content |-> got[q].content]]
    BY <1>1 DEF BuildTyped
  <2>4. got'[o] = r /\ \A q \in Out \ {o} : got'[q] = got[q]
    BY <2>2, <2>3
  <2>5. got' = [q \in Out |-> got'[q]]
    BY <2>2, <2>3
  <2>6. \A q \in Out : got'[q] = [nodes |-> got'[q].nodes, content |-> got'[q].content]
    BY <2>1, <2>3, <2>4
  <2>7. \A q \in Out \ {o} : phase'[q] = phase[q]
    BY <1>1, <1>3 DEF BuildTyped
  <2>8. phase'[o] = "read"
    BY <1>1, <1>3 DEF BuildTyped
  <2> QED
    BY <2>1, <2>4, <2>5, <2>6, <2>7, <2>8
<1>7. Reads(o) \subseteq Node /\ Ins[o] \subseteq Reads(o) /\ (o \notin Deps => Reads(o) = Ins[o])
  <2>1. \A s \in Source : Included[s][version[s]] \subseteq Node
    BY <1>1 DEF DiskTyped
  <2> QED
    BY <2>1 DEF Reads
<1>8. Typed'
  <2>1. DiskTyped'
    BY <1>1, <1>3, <1>5 DEF DiskTyped
  <2>2. phase' \in [Out -> {"none", "started", "read", "written", "failed"}]
    BY <1>1, <1>3 DEF BuildTyped
  <2>3. \A q \in Out : got'[q].nodes \subseteq Node
    <3>1. got'[o].nodes \subseteq Node
      BY <1>6, <1>7
    <3>2. \A q \in Out \ {o} : got'[q].nodes \subseteq Node
      BY <1>1, <1>6 DEF BuildTyped
    <3> QED
      BY <3>1, <3>2
  <2>4. BuildTyped'
    BY <1>1, <1>3, <1>5, <1>6, <2>2, <2>3 DEF BuildTyped
  <2> QED
    BY <1>1, <1>3, <1>4, <2>1, <2>4, LogsTypedKept, ScanTypedKept DEF Typed
<1>9. Present'
  BY <1>1, <1>5 DEF Present
<1>10. ASSUME NEW q \in Running'  PROVE Command(q)'
  <2>1. q \in Running /\ q \in Out /\ Command(q)
    BY <1>2, <1>3, <1>6 DEF Running, Commands
  <2>2. Product(q, content)' = Product(q, content) /\ Reads(q)' = Reads(q)
    BY <1>5, <2>1, ProductKept
  <2>3. CASE q = o
    <3>1. Holds(o, got[o].content, got[o].nodes, start[o])'
      BY <1>6, <2>2, <2>3 DEF Holds
    <3> QED
      BY <1>3, <1>5, <1>6, <1>7, <2>1, <2>2, <2>3, <3>1 DEF Command
  <2>4. CASE q # o
    BY <1>1, <1>3, <1>4, <1>5, <1>6, <2>1, <2>2, <2>4, CommandKept
  <2> QED
    BY <2>3, <2>4
<1>11. /\ \A n \in Node : mtime'[n] # 0 \/ mtime'[n] = mtime[n]
       /\ \A q \in Out : phase'[q] # "none" =>
             phase[q] # "none" \/ (q \in want /\ Below(q) \cap want = {})
  BY <1>3, <1>5, <1>6
<1>12. \A q \in want : phase'[q] \in {"none", "started", "read"} =>
         Kept(q) /\ phase[q] \in {"none", "started", "read"}
  BY <1>1, <1>3, <1>4, <1>6 DEF BuildTyped
<1>13. o \in want
  BY <1>1, <1>2, <1>3, RunningInputs
<1>14. \A q \in Out \ want : Kept(q) /\ start'[q] = start[q] /\ got'[q] = got[q]
  BY <1>3, <1>4, <1>6, <1>13
<1> QED
  BY <1>1, <1>3, <1>4, <1>8, <1>9, <1>10, <1>11, <1>12, <1>14, BuildingStep

\* What one command writes, the other ones have not read.
LEMMA OthersKept ==
    ASSUME Typed, Scanned, Commands, Later, logs' = logs, scan' = scan, want' = want,
           version' = version, NEW o \in want, \A n \in Node \ {o} : Kept(n),
           NEW q \in Running, q # o,
           phase'[q] = phase[q], start'[q] = start[q], got'[q] = got[q]
    PROVE  Command(q)'
<1> USE RebuildAssumption DEF RebuildAssumption
<1>1. q \in Out /\ q \in Node /\ phase[q] # "none" /\ Command(q)
  BY DEF Running, Node, Commands
<1>2. o \notin Ins[q]
  BY <1>1, RunningInputs
<1>3. q \in Restat => Product(q, content)' = Product(q, content)
  <2> SUFFICES ASSUME q \in Restat  PROVE Product(q, content)' = Product(q, content)
    OBVIOUS
  <2>1. Reads(q) = Ins[q]
    BY DEF Reads
  <2>2. \A i \in Reads(q) : content'[i] = content[i]
    BY <1>1, <1>2, <2>1 DEF Kept
  <2> QED
    BY <1>1, <2>2, ProductKept DEF Later
<1>4. Kept(q) /\ seen'[q] = seen[q] /\ depsLog' = depsLog /\ buildLog' = buildLog
  BY <1>1 DEF logs, scan
<1> QED
  BY <1>1, <1>3, <1>4, CommandKept

\* A command that no longer counts as having read, or has written, its output.
LEMMA WritingStep ==
    ASSUME RebuildInv, pc # "idle", NEW o \in Out, phase[o] \in {"started", "read"},
           DiskTyped', Present', Later, version' = version, \A n \in Node \ {o} : Kept(n),
           mtime'[o] # 0 \/ mtime'[o] = mtime[o],
           phase'[o] \in {"written", "failed"}, phase' = [phase EXCEPT ![o] = phase'[o]],
           logs' = logs, scan' = scan, pc' = pc, dirty' = dirty, want' = want,
           start' = start, got' = got, recording' = recording,
           phase'[o] = "written" => Command(o)'
    PROVE  RebuildInv'
<1> USE RebuildAssumption DEF RebuildAssumption
<1>1. Typed /\ Present /\ DiskTyped /\ BuildTyped /\ LogsTyped /\ Scanned /\ Commands
  BY DEF RebuildInv, Typed
<1>2. /\ clock \in Nat /\ clock' \in Nat /\ clock <= clock' /\ 0 .. clock \subseteq 0 .. clock'
  BY <1>1 DEF DiskTyped, Later
<1>3. o \in want /\ o \in Node /\ (o \in Deps \/ Outdated(o))
  BY <1>1, RunningInputs, RunningOutdated DEF Node
<1>4. \A q \in Out \ {o} : phase'[q] = phase[q]
  BY <1>1 DEF BuildTyped
<1>5. Typed'
  <2>1. phase' \in [Out -> {"none", "started", "read", "written", "failed"}]
    BY <1>1 DEF BuildTyped
  <2>2. start' \in [Out -> 0 .. clock']
    BY <1>1, <1>2 DEF BuildTyped
  <2>3. BuildTyped'
    BY <1>1, <2>1, <2>2 DEF BuildTyped
  <2> QED
    BY <1>1, <1>2, <2>3, LogsTypedKept, ScanTypedKept DEF Typed
<1>6. Written
  BY <1>3 DEF Written, Node
<1>7. ASSUME NEW q \in Running'  PROVE Command(q)'
  <2>1. CASE q = o
    BY <2>1 DEF Running
  <2>2. CASE q # o
    <3>1. q \in Running
      BY <1>4, <2>2 DEF Running
    <3>2. q \in Out /\ phase'[q] = phase[q] /\ start'[q] = start[q] /\ got'[q] = got[q]
      BY <1>4, <2>2, <3>1 DEF Running
    <3> QED
      BY <1>1, <1>3, <2>2, <3>1, <3>2, OthersKept
  <2> QED
    BY <2>1, <2>2
<1>8. /\ \A n \in Node : mtime'[n] # 0 \/ mtime'[n] = mtime[n]
      /\ \A q \in Out : phase'[q] # "none" =>
             phase[q] # "none" \/ (q \in want /\ Below(q) \cap want = {})
  BY <1>4 DEF Kept
<1>9. \A q \in want : phase'[q] \in {"none", "started", "read"} =>
         Kept(q) /\ phase[q] \in {"none", "started", "read"}
  <2> SUFFICES ASSUME NEW q \in want, phase'[q] \in {"none", "started", "read"}
               PROVE  Kept(q) /\ phase[q] \in {"none", "started", "read"}
    OBVIOUS
  <2>1. q # o /\ q \in Out /\ q \in Node
    BY <1>1 DEF BuildTyped, Node
  <2> QED
    BY <1>4, <2>1
<1>10. \A q \in Out \ want : Kept(q) /\ start'[q] = start[q] /\ got'[q] = got[q]
  BY <1>3 DEF Node
<1> QED
  BY <1>5, <1>6, <1>7, <1>8, <1>9, <1>10, BuildingStep

LEMMA CommandWritesStep ==
    ASSUME RebuildInv, NEW o \in Out, CommandWrites(o)
    PROVE  RebuildInv'
<1> USE RebuildAssumption DEF RebuildAssumption
<1>1. Typed /\ Present /\ DiskTyped /\ BuildTyped /\ LogsTyped /\ pc # "idle"
  BY DEF RebuildInv, CommandWrites, Typed, Idle
<1>2. Scanned /\ Commands
  BY <1>1 DEF RebuildInv
<1>3. /\ phase[o] = "read" /\ phase' = [phase EXCEPT ![o] = "written"]
      /\ version' = version /\ command' = command
      /\ logs' = logs /\ scan' = scan /\ pc' = pc /\ dirty' = dirty /\ edits' = edits
      /\ want' = want /\ start' = start /\ got' = got /\ recording' = recording
  BY DEF CommandWrites, bounds
<1>4. /\ phase'[o] = "written" /\ o \in Running /\ Command(o) /\ o \in want /\ o \in Node /\ o \notin Source
      /\ phase' = [phase EXCEPT ![o] = phase'[o]]
  <2>1. phase'[o] = "written"
    BY <1>1, <1>3 DEF BuildTyped
  <2>2. o \in want
    BY <1>1, <1>2, <1>3, RunningInputs
  <2> QED
    BY <1>2, <1>3, <2>1, <2>2 DEF Running, Commands, Node
<1>5. /\ buildLog' = buildLog /\ depsLog' = depsLog /\ seen' = seen /\ clock \in Nat
  BY <1>1, <1>3 DEF logs, scan, DiskTyped
<1>6. CASE o \in Restat /\ content[o] = got[o].content
  <2>1. clock' = clock /\ mtime' = mtime /\ content' = content
    BY <1>6 DEF CommandWrites
  <2>2. disk' = disk
    BY <1>3, <2>1 DEF disk
  <2>3. Later /\ \A n : Kept(n)
    BY <1>1, <2>2, NoFile
  <2>4. DiskTyped' /\ Present'
    BY <1>1, <1>3, <1>5, <2>1 DEF DiskTyped, Present
  <2>5. <<o, command[o]>> \in got[o].content
    BY <1>3, <1>4, <1>6 DEF Command, Product
  <2>6. mtime[o] # 0 /\ mtime[o] = seen[o]
    BY <1>1, <1>2, <1>3, <1>4, <1>6, <2>5 DEF Present, Scanned
  <2>7. Product(o, content)' = Product(o, content) /\ Reads(o)' = Reads(o)
    BY <1>3, <2>1, ProductKept
  <2>8. Holds(o, got[o].content, got[o].nodes, start[o])'
    BY <1>3, <1>4, <2>1, <2>7 DEF Command, Holds, Touched
  <2>9. Command(o)'
    BY <1>3, <1>4, <1>5, <1>6, <2>1, <2>6, <2>7, <2>8 DEF Command
  <2> QED
    BY <1>1, <1>3, <1>4, <2>1, <2>3, <2>4, <2>6, <2>9, WritingStep
<1>7. CASE ~(o \in Restat /\ content[o] = got[o].content)
  <2>1. /\ clock' = clock + 1 /\ mtime' = [mtime EXCEPT ![o] = clock']
        /\ content' = [content EXCEPT ![o] = got[o].content]
    BY <1>7 DEF CommandWrites
  <2>2. clock' \in Nat /\ clock <= clock' /\ clock < clock' /\ clock' <= clock' /\ clock' # 0
    BY <1>5, <2>1
  <2>3. /\ mtime' \in [Node -> 0 .. clock'] /\ mtime' \in [Node -> Nat]
        /\ content' = [n \in Node |-> content'[n]]
        /\ \A n \in Node \ {o} : Kept(n)
        /\ mtime'[o] = clock' /\ content'[o] = got[o].content
    BY <1>1, <1>4, <2>1, <2>2, OneFile
  <2>4. DiskTyped'
    BY <1>1, <1>3, <2>2, <2>3 DEF DiskTyped
  <2>5. Present'
    BY <1>1, <1>3, <1>4, <1>5, <2>2, <2>3 DEF Present, Kept, Node
  <2>6. Later
    BY <1>3, <2>2, <2>3 DEF Later
  <2>7. start[o] \in Nat /\ start[o] <= clock /\ got[o].nodes \in SUBSET Node
    BY <1>1, <1>5 DEF BuildTyped
  <2>8. HoldsThen(o, got[o].content, got[o].nodes, start[o])
    BY <1>1, <1>3, <1>4, <2>6, <2>7, HoldsKept DEF Command
  <2>9. Holds(o, got[o].content, got[o].nodes, start[o])'
    BY <1>3, <2>8 DEF HoldsThen, Holds, Touched
  <2>10. o \in Restat => Product(o, content)' = Product(o, content)
    <3>1. o \notin Ins[o]
      BY <1>1, <1>2, <1>3, <1>4, RunningInputs
    <3>2. o \in Restat => Reads(o) = Ins[o]
      BY DEF Reads
    <3>3. o \in Restat => \A i \in Reads(o) : content'[i] = content[i]
      BY <2>3, <3>1, <3>2 DEF Kept
    <3> QED
      BY <1>3, <3>3, ProductKept
  <2>11. mtime'[o] > start'[o]
    BY <1>3, <1>5, <2>2, <2>3, <2>7
  <2>12. Command(o)'
    BY <1>3, <1>4, <1>5, <2>2, <2>3, <2>9, <2>10, <2>11 DEF Command
  <2> QED
    BY <1>1, <1>3, <1>4, <2>2, <2>3, <2>4, <2>5, <2>6, <2>12, WritingStep
<1> QED
  BY <1>6, <1>7

\* Half-written files, and removed ones.
LEMMA SpoilEffect ==
    ASSUME Typed, Present, NEW T \in SUBSET Out, NEW R \in SUBSET Out, Spoil(T, R), edits' = edits
    PROVE  /\ DiskTyped' /\ Later /\ version' = version
           /\ \A n \in Node \ (T \cup R) : Kept(n)
           /\ \A n \in T \ R : mtime'[n] # 0
           /\ logs' = logs => Present'
<1> USE RebuildAssumption DEF RebuildAssumption
<1>1. /\ DiskTyped /\ clock \in Nat /\ mtime \in [Node -> 0 .. clock]
      /\ content = [n \in Node |-> content[n]]
  BY DEF Typed, DiskTyped
<1>2. /\ clock' = clock + 1 /\ version' = version /\ command' = command
      /\ mtime' = [n \in Node |-> IF n \in R THEN 0 ELSE IF n \in T THEN clock' ELSE mtime[n]]
      /\ content' = [n \in Node |-> IF n \in R THEN {} ELSE IF n \in T THEN Garbage(n) ELSE content[n]]
  BY DEF Spoil
<1>3. clock' \in Nat /\ clock <= clock' /\ clock < clock' /\ clock' # 0 /\ 0 .. clock \subseteq 0 .. clock'
  BY <1>1, <1>2
<1>4. /\ \A n \in Node \ (T \cup R) : Kept(n)
      /\ \A n \in R : mtime'[n] = 0 /\ content'[n] = {}
      /\ \A n \in T \ R : mtime'[n] = clock'
  BY <1>2 DEF Kept, Node
<1>5. mtime' \in [Node -> 0 .. clock']
  <2>1. \A n \in Node : (IF n \in R THEN 0 ELSE IF n \in T THEN clock' ELSE mtime[n]) \in 0 .. clock'
    BY <1>1, <1>3
  <2> QED
    BY <1>2, <2>1
<1>6. content' = [n \in Node |-> content'[n]]
  BY <1>2
<1>7. DiskTyped'
  BY <1>1, <1>2, <1>3, <1>5, <1>6 DEF DiskTyped
<1>8. Later
  <2>1. mtime' \in [Node -> Nat]
    BY <1>3, <1>5
  <2>2. ASSUME NEW n \in Node
        PROVE  Kept(n) \/ mtime'[n] = 0 \/ (clock < mtime'[n] /\ mtime'[n] <= clock')
    <3>1. n \in Node \ (T \cup R) \/ n \in R \/ n \in T \ R
      OBVIOUS
    <3>2. CASE n \in Node \ (T \cup R)
      BY <1>4, <3>2
    <3>3. CASE n \in R
      BY <1>4, <3>3
    <3>4. CASE n \in T \ R
      <4>1. mtime'[n] = clock'
        BY <1>4, <3>4
      <4>2. clock < mtime'[n] /\ mtime'[n] <= clock'
        BY <1>3, <4>1
      <4> QED
        BY <4>2
    <3> QED
      BY <3>1, <3>2, <3>3, <3>4
  <2> QED
    BY <1>2, <1>3, <2>1, <2>2 DEF Later
<1>9. ASSUME logs' = logs  PROVE Present'
  <2>1. buildLog' = buildLog
    BY <1>9 DEF logs
  <2>2. \A s \in Source : s \in Node \ (T \cup R)
    BY DEF Node
  <2>3. \A s \in Source : mtime'[s] # 0
    BY <1>4, <2>2 DEF Present, Kept
  <2>4. ASSUME NEW o \in Out, mtime'[o] = 0  PROVE content'[o] = {}
    <3>1. o \in Node \ (T \cup R) \/ o \in R
      BY <1>3, <1>4, <2>4 DEF Node
    <3> QED
      BY <1>4, <2>4, <3>1 DEF Present, Kept
  <2> QED
    BY <1>2, <2>1, <2>3, <2>4 DEF Present
<1> QED
  BY <1>2, <1>3, <1>4, <1>7, <1>8, <1>9

LEMMA CommandFailsStep ==
    ASSUME RebuildInv, NEW o \in Out, CommandFails(o)
    PROVE  RebuildInv'
<1> USE RebuildAssumption DEF RebuildAssumption
<1>1. Typed /\ Present /\ DiskTyped /\ BuildTyped /\ pc # "idle"
  BY DEF RebuildInv, CommandFails, Typed
<1>2. /\ phase[o] \in {"started", "read"} /\ phase' = [phase EXCEPT ![o] = "failed"]
      /\ logs' = logs /\ scan' = scan /\ pc' = pc /\ dirty' = dirty /\ want' = want
      /\ start' = start /\ got' = got /\ recording' = recording /\ edits' = edits
  BY DEF CommandFails
<1>3. PICK T \in SUBSET {o} : Spoil(T, {})
  BY DEF CommandFails
<1>4. T \in SUBSET Out /\ {} \in SUBSET Out /\ o \in Node
  BY DEF Node
<1>5. /\ DiskTyped' /\ Later /\ version' = version /\ Present'
      /\ \A n \in Node \ T : Kept(n)
      /\ \A n \in T : mtime'[n] # 0
  BY <1>1, <1>2, <1>3, <1>4, SpoilEffect
<1>6. phase'[o] = "failed" /\ phase' = [phase EXCEPT ![o] = phase'[o]]
  BY <1>1, <1>2 DEF BuildTyped
<1>7. mtime'[o] # 0 \/ mtime'[o] = mtime[o]
  BY <1>4, <1>5 DEF Kept
<1>8. \A n \in Node \ {o} : Kept(n)
  BY <1>5
<1> QED
  BY <1>1, <1>2, <1>4, <1>5, <1>6, <1>7, <1>8, WritingStep

-----------------------------------------------------------------------------
(***************************************************************************)
(* FinishCommand: the edge of a restat command that wrote nothing is       *)
(* cleaned, and others with it; and the entries are made.                  *)
(***************************************************************************)
LEMMA RecordDepsStep ==
    ASSUME RebuildInv, RecordDeps
    PROVE  RebuildInv'
<1> USE RebuildAssumption DEF RebuildAssumption
<1>1. /\ Typed /\ Present /\ DiskTyped /\ BuildTyped /\ LogsTyped /\ ScanTyped /\ EntriesRight /\ Lasting
      /\ Scanned /\ Commands /\ Recorded
  BY DEF RebuildInv, RecordDeps, Typed
<1>2. PICK r \in Deps : r = recording
  BY <1>1 DEF Recorded, RecordDeps
<1>3. /\ r \notin want /\ r \in Out /\ r \in Node
      /\ buildLog[r] = [mtime |-> start[r], hash |-> command[r]]
      /\ content[r] = got[r].content /\ mtime[r] > start[r]
      /\ Ins[r] \subseteq got[r].nodes
      /\ Holds(r, got[r].content, got[r].nodes, start[r])
  BY <1>1, <1>2 DEF Recorded, RecordDeps, Node
<1>4. /\ pc = "recording" /\ pc' = "building" /\ recording' = "none"
      /\ depsLog' = [depsLog EXCEPT ![r] = [mtime |-> mtime[r], nodes |-> got[r].nodes]]
      /\ disk' = disk /\ buildLog' = buildLog /\ scan' = scan /\ dirty' = dirty /\ want' = want
      /\ phase' = phase /\ start' = start /\ got' = got /\ edits' = edits
  BY <1>2 DEF RecordDeps, bounds
<1>5. /\ clock' = clock /\ version' = version /\ command' = command
      /\ mtime' = mtime /\ content' = content
      /\ seen' = seen /\ known' = known /\ missing' = missing
  BY <1>4 DEF disk, scan
<1>6. /\ Later /\ Written /\ \A n : Kept(n)
      /\ clock' \in Nat /\ clock <= clock'
  BY <1>1, <1>4, NoFile
<1>7. /\ depsLog'[r].mtime = mtime[r] /\ depsLog'[r].nodes = got[r].nodes
      /\ \A o \in Out \ {r} : depsLog'[o] = depsLog[o]
  BY <1>1, <1>3, <1>4 DEF LogsTyped
<1>8. Typed'
  <2>1. mtime[r] \in 0 .. clock /\ got[r].nodes \in SUBSET Node
    BY <1>1, <1>3 DEF DiskTyped, BuildTyped
  <2>2. depsLog' \in [Out -> [mtime : 0 .. clock, nodes : SUBSET Node]]
    BY <1>1, <1>4, <2>1 DEF LogsTyped
  <2>3. LogsTyped'
    BY <1>1, <1>4, <1>5, <2>2 DEF LogsTyped
  <2>4. DiskTyped'
    BY <1>1, <1>4, <1>5 DEF DiskTyped
  <2>5. BuildTyped'
    BY <1>1, <1>4, <1>5 DEF BuildTyped
  <2> QED
    BY <1>1, <1>4, <1>6, <2>3, <2>4, <2>5, ScanTypedKept DEF Typed
<1>9. Present'
  BY <1>1, <1>4, <1>5 DEF Present
<1>10. \A o \in Out : Product(o, content)' = Product(o, content) /\ Reads(o)' = Reads(o)
  BY <1>5, ProductKept
<1>11. EntriesRight'
  <2> SUFFICES ASSUME NEW o \in Out, Believed(o)'
               PROVE  Holds(o, content[o], Inputs(o), buildLog[o].mtime)'
    BY DEF EntriesRight
  <2>1. CASE o = r
    <3>1. Inputs(o)' = got[r].nodes
      BY <1>2, <1>3, <1>7, <2>1 DEF Inputs
    <3>2. buildLog'[o].mtime = start[r] /\ content'[o] = got[r].content
      BY <1>3, <1>4, <1>5, <2>1
    <3> QED
      BY <1>3, <1>5, <1>10, <2>1, <3>1, <3>2 DEF Holds, Touched
  <2>2. CASE o # r
    <3>1. Believed(o) /\ Inputs(o)' = Inputs(o)
      BY <1>4, <1>5, <1>7, <2>2 DEF Believed, Inputs
    <3>2. Holds(o, content[o], Inputs(o), buildLog[o].mtime)
      BY <1>1, <3>1 DEF EntriesRight
    <3> QED
      BY <1>4, <1>5, <1>10, <3>1, <3>2 DEF Holds, Touched
  <2> QED
    BY <2>1, <2>2
<1>12. \A o \in Out : Outdated(o)' = Outdated(o)
  BY <1>4, <1>5 DEF Outdated, Touched
<1>13. Lasting'
  BY <1>1, <1>4, <1>5, <1>12 DEF Lasting
<1>14. Scanned'
  <2>1. \A o \in Out : Below(o)' = Below(o)
    BY <1>5 DEF Below, Least
  <2>2. want \subseteq Out
    BY <1>1 DEF BuildTyped
  <2> QED
    BY <1>1, <1>4, <1>5, <1>12, <2>1, <2>2 DEF Scanned
<1>15. Commands'
  <2> SUFFICES ASSUME NEW o \in Running'  PROVE Command(o)'
    BY DEF Commands
  <2>1. o \in Running /\ o \in Out /\ Command(o) /\ o \in want
    BY <1>1, <1>4, RunningInputs DEF Running, Commands
  <2>2. o # r
    BY <1>3, <2>1
  <2> QED
    BY <1>1, <1>4, <1>5, <1>6, <1>7, <1>10, <2>1, <2>2, CommandKept
<1> QED
  BY <1>4, <1>8, <1>9, <1>11, <1>13, <1>14, <1>15 DEF RebuildInv, Idle, Recorded

\* CleanNode withdraws no edge that runs, and leaves wanted only those that have
\* another dirty input or a void entry.
LEMMA CleanedEffect ==
    ASSUME Typed, Lasting, Scanned, NEW o \in Out, phase[o] # "none"
    PROVE  /\ \A q \in Cleaned(o) : q \in want /\ phase[q] = "none"
           /\ \A p \in (want \ ({o} \cup Cleaned(o))) \ Deps :
                Ins[p] \cap (dirty \ ({o} \cup Cleaned(o))) # {} \/ Outdated(p)
<1> USE RebuildAssumption DEF RebuildAssumption
<1>1. o \in want /\ Cleaned(o) \subseteq want
  BY RunningInputs, CleanedOnly
<1>2. /\ known \in [Out -> SUBSET Node] /\ missing \subseteq Deps
      /\ want \subseteq Out /\ seen \in [Node -> Nat] /\ mtime \in [Node -> Nat]
  BY DEF Typed, ScanTyped, BuildTyped, DiskTyped
<1>3. ASSUME NEW q \in Cleaned(o)  PROVE q \in want /\ phase[q] = "none"
  <2>a. q \in Out /\ (Ins[q] \cup known[q] \cup OrderOnly[q]) \cap (Cleaned(o) \cup {o}) # {}
    BY CleanedOnly
  <2>1. q \in Out /\ (Ins[q] \cup known[q] \cup OrderOnly[q]) \cap want # {}
    BY <1>1, <2>a
  <2>2. Below(q) \cap want # {}
    BY <1>2, <2>1, BelowHas
  <2> QED
    BY <1>1, <2>1, <2>2 DEF Scanned
<1>4. ASSUME NEW p \in (want \ ({o} \cup Cleaned(o))) \ Deps,
             Ins[p] \cap (dirty \ ({o} \cup Cleaned(o))) = {}, ~Outdated(p)
      PROVE  FALSE
  <2>1. p \in Out /\ p \in want \ missing /\ known[p] = {} /\ p \notin Deps
    BY <1>2 DEF Scanned
  <2>2. Ins[p] \cap dirty # {}
    BY <1>4, <2>1 DEF Scanned
  <2>3. Ins[p] \cap (Cleaned(o) \cup {o}) # {}
    BY <1>4, <2>2
  <2>4. phase[p] = "none"
    BY <1>1, <2>1, <2>3, RunningInputs
  <2>5. p \in Node /\ Ins[p] \subseteq Node
    BY <2>1 DEF Node
  <2>6. seen[p] = mtime[p] /\ \A i \in Ins[p] : seen[i] <= mtime[i]
    BY <2>1, <2>4, <2>5 DEF Scanned
  <2>7. ~OutputDirty(p, seen, Ins[p])
    BY <1>2, <1>4, <2>1, <2>6, DirtyOutdated
  <2>8. Ins[p] \cup known[p] = Ins[p]
    BY <2>1
  <2>9. p \in Cleaned(o)
    BY <1>4, <2>1, <2>3, <2>7, <2>8, CleanedClosed
  <2> QED
    BY <2>9
<1> QED
  BY <1>3, <1>4

\* What FinishCommand withdraws, o aside.
Withdrawn(o) == IF o \in Restat /\ mtime[o] = seen[o] THEN {o} \cup Cleaned(o) ELSE {}

LEMMA FinishCommandStep ==
    ASSUME RebuildInv, NEW o \in Out, FinishCommand(o)
    PROVE  RebuildInv'
<1> USE RebuildAssumption DEF RebuildAssumption
<1> DEFINE W == Withdrawn(o)
<1>1. /\ Typed /\ Present /\ DiskTyped /\ BuildTyped /\ LogsTyped /\ ScanTyped /\ EntriesRight /\ Lasting
      /\ Scanned /\ Commands
  BY DEF RebuildInv, FinishCommand, Typed
<1>2. /\ pc = "building" /\ phase[o] = "written"
      /\ want' = want \ ({o} \cup W) /\ dirty' = dirty \ W
      /\ buildLog' = [buildLog EXCEPT ![o] = [mtime |-> RecordMtime(o), hash |-> command[o]]]
      /\ phase' = [phase EXCEPT ![o] = "none"]
      /\ IF o \in Deps THEN pc' = "recording" /\ recording' = o
                       ELSE pc' = pc /\ recording' = recording
      /\ disk' = disk /\ depsLog' = depsLog /\ scan' = scan /\ start' = start /\ got' = got
      /\ edits' = edits
  BY DEF FinishCommand, Withdrawn, bounds
<1>3. /\ clock' = clock /\ version' = version /\ command' = command
      /\ mtime' = mtime /\ content' = content
      /\ seen' = seen /\ known' = known /\ missing' = missing
  BY <1>2 DEF disk, scan
<1>4. /\ Later /\ Written /\ \A n : Kept(n)
      /\ clock' \in Nat /\ clock <= clock'
  BY <1>1, <1>2, NoFile
<1>5. /\ o \in Running /\ Command(o) /\ o \in want /\ o \in Node /\ o \notin Source
      /\ Ins[o] \cap want = {}
      /\ mtime[o] \in 0 .. clock /\ start[o] \in 0 .. clock /\ clock \in Nat
      /\ got[o].nodes \in SUBSET Node /\ depsLog[o].mtime \in Nat
  <2>1. o \in Running /\ Command(o) /\ o \in Node /\ o \notin Source
    BY <1>1, <1>2 DEF Running, Commands, Node
  <2>2. o \in want /\ Ins[o] \cap want = {}
    BY <1>1, <1>2, RunningInputs
  <2>3. mtime[o] \in 0 .. clock /\ start[o] \in 0 .. clock /\ clock \in Nat
    BY <1>1, <2>1 DEF DiskTyped, BuildTyped
  <2>4. got[o].nodes \in SUBSET Node /\ depsLog[o].mtime \in Nat
    BY <1>1 DEF LogsTyped, BuildTyped
  <2> QED
    BY <2>1, <2>2, <2>3, <2>4
<1>6. /\ Ins[o] \subseteq got[o].nodes
      /\ o \notin Deps => got[o].nodes = Ins[o]
      /\ Holds(o, got[o].content, got[o].nodes, start[o])
      /\ o \in Restat => got[o].content = Product(o, content)
      /\ content[o] = got[o].content /\ mtime[o] # 0
      /\ (o \in Restat /\ mtime[o] = seen[o]) \/ mtime[o] > start[o]
      /\ start[o] > depsLog[o].mtime
      /\ \A p \in want : start[o] > buildLog[p].mtime
  BY <1>2, <1>5 DEF Command
<1>7. /\ RecordMtime(o) \in 0 .. clock
      /\ RecordMtime(o) = start[o] \/ (o \in Restat /\ RecordMtime(o) = mtime[o])
  BY <1>5 DEF RecordMtime
<1>8. /\ buildLog'[o] = [mtime |-> RecordMtime(o), hash |-> command[o]]
      /\ buildLog'[o].mtime = RecordMtime(o) /\ buildLog'[o].hash = command[o]
      /\ \A q \in Out \ {o} : buildLog'[q] = buildLog[q] /\ phase'[q] = phase[q]
      /\ phase'[o] = "none"
  BY <1>1, <1>2 DEF LogsTyped, BuildTyped
<1>9. /\ \A q \in W : q \in want /\ (q = o \/ phase[q] = "none")
      /\ W = {} \/ o \in W
      /\ W = {} => mtime[o] > start[o]
      /\ \A p \in want' \ Deps : Ins[p] \cap dirty' # {} \/ Outdated(p)
  <2>1. \A q \in W : q \in want /\ (q = o \/ phase[q] = "none")
    BY <1>1, <1>2, <1>5, CleanedEffect DEF Withdrawn
  <2>2. W = {} => mtime[o] > start[o]
    BY <1>6 DEF Withdrawn
  <2>3. ASSUME NEW p \in want' \ Deps  PROVE Ins[p] \cap dirty' # {} \/ Outdated(p)
    <3>1. CASE W = {}
      BY <1>1, <1>2, <3>1 DEF Scanned
    <3>2. CASE W # {}
      <4>1. W = {o} \cup Cleaned(o)
        BY <3>2 DEF Withdrawn
      <4> HIDE DEF W
      <4>2. p \in (want \ ({o} \cup Cleaned(o))) \ Deps /\ dirty' = dirty \ ({o} \cup Cleaned(o))
        BY <1>2, <4>1
      <4> QED
        BY <1>1, <1>2, <4>2, CleanedEffect
    <3> QED
      BY <3>1, <3>2
  <2> QED
    BY <2>1, <2>2, <2>3 DEF Withdrawn
<1> HIDE DEF W
<1>10. Typed'
  <2>1. command[o] \in Int
    BY <1>1 DEF DiskTyped
  <2>2. buildLog' \in [Out -> [mtime : 0 .. clock, hash : Int]]
    BY <1>1, <1>2, <1>7, <2>1 DEF LogsTyped
  <2>3. LogsTyped'
    BY <1>1, <1>2, <1>3, <2>2 DEF LogsTyped
  <2>4. DiskTyped'
    BY <1>1, <1>2, <1>3 DEF DiskTyped
  <2>5. /\ phase' \in [Out -> {"none", "started", "read", "written", "failed"}]
        /\ recording' \in Out \cup {"none"} /\ (pc' = "recording" <=> recording' # "none")
        /\ pc' \in {"idle", "building", "recording"}
    BY <1>1, <1>2 DEF BuildTyped
  <2>6. BuildTyped'
    BY <1>1, <1>2, <1>3, <2>5 DEF BuildTyped
  <2> QED
    BY <1>1, <1>2, <1>4, <2>3, <2>4, <2>6, ScanTypedKept DEF Typed
<1>11. Present'
  <2>1. command[o] <= command[o]
    BY <1>1 DEF DiskTyped
  <2> QED
    BY <1>1, <1>3, <1>8, <2>1 DEF Present
<1>12. \A q \in Out : Product(q, content)' = Product(q, content) /\ Reads(q)' = Reads(q)
  BY <1>3, ProductKept
<1>13. EntriesRight'
  <2> SUFFICES ASSUME NEW q \in Out, Believed(q)'
               PROVE  Holds(q, content[q], Inputs(q), buildLog[q].mtime)'
    BY DEF EntriesRight
  <2>1. Inputs(q)' = Inputs(q)
    BY <1>2 DEF Inputs
  <2>2. CASE q # o
    <3>1. Believed(q)
      BY <1>2, <1>3, <1>8, <2>2 DEF Believed
    <3>2. Holds(q, content[q], Inputs(q), buildLog[q].mtime)
      BY <1>1, <3>1 DEF EntriesRight
    <3> QED
      BY <1>3, <1>8, <1>12, <2>1, <2>2, <3>2 DEF Holds, Touched
  <2>3. CASE q = o /\ o \in Deps
    <3>1. o \notin Restat
      BY <2>3
    <3>2. mtime[o] > start[o] /\ start[o] > depsLog[o].mtime
      BY <1>6, <3>1
    <3>3. ~(mtime[o] <= depsLog[o].mtime)
      BY <1>5, <3>2
    <3> QED
      BY <1>2, <1>3, <2>3, <3>3 DEF Believed
  <2>4. CASE q = o /\ o \notin Deps
    <3>1. Inputs(o) = Ins[o] /\ got[o].nodes = Ins[o]
      BY <1>6, <2>4 DEF Inputs
    <3>2. CASE RecordMtime(o) = start[o]
      BY <1>3, <1>6, <1>8, <1>12, <2>1, <2>4, <3>1, <3>2 DEF Holds, Touched
    <3>3. CASE o \in Restat
      <4>1. Reads(o) = Ins[o]
        BY <2>4 DEF Reads
      <4> QED
        BY <1>3, <1>6, <1>8, <1>12, <2>1, <2>4, <3>1, <3>3, <4>1 DEF Holds
    <3> QED
      BY <1>7, <3>2, <3>3
  <2> QED
    BY <2>2, <2>3, <2>4
<1>14. \A q \in Out \ {o} : Outdated(q) => Outdated(q)'
  BY <1>3, <1>8 DEF Outdated, Touched
<1>15. Lasting'
  <2> SUFFICES ASSUME NEW q \in Out
               PROVE  /\ q \notin Deps /\ mtime'[q] = 0 => Outdated(q)'
                      /\ q \notin Restat /\ buildLog'[q].mtime # 0 /\ mtime'[q] # 0
                           => mtime'[q] > buildLog'[q].mtime
    BY DEF Lasting
  <2>1. CASE q = o
    BY <1>3, <1>6, <1>7, <1>8, <2>1
  <2>2. CASE q # o
    BY <1>1, <1>3, <1>8, <1>14, <2>2 DEF Lasting
  <2> QED
    BY <2>1, <2>2
<1>16. Scanned'
  <2>1. want' \subseteq dirty' /\ want' \subseteq want /\ o \notin want' /\ want \subseteq Out
    BY <1>1, <1>2 DEF Scanned, BuildTyped
  <2>2. ASSUME NEW q \in Out, phase'[q] # "none"  PROVE q \in want' /\ Below(q)' \cap want' = {}
    <3>1. q # o /\ phase[q] # "none"
      BY <1>8, <2>2
    <3>2. q \notin W
      BY <1>9, <3>1
    <3>3. Below(q)' = Below(q)
      BY <1>3 DEF Below, Least
    <3> QED
      BY <1>1, <1>2, <2>1, <3>1, <3>2, <3>3 DEF Scanned
  <2>3. \A q \in want' : phase'[q] \in {"none", "started", "read"} => mtime'[q] = seen'[q]
    BY <1>1, <1>3, <1>8, <2>1 DEF Scanned
  <2>4. ASSUME NEW i \in dirty' \ want', NEW p \in want'  PROVE mtime'[i] > buildLog'[p].mtime
    <3>1. p \in want /\ p \in Out \ {o}
      BY <2>1
    <3>2. CASE i \notin want
      BY <1>1, <1>2, <1>3, <1>8, <3>1, <3>2 DEF Scanned
    <3>3. CASE i \in want
      <4>1. i = o /\ W = {}
        BY <1>2, <1>9, <3>3
      <4>2. mtime[o] > start[o] /\ start[o] > buildLog[p].mtime
        BY <1>6, <1>9, <3>1, <4>1
      <4>3. buildLog[p].mtime \in Nat
        BY <1>1, <3>1 DEF LogsTyped
      <4> QED
        BY <1>3, <1>5, <1>8, <3>1, <4>1, <4>2, <4>3
    <3> QED
      BY <3>2, <3>3
  <2>5. \A p \in want' \ Deps : Ins[p] \cap dirty' # {} \/ Outdated(p)'
    BY <1>9, <1>14, <2>1
  <2> QED
    BY <1>1, <1>3, <2>1, <2>2, <2>3, <2>4, <2>5 DEF Scanned
<1>17. Commands'
  <2> SUFFICES ASSUME NEW q \in Running'  PROVE Command(q)'
    BY DEF Commands
  <2>1. q \in Out /\ q # o
    BY <1>8 DEF Running
  <2>2. q \in Running /\ Command(q)
    BY <1>1, <1>8, <2>1 DEF Running, Commands
  <2>3. want' \subseteq want /\ \A p \in want' : buildLog'[p] = buildLog[p]
    BY <1>1, <1>2, <1>8 DEF BuildTyped
  <2> QED
    BY <1>1, <1>2, <1>3, <1>4, <1>8, <1>12, <2>1, <2>2, <2>3, CommandKept
<1>18. Recorded'
  <2> SUFFICES ASSUME o \in Deps, recording' = o
               PROVE  Recorded'
    BY <1>2 DEF Recorded
  <2>1. o \notin Restat
    OBVIOUS
  <2>2. RecordMtime(o) = start[o] /\ mtime[o] > start[o]
    BY <1>6, <2>1 DEF RecordMtime
  <2>3. Holds(o, got[o].content, got[o].nodes, start[o])'
    BY <1>2, <1>3, <1>6, <1>12 DEF Holds, Touched
  <2> QED
    BY <1>2, <1>3, <1>6, <1>8, <2>2, <2>3 DEF Recorded
<1> QED
  BY <1>2, <1>10, <1>11, <1>13, <1>15, <1>16, <1>17, <1>18 DEF RebuildInv, Idle

-----------------------------------------------------------------------------
(***************************************************************************)
(* The end of a build, one way or another.                                 *)
(***************************************************************************)
LEMMA GoneStep ==
    ASSUME RebuildInv, NEW how, Gone(how), DiskTyped', Present', Later, Written, logs' = logs
    PROVE  RebuildInv'
<1> USE RebuildAssumption DEF RebuildAssumption
<1>1. /\ pc' = "idle" /\ phase' = [o \in Out |-> "none"] /\ want' = {} /\ dirty' = {}
      /\ recording' = "none" /\ start' = [o \in Out |-> 0]
      /\ got' = [o \in Out |-> [nodes |-> {}, content |-> {}]]
      /\ seen' = [n \in Node |-> 0] /\ known' = [o \in Out |-> {}] /\ missing' = {}
  BY DEF Gone
<1>2. Typed /\ clock \in Nat /\ clock' \in Nat /\ clock <= clock' /\ 0 \in 0 .. clock'
  BY DEF RebuildInv, Typed, DiskTyped, Later
<1>3. BuildTyped'
  BY <1>1, <1>2 DEF BuildTyped
<1>4. ScanTyped'
  BY <1>1, <1>2 DEF ScanTyped
<1>5. Typed'
  BY <1>2, <1>3, <1>4, LogsTypedKept DEF Typed
<1> QED
  BY <1>1, <1>5, IdleStep

LEMMA EndBuildStep ==
    ASSUME RebuildInv, EndBuild
    PROVE  RebuildInv'
<1>1. Typed /\ Present /\ DiskTyped
  BY DEF RebuildInv, Typed
<1>2. disk' = disk /\ logs' = logs /\ edits' = edits
  BY DEF EndBuild, bounds
<1>3. PICK how : Gone(how)
  BY DEF EndBuild
<1>4. Later /\ Written
  BY <1>1, <1>2, NoFile
<1>5. DiskTyped' /\ Present'
  BY <1>1, <1>2 DEF DiskTyped, Present, disk, logs
<1> QED
  BY <1>2, <1>3, <1>4, <1>5, GoneStep

\* The commands end with the process; only their outputs are spoiled, or removed.
LEMMA SpoilStep ==
    ASSUME RebuildInv, pc # "idle", NEW T \in SUBSET Running, NEW R \in SUBSET Running,
           Spoil(T, R), NEW how, Gone(how), logs' = logs, edits' = edits
    PROVE  RebuildInv'
<1> USE RebuildAssumption DEF RebuildAssumption
<1>1. Typed /\ Present /\ Scanned
  BY DEF RebuildInv
<1>2. T \in SUBSET Out /\ R \in SUBSET Out
  BY DEF Running
<1>3. DiskTyped' /\ Later /\ Present' /\ \A n \in Node \ (T \cup R) : Kept(n)
  BY <1>1, <1>2, SpoilEffect
<1>4. ASSUME NEW o \in T \cup R  PROVE o \in Deps \/ Outdated(o)
  <2>1. o \in Out /\ phase[o] # "none"
    BY DEF Running
  <2> QED
    BY <1>1, <2>1, RunningOutdated
<1>5. Written
  <2> SUFFICES ASSUME NEW o \in Out  PROVE Kept(o) \/ o \in Deps \/ Outdated(o)
    BY DEF Written
  <2>1. o \in T \cup R \/ o \in Node \ (T \cup R)
    BY DEF Node
  <2> QED
    BY <1>3, <1>4, <2>1
<1> QED
  BY <1>3, <1>5, GoneStep

LEMMA InterruptStep ==
    ASSUME RebuildInv, Interrupt
    PROVE  RebuildInv'
<1> DEFINE changed == {o \in Running : phase[o] = "written" /\ mtime[o] # seen[o]}
           R(T, spared) == (T \cup changed \cup (Running \cap Deps)) \ spared
<1>1. PICK T \in SUBSET {o \in Running : phase[o] # "written"}, spared \in SUBSET Running :
        Spoil(T, R(T, spared))
  BY DEF Interrupt
<1>2. T \in SUBSET Running /\ R(T, spared) \in SUBSET Running
  OBVIOUS
<1>3. pc # "idle" /\ Gone("interrupted") /\ logs' = logs /\ edits' = edits
  BY DEF Interrupt
<1> HIDE DEF R
<1> QED
  BY <1>1, <1>2, <1>3, SpoilStep

LEMMA CrashStep ==
    ASSUME RebuildInv, Crash
    PROVE  RebuildInv'
<1>1. PICK T \in SUBSET {o \in Running : phase[o] # "written"} : Spoil(T, {})
  BY DEF Crash
<1>2. T \in SUBSET Running /\ {} \in SUBSET Running
  OBVIOUS
<1>3. pc # "idle" /\ Gone("crashed") /\ logs' = logs /\ edits' = edits
  BY DEF Crash
<1> QED
  BY <1>1, <1>2, <1>3, SpoilStep

LEMMA StutterStep ==
    ASSUME RebuildInv, UNCHANGED vars
    PROVE  RebuildInv'
<1>1. /\ clock' = clock /\ version' = version /\ command' = command /\ mtime' = mtime
      /\ content' = content /\ buildLog' = buildLog /\ depsLog' = depsLog
  BY DEF vars, disk, logs
<1>2. /\ pc' = pc /\ seen' = seen /\ known' = known /\ missing' = missing /\ dirty' = dirty
      /\ want' = want /\ phase' = phase /\ start' = start /\ got' = got
      /\ recording' = recording /\ edits' = edits
  BY DEF vars, scan, build, bounds
<1>3. \A o : /\ Product(o, content)' = Product(o, content) /\ Reads(o)' = Reads(o)
             /\ Inputs(o)' = Inputs(o) /\ Below(o)' = Below(o) /\ Outdated(o)' = Outdated(o)
  BY <1>1, <1>2 DEF Product, Reads, Inputs, Below, Least, Outdated, Touched
<1>4. (Typed /\ Present /\ Lasting /\ Idle)'
  BY <1>1, <1>2, <1>3 DEF RebuildInv, Typed, DiskTyped, LogsTyped, ScanTyped, BuildTyped, Present,
                          Lasting, Idle
<1>5. EntriesRight'
  BY <1>1, <1>3 DEF RebuildInv, EntriesRight, Believed, Holds, Touched
<1>6. ASSUME pc # "idle"  PROVE (Scanned /\ Recorded)'
  BY <1>1, <1>2, <1>3, <1>6 DEF RebuildInv, Scanned, Recorded, Holds, Touched
<1>7. ASSUME pc # "idle"  PROVE Commands'
  BY <1>1, <1>2, <1>3, <1>7 DEF RebuildInv, Commands, Running, Command, Holds, Touched
<1> QED
  BY <1>2, <1>4, <1>5, <1>6, <1>7 DEF RebuildInv

-----------------------------------------------------------------------------
(***************************************************************************)
(* The theorems.  RaceRestat and GoesBack are the two things the user may  *)
(* do that the times do not show.                                          *)
(***************************************************************************)
LEMMA StepKeepsInv ==
    ASSUME RaceRestat = FALSE, GoesBack = FALSE, RebuildInv, [Next]_vars
    PROVE  RebuildInv'
<1>1. CASE StartBuild \/ RecordDeps \/ EndBuild \/ Interrupt \/ Crash
  BY <1>1, StartBuildStep, RecordDepsStep, EndBuildStep, InterruptStep, CrashStep
<1>2. CASE \E s \in Source : EditSource(s)
  BY <1>2, EditSourceStep
<1>3. ASSUME NEW o \in Out,
             \/ EditCommand(o) \/ RemoveOutput(o)
             \/ StartCommand(o) \/ CommandReads(o) \/ CommandWrites(o)
             \/ FinishCommand(o) \/ CommandFails(o)
      PROVE  RebuildInv'
  BY <1>3, EditCommandStep, RemoveOutputStep, StartCommandStep, CommandReadsStep,
     CommandWritesStep, FinishCommandStep, CommandFailsStep
<1>4. CASE UNCHANGED vars
  BY <1>4, StutterStep
<1> QED
  BY <1>1, <1>2, <1>3, <1>4 DEF Next

\* The invariant holds always (Builder, DependencyScan).
THEOREM AlwaysRebuildInv ==
    ASSUME RaceRestat = FALSE, GoesBack = FALSE
    PROVE  Spec => []RebuildInv
<1>1. Init => RebuildInv
  BY InitInv
<1>2. RebuildInv /\ [Next]_vars => RebuildInv'
  BY StepKeepsInv
<1> QED
  BY <1>1, <1>2, PTL DEF Spec

THEOREM RebuildTypes ==
    ASSUME RaceRestat = FALSE, GoesBack = FALSE
    PROVE  Spec => []TypeOK
<1>1. RebuildInv => TypeOK
  BY TypedImpliesTypeOK DEF RebuildInv
<1> QED
  BY <1>1, AlwaysRebuildInv, PTL

\* Whatever was edited, failed, was interrupted or crashed, an output the next scan
\* leaves alone is what its command would make of the files as they are.
THEOREM NeverStaleClean ==
    ASSUME RaceRestat = FALSE, GoesBack = FALSE
    PROVE  Spec => []NoStaleClean
<1>1. RebuildInv => NoStaleClean
  BY InvImpliesNoStaleClean
<1> QED
  BY <1>1, AlwaysRebuildInv, PTL

-----------------------------------------------------------------------------
(***************************************************************************)
(* One build is enough.  While nothing is edited, an output that is not    *)
(* wanted any more is up to date, and a command that runs finds all its    *)
(* inputs made, the discovered ones too: Covered says that they have to be *)
(* declared, at least as order-only inputs, when they are made.            *)
(***************************************************************************)
\* The declared inputs of o, near or far.
Declared(o) ==
    LET in(p) == Ins[p] \cup OrderOnly[p]
    IN  Least(Node, LAMBDA S : in(o) \cup UNION {in(p) : p \in S \cap Out})

\* What a source may include is itself a source, or made before the edge runs.
Covered ==
    \A o \in Deps : \A s \in Ins[o] \cap Source : \A v \in 0 .. MaxEdits :
      Included[s][v] \cap Out \subseteq Declared(o)

\* The next scan would leave o alone, if it left its inputs alone.
UpToDate(o) ==
    /\ o \in Deps => depsLog[o].mtime # 0 /\ mtime[o] <= depsLog[o].mtime
    /\ ~OutputDirty(o, mtime, Inputs(o))

\* What o reads is made, and was before o started.
Ready(o) ==
    /\ Reads(o) \cap want = {}
    /\ start[o] > 0 /\ \A i \in Reads(o) : mtime[i] <= start[o]

Built(o) == UpToDate(o) /\ Inputs(o) \cap want = {}

HalfRecorded(o) == Ready(o) /\ got[o].nodes = Reads(o)

Informed(o) == Ready(o) /\ (phase[o] # "started" => got[o].nodes = Reads(o))

\* The discovered inputs the plan knows are those of the deps log.
Loaded ==
    \A p \in (want \cap Deps) \ missing :
      depsLog[p].mtime # 0 /\ seen[p] <= depsLog[p].mtime /\ known[p] = depsLog[p].nodes

\* Where nothing was edited since the scan.
Undisturbed ==
    /\ \A n \in Node \ dirty : mtime[n] = seen[n]
    /\ \A o \in Out \ want : IF o = recording THEN HalfRecorded(o) ELSE Built(o)
    /\ \A o \in Running : Informed(o)

QuietInv ==
    /\ pc # "idle" => result = "none" /\ Loaded /\ (quiet => Undisturbed)
    /\ result = "ok" /\ quiet => pc = "idle" /\ \A o \in Out : UpToDate(o)

-----------------------------------------------------------------------------
LEMMA InvImpliesBuildSettles ==
    ASSUME RebuildInv, QuietInv
    PROVE  BuildSettles
<1> USE RebuildAssumption DEF RebuildAssumption
<1> SUFFICES ASSUME result = "ok", quiet
             PROVE  /\ \A o \in Out : content[o] = Product(o, content)
                    /\ ScanDirty(mtime) = {}
  BY DEF BuildSettles, SuccessIsCurrent, Converges
<1>1. pc = "idle" /\ \A o \in Out : UpToDate(o)
  BY DEF QuietInv
<1>2. ScanDirty(mtime) = {}
  <2> DEFINE inputs(p) == Ins[p] \cup DepsKnown(mtime)[p]
             F(S) == {p \in Out : \/ p \in DepsLost(mtime)
                                  \/ inputs(p) \cap S # {}
                                  \/ OutputDirty(p, mtime, inputs(p))}
             K == {C \in SUBSET Out : F(C) \cap Out \subseteq C}
  <2>1. ScanDirty(mtime) = Out \ UNION {Out \ S : S \in K}
    BY DEF ScanDirty, Least
  <2>2. ASSUME NEW p \in Out  PROVE p \notin F({})
    <3>1. UpToDate(p)
      BY <1>1
    <3>2. p \in Deps => mtime[p] \in Nat /\ depsLog[p].mtime \in Nat
      BY DEF RebuildInv, Typed, DiskTyped, LogsTyped, Node
    <3>3. p \notin DepsLost(mtime)
      BY <3>1, <3>2 DEF UpToDate, DepsLost
    <3>4. inputs(p) = Inputs(p)
      BY <3>3 DEF DepsKnown, Inputs
    <3> QED
      BY <3>1, <3>3, <3>4 DEF UpToDate
  <2>3. {} \in K
    BY <2>2
  <2> HIDE DEF K
  <2> QED
    BY <2>1, <2>3, BelowClosed
<1>3. NoStaleClean
  BY InvImpliesNoStaleClean
<1> QED
  BY <1>1, <1>2, <1>3 DEF NoStaleClean

-----------------------------------------------------------------------------
LEMMA UpToDateKept ==
    ASSUME NEW o \in Out, UpToDate(o), command' = command,
           buildLog'[o] = buildLog[o], depsLog'[o] = depsLog[o],
           mtime'[o] = mtime[o], \A i \in Inputs(o) : mtime'[i] = mtime[i]
    PROVE  UpToDate(o)' /\ Inputs(o)' = Inputs(o)
<1>1. Inputs(o)' = Inputs(o)
  BY DEF Inputs
<1>2. OutputDirty(o, mtime, Inputs(o))' = OutputDirty(o, mtime, Inputs(o))
  BY <1>1 DEF OutputDirty
<1> QED
  BY <1>1, <1>2 DEF UpToDate

LEMMA ReadyKept ==
    ASSUME Typed, NEW o \in Out, Ready(o), command' = command, version' = version,
           start'[o] = start[o], want' \subseteq want, \A n \in Node \ want : mtime'[n] = mtime[n]
    PROVE  Ready(o)' /\ Reads(o)' = Reads(o) /\ Reads(o) \subseteq Node
<1> USE RebuildAssumption DEF RebuildAssumption
<1>1. Reads(o)' = Reads(o)
  BY DEF Reads
<1>2. Reads(o) \subseteq Node
  <2>1. \A s \in Source : Included[s][version[s]] \subseteq Node
    BY DEF Typed, DiskTyped
  <2> QED
    BY <2>1 DEF Reads
<1>3. \A i \in Reads(o) : mtime'[i] = mtime[i]
  BY <1>2 DEF Ready
<1> QED
  BY <1>1, <1>2, <1>3 DEF Ready

\* What o may read is below it.
LEMMA DeclaredBelow ==
    ASSUME NEW o
    PROVE  Declared(o) \subseteq Below(o)
<1> DEFINE in1(p) == Ins[p] \cup OrderOnly[p]
           F1(S) == in1(o) \cup UNION {in1(p) : p \in S \cap Out}
           K1 == {C \in SUBSET Node : F1(C) \cap Node \subseteq C}
           in(p) == Ins[p] \cup OrderOnly[p] \cup known[p]
           F(S) == in(o) \cup UNION {in(p) : p \in S \cap Out}
           K == {C \in SUBSET Node : F(C) \cap Node \subseteq C}
<1>1. Declared(o) = Node \ UNION {Node \ S : S \in K1}
  BY DEF Declared, Least
<1>2. Below(o) = Node \ UNION {Node \ S : S \in K}
  BY DEF Below, Least
<1>3. ASSUME NEW S \in K  PROVE S \in K1
  <2>1. \A p : in1(p) \subseteq in(p)
    OBVIOUS
  <2>2. F1(S) \subseteq F(S)
    BY <2>1
  <2> QED
    BY <2>2
<1> HIDE DEF K, K1
<1>4. ASSUME NEW S \in K  PROVE Declared(o) \subseteq S
  BY <1>1, <1>3, <1>4, BelowClosed
<1>5. Declared(o) \subseteq Node
  BY <1>1
<1> QED
  BY <1>2, <1>4, <1>5, InLeast

LEMMA ReadsMade ==
    ASSUME Covered, Typed, NEW o \in Out, Below(o) \cap want = {}
    PROVE  Reads(o) \cap want = {}
<1> USE RebuildAssumption DEF RebuildAssumption
<1>1. Ins[o] \cap want = {} /\ Declared(o) \cap want = {}
  BY BelowHas, DeclaredBelow
<1>2. want \subseteq Out /\ \A s \in Source : version[s] \in 0 .. MaxEdits
  BY DEF Typed, DiskTyped, BuildTyped
<1>3. o \in Deps => \A s \in Ins[o] \cap Source : Included[s][version[s]] \cap want = {}
  BY <1>1, <1>2 DEF Covered
<1> QED
  BY <1>1, <1>3 DEF Reads

-----------------------------------------------------------------------------
(***************************************************************************)
(* The steps.                                                              *)
(***************************************************************************)
LEMMA LoadedKept ==
    ASSUME Loaded, want' \subseteq want, scan' = scan,
           \A p \in want' \cap Deps : depsLog'[p] = depsLog[p]
    PROVE  Loaded'
  BY DEF Loaded, scan

\* A step of a command, which writes at most outputs that are wanted.
LEMMA QuietStep ==
    ASSUME RebuildInv, QuietInv, pc # "idle", command' = command, version' = version,
           logs' = logs, scan' = scan, pc' = pc, dirty' = dirty, want' = want,
           recording' = recording, result' = result, quiet' = quiet,
           \A n \in Node \ want : mtime'[n] = mtime[n],
           \A o \in Out \ want : start'[o] = start[o] /\ got'[o] = got[o],
           quiet => \A o \in Running' : Informed(o)'
    PROVE  QuietInv'
<1> USE RebuildAssumption DEF RebuildAssumption
<1>1. Typed /\ Scanned
  BY DEF RebuildInv
<1>2. result' = "none" /\ Loaded'
  BY LoadedKept DEF QuietInv, logs
<1>3. ASSUME quiet  PROVE Undisturbed'
  <2>1. Undisturbed /\ buildLog' = buildLog /\ depsLog' = depsLog /\ seen' = seen
    BY <1>3 DEF QuietInv, logs, scan
  <2>2. \A n \in Node \ dirty' : mtime'[n] = seen'[n]
    BY <1>1, <2>1 DEF Undisturbed, Scanned
  <2>3. ASSUME NEW o \in Out \ want'  PROVE IF o = recording' THEN HalfRecorded(o)' ELSE Built(o)'
    <3>1. o \in Out \ want /\ o \in Node
      BY <2>3 DEF Node
    <3>2. CASE o = recording /\ HalfRecorded(o)
      <4>1. Ready(o)' /\ Reads(o)' = Reads(o)
        BY <1>1, <3>1, <3>2, ReadyKept DEF HalfRecorded
      <4> QED
        BY <3>1, <3>2, <4>1 DEF HalfRecorded
    <3>3. CASE o # recording /\ Built(o)
      <4>1. Inputs(o) \subseteq Node \ want
        BY <1>1, <3>1, <3>3 DEF Built, Inputs, Typed, LogsTyped
      <4>2. UpToDate(o)' /\ Inputs(o)' = Inputs(o)
        BY <2>1, <3>1, <3>3, <4>1, UpToDateKept DEF Built
      <4> QED
        BY <3>3, <4>2 DEF Built
    <3> QED
      BY <2>1, <3>1, <3>2, <3>3 DEF Undisturbed
  <2> QED
    BY <1>3, <2>2, <2>3 DEF Undisturbed
<1> QED
  BY <1>2, <1>3 DEF QuietInv

LEMMA QuietCommands ==
    ASSUME Covered, RebuildInv, QuietInv, NEW o \in Out,
           StartCommand(o) \/ CommandReads(o) \/ CommandWrites(o) \/ CommandFails(o)
    PROVE  QuietInv'
<1> USE RebuildAssumption DEF RebuildAssumption
<1>1. Typed /\ BuildTyped /\ DiskTyped /\ pc # "idle"
  BY DEF RebuildInv, Typed, Idle, StartCommand, CommandReads, CommandWrites, CommandFails
<1>2. Scanned /\ o \in want /\ o \in Node
  BY <1>1, RunningInputs DEF RebuildInv, StartCommand, CommandReads, CommandWrites, CommandFails, Node
<1>3. /\ command' = command /\ version' = version /\ logs' = logs /\ scan' = scan /\ pc' = pc
      /\ dirty' = dirty /\ want' = want /\ recording' = recording /\ result' = result /\ quiet' = quiet
  BY DEF StartCommand, CommandReads, CommandWrites, CommandFails, Spoil, bounds, disk
<1>4. \A n \in Node \ {o} : mtime'[n] = mtime[n]
  <2>1. ASSUME NEW T \in SUBSET {o}, Spoil(T, {})
        PROVE  \A n \in Node \ {o} : mtime'[n] = mtime[n]
    BY <2>1 DEF Spoil
  <2>2. CASE CommandFails(o)
    BY <2>1, <2>2 DEF CommandFails
  <2>3. CASE StartCommand(o) \/ CommandReads(o)
    BY <2>3 DEF StartCommand, CommandReads, disk
  <2>4. CASE CommandWrites(o)
    BY <1>1, <2>4 DEF CommandWrites, DiskTyped
  <2> QED
    BY <2>2, <2>3, <2>4
<1>5. \A q \in Out \ {o} : start'[q] = start[q] /\ got'[q] = got[q] /\ phase'[q] = phase[q]
  BY <1>1 DEF BuildTyped, StartCommand, CommandReads, CommandWrites, CommandFails
<1>6. ASSUME quiet, NEW q \in Running'  PROVE Informed(q)'
  <2>1. Undisturbed /\ q \in Out
    BY <1>1, <1>6 DEF QuietInv, Running
  <2>2. CASE q \in Running /\ start'[q] = start[q] /\ got'[q] = got[q]
             /\ (phase'[q] # "started" => phase[q] # "started")
    <3>1. Informed(q)
      BY <2>1, <2>2 DEF Undisturbed
    <3>2. Ready(q)' /\ Reads(q)' = Reads(q)
      BY <1>1, <1>2, <1>3, <1>4, <2>1, <2>2, <3>1, ReadyKept DEF Informed
    <3> QED
      BY <2>2, <3>1, <3>2 DEF Informed
  <2>3. CASE q # o
    <3>1. q \in Running
      BY <1>5, <2>1, <2>3 DEF Running
    <3> QED
      BY <1>5, <2>1, <2>2, <2>3, <3>1
  <2>4. CASE q = o /\ StartCommand(o)
    <3>1. phase'[o] = "started" /\ start'[o] = clock + 1
      BY <1>1, <2>4 DEF StartCommand, BuildTyped
    <3>2. Reads(o) \cap want = {}
      BY <1>1, <2>4, ReadsMade DEF StartCommand
    <3>3. Reads(o)' = Reads(o) /\ Reads(o) \subseteq Node
      <4>1. \A s \in Source : Included[s][version[s]] \subseteq Node
        BY <1>1 DEF DiskTyped
      <4> QED
        BY <1>3, <4>1 DEF Reads
    <3>4. \A i \in Reads(o) : mtime'[i] <= clock + 1
      BY <1>1, <2>4, <3>3 DEF StartCommand, DiskTyped
    <3>5. clock + 1 > 0
      BY <1>1 DEF DiskTyped
    <3> QED
      BY <1>3, <2>4, <3>1, <3>2, <3>3, <3>4, <3>5 DEF Informed, Ready
  <2>5. CASE q = o /\ CommandReads(o)
    <3>1. q \in Running /\ start'[q] = start[q] /\ got'[q].nodes = Reads(q)
      <4>1. q \in Running /\ start' = start
        BY <2>1, <2>5 DEF CommandReads, Running
      <4>2. got = [p \in Out |-> got[p]]
        BY <1>1 DEF BuildTyped
      <4>3. got'[o] = [nodes |-> Reads(o), content |-> Product(o, content)]
        BY <2>5, <4>2 DEF CommandReads
      <4> QED
        BY <2>5, <4>1, <4>3
    <3>2. Informed(q)
      BY <2>1, <3>1 DEF Undisturbed
    <3>3. Ready(q)' /\ Reads(q)' = Reads(q)
      BY <1>1, <1>2, <1>3, <1>4, <2>1, <3>1, <3>2, ReadyKept DEF Informed
    <3> QED
      BY <3>1, <3>3 DEF Informed
  <2>6. CASE q = o /\ CommandWrites(o)
    <3>1. q \in Running /\ phase[q] # "started" /\ start' = start /\ got' = got
      BY <2>1, <2>6 DEF CommandWrites, Running
    <3> QED
      BY <2>2, <3>1
  <2>7. CASE q = o /\ CommandFails(o)
    <3>1. phase'[o] = "failed"
      BY <1>1, <2>7 DEF CommandFails, BuildTyped
    <3> QED
      BY <1>6, <2>7, <3>1 DEF Running
  <2> QED
    BY <2>3, <2>4, <2>5, <2>6, <2>7
<1>7. /\ \A n \in Node \ want : mtime'[n] = mtime[n]
      /\ \A q \in Out \ want : start'[q] = start[q] /\ got'[q] = got[q]
  BY <1>2, <1>4, <1>5
<1> QED
  BY <1>1, <1>3, <1>6, <1>7, QuietStep

LEMMA QuietStart ==
    ASSUME RebuildInv, StartBuild
    PROVE  QuietInv'
<1> USE RebuildAssumption DEF RebuildAssumption
<1>1. Typed /\ Idle /\ mtime \in [Node -> Nat] /\ \A o \in Out : depsLog[o].mtime \in Nat
  BY DEF RebuildInv, Typed, DiskTyped, LogsTyped
<1>2. /\ pc = "idle" /\ pc' = "building" /\ recording' = recording /\ result' = "none" /\ quiet' = TRUE
      /\ seen' = mtime /\ known' = DepsKnown(mtime) /\ missing' = DepsLost(mtime)
      /\ want' = ScanDirty(mtime) /\ dirty' = ScanDirty(mtime) /\ phase' = phase
      /\ mtime' = mtime /\ buildLog' = buildLog /\ depsLog' = depsLog /\ command' = command
  BY DEF StartBuild, disk, logs
<1>3. Loaded'
  <2> SUFFICES ASSUME NEW p \in Deps \ DepsLost(mtime)
               PROVE  /\ depsLog[p].mtime # 0 /\ mtime[p] <= depsLog[p].mtime
                      /\ DepsKnown(mtime)[p] = depsLog[p].nodes
    BY <1>2 DEF Loaded
  <2>1. p \in Out /\ p \in Node
    BY DEF Node
  <2> QED
    BY <1>1, <2>1 DEF DepsLost, DepsKnown
<1>4. ASSUME NEW o \in Out \ ScanDirty(mtime)  PROVE Built(o)'
  <2> DEFINE inputs == Ins[o] \cup DepsKnown(mtime)[o]
  <2>1. /\ o \notin DepsLost(mtime)
        /\ inputs \cap ScanDirty(mtime) = {}
        /\ ~OutputDirty(o, mtime, inputs)
    BY ScanClosed
  <2>2. inputs = Inputs(o)
    BY <2>1 DEF DepsKnown, Inputs
  <2>3. o \in Deps => depsLog[o].mtime # 0 /\ mtime[o] <= depsLog[o].mtime
    BY <1>1, <2>1 DEF DepsLost, Node
  <2>4. UpToDate(o)
    BY <2>1, <2>2, <2>3 DEF UpToDate
  <2>5. UpToDate(o)' /\ Inputs(o)' = Inputs(o)
    BY <1>2, <2>4, UpToDateKept
  <2> QED
    BY <1>2, <2>1, <2>2, <2>5 DEF Built
<1>5. Running' = {}
  BY <1>1, <1>2 DEF Idle, Running
<1>6. recording' = "none"
  BY <1>1, <1>2 DEF Typed, BuildTyped
<1>7. Undisturbed'
  BY <1>2, <1>4, <1>5, <1>6 DEF Undisturbed
<1> QED
  BY <1>2, <1>3, <1>7 DEF QuietInv

LEMMA QuietRecord ==
    ASSUME RebuildInv, QuietInv, RecordDeps
    PROVE  QuietInv'
<1> USE RebuildAssumption DEF RebuildAssumption
<1>1. Typed /\ Scanned /\ Recorded /\ pc = "recording" /\ LogsTyped
  BY DEF RebuildInv, RecordDeps, Typed
<1>2. PICK r \in Deps : r = recording
  BY <1>1 DEF Recorded
<1>3. /\ r \in Out /\ r \in Node /\ r \notin want
      /\ buildLog[r] = [mtime |-> start[r], hash |-> command[r]]
      /\ mtime[r] > start[r] /\ Ins[r] \subseteq got[r].nodes
  BY <1>1, <1>2 DEF Recorded, Node
<1>4. /\ pc' = "building" /\ recording' = "none" /\ result' = result /\ quiet' = quiet /\ scan' = scan
      /\ command' = command /\ version' = version /\ mtime' = mtime /\ buildLog' = buildLog
      /\ dirty' = dirty /\ want' = want /\ phase' = phase /\ start' = start /\ got' = got
      /\ depsLog' = [depsLog EXCEPT ![r] = [mtime |-> mtime[r], nodes |-> got[r].nodes]]
  BY <1>2 DEF RecordDeps, disk, bounds
<1>5. /\ depsLog'[r].mtime = mtime[r] /\ depsLog'[r].nodes = got[r].nodes
      /\ \A o \in Out \ {r} : depsLog'[o] = depsLog[o]
  BY <1>1, <1>3, <1>4 DEF LogsTyped
<1>6. result' = "none" /\ Loaded'
  BY <1>1, <1>3, <1>4, <1>5, LoadedKept DEF QuietInv
<1>7. ASSUME quiet  PROVE Undisturbed'
  <2>1. Undisturbed
    BY <1>1, <1>7 DEF QuietInv
  <2>2. ASSUME NEW o \in Running'  PROVE Informed(o)'
    <3>1. o \in Out /\ o \in Running /\ Informed(o)
      BY <1>4, <2>1 DEF Running, Undisturbed
    <3>2. Ready(o)' /\ Reads(o)' = Reads(o)
      BY <1>1, <1>4, <3>1, ReadyKept DEF Informed
    <3> QED
      BY <1>4, <3>1, <3>2 DEF Informed
  <2>3. ASSUME NEW o \in Out \ want, o # r  PROVE Built(o)'
    <3>1. Built(o)
      BY <1>2, <2>1, <2>3 DEF Undisturbed
    <3>2. UpToDate(o)' /\ Inputs(o)' = Inputs(o)
      BY <1>4, <1>5, <2>3, <3>1, UpToDateKept DEF Built
    <3> QED
      BY <1>4, <3>1, <3>2 DEF Built
  <2>4. Built(r)'
    <3>1. mtime[r] \in Nat /\ start[r] \in Nat /\ mtime \in [Node -> Nat]
      BY <1>3 DEF RebuildInv, Typed, DiskTyped, BuildTyped
    <3>2. HalfRecorded(r)
      BY <1>2, <1>3, <2>1 DEF Undisturbed
    <3>3. Ready(r) /\ got[r].nodes = Reads(r) /\ Reads(r) \subseteq Node
      BY <1>1, <1>3, <1>4, <3>2, ReadyKept DEF HalfRecorded
    <3>4. Inputs(r)' = Reads(r)
      BY <1>2, <1>3, <1>5, <3>3 DEF Inputs
    <3>5. /\ mtime'[r] # 0 /\ buildLog'[r].mtime = start[r] /\ start[r] # 0
          /\ buildLog'[r].hash = command'[r]
      BY <1>3, <1>4, <3>1, <3>3 DEF Ready
    <3>6. \A i \in Reads(r) : ~(start[r] < mtime[i]) /\ ~(mtime[r] < mtime[i])
      BY <1>3, <3>1, <3>3 DEF Ready
    <3>7. ~OutputDirty(r, mtime, Inputs(r))'
      BY <1>4, <3>4, <3>5, <3>6 DEF OutputDirty
    <3>8. depsLog'[r].mtime # 0 /\ mtime'[r] <= depsLog'[r].mtime
      BY <1>3, <1>4, <1>5, <3>1
    <3> QED
      BY <1>4, <3>3, <3>4, <3>7, <3>8 DEF Built, UpToDate, Ready
  <2>5. \A n \in Node \ dirty' : mtime'[n] = seen'[n]
    BY <1>4, <2>1 DEF Undisturbed, scan
  <2> QED
    BY <1>4, <2>2, <2>3, <2>4, <2>5 DEF Undisturbed
<1> QED
  BY <1>4, <1>6, <1>7 DEF QuietInv

LEMMA QuietFinish ==
    ASSUME RebuildInv, QuietInv, NEW o \in Out, FinishCommand(o)
    PROVE  QuietInv'
<1> USE RebuildAssumption DEF RebuildAssumption
<1> DEFINE W == Withdrawn(o)
<1>1. /\ Typed /\ Scanned /\ Lasting /\ Commands /\ LogsTyped /\ BuildTyped /\ ScanTyped
      /\ pc = "building" /\ mtime \in [Node -> Nat] /\ seen \in [Node -> Nat]
  BY DEF RebuildInv, FinishCommand, Typed, DiskTyped, ScanTyped
<1>2. /\ phase[o] = "written"
      /\ want' = want \ ({o} \cup W) /\ dirty' = dirty \ W
      /\ buildLog' = [buildLog EXCEPT ![o] = [mtime |-> RecordMtime(o), hash |-> command[o]]]
      /\ phase' = [phase EXCEPT ![o] = "none"]
      /\ recording' = (IF o \in Deps THEN o ELSE recording)
      /\ pc' # "idle" /\ result' = result /\ quiet' = quiet /\ scan' = scan /\ depsLog' = depsLog
      /\ command' = command /\ version' = version /\ mtime' = mtime
      /\ start' = start /\ got' = got
  BY DEF FinishCommand, Withdrawn, disk, bounds
<1>3. /\ buildLog'[o].mtime = RecordMtime(o) /\ buildLog'[o].hash = command[o]
      /\ \A q \in Out \ {o} : buildLog'[q] = buildLog[q] /\ phase'[q] = phase[q]
      /\ phase'[o] = "none" /\ recording = "none"
  BY <1>1, <1>2 DEF LogsTyped, BuildTyped
<1>4. /\ o \in Running /\ o \in Node /\ o \in want /\ Ins[o] \cap want = {} /\ Command(o)
      /\ mtime[o] \in Nat /\ start[o] \in Nat
  <2>1. o \in Running /\ o \in Node /\ Command(o)
    BY <1>1, <1>2 DEF Running, Node, Commands
  <2>2. o \in want /\ Ins[o] \cap want = {}
    BY <1>1, <1>2, RunningInputs
  <2> QED
    BY <1>1, <2>1, <2>2 DEF BuildTyped
<1>5. /\ \A q \in W : q \in want /\ q \in Node /\ mtime[q] = seen[q]
      /\ W = {} \/ W = {o} \cup Cleaned(o)
      /\ want' \subseteq want
  <2>1. ASSUME NEW q \in W  PROVE q \in want /\ q \in Node /\ mtime[q] = seen[q]
    <3>1. CASE q = o
      BY <1>4, <2>1, <3>1 DEF Withdrawn
    <3>2. CASE q # o
      <4>1. q \in Cleaned(o)
        BY <2>1, <3>2 DEF Withdrawn
      <4>2. q \in want /\ phase[q] = "none"
        BY <1>1, <1>2, <4>1, CleanedEffect
      <4>3. q \in Node
        BY <1>1, <4>2 DEF BuildTyped, Node
      <4> QED
        BY <1>1, <4>2, <4>3 DEF Scanned
    <3> QED
      BY <3>1, <3>2
  <2> QED
    BY <1>2, <2>1 DEF Withdrawn
<1> HIDE DEF W
<1>6. result' = "none" /\ Loaded'
  BY <1>1, <1>2, <1>5, LoadedKept DEF QuietInv
<1>7. ASSUME quiet  PROVE Undisturbed'
  <2>1. Undisturbed /\ Loaded
    BY <1>1, <1>7 DEF QuietInv
  <2>2. \A n \in Node \ dirty' : mtime'[n] = seen'[n]
    BY <1>2, <1>5, <2>1 DEF Undisturbed, scan
  <2>3. ASSUME NEW q \in Running'  PROVE Informed(q)'
    <3>1. q \in Out /\ q \in Running /\ phase'[q] = phase[q] /\ Informed(q)
      BY <1>3, <2>1 DEF Running, Undisturbed
    <3>2. Ready(q)' /\ Reads(q)' = Reads(q)
      BY <1>1, <1>2, <1>5, <3>1, ReadyKept DEF Informed
    <3> QED
      BY <1>2, <3>1, <3>2 DEF Informed
  <2>4. /\ Ready(o) /\ got[o].nodes = Reads(o) /\ Ready(o)' /\ Reads(o)' = Reads(o)
        /\ Reads(o) \subseteq Node
    <3>1. Ready(o) /\ got[o].nodes = Reads(o)
      BY <1>2, <1>4, <2>1 DEF Undisturbed, Informed
    <3> QED
      BY <1>1, <1>2, <1>5, <3>1, ReadyKept
  <2>5. ASSUME o \notin Deps  PROVE Built(o)'
    <3>1. Inputs(o)' = Ins[o] /\ Reads(o) = Ins[o]
      BY <2>5 DEF Inputs, Reads
    <3>2. /\ RecordMtime(o) \in Nat /\ start[o] <= RecordMtime(o) /\ start[o] > 0
          /\ \A i \in Ins[o] : mtime[i] \in Nat /\ mtime[i] <= start[o]
      BY <1>1, <1>4, <2>4, <3>1 DEF RecordMtime, Ready
    <3>3. \A i \in Ins[o] : ~(RecordMtime(o) < mtime[i])
      BY <3>2, <1>4
    <3>4. mtime[o] # 0 /\ (o \in Restat \/ mtime[o] > start[o])
      BY <1>2, <1>4 DEF Command
    <3>5. o \notin Restat => \A i \in Ins[o] : ~(mtime[o] < mtime[i])
      BY <1>4, <3>2, <3>4
    <3>6. RecordMtime(o) # 0
      BY <1>4, <3>2
    <3>7. ~OutputDirty(o, mtime, Inputs(o))'
      BY <1>2, <1>3, <3>1, <3>3, <3>4, <3>5, <3>6 DEF OutputDirty
    <3>8. Inputs(o)' \cap want' = {}
      BY <1>4, <1>5, <3>1
    <3> QED
      BY <2>5, <3>7, <3>8 DEF Built, UpToDate
  <2>6. ASSUME NEW q \in Cleaned(o), q # o, W = {o} \cup Cleaned(o)  PROVE Built(q)'
    <3> DEFINE in == Ins[q] \cup known[q]
    <3>1. /\ q \in Out /\ q \in Node /\ q \in want /\ q \notin missing
          /\ in \cap (dirty \ W) = {}
          /\ ~OutputDirty(q, seen, in)
      BY <2>6, CleanedOnly DEF Node
    <3>2. /\ in = Inputs(q) /\ in \subseteq Node
          /\ q \in Deps => depsLog[q].mtime # 0 /\ seen[q] <= depsLog[q].mtime
      <4>1. CASE q \in Deps
        <5>1. known[q] = depsLog[q].nodes /\ depsLog[q].mtime # 0 /\ seen[q] <= depsLog[q].mtime
          BY <2>1, <3>1, <4>1 DEF Loaded
        <5>2. Ins[q] \subseteq Node /\ known[q] \subseteq Node
          BY <1>1, <3>1 DEF ScanTyped
        <5> QED
          BY <4>1, <5>1, <5>2 DEF Inputs
      <4>2. CASE q \notin Deps
        <5>1. known[q] = {} /\ Ins[q] \subseteq Node
          BY <1>1, <3>1, <4>2 DEF Scanned
        <5> QED
          BY <4>2, <5>1 DEF Inputs
      <4> QED
        BY <4>1, <4>2
    <3>3. mtime[q] = seen[q] /\ \A i \in in : mtime[i] = seen[i]
      <4>1. mtime[q] = seen[q]
        BY <1>5, <2>6
      <4>2. ASSUME NEW i \in in  PROVE mtime[i] = seen[i]
        <5>1. i \in W \/ i \in Node \ dirty
          BY <3>1, <3>2
        <5> QED
          BY <1>5, <2>1, <5>1 DEF Undisturbed
      <4> QED
        BY <4>1, <4>2
    <3>4. OutputDirty(q, mtime, in) = OutputDirty(q, seen, in)
      BY <3>3 DEF OutputDirty
    <3>5. UpToDate(q)
      BY <3>1, <3>2, <3>3, <3>4 DEF UpToDate
    <3>6. UpToDate(q)' /\ Inputs(q)' = Inputs(q)
      BY <1>2, <1>3, <2>6, <3>1, <3>5, UpToDateKept
    <3>7. want \subseteq dirty
      BY <1>1 DEF Scanned
    <3>8. in \cap want' = {}
      BY <1>2, <3>1, <3>7
    <3> HIDE DEF in
    <3> QED
      BY <3>2, <3>6, <3>8 DEF Built
  <2>7. ASSUME NEW q \in Out \ want  PROVE Built(q)'
    <3>1. Built(q)
      BY <1>3, <2>1, <2>7 DEF Undisturbed
    <3>2. q # o
      BY <1>4, <2>7
    <3>3. UpToDate(q)' /\ Inputs(q)' = Inputs(q)
      BY <1>2, <1>3, <2>7, <3>1, <3>2, UpToDateKept DEF Built
    <3> QED
      BY <1>5, <3>1, <3>3 DEF Built
  <2>8. ASSUME NEW q \in Out \ want'
        PROVE  IF q = recording' THEN HalfRecorded(q)' ELSE Built(q)'
    <3>1. CASE q = o
      BY <1>2, <1>3, <2>4, <2>5, <3>1 DEF HalfRecorded
    <3>2. CASE q # o
      <4>1. q # recording'
        BY <1>2, <1>3, <3>2
      <4>2. q \in Out \ want \/ (q \in Cleaned(o) /\ W = {o} \cup Cleaned(o))
        BY <1>2, <1>5, <2>8, <3>2
      <4> QED
        BY <2>6, <2>7, <3>2, <4>1, <4>2
    <3> QED
      BY <3>1, <3>2
  <2> QED
    BY <2>2, <2>3, <2>8 DEF Undisturbed
<1> QED
  BY <1>2, <1>6, <1>7 DEF QuietInv

LEMMA QuietEnd ==
    ASSUME RebuildInv, QuietInv, EndBuild \/ Interrupt \/ Crash
    PROVE  QuietInv'
<1> USE RebuildAssumption DEF RebuildAssumption
<1>1. pc' = "idle" /\ (result' = "ok" => EndBuild /\ want = {})
  BY DEF EndBuild, Interrupt, Crash, Gone
<1>2. ASSUME EndBuild, want = {}, quiet'  PROVE \A o \in Out : UpToDate(o)'
  <2>1. /\ pc = "building" /\ quiet /\ command' = command /\ mtime' = mtime
        /\ buildLog' = buildLog /\ depsLog' = depsLog
    BY <1>2 DEF EndBuild, disk, logs, bounds
  <2>2. Undisturbed /\ recording = "none"
    BY <2>1 DEF QuietInv, RebuildInv, Typed, BuildTyped
  <2>3. ASSUME NEW o \in Out  PROVE UpToDate(o)
    BY <1>2, <2>2 DEF Undisturbed, Built
  <2> QED
    BY <2>1, <2>3, UpToDateKept
<1> QED
  BY <1>1, <1>2 DEF QuietInv

LEMMA QuietEdit ==
    ASSUME RebuildInv, QuietInv,
           \/ \E s \in Source : EditSource(s)
           \/ \E o \in Out : EditCommand(o) \/ RemoveOutput(o)
    PROVE  QuietInv'
<1>1. quiet' = FALSE /\ logs' = logs /\ scan' = scan /\ build' = build
  BY DEF EditSource, EditCommand, RemoveOutput
<1>2. pc' = pc /\ result' = result /\ want' = want /\ depsLog' = depsLog
  BY <1>1 DEF build, logs
<1>3. Loaded => Loaded'
  BY <1>1, <1>2, LoadedKept
<1> QED
  BY <1>1, <1>2, <1>3 DEF QuietInv

LEMMA QuietStutter ==
    ASSUME RebuildInv, QuietInv, UNCHANGED vars
    PROVE  QuietInv'
<1> USE RebuildAssumption DEF RebuildAssumption
<1>1. /\ version' = version /\ command' = command /\ mtime' = mtime
      /\ buildLog' = buildLog /\ depsLog' = depsLog /\ pc' = pc /\ scan' = scan
      /\ seen' = seen /\ dirty' = dirty /\ want' = want /\ phase' = phase /\ start' = start
      /\ got' = got /\ recording' = recording /\ quiet' = quiet /\ result' = result
  BY DEF vars, disk, logs, scan, build, bounds
<1>2. \A o : /\ Inputs(o)' = Inputs(o) /\ Reads(o)' = Reads(o)
  BY <1>1 DEF Inputs, Reads
<1>3. \A o : /\ OutputDirty(o, mtime, Inputs(o))' = OutputDirty(o, mtime, Inputs(o))
  BY <1>1, <1>2 DEF OutputDirty
<1>4. \A o : /\ Ready(o)' = Ready(o) /\ UpToDate(o)' = UpToDate(o)
  BY <1>1, <1>2, <1>3 DEF Ready, UpToDate
<1>5. Loaded => Loaded'
  BY <1>1, LoadedKept
<1>6. \A o : /\ Built(o)' = Built(o) /\ HalfRecorded(o)' = HalfRecorded(o)
            /\ Informed(o)' = Informed(o)
  BY <1>1, <1>2, <1>4 DEF Built, HalfRecorded, Informed
<1>7. Running' = Running
  BY <1>1 DEF Running
<1>8. Undisturbed => Undisturbed'
  BY <1>1, <1>6, <1>7 DEF Undisturbed
<1> QED
  BY <1>1, <1>4, <1>5, <1>8 DEF QuietInv

LEMMA StepKeepsQuiet ==
    ASSUME Covered, RebuildInv, QuietInv, [Next]_vars
    PROVE  QuietInv'
<1>1. CASE StartBuild \/ RecordDeps \/ EndBuild \/ Interrupt \/ Crash
  BY <1>1, QuietStart, QuietRecord, QuietEnd
<1>2. CASE \E s \in Source : EditSource(s)
  BY <1>2, QuietEdit
<1>3. ASSUME NEW o \in Out,
             \/ EditCommand(o) \/ RemoveOutput(o)
             \/ StartCommand(o) \/ CommandReads(o) \/ CommandWrites(o)
             \/ FinishCommand(o) \/ CommandFails(o)
      PROVE  QuietInv'
  BY <1>3, QuietEdit, QuietCommands, QuietFinish
<1>4. CASE UNCHANGED vars
  BY <1>4, QuietStutter
<1> QED
  BY <1>1, <1>2, <1>3, <1>4 DEF Next

\* After a build that returned success, and in which nothing was edited, every output
\* is right and another build has nothing to do, if what is included is declared.
THEOREM OneBuildSettles ==
    ASSUME RaceRestat = FALSE, GoesBack = FALSE, Covered
    PROVE  Spec => []BuildSettles
<1>1. Init => QuietInv
  BY DEF Init, QuietInv
<1>2. RebuildInv /\ QuietInv /\ [Next]_vars => QuietInv'
  BY StepKeepsQuiet
<1>3. RebuildInv /\ QuietInv => BuildSettles
  BY InvImpliesBuildSettles
<1> QED
  BY <1>1, <1>2, <1>3, AlwaysRebuildInv, PTL DEF Spec

=============================================================================
