------------------------------- MODULE DepsLog -------------------------------
(***************************************************************************)
(* The deps log (deps_log.cc): the file .ninja_deps, and the DepsLog of    *)
(* each ninja process that has loaded it.  The file is a header and        *)
(* records that are only appended: a path record gives a node the next id, *)
(* a deps record names its nodes by their ids.                             *)
(*                                                                         *)
(* A process may crash between any two writes, and in one.  Two processes  *)
(* may build at once, which Load finds by the ids in the path records, but *)
(* three cases of it corrupt the log and are left out: recompaction, and   *)
(* truncation by Load, while another process still has the ids of the old  *)
(* file, and a record torn by a crash while another process appends.  Nor  *)
(* do two processes record the same output at the same time.               *)
(* A record in the model stands for what it has on disk; its time is the   *)
(* number of records given for its output, so that no two are alike.       *)
(***************************************************************************)
EXTENDS Integers, Sequences, FiniteSets, SequencesExt

CONSTANTS
    Process,    \* ninja processes
    Node,       \* files
    Live,       \* outputs of edges that have deps: IsDepsEntryLiveFor
    DepsOf,     \* what a command may report for an output: [Node -> sets of sequences]
    MaxRecords, \* bound on the records given for an output
    MaxStarts   \* bound on how often ninja starts

\* What the code takes for granted of them.
DepsAssumption ==
    /\ Live \subseteq Node
    /\ DepsOf \in [Live -> SUBSET Seq(Node)]
    /\ MaxRecords \in Nat /\ MaxStarts \in Nat

VARIABLES
    file,       \* .ninja_deps: its records, or Absent
    temp,       \* .ninja_deps.recompact
    pc,         \* each process: "off", "idle", "record", "compact", "unlinked"
    nodes,      \* nodes_ of each process: the node with id i is the (i+1)th
    deps,       \* deps_: a function on the ids that have deps
    opened,     \* file_ is open (it is opened by the first write)
    todo,       \* the arguments of the RecordDeps a process is in
    alone,      \* history: no other process was there since this one started
    wrote,      \* history: outputs a process has recorded since it started
    given,      \* history: the records given for each output
    held,       \* history: which of them the next build would load
    starts

logVars  == <<file, temp>>
procVars == <<pc, nodes, deps, opened, todo>>
histVars == <<alone, wrote, given, starts>>
vars     == <<logVars, procVars, histVars, held>>

Absent == <<>>  \* no file, or an empty one: ninja makes no difference
NoRecord == [mtime |-> 0, deps |-> <<>>]
Nothing == [out |-> "none", rec |-> NoRecord]

Header       == [kind |-> "header"]
PathRec(n, i)     == [kind |-> "path", node |-> n, id |-> i]
DepsRec(o, m, is) == [kind |-> "deps", out |-> o, mtime |-> m, ids |-> is]
Torn         == [kind |-> "torn"]

Init ==
    /\ file = Absent /\ temp = Absent
    /\ pc = [p \in Process |-> "off"]
    /\ nodes = [p \in Process |-> <<>>] /\ deps = [p \in Process |-> <<>>]
    /\ opened = [p \in Process |-> FALSE]
    /\ todo = [p \in Process |-> Nothing]
    /\ alone = [p \in Process |-> FALSE] /\ wrote = [p \in Process |-> {}]
    /\ given = [n \in Node |-> <<>>] /\ starts = 0
    /\ held = [n \in Node |-> 0]

Others(p) == {q \in Process \ {p} : pc[q] # "off"}

\* The id of a node: its index in nodes_, or -1.
Id(ns, n) == IF \E i \in DOMAIN ns : ns[i] = n
             THEN (CHOOSE i \in DOMAIN ns : ns[i] = n) - 1
             ELSE -1

\* UpdateDeps.
UpdateDeps(ds, id, d) == [i \in DOMAIN ds \cup {id} |-> IF i = id THEN d ELSE ds[i]]

\* GetDeps: none for a node without an id, or without deps.
GetDeps(ns, ds, n) == IF Id(ns, n) \in DOMAIN ds THEN ds[Id(ns, n)] ELSE NoRecord

-----------------------------------------------------------------------------
(***************************************************************************)
(* Load.                                                                   *)
(***************************************************************************)
\* Whether the header and the version are there.
ValidHeader(f) == f # Absent /\ f[1] = Header

\* A mutant: the id in a path record is not compared with the next id.
ReadableAnyId(f, i) == f[i].kind \in {"deps", "path"}

\* The path records, and the id that the node of the next one gets when Load has
\* come to record i: the size of nodes_.
Paths(recs) == {i \in DOMAIN recs : recs[i].kind = "path"}
NextId(recs, i) == Cardinality({j \in Paths(recs) : j < i})

\* Whether Load takes a record: it was not cut short, and a path record has the
\* id its node is to get.
Readable(f, i) ==
    \/ f[i].kind = "deps"
    \/ f[i].kind = "path" /\ f[i].id = NextId(f, i)

\* The records up to the first one that Load does not take.
Good(f) ==
    IF ~ValidHeader(f) THEN <<>>
    ELSE SubSeq(f, 1, CHOOSE n \in 1 .. Len(f) :
                         /\ \A i \in 2 .. n : Readable(f, i)
                         /\ n = Len(f) \/ ~Readable(f, n + 1))

\* The nodes that path records name, in their order, and the deps of each id: its
\* last deps record counts, and its ids are indices into the nodes.
NodesIn(recs) ==
    [k \in 1 .. Cardinality(Paths(recs)) |->
        recs[CHOOSE i \in Paths(recs) : NextId(recs, i) = k - 1].node]

IsDepsFor(recs, i, id) == recs[i].kind = "deps" /\ recs[i].out = id

DepsIn(recs, ns) ==
    [id \in {recs[i].out : i \in {j \in DOMAIN recs : recs[j].kind = "deps"}} |->
        LET r == recs[CHOOSE i \in DOMAIN recs :
                        /\ IsDepsFor(recs, i, id)
                        /\ \A j \in i + 1 .. Len(recs) : ~IsDepsFor(recs, j, id)]
        IN  [mtime |-> r.mtime, deps |-> [i \in DOMAIN r.ids |-> ns[r.ids[i] + 1]]]]

\* nodes_ and deps_ after Load.  (A set of one element: TLC evaluates it once.)
Loaded(f) ==
    CHOOSE l \in UNION {{[nodes |-> ns, deps |-> DepsIn(recs, ns)] : ns \in {NodesIn(recs)}} :
                        recs \in {Good(f)}} : TRUE

\* A mutant: a log with a record that was cut short is left as it is.
RecoveredNever(f) == IF ValidHeader(f) THEN f ELSE Absent

\* What Load leaves of the file: one with a bad header is removed, one with a
\* bad record is truncated to the records before it.
Recovered(f) == Good(f)

\* A build starts: Load, and OpenForWrite, which recompacts a log that has too
\* many dead records (here whenever it likes; alone, see above).
Start(p) ==
    /\ pc[p] = "off" /\ starts < MaxStarts
    /\ Others(p) # {} => Recovered(file) = file /\ \A q \in Others(p) : pc[q] \in {"idle", "record"}
    /\ nodes' = [nodes EXCEPT ![p] = Loaded(file).nodes]
    /\ deps' = [deps EXCEPT ![p] = Loaded(file).deps]
    /\ file' = Recovered(file)
    /\ pc' = [pc EXCEPT ![p] = "idle"]
    /\ opened' = [opened EXCEPT ![p] = FALSE]
    /\ alone' = [q \in Process |-> IF q = p THEN Others(p) = {} ELSE FALSE]
    /\ wrote' = [wrote EXCEPT ![p] = {}]
    /\ starts' = starts + 1
    /\ UNCHANGED <<temp, todo, given>>

-----------------------------------------------------------------------------
(***************************************************************************)
(* RecordDeps.                                                             *)
(***************************************************************************)
\* OpenForWriteIfNeeded: a file that is opened empty gets its header.
Opened(f) == IF f = Absent THEN <<Header>> ELSE f

\* FinishCommand calls RecordDeps for an output, with the time it has now.
BeginRecord(p, n, ds) ==
    /\ pc[p] = "idle" /\ Len(given[n]) < MaxRecords
    /\ \A q \in Others(p) : todo[q].out # n
    /\ LET d == [mtime |-> Len(given[n]) + 1, deps |-> ds]
       IN  /\ given' = [given EXCEPT ![n] = Append(@, d)]
           /\ todo' = [todo EXCEPT ![p] = [out |-> n, rec |-> d]]
    /\ pc' = [pc EXCEPT ![p] = "record"]
    /\ UNCHANGED <<logVars, nodes, deps, opened, alone, wrote, starts>>

\* The nodes of the record, and which of them have no id yet.
Names(p)   == <<todo[p].out>> \o todo[p].rec.deps
Missing(p) == {i \in DOMAIN Names(p) : Id(nodes[p], Names(p)[i]) = -1}

\* RecordId: a path record for the next of them, and its id.
RecordId(p) ==
    /\ pc[p] = "record" /\ Missing(p) # {}
    /\ LET n == Names(p)[CHOOSE i \in Missing(p) : \A j \in Missing(p) : i <= j]
       IN  /\ file' = Append(Opened(file), PathRec(n, Len(nodes[p])))
           /\ nodes' = [nodes EXCEPT ![p] = Append(@, n)]
    /\ opened' = [opened EXCEPT ![p] = TRUE]
    /\ UNCHANGED <<temp, pc, deps, todo, histVars>>

\* The deps record of an output, when every node has an id.
DepsRecFor(ns, o, d) ==
    DepsRec(Id(ns, o), d.mtime, [i \in DOMAIN d.deps |-> Id(ns, d.deps[i])])

\* The rest of RecordDeps: the deps record is written.  The time is new, so that
\* there is always a change to write.
WriteDeps(p) ==
    LET n == todo[p].out
        d == todo[p].rec
    IN  /\ pc[p] = "record" /\ Missing(p) = {}
        /\ file' = Append(Opened(file), DepsRecFor(nodes[p], n, d))
        /\ deps' = [deps EXCEPT ![p] = UpdateDeps(@, Id(nodes[p], n), d)]
        /\ opened' = [opened EXCEPT ![p] = TRUE]
        /\ pc' = [pc EXCEPT ![p] = "idle"]
        /\ todo' = [todo EXCEPT ![p] = Nothing]
        /\ wrote' = [wrote EXCEPT ![p] = @ \cup {n}]
        /\ UNCHANGED <<temp, nodes, alone, given, starts>>

\* Close, at the end of a build: the file is created if nothing was recorded.
Close(p) ==
    /\ pc[p] = "idle"
    /\ file' = IF opened[p] THEN file ELSE Opened(file)
    /\ pc' = [pc EXCEPT ![p] = "off"]
    /\ UNCHANGED <<temp, nodes, deps, opened, todo, histVars>>

\* ninja crashes, or is killed.  The write it was in may be cut short.
Crash(p) ==
    /\ pc[p] # "off"
    /\ pc' = [pc EXCEPT ![p] = "off"]
    /\ todo' = [todo EXCEPT ![p] = Nothing]
    /\ \/ UNCHANGED file
       \/ /\ pc[p] = "record" /\ Others(p) = {}
          /\ file' = Append(file, Torn)
    /\ UNCHANGED <<temp, nodes, deps, opened, histVars>>

-----------------------------------------------------------------------------
(***************************************************************************)
(* Recompact.                                                              *)
(***************************************************************************)
\* A mutant: the ids the nodes have in the old log are kept.
RecompactedOldIds(ns, ds) ==
    LET Dead(i) == i \notin DOMAIN ds \/ ns[i + 1] \notin Live
        Rec(i)  == DepsRec(i, ds[i].mtime, [j \in DOMAIN ds[i].deps |-> Id(ns, ds[i].deps[j])])
        kept    == SelectSeq([i \in 1 .. Len(ns) |-> i - 1], LAMBDA i : ~Dead(i))
        paths   == SelectSeq([i \in 1 .. Len(ns) |-> PathRec(ns[i], i - 1)],
                             LAMBDA r : \E i \in ToSet(kept) :
                                           r.node \in {ns[i + 1]} \cup ToSet(ds[i].deps))
    IN  <<Header>> \o paths \o [k \in DOMAIN kept |-> Rec(kept[k])]

\* RecordId and RecordDeps, into a log that nobody else has.
Named(log, n) ==
    IF Id(log.nodes, n) # -1 THEN log
    ELSE [nodes |-> Append(log.nodes, n), recs |-> Append(log.recs, PathRec(n, Len(log.nodes)))]

Recorded(log, o, d) ==
    LET names == <<o>> \o d.deps
        upTo[j \in 0 .. Len(names)] == IF j = 0 THEN log ELSE Named(upTo[j - 1], names[j])
        named == upTo[Len(names)]
    IN  [nodes |-> named.nodes, recs |-> Append(named.recs, DepsRecFor(named.nodes, o, d))]

\* The new log: each live entry is recorded into it, in the order of the old
\* ids, and its nodes get new ids as they come.
Recompacted(ns, ds) ==
    LET upTo[i \in 0 .. Len(ns)] ==
            IF i = 0 THEN [nodes |-> <<>>, recs |-> <<Header>>]
            ELSE IF i - 1 \in DOMAIN ds /\ ns[i] \in Live
                 THEN Recorded(upTo[i - 1], ns[i], ds[i - 1])
                 ELSE upTo[i - 1]
    IN  upTo[Len(ns)].recs

\* Recompact up to the Close of the new log, and the swap; a crash leaves part of
\* it behind, which the next recompaction removes first.  The old log has no path
\* yet, so that its Close opens nothing.
WriteTemp(p) ==
    /\ pc[p] = "idle" /\ ~opened[p] /\ alone[p] /\ Others(p) = {}
    /\ LET new == Recompacted(nodes[p], deps[p])
       IN  \/ /\ temp' = new
              /\ nodes' = [nodes EXCEPT ![p] = Loaded(new).nodes]
              /\ deps' = [deps EXCEPT ![p] = Loaded(new).deps]
              /\ pc' = [pc EXCEPT ![p] = "compact"]
           \/ /\ \E i \in 1 .. Len(new) : temp' = Append(SubSeq(new, 1, i - 1), Torn)
              /\ pc' = [pc EXCEPT ![p] = "off"]
              /\ UNCHANGED <<nodes, deps>>
    /\ UNCHANGED <<file, opened, todo, histVars>>

\* Recompact: the old log is unlinked; ninja ends if there is none, as when Load
\* has just removed one with a bad header ...
UnlinkOld(p) ==
    /\ pc[p] = "compact"
    /\ file' = Absent
    /\ pc' = [pc EXCEPT ![p] = IF file = Absent THEN "off" ELSE "unlinked"]
    /\ UNCHANGED <<temp, nodes, deps, opened, todo, histVars>>

\* ... and the new one renamed into its place.
RenameTemp(p) ==
    /\ pc[p] = "unlinked"
    /\ file' = temp /\ temp' = Absent
    /\ pc' = [pc EXCEPT ![p] = "idle"]
    /\ UNCHANGED <<nodes, deps, opened, todo, histVars>>

\* Which of the records given for each output the ids and deps of a log come to:
\* 0 for none, -1 for another record.
Held(ns, ds) ==
    [n \in Node |-> LET d == GetDeps(ns, ds, n)
                    IN  IF d = NoRecord THEN 0
                        ELSE IF d \in ToSet(given[n]) THEN d.mtime ELSE -1]

\* What the next build would load.  A log that is about to be renamed counts; a
\* crash then loses it.
At == CHOOSE at \in {Held(l.nodes, l.deps) :
                      l \in {Loaded(IF \E p \in Process : pc[p] = "unlinked" THEN temp ELSE file)}} : TRUE

Ended == starts = MaxStarts /\ (\A p \in Process : pc[p] = "off") /\ UNCHANGED vars

Step ==
    \E p \in Process :
       \/ Start(p) \/ RecordId(p) \/ WriteDeps(p) \/ Close(p) \/ Crash(p)
       \/ WriteTemp(p) \/ UnlinkOld(p) \/ RenameTemp(p)
       \/ \E n \in Live : \E ds \in DepsOf[n] : BeginRecord(p, n, ds)

Next == Ended \/ (Step /\ held' = At')

Spec == Init /\ [][Next]_vars

-----------------------------------------------------------------------------
(***************************************************************************)
(* Properties.                                                             *)
(***************************************************************************)
\* Once RecordDeps has returned in a process that has the log to itself, the
\* next build loads what it recorded, whatever the log looked like before
\* (deps_log.cc, Load's recovery, and OpenForWrite's recompaction).
RecordedIsLoaded ==
    \A p \in Process : pc[p] = "idle" /\ alone[p] =>
        \A n \in wrote[p] : held[n] = Len(given[n])

\* A process that has the log to itself has in memory what is on disk: the ids
\* it writes mean the same to it and to the next build.
MemoryIsDisk ==
    \A p \in Process : pc[p] \in {"idle", "record"} /\ alone[p] =>
        /\ nodes[p] = Loaded(file).nodes
        /\ deps[p] = Loaded(file).deps

\* The log implements the promise of RecordStore, crashes and other processes
\* included.
Store == INSTANCE RecordStore WITH Key <- Node, given <- [n \in Node |-> Len(given[n])],
                                   at <- held
StoresRecords == Store!StoreSpec
=============================================================================
