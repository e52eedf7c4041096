------------------------------- MODULE BuildLog -------------------------------
(***************************************************************************)
(* The build log (build_log.cc): the text file .ninja_log, a line for each *)
(* output of each command that ended, and the BuildLog of the ninja that   *)
(* has it open.  Lines are only appended; the last one of an output counts.*)
(* Unlike the deps log, the file is never truncated to its good part: a    *)
(* line that was cut short by a crash is skipped while it is the last one, *)
(* and becomes one line with whatever is appended to it.                   *)
(*                                                                         *)
(* An entry stands for its end, its time and its hash, and is the number   *)
(* of the record given for its output; Bad is one whose hash is garbage,   *)
(* which fits no command (only generator edges ignore it).  Lines are      *)
(* shorter than the buffer of LineReader, and a name that a cut path makes *)
(* with the number that follows it is no output's.                         *)
(***************************************************************************)
EXTENDS Integers, Sequences, FiniteSets, SequencesExt

CONSTANTS
    Output,     \* paths that commands make
    Edge,       \* outputs of each edge: a set of sequences
    MaxRecords, \* bound on the records given for an output
    MaxStarts   \* bound on how often ninja starts

\* What the code takes for granted of them: an edge has an output.
LinesAssumption ==
    /\ IsFiniteSet(Output)
    /\ Edge \subseteq Seq(Output) \ {<<>>}
    /\ MaxRecords \in Nat /\ MaxStarts \in Nat

VARIABLES
    log,        \* .ninja_log, as lines
    temp,       \* .ninja_log.recompact or .ninja_log.restat
    pc,         \* "off", "idle", "record", "replace", "unlinked"
    entries,    \* entries_: 0 for none
    writing,    \* log_file_ is open
    todo,       \* outputs RecordCommand has not written yet
    whole,      \* history: the file had no line cut short when this build started
    wrote,      \* history: outputs recorded since then
    given,      \* history: how many records were given for each output
    held,       \* history: which of them the next build would use
    starts

vars == <<log, temp, pc, entries, writing, todo, whole, wrote, given, held, starts>>

Bad == -1
Absent == <<>>  \* no file, or an empty one: ninja makes no difference

Header       == [kind |-> "header"]
OldHeader    == [kind |-> "old_header"]
Line(o, v)   == [kind |-> "entry", out |-> o, val |-> v]

\* A line that was cut short: in its first field, which is its start time, after
\* that but before the path has ended, or in the hash.
Cut(o, where) == [kind |-> "cut", out |-> o, where |-> where]
Cuts(o) == {Cut(o, "start"), Cut(o, "path"), Cut(o, "hash")}

\* A header that was cut short, perhaps of its newline only.
CutHeaders == {[kind |-> "cut_header"], [kind |-> "unended_header"]}

BrokenOff == (UNION {Cuts(o) : o \in Output}) \cup CutHeaders

NoEntries == [o \in Output |-> 0]

Init ==
    /\ log \in {Absent, <<OldHeader>>} /\ temp = Absent
    /\ pc = "off" /\ entries = NoEntries /\ writing = FALSE /\ todo = <<>>
    /\ whole = TRUE /\ wrote = {} /\ given = NoEntries /\ held = NoEntries
    /\ starts = 0

-----------------------------------------------------------------------------
(***************************************************************************)
(* Load.                                                                   *)
(***************************************************************************)
\* The version in the first line is the one that ninja reads, and writes.  What
\* is appended to a header without newline changes its version.
ValidHeader(f) ==
    /\ f # Absent
    /\ \/ f[1].kind = "header"
       \/ f[1].kind = "unended_header" /\ Len(f) = 1

\* The lines cut short that are part of line i.  One that was cut in its first
\* field only spoils the start time of what it is joined with, which is for show.
JoinedCuts(f, i) ==
    {j \in 2 .. i - 1 : /\ \A k \in j .. i - 1 : f[k].kind = "cut"
                       /\ f[j].where # "start"}

\* What LineReader and the fields of a line come to: an entry for an output, or
\* none.  The first line cut short swallows what it is joined with; it has a
\* wrong hash if only that was cut.
ReadLine(f, i) ==
    IF i = 1 \/ f[i].kind # "entry" THEN {}
    ELSE IF JoinedCuts(f, i) = {} THEN {<<f[i].out, f[i].val>>}
    ELSE {<<f[j].out, Bad>> : j \in {k \in JoinedCuts(f, i) :
                                       /\ f[k].where = "hash"
                                       /\ \A l \in JoinedCuts(f, i) : k <= l}}

\* entries_ after Load: the last line of an output counts.
Loaded(f) ==
    IF ~ValidHeader(f) THEN NoEntries
    ELSE [o \in Output |->
            LET lines == {i \in 1 .. Len(f) : \E e \in ReadLine(f, i) : e[1] = o}
            IN  IF lines = {} THEN 0
                ELSE LET last == CHOOSE i \in lines : \A j \in lines : j <= i
                     IN  (CHOOSE e \in ReadLine(f, last) : TRUE)[2]]

\* A build starts.  A file of a version that ninja does not read is removed.
Start ==
    /\ pc = "off" /\ starts < MaxStarts
    /\ log' = IF ValidHeader(log) THEN log ELSE Absent
    /\ entries' = Loaded(log)
    /\ whole' = (ToSet(log') \cap BrokenOff = {})
    /\ pc' = "idle" /\ writing' = FALSE /\ wrote' = {}
    /\ starts' = starts + 1
    /\ UNCHANGED <<temp, todo, given>>

-----------------------------------------------------------------------------
(***************************************************************************)
(* RecordCommand.                                                          *)
(***************************************************************************)
\* OpenForWriteIfNeeded: a file that is opened empty gets its header.
Opened(f) == IF f = Absent THEN <<Header>> ELSE f

BeginRecord(e) ==
    /\ pc = "idle"
    /\ \A o \in ToSet(e) : given[o] < MaxRecords
    /\ given' = [o \in Output |-> IF Contains(e, o) THEN given[o] + 1 ELSE given[o]]
    /\ todo' = e /\ pc' = "record"
    /\ UNCHANGED <<log, temp, entries, writing, whole, wrote, starts>>

\* The loop over the outputs of the edge: the entry, and its line.
WriteEntry ==
    /\ pc = "record"
    /\ LET o == Head(todo)
       IN  /\ log' = Append(Opened(log), Line(o, given[o]))
           /\ entries' = [entries EXCEPT ![o] = given[o]]
           /\ wrote' = wrote \cup {o}
    /\ writing' = TRUE
    /\ todo' = Tail(todo)
    /\ pc' = IF Len(todo) = 1 THEN "idle" ELSE "record"
    /\ UNCHANGED <<temp, whole, given, starts>>

\* Close, at the end of a build: the file is created if nothing was recorded.
Close ==
    /\ pc = "idle" /\ pc' = "off"
    /\ log' = IF writing THEN log ELSE Opened(log)
    /\ UNCHANGED <<temp, entries, writing, todo, whole, wrote, given, starts>>

\* ninja crashes, or is killed.  The line it was writing may be cut short.
Crash ==
    /\ pc # "off" /\ pc' = "off" /\ todo' = <<>>
    /\ \/ UNCHANGED log
       \/ pc = "record" /\ log = Absent /\ \E h \in CutHeaders : log' = <<h>>
       \/ pc = "record" /\ log # Absent /\ \E c \in Cuts(Head(todo)) : log' = Append(log, c)
    /\ UNCHANGED <<temp, entries, writing, whole, wrote, given, starts>>

-----------------------------------------------------------------------------
(***************************************************************************)
(* Recompact and Restat: a new file takes the place of the old one.        *)
(***************************************************************************)
\* The lines of a file that has the entries f.
Lines(f) == LET outs == SetToSeq({o \in Output : f[o] # 0})
            IN  <<Header>> \o [i \in DOMAIN outs |-> Line(outs[i], f[outs[i]])]

\* Recompact, from OpenForWrite or the tool: without the outputs that are dead.
\* It has no path yet, so that its Close opens nothing; and there is a file, if
\* an empty one, or Load would have said that it found none.
Recompact ==
    /\ pc = "idle" /\ ~writing
    /\ \E dead \in SUBSET Output :
          /\ entries' = [o \in Output |-> IF o \in dead THEN 0 ELSE entries[o]]
          /\ temp' = Lines(entries')
    /\ pc' = "replace"
    /\ UNCHANGED <<log, writing, todo, whole, wrote, given, starts>>

\* Restat, from the tool: entries take the times their outputs have on disk.
Restat ==
    /\ pc = "idle" /\ ~writing
    /\ \E outs \in SUBSET {o \in Output : entries[o] > 0 /\ given[o] < MaxRecords} :
          /\ given' = [o \in Output |-> IF o \in outs THEN given[o] + 1 ELSE given[o]]
          /\ entries' = [o \in Output |-> IF o \in outs THEN given'[o] ELSE entries[o]]
          /\ temp' = Lines(entries')
    /\ pc' = "replace"
    /\ UNCHANGED <<log, writing, todo, whole, wrote, starts>>

\* The old file is unlinked, and the new one renamed into its place.
Unlink ==
    /\ pc = "replace" /\ pc' = "unlinked"
    /\ log' = Absent
    /\ UNCHANGED <<temp, entries, writing, todo, whole, wrote, given, starts>>

Rename ==
    /\ pc = "unlinked" /\ pc' = "idle"
    /\ log' = temp /\ temp' = Absent
    /\ whole' = TRUE
    /\ UNCHANGED <<entries, writing, todo, wrote, given, starts>>

\* Which record the next build would use: a garbage hash fits none.  A file that
\* is about to be renamed counts; a crash then loses it.
At == LET f == Loaded(IF pc = "unlinked" THEN temp ELSE log)
      IN  [o \in Output |-> IF f[o] = Bad THEN 0 ELSE f[o]]

Ended == starts = MaxStarts /\ pc = "off" /\ UNCHANGED vars

Step == \/ Start \/ WriteEntry \/ Close \/ Crash
        \/ Recompact \/ Restat \/ Unlink \/ Rename
        \/ \E e \in Edge : BeginRecord(e)

Next == Ended \/ (Step /\ held' = At')

Spec == Init /\ [][Next]_vars

-----------------------------------------------------------------------------
(***************************************************************************)
(* Properties.                                                             *)
(***************************************************************************)
\* Once RecordCommand has written a line into a file that had no line cut short
\* when it was opened, the next build loads that line.
LineIsLoaded ==
    pc = "idle" /\ whole => \A o \in wrote : held[o] = given[o]

\* The log implements the promise of RecordStore, whatever was cut short: it
\* never has the record of one output for another, nor goes back to an old one.
Store == INSTANCE RecordStore WITH Key <- Output, at <- held
LinesAreRecords == Store!StoreSpec
=============================================================================
