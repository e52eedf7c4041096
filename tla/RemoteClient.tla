----------------------------- MODULE RemoteClient -----------------------------
(***************************************************************************)
(* How a worker of the remote runner has a command run                     *)
(* (ExecutionContext::Execute): the action is looked up in the action      *)
(* cache; what the service does not have yet is uploaded to its store      *)
(* (CASClient) and the action executed (RemoteExecutionClient); the        *)
(* outputs are downloaded and moved into place.  Every call goes through   *)
(* GRPCRetrier, and one that fails for good is fatal to the whole ninja.   *)
(*                                                                         *)
(* CanExecuteRemotelly and CanCacheRemotelly are the same test, so that a  *)
(* command is either never cached, which RemoteProcs models, or may run    *)
(* remotely: the branch that runs a command locally and updates the action *)
(* cache is never taken.  A blob is what its digest is of.  Outputs in     *)
(* directories come as trees; links and captured output are left out.      *)
(***************************************************************************)
EXTENDS Integers, Sequences, FiniteSets, SequencesExt

CONSTANTS
    Cmd,         \* commands, each in a worker of its own
    File,        \* input files
    Edited,      \* those that the user edits once
    Reads,       \* inputs of each command
    Content,     \* contents of output files
    Outs,        \* contents of the output files of each command, a sequence
    Trees,       \* contents of the files in each of its output directories
    MayFail,     \* commands that may exit with 1
    LargeFile,   \* inputs, and contents, that are too large for a batch
    LargeOut,
    LargeTree,   \* whether trees are
    RetryLimit,  \* retry_limit_; GetConnectOptions sets 0, the default is 4
    PerBatch,    \* small blobs in a batch
    FindLimit    \* digests in a request of FindMissingBlobs

\* An action has finitely many inputs; whatever is smaller than the limit of a batch
\* or of a request fits into one.
ASSUME ClientAssumption ==
    /\ IsFiniteSet(File) /\ Edited \subseteq File
    /\ Reads \in [Cmd -> SUBSET File]
    /\ Outs \in [Cmd -> Seq(Content)] /\ Trees \in [Cmd -> Seq(Seq(Content))]
    /\ RetryLimit \in Nat /\ PerBatch \in Nat \ {0} /\ FindLimit \in Nat \ {0}

VARIABLES
    input,       \* content of each input file
    cas,         \* blobs in the content addressable store
    ac,          \* the action cache: a set of actions with exit code 0
    pc,          \* each command: where Execute is
    hashed,      \* input contents its action is made of
    todo,        \* requests its current step still has to send
    missing,     \* missing_digests, while they are collected
    tries,       \* retry_attempts_ of its current call
    offset,      \* chunks sent or received by its current stream
    pos,         \* chunks read from the file that is sent, over all tries
    op,          \* its operation: none, running, or the exit code
    temp,        \* the temporary directory: right or wrong content of blobs
    disk,        \* its output files and directories
    code,        \* exit_code
    dead,        \* Fatal was called: ninja exits
    faulted      \* history: something went wrong outside ninja

services == <<cas, ac>>
transfer == <<todo, missing, offset, pos, temp>>
vars == <<input, services, pc, hashed, transfer, tries, op, disk, code, dead, faulted>>

Chunks == 2  \* of a blob that is streamed; more would be the same

-----------------------------------------------------------------------------
(***************************************************************************)
(* Blobs, and the requests they are transferred in.                        *)
(***************************************************************************)
Action(c)      == <<"action", c, hashed[c]>>
FileBlob(c, f) == <<"file", f, hashed[c][f]>>
Product(c, o)  == <<"out", o, hashed[c]>>
TreeBlob(c, i) == <<"tree", Trees[c][i], hashed[c]>>

\* BuildAction and BuildMerkleTree: the blobs an action refers to.
Needed(c) == {Action(c)} \cup {FileBlob(c, f) : f \in Reads[c]}

IsLarge(b) == \/ b[1] = "file" /\ b[2] \in LargeFile
              \/ b[1] = "out" /\ b[2] \in LargeOut
              \/ b[1] = "tree" /\ LargeTree

\* The file that a blob is read from still has the content that was hashed.
Intact(b) == b[1] = "file" => input[b[2]] = b[3]

\* UploadBlobs and DownloadBlobs: batches (MakeBatches, of which Batches has the
\* sizes), and the blobs that fit into none, which are streamed one by one.
Requests(bs) ==
    LET small == SetToSeq({b \in bs : ~IsLarge(b)})
        large == SetToSeq({b \in bs : IsLarge(b)})
    IN  [k \in 1 .. (Len(small) + PerBatch - 1) \div PerBatch |->
            [kind  |-> "batch",
             blobs |-> {small[i] : i \in {j \in DOMAIN small : (j - 1) \div PerBatch = k - 1}}]]
        \o [k \in DOMAIN large |-> [kind |-> "stream", blobs |-> {large[k]}]]

\* The requests of FindMissingBlobs.  The first digest of a later request is not
\* counted in its size.
FindRequests(ds) ==
    LET first(k) == IF k = 1 THEN 1 ELSE FindLimit + 1 + (k - 2) * (FindLimit + 1)
        last(k)  == IF first(k + 1) - 1 < Len(ds) THEN first(k + 1) - 1 ELSE Len(ds)
        count    == CHOOSE k \in 1 .. Len(ds) : first(k) <= Len(ds) /\ Len(ds) < first(k + 1)
    IN  [k \in 1 .. count |-> SubSeq(ds, first(k), last(k))]

Init ==
    /\ input = [f \in File |-> 0]
    /\ cas = {} /\ ac = {}
    /\ pc = [c \in Cmd |-> "start"] /\ hashed = [c \in Cmd |-> [f \in Reads[c] |-> 0]]
    /\ todo = [c \in Cmd |-> <<>>] /\ missing = [c \in Cmd |-> {}]
    /\ tries = [c \in Cmd |-> 0] /\ offset = [c \in Cmd |-> 0] /\ pos = [c \in Cmd |-> 0]
    /\ op = [c \in Cmd |-> "none"] /\ temp = [c \in Cmd |-> <<>>]
    /\ disk = [c \in Cmd |-> <<>>] /\ code = [c \in Cmd |-> -1]
    /\ dead = FALSE /\ faulted = FALSE

-----------------------------------------------------------------------------
(***************************************************************************)
(* GRPCRetrier::IssueRequest.                                              *)
(***************************************************************************)
At(c, step) == ~dead /\ pc[c] = step

Fatal(c, fault) ==
    /\ dead' = TRUE /\ faulted' = (faulted \/ fault)
    /\ UNCHANGED <<input, services, pc, hashed, transfer, tries, op, disk, code>>

\* A call was answered.
Answered(c) == tries' = [tries EXCEPT ![c] = 0] /\ UNCHANGED <<dead, faulted>>

GoTo(c, step) == pc' = [pc EXCEPT ![c] = step]

\* A mutant: attempts are not counted.
CountNothing(c) == tries[c]

Attempt(c) == tries[c] + 1

\* The status is UNAVAILABLE, whether or not the service did what it was asked to:
\* the invocation is tried again, if it may be.  A stream starts over, but a file
\* that is sent is read on from where it was, and a file that is received is kept.
TryAgain(c) ==
    IF tries[c] >= RetryLimit THEN dead' = TRUE /\ UNCHANGED <<tries, offset>>
    ELSE /\ tries' = [tries EXCEPT ![c] = Attempt(c)]
         /\ offset' = IF pc[c] = "files" THEN offset ELSE [offset EXCEPT ![c] = 0]
         /\ UNCHANGED dead

Calling == {"lookup", "find", "upload", "read", "trees", "files"}

\* A call fails, or a stream breaks.  An execution starts over.
CallFails(c) ==
    /\ ~dead /\ pc[c] \in Calling
    /\ faulted' = TRUE
    /\ \/ TryAgain(c) /\ UNCHANGED cas
       \/ /\ pc[c] = "upload" /\ todo[c] # <<>> /\ Head(todo[c]).kind = "batch"
          /\ cas' = cas \cup {b \in Head(todo[c]).blobs : Intact(b)}
          /\ TryAgain(c)
       \/ dead' = TRUE /\ UNCHANGED <<cas, tries, offset>>  \* a status that is not retried
    /\ pc' = IF pc[c] = "read" THEN [pc EXCEPT ![c] = "upload"] ELSE pc
    /\ UNCHANGED <<input, ac, hashed, todo, missing, pos, temp, op, disk, code>>

-----------------------------------------------------------------------------
(***************************************************************************)
(* Lookup, upload and execution.                                           *)
(***************************************************************************)
BuildAction(c) ==
    /\ At(c, "start")
    /\ hashed' = [hashed EXCEPT ![c] = [f \in Reads[c] |-> input[f]]]
    /\ GoTo(c, "lookup")
    /\ UNCHANGED <<input, services, transfer, tries, op, disk, code, dead, faulted>>

\* FetchFromActionCache; then the trees are downloaded, or the blobs uploaded.
FetchFromActionCache(c) ==
    /\ At(c, "lookup") /\ Answered(c)
    /\ IF Action(c) \in ac
       THEN /\ op' = [op EXCEPT ![c] = "0"]
            /\ GoTo(c, "result") /\ UNCHANGED todo
       ELSE /\ todo' = [todo EXCEPT ![c] = FindRequests(SetToSeq(Needed(c)))]
            /\ GoTo(c, "find") /\ UNCHANGED op
    /\ UNCHANGED <<input, services, hashed, missing, offset, pos, temp, disk, code>>

\* FindMissingBlobs, one request; UploadResources makes the upload requests.
FindMissingBlobs(c) ==
    /\ At(c, "find") /\ Answered(c)
    /\ LET found == missing[c] \cup (ToSet(Head(todo[c])) \ cas)
       IN  IF Len(todo[c]) > 1
           THEN /\ missing' = [missing EXCEPT ![c] = found]
                /\ todo' = [todo EXCEPT ![c] = Tail(@)]
                /\ UNCHANGED pc
           ELSE /\ missing' = [missing EXCEPT ![c] = {}]
                /\ todo' = [todo EXCEPT ![c] = Requests(found)]
                /\ GoTo(c, "upload")
    /\ UNCHANGED <<input, services, hashed, offset, pos, temp, op, disk, code>>

Next1(c) == todo' = [todo EXCEPT ![c] = Tail(@)]
Sends(c, kind) == todo[c] # <<>> /\ Head(todo[c]).kind = kind

\* BatchUpload.  The store refuses a blob that is not what its digest says; the
\* statuses of the single blobs are not looked at.
BatchUpload(c) ==
    /\ At(c, "upload") /\ Sends(c, "batch") /\ Answered(c)
    /\ cas' = cas \cup {b \in Head(todo[c]).blobs : Intact(b)}
    /\ Next1(c)
    /\ UNCHANGED <<input, ac, pc, hashed, missing, offset, pos, temp, op, disk, code>>

\* Upload of a file: a chunk is read and sent, and at the last one the store says
\* how much it has.  A file that has been read before has no chunk left.
Upload(c) ==
    /\ At(c, "upload") /\ Sends(c, "stream")
    /\ LET b == CHOOSE x \in Head(todo[c]).blobs : TRUE
           last == offset[c] + 1 >= Chunks
       IN  \/ pos[c] >= Chunks /\ Fatal(c, FALSE)
           \/ /\ pos[c] < Chunks /\ ~last
              /\ pos' = [pos EXCEPT ![c] = @ + 1] /\ offset' = [offset EXCEPT ![c] = @ + 1]
              /\ UNCHANGED <<input, services, pc, hashed, todo, missing, temp, tries,
                             op, disk, code, dead, faulted>>
           \/ pos[c] < Chunks /\ last /\ ~Intact(b) /\ Fatal(c, FALSE)
           \/ /\ pos[c] < Chunks /\ last /\ Intact(b)
              /\ Answered(c) /\ Next1(c)
              /\ cas' = cas \cup {b}
              /\ pos' = [pos EXCEPT ![c] = 0] /\ offset' = [offset EXCEPT ![c] = 0]
              /\ UNCHANGED <<input, ac, pc, hashed, missing, temp, op, disk, code>>

\* ExecuteAction, when all is uploaded: the service takes the action, or has not got
\* all that it refers to.
Execute(c) ==
    /\ At(c, "upload") /\ todo[c] = <<>>
    /\ IF Needed(c) \subseteq cas
       THEN /\ op' = [op EXCEPT ![c] = "running"]
            /\ GoTo(c, "read")
            /\ UNCHANGED <<input, services, hashed, transfer, tries, disk, code, dead, faulted>>
       ELSE Fatal(c, FALSE)

\* The service has run the command; a success goes into the action cache.
ServiceFinishes(c) ==
    /\ op[c] = "running"
    /\ \E x \in {"0"} \cup (IF c \in MayFail THEN {"1"} ELSE {}) :
          /\ op' = [op EXCEPT ![c] = x]
          /\ ac' = IF x = "0" THEN ac \cup {Action(c)} ELSE ac
    /\ cas' = cas \cup {Product(c, o) : o \in ToSet(Outs[c]) \cup UNION {ToSet(t) : t \in ToSet(Trees[c])}}
                  \cup {TreeBlob(c, i) : i \in DOMAIN Trees[c]}
    /\ UNCHANGED <<input, pc, hashed, transfer, tries, disk, code, dead, faulted>>

\* ReadOperation: the operation is done, and GetActionResult takes its result.
ReadOperation(c) ==
    /\ At(c, "read") /\ op[c] \in {"0", "1"} /\ Answered(c)
    /\ GoTo(c, "result")
    /\ UNCHANGED <<input, services, hashed, transfer, op, disk, code>>

\* ReadOperation: the user has interrupted ninja and a stop was requested.  The call
\* counts as cancelled, which is fatal.
Cancel(c) == At(c, "read") /\ Fatal(c, TRUE)

-----------------------------------------------------------------------------
(***************************************************************************)
(* DownloadOutputs.                                                        *)
(***************************************************************************)
\* digest_directory_map: equal trees are known once, and so are the files in them.
InTrees(c) == FlattenSeq(SetToSeq(ToSet(Trees[c])))

\* A mutant: every digest is taken to be used once.
NoDuplicates(c) == {}

\* duplicate_file_digests.
Duplicates(c) ==
    LET all == Outs[c] \o InTrees(c)
    IN  {all[i] : i \in {j \in DOMAIN all : \E k \in 1 .. j - 1 : all[k] = all[j]}}

\* Execute goes on with the exit code of the result.  A success without output files
\* is fatal, also when the command has only directories to make.
TakeResult(c) ==
    /\ At(c, "result")
    /\ IF op[c] = "0" /\ Outs[c] = <<>> THEN Fatal(c, FALSE)
       ELSE /\ code' = [code EXCEPT ![c] = IF op[c] = "0" THEN 0 ELSE 1]
            /\ GoTo(c, IF op[c] = "0" THEN "trees" ELSE "done")
            /\ todo' = [todo EXCEPT ![c] = Requests({TreeBlob(c, i) : i \in DOMAIN Trees[c]})]
            /\ UNCHANGED <<input, services, hashed, missing, offset, pos, temp, tries,
                           op, disk, dead, faulted>>

\* A mutant: the digest of what was received is not computed.
TakeAnything(data) == TRUE

\* The data has the digest that was asked for.
HasDigest(data) == data = "right"

Put(c, bs, data) ==
    temp' = [temp EXCEPT ![c] = [b \in bs \cup DOMAIN @ |-> IF b \in bs THEN data[b] ELSE @[b]]]

\* BatchDownload, and CheckDownloadBlobsResult: one that is missing or damaged is fatal.
BatchDownload(c) ==
    /\ \E step \in {"trees", "files"} : At(c, step)
    /\ Sends(c, "batch")
    /\ LET bs == Head(todo[c]).blobs
       IN  \E data \in {[b \in bs |-> "right"]} \cup
                       {[b \in bs |-> IF b = x THEN "wrong" ELSE "right"] : x \in bs} :
             IF \A b \in bs : HasDigest(data[b])
             THEN /\ Put(c, bs, data) /\ Answered(c) /\ Next1(c)
                  /\ UNCHANGED <<input, services, pc, hashed, missing, offset, pos, op, disk, code>>
             ELSE Fatal(c, TRUE)

\* Download and FetchString: a chunk, or the end of the stream and the digest.
Download(c) ==
    /\ \E step \in {"trees", "files"} : At(c, step)
    /\ Sends(c, "stream")
    /\ LET b == CHOOSE x \in Head(todo[c]).blobs : TRUE
           so(data) == [x \in {b} |-> data]
       IN  IF offset[c] < Chunks
           THEN /\ offset' = [offset EXCEPT ![c] = @ + 1]
                /\ UNCHANGED <<input, services, pc, hashed, todo, missing, pos, temp, tries,
                               op, disk, code, dead, faulted>>
           ELSE \E data \in {"right", "wrong"} :
                  IF HasDigest(data)
                  THEN /\ Put(c, {b}, so(data)) /\ Answered(c) /\ Next1(c)
                       /\ offset' = [offset EXCEPT ![c] = 0]
                       /\ UNCHANGED <<input, services, pc, hashed, missing, pos, op, disk, code>>
                  ELSE Fatal(c, TRUE)

\* The trees are there, and tell which files to download.
ReadTrees(c) ==
    /\ At(c, "trees") /\ todo[c] = <<>>
    /\ todo' = [todo EXCEPT ![c] = Requests({Product(c, o) : o \in ToSet(Outs[c] \o InTrees(c))})]
    /\ GoTo(c, "files")
    /\ UNCHANGED <<input, services, hashed, missing, offset, pos, temp, tries, op, disk,
                   code, dead, faulted>>

\* StageDownloadedFile and StageDownloadedDirectory: a file is moved to its place, and
\* copied first if its digest is used more than once.
Stage(c) ==
    /\ At(c, "files") /\ todo[c] = <<>>
    /\ LET all == Outs[c] \o FlattenSeq(Trees[c])
           moved(i) == {all[j] : j \in 1 .. i - 1} \ Duplicates(c)
       IN  IF \E i \in DOMAIN all : all[i] \in moved(i) THEN Fatal(c, FALSE)
           ELSE /\ disk' = [disk EXCEPT ![c] = [i \in DOMAIN all |-> <<all[i], temp[c][Product(c, all[i])]>>]]
                /\ temp' = [temp EXCEPT ![c] = <<>>]
                /\ GoTo(c, "done")
                /\ UNCHANGED <<input, services, hashed, todo, missing, offset, pos, tries,
                               op, code, dead, faulted>>

-----------------------------------------------------------------------------
\* The user edits an input; the command may be built once more, in
\* the next build, when its inputs have changed.
Edit(f) ==
    /\ f \in Edited /\ input[f] = 0 /\ ~dead
    /\ input' = [input EXCEPT ![f] = 1]
    /\ faulted' = (faulted \/ \E c \in Cmd : f \in Reads[c] /\ pc[c] \notin {"start", "done"})
    /\ UNCHANGED <<services, pc, hashed, transfer, tries, op, disk, code, dead>>

BuildAgain(c) ==
    /\ At(c, "done") /\ \A d \in Cmd : pc[d] = "done"
    /\ \E f \in Reads[c] : input[f] # hashed[c][f]
    /\ GoTo(c, "start") /\ op' = [op EXCEPT ![c] = "none"]
    /\ disk' = [disk EXCEPT ![c] = <<>>] /\ code' = [code EXCEPT ![c] = -1]
    /\ UNCHANGED <<input, services, hashed, transfer, tries, dead, faulted>>

Over == (dead \/ \A c \in Cmd : pc[c] = "done") /\ UNCHANGED vars

Worker(c) ==
    \/ BuildAction(c) \/ FetchFromActionCache(c) \/ FindMissingBlobs(c) \/ BatchUpload(c)
    \/ Upload(c) \/ Execute(c) \/ ReadOperation(c) \/ Cancel(c) \/ TakeResult(c)
    \/ BatchDownload(c) \/ Download(c) \/ ReadTrees(c) \/ Stage(c) \/ CallFails(c)

Next == \/ \E c \in Cmd : Worker(c) \/ ServiceFinishes(c) \/ BuildAgain(c)
        \/ \E f \in File : Edit(f)
        \/ Over

\* Each worker runs, each call is answered or fails, and each operation ends.
Fairness == \A c \in Cmd : WF_vars(Worker(c)) /\ WF_vars(ServiceFinishes(c))

Spec == Init /\ [][Next]_vars /\ Fairness

-----------------------------------------------------------------------------
(***************************************************************************)
(* Properties.                                                             *)
(***************************************************************************)
\* When Execute ends with 0, every output file is there, and has the content that the
\* command makes of the inputs it was given, whatever calls were lost, repeated or
\* answered with damaged data, and whoever uploaded what the action refers to.
OutputsAreRight ==
    \A c \in Cmd : pc[c] = "done" /\ code[c] = 0 =>
        disk[c] = [i \in DOMAIN (Outs[c] \o FlattenSeq(Trees[c])) |->
                       <<(Outs[c] \o FlattenSeq(Trees[c]))[i], "right">>]

\* What ninja dies of without any fault: a success that made no output file
\* (ExecutionContext::Execute), and output directories that are equal, whose files are
\* counted once and so moved away before they are staged again (DownloadOutputs).
NoFiles(c) == pc[c] = "result" /\ op[c] = "0" /\ Outs[c] = <<>>
EqualTrees(c) ==
    pc[c] = "files" /\ \E i, j \in DOMAIN Trees[c] : i # j /\ Trees[c][i] = Trees[c][j]

\* Of nothing else: without a failed call, damaged data, an input that was edited while
\* its command was out, or an interrupt, no other worker calls Fatal; the service has
\* every blob when it is asked to execute, and every file that is staged is there
\* (UploadBlobs, duplicate_file_digests).
OnlyFaultsKill == dead => faulted \/ \E c \in Cmd : NoFiles(c) \/ EqualTrees(c)

\* Every command ends, or ninja dies: failures are retried a bounded number of times.
CommandsEnd == \A c \in Cmd : (pc[c] = "start") ~> (dead \/ pc[c] = "done")
===============================================================================
