---------------------------- MODULE ClientProofs ----------------------------
(***************************************************************************)
(* Proofs about RemoteClient, for any commands, inputs, outputs, limits    *)
(* and failures: what a command leaves on the disk is right, and nothing   *)
(* makes a worker call Fatal but a fault outside of ninja, a success       *)
(* without output files, or two output directories that are equal.         *)
(***************************************************************************)
EXTENDS RemoteClient, SequenceFacts

-----------------------------------------------------------------------------
(***************************************************************************)
(* The requests: every blob is in one, and a stream is for one blob.       *)
(***************************************************************************)
Request(bs) == [kind : {"batch", "stream"}, blobs : SUBSET bs]

LEMMA RequestsCover ==
    ASSUME NEW bs, IsFiniteSet(bs), PerBatch \in Nat, PerBatch > 0
    PROVE  /\ Requests(bs) \in Seq(Request(bs))
           /\ \A r \in ToSet(Requests(bs)) : r.kind = "stream" => \E b \in r.blobs : r.blobs = {b}
           /\ \A b \in bs : \E r \in ToSet(Requests(bs)) : b \in r.blobs
<1> DEFINE few == {b \in bs : ~IsLarge(b)}
           many == {b \in bs : IsLarge(b)}
           small == SetToSeq(few)
           large == SetToSeq(many)
           n == (Len(small) + PerBatch - 1) \div PerBatch
           batch(k) == [kind  |-> "batch",
                        blobs |-> {small[i] : i \in {j \in DOMAIN small : (j - 1) \div PerBatch = k - 1}}]
           stream(k) == [kind |-> "stream", blobs |-> {large[k]}]
           batches == [k \in 1 .. n |-> batch(k)]
           streams == [k \in DOMAIN large |-> stream(k)]
<1>1. Requests(bs) = batches \o streams
  BY DEF Requests
<1>2. /\ small \in Seq(bs) /\ ToSet(small) = few
      /\ large \in Seq(bs) /\ ToSet(large) = many
  <2>1. IsFiniteSet(few) /\ IsFiniteSet(many) /\ few \subseteq bs /\ many \subseteq bs
    BY FS_Subset
  <2>2. small \in Seq(few) /\ ToSet(small) = few /\ large \in Seq(many) /\ ToSet(large) = many
    BY <2>1, Listing
  <2> QED
    BY <2>1, <2>2, SeqMonotonic
<1> HIDE DEF small, large
<1>3. /\ Len(small) \in Nat /\ DOMAIN small = 1 .. Len(small)
      /\ Len(large) \in Nat /\ DOMAIN large = 1 .. Len(large)
      /\ \A i \in DOMAIN small : small[i] \in bs
      /\ \A i \in DOMAIN large : large[i] \in bs
  <2>1. \A i \in 1 .. Len(small) : small[i] \in bs
    BY <1>2, ElementOfSeq
  <2>2. \A i \in 1 .. Len(large) : large[i] \in bs
    BY <1>2, ElementOfSeq
  <2> QED
    BY <1>2, <2>1, <2>2, LenProperties
<1>4. n \in Nat
  BY <1>3, Division
<1>5. \A k \in 1 .. n : batch(k) \in Request(bs)
  BY <1>3 DEF Request
<1>6. \A k \in 1 .. Len(large) : stream(k) \in Request(bs)
  BY <1>3 DEF Request
<1> HIDE DEF n
<1>7. batches \in Seq(Request(bs)) /\ DOMAIN batches = 1 .. n
  <2>1. batches \in [1 .. n -> Request(bs)]
    BY <1>5
  <2> QED
    BY <1>4, <2>1, SeqDef
<1>8. streams \in Seq(Request(bs)) /\ DOMAIN streams = 1 .. Len(large)
  <2>1. streams \in [1 .. Len(large) -> Request(bs)]
    BY <1>3, <1>6
  <2> QED
    BY <1>3, <2>1, SeqDef
<1> HIDE DEF batches, streams
<1>9. batches \o streams \in Seq(Request(bs))
  BY <1>7, <1>8, ConcatProperties
<1>10. ToSet(batches \o streams) = ToSet(batches) \cup ToSet(streams)
  <2>1. \A s : Range(s) = ToSet(s)
    BY DEF Range, ToSet
  <2>2. Range(batches \o streams) = Range(batches) \cup Range(streams)
    BY <1>7, <1>8, RangeConcatenation
  <2> QED
    BY <2>1, <2>2
<1>11. ToSet(batches) = {batch(k) : k \in 1 .. n}
  BY <1>7 DEF ToSet, batches
<1>12. ToSet(streams) = {stream(k) : k \in 1 .. Len(large)}
  BY <1>3, <1>8 DEF ToSet, streams
<1>13. ASSUME NEW r \in ToSet(batches \o streams), r.kind = "stream"
       PROVE  \E b \in r.blobs : r.blobs = {b}
  <2>1. r \notin ToSet(batches)
    BY <1>11, <1>13
  <2>2. PICK k \in 1 .. Len(large) : r = stream(k)
    BY <1>10, <1>12, <2>1
  <2> QED
    BY <2>2
<1>14. ASSUME NEW b \in few
       PROVE  \E r \in ToSet(batches \o streams) : b \in r.blobs
  <2>1. PICK i \in 1 .. Len(small) : b = small[i]
    BY <1>2, <1>3 DEF ToSet
  <2> DEFINE q == (i - 1) \div PerBatch
  <2>2. i - 1 \in Nat /\ i - 1 < Len(small)
    BY <1>3
  <2>3. q \in Nat /\ PerBatch * q <= i - 1
    BY <2>2, Division
  <2>4. Len(small) + PerBatch - 1 \in Nat /\ n \in Nat
        /\ Len(small) + PerBatch - 1 < PerBatch * n + PerBatch
    BY <1>3, <1>4, Division DEF n
  <2>5. PerBatch * q < PerBatch * n
    BY <1>3, <2>2, <2>3, <2>4
  <2>6. q < n
    BY <2>3, <2>4, <2>5
  <2>7. q + 1 \in 1 .. n /\ (q + 1) - 1 = q
    BY <2>3, <2>4, <2>6
  <2>8. b \in batch(q + 1).blobs
    BY <1>3, <2>1, <2>7
  <2> QED
    BY <1>10, <1>11, <2>7, <2>8
<1>15. ASSUME NEW b \in many
       PROVE  \E r \in ToSet(batches \o streams) : b \in r.blobs
  <2>1. PICK i \in 1 .. Len(large) : b = large[i]
    BY <1>2, <1>3 DEF ToSet
  <2>2. b \in stream(i).blobs
    BY <2>1
  <2> QED
    BY <1>10, <1>12, <2>2
<1> QED
  BY <1>1, <1>9, <1>13, <1>14, <1>15

LEMMA FindCovers ==
    ASSUME NEW S, NEW ds \in Seq(S), ds # <<>>, FindLimit \in Nat, FindLimit > 0
    PROVE  /\ FindRequests(ds) \in Seq(Seq(S)) /\ FindRequests(ds) # <<>>
           /\ ToSet(ds) \subseteq UNION {ToSet(r) : r \in ToSet(FindRequests(ds))}
<1> DEFINE first(k) == IF k = 1 THEN 1 ELSE FindLimit + 1 + (k - 2) * (FindLimit + 1)
           last(k)  == IF first(k + 1) - 1 < Len(ds) THEN first(k + 1) - 1 ELSE Len(ds)
           holds(j, k) == first(k) <= j /\ j < first(k + 1)
           d == FindLimit + 1
           count == CHOOSE k \in 1 .. Len(ds) : holds(Len(ds), k)
           number(j) == IF j <= FindLimit THEN 1 ELSE (j - d) \div d + 2
<1>0. Len(ds) \in Nat /\ Len(ds) > 0 /\ DOMAIN ds = 1 .. Len(ds) /\ d \in Nat /\ d > 1
  OBVIOUS
<1>1. ASSUME NEW k \in Nat, k >= 1
      PROVE  first(k) \in Nat /\ first(k) >= k /\ first(k + 1) > first(k)
  <2>1. CASE k = 1
    BY <2>1
  <2>2. CASE k # 1
    <3>1. k - 2 \in Nat
      BY <1>1, <2>2
    <3>2. (k - 2) * d \in Nat /\ (k - 2) * d >= k - 2
      BY <1>0, <3>1
    <3>3. (k - 1) * d = (k - 2) * d + d
      BY <1>0, <3>1
    <3>4. first(k) = d + (k - 2) * d /\ first(k + 1) = d + (k - 1) * d
      BY <1>1, <2>2
    <3> HIDE DEF d, first
    <3> QED
      BY <1>0, <1>1, <3>1, <3>2, <3>3, <3>4
  <2> QED
    BY <2>1, <2>2
<1>2. ASSUME NEW j \in 1 .. Len(ds)
      PROVE  number(j) \in Nat /\ number(j) >= 1 /\ holds(j, number(j))
  <2>1. CASE j <= FindLimit
    BY <2>1
  <2>2. CASE ~(j <= FindLimit)
    <3>1. j - d \in Nat
      BY <1>0, <2>2
    <3> DEFINE q == (j - d) \div d
    <3>2. q \in Nat /\ d * q <= j - d /\ j - d < d * q + d
      <4> HIDE DEF d
      <4> QED
        BY <1>0, <3>1, Division
    <3> HIDE DEF q
    <3>3. first(q + 2) = d + q * d /\ first(q + 2 + 1) = d + (q + 1) * d
      BY <3>2
    <3>4. (q + 1) * d = d * q + d /\ q * d = d * q
      BY <1>0, <3>2
    <3>5. number(j) = q + 2
      BY <2>2 DEF q
    <3> HIDE DEF d, first, number
    <3> QED
      BY <1>0, <3>1, <3>2, <3>3, <3>4, <3>5
  <2> QED
    BY <2>1, <2>2
<1> HIDE DEF first, d, number
<1>3. \A k \in Nat : k >= 1 => first(k) \in Nat
  BY <1>1
<1>4. ASSUME NEW k \in Nat, k >= 1, NEW m \in Nat
      PROVE  first(k) <= first(k + m)
  <2> DEFINE M == {i \in Nat : first(k) <= first(k + i)}
  <2>1. 0 \in M
    BY <1>1, <1>4
  <2>2. ASSUME NEW i \in Nat, i >= 0 /\ i \in M  PROVE i + 1 \in M
    <3>1. k + i \in Nat /\ k + i >= 1 /\ k + (i + 1) = (k + i) + 1
      BY <1>4
    <3>2. first(k + i) < first((k + i) + 1) /\ first(k + i) \in Nat
      BY <1>1, <3>1
    <3> QED
      BY <1>1, <1>4, <2>2, <3>1, <3>2, <1>3
  <2> HIDE DEF M
  <2>3. m \in M
    BY <2>1, <2>2, Counting
  <2> QED
    BY <2>3 DEF M
<1>5. count \in 1 .. Len(ds) /\ holds(Len(ds), count)
  <2>1. Len(ds) \in 1 .. Len(ds)
    BY <1>0
  <2> DEFINE k == number(Len(ds))
  <2>2. k \in Nat /\ k >= 1 /\ holds(Len(ds), k)
    BY <1>2, <2>1
  <2>3. first(k) \in Nat /\ first(k) >= k
    BY <1>1, <2>2
  <2>4. k \in 1 .. Len(ds)
    BY <1>0, <2>2, <2>3
  <2> QED
    BY <2>2, <2>4
<1>6. FindRequests(ds) = [k \in 1 .. count |-> SubSeq(ds, first(k), last(k))]
  BY DEF FindRequests, first
<1> HIDE DEF count
<1>7. ASSUME NEW k \in 1 .. count
      PROVE  /\ first(k) \in Nat /\ first(k) >= 1 /\ last(k) \in Nat /\ last(k) <= Len(ds)
             /\ SubSeq(ds, first(k), last(k)) \in Seq(S)
  <2>1. k \in Nat /\ k >= 1
    BY <1>5
  <2>2. first(k) \in Nat /\ first(k) >= 1 /\ last(k) \in Nat /\ last(k) <= Len(ds)
    <3>1. first(k) \in Nat /\ first(k) >= k /\ first(k + 1) > first(k)
      BY <1>1, <2>1
    <3>2. first(k + 1) \in Nat
      BY <1>3, <2>1
    <3> QED
      BY <1>0, <2>1, <3>1, <3>2
  <2> QED
    BY <2>2, SubSeqProperties
<1>8. FindRequests(ds) \in [1 .. count -> Seq(S)]
  BY <1>6, <1>7
<1>9. FindRequests(ds) \in Seq(Seq(S)) /\ FindRequests(ds) # <<>> /\ DOMAIN FindRequests(ds) = 1 .. count
  BY <1>5, <1>8, SeqDef
<1>10. ASSUME NEW j \in 1 .. Len(ds)
       PROVE  \E r \in ToSet(FindRequests(ds)) : ds[j] \in ToSet(r)
  <2> DEFINE k == number(j)
             r == SubSeq(ds, first(k), last(k))
  <2>1. k \in Nat /\ k >= 1 /\ first(k) <= j /\ j < first(k + 1)
    BY <1>2
  <2>2. k <= count
    <3> SUFFICES ASSUME k > count  PROVE FALSE
      BY <1>5, <2>1
    <3>1. k - (count + 1) \in Nat /\ (count + 1) + (k - (count + 1)) = k /\ count + 1 \in Nat /\ count + 1 >= 1
      BY <1>5, <2>1
    <3>2. first(count + 1) <= first(k)
      BY <1>4, <3>1
    <3> QED
      BY <1>0, <1>3, <1>5, <2>1, <3>1, <3>2
  <2>3. k \in 1 .. count
    BY <1>5, <2>1, <2>2
  <2>4. j <= last(k) /\ first(k) \in Nat /\ last(k) \in Nat /\ last(k) <= Len(ds) /\ first(k) >= 1
    BY <1>0, <1>3, <1>7, <2>1, <2>3
  <2>5. r \in ToSet(FindRequests(ds))
    BY <1>6, <1>9, <2>3 DEF ToSet
  <2> DEFINE i == j - first(k) + 1
  <2>6. i \in 1 .. Len(r) /\ r[i] = ds[j]
    <3>1. first(k) + i - 1 = j /\ i \in 1 .. (last(k) - first(k) + 1)
      BY <2>1, <2>4
    <3>2. Len(r) = last(k) - first(k) + 1
          /\ \A x \in 1 .. last(k) - first(k) + 1 : r[x] = ds[first(k) + x - 1]
      BY <2>4, <2>1, SubSeqProperties
    <3> QED
      BY <3>1, <3>2
  <2>7. DOMAIN r = 1 .. Len(r)
    BY <1>7, <2>3, LenProperties
  <2> QED
    BY <2>5, <2>6, <2>7 DEF ToSet
<1>11. ASSUME NEW x \in ToSet(ds)
       PROVE  x \in UNION {ToSet(r) : r \in ToSet(FindRequests(ds))}
  <2>1. PICK j \in 1 .. Len(ds) : x = ds[j]
    BY <1>0 DEF ToSet
  <2> QED
    BY <1>10, <2>1
<1> QED
  BY <1>9, <1>11

-----------------------------------------------------------------------------
(***************************************************************************)
(* The invariant, command by command.                                      *)
(***************************************************************************)
Steps == {"start", "lookup", "find", "upload", "read", "result", "trees", "files", "done"}

PerCommand(v) == v = [c \in Cmd |-> v[c]]

Typed ==
    /\ pc \in [Cmd -> Steps] /\ code \in [Cmd -> {-1, 0, 1}]
    /\ offset \in [Cmd -> Nat] /\ pos \in [Cmd -> Nat]
    /\ PerCommand(todo) /\ PerCommand(missing) /\ PerCommand(hashed)
    /\ PerCommand(temp) /\ PerCommand(disk)
    /\ input = [f \in File |-> input[f]]
    /\ dead \in BOOLEAN /\ faulted \in BOOLEAN

Sending(c) == pc[c] \in {"upload", "trees", "files"}

\* The blobs in the requests that are left.
Left(c) == UNION {r.blobs : r \in ToSet(todo[c])}

\* A stream is for one blob.
Queued(c) ==
    /\ todo[c] \in Seq(ToSet(todo[c]))
    /\ pc[c] = "read" \/ Sending(c) => \A r \in ToSet(todo[c]) : r.kind = "stream" => \E b \in r.blobs : r.blobs = {b}

\* What is asked for and found missing belongs to the action.
Asked(c) ==
    /\ pc[c] # "find" => missing[c] = {}
    /\ pc[c] = "find" =>
          /\ todo[c] # <<>> /\ missing[c] \subseteq Needed(c)
          /\ \A ds \in ToSet(todo[c]) : ToSet(ds) \subseteq Needed(c)

\* What is received has been compared with its digest, and every output is received or
\* still to be.
AllContents(c) == Outs[c] \o FlattenSeq(Trees[c])

Fetched(c) ==
    /\ \A b \in DOMAIN temp[c] : temp[c][b] = "right"
    /\ pc[c] \in {"trees", "files"} => code[c] = 0
    /\ pc[c] = "files" => \A o \in ToSet(AllContents(c)) : Product(c, o) \in DOMAIN temp[c] \cup Left(c)

InPlace(c) ==
    pc[c] = "done" /\ code[c] = 0 =>
        disk[c] = [i \in DOMAIN AllContents(c) |-> <<AllContents(c)[i], "right">>]

ClientInv == Typed /\ \A c \in Cmd : Queued(c) /\ Asked(c) /\ Fetched(c) /\ InPlace(c)

\* While nothing goes wrong outside: the inputs of a command that is out are what was
\* hashed, the file that is sent is where its stream is, and the service has all
\* that the action refers to, or is asked for it, or is about to get it.
Unharmed(c) ==
    /\ pc[c] \notin {"start", "done"} => \A f \in Reads[c] : input[f] = hashed[c][f]
    /\ pos[c] = IF pc[c] = "upload" THEN offset[c] ELSE 0
    /\ pc[c] = "upload" => offset[c] < Chunks
    /\ offset[c] # 0 => Sending(c) /\ Sends(c, "stream")
    /\ pc[c] = "find" => Needed(c) \subseteq cas \cup missing[c] \cup UNION {ToSet(ds) : ds \in ToSet(todo[c])}
    /\ pc[c] = "upload" => Needed(c) \subseteq cas \cup Left(c) /\ Left(c) \subseteq Needed(c)

HarmInv == OnlyFaultsKill /\ (~faulted => \A c \in Cmd : Unharmed(c))

-----------------------------------------------------------------------------
(***************************************************************************)
(* The steps, and their types.                                             *)
(***************************************************************************)
Mine(c) == Worker(c) \/ ServiceFinishes(c) \/ BuildAgain(c)

LEMMA Cases ==
    ASSUME [Next]_vars
    PROVE  (\E c \in Cmd : Mine(c)) \/ (\E f \in File : Edit(f)) \/ UNCHANGED vars
  BY DEF Next, Mine, Over

LEMMA TypedInit == Init => Typed
<1> SUFFICES ASSUME Init  PROVE Typed
  OBVIOUS
<1>1. pc \in [Cmd -> Steps] /\ code \in [Cmd -> {-1, 0, 1}]
  BY DEF Init, Steps
<1>2. offset \in [Cmd -> Nat] /\ pos \in [Cmd -> Nat]
  BY DEF Init
<1>3. PerCommand(todo) /\ PerCommand(missing) /\ PerCommand(temp) /\ PerCommand(disk)
  BY DEF Init, PerCommand
<1>4. PerCommand(hashed)
  <2> DEFINE zero(c) == [f \in Reads[c] |-> 0]
  <2>1. hashed = [c \in Cmd |-> zero(c)]
    BY DEF Init
  <2> HIDE DEF zero
  <2> QED
    BY <2>1 DEF PerCommand
<1> QED
  BY <1>1, <1>2, <1>3, <1>4 DEF Init, Typed

\* What a step of a stream does.
SendsChunk(c) ==
    /\ ~(offset[c] + 1 >= Chunks)
    /\ pos' = [pos EXCEPT ![c] = @ + 1] /\ offset' = [offset EXCEPT ![c] = @ + 1]
    /\ UNCHANGED <<input, services, pc, hashed, todo, missing, temp, tries, op, disk, code,
                   dead, faulted>>

SendsLast(c, b) ==
    /\ Answered(c) /\ Next1(c)
    /\ cas' = cas \cup {b}
    /\ pos' = [pos EXCEPT ![c] = 0] /\ offset' = [offset EXCEPT ![c] = 0]
    /\ UNCHANGED <<input, ac, pc, hashed, missing, temp, op, disk, code>>

ReceivesChunk(c) ==
    /\ offset' = [offset EXCEPT ![c] = @ + 1]
    /\ UNCHANGED <<input, services, pc, hashed, todo, missing, pos, temp, tries, op, disk, code,
                   dead, faulted>>

ReceivesLast(c, b) ==
    /\ Put(c, {b}, [x \in {b} |-> "right"]) /\ Answered(c) /\ Next1(c)
    /\ offset' = [offset EXCEPT ![c] = 0]
    /\ UNCHANGED <<input, services, pc, hashed, missing, pos, op, disk, code>>

Streamed(c) == CHOOSE x \in Head(todo[c]).blobs : TRUE

LEMMA UploadCases ==
    ASSUME NEW c \in Cmd, Upload(c)
    PROVE  \/ pos[c] >= Chunks /\ Fatal(c, FALSE)
           \/ SendsChunk(c)
           \/ ~Intact(Streamed(c)) /\ Fatal(c, FALSE)
           \/ SendsLast(c, Streamed(c))
  BY DEF Upload, SendsChunk, SendsLast, Streamed

LEMMA DownloadCases ==
    ASSUME NEW c \in Cmd, Download(c)
    PROVE  \/ offset[c] < Chunks /\ ReceivesChunk(c)
           \/ ReceivesLast(c, Streamed(c))
           \/ Fatal(c, TRUE)
  BY DEF Download, HasDigest, ReceivesChunk, ReceivesLast, Streamed

\* Each action of a worker, one by one.
LEMMA Actions ==
    ASSUME NEW c \in Cmd, Mine(c)
    PROVE  \/ BuildAction(c) \/ FetchFromActionCache(c) \/ FindMissingBlobs(c) \/ BatchUpload(c)
           \/ Upload(c) \/ Execute(c) \/ ReadOperation(c) \/ Cancel(c) \/ TakeResult(c)
           \/ BatchDownload(c) \/ Download(c) \/ ReadTrees(c) \/ Stage(c) \/ CallFails(c)
           \/ ServiceFinishes(c) \/ BuildAgain(c)
  BY DEF Mine, Worker

LEMMA FatalTyped ==
    ASSUME Typed, NEW c, NEW fault \in BOOLEAN, Fatal(c, fault)
    PROVE  Typed'
  BY DEF Fatal, Typed, PerCommand, services, transfer

LEMMA TypedStep ==
    ASSUME Typed, [Next]_vars
    PROVE  Typed'
<1> USE DEF services, transfer, At, Steps
<1>1. CASE UNCHANGED vars
  BY <1>1 DEF vars, Typed, PerCommand
<1>2. ASSUME NEW f \in File, Edit(f)
      PROVE  Typed'
  BY <1>2 DEF Edit, Typed, PerCommand
<1>3. ASSUME NEW c \in Cmd, Mine(c)
      PROVE  Typed'
  <2>1. CASE BuildAction(c)
    BY <2>1 DEF BuildAction, GoTo, Typed, PerCommand
  <2>2. CASE FetchFromActionCache(c)
    BY <2>2 DEF FetchFromActionCache, Answered, GoTo, Typed, PerCommand
  <2>3. CASE FindMissingBlobs(c)
    BY <2>3 DEF FindMissingBlobs, Answered, GoTo, Typed, PerCommand
  <2>4. CASE BatchUpload(c)
    BY <2>4 DEF BatchUpload, Answered, Next1, Typed, PerCommand
  <2>5. CASE Upload(c)
    <3>1. CASE SendsChunk(c)
      BY <3>1 DEF SendsChunk, Typed, PerCommand
    <3>2. CASE SendsLast(c, Streamed(c))
      BY <3>2 DEF SendsLast, Answered, Next1, Typed, PerCommand
    <3> QED
      BY <2>5, <3>1, <3>2, UploadCases, FatalTyped
  <2>6. CASE Execute(c)
    BY <2>6, FatalTyped DEF Execute, GoTo, Typed, PerCommand
  <2>7. CASE ReadOperation(c)
    BY <2>7 DEF ReadOperation, Answered, GoTo, Typed, PerCommand
  <2>8. CASE Cancel(c)
    BY <2>8, FatalTyped DEF Cancel
  <2>9. CASE TakeResult(c)
    BY <2>9, FatalTyped DEF TakeResult, GoTo, Typed, PerCommand
  <2>10. CASE BatchDownload(c)
    BY <2>10, FatalTyped DEF BatchDownload, Answered, Put, Next1, Typed, PerCommand
  <2>11. CASE Download(c)
    <3>1. CASE ReceivesChunk(c)
      BY <3>1 DEF ReceivesChunk, Typed, PerCommand
    <3>2. CASE ReceivesLast(c, Streamed(c))
      BY <3>2 DEF ReceivesLast, Put, Answered, Next1, Typed, PerCommand
    <3> QED
      BY <2>11, <3>1, <3>2, DownloadCases, FatalTyped
  <2>12. CASE ReadTrees(c)
    BY <2>12 DEF ReadTrees, GoTo, Typed, PerCommand
  <2>13. CASE Stage(c)
    BY <2>13, FatalTyped DEF Stage, GoTo, Typed, PerCommand
  <2>14. CASE CallFails(c)
    <3>1. /\ pc' = IF pc[c] = "read" THEN [pc EXCEPT ![c] = "upload"] ELSE pc
          /\ UNCHANGED <<input, ac, hashed, todo, missing, pos, temp, op, disk, code>>
          /\ faulted' = TRUE
          /\ offset' = offset \/ offset' = [offset EXCEPT ![c] = 0]
          /\ dead' \in BOOLEAN
      BY <2>14 DEF CallFails, TryAgain, Typed
    <3> QED
      BY <3>1 DEF Typed, PerCommand
  <2>15. CASE ServiceFinishes(c)
    BY <2>15 DEF ServiceFinishes, Typed, PerCommand
  <2>16. CASE BuildAgain(c)
    BY <2>16 DEF BuildAgain, GoTo, Typed, PerCommand
  <2> QED
    BY <1>3, Actions, <2>1, <2>2, <2>3, <2>4, <2>5, <2>6, <2>7, <2>8, <2>9, <2>10,
       <2>11, <2>12, <2>13, <2>14, <2>15, <2>16
<1> QED
  BY <1>1, <1>2, <1>3, Cases

\* What a step leaves alone of another command.
KeepsData(d) ==
    /\ pc'[d] = pc[d] /\ hashed'[d] = hashed[d] /\ todo'[d] = todo[d]
    /\ missing'[d] = missing[d] /\ temp'[d] = temp[d]
    /\ disk'[d] = disk[d] /\ code'[d] = code[d]

Kept(d) == KeepsData(d) /\ offset'[d] = offset[d] /\ pos'[d] = pos[d]

LEMMA FatalKept ==
    ASSUME NEW c, NEW fault, Fatal(c, fault)
    PROVE  input' = input /\ cas' = cas /\ faulted' = (faulted \/ fault) /\ \A d : Kept(d)
  BY DEF Fatal, Kept, KeepsData, services, transfer

LEMMA OthersKept ==
    ASSUME Typed, NEW c \in Cmd, Mine(c)
    PROVE  /\ \A d \in Cmd : d # c => Kept(d)
           /\ input' = input /\ cas \subseteq cas' /\ (faulted => faulted')
<1> USE DEF services, transfer, At, Steps
<1> SUFFICES ASSUME NEW d \in Cmd
             PROVE  (d # c => Kept(d)) /\ input' = input /\ cas \subseteq cas' /\ (faulted => faulted')
  OBVIOUS
<1>1. CASE BuildAction(c)
  BY <1>1 DEF BuildAction, GoTo, Typed, PerCommand, Kept, KeepsData
<1>2. CASE FetchFromActionCache(c)
  BY <1>2 DEF FetchFromActionCache, Answered, GoTo, Typed, PerCommand, Kept, KeepsData
<1>3. CASE FindMissingBlobs(c)
  BY <1>3 DEF FindMissingBlobs, Answered, GoTo, Typed, PerCommand, Kept, KeepsData
<1>4. CASE BatchUpload(c)
  BY <1>4 DEF BatchUpload, Answered, Next1, Typed, PerCommand, Kept, KeepsData
<1>5. CASE Upload(c)
  <2>1. CASE SendsChunk(c)
    BY <2>1 DEF SendsChunk, Typed, PerCommand, Kept, KeepsData
  <2>2. CASE SendsLast(c, Streamed(c))
    BY <2>2 DEF SendsLast, Answered, Next1, Typed, PerCommand, Kept, KeepsData
  <2> QED
    BY <1>5, <2>1, <2>2, UploadCases, FatalKept
<1>6. CASE Execute(c)
  BY <1>6, FatalKept DEF Execute, GoTo, Typed, PerCommand, Kept, KeepsData
<1>7. CASE ReadOperation(c)
  BY <1>7 DEF ReadOperation, Answered, GoTo, Typed, PerCommand, Kept, KeepsData
<1>8. CASE Cancel(c)
  BY <1>8, FatalKept DEF Cancel
<1>9. CASE TakeResult(c)
  BY <1>9, FatalKept DEF TakeResult, GoTo, Typed, PerCommand, Kept, KeepsData
<1>10. CASE BatchDownload(c)
  BY <1>10, FatalKept DEF BatchDownload, Answered, Put, Next1, Typed, PerCommand, Kept, KeepsData
<1>11. CASE Download(c)
  <2>1. CASE ReceivesChunk(c)
    BY <2>1 DEF ReceivesChunk, Typed, PerCommand, Kept, KeepsData
  <2>2. CASE ReceivesLast(c, Streamed(c))
    BY <2>2 DEF ReceivesLast, Put, Answered, Next1, Typed, PerCommand, Kept, KeepsData
  <2> QED
    BY <1>11, <2>1, <2>2, DownloadCases, FatalKept
<1>12. CASE ReadTrees(c)
  BY <1>12 DEF ReadTrees, GoTo, Typed, PerCommand, Kept, KeepsData
<1>13. CASE Stage(c)
  BY <1>13, FatalKept DEF Stage, GoTo, Typed, PerCommand, Kept, KeepsData
<1>14. CASE CallFails(c)
  <2>1. /\ pc' = IF pc[c] = "read" THEN [pc EXCEPT ![c] = "upload"] ELSE pc
        /\ UNCHANGED <<input, ac, hashed, todo, missing, pos, temp, op, disk, code>>
        /\ faulted' = TRUE /\ cas \subseteq cas'
        /\ offset' = offset \/ offset' = [offset EXCEPT ![c] = 0]
    BY <1>14 DEF CallFails, TryAgain
  <2> QED
    BY <2>1 DEF Typed, Kept, KeepsData
<1>15. CASE ServiceFinishes(c)
  BY <1>15 DEF ServiceFinishes, Typed, PerCommand, Kept, KeepsData
<1>16. CASE BuildAgain(c)
  BY <1>16 DEF BuildAgain, GoTo, Typed, PerCommand, Kept, KeepsData
<1> QED
  BY Actions, <1>1, <1>2, <1>3, <1>4, <1>5, <1>6, <1>7, <1>8, <1>9, <1>10,
     <1>11, <1>12, <1>13, <1>14, <1>15, <1>16

-----------------------------------------------------------------------------
(***************************************************************************)
(* The blobs of an action, its outputs and its requests.                   *)
(***************************************************************************)
LEMMA NeededFinite ==
    ASSUME NEW c \in Cmd
    PROVE  IsFiniteSet(Needed(c)) /\ Needed(c) # {}
<1> DEFINE blob == [f \in Reads[c] |-> FileBlob(c, f)]
<1>1. IsFiniteSet(Reads[c])
  BY ClientAssumption, FS_Subset
<1>2. IsFiniteSet({blob[f] : f \in Reads[c]})
  BY <1>1, ImageFinite
<1>3. Needed(c) = {blob[f] : f \in Reads[c]} \cup {Action(c)}
  BY DEF Needed
<1> QED
  BY <1>2, <1>3, FS_AddElement

LEMMA ContentsOf ==
    ASSUME NEW c \in Cmd
    PROVE  /\ Outs[c] \in Seq(Content) /\ Trees[c] \in Seq(Seq(Content))
           /\ AllContents(c) \in Seq(Content) /\ Outs[c] \o InTrees(c) \in Seq(Content)
           /\ ToSet(AllContents(c)) = ToSet(Outs[c] \o InTrees(c))
<1>1. Outs[c] \in Seq(Content) /\ Trees[c] \in Seq(Seq(Content))
  BY ClientAssumption
<1>2. IsFiniteSet(ToSet(Trees[c])) /\ ToSet(Trees[c]) \subseteq Seq(Content)
  <2>1. \A i \in 1 .. Len(Trees[c]) : Trees[c][i] \in Seq(Content)
    BY <1>1, ElementOfSeq
  <2> QED
    BY <1>1, <2>1, SelfSeq DEF ToSet
<1> DEFINE each == SetToSeq(ToSet(Trees[c]))
<1>3. each \in Seq(ToSet(Trees[c])) /\ ToSet(each) = ToSet(Trees[c])
  BY <1>2, Listing
<1>4. each \in Seq(Seq(Content))
  BY <1>2, <1>3, SeqMonotonic
<1>5. FlattenSeq(Trees[c]) \in Seq(Content) /\ FlattenSeq(each) \in Seq(Content)
  BY <1>1, <1>4, Places
<1>6. ToSet(FlattenSeq(Trees[c])) = ToSet(FlattenSeq(each))
  BY <1>1, <1>3, <1>4, Flattened
<1> HIDE DEF each
<1>7. \A s : Range(s) = ToSet(s)
  BY DEF Range, ToSet
<1>8. Range(Outs[c] \o FlattenSeq(Trees[c])) = Range(Outs[c] \o FlattenSeq(each))
  <2>1. Range(Outs[c] \o FlattenSeq(Trees[c])) = Range(Outs[c]) \cup Range(FlattenSeq(Trees[c]))
    BY <1>1, <1>5, RangeConcatenation
  <2>2. Range(Outs[c] \o FlattenSeq(each)) = Range(Outs[c]) \cup Range(FlattenSeq(each))
    BY <1>1, <1>5, RangeConcatenation
  <2> QED
    BY <1>6, <1>7, <2>1, <2>2
<1>9. /\ Outs[c] \o FlattenSeq(Trees[c]) \in Seq(Content)
      /\ Outs[c] \o FlattenSeq(each) \in Seq(Content)
  BY <1>1, <1>5, ConcatProperties
<1> QED
  BY <1>1, <1>7, <1>8, <1>9 DEF AllContents, InTrees, each

\* The requests for the trees, and for the files.
LEMMA Downloads ==
    ASSUME NEW c \in Cmd
    PROVE  /\ IsFiniteSet({TreeBlob(c, i) : i \in DOMAIN Trees[c]})
           /\ IsFiniteSet({Product(c, o) : o \in ToSet(Outs[c] \o InTrees(c))})
<1> DEFINE all == Outs[c] \o InTrees(c)
           tree == [i \in DOMAIN Trees[c] |-> TreeBlob(c, i)]
           product == [o \in ToSet(all) |-> Product(c, o)]
<1>1. IsFiniteSet(DOMAIN Trees[c])
  <2>1. DOMAIN Trees[c] = 1 .. Len(Trees[c]) /\ Len(Trees[c]) \in Nat
    BY ContentsOf, SelfSeq
  <2> QED
    BY <2>1, FS_Interval
<1>2. IsFiniteSet(ToSet(all))
  BY ContentsOf, SelfSeq
<1>3. IsFiniteSet({tree[i] : i \in DOMAIN Trees[c]})
  BY <1>1, ImageFinite
<1> HIDE DEF all
<1>4. IsFiniteSet({product[o] : o \in ToSet(all)})
  BY <1>2, ImageFinite
<1> QED
  BY <1>3, <1>4 DEF all

LEMMA RequestsQueued ==
    ASSUME NEW bs, IsFiniteSet(bs)
    PROVE  /\ Requests(bs) \in Seq(ToSet(Requests(bs)))
           /\ \A r \in ToSet(Requests(bs)) : r.kind = "stream" => \E b \in r.blobs : r.blobs = {b}
           /\ UNION {r.blobs : r \in ToSet(Requests(bs))} = bs
<1>1. PerBatch \in Nat /\ PerBatch > 0
  BY ClientAssumption
<1>2. Requests(bs) \in Seq(Request(bs))
  BY <1>1, RequestsCover
<1>3. \A r \in ToSet(Requests(bs)) : r \in Request(bs)
  <2>1. \A i \in 1 .. Len(Requests(bs)) : Requests(bs)[i] \in Request(bs)
    BY <1>2, ElementOfSeq
  <2> QED
    BY <1>2, <2>1, SelfSeq DEF ToSet
<1>4. \A r \in ToSet(Requests(bs)) : r.blobs \subseteq bs
  BY <1>3 DEF Request
<1> QED
  BY <1>1, <1>2, <1>4, RequestsCover, SelfSeq

-----------------------------------------------------------------------------
(***************************************************************************)
(* A step leaves what belongs to its command as the invariant has it.      *)
(***************************************************************************)
Good(c) == Queued(c) /\ Asked(c) /\ Fetched(c) /\ InPlace(c)

LEMMA Finding ==
    ASSUME NEW c \in Cmd
    PROVE  LET R == FindRequests(SetToSeq(Needed(c)))
           IN  /\ R \in Seq(ToSet(R)) /\ R # <<>>
               /\ UNION {ToSet(ds) : ds \in ToSet(R)} = Needed(c)
<1> DEFINE ds == SetToSeq(Needed(c))
           R == FindRequests(ds)
<1>1. ds \in Seq(Needed(c)) /\ ToSet(ds) = Needed(c)
  BY NeededFinite, Listing
<1>2. ds # <<>>
  <2>1. ToSet(<<>>) = {}
    BY DEF ToSet
  <2> QED
    BY <1>1, <2>1, NeededFinite
<1>3. FindLimit \in Nat /\ FindLimit > 0
  BY ClientAssumption
<1> HIDE DEF ds
<1>4. R \in Seq(Seq(Needed(c))) /\ R # <<>> /\ ToSet(ds) \subseteq UNION {ToSet(r) : r \in ToSet(R)}
  BY <1>1, <1>2, <1>3, FindCovers
<1> HIDE DEF R
<1>5. \A r \in ToSet(R) : ToSet(r) \subseteq Needed(c)
  BY <1>4, ElementsIn
<1>6. R \in Seq(ToSet(R))
  BY <1>4, SelfSeq
<1> QED
  BY <1>1, <1>4, <1>5, <1>6 DEF R, ds

LEMMA KeptGood ==
    ASSUME NEW d, KeepsData(d), Good(d)
    PROVE  Good(d)'
<1> USE DEF KeepsData, Good
<1>1. Left(d)' = Left(d) /\ Needed(d)' = Needed(d) /\ \A o : Product(d, o)' = Product(d, o)
  BY DEF Left, Needed, Action, FileBlob, Product
<1>2. Queued(d)'
  BY DEF Queued, Sending
<1>3. Asked(d)'
  BY <1>1 DEF Asked
<1>4. AllContents(d)' = AllContents(d)
  BY DEF AllContents
<1>5. Fetched(d)'
  BY <1>1, <1>4 DEF Fetched
<1>6. InPlace(d)'
  BY <1>4 DEF InPlace
<1> QED
  BY <1>2, <1>3, <1>5, <1>6

\* Steps that lead to no transfer, and change none.
LEMMA QuietGood ==
    ASSUME NEW c, Good(c), todo'[c] = todo[c], missing'[c] = missing[c], temp'[c] = temp[c],
           pc[c] # "find", pc'[c] \notin {"find", "upload", "read", "trees", "files"},
           pc'[c] = "done" => code'[c] # 0
    PROVE  Good(c)'
  BY DEF Good, Queued, Sending, Asked, Fetched, InPlace

\* Receiving blobs that were compared with their digests.
LEMMA PutGood ==
    ASSUME Typed, NEW c \in Cmd, Good(c), pc[c] \in {"trees", "files"}, todo[c] # <<>>,
           NEW data, \A b \in Head(todo[c]).blobs : data[b] = "right",
           Put(c, Head(todo[c]).blobs, data), Next1(c),
           UNCHANGED <<hashed, missing, pc, code>>
    PROVE  Good(c)'
<1> USE DEF Good
<1> DEFINE bs == Head(todo[c]).blobs
           old == temp[c]
<1>1. /\ todo'[c] = Tail(todo[c])
      /\ temp'[c] = [b \in bs \cup DOMAIN old |-> IF b \in bs THEN data[b] ELSE old[b]]
  BY DEF Typed, PerCommand, Next1, Put
<1>2. /\ Tail(todo[c]) \in Seq(ToSet(Tail(todo[c])))
      /\ ToSet(todo[c]) = {Head(todo[c])} \cup ToSet(Tail(todo[c]))
  BY TailOf DEF Queued
<1>3. Queued(c)'
  BY <1>1, <1>2 DEF Queued, Sending
<1>4. Asked(c)'
  BY DEF Asked
<1>5. /\ DOMAIN (temp'[c]) = bs \cup DOMAIN old
      /\ \A b \in DOMAIN (temp'[c]) : temp'[c][b] = "right"
  BY <1>1 DEF Fetched
<1>6. Left(c) = bs \cup Left(c)'
  BY <1>1, <1>2 DEF Left
<1>7. \A o : Product(c, o)' = Product(c, o)
  BY DEF Product
<1>8. Fetched(c)'
  BY <1>5, <1>6, <1>7 DEF Fetched, AllContents
<1>9. InPlace(c)'
  BY DEF InPlace
<1> QED
  BY <1>3, <1>4, <1>8, <1>9

LEMMA ReadTreesGood ==
    ASSUME Typed, NEW c \in Cmd, Good(c), ReadTrees(c)
    PROVE  Good(c)'
<1> USE DEF Good
<1> DEFINE bs == {Product(c, o) : o \in ToSet(Outs[c] \o InTrees(c))}
<1>1. /\ pc[c] = "trees" /\ pc'[c] = "files" /\ todo'[c] = Requests(bs)
      /\ UNCHANGED <<hashed, missing, temp, code>>
  BY DEF ReadTrees, At, GoTo, Typed, PerCommand
<1>2. IsFiniteSet(bs)
  BY Downloads
<1>3. bs = {Product(c, o) : o \in ToSet(AllContents(c))}
  BY ContentsOf
<1> HIDE DEF bs
<1>4. Queued(c)'
  BY <1>1, <1>2, RequestsQueued DEF Queued
<1>5. Left(c)' = bs
  BY <1>1, <1>2, RequestsQueued DEF Left
<1>6. \A o : Product(c, o)' = Product(c, o)
  BY <1>1 DEF Product
<1>7. Fetched(c)'
  BY <1>1, <1>3, <1>5, <1>6 DEF Fetched, AllContents
<1> QED
  BY <1>1, <1>4, <1>7 DEF Asked, InPlace

LEMMA StageGood ==
    ASSUME Typed, NEW c \in Cmd, Good(c), Stage(c), dead' = dead
    PROVE  Good(c)'
<1> USE DEF Good
<1> DEFINE all == AllContents(c)
<1>1. /\ pc[c] = "files" /\ todo[c] = <<>> /\ todo' = todo /\ pc'[c] = "done"
      /\ disk'[c] = [i \in DOMAIN all |-> <<all[i], temp[c][Product(c, all[i])]>>]
      /\ temp'[c] = <<>> /\ UNCHANGED <<hashed, missing, code>>
  <2>1. ~Fatal(c, FALSE)
    BY DEF Fatal, Stage, At
  <2> QED
    BY <2>1 DEF Stage, At, GoTo, Typed, PerCommand, AllContents
<1>2. Left(c) = {}
  <2>1. ToSet(<<>>) = {}
    BY DEF ToSet
  <2> QED
    BY <1>1, <2>1 DEF Left
<1>3. \A i \in DOMAIN all : temp[c][Product(c, all[i])] = "right"
  <2>1. \A i \in DOMAIN all : all[i] \in ToSet(all)
    BY DEF ToSet
  <2> QED
    BY <1>1, <1>2, <2>1 DEF Fetched
<1>4. InPlace(c)'
  BY <1>1, <1>3 DEF InPlace, AllContents
<1>5. DOMAIN (temp'[c]) = {}
  BY <1>1
<1> QED
  BY <1>1, <1>4, <1>5 DEF Queued, Sending, Asked, Fetched

LEMMA FindGood ==
    ASSUME Typed, NEW c \in Cmd, Good(c), FindMissingBlobs(c)
    PROVE  Good(c)'
<1> USE DEF Good
<1> DEFINE found == missing[c] \cup (ToSet(Head(todo[c])) \ cas)
<1>1. /\ pc[c] = "find" /\ UNCHANGED <<hashed, temp, code>>
      /\ \/ /\ Len(todo[c]) > 1
            /\ missing'[c] = found /\ todo'[c] = Tail(todo[c]) /\ pc'[c] = "find"
         \/ missing'[c] = {} /\ todo'[c] = Requests(found) /\ pc'[c] = "upload"
  BY DEF FindMissingBlobs, At, GoTo, Typed, PerCommand
<1>2. todo[c] # <<>> /\ todo[c] \in Seq(ToSet(todo[c]))
  BY <1>1 DEF Asked, Queued
<1>3. /\ Tail(todo[c]) \in Seq(ToSet(Tail(todo[c]))) /\ Head(todo[c]) \in ToSet(todo[c])
      /\ ToSet(Tail(todo[c])) \subseteq ToSet(todo[c])
      /\ Len(todo[c]) > 1 => Tail(todo[c]) # <<>>
  <2>1. Len(todo[c]) \in Nat /\ Len(Tail(todo[c])) = Len(todo[c]) - 1 /\ Len(<<>>) = 0
    BY <1>2, HeadTailProperties
  <2>2. ASSUME Tail(todo[c]) = <<>>  PROVE ~(Len(todo[c]) > 1)
    <3> DEFINE n == Len(todo[c])
               t == Tail(todo[c])
    <3>1. n \in Nat /\ Len(t) = n - 1 /\ Len(t) = 0
      BY <2>1, <2>2
    <3> HIDE DEF n, t
    <3>2. n = 1
      BY <3>1
    <3> QED
      BY <3>2 DEF n
  <2>3. /\ Tail(todo[c]) \in Seq(ToSet(Tail(todo[c]))) /\ Head(todo[c]) \in ToSet(todo[c])
        /\ ToSet(todo[c]) = {Head(todo[c])} \cup ToSet(Tail(todo[c]))
    BY <1>2, TailOf
  <2> QED
    BY <2>2, <2>3
<1>4. found \subseteq Needed(c)
  BY <1>1, <1>3 DEF Asked
<1>5. IsFiniteSet(found)
  BY <1>4, NeededFinite, FS_Subset
<1>6. Needed(c)' = Needed(c)
  BY <1>1 DEF Needed, Action, FileBlob
<1> HIDE DEF found
<1>7. Fetched(c)' /\ InPlace(c)'
  BY <1>1 DEF Fetched, InPlace
<1>8. Queued(c)'
  BY <1>1, <1>3, <1>5, RequestsQueued DEF Queued, Sending
<1>9. Asked(c)'
  BY <1>1, <1>3, <1>4, <1>6 DEF Asked
<1> QED
  BY <1>7, <1>8, <1>9

LEMMA GoodStep ==
    ASSUME Typed, NEW c \in Cmd, Good(c), Mine(c)
    PROVE  Good(c)'
<1>0. \A fault : Fatal(c, fault) => Good(c)'
  BY FatalKept, KeptGood DEF Kept
<1>1. CASE BuildAction(c)
  BY <1>1, QuietGood DEF BuildAction, At, GoTo, transfer, Typed, PerCommand
<1>2. CASE FetchFromActionCache(c)
  <2>1. CASE Action(c) \in ac
    BY <1>2, <2>1, QuietGood DEF FetchFromActionCache, At, GoTo, Typed, PerCommand
  <2>2. CASE Action(c) \notin ac
    <3>1. /\ pc[c] = "lookup" /\ pc'[c] = "find" /\ UNCHANGED <<hashed, missing, temp, code>>
          /\ todo'[c] = FindRequests(SetToSeq(Needed(c)))
      BY <1>2, <2>2 DEF FetchFromActionCache, At, GoTo, Typed, PerCommand
    <3>2. Needed(c)' = Needed(c)
      BY <3>1 DEF Needed, Action, FileBlob
    <3>3. Asked(c)'
      BY <3>1, <3>2, Finding DEF Good, Asked
    <3>4. Queued(c)'
      BY <3>1, Finding DEF Queued, Sending
    <3> QED
      BY <3>1, <3>3, <3>4 DEF Good, Fetched, InPlace
  <2> QED
    BY <2>1, <2>2
<1>3. CASE FindMissingBlobs(c)
  BY <1>3, FindGood
<1>4. ASSUME pc[c] = "upload", todo[c] # <<>>, Next1(c), UNCHANGED <<hashed, pc, missing, temp, code>>
      PROVE  Good(c)'
  <2>1. todo'[c] = Tail(todo[c])
    BY <1>4 DEF Next1, Typed, PerCommand
  <2> QED
    BY <1>4, <2>1, TailOf DEF Good, Queued, Sending, Asked, Fetched, InPlace
<1>5. CASE BatchUpload(c)
  BY <1>4, <1>5 DEF BatchUpload, At, Sends
<1>6. CASE Upload(c)
  <2>1. CASE SendsChunk(c)
    BY <2>1, KeptGood DEF SendsChunk, KeepsData
  <2>2. CASE SendsLast(c, Streamed(c))
    BY <1>4, <1>6, <2>2 DEF SendsLast, Upload, At, Sends
  <2> QED
    BY <1>0, <1>6, <2>1, <2>2, UploadCases
<1>7. CASE Execute(c)
  <2>1. CASE ~Fatal(c, FALSE)
    <3>1. pc[c] = "upload" /\ pc'[c] = "read" /\ UNCHANGED <<hashed, todo, missing, temp, code>>
      BY <1>7, <2>1 DEF Execute, At, GoTo, transfer, Typed
    <3> QED
      BY <3>1 DEF Good, Queued, Sending, Asked, Fetched, InPlace
  <2> QED
    BY <1>0, <2>1
<1>8. CASE ReadOperation(c)
  BY <1>8, QuietGood DEF ReadOperation, At, GoTo, transfer, Typed
<1>9. CASE Cancel(c)
  BY <1>0, <1>9 DEF Cancel
<1>10. CASE TakeResult(c)
  <2> DEFINE bs == {TreeBlob(c, i) : i \in DOMAIN Trees[c]}
  <2>1. CASE ~Fatal(c, FALSE)
    <3>1. /\ pc[c] = "result" /\ UNCHANGED <<hashed, missing, temp>> /\ todo'[c] = Requests(bs)
          /\ \/ code'[c] = 0 /\ pc'[c] = "trees"
             \/ code'[c] = 1 /\ pc'[c] = "done"
      BY <1>10, <2>1 DEF TakeResult, At, GoTo, Typed, PerCommand
    <3>2. IsFiniteSet(bs)
      BY Downloads
    <3> HIDE DEF bs
    <3>3. Queued(c)'
      BY <3>1, <3>2, RequestsQueued DEF Queued
    <3> QED
      BY <3>1, <3>3 DEF Good, Asked, Fetched, InPlace
  <2> QED
    BY <1>0, <2>1
<1>11. CASE BatchDownload(c)
  <2>1. CASE ~Fatal(c, TRUE)
    <3> DEFINE bs == Head(todo[c]).blobs
    <3>1. PICK data : (\A b \in bs : HasDigest(data[b])) /\ Put(c, bs, data) /\ Next1(c)
                      /\ UNCHANGED <<hashed, missing, pc, code>>
      BY <1>11, <2>1, Zenon DEF BatchDownload
    <3>2. pc[c] \in {"trees", "files"} /\ todo[c] # <<>>
      BY <1>11 DEF BatchDownload, At, Sends
    <3> QED
      BY <3>1, <3>2, PutGood DEF HasDigest
  <2> QED
    BY <1>0, <2>1
<1>12. CASE Download(c)
  <2>1. CASE ReceivesChunk(c)
    BY <2>1, KeptGood DEF ReceivesChunk, KeepsData
  <2>2. CASE ReceivesLast(c, Streamed(c))
    <3>1. pc[c] \in {"trees", "files"} /\ todo[c] # <<>> /\ Head(todo[c]).kind = "stream"
      BY <1>12 DEF Download, At, Sends
    <3>2. PICK b : Head(todo[c]).blobs = {b}
      BY <3>1, TailOf DEF Good, Queued, Sending
    <3>3. Streamed(c) = b
      BY <3>2 DEF Streamed
    <3> DEFINE data == [x \in {b} |-> "right"]
    <3>4. \A x \in {b} : data[x] = "right"
      OBVIOUS
    <3>5. Put(c, Head(todo[c]).blobs, data) /\ Next1(c) /\ UNCHANGED <<hashed, missing, pc, code>>
      BY <2>2, <3>2, <3>3 DEF ReceivesLast
    <3> HIDE DEF data
    <3> QED
      BY <3>1, <3>2, <3>4, <3>5, PutGood
  <2> QED
    BY <1>0, <1>12, <2>1, <2>2, DownloadCases
<1>13. CASE ReadTrees(c)
  BY <1>13, ReadTreesGood
<1>14. CASE Stage(c)
  <2>1. Fatal(c, FALSE) \/ dead' = dead
    BY <1>14 DEF Stage
  <2> QED
    BY <1>0, <1>14, <2>1, StageGood
<1>15. CASE CallFails(c)
  <2>1. /\ pc' = IF pc[c] = "read" THEN [pc EXCEPT ![c] = "upload"] ELSE pc
        /\ UNCHANGED <<hashed, todo, missing, temp, disk, code>>
    BY <1>15 DEF CallFails
  <2>2. CASE pc[c] = "read"
    <3>1. pc'[c] = "upload"
      BY <2>1, <2>2 DEF Typed
    <3> QED
      BY <2>1, <2>2, <3>1 DEF Good, Queued, Sending, Asked, Fetched, InPlace
  <2>3. CASE pc[c] # "read"
    <3>1. pc' = pc
      BY <2>1, <2>3
    <3> QED
      BY <2>1, <3>1, KeptGood DEF KeepsData
  <2> QED
    BY <2>2, <2>3
<1>16. CASE ServiceFinishes(c)
  BY <1>16, KeptGood DEF ServiceFinishes, KeepsData, transfer
<1>17. CASE BuildAgain(c)
  BY <1>17, QuietGood DEF BuildAgain, At, GoTo, transfer, Typed
<1> QED
  BY Actions, <1>1, <1>2, <1>3, <1>5, <1>6, <1>7, <1>8, <1>9, <1>10, <1>11, <1>12, <1>13,
     <1>14, <1>15, <1>16, <1>17

LEMMA ClientInit == Init => ClientInv
<1> SUFFICES ASSUME Init  PROVE ClientInv
  OBVIOUS
<1>1. \A c \in Cmd : pc[c] = "start" /\ todo[c] = <<>> /\ missing[c] = {} /\ temp[c] = <<>>
  BY DEF Init
<1>2. ToSet(<<>>) = {} /\ <<>> \in Seq({}) /\ DOMAIN <<>> = {}
  BY DEF ToSet
<1> QED
  BY <1>1, <1>2, TypedInit DEF ClientInv, Queued, Sending, Asked, Fetched, InPlace

LEMMA ClientStep == ClientInv /\ [Next]_vars => ClientInv'
<1> SUFFICES ASSUME ClientInv, [Next]_vars  PROVE ClientInv'
  OBVIOUS
<1>1. Typed /\ Typed'
  BY TypedStep DEF ClientInv
<1>2. \A d \in Cmd : Good(d)
  BY DEF ClientInv, Good
<1>3. ASSUME NEW c \in Cmd, Mine(c), NEW d \in Cmd
      PROVE  Good(d)'
  BY <1>1, <1>2, <1>3, OthersKept, KeptGood, GoodStep DEF Kept
<1>4. ASSUME UNCHANGED vars \/ \E f \in File : Edit(f), NEW d \in Cmd
      PROVE  Good(d)'
  BY <1>2, <1>4, KeptGood DEF vars, Edit, transfer, KeepsData
<1>5. \A d \in Cmd : Good(d)'
  BY <1>3, <1>4, Cases
<1> QED
  BY <1>1, <1>5 DEF ClientInv, Good

\* Always: what is received has been compared with its digest, every output is
\* received or asked for until it is staged, and what is asked of the store
\* belongs to the action (ExecutionContext::Execute, CASClient).
THEOREM AlwaysClientInv == Spec => []ClientInv
  BY ClientInit, ClientStep, PTL DEF Spec

\* A command that ends with 0 has every output in place, with the content it makes
\* of its inputs, whatever calls failed, were repeated or answered with damaged
\* data (DownloadOutputs, StageDownloadedFile).
THEOREM OutputsAreAlwaysRight == Spec => []OutputsAreRight
<1>1. ClientInv => OutputsAreRight
  BY DEF ClientInv, InPlace, OutputsAreRight, AllContents
<1> QED
  BY <1>1, AlwaysClientInv, PTL

-----------------------------------------------------------------------------
(***************************************************************************)
(* What is staged twice is known to be, if the command's trees differ.     *)
(***************************************************************************)
\* The output directories of a command differ.
TreesDiffer(c) == \A i, j \in DOMAIN Trees[c] : Trees[c][i] = Trees[c][j] => i = j

LEMMA RepeatedIsKnown ==
    ASSUME NEW c \in Cmd, TreesDiffer(c), NEW p \in DOMAIN AllContents(c), NEW q \in 1 .. p - 1,
           AllContents(c)[p] = AllContents(c)[q]
    PROVE  AllContents(c)[p] \in Duplicates(c)
<1> DEFINE o == Outs[c]
           each == SetToSeq(ToSet(Trees[c]))
           F == FlattenSeq(Trees[c])
           G == FlattenSeq(each)
           x == AllContents(c)[p]
           known == o \o G
<1>1. o \in Seq(Content) /\ Trees[c] \in Seq(Seq(Content)) /\ ToSet(Trees[c]) \subseteq Seq(Content)
  BY ContentsOf, ElementsIn
<1>2. IsFiniteSet(ToSet(Trees[c]))
  BY <1>1, SelfSeq
<1>3. each \in Seq(Seq(Content)) /\ ToSet(each) = ToSet(Trees[c])
  <2>1. each \in Seq(ToSet(Trees[c])) /\ ToSet(each) = ToSet(Trees[c])
    BY <1>2, Listing
  <2> QED
    BY <1>1, <2>1, SeqMonotonic
<1> HIDE DEF each
<1>4. F \in Seq(Content) /\ G \in Seq(Content)
  BY <1>1, <1>3, Places
<1>5. /\ Len(o) \in Nat /\ Len(F) \in Nat /\ Len(G) \in Nat
      /\ DOMAIN F = 1 .. Len(F) /\ DOMAIN G = 1 .. Len(G)
  BY <1>1, <1>4, LenProperties
<1>6. /\ DOMAIN AllContents(c) = 1 .. Len(o) + Len(F)
      /\ \A i \in 1 .. Len(o) + Len(F) : AllContents(c)[i] = IF i <= Len(o) THEN o[i] ELSE F[i - Len(o)]
  BY <1>1, <1>4, Joined DEF AllContents
<1>7. /\ DOMAIN known = 1 .. Len(o) + Len(G)
      /\ \A i \in 1 .. Len(o) + Len(G) : known[i] = IF i <= Len(o) THEN o[i] ELSE G[i - Len(o)]
  BY <1>1, <1>4, Joined
<1> HIDE DEF o, F, G, known, x
\* Two places of an output in what is known are enough.
<1>8. ASSUME NEW v \in 1 .. Len(o) + Len(G), NEW w \in 1 .. Len(o) + Len(G), v # w,
             known[v] = x, known[w] = x
      PROVE  x \in Duplicates(c)
  <2>1. Duplicates(c) = {known[i] : i \in {j \in DOMAIN known : \E k \in 1 .. j - 1 : known[k] = known[j]}}
    BY DEF Duplicates, InTrees, known, o, G, each
  <2>2. v \in 1 .. w - 1 \/ w \in 1 .. v - 1
    BY <1>5, <1>8
  <2> QED
    BY <1>7, <1>8, <2>1, <2>2
<1>9. p \in 1 .. Len(o) + Len(F) /\ q \in 1 .. Len(o) + Len(F) /\ q < p
  BY <1>5, <1>6
<1>10. AllContents(c)[p] = x /\ AllContents(c)[q] = x
  BY DEF x
<1>11. CASE p <= Len(o)
  <2>1. /\ p \in 1 .. Len(o) + Len(G) /\ q \in 1 .. Len(o) + Len(G) /\ q <= Len(o) /\ p # q
    BY <1>5, <1>9, <1>11
  <2>2. known[p] = x /\ known[q] = x
    BY <1>6, <1>7, <1>9, <1>10, <1>11, <2>1
  <2> QED
    BY <1>8, <2>1, <2>2 DEF x
<1>12. CASE ~(p <= Len(o)) /\ q <= Len(o)
  <2>1. q \in 1 .. Len(o) + Len(G) /\ p - Len(o) \in 1 .. Len(F)
    BY <1>5, <1>9, <1>12
  <2>2. known[q] = x /\ F[p - Len(o)] = x
    BY <1>6, <1>7, <1>9, <1>10, <1>12, <2>1
  <2>3. x \in ToSet(G)
    <3>1. x \in ToSet(F)
      BY <1>5, <2>1, <2>2 DEF ToSet
    <3>2. ToSet(F) = ToSet(G)
      BY <1>1, <1>3, Flattened DEF F, G
    <3> QED
      BY <3>1, <3>2
  <2>4. PICK k \in 1 .. Len(G) : G[k] = x
    BY <1>5, <2>3 DEF ToSet
  <2>5. /\ Len(o) + k \in 1 .. Len(o) + Len(G) /\ ~(Len(o) + k <= Len(o)) /\ Len(o) + k # q
        /\ (Len(o) + k) - Len(o) = k
    BY <1>5, <1>9, <1>12
  <2>6. known[Len(o) + k] = x
    BY <1>7, <2>4, <2>5
  <2> QED
    BY <1>8, <2>1, <2>2, <2>5, <2>6 DEF x
<1>13. CASE ~(p <= Len(o)) /\ ~(q <= Len(o))
  <2>1. p - Len(o) \in 1 .. Len(F) /\ q - Len(o) \in 1 .. Len(F) /\ p - Len(o) # q - Len(o)
    BY <1>5, <1>9, <1>13
  <2>2. F[p - Len(o)] = x /\ F[q - Len(o)] = x
    BY <1>6, <1>9, <1>10, <1>13
  <2>3. \A i, j \in DOMAIN Trees[c] : Trees[c][i] = Trees[c][j] => i = j
    BY DEF TreesDiffer
  <2>4. PICK v \in DOMAIN G, w \in DOMAIN G : v # w /\ G[v] = x /\ G[w] = x
    <3>1. p - Len(o) \in DOMAIN F /\ q - Len(o) \in DOMAIN F
      BY <1>5, <2>1
    <3>2. ToSet(Trees[c]) \subseteq ToSet(each)
      BY <1>3
    <3>3. RepeatedAlike(F, G)
      BY <1>1, <1>3, <2>3, <3>2, TwiceInBoth DEF F, G
    <3> QED
      BY <2>1, <2>2, <3>1, <3>3 DEF RepeatedAlike
  <2>5. /\ Len(o) + v \in 1 .. Len(o) + Len(G) /\ ~(Len(o) + v <= Len(o)) /\ (Len(o) + v) - Len(o) = v
        /\ Len(o) + w \in 1 .. Len(o) + Len(G) /\ ~(Len(o) + w <= Len(o)) /\ (Len(o) + w) - Len(o) = w
        /\ Len(o) + v # Len(o) + w
    BY <1>5, <2>4
  <2>6. known[Len(o) + v] = x /\ known[Len(o) + w] = x
    BY <1>7, <2>4, <2>5
  <2> QED
    BY <1>8, <2>5, <2>6 DEF x
<1> QED
  BY <1>11, <1>12, <1>13

-----------------------------------------------------------------------------
(***************************************************************************)
(* A step that has no cause outside leaves every command unharmed, and     *)
(* ninja alive, or its command is one that ninja dies of.                  *)
(***************************************************************************)
Deadly(c) == NoFiles(c) \/ EqualTrees(c)

\* A step of a command that leaves it unharmed, or has a cause outside.
Fine(c) == faulted' \/ ((dead' => Deadly(c)') /\ Unharmed(c)')

LEMMA KeptUnharmed ==
    ASSUME NEW d, Kept(d), Unharmed(d), cas \subseteq cas',
           pc[d] \notin {"start", "done"} => \A f \in Reads[d] : input'[f] = input[f]
    PROVE  Unharmed(d)'
<1> USE DEF Kept, KeepsData
<1>1. Needed(d)' = Needed(d) /\ Left(d)' = Left(d)
  BY DEF Needed, Action, FileBlob, Left
<1> QED
  BY <1>1 DEF Unharmed, Sending, Sends

\* No transfer is under way before, and none has begun after.
LEMMA QuietUnharmed ==
    ASSUME NEW c, Unharmed(c), ~Sending(c) \/ todo[c] = <<>> \/ ~Sends(c, "stream"),
           pc'[c] \notin {"find", "upload"}, offset'[c] = offset[c], pos'[c] = pos[c],
           pc'[c] \notin {"start", "done"} => \A f \in Reads[c] : input'[f] = hashed'[c][f]
    PROVE  Unharmed(c)'
<1>1. offset[c] = 0
  BY DEF Unharmed, Sends
<1> QED
  BY <1>1 DEF Unharmed

LEMMA AllIntact ==
    ASSUME NEW c \in Cmd, pc[c] = "upload", Unharmed(c), NEW b \in Left(c)
    PROVE  Intact(b)
<1>1. b \in Needed(c)
  BY DEF Unharmed
<1>2. CASE b = Action(c)
  BY <1>2 DEF Action, Intact
<1>3. CASE \E f \in Reads[c] : b = FileBlob(c, f)
  BY <1>3 DEF FileBlob, Intact, Unharmed
<1> QED
  BY <1>1, <1>2, <1>3 DEF Needed

\* A request is done, and its blobs are in the store.
LEMMA SentUnharmed ==
    ASSUME Typed, NEW c \in Cmd, Good(c), Unharmed(c), pc[c] = "upload", todo[c] # <<>>, Next1(c),
           Head(todo[c]).blobs \subseteq cas', cas \subseteq cas',
           UNCHANGED <<input, hashed, pc>>, offset'[c] = 0, pos'[c] = 0
    PROVE  Unharmed(c)'
<1>1. todo'[c] = Tail(todo[c])
  BY DEF Next1, Typed, PerCommand
<1>2. ToSet(todo[c]) = {Head(todo[c])} \cup ToSet(Tail(todo[c]))
  BY TailOf DEF Good, Queued
<1>3. Left(c) = Head(todo[c]).blobs \cup Left(c)'
  BY <1>1, <1>2 DEF Left
<1>4. Needed(c)' = Needed(c)
  BY DEF Needed, Action, FileBlob
<1> QED
  BY <1>3, <1>4 DEF Unharmed, Chunks

LEMMA NothingLeft ==
    ASSUME NEW c, todo[c] = <<>>
    PROVE  Left(c) = {} /\ ~Sends(c, "stream")
  BY DEF Left, ToSet, Sends

LEMMA FindUnharmed ==
    ASSUME Typed, NEW c \in Cmd, Good(c), Unharmed(c), FindMissingBlobs(c)
    PROVE  Unharmed(c)'
<1> DEFINE found == missing[c] \cup (ToSet(Head(todo[c])) \ cas)
<1>1. /\ pc[c] = "find" /\ UNCHANGED <<input, cas, hashed, offset, pos>>
      /\ \/ /\ Len(todo[c]) > 1
            /\ missing'[c] = found /\ todo'[c] = Tail(todo[c]) /\ pc'[c] = "find"
         \/ /\ ~(Len(todo[c]) > 1)
            /\ missing'[c] = {} /\ todo'[c] = Requests(found) /\ pc'[c] = "upload"
  BY DEF FindMissingBlobs, At, GoTo, Typed, PerCommand, services
<1>2. todo[c] # <<>> /\ todo[c] \in Seq(ToSet(todo[c]))
  BY <1>1 DEF Good, Asked, Queued
<1>3. /\ ToSet(todo[c]) = {Head(todo[c])} \cup ToSet(Tail(todo[c])) /\ Head(todo[c]) \in ToSet(todo[c])
  BY <1>2, TailOf
<1>4. ~(Len(todo[c]) > 1) => ToSet(Tail(todo[c])) = {}
  <2> DEFINE s == todo[c]
  <2>1. s \in Seq(ToSet(s)) /\ s # <<>>
    BY <1>2
  <2> HIDE DEF s
  <2>2. Len(s) \in Nat
    BY <2>1, LenProperties
  <2>3. Tail(s) \in Seq(ToSet(s)) /\ Len(Tail(s)) = Len(s) - 1
    BY <2>1, HeadTailProperties
  <2>4. DOMAIN Tail(s) = 1 .. Len(Tail(s))
    BY <2>3, LenProperties
  <2>5. ~(Len(s) > 1) => DOMAIN Tail(s) = {}
    BY <2>2, <2>3, <2>4
  <2> QED
    BY <2>5 DEF ToSet, s
<1>5. Needed(c)' = Needed(c)
  BY <1>1 DEF Needed, Action, FileBlob
<1>6. Needed(c) \subseteq cas \cup found \cup UNION {ToSet(ds) : ds \in ToSet(Tail(todo[c]))}
  BY <1>1, <1>3 DEF Unharmed
<1>7. found \subseteq Needed(c)
  BY <1>1, <1>3 DEF Good, Asked
<1>8. IsFiniteSet(found)
  BY <1>7, NeededFinite, FS_Subset
<1> HIDE DEF found
<1>9. offset[c] = 0 /\ pos[c] = 0
  BY <1>1 DEF Unharmed, Sending
<1>10. CASE pc'[c] = "find"
  BY <1>1, <1>5, <1>6, <1>9, <1>10 DEF Unharmed
<1>11. CASE pc'[c] = "upload"
  <2>1. todo'[c] = Requests(found) /\ ToSet(Tail(todo[c])) = {}
    BY <1>1, <1>4, <1>11
  <2>2. Left(c)' = found
    BY <1>8, <2>1, RequestsQueued DEF Left
  <2>3. Needed(c) \subseteq cas \cup found
    BY <1>6, <2>1
  <2> QED
    BY <1>1, <1>5, <1>7, <1>9, <1>11, <2>2, <2>3 DEF Unharmed, Chunks
<1> QED
  BY <1>1, <1>10, <1>11

LEMMA StageFine ==
    ASSUME NEW c \in Cmd, TreesDiffer(c), Stage(c)
    PROVE  dead' = dead
<1> DEFINE all == Outs[c] \o FlattenSeq(Trees[c])
           moved(i) == {all[j] : j \in 1 .. i - 1} \ Duplicates(c)
<1>1. ASSUME NEW i \in DOMAIN all, all[i] \in moved(i)
      PROVE  FALSE
  <2>1. PICK j \in 1 .. i - 1 : all[i] = all[j]
    BY <1>1
  <2>2. all[i] \in Duplicates(c)
    BY <2>1, RepeatedIsKnown DEF AllContents
  <2> QED
    BY <1>1, <2>2
<1>2. IF \E i \in DOMAIN all : all[i] \in moved(i) THEN TRUE ELSE dead' = dead
  BY DEF Stage
<1> QED
  BY <1>1, <1>2

LEMMA FatalUnharmed ==
    ASSUME NEW c, Unharmed(c), NEW fault, Fatal(c, fault)
    PROVE  Unharmed(c)'
<1>1. Kept(c) /\ cas' = cas /\ input' = input
  BY FatalKept
<1> QED
  BY <1>1, KeptUnharmed

LEMMA MineFine ==
    ASSUME Typed, NEW c \in Cmd, Good(c), Unharmed(c), ~dead, Mine(c)
    PROVE  Fine(c)
<1>0. Fatal(c, TRUE) => Fine(c)
  BY DEF Fatal, Fine
<1> DEFINE same == \A f \in Reads[c] : input[f] = hashed[c][f]
<1>1. CASE BuildAction(c)
  <2>1. /\ pc[c] = "start" /\ pc'[c] = "lookup" /\ UNCHANGED <<input, todo, offset, pos, dead>>
        /\ hashed'[c] = [f \in Reads[c] |-> input[f]]
    BY <1>1 DEF BuildAction, At, GoTo, transfer, Typed, PerCommand
  <2>2. \A f \in Reads[c] : input'[f] = hashed'[c][f]
    BY <2>1
  <2> QED
    BY <2>1, <2>2, QuietUnharmed DEF Fine, Sending
<1>2. CASE FetchFromActionCache(c)
  <2>1. CASE Action(c) \in ac
    <3>1. pc[c] = "lookup" /\ pc'[c] = "result" /\ UNCHANGED <<input, hashed, offset, pos, dead>>
      BY <1>2, <2>1 DEF FetchFromActionCache, At, GoTo, Answered, Typed
    <3>2. same
      BY <3>1 DEF Unharmed
    <3> QED
      BY <3>1, <3>2, QuietUnharmed DEF Fine, Sending
  <2>2. CASE Action(c) \notin ac
    <3>1. /\ pc[c] = "lookup" /\ pc'[c] = "find" /\ UNCHANGED <<input, hashed, missing, offset, pos, dead>>
          /\ todo'[c] = FindRequests(SetToSeq(Needed(c)))
      BY <1>2, <2>2 DEF FetchFromActionCache, At, GoTo, Answered, Typed, PerCommand
    <3>2. Needed(c)' = Needed(c)
      BY <3>1 DEF Needed, Action, FileBlob
    <3>3. offset[c] = 0 /\ pos[c] = 0 /\ same
      BY <3>1 DEF Unharmed, Sending
    <3> QED
      BY <3>1, <3>2, <3>3, Finding DEF Fine, Unharmed
  <2> QED
    BY <2>1, <2>2
<1>3. CASE FindMissingBlobs(c)
  BY <1>3, FindUnharmed DEF Fine, FindMissingBlobs, Answered
<1>4. CASE BatchUpload(c)
  <2>1. /\ pc[c] = "upload" /\ Sends(c, "batch") /\ Next1(c)
        /\ cas' = cas \cup {b \in Head(todo[c]).blobs : Intact(b)}
        /\ UNCHANGED <<input, hashed, pc, offset, pos, dead>>
    BY <1>4 DEF BatchUpload, At, Answered
  <2>2. todo[c] # <<>> /\ Head(todo[c]).blobs \subseteq Left(c)
    BY <2>1, TailOf DEF Sends, Left, Good, Queued
  <2>3. Head(todo[c]).blobs \subseteq cas'
    BY <2>1, <2>2, AllIntact
  <2>4. offset[c] = 0 /\ pos[c] = 0
    BY <2>1 DEF Unharmed, Sends
  <2> QED
    BY <2>1, <2>2, <2>3, <2>4, SentUnharmed DEF Fine
<1>5. CASE Upload(c)
  <2>1. pc[c] = "upload" /\ Sends(c, "stream")
    BY <1>5 DEF Upload, At
  <2>2. offset[c] \in Nat /\ pos[c] = offset[c] /\ offset[c] < Chunks
    BY <2>1 DEF Unharmed, Typed
  <2>3. todo[c] # <<>> /\ Head(todo[c]) \in ToSet(todo[c])
    BY <2>1, TailOf DEF Sends, Good, Queued
  <2>4. PICK b : Head(todo[c]).blobs = {b}
    BY <2>1, <2>3 DEF Good, Queued, Sending, Sends
  <2>5. Streamed(c) = b /\ b \in Left(c)
    BY <2>3, <2>4 DEF Streamed, Left
  <2>6. CASE SendsChunk(c)
    <3>1. /\ pos'[c] = pos[c] + 1 /\ offset'[c] = offset[c] + 1 /\ offset[c] + 1 < Chunks
          /\ UNCHANGED <<input, cas, pc, hashed, todo, missing, dead>>
      BY <2>2, <2>6 DEF SendsChunk, Typed, services, Chunks
    <3>2. Needed(c)' = Needed(c) /\ Left(c)' = Left(c) /\ Sends(c, "stream")'
      BY <2>1, <3>1 DEF Needed, Action, FileBlob, Left, Sends
    <3> QED
      BY <2>1, <2>2, <3>1, <3>2 DEF Fine, Unharmed, Sending
  <2>7. CASE SendsLast(c, Streamed(c))
    <3>1. /\ Next1(c) /\ cas' = cas \cup {b} /\ pos'[c] = 0 /\ offset'[c] = 0
          /\ UNCHANGED <<input, hashed, pc, dead>>
      BY <2>5, <2>7 DEF SendsLast, Answered, Typed
    <3> QED
      BY <2>1, <2>3, <2>4, <3>1, SentUnharmed DEF Fine
  <2>8. Intact(Streamed(c))
    BY <2>1, <2>5, AllIntact
  <2>9. ~(pos[c] >= Chunks)
    BY <2>2 DEF Chunks
  <2> QED
    BY <1>5, <2>6, <2>7, <2>8, <2>9, UploadCases
<1>6. CASE Execute(c)
  <2>1. pc[c] = "upload" /\ todo[c] = <<>>
    BY <1>6 DEF Execute, At
  <2>2. Needed(c) \subseteq cas
    BY <2>1, NothingLeft DEF Unharmed
  <2>3. pc'[c] = "read" /\ UNCHANGED <<input, hashed, offset, pos, dead>>
    BY <1>6, <2>2 DEF Execute, GoTo, transfer, Typed
  <2>4. same
    BY <2>1 DEF Unharmed
  <2> QED
    BY <2>1, <2>3, <2>4, QuietUnharmed DEF Fine
<1>7. CASE ReadOperation(c)
  <2>1. pc[c] = "read" /\ pc'[c] = "result" /\ UNCHANGED <<input, hashed, offset, pos, dead>>
    BY <1>7 DEF ReadOperation, At, GoTo, Answered, transfer, Typed
  <2>2. same
    BY <2>1 DEF Unharmed
  <2> QED
    BY <2>1, <2>2, QuietUnharmed DEF Fine, Sending
<1>8. CASE Cancel(c)
  BY <1>0, <1>8 DEF Cancel
<1>9. CASE TakeResult(c)
  <2>1. CASE ~Fatal(c, FALSE)
    <3>1. /\ pc[c] = "result" /\ pc'[c] \in {"trees", "done"}
          /\ UNCHANGED <<input, hashed, offset, pos, dead>>
      BY <1>9, <2>1 DEF TakeResult, At, GoTo, Typed
    <3>2. same
      BY <3>1 DEF Unharmed
    <3> QED
      BY <3>1, <3>2, QuietUnharmed DEF Fine, Sending
  <2>2. CASE Fatal(c, FALSE)
    <3>1. NoFiles(c)'
      BY <1>9, <2>2 DEF TakeResult, Fatal, At, GoTo, NoFiles, services
    <3> QED
      BY <2>2, <3>1, FatalUnharmed DEF Fine, Deadly
  <2> QED
    BY <2>1, <2>2
<1>10. CASE BatchDownload(c)
  <2>1. CASE ~Fatal(c, TRUE)
    <3>1. /\ pc[c] \in {"trees", "files"} /\ Sends(c, "batch")
          /\ UNCHANGED <<input, hashed, pc, offset, pos, dead>>
      BY <1>10, <2>1 DEF BatchDownload, At, Answered
    <3>2. same
      BY <3>1 DEF Unharmed
    <3>3. ~Sends(c, "stream")
      BY <3>1 DEF Sends
    <3> QED
      BY <3>1, <3>2, <3>3, QuietUnharmed DEF Fine
  <2> QED
    BY <1>0, <2>1
<1>11. CASE Download(c)
  <2>1. pc[c] \in {"trees", "files"} /\ Sends(c, "stream")
    BY <1>11 DEF Download, At
  <2>2. same /\ pos[c] = 0
    BY <2>1 DEF Unharmed
  <2>3. CASE ReceivesChunk(c)
    <3>1. UNCHANGED <<input, hashed, pc, pos, todo, dead>>
      BY <2>3 DEF ReceivesChunk
    <3>2. Sends(c, "stream")' /\ Sending(c)'
      BY <2>1, <3>1 DEF Sends, Sending
    <3> QED
      BY <2>1, <2>2, <3>1, <3>2 DEF Fine, Unharmed
  <2>4. CASE ReceivesLast(c, Streamed(c))
    <3>1. offset'[c] = 0 /\ UNCHANGED <<input, hashed, pc, pos, dead>>
      BY <2>4 DEF ReceivesLast, Answered, Typed
    <3> QED
      BY <2>1, <2>2, <3>1 DEF Fine, Unharmed
  <2> QED
    BY <1>0, <1>11, <2>3, <2>4, DownloadCases
<1>12. CASE ReadTrees(c)
  <2>1. /\ pc[c] = "trees" /\ pc'[c] = "files" /\ todo[c] = <<>>
        /\ UNCHANGED <<input, hashed, offset, pos, dead>>
    BY <1>12 DEF ReadTrees, At, GoTo, Typed
  <2>2. same
    BY <2>1 DEF Unharmed
  <2> QED
    BY <2>1, <2>2, QuietUnharmed DEF Fine
<1>13. CASE Stage(c)
  <2>1. CASE ~Fatal(c, FALSE)
    <3>1. /\ pc[c] = "files" /\ pc'[c] = "done" /\ todo[c] = <<>>
          /\ UNCHANGED <<offset, pos, dead>>
      BY <1>13, <2>1 DEF Stage, At, GoTo, Typed
    <3> QED
      BY <3>1, QuietUnharmed DEF Fine
  <2>2. CASE Fatal(c, FALSE)
    <3>1. ~TreesDiffer(c)
      BY <1>13, <2>2, StageFine DEF Fatal
    <3>2. pc[c] = "files" /\ pc' = pc
      BY <1>13, <2>2 DEF Stage, At, Fatal
    <3>3. EqualTrees(c)'
      BY <3>1, <3>2 DEF EqualTrees, TreesDiffer
    <3> QED
      BY <2>2, <3>3, FatalUnharmed DEF Fine, Deadly
  <2> QED
    BY <2>1, <2>2
<1>14. CASE CallFails(c)
  BY <1>14 DEF CallFails, Fine
<1>15. CASE ServiceFinishes(c)
  <2>1. Kept(c) /\ input' = input /\ cas \subseteq cas' /\ dead' = dead
    BY <1>15 DEF ServiceFinishes, Kept, KeepsData, transfer
  <2> QED
    BY <2>1, KeptUnharmed DEF Fine
<1>16. CASE BuildAgain(c)
  <2>1. pc[c] = "done" /\ pc'[c] = "start" /\ UNCHANGED <<offset, pos, dead>>
    BY <1>16 DEF BuildAgain, At, GoTo, transfer, Typed
  <2> QED
    BY <2>1, QuietUnharmed DEF Fine, Sending
<1> QED
  BY Actions, <1>1, <1>2, <1>3, <1>4, <1>5, <1>6, <1>7, <1>8, <1>9, <1>10, <1>11, <1>12,
     <1>13, <1>14, <1>15, <1>16

LEMMA HarmInit == Init => HarmInv
<1> SUFFICES ASSUME Init  PROVE HarmInv
  OBVIOUS
<1>1. \A c \in Cmd : pc[c] = "start" /\ pos[c] = 0 /\ offset[c] = 0
  BY DEF Init
<1> QED
  BY <1>1 DEF Init, HarmInv, OnlyFaultsKill, Unharmed

\* When ninja is dead only the service still runs.
LEMMA DeadStep ==
    ASSUME Typed, \A d \in Cmd : Good(d), dead, ~faulted, HarmInv, [Next]_vars
    PROVE  HarmInv'
<1>1. PICK c \in Cmd : Deadly(c)
  BY DEF HarmInv, OnlyFaultsKill, Deadly
<1>2. \A d \in Cmd : Unharmed(d)
  BY DEF HarmInv
<1>3. ASSUME NEW e \in Cmd, Mine(e)
      PROVE  ServiceFinishes(e)
  BY <1>3, Actions DEF At, BuildAction, FetchFromActionCache, FindMissingBlobs, BatchUpload,
     Upload, Execute, ReadOperation, Cancel, TakeResult, BatchDownload, Download, ReadTrees,
     Stage, CallFails, BuildAgain
<1>4. ASSUME NEW e \in Cmd, ServiceFinishes(e)
      PROVE  HarmInv'
  <2>1. \A d \in Cmd : Kept(d) /\ cas \subseteq cas' /\ input' = input
    BY <1>4 DEF ServiceFinishes, Kept, KeepsData, transfer
  <2>2. op[e] = "running" /\ \A d \in Cmd : d # e => op'[d] = op[d]
    BY <1>4 DEF ServiceFinishes, Typed
  <2>3. Deadly(c)'
    BY <1>1, <2>1, <2>2 DEF Deadly, NoFiles, EqualTrees, Kept, KeepsData
  <2>4. \A d \in Cmd : Unharmed(d)'
    BY <1>2, <2>1, KeptUnharmed
  <2> QED
    BY <2>3, <2>4 DEF HarmInv, OnlyFaultsKill, Deadly
<1>5. CASE UNCHANGED vars
  <2>1. \A d \in Cmd : Kept(d) /\ cas' = cas /\ input' = input
    BY <1>5 DEF vars, Kept, KeepsData, services, transfer
  <2>2. \A d \in Cmd : Unharmed(d)'
    BY <1>2, <2>1, KeptUnharmed
  <2>3. Deadly(c)'
    BY <1>1, <1>5 DEF Deadly, NoFiles, EqualTrees, vars
  <2> QED
    BY <2>2, <2>3 DEF HarmInv, OnlyFaultsKill, Deadly
<1>6. ASSUME NEW f \in File, Edit(f)
      PROVE  FALSE
  BY <1>6 DEF Edit
<1> QED
  BY <1>3, <1>4, <1>5, <1>6, Cases

LEMMA HarmStep ==
    ASSUME ClientInv, HarmInv, [Next]_vars
    PROVE  HarmInv'
<1>1. Typed /\ \A d \in Cmd : Good(d)
  BY DEF ClientInv, Good
<1>2. CASE faulted
  <2>1. faulted'
    <3>1. ASSUME NEW c \in Cmd, Mine(c)  PROVE faulted'
      BY <1>1, <1>2, <3>1, OthersKept
    <3> QED
      BY <1>2, <3>1, Cases DEF vars, Edit
  <2> QED
    BY <2>1 DEF HarmInv, OnlyFaultsKill
<1>3. CASE ~faulted /\ dead
  BY <1>1, <1>3, DeadStep
<1>4. CASE ~faulted /\ ~dead
  <2>1. ~dead /\ \A d \in Cmd : Unharmed(d)
    BY <1>4 DEF HarmInv
  <2>2. ASSUME NEW c \in Cmd, Mine(c)
        PROVE  HarmInv'
    <3>1. Fine(c)
      BY <1>1, <2>1, <2>2, MineFine
    <3>2. ASSUME NEW d \in Cmd, d # c  PROVE Unharmed(d)'
      BY <1>1, <2>1, <2>2, <3>2, OthersKept, KeptUnharmed
    <3> QED
      BY <3>1, <3>2 DEF Fine, HarmInv, OnlyFaultsKill, Deadly
  <2>3. ASSUME NEW f \in File, Edit(f)
        PROVE  HarmInv'
    <3> SUFFICES ASSUME ~faulted', NEW d \in Cmd  PROVE Unharmed(d)' /\ ~dead'
      BY <2>1, <2>3 DEF HarmInv, OnlyFaultsKill, Edit
    <3>1. Kept(d) /\ cas' = cas /\ dead' = dead
      BY <2>3 DEF Edit, Kept, KeepsData, services, transfer
    <3>2. pc[d] \notin {"start", "done"} => \A g \in Reads[d] : input'[g] = input[g]
      <4>1. pc[d] \notin {"start", "done"} => f \notin Reads[d]
        BY <2>3 DEF Edit
      <4>2. \A g \in Reads[d] : g \in File
        BY ClientAssumption
      <4> QED
        BY <1>1, <2>3, <4>1, <4>2 DEF Edit, Typed
    <3> QED
      BY <2>1, <3>1, <3>2, KeptUnharmed
  <2>4. CASE UNCHANGED vars
    <3>1. \A d \in Cmd : Kept(d) /\ cas' = cas /\ input' = input /\ dead' = dead
      BY <2>4 DEF vars, Kept, KeepsData, services, transfer
    <3>2. \A d \in Cmd : Unharmed(d)'
      BY <2>1, <3>1, KeptUnharmed
    <3> QED
      BY <2>1, <2>4, <3>2 DEF HarmInv, OnlyFaultsKill, vars
  <2> QED
    BY <2>2, <2>3, <2>4, Cases
<1> QED
  BY <1>2, <1>3, <1>4

\* A worker calls Fatal only after a fault outside of ninja, for a success without
\* output files, or for equal output directories: the store has all blobs when the
\* service is asked to execute, a file is sent from where it is read, and any other
\* file that is staged twice is known to be (UploadBlobs, Upload,
\* duplicate_file_digests).
THEOREM OnlyFaultsEverKill == Spec => []OnlyFaultsKill
<1>1. ClientInv /\ HarmInv /\ [Next]_vars => HarmInv'
  BY HarmStep
<1>2. HarmInv => OnlyFaultsKill
  BY DEF HarmInv
<1> QED
  BY <1>1, <1>2, HarmInit, AlwaysClientInv, PTL DEF Spec
=============================================================================
