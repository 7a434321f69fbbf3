------------------------------ MODULE BatchProofs ------------------------------
(***************************************************************************)
(* What CreateBatch says about its items is true, for every number of      *)
(* items, chunk size, number of failures and other requests.               *)
(***************************************************************************)
EXTENDS BatchService, TLAPS

\* The loop that publishes the items, and the indices it runs over.
InLoop == batchPc \in {"publish", "queued", "failed"}
Positions == 1..Len(BatchItems)

\* Which rows are in, and how far the counters can be.
RowsInv ==
    /\ \A n \in published : status[n] # "ABSENT"
    /\ batchPc = "idle" =>
        batchStatus = "ABSENT" /\ nextItem = 1 /\ \A n \in Members : status[n] = "ABSENT"
    /\ batchPc = "insert" =>
        \A i \in Positions : status[BatchItems[i]] = "ABSENT" <=> i >= nextItem
    /\ InLoop => \A n \in Members : status[n] # "ABSENT"
    /\ batchPc \in {"idle", "insert", "giveUp"} => failed = 0
    /\ InLoop => failed < nextItem + (IF batchPc = "failed" THEN 1 ELSE 0)
    /\ batchPc = "failed" => failed > 0
    /\ batchPc \in {"insert", "giveUp"} \/ InLoop => batchStatus = "PROCESSING"
    /\ batchPc # "returned" => answer = "none"

\* The inductive invariant of the request.
BatchInv == BatchTypeOK /\ RowsInv

-------------------------------------------------------------------------------
(* The request.                                                            *)

\* The items are notifications, and each has one position.
LEMMA ItemsAreMembers ==
    /\ Len(BatchItems) \in Nat /\ ChunkSize \in Nat \ {0}
    /\ \A i \in Positions : BatchItems[i] \in Members
    /\ Members \subseteq Notifications
    /\ \A n \in Members : \E i \in Positions : n = BatchItems[i]
    /\ \A i, j \in Positions : BatchItems[i] = BatchItems[j] => i = j
BY BatchAssumption DEF Members, Positions

\* A chunk is the items of the next positions.
LEMMA ChunkPositions ==
    ASSUME nextItem \in Nat \ {0}
    PROVE  /\ Chunk \subseteq Members
           /\ \A i \in Positions : BatchItems[i] \in Chunk <=>
                nextItem <= i /\ i < nextItem + ChunkSize
           /\ Chunk = {} <=> nextItem > Len(BatchItems)
<1>1. \A n \in Chunk : \E i \in Positions :
        n = BatchItems[i] /\ nextItem <= i /\ i < nextItem + ChunkSize
    BY ItemsAreMembers DEF Chunk, Positions
<1>2. \A i \in Positions : nextItem <= i /\ i < nextItem + ChunkSize => BatchItems[i] \in Chunk
    BY ItemsAreMembers DEF Chunk, Positions
<1>3. nextItem <= Len(BatchItems) => nextItem \in Positions
    BY ItemsAreMembers DEF Positions
<1>4. Chunk # {} => nextItem <= Len(BatchItems)
    BY <1>1, ItemsAreMembers DEF Positions
<1>5. Chunk \subseteq Members
    BY <1>1, ItemsAreMembers
<1>6. nextItem <= Len(BatchItems) => Chunk # {}
    BY <1>2, <1>3, ItemsAreMembers
<1>7. \A i \in Positions : BatchItems[i] \in Chunk => nextItem <= i /\ i < nextItem + ChunkSize
    BY <1>1, ItemsAreMembers
<1> QED
    BY <1>2, <1>4, <1>5, <1>6, <1>7, ItemsAreMembers

\* Where the loops over the items are, and how many of them have failed.
LEMMA Cursors ==
    ASSUME BatchTypeOK, RowsInv
    PROVE  /\ nextItem \in Nat \ {0} /\ nextItem <= Len(BatchItems) + ChunkSize
           /\ failed \in Nat /\ failed <= Len(BatchItems)
           /\ batchPc \in {"queued", "failed"} => nextItem \in Positions
           /\ batchPc \in {"publish", "queued"} => failed < nextItem
           /\ batchPc = "failed" => failed <= nextItem
           /\ published \subseteq Notifications
<1>1. /\ nextItem \in 1..(Len(BatchItems) + ChunkSize) /\ failed \in 0..Len(BatchItems)
      /\ batchPc \in {"queued", "failed"} => nextItem <= Len(BatchItems)
      /\ published \subseteq Notifications
    BY Zenon DEF BatchTypeOK
<1>2. /\ batchPc \in {"publish", "queued"} => failed < nextItem + 0
      /\ batchPc = "failed" => failed < nextItem + 1
    BY Zenon DEF RowsInv, InLoop
<1> QED
    BY <1>1, <1>2, ItemsAreMembers DEF Positions

-------------------------------------------------------------------------------
(* Types.                                                                  *)

\* A call that leaves the table alone.
LEMMA TableUnchanged ==
    ASSUME RepoTypeOK, UNCHANGED repoVars
    PROVE  RepoTypeOK'
BY DEF RepoTypeOK, repoVars, Channel

\* One INSERT of a chunk.
LEMMA InsertType ==
    ASSUME RepoTypeOK, NEW c \in [Chunk -> Channel], NEW key \in [Chunk -> Keys \cup {NoKey}],
           NEW sched \in [Chunk -> RequestedSchedules], InsertRows(c, key, sched)
    PROVE  RepoTypeOK'
<1>1. \A n \in Chunk : /\ c[n] \in Channel /\ key[n] \in Keys \cup {NoKey}
                      /\ sched[n] \in Instant
    BY BatchAssumption
<1>2. status' \in [Notifications -> Status \cup {"ABSENT"}]
    BY DEF RepoTypeOK, InsertRows, Status
<1>3. /\ channel' \in [Notifications -> Channel] /\ scheduledAt' \in [Notifications -> Instant]
      /\ idempotencyKey' \in [Notifications -> Keys \cup {NoKey}]
    BY <1>1 DEF RepoTypeOK, InsertRows
<1>4. /\ maxRetries' \in [Notifications -> Nat]
      /\ \A n \in Notifications : status'[n] # "ABSENT" => maxRetries'[n] > 0
    BY DEF RepoTypeOK, InsertRows
<1> QED
    BY <1>2, <1>3, <1>4 DEF RepoTypeOK, InsertRows, Channel

\* Create of another notification.
LEMMA OtherCreateType ==
    ASSUME RepoTypeOK, NEW n \in Notifications, NEW k \in Keys \cup {NoKey},
           Create(n, SupportedChannels[1], k, "null", 1)
    PROVE  RepoTypeOK'
<1>1. SupportedChannels[1] \in Channel
    BY RepoAssumption DEF Channel
<1> QED
    BY <1>1 DEF RepoTypeOK, Create, Channel, Status, Instant

-------------------------------------------------------------------------------
(* The rest of the system.                                                 *)

\* Others keep the rows of the batch in the table, bring none back to ACCEPTED
\* and publish only what is in and scheduled.
OthersDo ==
    /\ RepoTypeOK'
    /\ published \subseteq published' /\ published' \subseteq Notifications
    /\ taken' \subseteq published'
    /\ \A n \in published' \ published : status[n] # "ABSENT" /\ scheduledAt[n] = "due"
    /\ \A n \in Notifications : status[n] # "ABSENT" => status'[n] # "ABSENT"
    /\ \A n \in Members :
        /\ status[n] = "ABSENT" => status'[n] = "ABSENT"
        /\ status'[n] = "ACCEPTED" => status[n] = "ACCEPTED"
        /\ scheduledAt'[n] = "null" <=> scheduledAt[n] = "null"
    /\ UNCHANGED <<faults, batchStatus, callVars>>

\* A statement that writes the status of one row.
LEMMA RowWrittenDoes ==
    ASSUME BatchInv, NEW n \in Notifications, NEW x \in Status \cup {"ABSENT"},
           status' = [status EXCEPT ![n] = x],
           x = "ABSENT" <=> status[n] = "ABSENT", x = "ACCEPTED" => status[n] = "ACCEPTED",
           UNCHANGED <<scheduledAt, nextRetryAt, attemptCount, maxRetries,
                       channel, idempotencyKey, providerMessageID, attempts>>,
           published' = published, taken' \subseteq published,
           UNCHANGED <<faults, batchStatus, callVars>>
    PROVE  OthersDo
<1>1. RepoTypeOK /\ published \subseteq Notifications
    BY DEF BatchInv, BatchTypeOK
<1>2. status' \in [Notifications -> Status \cup {"ABSENT"}]
    BY <1>1 DEF RepoTypeOK
<1>3. /\ \A m \in Notifications : status'[m] = "ABSENT" <=> status[m] = "ABSENT"
      /\ \A m \in Notifications : status'[m] = "ACCEPTED" => status[m] = "ACCEPTED"
    BY <1>1 DEF RepoTypeOK
<1>4. RepoTypeOK'
    BY <1>1, <1>2, <1>3, Zenon DEF RepoTypeOK, Channel
<1> QED
    BY <1>1, <1>3, <1>4, ItemsAreMembers DEF OthersDo

\* Workers, scanners, cancels, time and other requests.
LEMMA OthersStep ==
    ASSUME BatchInv, Others
    PROVE  OthersDo
<1>1. PICK n \in Notifications :
        \/ OtherCreate(n) \/ Scan(n) \/ ScanMark(n) \/ WorkerClaim(n) \/ WorkerWrites(n)
        \/ (Cancel(n) \/ ScheduleFallsDue(n)) /\ UNCHANGED otherVars
    BY DEF Others
<1>2. UNCHANGED <<faults, batchStatus, callVars>>
    BY DEF Others
<1>3. /\ RepoTypeOK /\ published \subseteq Notifications /\ taken \subseteq published
      /\ status[n] \in Status \cup {"ABSENT"}
      /\ \A m \in published : status[m] # "ABSENT"
    BY Zenon DEF BatchInv, BatchTypeOK, RepoTypeOK, RowsInv
<1>4. CASE OtherCreate(n)
    <2>1. PICK k \in Keys \cup {NoKey} : Create(n, SupportedChannels[1], k, "null", 1)
        BY <1>4 DEF OtherCreate
    <2>2. RepoTypeOK'
        BY <1>3, <2>1, OtherCreateType
    <2>3. \A m \in Notifications : status[m] # "ABSENT" => status'[m] # "ABSENT"
        BY <1>3, <2>1 DEF Create, RepoTypeOK
    <2>4. \A m \in Members : status'[m] = status[m] /\ scheduledAt'[m] = scheduledAt[m]
        BY <1>3, <1>4, <2>1, ItemsAreMembers DEF OtherCreate, Create, RepoTypeOK
    <2>5. published' = published /\ taken' = taken
        BY <1>4 DEF OtherCreate, otherVars
    <2> QED
        BY <1>2, <1>3, <2>2, <2>3, <2>4, <2>5 DEF OthersDo
<1>5. CASE Scan(n)
    <2>1. RepoTypeOK'
        BY <1>3, <1>5, TableUnchanged DEF Scan
    <2> QED
        BY <1>2, <1>3, <1>5, <2>1 DEF Scan, OthersDo, repoVars
<1>6. CASE ScheduleFallsDue(n) /\ UNCHANGED otherVars
    <2>1. RepoTypeOK'
        BY <1>3, <1>6 DEF ScheduleFallsDue, RepoTypeOK, Instant, Channel
    <2>2. \A m \in Notifications : scheduledAt'[m] = "null" <=> scheduledAt[m] = "null"
        BY <1>3, <1>6 DEF ScheduleFallsDue, RepoTypeOK
    <2> QED
        BY <1>2, <1>3, <1>6, <2>1, <2>2, ItemsAreMembers DEF ScheduleFallsDue, OthersDo, otherVars
<1>7. CASE Cancel(n) /\ UNCHANGED otherVars
    <2>1. PICK x \in Status \cup {"ABSENT"} :
            /\ x = IF Claimable(n) THEN "CANCELED" ELSE status[n]
            /\ status' = [status EXCEPT ![n] = x]
        BY <1>3, <1>7, Zenon DEF Cancel, Status
    <2> QED
        BY <1>2, <1>3, <1>7, <2>1, RowWrittenDoes, Zenon DEF Cancel, Claimable, otherVars
<1>8. CASE ScanMark(n)
    <2>1. PICK x \in Status \cup {"ABSENT"} :
            /\ x = IF status[n] = "ACCEPTED" THEN "QUEUED" ELSE status[n]
            /\ status' = [status EXCEPT ![n] = x]
        BY <1>3, <1>8, Zenon DEF ScanMark, MarkQueuedIfAccepted, Status
    <2> QED
        BY <1>2, <1>3, <1>8, <2>1, RowWrittenDoes, Zenon
        DEF ScanMark, MarkQueuedIfAccepted, otherVars
<1>9. CASE WorkerClaim(n)
    <2>1. /\ "SENDING" \in Status \cup {"ABSENT"} /\ status' = [status EXCEPT ![n] = "SENDING"]
          /\ status[n] # "ABSENT" /\ taken' \subseteq published /\ published' = published
        BY <1>3, <1>9 DEF WorkerClaim, LockForSending, Claimable, Status
    <2> QED
        BY <1>2, <1>9, <2>1, RowWrittenDoes, Zenon DEF WorkerClaim, LockForSending
<1>10. CASE WorkerWrites(n)
    <2>1. PICK x \in {"SENT", "FAILED", "QUEUED"} : UpdateStatus(n, x)
        BY <1>10 DEF WorkerWrites
    <2>2. status[n] # "ABSENT" /\ x \in Status \cup {"ABSENT"}
        BY <1>3, <1>10 DEF WorkerWrites, Status
    <2> QED
        BY <1>2, <1>3, <1>10, <2>1, <2>2, RowWrittenDoes, Zenon
        DEF WorkerWrites, UpdateStatus, otherVars
<1> QED
    BY <1>1, <1>4, <1>5, <1>6, <1>7, <1>8, <1>9, <1>10

-------------------------------------------------------------------------------
(* The types hold.                                                         *)

\* What an UpdateStatus of the loop does to the rows, whatever its outcome.
LEMMA MarkDoes ==
    ASSUME BatchInv, NEW x \in {"QUEUED", "FAILED"}, NEW applied \in BOOLEAN,
           batchPc \in {"queued", "failed"},
           IF applied THEN UpdateStatus(BatchItems[nextItem], x) ELSE UNCHANGED repoVars
    PROVE  /\ RepoTypeOK' /\ scheduledAt' = scheduledAt
           /\ \A m \in Notifications :
                /\ status'[m] = "ABSENT" <=> status[m] = "ABSENT"
                /\ status'[m] = "ACCEPTED" => status[m] = "ACCEPTED"
           /\ applied => status'[BatchItems[nextItem]] = x
<1>1. /\ RepoTypeOK /\ nextItem \in Positions
      /\ BatchItems[nextItem] \in Notifications /\ status[BatchItems[nextItem]] # "ABSENT"
    BY ItemsAreMembers, Cursors, Zenon DEF BatchInv, BatchTypeOK, RowsInv, InLoop
<1>2. CASE applied
    <2>1. /\ status' = [status EXCEPT ![BatchItems[nextItem]] = x]
          /\ status \in [Notifications -> Status \cup {"ABSENT"}]
        BY <1>1, <1>2 DEF UpdateStatus, RepoTypeOK
    <2>2. /\ status' \in [Notifications -> Status \cup {"ABSENT"}]
          /\ status'[BatchItems[nextItem]] = x
          /\ \A m \in Notifications :
                /\ status'[m] = "ABSENT" <=> status[m] = "ABSENT"
                /\ status'[m] = "ACCEPTED" => status[m] = "ACCEPTED"
        BY <1>1, <2>1 DEF Status
    <2>3. RepoTypeOK'
        BY <1>1, <1>2, <2>2, Zenon DEF RepoTypeOK, UpdateStatus, Channel
    <2> QED
        BY <1>2, <2>2, <2>3 DEF UpdateStatus
<1>3. CASE ~applied
    BY <1>1, <1>3, TableUnchanged DEF repoVars
<1> QED
    BY <1>2, <1>3

\* An insert, whatever its outcome.
LEMMA InsertDoes ==
    ASSUME BatchInv, NEW applied \in BOOLEAN, NEW replied \in BOOLEAN,
           InsertChunk(applied, replied)
    PROVE  /\ RepoTypeOK' /\ nextItem <= Len(BatchItems)
           /\ \A m \in Notifications \ Chunk :
                status'[m] = status[m] /\ scheduledAt'[m] = scheduledAt[m]
           /\ \A m \in Chunk : IF applied THEN status'[m] = "ACCEPTED"
                               ELSE status'[m] = status[m] /\ scheduledAt'[m] = scheduledAt[m]
<1>1. RepoTypeOK /\ nextItem \in Nat \ {0} /\ nextItem <= Len(BatchItems)
    BY ItemsAreMembers, ChunkPositions DEF BatchInv, BatchTypeOK, InsertChunk
<1>2. PICK c \in [Chunk -> Channel], key \in [Chunk -> Keys \cup {NoKey}],
           sched \in [Chunk -> RequestedSchedules] :
        IF applied THEN InsertRows(c, key, sched) ELSE UNCHANGED repoVars
    BY DEF InsertChunk
<1>3. RepoTypeOK'
    BY <1>1, <1>2, InsertType, TableUnchanged
<1>4. Chunk \subseteq Notifications
    BY <1>1, ChunkPositions, ItemsAreMembers
<1> QED
    BY <1>1, <1>2, <1>3, <1>4 DEF InsertRows, repoVars

\* Every step keeps the types.
LEMMA BatchTypeStep ==
    ASSUME BatchInv, [BatchNext]_vars
    PROVE  BatchTypeOK'
<1> USE ItemsAreMembers
<1> BatchTypeOK /\ RowsInv
    BY DEF BatchInv
<1>1. CASE RefuseBatch /\ UNCHANGED taken
    BY <1>1, TableUnchanged DEF RefuseBatch, BatchTypeOK
<1>2. CASE InsertConflicts /\ UNCHANGED taken
    BY <1>2, TableUnchanged DEF InsertConflicts, BatchTypeOK
<1>3. CASE StartLoop /\ UNCHANGED taken
    BY <1>3, TableUnchanged DEF StartLoop, BatchTypeOK
<1>4. CASE SkipItem /\ UNCHANGED taken
    BY <1>4, TableUnchanged DEF SkipItem, NextItem, BatchTypeOK
<1>5. ASSUME NEW enqueued \in BOOLEAN, NEW ok \in BOOLEAN, BatchPublish(enqueued, ok),
             UNCHANGED taken
      PROVE  BatchTypeOK'
    <2>1. RepoTypeOK' /\ BatchItems[nextItem] \in Members
        BY <1>5, TableUnchanged DEF BatchPublish, BatchTypeOK, Positions
    <2>2. faults' \in 0..MaxFaults /\ failed' \in 0..Len(BatchItems)
        BY <1>5, MaxFaultsAssumption DEF BatchPublish, BatchTypeOK, RowsInv, InLoop, Fault
    <2>3. reported' \in [Members -> {"ACCEPTED", "QUEUED", "FAILED"}]
        BY <1>5, <2>1 DEF BatchPublish, BatchTypeOK
    <2>4. published' \subseteq Notifications /\ taken' \subseteq published'
        BY <1>5, <2>1 DEF BatchPublish, BatchTypeOK
    <2> QED
        BY <1>5, <2>1, <2>2, <2>3, <2>4 DEF BatchPublish, BatchTypeOK
<1>6. ASSUME NEW applied \in BOOLEAN, NEW replied \in BOOLEAN,
             UNCHANGED taken
      PROVE  /\ StartBatch(applied, replied) => BatchTypeOK'
             /\ InsertChunk(applied, replied) => BatchTypeOK'
             /\ GiveUp(applied, replied) => BatchTypeOK'
             /\ MarkQueued(applied, replied) => BatchTypeOK'
             /\ MarkFailed(applied, replied) => BatchTypeOK'
             /\ FinishBatch(applied, replied) => BatchTypeOK'
    <2>1. Outcome(applied, replied) => faults' \in 0..MaxFaults
        BY MaxFaultsAssumption DEF BatchTypeOK, Outcome, Fault
    <2>2. ASSUME StartBatch(applied, replied)
          PROVE  BatchTypeOK'
        BY <1>6, <2>1, <2>2, TableUnchanged, ZenonT(30) DEF StartBatch, BatchTypeOK, BatchStatus
    <2>3. ASSUME InsertChunk(applied, replied)
          PROVE  BatchTypeOK'
        BY <1>6, <2>1, <2>3, InsertDoes DEF InsertChunk, BatchTypeOK
    <2>4. ASSUME GiveUp(applied, replied)
          PROVE  BatchTypeOK'
        BY <1>6, <2>1, <2>4, TableUnchanged DEF GiveUp, BatchTypeOK, BatchStatus
    <2>5. ASSUME MarkQueued(applied, replied)
          PROVE  BatchTypeOK'
        <3>1. RepoTypeOK' /\ BatchItems[nextItem] \in Members
            BY <2>5, Cursors, MarkDoes, Zenon DEF MarkQueued
        <3>2. nextItem' \in 1..(Len(BatchItems) + ChunkSize) /\ failed' \in 0..Len(BatchItems)
            <4>1. /\ nextItem' = nextItem + 1 /\ failed' \in {failed, failed + 1}
                  /\ nextItem \in Positions /\ failed < nextItem
                BY <2>5, Cursors, Zenon DEF MarkQueued, NextItem
            <4> QED
                BY <4>1, Cursors DEF Positions
        <3>3. reported' \in [Members -> {"ACCEPTED", "QUEUED", "FAILED"}]
            BY <2>5, <3>1, Zenon DEF MarkQueued, BatchTypeOK
        <3> QED
            BY <1>6, <2>1, <2>5, <3>1, <3>2, <3>3, Zenon DEF MarkQueued, NextItem, BatchTypeOK
    <2>6. ASSUME MarkFailed(applied, replied)
          PROVE  BatchTypeOK'
        <3>1. /\ RepoTypeOK' /\ nextItem' = nextItem + 1 /\ batchPc' = "publish"
              /\ nextItem \in Positions
            BY <2>6, Cursors, MarkDoes, Zenon DEF MarkFailed, NextItem
        <3>2. nextItem' \in 1..(Len(BatchItems) + ChunkSize)
            BY <3>1 DEF Positions
        <3> QED
            BY <1>6, <2>1, <2>6, <3>1, <3>2, Zenon DEF MarkFailed, BatchTypeOK
    <2>7. ASSUME FinishBatch(applied, replied)
          PROVE  BatchTypeOK'
        <3>1. answer' \in {"none", "invalid", "error", "warning", "accepted"}
            BY <2>7 DEF FinishBatch, HandlerAnswer, BatchTypeOK
        <3> QED
            BY <1>6, <2>1, <2>7, <3>1, TableUnchanged
            DEF FinishBatch, BatchTypeOK, BatchStatus
    <2> QED
        BY <2>2, <2>3, <2>4, <2>5, <2>6, <2>7
<1>8. CASE Others
    BY <1>8, OthersStep DEF OthersDo, BatchTypeOK, callVars
<1>9. CASE BatchCrash
    BY <1>9, TableUnchanged, MaxFaultsAssumption
    DEF BatchCrash, Fault, BatchTypeOK, otherVars
<1>10. CASE UNCHANGED vars
    BY <1>10, TableUnchanged DEF vars, BatchTypeOK, callVars, otherVars
<1> QED
    BY <1>1, <1>2, <1>3, <1>4, <1>5, <1>6, <1>8, <1>9, <1>10 DEF BatchNext, BatchStep

\* Every step keeps track of which rows are in.
LEMMA RowsStep ==
    ASSUME BatchInv, [BatchNext]_vars
    PROVE  RowsInv'
<1> USE ItemsAreMembers
<1> BatchTypeOK /\ RowsInv
    BY DEF BatchInv
<1>1. CASE RefuseBatch /\ UNCHANGED taken
    BY <1>1, Zenon DEF RefuseBatch, RowsInv, InLoop, repoVars
<1>2. CASE InsertConflicts /\ UNCHANGED taken
    BY <1>2, Zenon DEF InsertConflicts, RowsInv, InLoop, repoVars
<1>3. CASE StartLoop /\ UNCHANGED taken
    <2>1. nextItem \in Nat \ {0} /\ nextItem > Len(BatchItems) /\ failed = 0
        BY <1>3, Cursors, ChunkPositions, Zenon DEF StartLoop, RowsInv
    <2>2. \A i \in Positions : ~(i >= nextItem)
        BY <2>1 DEF Positions
    <2>3. \A n \in Members : status[n] # "ABSENT"
        BY <1>3, <2>2, Zenon DEF StartLoop, RowsInv
    <2>4. failed < 1 + 0
        BY <2>1
    <2> QED
        BY <1>3, <2>3, <2>4, Zenon DEF StartLoop, RowsInv, InLoop, repoVars
<1>4. CASE SkipItem /\ UNCHANGED taken
    <2>1. failed < nextItem + 1 + 0
        BY <1>4, Cursors DEF SkipItem
    <2> QED
        BY <1>4, <2>1, Zenon DEF SkipItem, NextItem, RowsInv, InLoop, repoVars
<1>5. ASSUME NEW enqueued \in BOOLEAN, NEW ok \in BOOLEAN, BatchPublish(enqueued, ok)
      PROVE  RowsInv'
    <2>1. /\ BatchItems[nextItem] \in Members /\ status[BatchItems[nextItem]] # "ABSENT"
          /\ failed < nextItem /\ failed \in Nat /\ nextItem \in Nat
        <3>1. nextItem \in Positions
            BY <1>5, Cursors DEF BatchPublish, Positions
        <3> QED
            BY <1>5, <3>1, Cursors, Zenon DEF BatchPublish, RowsInv, InLoop
    <2>2. failed < nextItem + 0 /\ failed + 1 < nextItem + 1 /\ failed + 1 > 0
        BY <2>1
    <2> QED
        BY <1>5, <2>1, <2>2, Zenon DEF BatchPublish, RowsInv, InLoop, repoVars
<1>6. ASSUME NEW applied \in BOOLEAN, NEW replied \in BOOLEAN
      PROVE  /\ StartBatch(applied, replied) => RowsInv'
             /\ InsertChunk(applied, replied) => RowsInv'
             /\ GiveUp(applied, replied) => RowsInv'
             /\ MarkQueued(applied, replied) => RowsInv'
             /\ MarkFailed(applied, replied) => RowsInv'
             /\ FinishBatch(applied, replied) => RowsInv'
    <2>1. ASSUME StartBatch(applied, replied)
          PROVE  RowsInv'
        BY <2>1 DEF StartBatch, Outcome, RowsInv, InLoop, Positions, repoVars
    <2>2. ASSUME InsertChunk(applied, replied)
          PROVE  RowsInv'
        <3>1. /\ nextItem \in Nat \ {0} /\ published \subseteq Notifications
              /\ batchPc = "insert" /\ batchPc' \in {"insert", "giveUp"}
              /\ nextItem' = nextItem + ChunkSize /\ published' = published
              /\ UNCHANGED <<batchStatus, failed, answer>>
              /\ batchPc' = "insert" => applied
            BY <2>2, Cursors, Zenon DEF InsertChunk, Outcome
        <3>2. \A n \in published : status'[n] # "ABSENT"
            BY <2>2, <3>1, InsertDoes DEF RowsInv
        <3>3. ASSUME applied, NEW i \in Positions
              PROVE  status'[BatchItems[i]] = "ABSENT" <=> i >= nextItem'
            <4>1. BatchItems[i] \in Chunk <=> nextItem <= i /\ i < nextItem + ChunkSize
                BY <3>1, ChunkPositions, Zenon
            <4>2. status[BatchItems[i]] = "ABSENT" <=> i >= nextItem
                BY <3>1, Zenon DEF RowsInv
            <4>3. CASE BatchItems[i] \in Chunk
                <5>1. status'[BatchItems[i]] = "ACCEPTED"
                    BY <2>2, <3>3, <4>3, InsertDoes, Zenon
                <5> QED
                    BY <3>1, <4>1, <4>3, <5>1 DEF Positions
            <4>4. CASE BatchItems[i] \notin Chunk
                BY <2>2, <3>1, <4>1, <4>2, <4>4, InsertDoes DEF Positions
            <4> QED
                BY <4>3, <4>4
        <3> QED
            BY <3>1, <3>2, <3>3, Zenon DEF RowsInv, InLoop
    <2>3. ASSUME GiveUp(applied, replied)
          PROVE  RowsInv'
        BY <2>3, Zenon DEF GiveUp, RowsInv, InLoop, repoVars
    <2>4. ASSUME MarkQueued(applied, replied)
          PROVE  RowsInv'
        <3>1. /\ \A m \in Notifications : status'[m] = "ABSENT" <=> status[m] = "ABSENT"
              /\ published \subseteq Notifications /\ published' = published
              /\ batchPc' = "publish" /\ nextItem' = nextItem + 1
              /\ failed' \in {failed, failed + 1} /\ failed < nextItem
              /\ failed \in Nat /\ nextItem \in Nat
            BY <2>4, Cursors, MarkDoes, Zenon DEF MarkQueued, NextItem
        <3>2. failed' < nextItem' + 0
            BY <3>1
        <3> QED
            BY <2>4, <3>1, <3>2, Zenon DEF MarkQueued, RowsInv, InLoop
    <2>5. ASSUME MarkFailed(applied, replied)
          PROVE  RowsInv'
        <3>1. /\ \A m \in Notifications : status'[m] = "ABSENT" <=> status[m] = "ABSENT"
              /\ published \subseteq Notifications /\ published' = published
              /\ batchPc' = "publish" /\ nextItem' = nextItem + 1
              /\ failed' = failed /\ failed <= nextItem /\ failed \in Nat /\ nextItem \in Nat
            BY <2>5, Cursors, MarkDoes, Zenon DEF MarkFailed, NextItem
        <3>2. failed' < nextItem' + 0
            BY <3>1
        <3> QED
            BY <2>5, <3>1, <3>2, Zenon DEF MarkFailed, RowsInv, InLoop
    <2>6. ASSUME FinishBatch(applied, replied)
          PROVE  RowsInv'
        BY <2>6, Zenon DEF FinishBatch, RowsInv, InLoop, repoVars
    <2> QED
        BY <2>1, <2>2, <2>3, <2>4, <2>5, <2>6, Zenon
<1>7. CASE UNCHANGED vars
    BY <1>7, ZenonT(30) DEF vars, RowsInv, InLoop, callVars, otherVars, repoVars
<1>8. CASE Others
    <2>1. OthersDo /\ published \subseteq Notifications
        BY <1>8, OthersStep, Zenon DEF BatchTypeOK
    <2>2. \A n \in published' : status'[n] # "ABSENT"
        BY <2>1 DEF OthersDo, RowsInv
    <2>3. \A n \in Members : status'[n] = "ABSENT" <=> status[n] = "ABSENT"
        BY <2>1, Zenon DEF OthersDo
    <2> QED
        BY <2>1, <2>2, <2>3 DEF OthersDo, RowsInv, InLoop, callVars
<1>9. CASE BatchCrash
    BY <1>9 DEF BatchCrash, RowsInv, InLoop, otherVars, repoVars
<1> QED
    BY <1>1, <1>2, <1>3, <1>4, <1>5, <1>6, <1>7, <1>8, <1>9 DEF BatchNext, BatchStep

\* The types and the rows hold initially and are kept.
LEMMA BatchInvStep ==
    /\ BatchInit => BatchInv
    /\ BatchInv /\ [BatchNext]_vars => BatchInv'
<1>1. ASSUME BatchInit
      PROVE  BatchInv
    <2>1. SupportedChannels[1] \in Channel
        BY RepoAssumption DEF Channel
    <2>2. RepoTypeOK
        BY <1>1, <2>1 DEF BatchInit, RepoInit, RepoTypeOK, Instant
    <2>3. BatchTypeOK
        BY <1>1, <2>2, ItemsAreMembers, MaxFaultsAssumption DEF BatchInit, BatchTypeOK
    <2>4. RowsInv
        BY <1>1, ItemsAreMembers DEF BatchInit, RepoInit, RowsInv, InLoop
    <2> QED
        BY <2>3, <2>4 DEF BatchInv
<1>2. ASSUME BatchInv, [BatchNext]_vars
      PROVE  BatchInv'
    BY <1>2, BatchTypeStep, RowsStep DEF BatchInv
<1> QED
    BY <1>1, <1>2

\* Every variable of BatchService keeps its type: the counters of CreateBatch
\* stay within the request, and a row is never left without max_retries.
THEOREM BatchTypeCorrect == BatchSpec => []BatchTypeOK
<1>1. BatchInv => BatchTypeOK
    BY Zenon DEF BatchInv
<1> QED
    BY <1>1, BatchInvStep, PTL DEF BatchSpec

-------------------------------------------------------------------------------
(* COMPLETED means handed over.                                            *)

\* Somebody was told that all went well.
Completed ==
    batchStatus = "COMPLETED" \/ answer = "accepted"

\* The row is in, and past ACCEPTED unless the scheduler will find it.
HandedOver(n) == status[n] # "ABSENT" /\ (status[n] = "ACCEPTED" => scheduledAt[n] # "null")

\* While nothing has failed the loop leaves every item it has passed handed
\* over; COMPLETED is written and told after that.
HandedInv ==
    /\ InLoop => \A n \in Members \ due : scheduledAt[n] # "null"
    /\ InLoop /\ failed = 0 =>
        \A i \in Positions : i < nextItem /\ BatchItems[i] \in due =>
            status[BatchItems[i]] # "ACCEPTED"
    /\ Completed => batchPc = "returned" /\ \A n \in Members : HandedOver(n)

\* Every step keeps what was handed over so.
LEMMA HandedStep ==
    ASSUME BatchInv, HandedInv, [BatchNext]_vars
    PROVE  HandedInv'
<1> USE ItemsAreMembers
<1> BatchTypeOK /\ RowsInv
    BY Zenon DEF BatchInv
<1>1. CASE RefuseBatch /\ UNCHANGED taken
    BY <1>1 DEF RefuseBatch, HandedInv, Completed, InLoop
<1>2. CASE InsertConflicts /\ UNCHANGED taken
    BY <1>2, Zenon DEF InsertConflicts, HandedInv, Completed, InLoop
<1>3. CASE StartLoop /\ UNCHANGED taken
    <2>1. \A n \in Members \ due' : scheduledAt'[n] # "null"
        BY <1>3 DEF StartLoop, EnqueueNow, repoVars
    <2>2. \A i \in Positions : ~ (i < nextItem')
        BY <1>3 DEF StartLoop, Positions
    <2> QED
        BY <1>3, <2>1, <2>2, Zenon DEF StartLoop, HandedInv, Completed, InLoop
<1>4. CASE SkipItem /\ UNCHANGED taken
    <2>1. \A i \in Positions : i < nextItem' /\ BatchItems[i] \in due => i < nextItem
        <3>1. \A i \in Positions : i < nextItem + 1 => i < nextItem \/ i = nextItem
            BY Cursors DEF Positions
        <3> QED
            BY <1>4, <3>1, Zenon DEF SkipItem, NextItem
    <2> QED
        BY <1>4, <2>1, Zenon
        DEF SkipItem, NextItem, HandedInv, Completed, InLoop, repoVars
<1>5. ASSUME NEW enqueued \in BOOLEAN, NEW ok \in BOOLEAN, BatchPublish(enqueued, ok),
             UNCHANGED taken
      PROVE  HandedInv'
    <2>1. failed' = 0 => failed = 0
        BY <1>5 DEF BatchPublish, BatchTypeOK
    <2> QED
        BY <1>5, <2>1, Zenon DEF BatchPublish, HandedInv, Completed, InLoop, repoVars
<1>6. ASSUME NEW applied \in BOOLEAN, NEW replied \in BOOLEAN,
             UNCHANGED taken
      PROVE  /\ StartBatch(applied, replied) => HandedInv'
             /\ InsertChunk(applied, replied) => HandedInv'
             /\ GiveUp(applied, replied) => HandedInv'
             /\ MarkQueued(applied, replied) => HandedInv'
             /\ MarkFailed(applied, replied) => HandedInv'
             /\ FinishBatch(applied, replied) => HandedInv'
    <2>1. ASSUME StartBatch(applied, replied)
          PROVE  HandedInv'
        BY <1>6, <2>1, Zenon DEF StartBatch, RowsInv, HandedInv, Completed, InLoop
    <2>2. ASSUME InsertChunk(applied, replied)
          PROVE  HandedInv'
        BY <1>6, <2>2 DEF InsertChunk, HandedInv, Completed, InLoop
    <2>3. ASSUME GiveUp(applied, replied)
          PROVE  HandedInv'
        BY <1>6, <2>3, ZenonT(30) DEF GiveUp, HandedInv, Completed, InLoop
    <2>4. ASSUME MarkQueued(applied, replied)
          PROVE  HandedInv'
        <3>1. /\ scheduledAt' = scheduledAt
              /\ \A m \in Notifications : status'[m] = "ACCEPTED" => status[m] = "ACCEPTED"
              /\ applied => status'[BatchItems[nextItem]] = "QUEUED"
            BY <2>4, MarkDoes, Zenon DEF MarkQueued
        <3>2. failed' = 0 => failed = 0 /\ applied
            BY <2>4 DEF MarkQueued, Outcome, BatchTypeOK
        <3>3. \A i \in Positions : i < nextItem' => i < nextItem \/ i = nextItem
            <4>1. \A i \in Positions : i < nextItem + 1 => i < nextItem \/ i = nextItem
                BY Cursors DEF Positions
            <4> QED
                BY <2>4, <4>1, Zenon DEF MarkQueued, NextItem
        <3> QED
            BY <1>6, <2>4, <3>1, <3>2, <3>3, ZenonT(30)
            DEF MarkQueued, NextItem, HandedInv, Completed, InLoop
    <2>5. ASSUME MarkFailed(applied, replied)
          PROVE  HandedInv'
        <3>1. /\ scheduledAt' = scheduledAt
              /\ \A m \in Notifications : status'[m] = "ACCEPTED" => status[m] = "ACCEPTED"
            BY <2>5, MarkDoes, Zenon DEF MarkFailed
        <3>2. failed > 0
            BY <2>5, Zenon DEF MarkFailed, RowsInv
        <3> QED
            BY <1>6, <2>5, <3>1, <3>2
            DEF MarkFailed, NextItem, HandedInv, Completed, InLoop
    <2>6. ASSUME FinishBatch(applied, replied)
          PROVE  HandedInv'
        <3>1. failed = 0 => \A n \in Members : HandedOver(n)
            <4>1. \A i \in Positions : i < nextItem
                BY <2>6, Cursors DEF FinishBatch, Positions
            <4> QED
                BY <2>6, <4>1 DEF FinishBatch, HandedInv, HandedOver, RowsInv, InLoop
        <3>2. Completed' => failed = 0 \/ Completed
            BY <1>6, <2>6
            DEF FinishBatch, Completed, HandlerAnswer, BatchTypeOK
        <3> QED
            BY <1>6, <2>6, <3>1, <3>2, ZenonT(30)
            DEF FinishBatch, HandedInv, HandedOver, InLoop, repoVars
    <2> QED
        BY <2>1, <2>2, <2>3, <2>4, <2>5, <2>6, Zenon
<1>7. CASE UNCHANGED vars
    BY <1>7, ZenonT(30)
    DEF vars, HandedInv, HandedOver, Completed, InLoop, callVars,
        otherVars, repoVars
<1>8. CASE Others
    <2>1. OthersDo
        BY <1>8, OthersStep, Zenon
    <2> QED
        BY <2>1, Zenon DEF OthersDo, HandedInv, HandedOver, Completed, InLoop, callVars
<1>9. CASE BatchCrash
    BY <1>9 DEF BatchCrash, HandedInv, HandedOver, Completed, InLoop, repoVars
<1> QED
    BY <1>1, <1>2, <1>3, <1>4, <1>5, <1>6, <1>7, <1>8, <1>9 DEF BatchNext, BatchStep

\* Nobody is told anything before the call.
LEMMA HandedHolds == BatchSpec => [](BatchInv /\ HandedInv)
<1>1. BatchInit => HandedInv
    BY DEF BatchInit, HandedInv, Completed, InLoop
<1>2. BatchInv /\ HandedInv /\ [BatchNext]_vars => HandedInv'
    BY HandedStep
<1> QED
    BY <1>1, <1>2, BatchInvStep, PTL DEF BatchSpec

\* A batch that is COMPLETED, or that the client was told is accepted, has
\* every item in the table and handed over: CreateBatch counts every error of
\* its loop before it writes the final status.
THEOREM CompletedMeansHandedOver == BatchSpec => []CompletedIsHandedOver
<1>1. BatchInv /\ HandedInv => CompletedIsHandedOver
    BY DEF HandedInv, HandedOver, Completed, CompletedIsHandedOver
<1> QED
    BY <1>1, HandedHolds, PTL

-------------------------------------------------------------------------------
(* A loss is reported.                                                     *)

\* Without failures every item the loop has passed is published or left to the
\* scheduler, and what was returned tells whether the loop was reached.
LossInv ==
    faults = 0 =>
        /\ batchPc # "failed"
        /\ InLoop => \A i \in Positions :
            i < nextItem \/ (i = nextItem /\ batchPc = "queued") =>
                BatchItems[i] \in published \cup (Members \ due)
        /\ InLoop => failed = 0 /\ \A n \in Members \ due : scheduledAt[n] # "null"
        /\ batchPc = "returned" =>
            \/ /\ answer = "invalid" /\ batchStatus = "ABSENT"
               /\ \A n \in Members : status[n] = "ABSENT"
            \/ answer = "error" /\ batchStatus = "PARTIAL_FAILURE"
            \/ /\ batchStatus = "COMPLETED"
               /\ \A n \in Members : scheduledAt[n] = "null" => n \in published

\* Every step keeps the account of what was published.
LEMMA LossStep ==
    ASSUME BatchInv, LossInv, [BatchNext]_vars
    PROVE  LossInv'
<1> SUFFICES ASSUME faults' = 0
             PROVE  LossInv'
    BY DEF LossInv
<1> USE ItemsAreMembers
<1> BatchTypeOK /\ RowsInv
    BY DEF BatchInv
<1>1. ~Fault
    BY DEF Fault, BatchTypeOK
<1>2. CASE RefuseBatch /\ UNCHANGED taken
    BY <1>2, Zenon DEF RefuseBatch, RowsInv, LossInv, InLoop, repoVars
<1>3. CASE InsertConflicts /\ UNCHANGED taken
    BY <1>3 DEF InsertConflicts, LossInv, InLoop
<1>4. CASE StartLoop /\ UNCHANGED taken
    <2>1. \A n \in Members \ due' : scheduledAt'[n] # "null"
        BY <1>4, Zenon DEF StartLoop, EnqueueNow, repoVars
    <2>2. \A i \in Positions : ~ (i < nextItem')
        BY <1>4 DEF StartLoop, Positions
    <2> QED
        BY <1>4, <2>1, <2>2, ZenonT(30) DEF StartLoop, RowsInv, LossInv, InLoop
<1>5. CASE SkipItem /\ UNCHANGED taken
    <2>1. \A i \in Positions : i < nextItem' => i < nextItem \/ BatchItems[i] \in Members \ due
        BY <1>5 DEF SkipItem, NextItem, BatchTypeOK, Positions
    <2> QED
        BY <1>5, <2>1, Zenon DEF SkipItem, NextItem, LossInv, InLoop, repoVars
<1>6. ASSUME NEW enqueued \in BOOLEAN, NEW ok \in BOOLEAN, BatchPublish(enqueued, ok)
      PROVE  LossInv'
    <2>1. enqueued /\ ok /\ faults = 0
        BY <1>1, <1>6, Zenon DEF BatchPublish
    <2> QED
        BY <1>6, <2>1, Zenon DEF BatchPublish, LossInv, InLoop, repoVars
<1>7. ASSUME NEW applied \in BOOLEAN, NEW replied \in BOOLEAN
      PROVE  /\ StartBatch(applied, replied) => LossInv'
             /\ InsertChunk(applied, replied) => LossInv'
             /\ GiveUp(applied, replied) => LossInv'
             /\ MarkQueued(applied, replied) => LossInv'
             /\ MarkFailed(applied, replied) => LossInv'
             /\ FinishBatch(applied, replied) => LossInv'
    <2>1. Outcome(applied, replied) => applied /\ replied /\ faults = 0
        BY <1>1, Zenon DEF Outcome
    <2>2. ASSUME StartBatch(applied, replied)
          PROVE  LossInv'
        BY <2>1, <2>2, Zenon DEF StartBatch, LossInv, InLoop
    <2>3. ASSUME InsertChunk(applied, replied)
          PROVE  LossInv'
        BY <2>1, <2>3, Zenon DEF InsertChunk, LossInv, InLoop
    <2>4. ASSUME GiveUp(applied, replied)
          PROVE  LossInv'
        BY <2>1, <2>4, Zenon DEF GiveUp, LossInv, InLoop
    <2>5. ASSUME MarkQueued(applied, replied)
          PROVE  LossInv'
        <3>1. scheduledAt' = scheduledAt
            BY <2>5, MarkDoes, Zenon DEF MarkQueued
        <3>2. \A i \in Positions : i < nextItem' => i < nextItem \/ i = nextItem
            <4>1. \A i \in Positions : i < nextItem + 1 => i < nextItem \/ i = nextItem
                BY Cursors DEF Positions
            <4> QED
                BY <2>5, <4>1, Zenon DEF MarkQueued, NextItem
        <3> QED
            BY <2>1, <2>5, <3>1, <3>2, Zenon DEF MarkQueued, NextItem, LossInv, InLoop
    <2>6. ASSUME MarkFailed(applied, replied)
          PROVE  LossInv'
        BY <2>1, <2>6, Zenon DEF MarkFailed, LossInv
    <2>7. ASSUME FinishBatch(applied, replied)
          PROVE  LossInv'
        <3>1. \A n \in Members : scheduledAt[n] = "null" => n \in published
            <4>1. \A i \in Positions : i < nextItem
                BY <2>7, Cursors DEF FinishBatch, Positions
            <4> QED
                BY <2>1, <2>7, <4>1 DEF FinishBatch, LossInv, InLoop
        <3>2. batchStatus' = "COMPLETED"
            BY <2>1, <2>7 DEF FinishBatch, LossInv, InLoop, BatchTypeOK
        <3> QED
            BY <2>7, <3>1, <3>2, Zenon DEF FinishBatch, LossInv, InLoop, repoVars
    <2> QED
        BY <2>2, <2>3, <2>4, <2>5, <2>6, <2>7, Zenon
<1>8. CASE UNCHANGED vars
    BY <1>8, ZenonT(30)
    DEF vars, LossInv, InLoop, callVars, otherVars, repoVars
<1>9. CASE Others
    <2>1. OthersDo
        BY <1>9, OthersStep, Zenon
    <2> QED
        BY <2>1, Zenon DEF OthersDo, LossInv, InLoop, callVars
<1>10. CASE BatchCrash
    BY <1>1, <1>10 DEF BatchCrash
<1> QED
    BY <1>2, <1>3, <1>4, <1>5, <1>6, <1>7, <1>8, <1>9, <1>10, ZenonT(30) DEF BatchNext, BatchStep

\* When no call fails, a batch that returned with unpublished rows was stopped
\* by a duplicate key, says PARTIAL_FAILURE, and its client got an error.
THEOREM LossesAreReported == BatchSpec => []LossIsReported
<1>1. BatchInit => LossInv
    BY DEF BatchInit, LossInv, InLoop
<1>2. BatchInv /\ LossInv /\ [BatchNext]_vars => LossInv'
    BY LossStep, Zenon
<1>3. BatchInv /\ LossInv => LossIsReported
    BY Zenon DEF LossInv, LossIsReported, LeftBehind
<1> QED
    BY <1>1, <1>2, <1>3, BatchInvStep, PTL DEF BatchSpec

-------------------------------------------------------------------------------
(* FAILED items are not sent.                                              *)

\* No message of an unscheduled item is out.
Unseen(n) == scheduledAt[n] = "null" => n \notin published

\* Neither FAILED nor out before its turn; FAILED only if it is not out.
FailInv ==
    /\ \A n \in Members : reported[n] = "FAILED" => Unseen(n)
    /\ batchPc \in {"idle", "insert"} =>
        \A n \in Members : reported[n] # "FAILED" /\ Unseen(n)
    /\ InLoop => \A i \in Positions :
        i > nextItem \/ (i = nextItem /\ batchPc = "publish") =>
            reported[BatchItems[i]] # "FAILED" /\ Unseen(BatchItems[i])

\* Every step keeps what is reported FAILED out of the queues.
LEMMA FailStep ==
    ASSUME BatchInv, FailInv, [BatchNext]_vars
    PROVE  FailInv'
<1> USE ItemsAreMembers
<1> BatchTypeOK /\ RowsInv
    BY Zenon DEF BatchInv
<1>1. CASE RefuseBatch \/ InsertConflicts \/ BatchCrash \/ UNCHANGED vars
    BY <1>1, Zenon
    DEF RefuseBatch, InsertConflicts, BatchCrash, vars, FailInv, Unseen,
        InLoop, callVars, otherVars, repoVars
<1>2. CASE StartLoop
    BY <1>2, ZenonT(30) DEF StartLoop, FailInv, Unseen, InLoop, repoVars
<1>3. CASE SkipItem
    <2>1. \A i \in Positions : i >= nextItem' => i > nextItem
        BY <1>3 DEF SkipItem, NextItem, BatchTypeOK, Positions
    <2>2. \A i \in Positions : i > nextItem' \/ i = nextItem' => i >= nextItem'
        BY <1>3 DEF SkipItem, NextItem, BatchTypeOK, Positions
    <2> QED
        BY <1>3, <2>1, <2>2, Zenon DEF SkipItem, NextItem, FailInv, Unseen, InLoop, repoVars
<1>4. ASSUME NEW enqueued \in BOOLEAN, NEW ok \in BOOLEAN, BatchPublish(enqueued, ok)
      PROVE  FailInv'
    <2>1. /\ nextItem \in Positions /\ BatchItems[nextItem] \in Members
          /\ reported[BatchItems[nextItem]] # "FAILED" /\ Unseen(BatchItems[nextItem])
          /\ reported \in [Members -> {"ACCEPTED", "QUEUED", "FAILED"}]
        BY <1>4 DEF BatchPublish, BatchTypeOK, FailInv, InLoop, Positions
    <2>2. \A n \in Members \ {BatchItems[nextItem]} :
            reported'[n] = reported[n] /\ (Unseen(n) => Unseen(n)')
        BY <1>4, <2>1, Zenon DEF BatchPublish, Unseen, repoVars
    <2>3. reported'[BatchItems[nextItem]] = "FAILED" => Unseen(BatchItems[nextItem])'
        BY <1>4, <2>1, Zenon DEF BatchPublish, Unseen, repoVars
    <2>4. \A i \in Positions : i > nextItem => BatchItems[i] \in Members \ {BatchItems[nextItem]}
        BY <2>1 DEF Positions
    <2> QED
        BY <1>4, <2>1, <2>2, <2>3, <2>4, Zenon DEF BatchPublish, FailInv, InLoop
<1>5. ASSUME NEW applied \in BOOLEAN, NEW replied \in BOOLEAN
      PROVE  /\ StartBatch(applied, replied) => FailInv'
             /\ InsertChunk(applied, replied) => FailInv'
             /\ GiveUp(applied, replied) => FailInv'
             /\ MarkQueued(applied, replied) => FailInv'
             /\ MarkFailed(applied, replied) => FailInv'
             /\ FinishBatch(applied, replied) => FailInv'
    <2>1. ASSUME StartBatch(applied, replied)
          PROVE  FailInv'
        BY <2>1, Zenon DEF StartBatch, FailInv, Unseen, InLoop, repoVars
    <2>2. ASSUME InsertChunk(applied, replied)
          PROVE  FailInv'
        <3>1. /\ batchPc = "insert" /\ batchPc' \in {"insert", "giveUp"}
              /\ reported' = reported /\ published' = published
              /\ nextItem \in Nat \ {0} /\ Chunk \subseteq Members
            BY <2>2, ChunkPositions DEF InsertChunk, BatchTypeOK
        <3>2. \A n \in Chunk : status[n] = "ABSENT"
            <4>1. SUFFICES ASSUME NEW i \in Positions, BatchItems[i] \in Chunk
                           PROVE  status[BatchItems[i]] = "ABSENT"
                BY <3>1
            <4>2. i >= nextItem
                BY <3>1, <4>1, ChunkPositions DEF Positions
            <4> QED
                BY <3>1, <4>2, ZenonT(30) DEF RowsInv
        <3>3. \A n \in Members : Unseen(n)'
            BY <2>2, <3>1, <3>2, InsertDoes, ZenonT(30) DEF RowsInv, FailInv, Unseen
        <3> QED
            BY <3>1, <3>3, Zenon DEF FailInv, InLoop
    <2>3. ASSUME GiveUp(applied, replied)
          PROVE  FailInv'
        BY <2>3, Zenon DEF GiveUp, FailInv, Unseen, InLoop, repoVars
    <2>4. ASSUME MarkQueued(applied, replied) \/ MarkFailed(applied, replied)
          PROVE  FailInv'
        <3>1. /\ scheduledAt' = scheduledAt /\ published' = published
              /\ batchPc' = "publish" /\ nextItem' = nextItem + 1
              /\ nextItem \in Positions /\ BatchItems[nextItem] \in Members
            BY <2>4, MarkDoes
            DEF MarkQueued, MarkFailed, NextItem, BatchTypeOK, Positions
        <3>2. \A n \in Members : reported'[n] = "FAILED" => reported[n] = "FAILED"
            BY <2>4, <3>1, Zenon DEF MarkQueued, MarkFailed, BatchTypeOK
        <3>3. \A i \in Positions : i > nextItem' \/ i = nextItem' => i > nextItem
            BY <3>1 DEF Positions
        <3> QED
            BY <2>4, <3>1, <3>2, <3>3, Zenon DEF MarkQueued, MarkFailed, FailInv, Unseen, InLoop
    <2>5. ASSUME FinishBatch(applied, replied)
          PROVE  FailInv'
        BY <2>5, ZenonT(30) DEF FinishBatch, FailInv, Unseen, InLoop, repoVars
    <2> QED
        BY <2>1, <2>2, <2>3, <2>4, <2>5, Zenon
<1>6. CASE Others
    <2>1. OthersDo
        BY <1>6, OthersStep, Zenon
    <2>2. \A n \in Members : Unseen(n) => Unseen(n)'
        BY <2>1 DEF OthersDo, Unseen
    <2> QED
        BY <2>1, <2>2 DEF OthersDo, FailInv, InLoop, callVars
<1> QED
    BY <1>1, <1>2, <1>3, <1>4, <1>5, <1>6, Zenon DEF BatchNext, BatchStep

\* An unscheduled item that the answer of CreateBatch shows as FAILED is never
\* claimed by a worker: Publish says FAILED only when no message is out.
THEOREM FailedItemsStayUnsent == BatchSpec => []FailedItemsAreNotSent
<1>1. BatchInit => FailInv
    BY ItemsAreMembers DEF BatchInit, FailInv, Unseen, InLoop
<1>2. BatchInv /\ FailInv /\ [BatchNext]_vars => FailInv'
    BY FailStep, Zenon
<1>3. BatchInv /\ FailInv => FailedItemsAreNotSent
    BY DEF BatchInv, BatchTypeOK, FailInv, Unseen, FailedItemsAreNotSent
<1> QED
    BY <1>1, <1>2, <1>3, BatchInvStep, PTL DEF BatchSpec

===============================================================================
