------------------------------ MODULE BatchService ------------------------------
(***************************************************************************)
(* One POST /v1/notifications/batch while other requests insert rows and   *)
(* the rest of the system moves them on.  CreateBatch is taken call by     *)
(* call; batchPc is the call it makes next:                                *)
(*    "idle"      not called yet                                           *)
(*    "insert"    the insert of the chunk at nextItem; none left: the loop *)
(*    "giveUp"    an insert failed: UpdateStatus(PARTIAL_FAILURE)          *)
(*    "publish"   Publish of nextItem; none left: the final UpdateStatus   *)
(*    "queued", "failed"  UpdateStatus of nextItem to that                 *)
(*    "returned"  returned, or died with the process                       *)
(* Workers, scanners and cancels appear as Others: they move a row as      *)
(* Lifecycle allows, which Dispatch is shown to implement.                 *)
(***************************************************************************)
EXTENDS NotificationRepo, Integers

CONSTANTS
    BatchItems,     \* the sequence of notifications of the request
    ChunkSize,      \* rows of one INSERT, 100 in CreateInBatches
    RequestedSchedules  \* the scheduledAt an item may carry

ASSUME BatchAssumption ==
    /\ BatchItems \in Seq(Notifications)
    /\ \A i, j \in 1..Len(BatchItems) : BatchItems[i] = BatchItems[j] => i = j
    /\ ChunkSize \in Nat \ {0}
    /\ RequestedSchedules \subseteq Instant

VARIABLES
    batchStatus,    \* the row of the table batches
    batchPc,
    nextItem,       \* position in the request of the inserts, then of the loop
    due,            \* items that were due when the loop began
    failed,         \* the local variable failed
    reported,       \* reported[n]: Status of n in the local slice created
    answer,         \* what the client was told
    published,      \* rows for which a message is, or was, in a queue
    taken           \* history: rows a worker has claimed

callVars == <<batchPc, nextItem, due, failed, reported, answer>>
otherVars == <<published, taken>>
vars == <<repoVars, faults, batchStatus, callVars, otherVars>>

Members == {BatchItems[i] : i \in 1..Len(BatchItems)}
BatchStatus == {"PROCESSING", "COMPLETED", "PARTIAL_FAILURE"}

BatchTypeOK ==
    /\ RepoTypeOK
    /\ faults \in 0..MaxFaults
    /\ batchStatus \in BatchStatus \cup {"ABSENT"}
    /\ batchPc \in {"idle", "insert", "giveUp", "publish", "queued", "failed", "returned"}
    /\ nextItem \in 1..(Len(BatchItems) + ChunkSize)
    /\ due \subseteq Members
    /\ batchPc \in {"queued", "failed"} => nextItem <= Len(BatchItems)
    /\ failed \in 0..Len(BatchItems)
    /\ reported \in [Members -> {"ACCEPTED", "QUEUED", "FAILED"}]
    /\ answer \in {"none", "invalid", "error", "warning", "accepted"}
    /\ published \subseteq Notifications /\ taken \subseteq published

BatchInit ==
    /\ RepoInit
    /\ faults = 0
    /\ batchStatus = "ABSENT"
    /\ batchPc = "idle" /\ nextItem = 1 /\ due = {} /\ failed = 0
    /\ reported = [n \in Members |-> "ACCEPTED"]
    /\ answer = "none"
    /\ published = {} /\ taken = {}

-------------------------------------------------------------------------------
(* CreateBatch *)

\* Too many notifications, or one that does not validate: nothing is written.
RefuseBatch ==
    /\ batchPc = "idle"
    /\ batchPc' = "returned" /\ answer' = "invalid"
    /\ UNCHANGED <<repoVars, faults, batchStatus, nextItem, due, failed, reported, published>>

StartBatch(applied, replied) ==
    /\ batchPc = "idle"
    /\ Outcome(applied, replied)
    /\ batchStatus' = IF applied THEN "PROCESSING" ELSE "ABSENT"
    /\ IF replied THEN batchPc' = "insert" /\ UNCHANGED answer
                  ELSE batchPc' = "returned" /\ answer' = "error"
    /\ UNCHANGED <<repoVars, nextItem, due, failed, reported, published>>

\* The next ChunkSize items, or what is left of them.
Chunk ==
    {BatchItems[i] : i \in {j \in nextItem..(nextItem + ChunkSize - 1) : j <= Len(BatchItems)}}

\* A multi-row INSERT fails as a whole when a key is taken or used twice.
ChunkConflicts(key) ==
    \E m, n \in Chunk : KeyTaken(key[n]) \/ (m # n /\ key[m] = key[n] /\ key[n] # NoKey)

\* Slip: max_retries is not copied into the row.
InsertRowsWithoutRetries(c, key, sched) ==
    /\ status' = [n \in Notifications |-> IF n \in Chunk THEN "ACCEPTED" ELSE status[n]]
    /\ channel' = [n \in Notifications |-> IF n \in Chunk THEN c[n] ELSE channel[n]]
    /\ idempotencyKey' =
        [n \in Notifications |-> IF n \in Chunk THEN key[n] ELSE idempotencyKey[n]]
    /\ scheduledAt' = [n \in Notifications |-> IF n \in Chunk THEN sched[n] ELSE scheduledAt[n]]
    /\ UNCHANGED <<nextRetryAt, attemptCount, maxRetries, providerMessageID, attempts>>

\* GormNotificationRepo.CreateBatch, one INSERT of CreateInBatches.
InsertRows(c, key, sched) ==
    /\ status' = [n \in Notifications |-> IF n \in Chunk THEN "ACCEPTED" ELSE status[n]]
    /\ channel' = [n \in Notifications |-> IF n \in Chunk THEN c[n] ELSE channel[n]]
    /\ idempotencyKey' =
        [n \in Notifications |-> IF n \in Chunk THEN key[n] ELSE idempotencyKey[n]]
    /\ scheduledAt' = [n \in Notifications |-> IF n \in Chunk THEN sched[n] ELSE scheduledAt[n]]
    /\ maxRetries' = [n \in Notifications |-> IF n \in Chunk THEN 1 ELSE maxRetries[n]]
    /\ UNCHANGED <<nextRetryAt, attemptCount, providerMessageID, attempts>>

\* Gorm is opened with SkipDefaultTransaction: each chunk commits by itself.
InsertChunk(applied, replied) ==
    /\ batchPc = "insert" /\ Chunk # {}
    /\ Outcome(applied, replied)
    /\ \E c \in [Chunk -> Channel], key \in [Chunk -> Keys \cup {NoKey}],
          sched \in [Chunk -> RequestedSchedules] :
        /\ ~ChunkConflicts(key)
        /\ IF applied THEN InsertRows(c, key, sched) ELSE UNCHANGED repoVars
    /\ nextItem' = nextItem + ChunkSize
    /\ batchPc' = IF replied THEN "insert" ELSE "giveUp"
    /\ UNCHANGED <<batchStatus, due, failed, reported, answer, published>>

\* CreateBatch does not look for the existing row, as Create does.
InsertConflicts ==
    /\ batchPc = "insert"
    /\ \E key \in [Chunk -> Keys \cup {NoKey}] : ChunkConflicts(key)
    /\ batchPc' = "giveUp"
    /\ UNCHANGED <<repoVars, faults, batchStatus, nextItem, due, failed, reported,
                   answer, published>>

\* Slip: the batch is left as it is when an insert fails.
GiveUpSilently(applied, replied) ==
    /\ batchPc = "giveUp"
    /\ Outcome(applied, replied)
    /\ batchPc' = "returned" /\ answer' = "error"
    /\ UNCHANGED <<repoVars, batchStatus, nextItem, due, failed, reported, published>>

\* The error of this UpdateStatus is ignored.  No row that is in is published.
GiveUp(applied, replied) ==
    /\ batchPc = "giveUp"
    /\ Outcome(applied, replied)
    /\ batchStatus' = IF applied THEN "PARTIAL_FAILURE" ELSE batchStatus
    /\ batchPc' = "returned" /\ answer' = "error"
    /\ UNCHANGED <<repoVars, nextItem, due, failed, reported, published>>

\* Slip: a notification without scheduledAt counts as deferred.
EnqueueOnlyDue(n) == scheduledAt[n] = "due"

\* shouldEnqueueImmediately
EnqueueNow(n) == scheduledAt[n] # "future"

\* now is read once, before the loop.
StartLoop ==
    /\ batchPc = "insert" /\ Chunk = {}
    /\ due' = {n \in Members : EnqueueNow(n)}
    /\ nextItem' = 1
    /\ batchPc' = "publish"
    /\ UNCHANGED <<repoVars, faults, batchStatus, failed, reported, answer, published>>

NextItem ==
    /\ nextItem' = nextItem + 1
    /\ batchPc' = "publish"

\* An item that was not due is left to the scheduler.
SkipItem ==
    /\ batchPc = "publish"
    /\ nextItem <= Len(BatchItems) /\ BatchItems[nextItem] \notin due
    /\ NextItem
    /\ UNCHANGED <<repoVars, faults, batchStatus, due, failed, reported, answer, published>>

\* As in Broker: an error of Publish says that nothing was enqueued (the frames
\* could not be written), nil that the frames were written.
BatchPublish(enqueued, ok) ==
    LET n == BatchItems[nextItem] IN
    /\ batchPc = "publish"
    /\ nextItem <= Len(BatchItems) /\ n \in due
    /\ enqueued => ok
    /\ IF enqueued THEN UNCHANGED faults ELSE Fault
    /\ published' = IF enqueued THEN published \cup {n} ELSE published
    /\ failed' = IF ok THEN failed ELSE failed + 1
    /\ reported' = IF ok THEN reported ELSE [reported EXCEPT ![n] = "FAILED"]
    /\ batchPc' = IF ok THEN "queued" ELSE "failed"
    /\ UNCHANGED <<repoVars, batchStatus, nextItem, due, answer>>

\* Slip: an item whose UpdateStatus(QUEUED) failed is reported as FAILED.
MarkQueuedReportsFailed(applied, replied) ==
    LET n == BatchItems[nextItem] IN
    /\ batchPc = "queued"
    /\ Outcome(applied, replied)
    /\ IF applied THEN UpdateStatus(n, "QUEUED") ELSE UNCHANGED repoVars
    /\ reported' = [reported EXCEPT ![n] = IF replied THEN "QUEUED" ELSE "FAILED"]
    /\ failed' = IF replied THEN failed ELSE failed + 1
    /\ NextItem
    /\ UNCHANGED <<batchStatus, due, answer, published>>

\* An error counts as a failed item although its message is out.
MarkQueued(applied, replied) ==
    LET n == BatchItems[nextItem] IN
    /\ batchPc = "queued"
    /\ Outcome(applied, replied)
    /\ IF applied THEN UpdateStatus(n, "QUEUED") ELSE UNCHANGED repoVars
    /\ reported' = IF replied THEN [reported EXCEPT ![n] = "QUEUED"] ELSE reported
    /\ failed' = IF replied THEN failed ELSE failed + 1
    /\ NextItem
    /\ UNCHANGED <<batchStatus, due, answer, published>>

\* The error of this UpdateStatus is ignored.
MarkFailed(applied, replied) ==
    /\ batchPc = "failed"
    /\ Outcome(applied, replied)
    /\ IF applied THEN UpdateStatus(BatchItems[nextItem], "FAILED") ELSE UNCHANGED repoVars
    /\ NextItem
    /\ UNCHANGED <<failed, reported, batchStatus, due, answer, published>>

\* The handler: 500 if CreateBatch returns no batch, else 202, with a warning
\* if it returns an error as well.
HandlerAnswer(replied) ==
    CASE ~replied -> "error"
      [] replied /\ failed > 0 -> "warning"
      [] replied /\ failed = 0 -> "accepted"

\* Without a reply the client gets an error though the messages are out.
FinishBatch(applied, replied) ==
    /\ batchPc = "publish" /\ nextItem > Len(BatchItems)
    /\ Outcome(applied, replied)
    /\ batchStatus' = IF ~applied THEN batchStatus
                      ELSE IF failed > 0 THEN "PARTIAL_FAILURE" ELSE "COMPLETED"
    /\ answer' = HandlerAnswer(replied)
    /\ batchPc' = "returned"
    /\ UNCHANGED <<repoVars, nextItem, due, failed, reported, published>>

BatchStep ==
    \/ RefuseBatch \/ InsertConflicts \/ StartLoop \/ SkipItem
    \/ \E enqueued, ok \in BOOLEAN : BatchPublish(enqueued, ok)
    \/ \E applied, replied \in BOOLEAN :
        \/ StartBatch(applied, replied) \/ InsertChunk(applied, replied)
        \/ GiveUp(applied, replied)
        \/ MarkQueued(applied, replied) \/ MarkFailed(applied, replied)
        \/ FinishBatch(applied, replied)

-------------------------------------------------------------------------------
(* The rest of the system *)

\* Create of a notification that is not in the batch.
OtherCreate(n) ==
    /\ n \notin Members /\ status[n] = "ABSENT"
    /\ \E k \in Keys \cup {NoKey} :
        ~KeyTaken(k) /\ Create(n, SupportedChannels[1], k, "null", 1)
    /\ UNCHANGED otherVars

\* The scheduler publishes what it found due, and marks it later.
Scan(n) ==
    /\ scheduledAt[n] = "due" /\ status[n] # "ABSENT"
    /\ published' = published \cup {n}
    /\ UNCHANGED <<repoVars, taken>>

ScanMark(n) ==
    /\ scheduledAt[n] = "due" /\ n \in published
    /\ MarkQueuedIfAccepted(n)
    /\ UNCHANGED otherVars

WorkerClaim(n) ==
    /\ n \in published /\ Claimable(n)
    /\ LockForSending(n)
    /\ taken' = taken \cup {n}
    /\ UNCHANGED published

\* What a worker writes after the provider's answer looks at no status.
WorkerWrites(n) ==
    /\ n \in taken
    /\ \E s \in {"SENT", "FAILED", "QUEUED"} : UpdateStatus(n, s)
    /\ UNCHANGED otherVars

Others ==
    /\ \E n \in Notifications :
        \/ OtherCreate(n) \/ Scan(n) \/ ScanMark(n) \/ WorkerClaim(n) \/ WorkerWrites(n)
        \/ (Cancel(n) \/ ScheduleFallsDue(n)) /\ UNCHANGED otherVars
    /\ UNCHANGED <<faults, batchStatus, callVars>>

\* The call dies with the process.
BatchCrash ==
    /\ Fault
    /\ batchPc \notin {"idle", "returned"}
    /\ batchPc' = "returned" /\ due' = {}
    /\ UNCHANGED <<repoVars, batchStatus, nextItem, failed, reported, answer, otherVars>>

BatchNext ==
    \/ BatchStep /\ UNCHANGED taken
    \/ Others
    \/ BatchCrash

BatchSpec == BatchInit /\ [][BatchNext]_vars

-------------------------------------------------------------------------------
\* COMPLETED says that every item was handed over: its row is in, and it is
\* past ACCEPTED unless it is left to the scheduler, whatever calls failed.
CompletedIsHandedOver ==
    batchStatus = "COMPLETED" \/ answer = "accepted" =>
        \A n \in Members : /\ status[n] # "ABSENT"
                           /\ status[n] = "ACCEPTED" => scheduledAt[n] # "null"

\* Rows that are in and that neither CreateBatch nor anybody else publishes.
LeftBehind ==
    {n \in Members : /\ status[n] = "ACCEPTED" /\ scheduledAt[n] = "null"
                     /\ n \notin published /\ batchPc \in {"giveUp", "returned"}}

\* When nothing fails, the batch leaves rows behind only after a duplicate key
\* stopped its inserts.  The client then gets an error, and the batch does not
\* stay PROCESSING: it says PARTIAL_FAILURE.
LossIsReported ==
    faults = 0 /\ batchPc = "returned" =>
        /\ batchStatus # "PROCESSING"
        /\ LeftBehind # {} => answer = "error" /\ batchStatus = "PARTIAL_FAILURE"

\* No worker claims an item that the answer shows as FAILED, unless the item
\* is scheduled: the scheduler may have published it too.  It rests on an error
\* of Publish meaning that nothing was enqueued, see BatchPublish.
FailedItemsAreNotSent ==
    \A n \in Members : reported[n] = "FAILED" /\ scheduledAt[n] = "null" => n \notin taken

===============================================================================
