----------------------------- MODULE ClientProofs -----------------------------
(***************************************************************************)
(* What a client can rely on: a cancellation that was confirmed holds, a   *)
(* notification that is shown as SENT has a recorded success, one          *)
(* idempotency key gets one delivery, and without a failure no             *)
(* notification is left behind.                                            *)
(***************************************************************************)
EXTENDS LifecycleProofs

\* The lifecycle has no way out of CANCELED but Create's overwrite.
LEMMA CanceledStays ==
    ASSUME LifeStep, NEW n \in Notifications, status[n] = "CANCELED", ~Overwritten(n),
           ~Overwritten(n)', IInv, IInv'
    PROVE  status'[n] = "CANCELED"
<1>1. phase[n] = "CANCELED" /\ phase'[n] = status'[n] /\ phase'[n] # "FREE"
    BY Zenon DEF phase, IInv, TypeOK, RepoTypeOK, Status
<1>2. phase \in [Notifications -> Status \cup {"ABSENT", "FREE"}]
    BY DEF phase, IInv, TypeOK, RepoTypeOK
<1>3. CASE UNCHANGED phase
    BY <1>1, <1>3
<1>4. ASSUME NEW m \in Notifications,
             \/ Life!Accept(m) \/ Life!Retry(m) \/ Life!Release(m)
             \/ Life!Move(m, {"ACCEPTED"}, "QUEUED")
             \/ Life!Move(m, {"ACCEPTED"}, "FAILED")
             \/ Life!Move(m, {"ACCEPTED", "QUEUED"}, "SENDING")
             \/ Life!Move(m, {"ACCEPTED", "QUEUED"}, "CANCELED")
             \/ Life!Move(m, {"SENDING"}, "SENT")
             \/ Life!Move(m, {"SENDING"}, "FAILED")
      PROVE  phase'[n] = "CANCELED"
    BY <1>1, <1>2, <1>4 DEF Life!Accept, Life!Retry, Life!Release, Life!Move
<1> QED
    BY <1>1, <1>3, <1>4 DEF LifeStep, Life!LifeNext

\* Only a successful Cancel confirms a cancellation.
LEMMA CancelAckedStep ==
    ASSUME IInv, [Next]_vars, NEW n \in Notifications, cancelAcked'[n], ~cancelAcked[n]
    PROVE  status'[n] = "CANCELED" /\ Claimable(n)
<1>1. CASE ServiceNext
    <2>1. PICK m \in Notifications, applied, replied \in BOOLEAN :
            CancelNotification(m, applied, replied)
        BY <1>1 DEF ServiceNext, CreateInsert, CreateDuplicate, CreateStep, CreateDefer,
            CreatePublish, CreateMark
    <2>2. m = n /\ replied /\ Claimable(n)
        BY <2>1 DEF CancelNotification, IInv, TypeOK, ServiceTypeOK
    <2> QED
        BY <2>1, <2>2 DEF CancelNotification, Outcome, Cancel, IInv, TypeOK, RepoTypeOK
<1>2. CASE WorkerNext
    BY <1>2, WorkerLeavesService DEF WorkerNext, serviceVars
<1>3. CASE SchedulerStep \/ RetryStep \/ TimePasses \/ Crash \/ UNCHANGED vars
    BY <1>3 DEF SchedulerStep, SchedulerScan, SchedulerPublish, SchedulerMark, RetryStep,
        RetryScan, RetryPublish, RetryClear, TimePasses, Crash, serviceVars, vars
<1> QED
    BY <1>1, <1>2, <1>3 DEF Next

\* After Cancel has answered with success the notification stays CANCELED
\* and no worker sends it, until Create overwrites the row.
THEOREM CancellationHolds == Spec => []CancelHolds
<1> DEFINE Strong == IInv /\ AttemptNumberCurrent
<1>1. Init => CancelHolds
    BY DEF Init, ServiceInit, CancelHolds
<1>2. ASSUME Strong, Strong', CancelHolds, [Next]_vars
      PROVE  CancelHolds'
    <2>1. LifeStep
        BY <1>2, NextRefines
    <2>2. ASSUME NEW n \in Notifications, cancelAcked'[n], ~Overwritten(n)'
          PROVE  status'[n] = "CANCELED" /\ \A w \in Workers : ~Claims(w, n)'
        <3>1. ~Overwritten(n)
            <4>1. phase[n] = "FREE" => phase'[n] = "FREE"
                BY <1>2, <2>1, Zenon DEF LifeStep, Life!LifeNext, Life!Accept, Life!Retry,
                    Life!Release, Life!Move, phase
            <4> QED
                BY <1>2, <2>2, <4>1, Zenon DEF phase, IInv, TypeOK, RepoTypeOK, Status
        <3>2. status'[n] = "CANCELED"
            BY <1>2, <2>1, <2>2, <3>1, CanceledStays, CancelAckedStep DEF CancelHolds
        <3> QED
            BY <1>2, <2>2, <3>2 DEF IInv, ExclusiveSend
    <2> QED
        BY <2>2 DEF CancelHolds, Workers
<1>3. Spec => []Strong
    BY AttemptNumberInvariant
<1> QED
    BY <1>1, <1>2, <1>3, PTL DEF Spec

-------------------------------------------------------------------------------

Recorded(n) == \E i \in 1..Len(attempts[n]) : attempts[n][i].ok

\* The worker that will write SENT has recorded its success; with Create's
\* overwrites several workers may have the row, so this is said of each.
RecordedInv ==
    /\ \A n \in Notifications : status[n] = "SENT" => Recorded(n)
    /\ \A w \in Workers :
        pc[w] \in {"setid", "settle"} /\ response[w] \in Accepted => Recorded(job[w])

\* What Create and Cancel may write into the column status.
LEMMA ServiceStatus ==
    ASSUME IInv, ServiceNext
    PROVE  \/ UNCHANGED status
           \/ \E m \in Notifications, s \in {"ACCEPTED", "QUEUED", "FAILED", "CANCELED"} :
                status' = [status EXCEPT ![m] = s]
<1>1. TypeOK /\ status \in [Notifications -> Status \cup {"ABSENT"}]
    BY Zenon DEF IInv, TypeOK, RepoTypeOK
<1>2. PICK m \in Notifications :
        \/ \E applied, replied \in BOOLEAN :
            \/ CreateInsert(m, applied, replied)
            \/ CreateMark(m, applied, replied)
            \/ CancelNotification(m, applied, replied)
        \/ CreateDuplicate(m)
        \/ CreateDefer(m)
        \/ \E enqueued, ok \in BOOLEAN : CreatePublish(m, enqueued, ok)
    BY Zenon DEF ServiceNext, CreateStep
<1>3. \/ UNCHANGED status
      \/ \E s \in {"ACCEPTED", "QUEUED", "FAILED"} : status' = [status EXCEPT ![m] = s]
      \/ status' = [status EXCEPT ![m] = IF Claimable(m) THEN "CANCELED" ELSE status[m]]
    BY <1>1, <1>2, MarkCases, ZenonT(30) DEF CreateInsert, CancelNotification, CreateDuplicate,
        CreateDefer, CreatePublish, Create, Cancel, repoVars
<1>4. [status EXCEPT ![m] = status[m]] = status
    BY <1>1, Zenon
<1> QED
    BY <1>3, <1>4, Zenon

\* A step that keeps the recorded attempts, makes no row SENT and brings no
\* worker past recordAttempt.
LEMMA RecordedFrame ==
    ASSUME RecordedInv, UNCHANGED attempts,
           \A n \in Notifications : status'[n] = "SENT" => status[n] = "SENT",
           \A w \in Workers : pc'[w] \in {"setid", "settle"} =>
               pc[w] \in {"setid", "settle"} /\ UNCHANGED <<job[w], response[w]>>
    PROVE  RecordedInv'
BY DEF RecordedInv, Recorded, Workers

\* Create, Cancel, the scans, time and crashes.
LEMMA RecordedOthers ==
    ASSUME IInv, RecordedInv,
           \/ ServiceNext /\ UNCHANGED <<workerVars, sendHistory, schedVars, retryVars>>
           \/ SchedulerStep \/ RetryStep \/ TimePasses \/ Crash \/ UNCHANGED vars
    PROVE  RecordedInv'
<1>1. status \in [Notifications -> Status \cup {"ABSENT"}]
    BY DEF IInv, TypeOK, RepoTypeOK
<1>2. CASE ServiceNext /\ UNCHANGED <<workerVars, sendHistory, schedVars, retryVars>>
    <2>1. PICK m \in Notifications :
            \/ \E applied, replied \in BOOLEAN :
                \/ CreateInsert(m, applied, replied)
                \/ CreateMark(m, applied, replied)
                \/ CancelNotification(m, applied, replied)
            \/ CreateDuplicate(m)
            \/ CreateDefer(m)
            \/ \E enqueued, ok \in BOOLEAN : CreatePublish(m, enqueued, ok)
        BY <1>2, Zenon DEF ServiceNext, CreateStep
    <2>2. UNCHANGED attempts
        BY <2>1, Zenon
        DEF CreateInsert, CreateMark, CancelNotification, CreateDuplicate, CreateDefer,
            CreatePublish, Create, UpdateStatus, Cancel, repoVars
    <2>4. \A n \in Notifications : status'[n] = "SENT" => status[n] = "SENT"
        BY <1>1, <1>2, ServiceStatus, Zenon
    <2> QED
        BY <1>2, <2>2, <2>4, RecordedFrame DEF workerVars
<1>3. CASE SchedulerStep
    <2>1. /\ UNCHANGED <<attempts, workerVars>>
          /\ \/ UNCHANGED status
             \/ status' = [status EXCEPT ![schedCurrent] = IF @ = "ACCEPTED" THEN "QUEUED" ELSE @]
        BY <1>3 DEF SchedulerStep, SchedulerScan, SchedulerPublish, SchedulerMark,
            MarkQueuedIfAccepted, repoVars
    <2>2. \A n \in Notifications : status'[n] = "SENT" => status[n] = "SENT"
        BY <1>1, <2>1
    <2> QED
        BY <2>1, <2>2, RecordedFrame, Zenon DEF workerVars
<1>4. CASE RetryStep \/ TimePasses \/ UNCHANGED vars
    <2>1. UNCHANGED <<status, attempts, workerVars>>
        BY <1>4 DEF RetryStep, RetryScan, RetryPublish, RetryClear, ClearNextRetryAt,
            TimePasses, ScheduleFallsDue, RetryFallsDue, repoVars, vars
    <2> QED
        BY <2>1, RecordedFrame, ZenonT(30) DEF workerVars
<1>5. CASE Crash
    BY <1>5, RecordedFrame, ZenonT(30) DEF Crash, WorkerCrash, repoVars
<1> QED
    BY <1>2, <1>3, <1>4, <1>5

\* recordAttempt appends to the log.
LEMMA AppendRecords ==
    ASSUME IInv, NEW n \in Notifications, NEW a \in Attempt, CreateAttempt(n, a)
    PROVE  /\ a.ok => Recorded(n)'
           /\ \A m \in Notifications : Recorded(m) => Recorded(m)'
<1>1. attempts \in [Notifications -> Seq(Attempt)]
    BY DEF IInv, TypeOK, RepoTypeOK
<1>2. /\ attempts'[n] = Append(attempts[n], a)
      /\ \A m \in Notifications \ {n} : attempts'[m] = attempts[m]
    BY <1>1 DEF CreateAttempt
<1>3. /\ Len(attempts'[n]) = Len(attempts[n]) + 1 /\ Len(attempts[n]) \in Nat
      /\ attempts'[n][Len(attempts[n]) + 1] = a
      /\ \A i \in 1..Len(attempts[n]) : attempts'[n][i] = attempts[n][i]
    BY <1>1, <1>2
<1>4. a.ok => Recorded(n)'
    BY <1>3 DEF Recorded
<1>5. Recorded(n) => Recorded(n)'
    BY <1>3 DEF Recorded
<1> QED
    BY <1>2, <1>4, <1>5, ZenonT(30) DEF Recorded

\* The workers.
LEMMA RecordedWorker ==
    ASSUME IInv, RecordedInv, NEW w \in Workers, WorkerStep(w) \/ ChannelLost(w)
    PROVE  RecordedInv'
<1> USE DEF IInv, TypeOK
<1>1. /\ pc \in [Workers -> Claiming \cup {"idle", "lock", "ack", "nack"}]
      /\ status \in [Notifications -> Status \cup {"ABSENT"}]
      /\ \A v \in Workers : pc[v] # "idle" => job[v] \in Notifications
      /\ attemptNumber[w] \in Nat
    BY DEF WorkerTypeOK, RepoTypeOK
<1>2. CASE Receive(w) \/ Send(w) \/ WaitFails(w) \/ SendReturns(w) \/ ChannelLost(w)
    <2>1. UNCHANGED <<status, attempts>>
        BY <1>2, Zenon DEF Receive, Send, WaitFails, SendReturns, ChannelLost, repoVars
    <2>2. \A v \in Workers : pc'[v] \in {"setid", "settle"} =>
            pc[v] \in {"setid", "settle"} /\ UNCHANGED <<job[v], response[v]>>
        BY <1>2, ZenonT(30)
        DEF Receive, Send, WaitFails, SendReturns, ChannelLost, GoTo, workerVars,
            WorkerTypeOK
    <2> QED
        BY <2>1, <2>2, RecordedFrame, Zenon
<1>3. CASE Acknowledge(w) \/ Reject(w)
    <2>1. UNCHANGED <<status, attempts>>
        BY <1>3 DEF Acknowledge, Reject, Done, repoVars
    <2>2. \A v \in Workers : pc'[v] \in {"setid", "settle"} =>
            pc[v] \in {"setid", "settle"} /\ UNCHANGED <<job[v], response[v]>>
        BY <1>3 DEF Acknowledge, Reject, Done, GoTo, WorkerTypeOK
    <2> QED
        BY <2>1, <2>2, RecordedFrame, Zenon
<1>4. ASSUME NEW applied \in BOOLEAN, NEW replied \in BOOLEAN,
             Lock(w, applied, replied) \/ SetID(w, applied, replied)
      PROVE  RecordedInv'
    <2>1. /\ job[w] \in Notifications
          /\ UNCHANGED <<attempts, job, response>>
          /\ \/ UNCHANGED status
             \/ status' = [status EXCEPT ![job[w]] = IF Claimable(job[w]) THEN "SENDING" ELSE @]
        BY <1>1, <1>4, Zenon DEF Lock, SetID, LockForSending, SetProviderMessageID, repoVars
    <2>2. \A v \in Workers : pc'[v] \in {"setid", "settle"} => pc[v] \in {"setid", "settle"}
        <3>1. CASE Lock(w, applied, replied)
            <4> DEFINE label == IF ~replied THEN "nack"
                                ELSE IF Claimable(job[w]) THEN "limit" ELSE "ack"
            <4>1. pc' = [pc EXCEPT ![w] = label]
                BY <3>1 DEF Lock, GoTo
            <4> QED
                BY <1>1, <4>1, Zenon
        <3>2. CASE SetID(w, applied, replied)
            <4>1. pc[w] = "setid" /\ \A v \in Workers \ {w} : pc'[v] = pc[v]
                BY <1>1, <3>2, Zenon DEF SetID, GoTo
            <4> QED
                BY <4>1, Zenon
        <3> QED
            BY <1>4, <3>1, <3>2, Zenon
    <2>3. \A n \in Notifications : status'[n] = "SENT" => status[n] = "SENT"
        BY <1>1, <2>1, Zenon
    <2> QED
        BY <2>1, <2>2, <2>3, RecordedFrame, Zenon
<1>5. ASSUME NEW applied \in BOOLEAN, NEW replied \in BOOLEAN, RecordAttempt(w, applied, replied)
      PROVE  RecordedInv'
    <2> DEFINE a == [number |-> attemptNumber[w], ok |-> response[w] \in Accepted]
    <2>1. /\ pc[w] = "record" /\ job[w] \in Notifications
          /\ UNCHANGED <<status, job, response>>
          /\ CreateAttempt(job[w], a) \/ UNCHANGED attempts
          /\ pc'[w] \in {"setid", "settle"} => CreateAttempt(job[w], a)
          /\ \A v \in Workers \ {w} : pc'[v] = pc[v]
        BY <1>1, <1>5, Zenon DEF RecordAttempt, CreateAttempt, Outcome, GoTo, repoVars, WorkerTypeOK
    <2>2. a \in Attempt /\ (response[w] \in Accepted => a.ok)
        <3>1. a \in Attempt
            BY <1>1 DEF Attempt
        <3>2. response[w] \in Accepted => a.ok
            BY Zenon
        <3> QED
            BY <3>1, <3>2, Zenon
    <2>3. \A m \in Notifications : Recorded(m) => Recorded(m)'
        BY <2>1, <2>2, AppendRecords, ZenonT(30) DEF Recorded
    <2>4. pc'[w] \in {"setid", "settle"} /\ response[w] \in Accepted => Recorded(job[w])'
        BY <2>1, <2>2, AppendRecords, ZenonT(30)
    <2>5. ASSUME NEW v \in Workers, pc'[v] \in {"setid", "settle"}, response'[v] \in Accepted
          PROVE  Recorded(job[v])'
        BY <1>1, <2>1, <2>3, <2>4, <2>5, Zenon DEF RecordedInv
    <2> QED
        BY <2>1, <2>3, <2>5, Zenon DEF RecordedInv, Workers
<1>6. ASSUME NEW applied \in BOOLEAN, NEW replied \in BOOLEAN,
             \/ MarkSent(w, applied, replied) \/ ScheduleRetry(w, applied, replied)
             \/ MarkFailed(w, applied, replied)
      PROVE  RecordedInv'
    <2>1. /\ pc[w] = "settle"
          /\ UNCHANGED <<attempts, job, response>>
          /\ \A v \in Workers : pc'[v] \in {"setid", "settle"} => pc'[v] = pc[v]
          /\ \/ UNCHANGED status
             \/ response[w] \in Accepted /\ status' = [status EXCEPT ![job[w]] = "SENT"]
             \/ \E s \in {"QUEUED", "FAILED"} : status' = [status EXCEPT ![job[w]] = s]
        BY <1>1, <1>6, ZenonT(30)
        DEF MarkSent, ScheduleRetry, MarkFailed, Settle, GoTo, UpdateStatus,
            UpdateStatusWithRetry, repoVars, WorkerTypeOK
    <2>2. \A m \in Notifications : Recorded(m)' = Recorded(m)
        BY <2>1, Zenon DEF Recorded
    <2>3. \A m \in Notifications : status'[m] = "SENT" => Recorded(m)
        BY <1>1, <2>1 DEF RecordedInv
    <2> QED
        BY <1>1, <2>1, <2>2, <2>3 DEF RecordedInv, Workers
<1> QED
    BY <1>2, <1>3, <1>4, <1>5, <1>6, Zenon DEF WorkerStep

\* A notification is shown as SENT only with a recorded attempt that
\* succeeded, also when Create has overwritten its row in between:
\* processMessage writes the log before the status.
THEOREM SentHasAttempt == Spec => []SentIsRecorded
<1>1. Init => RecordedInv
    BY DEF Init, RepoInit, WorkerInit, RecordedInv
<1>2. IInv /\ RecordedInv /\ [Next]_vars => RecordedInv'
    BY RecordedOthers, RecordedWorker, Zenon DEF Next, WorkerNext
<1>3. RecordedInv => SentIsRecorded
    BY Zenon DEF RecordedInv, SentIsRecorded, Recorded
<1> QED
    BY <1>1, <1>2, <1>3, Invariance, InitInv, NextInv, PTL DEF Spec

-------------------------------------------------------------------------------

\* The unique index, and that only a row that exists is ever sent.
KeyInv ==
    /\ \A m, n \in Notifications :
        /\ status[m] # "ABSENT" /\ status[n] # "ABSENT"
        /\ idempotencyKey[m] \in Keys /\ idempotencyKey[m] = idempotencyKey[n]
        => m = n
    /\ \A n \in Notifications : accepted[n] > 0 => status[n] # "ABSENT"

\* A step that inserts no row and delivers only rows that exist.
LEMMA KeyFrame ==
    ASSUME KeyInv, UNCHANGED idempotencyKey,
           \A n \in Notifications :
               /\ status'[n] = "ABSENT" <=> status[n] = "ABSENT"
               /\ accepted'[n] = accepted[n] \/ status[n] # "ABSENT"
    PROVE  KeyInv'
BY DEF KeyInv

\* Create and Cancel.
LEMMA KeyService ==
    ASSUME IInv, KeyInv, ServiceNext, UNCHANGED sendHistory
    PROVE  KeyInv'
<1>1. PICK n \in Notifications :
        \/ \E applied, replied \in BOOLEAN : CreateInsert(n, applied, replied)
        \/ CreateDuplicate(n)
        \/ CreateStep(n)
        \/ \E applied, replied \in BOOLEAN : CancelNotification(n, applied, replied)
    BY DEF ServiceNext
<1>2. /\ status \in [Notifications -> Status \cup {"ABSENT"}]
      /\ idempotencyKey \in [Notifications -> Keys \cup {NoKey}]
    BY Zenon DEF IInv, TypeOK, RepoTypeOK
<1>3. UNCHANGED accepted
    BY DEF sendHistory
<1>4. ASSUME NEW applied \in BOOLEAN, NEW replied \in BOOLEAN, CreateInsert(n, applied, replied)
      PROVE  KeyInv'
    <2>1. CASE ~applied
        BY <1>3, <1>4, <2>1, KeyFrame, ZenonT(30) DEF CreateInsert, repoVars
    <2>2. CASE applied
        <3>1. PICK k \in Keys \cup {NoKey} :
                /\ ~KeyTaken(k)
                /\ status' = [status EXCEPT ![n] = "ACCEPTED"]
                /\ idempotencyKey' = [idempotencyKey EXCEPT ![n] = k]
            BY <1>4, <2>2, Zenon DEF CreateInsert, Create
        <3>2. \A m \in Notifications : k \in Keys /\ status[m] # "ABSENT" => idempotencyKey[m] # k
            BY <3>1, RepoAssumption, Zenon DEF KeyTaken
        <3> QED
            BY <1>2, <1>3, <3>1, <3>2 DEF KeyInv
    <2> QED
        BY <2>1, <2>2
<1>5. ASSUME NEW applied \in BOOLEAN, NEW replied \in BOOLEAN,
             CreateMark(n, applied, replied) \/ CancelNotification(n, applied, replied)
      PROVE  KeyInv'
    <2>1. UNCHANGED idempotencyKey
        BY <1>5, Zenon DEF CreateMark, CancelNotification, UpdateStatus, Cancel, repoVars
    <2>2. CASE CreateMark(n, applied, replied)
        <3>1. /\ status[n] # "ABSENT"
              /\ \/ UNCHANGED status
                 \/ \E s \in {"QUEUED", "FAILED"} : status' = [status EXCEPT ![n] = s]
            BY <2>2, MarkCases, Zenon DEF IInv, RowExists, Creating, repoVars
        <3> QED
            BY <1>2, <1>3, <2>1, <3>1, KeyFrame, Zenon
    <2>3. CASE CancelNotification(n, applied, replied)
        <3>1. \/ UNCHANGED status
              \/ status' = [status EXCEPT ![n] = IF Claimable(n) THEN "CANCELED" ELSE @]
            BY <2>3, Zenon DEF CancelNotification, Cancel, repoVars
        <3> QED
            BY <1>2, <1>3, <2>1, <3>1, KeyFrame, Zenon DEF Claimable
    <2> QED
        BY <1>5, <2>2, <2>3
<1>6. ASSUME \/ CreateDuplicate(n) \/ CreateDefer(n)
             \/ \E enqueued, ok \in BOOLEAN : CreatePublish(n, enqueued, ok)
      PROVE  KeyInv'
    BY <1>3, <1>6, KeyFrame, Zenon DEF CreateDuplicate, CreateDefer, CreatePublish, repoVars
<1> QED
    BY <1>1, <1>4, <1>5, <1>6, Zenon DEF CreateStep

\* The scans, time and crashes.
LEMMA KeyOthers ==
    ASSUME IInv, KeyInv, SchedulerStep \/ RetryStep \/ TimePasses \/ Crash \/ UNCHANGED vars
    PROVE  KeyInv'
<1>1. status \in [Notifications -> Status \cup {"ABSENT"}]
    BY DEF IInv, TypeOK, RepoTypeOK
<1>2. CASE SchedulerStep
    <2>1. /\ UNCHANGED <<idempotencyKey, sendHistory>>
          /\ \/ UNCHANGED status
             \/ status' = [status EXCEPT ![schedCurrent] = IF @ = "ACCEPTED" THEN "QUEUED" ELSE @]
        BY <1>2, Zenon DEF SchedulerStep, SchedulerScan, SchedulerPublish, SchedulerMark,
            MarkQueuedIfAccepted, repoVars
    <2>2. \A n \in Notifications : status'[n] = "ABSENT" <=> status[n] = "ABSENT"
        BY <1>1, <2>1
    <2> QED
        BY <2>1, <2>2, KeyFrame DEF sendHistory
<1>3. CASE RetryStep \/ TimePasses \/ Crash \/ UNCHANGED vars
    <2>1. UNCHANGED <<status, idempotencyKey, sendHistory>>
        BY <1>3, ZenonT(30) DEF RetryStep, RetryScan, RetryPublish, RetryClear, ClearNextRetryAt,
            TimePasses, ScheduleFallsDue, RetryFallsDue, Crash, repoVars, vars
    <2> QED
        BY <2>1, KeyFrame DEF sendHistory
<1> QED
    BY <1>2, <1>3, Zenon

\* The workers.
LEMMA KeyWorker ==
    ASSUME IInv, KeyInv, NEW w \in Workers, WorkerStep(w) \/ ChannelLost(w)
    PROVE  KeyInv'
<1> DEFINE n == job[w]
<1>1. /\ status \in [Notifications -> Status \cup {"ABSENT"}]
      /\ accepted \in [Notifications -> Nat]
      /\ pc[w] # "idle" => n \in Notifications
    BY DEF IInv, TypeOK, RepoTypeOK, WorkerTypeOK
<1>2. Claims(w, n) /\ n \in Notifications => status[n] # "ABSENT"
    BY ClaimedRowExists, Zenon DEF IInv
<1>3. ASSUME NEW applied \in BOOLEAN, NEW replied \in BOOLEAN,
             \/ Lock(w, applied, replied) \/ RecordAttempt(w, applied, replied)
             \/ SetID(w, applied, replied)
      PROVE  KeyInv'
    <2>1. /\ n \in Notifications
          /\ UNCHANGED <<idempotencyKey, accepted>>
          /\ \/ UNCHANGED status
             \/ status' = [status EXCEPT ![n] = IF Claimable(n) THEN "SENDING" ELSE @]
        BY <1>1, <1>3, ZenonT(30) DEF Lock, RecordAttempt, SetID, LockForSending, CreateAttempt,
            SetProviderMessageID, repoVars, sendHistory
    <2>2. \A m \in Notifications : status'[m] = "ABSENT" <=> status[m] = "ABSENT"
        BY <1>1, <2>1 DEF Claimable
    <2> QED
        BY <2>1, <2>2, KeyFrame
<1>4. ASSUME NEW applied \in BOOLEAN, NEW replied \in BOOLEAN,
             \/ MarkSent(w, applied, replied) \/ ScheduleRetry(w, applied, replied)
             \/ MarkFailed(w, applied, replied)
      PROVE  KeyInv'
    <2>1. /\ pc[w] = "settle" /\ UNCHANGED <<idempotencyKey, accepted>>
          /\ \/ UNCHANGED status
             \/ \E s \in {"SENT", "QUEUED", "FAILED"} : status' = [status EXCEPT ![n] = s]
        BY <1>4, ZenonT(30) DEF MarkSent, ScheduleRetry, MarkFailed, Settle, UpdateStatus,
            UpdateStatusWithRetry, repoVars, sendHistory
    <2>2. n \in Notifications /\ status[n] # "ABSENT"
        BY <1>1, <1>2, <2>1, Zenon DEF Claims, Claiming
    <2>3. \A m \in Notifications : status'[m] = "ABSENT" <=> status[m] = "ABSENT"
        BY <1>1, <2>1, <2>2, ZenonT(30)
    <2> QED
        BY <2>1, <2>3, KeyFrame, ZenonT(30)
<1>5. CASE SendReturns(w)
    <2>1. /\ pc[w] = "send" /\ UNCHANGED <<status, idempotencyKey>>
          /\ \E a : accepted' = [accepted EXCEPT ![n] = a]
        BY <1>5, Zenon DEF SendReturns, repoVars
    <2>2. status[n] # "ABSENT"
        BY <1>1, <1>2, <2>1, Zenon DEF Claims, Claiming
    <2>3. \A m \in Notifications : accepted'[m] = accepted[m] \/ status[m] # "ABSENT"
        BY <1>1, <2>1, <2>2, ZenonT(30)
    <2> QED
        BY <2>1, <2>3, KeyFrame
<1>6. CASE Receive(w) \/ Send(w) \/ WaitFails(w) \/ Acknowledge(w) \/ Reject(w) \/ ChannelLost(w)
    <2>1. UNCHANGED <<status, idempotencyKey, accepted>>
        BY <1>6, Zenon
        DEF Receive, Send, WaitFails, Acknowledge, Reject, Done, ChannelLost, repoVars,
            sendHistory
    <2> QED
        BY <2>1, KeyFrame
<1> QED
    BY <1>3, <1>4, <1>5, <1>6, Zenon DEF WorkerStep

\* However often a create is repeated under one idempotency key, the
\* provider accepts at most one notification for it.
THEOREM KeyDeliversOnce == Spec => []OneDeliveryPerKey
<1>1. Init => KeyInv
    BY DEF Init, RepoInit, WorkerInit, KeyInv
<1>2. IInv /\ KeyInv /\ [Next]_vars => KeyInv'
    BY KeyService, KeyOthers, KeyWorker DEF Next, WorkerNext
<1>3. KeyInv => OneDeliveryPerKey
    BY Zenon DEF KeyInv, OneDeliveryPerKey
<1> QED
    BY <1>1, <1>2, <1>3, Invariance, InitInv, NextInv, PTL DEF Spec

-------------------------------------------------------------------------------
(* Nothing is left behind.                                                 *)

\* A message for n is in its queue, or with a worker that is not done with it.
Message(n) == ready[n] > 0 \/ \E w \in Workers : job[w] = n /\ pc[w] \notin {"idle", "ack"}

\* The provider has not been called for n, and no cancellation was confirmed.
Untried(n) == sends[n] = 0 /\ ~cancelAcked[n]

\* Who has the row or the message of n, as long as nothing has failed.
Kept(n) ==
    /\ creator[n] # "pubfailed"
    /\ n \in schedTodo \/ schedCurrent = n => status[n] # "ABSENT"
    /\ status[n] = "SENDING" => \E w \in Workers : Claims(w, n)
    /\ Untried(n) =>
        /\ status[n] \notin Settled
        /\ \/ status[n] = "QUEUED"
           \/ creator[n] \in {"published", "wrote", "overwrote"}
           \/ schedCurrent = n
           => Message(n)
        /\ status[n] = "ACCEPTED" => creator[n] \in Creating \/ scheduledAt[n] # "null"

\* A failure may leave a row or a message with nobody, so it ends this.
HandInv ==
    faults = 0 =>
        /\ \A w \in Workers :
            /\ pc[w] # "nack"
            /\ pc[w] \in Claiming \ {"limit"} => sends[job[w]] > 0
        /\ \A n \in Notifications : Kept(n)

\* The count of failures.
LEMMA FaultsAreNatural ==
    ASSUME IInv
    PROVE  faults \in Nat
BY DEF IInv, TypeOK

\* What a step that fails nowhere has done.
LEMMA NothingFailed ==
    ASSUME faults \in Nat, faults' = 0
    PROVE  /\ ~Fault
           /\ \A applied, replied \in BOOLEAN :
                Outcome(applied, replied) => applied /\ replied /\ faults = 0
           /\ \A n, enqueued, ok :
                Publish(n, enqueued, ok) =>
                    /\ enqueued /\ ok /\ faults = 0
                    /\ ready' = [ready EXCEPT ![n] = @ + 1]
<1>1. ~Fault
    BY DEF Fault
<1> QED
    BY <1>1, Zenon DEF Outcome, Publish

\* A step that leaves n's row to whoever has it.
LEMMA KeptFrame ==
    ASSUME NEW n \in Notifications, Kept(n),
           Message(n) => Message(n)',
           (\E w \in Workers : Claims(w, n)) => \E w \in Workers : Claims(w, n)',
           UNCHANGED <<status[n], creator[n], cancelAcked[n], sends[n]>>,
           scheduledAt'[n] = "null" => scheduledAt[n] = "null",
           n \in schedTodo' => n \in schedTodo,
           schedCurrent' = n => schedCurrent = n
    PROVE  Kept(n)'
<1>1. Workers' = Workers /\ Untried(n)' = Untried(n)
    BY DEF Workers, Untried
<1> QED
    BY <1>1, Zenon DEF Kept

\* A step of another process than the workers keeps the invariant when it
\* keeps it for the rows it writes or publishes.
LEMMA HandFrame ==
    ASSUME HandInv, faults = 0, UNCHANGED <<workerVars, sendHistory>>,
           NEW m \in Notifications, Kept(m)',
           \A n \in Notifications \ {m} :
               /\ ready'[n] = ready[n]
               /\ UNCHANGED <<status[n], creator[n], cancelAcked[n]>>
               /\ scheduledAt'[n] = "null" => scheduledAt[n] = "null"
               /\ n \in schedTodo' => n \in schedTodo
               /\ schedCurrent' = n => schedCurrent = n
    PROVE  HandInv'
<1>1. UNCHANGED <<pc, job, sends>>
    BY Zenon DEF workerVars, sendHistory
<1>2. ASSUME NEW n \in Notifications \ {m}
      PROVE  Kept(n)'
    <2>1. Kept(n) /\ (Message(n) => Message(n)')
        BY <1>1, Zenon DEF HandInv, Message, Workers
    <2>2. (\E w \in Workers : Claims(w, n)) => \E w \in Workers : Claims(w, n)'
        BY <1>1, Zenon DEF Claims
    <2> QED
        BY <1>1, <2>1, <2>2, KeptFrame, Zenon
<1>3. \A w \in Workers :
        /\ pc'[w] # "nack"
        /\ pc'[w] \in Claiming \ {"limit"} => sends'[job'[w]] > 0
    BY <1>1, Zenon DEF HandInv
<1> QED
    BY <1>2, <1>3, Zenon DEF HandInv, Workers

\* Create and Cancel.
LEMMA HandService ==
    ASSUME IInv, HandInv, faults' = 0, ServiceNext,
           UNCHANGED <<workerVars, sendHistory, schedVars>>
    PROVE  HandInv'
<1>1. /\ status \in [Notifications -> Status \cup {"ABSENT"}]
      /\ scheduledAt \in [Notifications -> Instant]
      /\ creator \in [Notifications -> {"idle", "wrote", "overwrote", "returned"} \cup Creating]
      /\ ready \in [Notifications -> Nat]
      /\ cancelAcked \in [Notifications -> BOOLEAN]
    BY Zenon DEF IInv, TypeOK, RepoTypeOK, ServiceTypeOK, BrokerTypeOK
<1> faults \in Nat
    BY FaultsAreNatural
<1>2. UNCHANGED <<pc, job, sends, schedTodo, schedCurrent>>
    BY Zenon DEF workerVars, sendHistory, schedVars
<1>3. PICK m \in Notifications :
        \/ \E applied, replied \in BOOLEAN : CreateInsert(m, applied, replied)
        \/ CreateDuplicate(m)
        \/ CreateStep(m)
        \/ \E applied, replied \in BOOLEAN : CancelNotification(m, applied, replied)
    BY Zenon DEF ServiceNext
<1>4. faults = 0 => Kept(m)
    BY Zenon DEF HandInv
<1>5. ASSUME NEW applied \in BOOLEAN, NEW replied \in BOOLEAN, CreateInsert(m, applied, replied)
      PROVE  HandInv'
    <2>1. applied /\ replied /\ faults = 0
        BY <1>1, <1>5, NothingFailed, Zenon DEF CreateInsert
    <2>2. /\ status' = [status EXCEPT ![m] = "ACCEPTED"]
          /\ creator' = [creator EXCEPT ![m] = "inserted"]
          /\ \E sched : scheduledAt' = [scheduledAt EXCEPT ![m] = sched]
          /\ UNCHANGED <<ready, cancelAcked>>
          /\ status[m] = "ABSENT"
        BY <1>5, <2>1, Zenon DEF CreateInsert, Create, brokerVars, IInv, RowExists
    <2>3. Kept(m)'
        BY <1>1, <1>2, <1>4, <2>1, <2>2, Zenon DEF Kept, Settled, Creating
    <2> QED
        BY <1>1, <1>2, <2>1, <2>2, <2>3, HandFrame, Zenon
<1>6. CASE CreateDuplicate(m) \/ CreateDefer(m)
    <2>1. /\ creator[m] = "idle" \/ (creator[m] = "inserted" /\ scheduledAt[m] = "future")
          /\ creator' = [creator EXCEPT ![m] = "returned"]
          /\ UNCHANGED <<status, scheduledAt, ready, cancelAcked, faults>>
        BY <1>1, <1>6 DEF CreateDuplicate, CreateDefer, EnqueueNow, repoVars, brokerVars
    <2>2. Message(m)' = Message(m) /\ Untried(m)' = Untried(m) /\ Workers' = Workers
        BY <1>2, <2>1, Zenon DEF Message, Untried, Workers
    <2>3. Kept(m)'
        BY <1>1, <1>2, <1>4, <2>1, <2>2, Zenon DEF Kept, IInv, RowExists, Claims
    <2> QED
        BY <1>1, <1>2, <2>1, <2>3, HandFrame, Zenon
<1>7. ASSUME NEW enqueued \in BOOLEAN, NEW ok \in BOOLEAN, CreatePublish(m, enqueued, ok)
      PROVE  HandInv'
    <2>1. /\ ok /\ faults = 0
          /\ ready' = [ready EXCEPT ![m] = @ + 1]
        BY <1>1, <1>7, NothingFailed, ZenonT(30) DEF CreatePublish
    <2>2. /\ creator[m] = "inserted" /\ creator' = [creator EXCEPT ![m] = "published"]
          /\ UNCHANGED <<status, scheduledAt, cancelAcked>>
        BY <1>7, <2>1, Zenon DEF CreatePublish, repoVars
    <2>3. Message(m)'
        BY <1>1, <2>1 DEF Message
    <2>4. Kept(m)'
        BY <1>1, <1>2, <1>4, <2>1, <2>2, <2>3, Zenon DEF Kept, Untried, Creating, Claims, Workers
    <2> QED
        BY <1>1, <1>2, <2>1, <2>2, <2>4, HandFrame, Zenon
<1>8. ASSUME NEW applied \in BOOLEAN, NEW replied \in BOOLEAN, CreateMark(m, applied, replied)
      PROVE  HandInv'
    <2>1. applied /\ replied /\ faults = 0
        BY <1>1, <1>8, NothingFailed, Zenon DEF CreateMark
    <2>2. /\ creator[m] = "published"
          /\ \E x \in {"wrote", "overwrote"} : creator' = [creator EXCEPT ![m] = x]
          /\ status' = [status EXCEPT ![m] = "QUEUED"]
          /\ UNCHANGED <<ready, scheduledAt, cancelAcked>>
        BY <1>4, <1>8, <2>1, Zenon DEF CreateMark, MarkedStatus, UpdateStatus,
            brokerVars, Kept
    <2>3. Message(m)' = Message(m) /\ Untried(m)' = Untried(m)
        BY <1>2, <2>2, Zenon DEF Message, Untried, Workers
    <2>4. Kept(m)'
        BY <1>1, <1>2, <1>4, <2>1, <2>2, <2>3, Zenon DEF Kept, Settled
    <2> QED
        BY <1>1, <1>2, <2>1, <2>2, <2>4, HandFrame, Zenon
<1>9. ASSUME NEW applied \in BOOLEAN, NEW replied \in BOOLEAN,
             CancelNotification(m, applied, replied)
      PROVE  HandInv'
    <2>1. applied /\ replied /\ faults = 0
        BY <1>1, <1>9, NothingFailed, Zenon DEF CancelNotification
    <2>2. /\ status' = [status EXCEPT ![m] = IF Claimable(m) THEN "CANCELED" ELSE @]
          /\ cancelAcked' = [cancelAcked EXCEPT ![m] = @ \/ Claimable(m)]
          /\ UNCHANGED <<creator, ready, scheduledAt>>
        BY <1>9, <2>1, Zenon DEF CancelNotification, Cancel, brokerVars
    <2>3. Message(m)' = Message(m)
        BY <1>2, <2>2, Zenon DEF Message, Workers
    <2>4. Kept(m)'
        <3>1. CASE Claimable(m)
            <4>1. status'[m] = "CANCELED" /\ ~Untried(m)'
                BY <1>1, <2>2, <3>1, Zenon DEF Untried
            <4> QED
                BY <1>4, <2>1, <2>2, <4>1, Zenon DEF Kept
        <3>2. CASE ~Claimable(m)
            <4>1. UNCHANGED <<status[m], cancelAcked[m]>> /\ Untried(m)' = Untried(m)
                BY <1>1, <1>2, <2>2, <3>2, Zenon DEF Untried
            <4> QED
                BY <1>2, <1>4, <2>1, <2>2, <2>3, <4>1, Zenon DEF Kept, Claims, Workers
        <3> QED
            BY <3>1, <3>2
    <2> QED
        BY <1>1, <1>2, <2>1, <2>2, <2>4, HandFrame, Zenon
<1> QED
    BY <1>3, <1>5, <1>6, <1>7, <1>8, <1>9, Zenon DEF CreateStep

\* The scans and time.
LEMMA HandScans ==
    ASSUME IInv, HandInv, faults' = 0, SchedulerStep \/ RetryStep \/ TimePasses
    PROVE  HandInv'
<1>1. /\ status \in [Notifications -> Status \cup {"ABSENT"}]
      /\ scheduledAt \in [Notifications -> Instant]
      /\ ready \in [Notifications -> Nat]
      /\ schedTodo \subseteq Notifications
      /\ schedCurrent \in Notifications \cup {None}
    BY Zenon DEF IInv, TypeOK, RepoTypeOK, BrokerTypeOK, SchedulerTypeOK
<1> faults \in Nat
    BY FaultsAreNatural
<1>2. /\ UNCHANGED <<workerVars, sendHistory, creator, cancelAcked>>
      /\ UNCHANGED <<pc, job, sends>>
    BY ZenonT(30) DEF SchedulerStep, SchedulerScan, SchedulerPublish, SchedulerMark, RetryStep,
        RetryScan, RetryPublish, RetryClear, TimePasses, serviceVars, workerVars, sendHistory
<1>3. ASSUME NEW m \in Notifications, ready' = [ready EXCEPT ![m] = @ + 1]
      PROVE  Message(m)'
    BY <1>1, <1>3 DEF Message
<1>4. CASE SchedulerScan
    <2>1. /\ UNCHANGED <<status, scheduledAt, ready, schedCurrent, faults>>
          /\ \A n \in schedTodo' : status[n] # "ABSENT"
        BY <1>4, Zenon DEF SchedulerScan, FirstRows, DueForSchedule, repoVars, brokerVars
    <2>2. ASSUME NEW n \in Notifications PROVE Kept(n)'
        <3>1. Kept(n) /\ Message(n)' = Message(n) /\ Untried(n)' = Untried(n)
            BY <1>2, <2>1, Zenon DEF HandInv, Message, Untried, Workers
        <3> QED
            BY <1>2, <2>1, <3>1, Zenon DEF Kept, Claims, Workers
    <2> QED
        BY <1>2, <2>1, <2>2, Zenon DEF HandInv, Workers
<1>5. ASSUME NEW m \in Notifications, NEW enqueued \in BOOLEAN, NEW ok \in BOOLEAN,
             SchedulerPublish(m, enqueued, ok)
      PROVE  HandInv'
    <2>1. /\ ok /\ faults = 0
          /\ ready' = [ready EXCEPT ![m] = @ + 1]
        BY <1>5, NothingFailed, Zenon DEF SchedulerPublish
    <2>2. /\ m \in schedTodo /\ schedTodo' = schedTodo \ {m} /\ schedCurrent' = m
          /\ UNCHANGED <<status, scheduledAt>>
        BY <1>5, <2>1, Zenon DEF SchedulerPublish, repoVars
    <2>3. Kept(m) /\ Message(m)' /\ Untried(m)' = Untried(m)
        BY <1>2, <1>3, <2>1, Zenon DEF HandInv, Untried
    <2>4. Kept(m)'
        BY <1>2, <2>1, <2>2, <2>3, Zenon DEF Kept, Claims, Workers
    <2> QED
        BY <1>1, <1>2, <2>1, <2>2, <2>4, HandFrame, Zenon
<1>6. ASSUME NEW applied \in BOOLEAN, NEW replied \in BOOLEAN, SchedulerMark(applied, replied)
      PROVE  HandInv'
    <2>1. applied /\ replied /\ faults = 0
        BY <1>6, NothingFailed, Zenon DEF SchedulerMark
    <2> DEFINE m == schedCurrent
    <2>2. /\ m \in Notifications /\ schedCurrent' = None /\ UNCHANGED schedTodo
          /\ status' = [status EXCEPT ![m] = IF @ = "ACCEPTED" THEN "QUEUED" ELSE @]
          /\ UNCHANGED <<ready, scheduledAt>>
        BY <1>1, <1>6, <2>1, Zenon DEF SchedulerMark, MarkQueuedIfAccepted, brokerVars
    <2>3. PICK n \in Notifications : n = m
        BY <2>2
    <2>4. Kept(n) /\ Message(n)' = Message(n) /\ Untried(n)' = Untried(n)
        BY <1>2, <2>1, <2>2, Zenon DEF HandInv, Message, Untried, Workers
    <2>5. /\ n # None
          /\ status'[n] = IF status[n] = "ACCEPTED" THEN "QUEUED" ELSE status[n]
        BY <1>1, <2>2, <2>3, BrokerAssumption, Zenon
    <2>6. Kept(n)'
        <3>1. /\ creator[n] # "pubfailed" /\ status[n] # "ABSENT"
              /\ status[n] = "SENDING" => \E w \in Workers : Claims(w, n)
              /\ Untried(n) => status[n] \notin Settled /\ Message(n)
            BY <2>3, <2>4, Zenon DEF Kept
        <3>2. /\ status'[n] \notin {"ABSENT", "ACCEPTED"}
              /\ status'[n] \in Settled \cup {"SENDING"} => status'[n] = status[n]
            BY <2>5, <3>1, Zenon DEF Settled
        <3> QED
            BY <1>2, <2>4, <3>1, <3>2, Zenon DEF Kept, Claims, Workers
    <2>7. \A k \in Notifications : schedCurrent' # k
        BY <2>2, BrokerAssumption, Zenon
    <2> QED
        BY <1>1, <1>2, <2>1, <2>2, <2>3, <2>6, <2>7, HandFrame, Zenon
<1>7. CASE RetryStep
    <2>1. /\ UNCHANGED <<status, scheduledAt, schedTodo, schedCurrent>> /\ faults = 0
          /\ \/ UNCHANGED ready
             \/ \E m \in Notifications : ready' = [ready EXCEPT ![m] = @ + 1]
        BY <1>7, NothingFailed, ZenonT(30) DEF RetryStep, RetryScan, RetryPublish, RetryClear,
            ClearNextRetryAt, repoVars, brokerVars, schedVars
    <2>2. \A n \in Notifications : ready[n] > 0 => ready'[n] > 0
        BY <1>1, <2>1
    <2>3. ASSUME NEW n \in Notifications PROVE Kept(n)'
        <3>1. Kept(n) /\ (Message(n) => Message(n)')
            BY <1>2, <2>1, <2>2, Zenon DEF HandInv, Message, Workers
        <3>2. (\E w \in Workers : Claims(w, n)) => \E w \in Workers : Claims(w, n)'
            BY <1>2, Zenon DEF Claims
        <3> QED
            BY <1>2, <2>1, <3>1, <3>2, KeptFrame, Zenon
    <2> QED
        BY <1>2, <2>1, <2>3, Zenon DEF HandInv, Workers
<1>8. CASE TimePasses
    <2>1. /\ UNCHANGED <<status, ready, schedTodo, schedCurrent, faults>>
          /\ \A n \in Notifications : scheduledAt'[n] = "null" => scheduledAt[n] = "null"
        BY <1>1, <1>8 DEF TimePasses, ScheduleFallsDue, RetryFallsDue, brokerVars, schedVars
    <2>2. ASSUME NEW n \in Notifications PROVE Kept(n)'
        <3>1. Kept(n) /\ (Message(n) => Message(n)')
            BY <1>2, <2>1, Zenon DEF HandInv, Message, Workers
        <3>2. (\E w \in Workers : Claims(w, n)) => \E w \in Workers : Claims(w, n)'
            BY <1>2, Zenon DEF Claims
        <3> QED
            BY <1>2, <2>1, <3>1, <3>2, KeptFrame, Zenon
    <2> QED
        BY <1>2, <2>1, <2>2, Zenon DEF HandInv, Workers
<1> QED
    BY <1>4, <1>5, <1>6, <1>7, <1>8, Zenon DEF SchedulerStep

\* A step of worker w that has nothing to do with n.
LEMMA HandWorkerFrame ==
    ASSUME HandInv, faults = 0, UNCHANGED <<serviceVars, schedVars, scheduledAt>>,
           NEW w \in Workers, NEW n \in Notifications,
           UNCHANGED <<status[n], sends[n]>>,
           \A v \in Workers \ {w} : UNCHANGED <<pc[v], job[v]>>,
           ready[n] > 0 => Message(n)',
           job[w] = n /\ pc[w] \notin {"idle", "ack"} => Message(n)',
           Claims(w, n) => Claims(w, n)'
    PROVE  Kept(n)'
<1>1. Kept(n)
    BY Zenon DEF HandInv
<1>2. Message(n) => Message(n)'
    BY Zenon DEF Message, Workers
<1>3. (\E v \in Workers : Claims(v, n)) => \E v \in Workers : Claims(v, n)'
    BY Zenon DEF Claims, Workers
<1> QED
    BY <1>1, <1>2, <1>3, KeptFrame, Zenon DEF serviceVars, schedVars

\* The workers.
LEMMA HandWorker ==
    ASSUME IInv, HandInv, faults' = 0, NEW w \in Workers, WorkerStep(w) \/ ChannelLost(w),
           UNCHANGED schedVars
    PROVE  HandInv'
<1>1. /\ status \in [Notifications -> Status \cup {"ABSENT"}]
      /\ ready \in [Notifications -> Nat] /\ sends \in [Notifications -> Nat]
      /\ pc \in [Workers -> Claiming \cup {"idle", "lock", "ack", "nack"}]
      /\ job \in [Workers -> Notifications \cup {None}]
      /\ pc[w] # "idle" => job[w] \in Notifications
    BY Zenon DEF IInv, TypeOK, RepoTypeOK, BrokerTypeOK, WorkerTypeOK
<1> faults \in Nat
    BY FaultsAreNatural
<1>2. UNCHANGED <<serviceVars, creator, cancelAcked, schedTodo, schedCurrent>>
    BY WorkerLeavesService, Zenon DEF serviceVars, schedVars
<1>3. ASSUME faults = 0, pc'[w] # "nack",
             pc'[w] \in Claiming \ {"limit"} => sends'[job'[w]] > 0,
             \A v \in Workers \ {w} : UNCHANGED <<pc[v], job[v]>>,
             \A n \in Notifications : sends[n] > 0 => sends'[n] > 0,
             \A n \in Notifications : Kept(n)'
      PROVE  HandInv'
    <2>1. ASSUME NEW v \in Workers
          PROVE  /\ pc'[v] # "nack"
                 /\ pc'[v] \in Claiming \ {"limit"} => sends'[job'[v]] > 0
        <3>1. CASE v = w
            BY <1>3, <3>1, Zenon
        <3>2. CASE v # w
            <4>1. pc[v] # "idle" => job[v] \in Notifications
                BY Zenon DEF IInv, TypeOK, WorkerTypeOK
            <4> QED
                BY <1>3, <3>2, <4>1, Zenon DEF HandInv, Claiming
        <3> QED
            BY <3>1, <3>2
    <2> QED
        BY <1>3, <2>1, ZenonT(30) DEF HandInv, Workers
<1>4. CASE Receive(w)
    <2>1. PICK m \in Notifications :
            /\ ready' = [ready EXCEPT ![m] = @ - 1] /\ job' = [job EXCEPT ![w] = m]
            /\ pc[w] = "idle" /\ pc' = [pc EXCEPT ![w] = "lock"]
            /\ UNCHANGED <<status, scheduledAt, sends, faults>>
        BY <1>4, Zenon DEF Receive, Deliver, GoTo, repoVars, sendHistory
    <2>2. /\ pc'[w] = "lock" /\ job'[w] = m /\ Message(m)'
          /\ \A v \in Workers \ {w} : UNCHANGED <<pc[v], job[v]>>
          /\ \A n \in Notifications \ {m} : ready'[n] = ready[n]
        BY <1>1, <2>1, Zenon DEF Message, Workers
    <2>3. ASSUME NEW n \in Notifications PROVE Kept(n)'
        <3>1. ready[n] > 0 => Message(n)'
            BY <2>2, Zenon DEF Message
        <3> QED
            BY <1>2, <2>1, <2>2, <3>1, HandWorkerFrame, Zenon DEF Claims, Claiming
    <2> QED
        BY <1>3, <2>1, <2>2, <2>3, Zenon DEF Claiming
<1>5. ASSUME NEW applied \in BOOLEAN, NEW replied \in BOOLEAN, Lock(w, applied, replied)
      PROVE  HandInv'
    <2>1. applied /\ replied /\ faults = 0
        BY <1>5, NothingFailed, Zenon DEF Lock
    <2>2. PICK m \in Notifications :
            /\ job[w] = m
            /\ status' = [status EXCEPT ![m] = IF Claimable(m) THEN "SENDING" ELSE @]
            /\ pc[w] = "lock" /\ pc' = [pc EXCEPT ![w] = IF Claimable(m) THEN "limit" ELSE "ack"]
            /\ UNCHANGED <<ready, job, scheduledAt, sends>>
        BY <1>1, <1>5, <2>1, Zenon DEF Lock, LockForSending, GoTo, brokerVars, sendHistory
    <2>3. /\ pc'[w] = IF Claimable(m) THEN "limit" ELSE "ack"
          /\ \A v \in Workers \ {w} : UNCHANGED <<pc[v], job[v]>>
          /\ \A n \in Notifications \ {m} : status'[n] = status[n]
          /\ \A n \in Notifications : ready[n] > 0 => Message(n)'
        BY <1>1, <2>2, Zenon DEF Message
    <2>4. ASSUME NEW n \in Notifications, n # m PROVE Kept(n)'
        BY <1>2, <2>1, <2>2, <2>3, <2>4, HandWorkerFrame, Zenon DEF Claims
    <2>5. Kept(m) /\ Untried(m)' = Untried(m)
        BY <1>2, <2>1, <2>2, Zenon DEF HandInv, Untried
    <2>6. CASE Claimable(m)
        <3>1. status'[m] = "SENDING" /\ pc'[w] = "limit" /\ job'[w] = m
            BY <1>1, <2>2, <2>3, <2>6, Zenon
        <3>2. Message(m)' /\ Claims(w, m)'
            BY <3>1, Zenon DEF Message, Claims, Claiming, Workers
        <3>3. Kept(m)'
            BY <1>2, <2>5, <3>1, <3>2, Zenon DEF Kept, Settled, Workers
        <3> QED
            BY <1>3, <2>1, <2>2, <2>3, <2>4, <3>1, <3>3, Zenon
    <2>7. CASE ~Claimable(m)
        <3>1. status'[m] = status[m] /\ pc'[w] = "ack"
            BY <1>1, <2>2, <2>3, <2>7, Zenon
        <3>2. \A v \in Workers : Claims(v, m) => Claims(v, m)' /\ Message(m)'
            BY <2>2, <2>3, Zenon DEF Claims, Claiming, Message, Workers
        <3>3. ASSUME Untried(m),
                     creator[m] \in {"published", "wrote", "overwrote"} \/ schedCurrent = m
              PROVE  Message(m)'
            <4>1. status[m] = "SENDING"
                BY <1>1, <2>5, <2>7, <3>3, Zenon
                DEF Kept, IInv, RowExists, Creating, Claimable, Status, Settled
            <4> QED
                BY <2>5, <3>2, <4>1, Zenon DEF Kept
        <3>4. Kept(m)'
            BY <1>2, <2>2, <2>5, <2>7, <3>1, <3>2, <3>3, Zenon DEF Kept, Claimable, Workers
        <3> QED
            BY <1>3, <2>1, <2>2, <2>3, <2>4, <3>1, <3>4, Zenon DEF Claiming
    <2> QED
        BY <2>6, <2>7
<1>6. CASE Send(w)
    <2>1. PICK m \in Notifications :
            /\ job[w] = m /\ pc[w] = "limit"
            /\ sends' = [sends EXCEPT ![m] = @ + 1]
            /\ pc' = [pc EXCEPT ![w] = "send"]
            /\ UNCHANGED <<status, ready, job, scheduledAt, faults>>
        BY <1>1, <1>6, Zenon DEF Send, GoTo, repoVars, brokerVars
    <2>2. sends'[m] > 0 /\ \A n \in Notifications : sends[n] > 0 => sends'[n] > 0
        BY <1>1, <2>1
    <2>3. /\ pc'[w] = "send" /\ job'[w] = m
          /\ \A v \in Workers \ {w} : UNCHANGED <<pc[v], job[v]>>
          /\ \A n \in Notifications \ {m} : sends'[n] = sends[n]
          /\ \A n \in Notifications : ready[n] > 0 => Message(n)'
        BY <1>1, <2>1, Zenon DEF Message
    <2>4. ASSUME NEW n \in Notifications, n # m PROVE Kept(n)'
        BY <1>2, <2>1, <2>3, <2>4, HandWorkerFrame, Zenon DEF Claims
    <2>5. Kept(m) /\ Claims(w, m)' /\ sends'[m] # 0
        <3>1. sends'[m] # 0
            BY <2>2
        <3> QED
            BY <2>1, <2>3, <3>1, ZenonT(30) DEF HandInv, Claims, Claiming
    <2>6. Kept(m)'
        BY <1>2, <2>1, <2>5, Zenon DEF Kept, Untried, Workers
    <2> QED
        BY <1>3, <2>1, <2>2, <2>3, <2>4, <2>6, Zenon
<1>7. CASE \/ SendReturns(w)
           \/ \E applied, replied \in BOOLEAN :
                RecordAttempt(w, applied, replied) \/ SetID(w, applied, replied)
    <2>1. faults = 0 /\ UNCHANGED <<status, ready, job, scheduledAt, sends>>
        BY <1>7, NothingFailed, Zenon DEF SendReturns, RecordAttempt, SetID, CreateAttempt,
            SetProviderMessageID, repoVars, brokerVars, sendHistory
    <2>2. /\ pc[w] \in Claiming \ {"limit"}
          /\ \E l \in Claiming \ {"limit"} : pc' = [pc EXCEPT ![w] = l]
        BY <1>7, NothingFailed, ZenonT(30) DEF SendReturns, RecordAttempt, SetID, GoTo, Claiming
    <2>3. /\ pc'[w] \in Claiming \ {"limit"}
          /\ \A v \in Workers \ {w} : UNCHANGED <<pc[v], job[v]>>
          /\ \A n \in Notifications : ready[n] > 0 => Message(n)'
        BY <1>1, <2>1, <2>2, Zenon DEF Message
    <2>4. ASSUME NEW n \in Notifications PROVE Kept(n)'
        <3>1. job[w] = n => Message(n)'
            BY <2>1, <2>3, Zenon DEF Message, Claiming, Workers
        <3> QED
            BY <1>2, <2>1, <2>3, <3>1, HandWorkerFrame, Zenon DEF Claims
    <2>5. sends'[job'[w]] > 0 /\ pc'[w] # "nack"
        BY <2>1, <2>2, <2>3, Zenon DEF HandInv, Claiming
    <2> QED
        BY <1>3, <2>1, <2>3, <2>4, <2>5, Zenon
<1>8. ASSUME NEW applied \in BOOLEAN, NEW replied \in BOOLEAN,
             \/ MarkSent(w, applied, replied) \/ ScheduleRetry(w, applied, replied)
             \/ MarkFailed(w, applied, replied)
      PROVE  HandInv'
    <2>1. applied /\ replied /\ faults = 0
        BY <1>8, NothingFailed, Zenon DEF MarkSent, ScheduleRetry, MarkFailed, Settle
    <2>2. PICK m \in Notifications :
            /\ job[w] = m /\ pc[w] = "settle" /\ pc' = [pc EXCEPT ![w] = "ack"]
            /\ \E s \in {"SENT", "QUEUED", "FAILED"} : status' = [status EXCEPT ![m] = s]
            /\ UNCHANGED <<ready, job, scheduledAt, sends>>
        BY <1>1, <1>8, <2>1, ZenonT(30) DEF MarkSent, ScheduleRetry, MarkFailed, Settle, GoTo,
            UpdateStatus, UpdateStatusWithRetry, brokerVars, sendHistory
    <2>3. /\ pc'[w] = "ack"
          /\ \A v \in Workers \ {w} : UNCHANGED <<pc[v], job[v]>>
          /\ \A n \in Notifications \ {m} : status'[n] = status[n]
          /\ \A n \in Notifications : ready[n] > 0 => Message(n)'
          /\ status'[m] \in {"SENT", "QUEUED", "FAILED"}
        BY <1>1, <2>2, Zenon DEF Message
    <2>4. ASSUME NEW n \in Notifications, n # m PROVE Kept(n)'
        BY <1>2, <2>1, <2>2, <2>3, <2>4, HandWorkerFrame, Zenon DEF Claims
    <2>5. Kept(m) /\ sends'[m] # 0
        <3>1. sends[m] > 0 => sends[m] # 0
            BY <1>1
        <3> QED
            BY <2>1, <2>2, <3>1, Zenon DEF HandInv, Claiming
    <2>6. Kept(m)'
        BY <1>2, <2>3, <2>5, Zenon DEF Kept, Untried
    <2> QED
        BY <1>3, <2>1, <2>2, <2>3, <2>4, <2>6, Zenon DEF Claiming
<1>9. CASE Acknowledge(w)
    <2>1. /\ pc[w] = "ack" /\ pc' = [pc EXCEPT ![w] = "idle"]
          /\ job' = [job EXCEPT ![w] = None]
          /\ UNCHANGED <<status, ready, scheduledAt, sends, faults>>
        BY <1>9, Zenon DEF Acknowledge, Ack, Done, GoTo, repoVars, sendHistory
    <2>2. /\ pc'[w] = "idle"
          /\ \A v \in Workers \ {w} : UNCHANGED <<pc[v], job[v]>>
          /\ \A n \in Notifications : ready[n] > 0 => Message(n)'
        BY <1>1, <2>1, Zenon DEF Message
    <2>3. ASSUME NEW n \in Notifications PROVE Kept(n)'
        BY <1>2, <2>1, <2>2, HandWorkerFrame, Zenon DEF Claims, Claiming
    <2> QED
        BY <1>3, <2>1, <2>2, <2>3, Zenon DEF Claiming
<1>10. ~WaitFails(w) /\ ~ChannelLost(w) /\ ~Reject(w)
    BY NothingFailed, Zenon DEF WaitFails, ChannelLost, Reject, Done, HandInv
<1> QED
    BY <1>4, <1>5, <1>6, <1>7, <1>8, <1>9, <1>10, Zenon DEF WorkerStep

\* Init => HandInv, and every step preserves it.
LEMMA HandInvariant == Spec => [](IInv /\ HandInv)
<1>1. Init => HandInv
    <2> SUFFICES ASSUME Init PROVE HandInv
        OBVIOUS
    <2>1. \A n \in Notifications : Kept(n)
        BY BrokerAssumption DEF Init, RepoInit, ServiceInit, SchedulerInit, Kept, Settled
    <2>2. \A w \in Workers : pc[w] = "idle"
        BY DEF Init, WorkerInit
    <2> QED
        BY <2>1, <2>2 DEF HandInv, Claiming
<1>2. ASSUME IInv, HandInv, [Next]_vars
      PROVE  HandInv'
    <2> SUFFICES ASSUME faults' = 0 PROVE HandInv'
        BY DEF HandInv
    <2>1. CASE UNCHANGED vars
        <3>1. /\ UNCHANGED <<status, scheduledAt, ready, creator, cancelAcked, faults>>
              /\ UNCHANGED <<pc, job, sends, schedTodo, schedCurrent>>
            BY <1>2, <2>1, Zenon DEF vars, repoVars, brokerVars, serviceVars, workerVars,
                sendHistory, schedVars
        <3>2. ASSUME NEW n \in Notifications, Kept(n) PROVE Kept(n)'
            BY <3>1, <3>2, Zenon DEF Kept, Message, Untried, Claims, Workers
        <3> QED
            BY <1>2, <3>1, <3>2, Zenon DEF HandInv, Workers
    <2>2. ~Crash
        BY <1>2, FaultsAreNatural, NothingFailed, Zenon DEF Crash
    <2> QED
        <3>1. CASE ServiceNext /\ UNCHANGED <<workerVars, sendHistory, schedVars, retryVars>>
            BY <1>2, <3>1, HandService, Zenon
        <3>2. CASE WorkerNext /\ UNCHANGED <<schedVars, retryVars>>
            BY <1>2, <3>2, HandWorker, Zenon DEF WorkerNext
        <3>3. CASE SchedulerStep \/ RetryStep \/ TimePasses
            BY <1>2, <3>3, HandScans, Zenon
        <3> QED
            BY <1>2, <2>1, <2>2, <3>1, <3>2, <3>3, Zenon DEF Next
<1> QED
    BY <1>1, <1>2, Invariance, InitInv, NextInv, PTL DEF Spec

\* The step orphans n: a failure of the worker that has it.
OrphanedByFailure(n) ==
    /\ faults' = faults + 1
    /\ \E w \in Workers : job[w] = n /\ pc[w] # pc'[w] /\ pc'[w] \in {"nack", "idle"}

\* A step of w orphans at most the row that w works on.
LEMMA OrphanIsOwn ==
    ASSUME NEW w \in Workers, NEW n \in Notifications, Orphaned(n)', ~Orphaned(n),
           \A v \in Workers \ {w} : UNCHANGED <<pc[v], job[v]>>,
           status'[n] = status[n] \/ job[w] = n
    PROVE  /\ job[w] = n
           /\ status'[n] = status[n] => pc[w] \in Claiming
BY Zenon DEF Orphaned, Claims, Workers

\* A worker orphans a row only when it fails.
LEMMA WorkerOrphans ==
    ASSUME IInv, NEW w \in Workers, WorkerStep(w) \/ ChannelLost(w),
           NEW n \in Notifications, Orphaned(n)', ~Orphaned(n)
    PROVE  OrphanedByFailure(n)
<1>1. /\ status \in [Notifications -> Status \cup {"ABSENT"}]
      /\ pc \in [Workers -> Claiming \cup {"idle", "lock", "ack", "nack"}]
      /\ job \in [Workers -> Notifications \cup {None}]
      /\ pc[w] # "idle" => job[w] \in Notifications
    BY Zenon DEF IInv, TypeOK, RepoTypeOK, WorkerTypeOK
<1>2. status'[n] = "SENDING" /\ ~Claims(w, n)'
    BY Zenon DEF Orphaned, Workers
<1>3. ASSUME pc' = [pc EXCEPT ![w] = "nack"], pc[w] # "nack", UNCHANGED job, faults' = faults + 1,
             status'[n] = status[n] \/ job[w] = n
      PROVE  OrphanedByFailure(n)
    BY <1>1, <1>3, OrphanIsOwn, Zenon DEF OrphanedByFailure
<1>4. \A applied, replied \in BOOLEAN :
        Outcome(applied, replied) => (replied => applied) /\ (replied \/ faults' = faults + 1)
    BY Zenon DEF Outcome, Fault
<1>5. CASE Receive(w) \/ Acknowledge(w) \/ Reject(w) \/ ChannelLost(w)
    <2>1. /\ UNCHANGED status
          /\ \/ UNCHANGED <<pc, job>>
             \/ pc[w] \notin Claiming /\ \A v \in Workers \ {w} : UNCHANGED <<pc[v], job[v]>>
        BY <1>1, <1>5, ZenonT(30) DEF Receive, Acknowledge, Reject, ChannelLost, Done, GoTo,
            repoVars, workerVars, Claiming
    <2> QED
        BY <2>1, OrphanIsOwn, Zenon DEF Orphaned, Claims, Workers
<1>6. CASE Send(w) \/ SendReturns(w)
    <2>1. /\ UNCHANGED <<status, job>>
          /\ \E p \in {"send", "record"} : pc' = [pc EXCEPT ![w] = p]
        BY <1>6, Zenon DEF Send, SendReturns, GoTo, repoVars
    <2>2. job[w] = n /\ pc'[w] \in Claiming
        BY <1>1, <2>1, OrphanIsOwn DEF Claiming
    <2> QED
        BY <1>2, <2>1, <2>2, Zenon DEF Claims
<1>7. CASE WaitFails(w)
    BY <1>3, <1>7, Zenon DEF WaitFails, Fault, GoTo, repoVars
<1>8. ASSUME NEW applied \in BOOLEAN, NEW replied \in BOOLEAN, Lock(w, applied, replied)
      PROVE  OrphanedByFailure(n)
    <2> DEFINE label == IF ~replied THEN "nack" ELSE IF Claimable(job[w]) THEN "limit" ELSE "ack"
    <2>1. /\ pc[w] = "lock" /\ pc' = [pc EXCEPT ![w] = label] /\ UNCHANGED job
          /\ \/ status' = [status EXCEPT ![job[w]] = IF Claimable(job[w]) THEN "SENDING" ELSE @]
             \/ UNCHANGED status /\ ~replied
        BY <1>4, <1>8, Zenon DEF Lock, LockForSending, GoTo, repoVars, Outcome
    <2>2. status'[n] = status[n] \/ (job[w] = n /\ Claimable(n))
        BY <1>1, <2>1, Zenon
    <2>3. CASE ~replied
        BY <1>3, <1>4, <1>8, <2>1, <2>2, <2>3, Zenon DEF Lock
    <2>4. CASE replied
        <3>1. job[w] = n /\ Claimable(n)
            BY <1>1, <2>1, <2>2, OrphanIsOwn, Zenon DEF Claiming
        <3>2. pc'[w] = "limit" /\ job'[w] = n
            BY <1>1, <2>1, <2>4, <3>1, Zenon
        <3> QED
            BY <1>2, <3>2, Zenon DEF Claims, Claiming
    <2> QED
        BY <2>3, <2>4
<1>9. ASSUME NEW applied \in BOOLEAN, NEW replied \in BOOLEAN,
             RecordAttempt(w, applied, replied) \/ SetID(w, applied, replied)
      PROVE  OrphanedByFailure(n)
    <2>1. /\ pc[w] \in Claiming /\ UNCHANGED <<status, job>> /\ Outcome(applied, replied)
          /\ \/ replied /\ \E p \in Claiming : pc' = [pc EXCEPT ![w] = p]
             \/ ~replied /\ pc' = [pc EXCEPT ![w] = "nack"]
        BY <1>9, ZenonT(30) DEF RecordAttempt, SetID, CreateAttempt, SetProviderMessageID, GoTo,
            repoVars, Claiming
    <2>2. CASE ~replied
        BY <1>3, <1>4, <2>1, <2>2, Zenon DEF Claiming
    <2>3. CASE replied
        <3>1. job'[w] = n /\ pc'[w] \in Claiming
            BY <1>1, <2>1, <2>3, OrphanIsOwn, Zenon
        <3> QED
            BY <1>2, <3>1, Zenon DEF Claims
    <2> QED
        BY <2>2, <2>3
<1>10. ASSUME NEW applied \in BOOLEAN, NEW replied \in BOOLEAN,
              \/ MarkSent(w, applied, replied) \/ ScheduleRetry(w, applied, replied)
              \/ MarkFailed(w, applied, replied)
       PROVE  OrphanedByFailure(n)
    <2>1. /\ pc[w] = "settle" /\ UNCHANGED job /\ Outcome(applied, replied)
          /\ pc' = [pc EXCEPT ![w] = IF replied THEN "ack" ELSE "nack"]
          /\ IF applied
             THEN \E s \in {"SENT", "QUEUED", "FAILED"} : status' = [status EXCEPT ![job[w]] = s]
             ELSE UNCHANGED status
        BY <1>10, ZenonT(30) DEF MarkSent, ScheduleRetry, MarkFailed, Settle, UpdateStatus,
            UpdateStatusWithRetry, GoTo, repoVars
    <2>2. status'[n] = status[n] \/ (job[w] = n /\ applied)
        BY <1>1, <2>1, Zenon
    <2>3. job[w] = n
        BY <1>1, <2>1, <2>2, OrphanIsOwn, Zenon
    <2>4. ~applied
        BY <1>1, <1>2, <2>1, <2>3, Zenon
    <2> QED
        BY <1>3, <1>4, <2>1, <2>3, <2>4, Zenon
<1> QED
    BY <1>5, <1>6, <1>7, <1>8, <1>9, <1>10, Zenon DEF WorkerStep

\* A row in SENDING loses its worker only in a step in which that very worker
\* fails or dies.
THEOREM SendingHasOwner == Spec => SendingIsOwned
<1>1. ASSUME IInv, [Next]_vars, NEW n \in Notifications, Orphaned(n)', ~Orphaned(n)
      PROVE  OrphanedByFailure(n)
    <2>1. status \in [Notifications -> Status \cup {"ABSENT"}]
        BY <1>1, Zenon DEF IInv, TypeOK, RepoTypeOK
    <2>2. ASSUME UNCHANGED <<pc, job>>, status'[n] = "SENDING" => status[n] = "SENDING"
          PROVE  FALSE
        BY <1>1, <2>2, Zenon DEF Orphaned, Claims, Workers
    <2>3. CASE ServiceNext /\ UNCHANGED <<workerVars, sendHistory, schedVars, retryVars>>
        <3>1. status'[n] = "SENDING" => status[n] = "SENDING"
            BY <1>1, <2>1, <2>3, ServiceStatus, Zenon
        <3> QED
            BY <2>2, <2>3, <3>1, Zenon DEF workerVars
    <2>4. CASE WorkerNext
        BY <1>1, <2>4, WorkerOrphans, Zenon DEF WorkerNext
    <2>5. CASE SchedulerStep \/ RetryStep \/ TimePasses \/ UNCHANGED vars
        <3>1. /\ UNCHANGED <<pc, job>>
              /\ \/ UNCHANGED status
                 \/ status' = [status EXCEPT ![schedCurrent] = IF @ = "ACCEPTED" THEN "QUEUED" ELSE @]
            BY <2>5, ZenonT(30) DEF SchedulerStep, SchedulerScan, SchedulerPublish, SchedulerMark,
                MarkQueuedIfAccepted, RetryStep, RetryScan, RetryPublish, RetryClear,
                ClearNextRetryAt, TimePasses, ScheduleFallsDue, RetryFallsDue, repoVars,
                workerVars, vars
        <3>2. status'[n] = "SENDING" => status[n] = "SENDING"
            BY <2>1, <3>1, Zenon
        <3> QED
            BY <2>2, <3>1, <3>2
    <2>6. CASE Crash
        <3>1. faults' = faults + 1 /\ UNCHANGED status /\ \A v \in Workers : pc'[v] = "idle"
            BY <2>6, Zenon DEF Crash, Fault, WorkerCrash, repoVars
        <3>2. PICK w \in Workers : Claims(w, n)
            BY <1>1, <3>1, Zenon DEF Orphaned, Workers
        <3> QED
            BY <3>1, <3>2, Zenon DEF OrphanedByFailure, Claims, Claiming
    <2> QED
        BY <1>1, <2>3, <2>4, <2>5, <2>6, Zenon DEF Next
<1>2. ASSUME IInv, [Next]_vars
      PROVE  [\A n \in Notifications : Orphaned(n)' /\ ~Orphaned(n) =>
                /\ faults' = faults + 1
                /\ \E w \in Workers :
                    job[w] = n /\ pc[w] # pc'[w] /\ pc'[w] \in {"nack", "idle"}]_vars
    BY <1>1, <1>2, Zenon DEF OrphanedByFailure
<1> QED
    BY <1>2, Invariance, InitInv, NextInv, PTL DEF Spec, SendingIsOwned

\* Without a failure no notification is left behind before the provider was
\* called for it once, whatever the order in which Create, the scheduler, the
\* workers and a cancel reach its row.
THEOREM NothingIsLostEarly == Spec => []NothingLostBeforeFirstSend
<1>1. ASSUME IInv, HandInv, CancelHolds PROVE NothingLostBeforeFirstSend
    <2> SUFFICES ASSUME NEW n \in Notifications, Stranded(n), ~(faults > 0), ~(sends[n] > 0),
                        ~(cancelAcked[n] /\ Overwritten(n))
                 PROVE  FALSE
        BY DEF NothingLostBeforeFirstSend
    <2>6. ~cancelAcked[n]
        BY <1>1, Zenon DEF CancelHolds, Stranded, Settled
    <2>1. faults = 0 /\ sends[n] = 0
        BY <1>1, FaultsAreNatural DEF IInv, TypeOK, WorkerTypeOK
    <2>2. Kept(n) /\ Untried(n)
        BY <1>1, <2>1, <2>6, Zenon DEF HandInv, Untried
    <2>3. status[n] \in {"ACCEPTED", "QUEUED", "SENDING"} /\ ~InHand(n)
        BY <1>1, Zenon DEF Stranded, IInv, TypeOK, RepoTypeOK, Status, Settled
    <2>4. ~Message(n)
        BY <2>3, Zenon DEF InHand, Message
    <2>5. \A w \in Workers : ~Claims(w, n)
        BY <2>3, Zenon DEF InHand, Claims, Claiming
    <2> QED
        BY <2>2, <2>3, <2>4, <2>5, Zenon DEF Kept, InHand
<1> QED
    BY <1>1, HandInvariant, CancellationHolds, PTL

===============================================================================
