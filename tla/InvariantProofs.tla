---------------------------- MODULE InvariantProofs ---------------------------
(***************************************************************************)
(* The inductive invariant of Dispatch, for every number of notifications, *)
(* workers, channels, keys and failures: the statements of the repository  *)
(* and the broker preserve the types of their variables, and every action  *)
(* preserves the invariant.                                                *)
(***************************************************************************)
EXTENDS Dispatch, TLAPS

-------------------------------------------------------------------------------
(* The statements of the repository preserve the types of the columns.     *)

\* A call that leaves the table alone.
LEMMA RepoUnchanged ==
    ASSUME RepoTypeOK, UNCHANGED repoVars
    PROVE  RepoTypeOK'
BY DEF RepoTypeOK, repoVars, Channel

\* GormNotificationRepo.Create with a positive max_retries.
LEMMA CreateType ==
    ASSUME RepoTypeOK, NEW n \in Notifications, NEW c \in Channel,
           NEW k \in Keys \cup {NoKey}, NEW sched \in Instant, NEW r \in Nat \ {0},
           Create(n, c, k, sched, r)
    PROVE  RepoTypeOK'
BY DEF RepoTypeOK, Create, Channel, Status

\* GormNotificationRepo.UpdateStatus of a row that exists.
LEMMA UpdateStatusType ==
    ASSUME RepoTypeOK, NEW n \in Notifications, NEW s \in Status,
           status[n] # "ABSENT", UpdateStatus(n, s)
    PROVE  RepoTypeOK'
BY DEF RepoTypeOK, UpdateStatus, Channel, Status

\* GormNotificationRepo.UpdateStatusWithRetry of a row that exists.
LEMMA UpdateStatusWithRetryType ==
    ASSUME RepoTypeOK, NEW n \in Notifications, NEW s \in Status,
           status[n] # "ABSENT", UpdateStatusWithRetry(n, s)
    PROVE  RepoTypeOK'
<1>1. /\ status' \in [Notifications -> Status \cup {"ABSENT"}]
      /\ nextRetryAt' \in [Notifications -> Instant]
    BY DEF RepoTypeOK, UpdateStatusWithRetry, Instant
<1>2. attemptCount' \in [Notifications -> Nat]
    BY DEF RepoTypeOK, UpdateStatusWithRetry
<1>3. \A m \in Notifications : status'[m] # "ABSENT" => maxRetries'[m] > 0
    BY DEF RepoTypeOK, UpdateStatusWithRetry
<1> QED
    BY <1>1, <1>2, <1>3 DEF RepoTypeOK, UpdateStatusWithRetry, Channel

\* The three conditional updates: MarkQueuedIfAccepted, Cancel and
\* LockForSending.
LEMMA ConditionalUpdateType ==
    ASSUME RepoTypeOK, NEW n \in Notifications,
           MarkQueuedIfAccepted(n) \/ Cancel(n) \/ LockForSending(n)
    PROVE  RepoTypeOK'
BY Zenon DEF RepoTypeOK, MarkQueuedIfAccepted, Cancel, LockForSending, Claimable, Channel, Status

\* The updates of the other columns, and the insert of an attempt.
LEMMA ColumnUpdateType ==
    ASSUME RepoTypeOK, NEW n \in Notifications,
           \/ ClearNextRetryAt(n) \/ SetProviderMessageID(n)
           \/ ScheduleFallsDue(n) \/ RetryFallsDue(n)
    PROVE  RepoTypeOK'
BY Zenon DEF RepoTypeOK, ClearNextRetryAt, SetProviderMessageID, ScheduleFallsDue,
       RetryFallsDue, Channel, Instant

\* A row of notification_attempts is appended.
LEMMA CreateAttemptType ==
    ASSUME RepoTypeOK, NEW n \in Notifications, NEW a \in Attempt, CreateAttempt(n, a)
    PROVE  RepoTypeOK'
BY DEF RepoTypeOK, CreateAttempt, Channel, Attempt

-------------------------------------------------------------------------------
(* Type correctness: one lemma per component.                              *)

\* Requeueing keeps the counters of ready messages natural numbers.
LEMMA RequeueType ==
    ASSUME BrokerTypeOK
    PROVE  /\ \A w \in Workers : Requeue(w) => BrokerTypeOK'
           /\ RequeueAll => BrokerTypeOK'
<1>1. ASSUME NEW w \in Workers, Requeue(w) PROVE BrokerTypeOK'
    BY <1>1 DEF BrokerTypeOK, Requeue, Workers
<1>2. ASSUME RequeueAll PROVE BrokerTypeOK'
    BY <1>2, BrokerAssumption DEF BrokerTypeOK, RequeueAll, Workers
<1> QED
    BY <1>1, <1>2

\* The budget of failures is never overdrawn.
LEMMA FaultType ==
    ASSUME faults \in 0..MaxFaults,
           \/ \E applied, replied \in BOOLEAN : Outcome(applied, replied)
           \/ Fault
           \/ UNCHANGED faults
    PROVE  faults' \in 0..MaxFaults
BY MaxFaultsAssumption DEF Outcome, Fault

\* RabbitMQPublisher.Publish.
LEMMA PublishType ==
    ASSUME BrokerTypeOK, faults \in 0..MaxFaults, NEW n \in Notifications,
           NEW enqueued \in BOOLEAN, NEW ok \in BOOLEAN, Publish(n, enqueued, ok)
    PROVE  BrokerTypeOK' /\ faults' \in 0..MaxFaults
<1>1. faults' \in 0..MaxFaults
    BY FaultType DEF Publish
<1> QED
    BY <1>1 DEF BrokerTypeOK, Publish, Workers

\* What leaves every variable of a component alone leaves its type alone.
LEMMA ComponentsUnchanged ==
    ASSUME TypeOK
    PROVE  /\ UNCHANGED brokerVars => BrokerTypeOK'
           /\ UNCHANGED serviceVars => ServiceTypeOK'
           /\ UNCHANGED <<workerVars, sendHistory>> => WorkerTypeOK'
           /\ UNCHANGED schedVars => SchedulerTypeOK'
           /\ UNCHANGED retryVars => RetryTypeOK'
BY Zenon DEF TypeOK, BrokerTypeOK, brokerVars, ServiceTypeOK, serviceVars,
       WorkerTypeOK, workerVars, sendHistory, SchedulerTypeOK, schedVars,
       RetryTypeOK, retryVars, Workers

-------------------------------------------------------------------------------

\* The request inserts the row, and the row exists whenever Create may still
\* write it or has written it.
RowExists ==
    \A n \in Notifications :
        /\ creator[n] = "idle" => status[n] = "ABSENT"
        /\ creator[n] \in Creating \cup {"wrote", "overwrote"} => status[n] # "ABSENT"

\* The inductive invariant.  A worker's blind UpdateStatus is harmless only
\* because ExclusiveSend says which status it overwrites.
IInv == TypeOK /\ RowExists /\ ExclusiveSend

\* Create's last update is harmless, or is marked as an overwrite.
LEMMA MarkCases ==
    ASSUME TypeOK, NEW n \in Notifications, NEW applied \in BOOLEAN, NEW replied \in BOOLEAN,
           CreateMark(n, applied, replied)
    PROVE  /\ creator[n] \in {"published", "pubfailed"}
           /\ MarkedStatus(n) \in {"QUEUED", "FAILED"}
           /\ \/ UNCHANGED repoVars /\ creator' = [creator EXCEPT ![n] = "returned"]
              \/ /\ creator' = [creator EXCEPT ![n] = "overwrote"]
                 /\ status' = [status EXCEPT ![n] = MarkedStatus(n)]
                 /\ status[n] # "ACCEPTED"
              \/ /\ creator' = [creator EXCEPT ![n] = "wrote"]
                 /\ status' = [status EXCEPT ![n] = MarkedStatus(n)]
                 /\ status[n] \in {"ACCEPTED", MarkedStatus(n)}
<1>1. MarkedStatus(n) \in {"QUEUED", "FAILED"}
    BY Zenon DEF MarkedStatus
<1> QED
    BY <1>1, ZenonT(30) DEF CreateMark, Overwrites, UpdateStatus

\* A step of another process disturbs no worker when it changes no status
\* SENDING and ends with Create's overwrite if it writes a status blindly.
LEMMA ExclusiveFrame ==
    ASSUME ExclusiveSend, UNCHANGED <<pc, job>>,
           \A n \in Notifications : ~Overwritten(n)' =>
               /\ ~Overwritten(n)
               /\ status'[n] = status[n] \/ status[n] # "SENDING"
    PROVE  ExclusiveSend'
BY DEF ExclusiveSend, Overwritten, Claims, Workers

\* A step that neither adds nor removes rows and no Create call makes.
LEMMA RowExistsFrame ==
    ASSUME RowExists, UNCHANGED creator,
           \A n \in Notifications : status'[n] = "ABSENT" <=> status[n] = "ABSENT"
    PROVE  RowExists'
BY DEF RowExists

-------------------------------------------------------------------------------
(* Every action preserves the inductive invariant.                         *)

\* NotificationService: Create and Cancel.
LEMMA ServicePreserves ==
    ASSUME IInv, ServiceNext, UNCHANGED <<workerVars, sendHistory, schedVars, retryVars>>
    PROVE  IInv'
<1> USE DEF IInv, TypeOK
<1>1. PICK n \in Notifications :
        \/ \E applied, replied \in BOOLEAN : CreateInsert(n, applied, replied)
        \/ CreateDuplicate(n)
        \/ CreateStep(n)
        \/ \E applied, replied \in BOOLEAN : CancelNotification(n, applied, replied)
    BY DEF ServiceNext
<1>2. WorkerTypeOK' /\ SchedulerTypeOK' /\ RetryTypeOK'
    BY ComponentsUnchanged
<1>3. ASSUME NEW applied \in BOOLEAN, NEW replied \in BOOLEAN,
             CreateInsert(n, applied, replied)
      PROVE  IInv'
    <2>1. RepoTypeOK'
        <3>1. CASE ~applied
            BY <1>3, <3>1, RepoUnchanged DEF CreateInsert
        <3>2. CASE applied
            <4>1. PICK c \in Channel, k \in Keys \cup {NoKey},
                       sched \in RequestedSchedules, r \in RequestedRetries :
                    Create(n, c, k, sched, EffectiveRetries(r))
                BY <1>3, <3>2 DEF CreateInsert
            <4>2. EffectiveRetries(r) \in Nat \ {0} /\ sched \in Instant
                BY ServiceAssumption DEF EffectiveRetries
            <4> QED
                BY <4>1, <4>2, CreateType
        <3> QED
            BY <3>1, <3>2
    <2>2. BrokerTypeOK' /\ faults' \in 0..MaxFaults
        BY <1>3, ComponentsUnchanged, FaultType DEF CreateInsert
    <2>3. ServiceTypeOK'
        BY <1>3 DEF CreateInsert, ServiceTypeOK, Creating
    <2>4. /\ creator[n] = "idle"
          /\ creator' = [creator EXCEPT ![n] = IF replied THEN "inserted" ELSE "returned"]
          /\ replied => applied
          /\ status' = IF applied THEN [status EXCEPT ![n] = "ACCEPTED"] ELSE status
        BY <1>3 DEF CreateInsert, Create, Outcome, repoVars
    <2>5. RowExists'
        BY <2>4 DEF RowExists, RepoTypeOK, ServiceTypeOK, Creating
    <2>6. ExclusiveSend'
        BY <2>4, ExclusiveFrame
        DEF RowExists, RepoTypeOK, ServiceTypeOK, Overwritten, workerVars
    <2> QED
        BY <1>2, <2>1, <2>2, <2>3, <2>5, <2>6
<1>4. CASE CreateDuplicate(n) \/ CreateDefer(n)
    <2>1. /\ UNCHANGED <<repoVars, brokerVars, cancelAcked, faults>>
          /\ creator[n] \in {"idle", "inserted"}
          /\ creator' = [creator EXCEPT ![n] = "returned"]
        BY <1>4 DEF CreateDuplicate, CreateDefer
    <2>2. RepoTypeOK' /\ BrokerTypeOK' /\ faults' \in 0..MaxFaults
        BY <2>1, RepoUnchanged, ComponentsUnchanged
    <2>3. ServiceTypeOK' /\ RowExists'
        BY <2>1 DEF ServiceTypeOK, RowExists, Creating, repoVars
    <2>4. ExclusiveSend'
        BY <2>1, ExclusiveFrame DEF ServiceTypeOK, Overwritten, workerVars, repoVars
    <2> QED
        BY <1>2, <2>2, <2>3, <2>4
<1>5. ASSUME NEW enqueued \in BOOLEAN, NEW ok \in BOOLEAN, CreatePublish(n, enqueued, ok)
      PROVE  IInv'
    <2>1. RepoTypeOK' /\ BrokerTypeOK' /\ faults' \in 0..MaxFaults
        BY <1>5, RepoUnchanged, PublishType DEF CreatePublish
    <2>2. ServiceTypeOK' /\ RowExists'
        BY <1>5 DEF CreatePublish, ServiceTypeOK, RowExists, Creating, repoVars
    <2>3. ExclusiveSend'
        BY <1>5, ExclusiveFrame DEF CreatePublish, ServiceTypeOK, Overwritten, workerVars, repoVars
    <2> QED
        BY <1>2, <2>1, <2>2, <2>3
<1>6. ASSUME NEW applied \in BOOLEAN, NEW replied \in BOOLEAN, CreateMark(n, applied, replied)
      PROVE  IInv'
    <2> DEFINE s == MarkedStatus(n)
    <2>1. /\ creator[n] \in {"published", "pubfailed"}
          /\ IF applied THEN UpdateStatus(n, s) ELSE UNCHANGED repoVars
          /\ \E x \in {"wrote", "overwrote", "returned"} : creator' = [creator EXCEPT ![n] = x]
          /\ UNCHANGED cancelAcked
        BY <1>6, Zenon DEF CreateMark
    <2>2. s \in Status /\ s \notin {"ABSENT", "SENDING"} /\ status[n] # "ABSENT"
        BY <2>1 DEF MarkedStatus, Status, RowExists, Creating
    <2>8. applied => creator'[n] = "overwrote" \/ status[n] \in {"ACCEPTED", s}
        BY <1>6 DEF CreateMark, Overwrites, ServiceTypeOK
    <2> HIDE DEF s
    <2>3. RepoTypeOK'
        BY <2>1, <2>2, UpdateStatusType, RepoUnchanged
    <2>4. BrokerTypeOK' /\ faults' \in 0..MaxFaults
        BY <1>6, ComponentsUnchanged, FaultType DEF CreateMark
    <2>5. status' = IF applied THEN [status EXCEPT ![n] = s] ELSE status
        BY <2>1 DEF UpdateStatus, repoVars
    <2>6. ServiceTypeOK' /\ RowExists'
        BY <2>1, <2>2, <2>5, Zenon DEF ServiceTypeOK, RepoTypeOK, RowExists, Creating
    <2>7. ExclusiveSend'
        BY <2>1, <2>2, <2>5, <2>8, ExclusiveFrame
        DEF ServiceTypeOK, RepoTypeOK, Overwritten, workerVars
    <2> QED
        BY <1>2, <2>3, <2>4, <2>6, <2>7
<1>7. ASSUME NEW applied \in BOOLEAN, NEW replied \in BOOLEAN,
             CancelNotification(n, applied, replied)
      PROVE  IInv'
    <2>1. RepoTypeOK'
        BY <1>7, ConditionalUpdateType, RepoUnchanged DEF CancelNotification
    <2>2. BrokerTypeOK' /\ faults' \in 0..MaxFaults
        BY <1>7, ComponentsUnchanged, FaultType DEF CancelNotification
    <2>3. ServiceTypeOK'
        BY <1>7, Zenon DEF CancelNotification, ServiceTypeOK
    <2>4. /\ UNCHANGED creator
          /\ status' = [status EXCEPT ![n] = IF applied /\ Claimable(n) THEN "CANCELED" ELSE @]
        BY <1>7, Zenon DEF CancelNotification, Cancel, repoVars, RepoTypeOK
    <2>5. RowExists' /\ ExclusiveSend'
        BY <2>4, ExclusiveFrame
        DEF RowExists, RepoTypeOK, Claimable, Overwritten, workerVars
    <2> QED
        BY <1>2, <2>1, <2>2, <2>3, <2>5
<1> QED
    BY <1>1, <1>3, <1>4, <1>5, <1>6, <1>7 DEF CreateStep

\* A worker only ever claims rows that exist.
LEMMA ClaimedRowExists ==
    ASSUME RowExists, ExclusiveSend, NEW w \in Workers, NEW n \in Notifications, Claims(w, n)
    PROVE  status[n] # "ABSENT"
BY Zenon DEF RowExists, ExclusiveSend, Overwritten

\* A step of worker w that keeps its claim, or gives it up and may write
\* the status of the row it had claimed.
LEMMA ClaimKeptOrEnded ==
    ASSUME ExclusiveSend, NEW w \in Workers, UNCHANGED creator,
           \A v \in Workers \ {w} : pc'[v] = pc[v] /\ job'[v] = job[v],
           \/ /\ UNCHANGED status
              /\ \A n \in Notifications : Claims(w, n)' => Claims(w, n)
           \/ /\ pc'[w] \notin Claiming
              /\ \E m \in Notifications :
                    /\ Claims(w, m)
                    /\ \A n \in Notifications \ {m} : status'[n] = status[n]
    PROVE  ExclusiveSend'
<1> USE DEF ExclusiveSend, Overwritten, Claims, Workers
<1>1. CASE UNCHANGED status /\ \A n \in Notifications : Claims(w, n)' => Claims(w, n)
    BY <1>1
<1>2. CASE /\ pc'[w] \notin Claiming
           /\ \E m \in Notifications :
                 /\ Claims(w, m)
                 /\ \A n \in Notifications \ {m} : status'[n] = status[n]
    BY <1>2
<1> QED
    BY <1>1, <1>2, ZenonT(30)

\* An attempt as RecordAttempt builds it.
LEMMA AttemptHasType ==
    ASSUME NEW k \in Nat, NEW r, NEW S
    PROVE  [number |-> k, ok |-> r \in S] \in Attempt
BY DEF Attempt

\* LockForSending and the branches after it.
LEMMA LockPreserves ==
    ASSUME IInv, NEW w \in Workers, NEW applied \in BOOLEAN, NEW replied \in BOOLEAN,
           Lock(w, applied, replied)
    PROVE  /\ RepoTypeOK' /\ BrokerTypeOK' /\ ServiceTypeOK' /\ WorkerTypeOK'
           /\ faults' \in 0..MaxFaults
           /\ RowExists'
           /\ ExclusiveSend'
<1> DEFINE n == job[w]
<1> USE DEF IInv, TypeOK
<1>1. n \in Notifications
    BY DEF Lock, WorkerTypeOK
<1>2. RepoTypeOK'
    BY <1>1, ConditionalUpdateType, RepoUnchanged, Zenon DEF Lock
<1>3. BrokerTypeOK' /\ ServiceTypeOK' /\ faults' \in 0..MaxFaults
    BY ComponentsUnchanged, FaultType, Zenon DEF Lock
<1>4. WorkerTypeOK'
    BY <1>1 DEF Lock, WorkerTypeOK, RepoTypeOK, GoTo, Claiming, sendHistory
<1>5. /\ status' = [status EXCEPT ![n] = IF applied /\ Claimable(n) THEN "SENDING" ELSE @]
      /\ replied => applied
      /\ pc[w] = "lock"
      /\ pc' = [pc EXCEPT ![w] = IF ~replied THEN "nack"
                                 ELSE IF Claimable(n) THEN "limit" ELSE "ack"]
      /\ UNCHANGED <<job, creator>>
    BY DEF Lock, LockForSending, Outcome, GoTo, repoVars, serviceVars, RepoTypeOK
<1>6. RowExists'
    BY <1>1, <1>5, RowExistsFrame, Zenon DEF RepoTypeOK, Claimable
<1>7. ASSUME NEW m \in Notifications, ~Overwritten(m)', NEW u \in Workers, NEW v \in Workers,
             Claims(u, m)'
      PROVE  status'[m] = "SENDING" /\ (Claims(v, m)' => u = v)
    <2>1. ~Overwritten(m)
        BY <1>5, <1>7, Zenon DEF Overwritten
    <2>2. CASE m = n /\ Claimable(n)
        <3>1. \A x \in Workers : ~Claims(x, m)
            BY <2>1, <2>2, Zenon DEF ExclusiveSend, Claimable
        <3> QED
            BY <1>1, <1>5, <1>7, <2>2, <3>1, Zenon DEF Claims, WorkerTypeOK, RepoTypeOK, Claiming
    <2>3. CASE ~(m = n /\ Claimable(n))
        <3>1. \A x \in Workers : Claims(x, m)' => Claims(x, m)
            BY <1>5, <2>3, Zenon DEF Claims, WorkerTypeOK, Claiming
        <3>2. status'[m] = status[m]
            BY <1>1, <1>5, <2>3, Zenon DEF RepoTypeOK
        <3> QED
            BY <1>7, <2>1, <3>1, <3>2, Zenon DEF ExclusiveSend
    <2> QED
        BY <2>2, <2>3
<1>8. ExclusiveSend'
    BY <1>7 DEF ExclusiveSend, Workers
<1> QED
    BY <1>2, <1>3, <1>4, <1>6, <1>8, Zenon

\* The status update that ends processMessage: SENT, QUEUED for a retry, or
\* FAILED, written to the row the worker has claimed.
LEMMA SettlePreserves ==
    ASSUME IInv, NEW w \in Workers, NEW applied \in BOOLEAN, NEW replied \in BOOLEAN,
           \/ MarkSent(w, applied, replied)
           \/ ScheduleRetry(w, applied, replied)
           \/ MarkFailed(w, applied, replied)
    PROVE  /\ RepoTypeOK' /\ BrokerTypeOK' /\ ServiceTypeOK' /\ WorkerTypeOK'
           /\ faults' \in 0..MaxFaults
           /\ RowExists'
           /\ ExclusiveSend'
<1> DEFINE n == job[w]
<1> USE DEF IInv, TypeOK
<1>1. Settle(w, applied, replied)
    BY DEF MarkSent, ScheduleRetry, MarkFailed
<1>2. n \in Notifications /\ Claims(w, n) /\ status[n] # "ABSENT"
    BY <1>1, ClaimedRowExists, Zenon DEF Settle, WorkerTypeOK, Claims, Claiming
<1>3. \/ UNCHANGED repoVars
      \/ \E s \in {"SENT", "FAILED"} : UpdateStatus(n, s)
      \/ UpdateStatusWithRetry(n, "QUEUED")
    BY Zenon DEF MarkSent, ScheduleRetry, MarkFailed
<1>4. RepoTypeOK'
    BY <1>2, <1>3, RepoUnchanged, UpdateStatusType, UpdateStatusWithRetryType, Zenon DEF Status
<1>5. BrokerTypeOK' /\ ServiceTypeOK' /\ faults' \in 0..MaxFaults
    BY <1>1, ComponentsUnchanged, FaultType DEF Settle
<1>6. WorkerTypeOK'
    BY <1>1, <1>2, Zenon DEF Settle, WorkerTypeOK, GoTo, Claiming, sendHistory
<1>7. /\ \A m \in Notifications \ {n} : status'[m] = status[m]
      /\ status'[n] # "ABSENT"
    BY <1>2, <1>3, Zenon DEF UpdateStatus, UpdateStatusWithRetry, repoVars, RepoTypeOK
<1>8. RowExists'
    BY <1>1, <1>2, <1>7, RowExistsFrame, ZenonT(30) DEF Settle, serviceVars
<1>9. ExclusiveSend'
    BY <1>1, <1>2, <1>7, ClaimKeptOrEnded, ZenonT(30)
    DEF Settle, GoTo, serviceVars, WorkerTypeOK, Claiming
<1> QED
    BY <1>4, <1>5, <1>6, <1>8, <1>9, Zenon

\* WorkerService and the consumer around it.
LEMMA WorkerPreserves ==
    ASSUME IInv, WorkerNext, UNCHANGED <<schedVars, retryVars>>
    PROVE  IInv'
<1> USE DEF IInv, TypeOK
<1>1. PICK w \in Workers : WorkerStep(w) \/ ChannelLost(w)
    BY DEF WorkerNext
<1>2. SchedulerTypeOK' /\ RetryTypeOK'
    BY ComponentsUnchanged
<1>3. CASE Receive(w)
    <2>1. RepoTypeOK' /\ ServiceTypeOK' /\ faults' \in 0..MaxFaults
        BY <1>3, RepoUnchanged, ComponentsUnchanged, FaultType, Zenon DEF Receive
    <2>2. BrokerTypeOK' /\ WorkerTypeOK'
        BY <1>3 DEF Receive, Deliver, GoTo, BrokerTypeOK, WorkerTypeOK, Claiming,
                    Workers, sendHistory
    <2>3. RowExists' /\ ExclusiveSend'
        BY <1>3, RowExistsFrame, ClaimKeptOrEnded
        DEF Receive, GoTo, repoVars, serviceVars, WorkerTypeOK, Claims, Claiming
    <2> QED
        BY <1>2, <2>1, <2>2, <2>3
<1>4. CASE Send(w) \/ WaitFails(w) \/ SendReturns(w)
    <2>1. RepoTypeOK' /\ BrokerTypeOK' /\ ServiceTypeOK' /\ faults' \in 0..MaxFaults
        BY <1>4, RepoUnchanged, ComponentsUnchanged, FaultType, ZenonT(30)
        DEF Send, WaitFails, SendReturns
    <2>2. WorkerTypeOK'
        BY <1>4 DEF Send, WaitFails, SendReturns, GoTo, WorkerTypeOK, Claiming,
                    Response, sendHistory
    <2>3. RowExists' /\ ExclusiveSend'
        BY <1>4, RowExistsFrame, ClaimKeptOrEnded
        DEF Send, WaitFails, SendReturns, GoTo, repoVars, serviceVars, WorkerTypeOK,
            Claims, Claiming
    <2> QED
        BY <1>2, <2>1, <2>2, <2>3
<1>5. ASSUME NEW applied \in BOOLEAN, NEW replied \in BOOLEAN,
             RecordAttempt(w, applied, replied) \/ SetID(w, applied, replied)
      PROVE  IInv'
    <2> DEFINE a == [number |-> attemptNumber[w], ok |-> response[w] \in Accepted]
    <2>1. job[w] \in Notifications /\ a \in Attempt
        <3>1. job[w] \in Notifications /\ attemptNumber[w] \in Nat
            BY <1>5 DEF RecordAttempt, SetID, WorkerTypeOK
        <3> QED
            BY <3>1, AttemptHasType, Zenon
    <2>2. \/ UNCHANGED repoVars
          \/ CreateAttempt(job[w], a)
          \/ SetProviderMessageID(job[w])
        BY <1>5, ZenonT(30) DEF RecordAttempt, SetID
    <2> HIDE DEF a
    <2>3. RepoTypeOK' /\ UNCHANGED status
        BY <2>1, <2>2, RepoUnchanged, CreateAttemptType, ColumnUpdateType, Zenon
        DEF CreateAttempt, SetProviderMessageID, repoVars
    <2>4. BrokerTypeOK' /\ ServiceTypeOK' /\ faults' \in 0..MaxFaults
        BY <1>5, ComponentsUnchanged, FaultType, Zenon DEF RecordAttempt, SetID
    <2>5. WorkerTypeOK'
        BY <1>5, ZenonT(30) DEF RecordAttempt, SetID, GoTo, WorkerTypeOK, Claiming, sendHistory
    <2>6. RowExists' /\ ExclusiveSend'
        BY <1>5, <2>3, RowExistsFrame, ClaimKeptOrEnded
        DEF RecordAttempt, SetID, GoTo, serviceVars, WorkerTypeOK, Claims, Claiming
    <2> QED
        BY <1>2, <2>3, <2>4, <2>5, <2>6, Zenon
<1>6. CASE Acknowledge(w) \/ Reject(w)
    <2>1. Done(w) /\ (Ack(w) \/ Requeue(w))
        BY <1>6 DEF Acknowledge, Reject
    <2>2. RepoTypeOK' /\ ServiceTypeOK' /\ faults' \in 0..MaxFaults
        BY <2>1, RepoUnchanged, ComponentsUnchanged, FaultType DEF Done
    <2>3. BrokerTypeOK'
        BY <2>1, RequeueType, Zenon DEF Ack, BrokerTypeOK, Workers
    <2>4. WorkerTypeOK'
        BY <2>1, ZenonT(30) DEF Done, GoTo, WorkerTypeOK, sendHistory
    <2>5. RowExists' /\ ExclusiveSend'
        BY <2>1, RowExistsFrame, ClaimKeptOrEnded
        DEF Done, GoTo, repoVars, serviceVars, WorkerTypeOK, Claims, Claiming
    <2> QED
        BY <1>2, <2>2, <2>3, <2>4, <2>5
<1>7. CASE ChannelLost(w)
    <2>1. /\ RepoTypeOK' /\ BrokerTypeOK' /\ ServiceTypeOK' /\ WorkerTypeOK'
          /\ faults' \in 0..MaxFaults
        BY <1>7, RepoUnchanged, RequeueType, ComponentsUnchanged, FaultType, Zenon DEF ChannelLost
    <2>2. RowExists' /\ ExclusiveSend'
        BY <1>7, RowExistsFrame, ExclusiveFrame
        DEF ChannelLost, repoVars, serviceVars, workerVars, Overwritten
    <2> QED
        BY <1>2, <2>1, <2>2
<1> QED
    BY <1>1, <1>2, <1>3, <1>4, <1>5, <1>6, <1>7, LockPreserves, SettlePreserves DEF WorkerStep

\* Scheduler and RetryScanner: none of their statements touches SENDING.
LEMMA ScansPreserve ==
    ASSUME IInv, (SchedulerStep /\ UNCHANGED retryVars) \/ RetryStep
    PROVE  IInv'
<1> USE DEF IInv, TypeOK
<1>1. /\ UNCHANGED <<serviceVars, workerVars, sendHistory>>
      /\ ServiceTypeOK' /\ WorkerTypeOK'
    BY ComponentsUnchanged
    DEF SchedulerStep, SchedulerScan, SchedulerPublish, SchedulerMark,
        RetryStep, RetryScan, RetryPublish, RetryClear
<1>2. SchedulerTypeOK' /\ RetryTypeOK'
    BY ZenonT(30) DEF SchedulerStep, SchedulerScan, SchedulerPublish, SchedulerMark, FirstRows,
           RetryStep, RetryScan, RetryPublish, RetryClear, DueForSchedule, DueForRetry,
           SchedulerTypeOK, RetryTypeOK, schedVars, retryVars
<1>3. BrokerTypeOK' /\ faults' \in 0..MaxFaults
    BY PublishType, ComponentsUnchanged, FaultType, Zenon
    DEF SchedulerStep, SchedulerScan, SchedulerPublish, SchedulerMark,
        RetryStep, RetryScan, RetryPublish, RetryClear
<1>4. \/ UNCHANGED repoVars
      \/ \E n \in Notifications : MarkQueuedIfAccepted(n) \/ ClearNextRetryAt(n)
    BY DEF SchedulerStep, SchedulerScan, SchedulerPublish, SchedulerMark,
           RetryStep, RetryScan, RetryPublish, RetryClear, SchedulerTypeOK, RetryTypeOK
<1>5. RepoTypeOK'
    BY <1>4, RepoUnchanged, ConditionalUpdateType, ColumnUpdateType, Zenon
<1>6. \A n \in Notifications :
        status'[n] = status[n] \/ (status[n] = "ACCEPTED" /\ status'[n] = "QUEUED")
    BY <1>4 DEF MarkQueuedIfAccepted, ClearNextRetryAt, repoVars, RepoTypeOK
<1>7. RowExists' /\ ExclusiveSend'
    BY <1>1, <1>6, RowExistsFrame, ExclusiveFrame, Zenon DEF serviceVars, workerVars, Overwritten
<1> QED
    BY <1>1, <1>2, <1>3, <1>5, <1>7, ZenonT(30)

\* Time passes, or the process dies and comes back.
LEMMA EnvironmentPreserves ==
    ASSUME IInv, TimePasses \/ Crash
    PROVE  IInv'
<1> USE DEF IInv, TypeOK
<1>1. CASE TimePasses
    <2>1. RepoTypeOK' /\ UNCHANGED status
        BY <1>1, ColumnUpdateType, Zenon DEF TimePasses, ScheduleFallsDue, RetryFallsDue
    <2>2. /\ BrokerTypeOK' /\ ServiceTypeOK' /\ WorkerTypeOK'
          /\ SchedulerTypeOK' /\ RetryTypeOK' /\ faults' \in 0..MaxFaults
        BY <1>1, ComponentsUnchanged, FaultType, Zenon DEF TimePasses
    <2>3. RowExists' /\ ExclusiveSend'
        BY <1>1, <2>1, RowExistsFrame, ExclusiveFrame, Zenon
        DEF TimePasses, serviceVars, workerVars, Overwritten
    <2> QED
        BY <2>1, <2>2, <2>3, Zenon
<1>2. CASE Crash
    <2>1. RepoTypeOK' /\ BrokerTypeOK' /\ faults' \in 0..MaxFaults
        BY <1>2, RepoUnchanged, RequeueType, FaultType, Zenon DEF Crash
    <2>2. ServiceTypeOK' /\ WorkerTypeOK' /\ SchedulerTypeOK' /\ RetryTypeOK'
        BY <1>2, Zenon DEF Crash, ServiceCrash, WorkerCrash, ServiceTypeOK, WorkerTypeOK,
                    SchedulerTypeOK, RetryTypeOK, sendHistory, Creating
    <2>3. /\ UNCHANGED status /\ pc' = [w \in Workers |-> "idle"]
          /\ creator' = [n \in Notifications |->
                            IF creator[n] \in Creating THEN "returned" ELSE creator[n]]
        BY <1>2, Zenon DEF Crash, ServiceCrash, WorkerCrash, repoVars
    <2> HIDE DEF IInv, TypeOK
    <2>4. RowExists'
        <3>1. RowExists
            BY Zenon DEF IInv
        <3> QED
            BY <2>3, <3>1 DEF RowExists, Creating
    <2>5. ExclusiveSend'
        BY <2>3 DEF ExclusiveSend, Claims, Claiming
    <2> QED
        BY <2>1, <2>2, <2>4, <2>5 DEF IInv, TypeOK
<1> QED
    BY <1>1, <1>2

\* Init => IInv.
LEMMA InitInv ==
    ASSUME Init
    PROVE  IInv
<1>1. RepoTypeOK
    <2>1. /\ status \in [Notifications -> Status \cup {"ABSENT"}]
          /\ \A n \in Notifications : status[n] = "ABSENT"
          /\ scheduledAt \in [Notifications -> Instant]
          /\ nextRetryAt \in [Notifications -> Instant]
        BY DEF Init, RepoInit, Instant
    <2>2. /\ attemptCount \in [Notifications -> Nat]
          /\ maxRetries \in [Notifications -> Nat]
          /\ attempts \in [Notifications -> Seq(Attempt)]
        BY DEF Init, RepoInit
    <2>3. /\ channel \in [Notifications -> Channel]
          /\ idempotencyKey \in [Notifications -> Keys \cup {NoKey}]
          /\ providerMessageID \in [Notifications -> BOOLEAN]
        BY RepoAssumption DEF Init, RepoInit, Channel
    <2> QED
        BY <2>1, <2>2, <2>3, Zenon DEF RepoTypeOK
<1>2. BrokerTypeOK /\ ServiceTypeOK /\ WorkerTypeOK /\ SchedulerTypeOK /\ RetryTypeOK
    BY DEF Init, BrokerInit, BrokerTypeOK, ServiceInit, ServiceTypeOK, WorkerInit,
           WorkerTypeOK, SchedulerInit, SchedulerTypeOK, RetryInit, RetryTypeOK
<1>3. faults \in 0..MaxFaults
    BY MaxFaultsAssumption DEF Init
<1>4. RowExists
    BY DEF Init, RepoInit, ServiceInit, RowExists, Creating
<1>5. ExclusiveSend
    BY DEF Init, WorkerInit, ExclusiveSend, Claims, Claiming
<1> QED
    BY <1>1, <1>2, <1>3, <1>4, <1>5, Zenon DEF IInv, TypeOK

\* IInv /\ [Next]_vars => IInv'.
LEMMA NextInv ==
    ASSUME IInv, [Next]_vars
    PROVE  IInv'
<1>1. CASE Next
    BY <1>1, ServicePreserves, WorkerPreserves, ScansPreserve, EnvironmentPreserves DEF Next
<1>2. CASE UNCHANGED vars
    <2>1. RepoTypeOK'
        BY <1>2, RepoUnchanged, Zenon DEF IInv, TypeOK, vars
    <2>2. TypeOK'
        BY <1>2, <2>1, ComponentsUnchanged, ZenonT(30) DEF IInv, TypeOK, vars
    <2>3. RowExists' /\ ExclusiveSend'
        BY <1>2, RowExistsFrame, ExclusiveFrame
        DEF IInv, vars, repoVars, serviceVars, workerVars, Overwritten
    <2> QED
        BY <2>2, <2>3 DEF IInv
<1> QED
    BY <1>1, <1>2

\* The inductive invariant holds in every reachable state.
THEOREM Invariance == Spec => []IInv
BY InitInv, NextInv, PTL DEF Spec

\* Type correctness of the whole system.
THEOREM TypeCorrect == Spec => []TypeOK
<1>1. IInv => TypeOK
    BY DEF IInv
<1> QED
    BY <1>1, Invariance, PTL

\* LockForSending is a lock: until Create overwrites a row, at most one
\* worker has it and nothing else changes its status meanwhile.
THEOREM SendIsExclusive == Spec => []ExclusiveSend
<1>1. IInv => ExclusiveSend
    BY DEF IInv
<1> QED
    BY <1>1, Invariance, PTL

===============================================================================
