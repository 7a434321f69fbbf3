---------------------------- MODULE LifecycleProofs ---------------------------
(***************************************************************************)
(* The attempt number a worker works with is current, Dispatch implements  *)
(* Lifecycle (every step is a step of Lifecycle, or changes nothing        *)
(* there), and the attempt log is in order.                                *)
(***************************************************************************)
EXTENDS InvariantProofs

\* AttemptCount was read by LockForSending; while the worker has the row no
\* other process increments attempt_count.
AttemptNumberCurrent ==
    \A w \in Workers, n \in Notifications :
        Claims(w, n) /\ ~Overwritten(n) => attemptNumber[w] = attemptCount[n] + 1

\* A step that changes no attempt_count and no worker's locals or claims.
LEMMA AttemptNumberFrame ==
    ASSUME AttemptNumberCurrent, UNCHANGED <<attemptCount, attemptNumber>>,
           \A n \in Notifications :
               /\ ~Overwritten(n)' => ~Overwritten(n)
               /\ \A w \in Workers : Claims(w, n)' => Claims(w, n)
    PROVE  AttemptNumberCurrent'
BY DEF AttemptNumberCurrent, Workers

\* Steps of Create, Cancel, the scans, time and crashes.
LEMMA AttemptNumberOthers ==
    ASSUME IInv, AttemptNumberCurrent,
           \/ ServiceNext /\ UNCHANGED <<workerVars, sendHistory, schedVars, retryVars>>
           \/ SchedulerStep /\ UNCHANGED retryVars
           \/ RetryStep
           \/ TimePasses
           \/ Crash
           \/ UNCHANGED vars
    PROVE  AttemptNumberCurrent'
<1>1. CASE ServiceNext /\ UNCHANGED <<workerVars, sendHistory, schedVars, retryVars>>
    <2>1. /\ UNCHANGED attemptCount
          /\ \A n \in Notifications : ~Overwritten(n)' => ~Overwritten(n)
        <3>1. PICK n \in Notifications :
                \/ \E applied, replied \in BOOLEAN : CreateInsert(n, applied, replied)
                \/ CreateDuplicate(n)
                \/ CreateStep(n)
                \/ \E applied, replied \in BOOLEAN : CancelNotification(n, applied, replied)
            BY <1>1, Zenon DEF ServiceNext
        <3>2. UNCHANGED attemptCount
            BY <3>1 DEF CreateInsert, CreateDuplicate, CreateStep, CreateDefer, CreatePublish,
                CreateMark, CancelNotification, Create, UpdateStatus, Cancel, repoVars
        <3>3. \/ UNCHANGED creator
              \/ creator[n] # "overwrote" /\ \E x : creator' = [creator EXCEPT ![n] = x]
            BY <3>1 DEF CreateInsert, CreateDuplicate, CreateStep, CreateDefer, CreatePublish,
                CreateMark, CancelNotification
        <3>4. creator \in [Notifications -> {"idle", "wrote", "overwrote", "returned"} \cup Creating]
            BY DEF IInv, TypeOK, ServiceTypeOK
        <3> QED
            BY <3>2, <3>3, <3>4 DEF Overwritten
    <2> QED
        BY <1>1, <2>1, AttemptNumberFrame DEF workerVars, Claims
<1>2. CASE (SchedulerStep /\ UNCHANGED retryVars) \/ RetryStep \/ TimePasses \/ UNCHANGED vars
    <2>1. UNCHANGED <<attemptCount, serviceVars, workerVars>>
        BY <1>2, ZenonT(30) DEF SchedulerStep, SchedulerScan, SchedulerPublish, SchedulerMark,
            RetryStep, RetryScan, RetryPublish, RetryClear, MarkQueuedIfAccepted,
            ClearNextRetryAt, TimePasses, ScheduleFallsDue, RetryFallsDue, repoVars, vars
    <2> QED
        BY <2>1, AttemptNumberFrame DEF serviceVars, workerVars, Claims, Overwritten
<1>3. CASE Crash
    BY <1>3 DEF Crash, WorkerCrash, AttemptNumberCurrent, Claims, Claiming, Workers
<1> QED
    BY <1>1, <1>2, <1>3

\* Workers do not touch the requests in progress.
LEMMA WorkerLeavesService ==
    ASSUME NEW w \in Workers, WorkerStep(w) \/ ChannelLost(w)
    PROVE  UNCHANGED serviceVars
<1>1. ASSUME NEW applied \in BOOLEAN, NEW replied \in BOOLEAN,
             \/ Lock(w, applied, replied) \/ RecordAttempt(w, applied, replied)
             \/ SetID(w, applied, replied)
      PROVE  UNCHANGED serviceVars
    BY <1>1, Zenon DEF Lock, RecordAttempt, SetID
<1>2. ASSUME NEW applied \in BOOLEAN, NEW replied \in BOOLEAN,
             \/ MarkSent(w, applied, replied) \/ ScheduleRetry(w, applied, replied)
             \/ MarkFailed(w, applied, replied)
      PROVE  UNCHANGED serviceVars
    BY <1>2, Zenon DEF MarkSent, ScheduleRetry, MarkFailed, Settle
<1>3. ASSUME \/ Receive(w) \/ Send(w) \/ WaitFails(w) \/ SendReturns(w)
             \/ Acknowledge(w) \/ Reject(w) \/ ChannelLost(w)
      PROVE  UNCHANGED serviceVars
    BY <1>3 DEF Receive, Send, WaitFails, SendReturns, Acknowledge, Reject, Done, ChannelLost
<1> QED
    BY <1>1, <1>2, <1>3, Zenon DEF WorkerStep

\* Steps of the workers.
LEMMA AttemptNumberWorker ==
    ASSUME IInv, AttemptNumberCurrent, NEW w \in Workers, WorkerStep(w) \/ ChannelLost(w)
    PROVE  AttemptNumberCurrent'
<1> USE DEF IInv, TypeOK
<1>1. UNCHANGED creator
    BY WorkerLeavesService, Zenon DEF serviceVars
<1>2. CASE Receive(w) \/ Send(w) \/ WaitFails(w) \/ SendReturns(w) \/ ChannelLost(w)
    BY <1>1, <1>2, AttemptNumberFrame, ZenonT(30)
    DEF Receive, Send, WaitFails, SendReturns, ChannelLost, GoTo, repoVars, workerVars,
        Claims, Claiming, Overwritten, WorkerTypeOK
<1>3. ASSUME NEW applied \in BOOLEAN, NEW replied \in BOOLEAN, Lock(w, applied, replied)
      PROVE  AttemptNumberCurrent'
    <2>1. UNCHANGED <<attemptCount, job>>
        BY <1>3 DEF Lock, LockForSending, repoVars
    <2>2. \A v \in Workers \ {w} : pc'[v] = pc[v] /\ attemptNumber'[v] = attemptNumber[v]
        BY <1>3 DEF Lock, GoTo, WorkerTypeOK
    <2>3. pc'[w] \in Claiming => attemptNumber'[w] = attemptCount[job[w]] + 1
        BY <1>3 DEF Lock, GoTo, WorkerTypeOK, Claiming
    <2> QED
        BY <1>1, <2>1, <2>2, <2>3, Zenon DEF AttemptNumberCurrent, Claims, Overwritten, Workers
<1>4. ASSUME NEW applied \in BOOLEAN, NEW replied \in BOOLEAN,
             \/ RecordAttempt(w, applied, replied) \/ SetID(w, applied, replied)
             \/ MarkSent(w, applied, replied) \/ MarkFailed(w, applied, replied)
      PROVE  AttemptNumberCurrent'
    <2>1. UNCHANGED <<attemptCount, attemptNumber, job>>
        BY <1>4 DEF RecordAttempt, SetID, MarkSent, MarkFailed, Settle, CreateAttempt,
            SetProviderMessageID, UpdateStatus, repoVars
    <2>2. \A v \in Workers : pc'[v] \in Claiming => pc[v] \in Claiming
        BY <1>4 DEF RecordAttempt, SetID, MarkSent, MarkFailed, Settle, GoTo, WorkerTypeOK,
            Claiming
    <2> QED
        BY <1>1, <2>1, <2>2, AttemptNumberFrame, Zenon DEF Claims, Overwritten
<1>5. ASSUME NEW applied \in BOOLEAN, NEW replied \in BOOLEAN, ScheduleRetry(w, applied, replied)
      PROVE  AttemptNumberCurrent'
    <2>1. /\ Claims(w, job[w]) /\ job[w] \in Notifications
          /\ UNCHANGED <<attemptNumber, job>>
          /\ pc'[w] \notin Claiming
          /\ \A v \in Workers \ {w} : pc'[v] = pc[v]
        BY <1>5, Zenon DEF ScheduleRetry, Settle, GoTo, Claims, Claiming, WorkerTypeOK
    <2>2. \A n \in Notifications \ {job[w]} : attemptCount'[n] = attemptCount[n]
        BY <1>5, <2>1, Zenon DEF ScheduleRetry, UpdateStatusWithRetry, repoVars, RepoTypeOK
    <2>3. \A v \in Workers \ {w} : ~Overwritten(job[w]) => ~Claims(v, job[w])
        BY <2>1, Zenon DEF ExclusiveSend
    <2>4. ASSUME NEW v \in Workers, NEW m \in Notifications, Claims(v, m)', ~Overwritten(m)'
          PROVE  attemptNumber'[v] = attemptCount'[m] + 1
        <3>1. v # w /\ Claims(v, m) /\ ~Overwritten(m)
            BY <1>1, <2>1, <2>4 DEF Claims, Overwritten
        <3>2. m # job[w]
            BY <2>3, <3>1
        <3> QED
            BY <2>1, <2>2, <3>1, <3>2 DEF AttemptNumberCurrent
    <2> QED
        BY <2>4 DEF AttemptNumberCurrent, Workers
<1>6. CASE Acknowledge(w) \/ Reject(w)
    <2>1. Done(w)
        BY <1>6 DEF Acknowledge, Reject
    <2>2. \A v \in Workers : pc'[v] \in Claiming =>
            v # w /\ pc[v] = pc'[v] /\ job'[v] = job[v] /\ attemptNumber'[v] = attemptNumber[v]
        BY <2>1 DEF Done, GoTo, Claiming, WorkerTypeOK
    <2> QED
        BY <1>1, <2>1, <2>2 DEF Done, AttemptNumberCurrent, Claims, Overwritten, repoVars, Workers
<1> QED
    BY <1>2, <1>3, <1>4, <1>5, <1>6 DEF WorkerStep

\* The worker's attempt number is current in every reachable state.
LEMMA AttemptNumberInvariant == Spec => [](IInv /\ AttemptNumberCurrent)
<1>1. Init => AttemptNumberCurrent
    BY DEF Init, WorkerInit, AttemptNumberCurrent, Claims, Claiming
<1>2. IInv /\ AttemptNumberCurrent /\ [Next]_vars => AttemptNumberCurrent'
    BY AttemptNumberOthers, AttemptNumberWorker DEF Next, WorkerNext
<1> QED
    BY <1>1, <1>2, Invariance, InitInv, NextInv, PTL DEF Spec

-------------------------------------------------------------------------------

LifeStep == Life!LifeNext \/ UNCHANGED <<phase, retries, maxRetries>>

\* A step that changes no column the lifecycle looks at.
LEMMA LifeStutter ==
    ASSUME UNCHANGED <<status, attemptCount, maxRetries>>,
           \A n \in Notifications : Overwritten(n)' = Overwritten(n)
    PROVE  LifeStep
BY DEF LifeStep, phase, retries

\* A conditional or claimed change of one row's status.
LEMMA LifeMoves ==
    ASSUME IInv, NEW n \in Notifications, UNCHANGED <<attemptCount, maxRetries>>,
           \A m \in Notifications : Overwritten(m)' = Overwritten(m), NEW to, status' = [status EXCEPT ![n] = to],
           \/ Overwritten(n)
           \/ status[n] = "ACCEPTED" /\ to \in {"QUEUED", "FAILED"}
           \/ Claimable(n) /\ to \in {"SENDING", "CANCELED"}
           \/ status[n] = "SENDING" /\ to \in {"SENT", "FAILED"}
    PROVE  LifeStep
<1>1. status \in [Notifications -> Status \cup {"ABSENT"}]
    BY Zenon DEF IInv, TypeOK, RepoTypeOK
<1>2. UNCHANGED retries
    BY DEF retries, Overwritten
<1>3. CASE Overwritten(n)
    <2>1. UNCHANGED phase
        BY <1>1, <1>3 DEF phase, Overwritten
    <2> QED
        BY <1>2, <2>1 DEF LifeStep
<1>4. CASE ~Overwritten(n)
    <2>1. phase' = [phase EXCEPT ![n] = to] /\ phase[n] = status[n]
        BY <1>1, <1>4, Zenon DEF phase, Overwritten
    <2>2. Life!LifeNext
        BY <1>2, <1>4, <2>1, Zenon DEF Life!LifeNext, Life!Move, Claimable
    <2> QED
        BY <2>2 DEF LifeStep
<1> QED
    BY <1>3, <1>4

\* Create and Cancel.
LEMMA ServiceRefines ==
    ASSUME IInv, ServiceNext
    PROVE  LifeStep
<1> USE DEF IInv, TypeOK
<1>1. PICK n \in Notifications :
        \/ \E applied, replied \in BOOLEAN : CreateInsert(n, applied, replied)
        \/ CreateDuplicate(n)
        \/ CreateStep(n)
        \/ \E applied, replied \in BOOLEAN : CancelNotification(n, applied, replied)
    BY DEF ServiceNext
<1>2. ASSUME NEW applied \in BOOLEAN, NEW replied \in BOOLEAN,
             CreateInsert(n, applied, replied)
      PROVE  LifeStep
    <2>1. \A m \in Notifications : ~Overwritten(n)' /\ Overwritten(m)' = Overwritten(m)
        BY <1>2 DEF CreateInsert, Overwritten, ServiceTypeOK
    <2>2. CASE ~applied
        BY <1>2, <2>1, <2>2, LifeStutter DEF CreateInsert, repoVars
    <2>3. CASE applied
        <3>1. PICK r \in RequestedRetries :
                /\ status' = [status EXCEPT ![n] = "ACCEPTED"]
                /\ maxRetries' = [maxRetries EXCEPT ![n] = EffectiveRetries(r)]
                /\ UNCHANGED attemptCount
            BY <1>2, <2>3, Zenon DEF CreateInsert, Create
        <3>2. EffectiveRetries(r) \in Nat \ {0}
            BY ServiceAssumption DEF EffectiveRetries
        <3>3. /\ phase[n] = "ABSENT"
              /\ phase' = [phase EXCEPT ![n] = "ACCEPTED"]
              /\ UNCHANGED retries
            BY <1>2, <2>1, <3>1, Zenon
            DEF CreateInsert, phase, retries, Overwritten, RowExists, RepoTypeOK
        <3>4. Life!Accept(n)
            BY <3>1, <3>2, <3>3 DEF Life!Accept, RepoTypeOK
        <3> QED
            BY <3>4 DEF LifeStep, Life!LifeNext
    <2> QED
        BY <2>2, <2>3
<1>3. ASSUME \/ CreateDuplicate(n)
             \/ CreateDefer(n)
             \/ \E enqueued, ok \in BOOLEAN : CreatePublish(n, enqueued, ok)
      PROVE  LifeStep
    <2>1. /\ UNCHANGED repoVars
          /\ \A m \in Notifications : Overwritten(m)' = Overwritten(m)
        BY <1>3 DEF CreateDuplicate, CreateDefer, CreatePublish, Overwritten, ServiceTypeOK
    <2> QED
        BY <2>1, LifeStutter DEF repoVars
<1>4. ASSUME NEW applied \in BOOLEAN, NEW replied \in BOOLEAN, CreateMark(n, applied, replied)
      PROVE  LifeStep
    <2>1. CASE ~applied
        <3>1. \A m \in Notifications : Overwritten(m)' = Overwritten(m)
            BY <1>4, <2>1 DEF CreateMark, Overwritten, ServiceTypeOK
        <3> QED
            BY <1>4, <2>1, <3>1, LifeStutter DEF CreateMark, repoVars
    <2>2. CASE applied
        <3>1. /\ creator[n] \in {"published", "pubfailed"} /\ status[n] # "ABSENT"
              /\ status' = [status EXCEPT ![n] = MarkedStatus(n)]
              /\ UNCHANGED <<attemptCount, maxRetries>>
            BY <1>4, <2>2, Zenon DEF CreateMark, UpdateStatus, RowExists, Creating
        <3>2. CASE Overwrites(n)
            <4>1. status[n] # "ACCEPTED" /\ creator' = [creator EXCEPT ![n] = "overwrote"]
                BY <1>4, <2>2, <3>2, Zenon DEF CreateMark, Overwrites
            <4>2. /\ phase[n] \notin {"ABSENT", "ACCEPTED"}
                  /\ phase' = [phase EXCEPT ![n] = "FREE"]
                  /\ retries' = [retries EXCEPT ![n] = 0]
                BY <3>1, <4>1, Zenon DEF phase, retries, Overwritten, ServiceTypeOK, RepoTypeOK
            <4> QED
                BY <3>1, <4>2, Zenon DEF LifeStep, Life!LifeNext, Life!Release
        <3>3. CASE ~Overwrites(n)
            <4>1. \A m \in Notifications : Overwritten(m)' = Overwritten(m)
                BY <1>4, <2>2, <3>1, <3>3, Zenon DEF CreateMark, Overwritten, ServiceTypeOK
            <4>2. status[n] = "ACCEPTED" \/ UNCHANGED status
                BY <3>1, <3>3 DEF Overwrites, RepoTypeOK
            <4>3. MarkedStatus(n) \in {"QUEUED", "FAILED"}
                BY Zenon DEF MarkedStatus
            <4> QED
                BY <3>1, <4>1, <4>2, <4>3, LifeMoves, LifeStutter, Zenon
        <3> QED
            BY <3>2, <3>3
    <2> QED
        BY <2>1, <2>2
<1>5. ASSUME NEW applied \in BOOLEAN, NEW replied \in BOOLEAN,
             CancelNotification(n, applied, replied)
      PROVE  LifeStep
    <2>1. /\ UNCHANGED <<creator, attemptCount, maxRetries>>
          /\ \/ UNCHANGED status
             \/ Claimable(n) /\ status' = [status EXCEPT ![n] = "CANCELED"]
        BY <1>5 DEF CancelNotification, Cancel, repoVars, RepoTypeOK
    <2> QED
        BY <2>1, LifeMoves, LifeStutter, Zenon DEF Overwritten
<1> QED
    BY <1>1, <1>2, <1>3, <1>4, <1>5 DEF CreateStep

\* The workers.
LEMMA WorkerRefines ==
    ASSUME IInv, AttemptNumberCurrent, NEW w \in Workers, WorkerStep(w) \/ ChannelLost(w)
    PROVE  LifeStep
<1> USE DEF IInv, TypeOK
<1> DEFINE n == job[w]
<1>1. ASSUME NEW applied \in BOOLEAN, NEW replied \in BOOLEAN, Lock(w, applied, replied)
      PROVE  LifeStep
    <2>1. /\ n \in Notifications
          /\ UNCHANGED <<creator, attemptCount, maxRetries>>
          /\ \/ UNCHANGED status
             \/ Claimable(n) /\ status' = [status EXCEPT ![n] = "SENDING"]
        BY <1>1 DEF Lock, LockForSending, repoVars, serviceVars, RepoTypeOK, WorkerTypeOK
    <2> QED
        BY <2>1, LifeMoves, LifeStutter, Zenon DEF Overwritten
<1>2. ASSUME NEW applied \in BOOLEAN, NEW replied \in BOOLEAN,
             MarkSent(w, applied, replied) \/ MarkFailed(w, applied, replied)
      PROVE  LifeStep
    <2>1. n \in Notifications /\ Claims(w, n) /\ UNCHANGED creator
        BY <1>2 DEF MarkSent, MarkFailed, Settle, WorkerTypeOK, Claims, Claiming, serviceVars
    <2>2. Overwritten(n) \/ status[n] = "SENDING"
        BY <2>1, Zenon DEF ExclusiveSend
    <2>3. /\ UNCHANGED <<attemptCount, maxRetries>>
          /\ \/ UNCHANGED status
             \/ \E s \in {"SENT", "FAILED"} : status' = [status EXCEPT ![n] = s]
        BY <1>2 DEF MarkSent, MarkFailed, UpdateStatus, repoVars
    <2> QED
        BY <2>1, <2>2, <2>3, LifeMoves, LifeStutter, ZenonT(30) DEF Overwritten
<1>3. ASSUME NEW applied \in BOOLEAN, NEW replied \in BOOLEAN, ScheduleRetry(w, applied, replied)
      PROVE  LifeStep
    <2>1. n \in Notifications /\ Claims(w, n) /\ UNCHANGED creator
        BY <1>3 DEF ScheduleRetry, Settle, WorkerTypeOK, Claims, Claiming, serviceVars
    <2>2. CASE ~applied
        BY <1>3, <2>1, <2>2, LifeStutter, Zenon DEF ScheduleRetry, repoVars, Overwritten
    <2>3. CASE applied
        <3>1. /\ status' = [status EXCEPT ![n] = "QUEUED"]
              /\ attemptCount' = [attemptCount EXCEPT ![n] = @ + 1]
              /\ UNCHANGED maxRetries
            BY <1>3, <2>3 DEF ScheduleRetry, UpdateStatusWithRetry
        <3>2. CASE Overwritten(n)
            <4>1. UNCHANGED <<phase, retries>>
                BY <2>1, <3>1, <3>2, ZenonT(30) DEF phase, retries, Overwritten, RepoTypeOK
            <4> QED
                BY <3>1, <4>1 DEF LifeStep
        <3>3. CASE ~Overwritten(n)
            <4>1. status[n] = "SENDING" /\ attemptNumber[w] = attemptCount[n] + 1
                BY <2>1, <3>3, Zenon DEF ExclusiveSend, AttemptNumberCurrent
            <4>2. attemptCount[n] + 1 < maxRetries[n]
                <5>1. attemptNumber[w] < EffectiveRetries(maxRetries[n])
                    BY <1>3 DEF ScheduleRetry, CanRetry
                <5>2. maxRetries[n] \in Nat /\ maxRetries[n] > 0
                    BY <2>1, <4>1, ZenonT(30) DEF RepoTypeOK
                <5> QED
                    BY <4>1, <5>1, <5>2 DEF EffectiveRetries
            <4>3. /\ phase[n] = "SENDING"
                  /\ phase' = [phase EXCEPT ![n] = "QUEUED"]
                  /\ retries[n] = attemptCount[n]
                  /\ retries' = [retries EXCEPT ![n] = @ + 1]
                BY <2>1, <3>1, <3>3, <4>1, ZenonT(30) DEF phase, retries, Overwritten, RepoTypeOK
            <4>4. Life!Retry(n)
                BY <3>1, <4>2, <4>3, ZenonT(30) DEF Life!Retry
            <4> QED
                BY <2>1, <4>4 DEF LifeStep, Life!LifeNext
        <3> QED
            BY <3>2, <3>3, ZenonT(30)
    <2> QED
        BY <2>2, <2>3
<1>4. ASSUME \/ Receive(w) \/ Send(w) \/ WaitFails(w) \/ SendReturns(w)
             \/ Acknowledge(w) \/ Reject(w) \/ ChannelLost(w)
             \/ \E applied, replied \in BOOLEAN :
                   RecordAttempt(w, applied, replied) \/ SetID(w, applied, replied)
      PROVE  LifeStep
    <2>1. UNCHANGED <<status, attemptCount, maxRetries, creator>>
        BY <1>4, Zenon DEF Receive, Send, WaitFails, SendReturns, Acknowledge, Reject, Done,
            ChannelLost, RecordAttempt, SetID, CreateAttempt, SetProviderMessageID,
            repoVars, serviceVars
    <2> QED
        BY <2>1, LifeStutter DEF Overwritten
<1> QED
    BY <1>1, <1>2, <1>3, <1>4, Zenon DEF WorkerStep

\* Every step of the system.
LEMMA NextRefines ==
    ASSUME IInv, AttemptNumberCurrent, [Next]_vars
    PROVE  LifeStep
<1>1. CASE ServiceNext \/ WorkerNext
    BY <1>1, ServiceRefines, WorkerRefines, Zenon DEF WorkerNext
<1>2. CASE SchedulerStep
    <2>1. /\ UNCHANGED <<creator, attemptCount, maxRetries>>
          /\ \/ UNCHANGED status
             \/ \E n \in Notifications :
                   status[n] = "ACCEPTED" /\ status' = [status EXCEPT ![n] = "QUEUED"]
        BY <1>2 DEF SchedulerStep, SchedulerScan, SchedulerPublish, SchedulerMark,
            MarkQueuedIfAccepted, repoVars, serviceVars, IInv, TypeOK, RepoTypeOK,
            SchedulerTypeOK
    <2> QED
        BY <2>1, LifeMoves, LifeStutter, Zenon DEF Overwritten
<1>3. CASE RetryStep \/ TimePasses \/ UNCHANGED vars
    <2>1. UNCHANGED <<creator, status, attemptCount, maxRetries>>
        BY <1>3 DEF RetryStep, RetryScan, RetryPublish, RetryClear, ClearNextRetryAt,
            TimePasses, ScheduleFallsDue, RetryFallsDue, repoVars, serviceVars, vars
    <2> QED
        BY <2>1, LifeStutter, Zenon DEF Overwritten
<1>4. CASE Crash
    <2>1. \A n \in Notifications : Overwritten(n)' = Overwritten(n)
        BY <1>4 DEF Crash, ServiceCrash, Overwritten, Creating
    <2> QED
        BY <1>4, <2>1, LifeStutter DEF Crash, repoVars
<1> QED
    BY <1>1, <1>2, <1>3, <1>4 DEF Next

\* The dispatch engine implements the lifecycle of a notification, for any
\* number of workers, failures and restarts.
THEOREM ImplementsLifecycle == Spec => FollowsLifecycle
<1>1. Init => Life!LifeInit
    BY DEF Init, RepoInit, ServiceInit, Life!LifeInit, phase, retries, Overwritten
<1>2. IInv /\ AttemptNumberCurrent /\ [Next]_vars => [Life!LifeNext]_(Life!lifeVars)
    BY NextRefines DEF LifeStep, Life!lifeVars
<1> QED
    BY <1>1, <1>2, AttemptNumberInvariant, PTL DEF Spec, FollowsLifecycle, Life!LifeSpec

-------------------------------------------------------------------------------
(* The attempt log.                                                        *)

\* No entry of the log is a success.
NoSuccess(n) == \A i \in 1..Len(attempts[n]) : ~attempts[n][i].ok

\* The log has one entry per counted attempt, all of them failures.
Fresh(n) == Len(attempts[n]) = attemptCount[n] /\ NoSuccess(n)

\* The log of n.  Between recordAttempt and the status update the worker's
\* own entry is one that attempt_count does not count yet.
Log(n) ==
    /\ \A i \in 1..Len(attempts[n]) :
        /\ attempts[n][i].number = i
        /\ attempts[n][i].ok => i = Len(attempts[n])
    /\ status[n] \in {"ABSENT", "ACCEPTED", "QUEUED"} => Fresh(n)
    /\ \A w \in Workers : job[w] = n =>
        /\ pc[w] \in {"limit", "send", "record"} => Fresh(n)
        /\ pc[w] \in {"setid", "settle"} =>
            /\ Len(attempts[n]) = attemptCount[n] + 1
            /\ response[w] \notin Accepted => NoSuccess(n)

\* Create's overwrite resets attempt_count and leaves the log, so it ends this.
LogInv == \A n \in Notifications : ~Overwritten(n) => Log(n)

\* A step that neither logs nor counts an attempt of n, and brings nobody
\* past recordAttempt.
LEMMA LogFrame ==
    ASSUME NEW n \in Notifications, Log(n), UNCHANGED <<attempts[n], attemptCount[n]>>,
           status'[n] \in {"ABSENT", "ACCEPTED", "QUEUED"} =>
               status[n] \in {"ABSENT", "ACCEPTED", "QUEUED"},
           \A w \in Workers : job'[w] = n =>
               /\ pc'[w] \in {"limit", "send", "record"} =>
                   job[w] = n /\ pc[w] \in {"limit", "send", "record"}
               /\ pc'[w] \in {"setid", "settle"} =>
                   job[w] = n /\ pc[w] \in {"setid", "settle"} /\ UNCHANGED response[w]
    PROVE  Log(n)'
<1>1. NoSuccess(n)' = NoSuccess(n) /\ Fresh(n)' = Fresh(n) /\ Workers' = Workers
    BY Zenon DEF NoSuccess, Fresh, Workers
<1> QED
    BY <1>1, Zenon DEF Log

\* Create, Cancel, the scans, time and crashes.
LEMMA LogOthers ==
    ASSUME IInv, LogInv,
           \/ ServiceNext /\ UNCHANGED <<workerVars, sendHistory, schedVars, retryVars>>
           \/ SchedulerStep \/ RetryStep \/ TimePasses \/ Crash \/ UNCHANGED vars
    PROVE  LogInv'
<1>1. /\ status \in [Notifications -> Status \cup {"ABSENT"}]
      /\ creator \in [Notifications -> {"idle", "wrote", "overwrote", "returned"} \cup Creating]
    BY Zenon DEF IInv, TypeOK, RepoTypeOK, ServiceTypeOK
<1>2. SUFFICES ASSUME NEW n \in Notifications, ~Overwritten(n)' PROVE Log(n)'
    BY Zenon DEF LogInv
<1>3. CASE ServiceNext /\ UNCHANGED <<workerVars, sendHistory, schedVars, retryVars>>
    <2>1. UNCHANGED <<pc, job, response>>
        BY <1>3, Zenon DEF workerVars
    <2>2. PICK m \in Notifications :
            \/ \E applied, replied \in BOOLEAN :
                \/ CreateInsert(m, applied, replied)
                \/ CreateMark(m, applied, replied)
                \/ CancelNotification(m, applied, replied)
            \/ CreateDuplicate(m)
            \/ CreateDefer(m)
            \/ \E enqueued, ok \in BOOLEAN : CreatePublish(m, enqueued, ok)
        BY <1>3, Zenon DEF ServiceNext, CreateStep
    <2>3. UNCHANGED <<attempts, attemptCount>>
        BY <2>2, Zenon
        DEF CreateInsert, CreateMark, CancelNotification, CreateDuplicate, CreateDefer,
            CreatePublish, Create, UpdateStatus, Cancel, repoVars
    <2>4. \/ UNCHANGED creator
          \/ creator[m] # "overwrote" /\ \E c : creator' = [creator EXCEPT ![m] = c]
        BY <2>2, Zenon DEF CreateInsert, CreateMark, CancelNotification, CreateDuplicate,
            CreateDefer, CreatePublish
    <2>5. \/ UNCHANGED status
          \/ status' = [status EXCEPT ![m] = IF Claimable(m) THEN "CANCELED" ELSE @]
          \/ status[m] = "ABSENT" /\ status' = [status EXCEPT ![m] = "ACCEPTED"]
          \/ /\ creator' = [creator EXCEPT ![m] = "overwrote"]
             /\ \E s : status' = [status EXCEPT ![m] = s]
          \/ \E s : status' = [status EXCEPT ![m] = s] /\ status[m] \in {"ACCEPTED", s}
        <3>1. creator[m] = "idle" => status[m] = "ABSENT"
            BY Zenon DEF IInv, RowExists
        <3> QED
            BY <2>2, <3>1, MarkCases, ZenonT(30)
            DEF CreateInsert, CancelNotification, CreateDuplicate, CreateDefer,
                CreatePublish, Create, Cancel, repoVars, IInv
    <2>6. /\ ~Overwritten(n)
          /\ status'[n] \in {"ABSENT", "ACCEPTED", "QUEUED"} =>
                status[n] \in {"ABSENT", "ACCEPTED", "QUEUED"}
        BY <1>1, <1>2, <2>4, <2>5 DEF Overwritten
    <2> QED
        BY <2>1, <2>3, <2>6, LogFrame, Zenon DEF LogInv
<1>4. CASE SchedulerStep
    <2>1. /\ UNCHANGED <<attempts, attemptCount, creator, pc, job, response>>
          /\ \/ UNCHANGED status
             \/ status' = [status EXCEPT ![schedCurrent] = IF @ = "ACCEPTED" THEN "QUEUED" ELSE @]
        BY <1>4, Zenon DEF SchedulerStep, SchedulerScan, SchedulerPublish, SchedulerMark,
            MarkQueuedIfAccepted, repoVars, serviceVars, workerVars
    <2>2. status'[n] \in {"ABSENT", "ACCEPTED", "QUEUED"} =>
            status[n] \in {"ABSENT", "ACCEPTED", "QUEUED"}
        BY <1>1, <2>1
    <2>3. ~Overwritten(n)
        BY <1>2, <2>1 DEF Overwritten
    <2> QED
        BY <2>1, <2>2, <2>3, LogFrame, Zenon DEF LogInv
<1>5. CASE RetryStep \/ TimePasses \/ UNCHANGED vars
    <2>1. UNCHANGED <<status, attempts, attemptCount, creator, pc, job, response>>
        BY <1>5, ZenonT(30) DEF RetryStep, RetryScan, RetryPublish, RetryClear, ClearNextRetryAt,
            TimePasses, ScheduleFallsDue, RetryFallsDue, repoVars, serviceVars, workerVars, vars
    <2>2. ~Overwritten(n)
        BY <1>2, <2>1 DEF Overwritten
    <2> QED
        BY <2>1, <2>2, LogFrame, Zenon DEF LogInv
<1>6. CASE Crash
    <2>1. /\ UNCHANGED <<status, attempts, attemptCount>>
          /\ \A w \in Workers : pc'[w] = "idle"
          /\ creator'[n] = IF creator[n] \in Creating THEN "returned" ELSE creator[n]
        BY <1>6, Zenon DEF Crash, ServiceCrash, WorkerCrash, repoVars
    <2>2. ~Overwritten(n)
        BY <1>2, <2>1, Zenon DEF Overwritten, Creating
    <2> QED
        BY <2>1, <2>2, LogFrame, Zenon DEF LogInv
<1> QED
    BY <1>3, <1>4, <1>5, <1>6, Zenon

\* recordAttempt of the worker that has the row.
LEMMA LogAppend ==
    ASSUME IInv, NEW n \in Notifications, Log(n), Fresh(n), status[n] = "SENDING",
           NEW a \in Attempt, a.number = attemptCount[n] + 1, CreateAttempt(n, a),
           \A v \in Workers : job'[v] = n =>
               /\ pc'[v] \notin {"limit", "send", "record"}
               /\ pc'[v] \in {"setid", "settle"} => (response'[v] \notin Accepted => ~a.ok)
    PROVE  Log(n)'
<1>1. /\ attempts \in [Notifications -> Seq(Attempt)]
      /\ attemptCount[n] \in Nat
    BY Zenon DEF IInv, TypeOK, RepoTypeOK
<1>2. attempts'[n] = Append(attempts[n], a) /\ UNCHANGED <<status, attemptCount>>
    BY <1>1 DEF CreateAttempt
<1>3. /\ Len(attempts[n]) = attemptCount[n]
      /\ Len(attempts'[n]) = attemptCount[n] + 1
      /\ attempts'[n][attemptCount[n] + 1] = a
      /\ \A i \in 1..attemptCount[n] : attempts'[n][i] = attempts[n][i]
    BY <1>1, <1>2 DEF Fresh
<1>4. \A i \in 1..attemptCount[n] + 1 : i \in 1..attemptCount[n] \/ i = attemptCount[n] + 1
    BY <1>1
<1>5. \A i \in 1..attemptCount[n] : attempts'[n][i].number = i /\ ~attempts'[n][i].ok
    BY <1>3, Zenon DEF Log, Fresh, NoSuccess
<1>6. \A i \in 1..Len(attempts'[n]) :
        /\ attempts'[n][i].number = i
        /\ attempts'[n][i].ok => i = Len(attempts'[n])
    BY <1>3, <1>4, <1>5, Zenon
<1>7. ~a.ok => NoSuccess(n)'
    BY <1>3, <1>4, <1>5, Zenon DEF NoSuccess
<1> QED
    BY <1>2, <1>3, <1>6, <1>7, Zenon DEF Log, Workers

\* The workers.
LEMMA LogWorker ==
    ASSUME IInv, AttemptNumberCurrent, LogInv, NEW w \in Workers, WorkerStep(w) \/ ChannelLost(w)
    PROVE  LogInv'
<1>1. /\ status \in [Notifications -> Status \cup {"ABSENT"}]
      /\ attemptCount \in [Notifications -> Nat]
      /\ attempts \in [Notifications -> Seq(Attempt)]
      /\ pc \in [Workers -> Claiming \cup {"idle", "lock", "ack", "nack"}]
      /\ job \in [Workers -> Notifications \cup {None}]
      /\ response \in [Workers -> Response \cup {"none"}]
      /\ pc[w] # "idle" => job[w] \in Notifications
      /\ attemptNumber[w] \in Nat
    BY Zenon DEF IInv, TypeOK, RepoTypeOK, WorkerTypeOK
<1>2. SUFFICES ASSUME NEW n \in Notifications, ~Overwritten(n)' PROVE Log(n)'
    BY Zenon DEF LogInv
<1>3. Log(n) /\ ~Overwritten(n)
    BY <1>2, WorkerLeavesService, Zenon DEF LogInv, Overwritten, serviceVars
<1>4. CASE Receive(w) \/ Send(w) \/ WaitFails(w) \/ SendReturns(w) \/ ChannelLost(w)
    <2>1. UNCHANGED <<status, attempts, attemptCount>>
        BY <1>4, Zenon DEF Receive, Send, WaitFails, SendReturns, ChannelLost, repoVars
    <2>2. \A v \in Workers :
            /\ pc'[v] \in {"limit", "send", "record"} =>
                job'[v] = job[v] /\ pc[v] \in {"limit", "send", "record"}
            /\ pc'[v] \in {"setid", "settle"} =>
                pc[v] \in {"setid", "settle"} /\ UNCHANGED <<job[v], response[v]>>
        <3>1. CASE Receive(w)
            BY <1>1, <3>1, Zenon DEF Receive, GoTo
        <3>2. CASE Send(w) \/ WaitFails(w)
            BY <1>1, <3>2, Zenon DEF Send, WaitFails, GoTo
        <3>3. CASE SendReturns(w)
            BY <1>1, <3>3, Zenon DEF SendReturns, GoTo
        <3>4. CASE ChannelLost(w)
            BY <3>4, Zenon DEF ChannelLost, workerVars
        <3> QED
            BY <1>4, <3>1, <3>2, <3>3, <3>4, Zenon
    <2> QED
        BY <1>3, <2>1, <2>2, LogFrame, Zenon
<1>5. CASE Acknowledge(w) \/ Reject(w)
    <2>1. /\ UNCHANGED <<status, attempts, attemptCount>>
          /\ pc' = [pc EXCEPT ![w] = "idle"]
          /\ job' = [job EXCEPT ![w] = None]
          /\ response' = [response EXCEPT ![w] = "none"]
        BY <1>5, Zenon DEF Acknowledge, Reject, Done, GoTo, repoVars
    <2>2. \A v \in Workers : pc'[v] \in Claiming => UNCHANGED <<pc[v], job[v], response[v]>>
        BY <1>1, <2>1, Zenon DEF Claiming
    <2> QED
        BY <1>3, <2>1, <2>2, LogFrame, Zenon DEF Claiming
<1>6. ASSUME NEW applied \in BOOLEAN, NEW replied \in BOOLEAN, Lock(w, applied, replied)
      PROVE  Log(n)'
    <2>1. PICK m \in Notifications :
            /\ job[w] = m /\ pc[w] = "lock"
            /\ status' = [status EXCEPT ![m] = IF applied /\ Claimable(m) THEN "SENDING" ELSE @]
            /\ pc' = [pc EXCEPT ![w] = IF ~replied THEN "nack"
                                       ELSE IF Claimable(m) THEN "limit" ELSE "ack"]
            /\ replied => applied
            /\ UNCHANGED <<attempts, attemptCount, job, response>>
        BY <1>1, <1>6, Zenon DEF Lock, LockForSending, Outcome, GoTo, repoVars
    <2>2. CASE m = n /\ replied /\ Claimable(n)
        <3>1. Fresh(n) /\ Fresh(n)' = Fresh(n) /\ NoSuccess(n)' = NoSuccess(n)
            BY <1>3, <2>1, <2>2, Zenon DEF Log, Claimable, Fresh, NoSuccess
        <3>2. \A v \in Workers : ~Claims(v, n)
            BY <1>3, <2>2, Zenon DEF IInv, ExclusiveSend, Claimable
        <3>3. \A v \in Workers : job'[v] = n => pc'[v] \notin {"setid", "settle"}
            BY <1>1, <2>1, <2>2, <3>2, Zenon DEF Claims, Claiming
        <3> QED
            BY <1>3, <2>1, <3>1, <3>3, Zenon DEF Log, Workers
    <2>3. CASE ~(m = n /\ replied /\ Claimable(n))
        <3>1. \A v \in Workers : job[v] = n /\ pc'[v] \in Claiming => pc'[v] = pc[v]
            BY <1>1, <2>1, <2>3, Zenon DEF Claiming
        <3>2. status'[n] \in {"ABSENT", "ACCEPTED", "QUEUED"} =>
                status[n] \in {"ABSENT", "ACCEPTED", "QUEUED"}
            BY <1>1, <2>1, Zenon
        <3> QED
            BY <1>3, <2>1, <3>1, <3>2, LogFrame, Zenon DEF Claiming
    <2> QED
        BY <2>2, <2>3, Zenon
<1>7. ASSUME NEW applied \in BOOLEAN, NEW replied \in BOOLEAN, RecordAttempt(w, applied, replied)
      PROVE  Log(n)'
    <2> DEFINE a == [number |-> attemptNumber[w], ok |-> response[w] \in Accepted]
    <2>1. PICK m \in Notifications :
            /\ job[w] = m /\ pc[w] = "record"
            /\ IF applied THEN CreateAttempt(m, a) ELSE UNCHANGED repoVars
            /\ pc' = [pc EXCEPT ![w] = IF ~replied THEN "nack"
                         ELSE IF response[w] = "acceptedWithID" THEN "setid" ELSE "settle"]
            /\ replied => applied
            /\ UNCHANGED <<job, response>>
        BY <1>1, <1>7, Zenon DEF RecordAttempt, Outcome, GoTo
    <2>2. /\ a \in Attempt
          /\ a.number = attemptNumber[w] /\ (response[w] \notin Accepted => ~a.ok)
        BY <1>1, AttemptHasType, Zenon
    <2> HIDE DEF a
    <2>3. \A v \in Workers \ {w} : pc'[v] = pc[v]
        BY <1>1, <2>1, Zenon
    <2>4. pc'[w] \in {"nack", "setid", "settle"} /\ (pc'[w] # "nack" => applied)
        BY <1>1, <2>1, Zenon
    <2>5. CASE m = n /\ applied
        <3>1. Claims(w, n)
            BY <2>1, <2>5, Zenon DEF Claims, Claiming
        <3>2. /\ status[n] = "SENDING" /\ \A v \in Workers : Claims(v, n) => v = w
              /\ attemptNumber[w] = attemptCount[n] + 1
            BY <1>3, <3>1, Zenon DEF IInv, ExclusiveSend, AttemptNumberCurrent
        <3>3. Fresh(n) /\ CreateAttempt(n, a) /\ a.number = attemptCount[n] + 1
            BY <1>3, <2>1, <2>2, <2>5, <3>2, Zenon DEF Log
        <3>4. \A v \in Workers : job'[v] = n =>
               /\ pc'[v] \notin {"limit", "send", "record"}
               /\ pc'[v] \in {"setid", "settle"} => (response'[v] \notin Accepted => ~a.ok)
            <4> SUFFICES ASSUME NEW v \in Workers, job'[v] = n, pc'[v] \in Claiming
                         PROVE  v = w
                BY <2>1, <2>2, <2>4, Zenon DEF Claiming
            <4> QED
                BY <2>1, <2>3, <3>2, Zenon DEF Claims
        <3> QED
            BY <1>3, <2>2, <3>2, <3>3, <3>4, LogAppend, Zenon
    <2>6. CASE ~(m = n /\ applied)
        <3>1. UNCHANGED <<status, attemptCount, attempts[n]>>
            BY <1>1, <2>1, <2>6, Zenon DEF CreateAttempt, repoVars
        <3>2. \A v \in Workers : job[v] = n /\ pc'[v] \in Claiming => pc'[v] = pc[v]
            BY <2>1, <2>3, <2>4, <2>6, Zenon DEF Claiming
        <3> QED
            BY <1>3, <2>1, <3>1, <3>2, LogFrame, Zenon DEF Claiming
    <2> QED
        BY <2>5, <2>6, Zenon
<1>8. ASSUME NEW applied \in BOOLEAN, NEW replied \in BOOLEAN,
             \/ SetID(w, applied, replied) \/ MarkSent(w, applied, replied)
             \/ MarkFailed(w, applied, replied)
      PROVE  Log(n)'
    <2>1. /\ UNCHANGED <<attempts, attemptCount, job, response>>
          /\ pc[w] \in {"setid", "settle"}
          /\ \E l \in {"settle", "ack", "nack"} : pc' = [pc EXCEPT ![w] = l]
          /\ \/ UNCHANGED status
             \/ \E s \in {"SENT", "FAILED"} : status' = [status EXCEPT ![job[w]] = s]
        BY <1>8, ZenonT(30) DEF SetID, MarkSent, MarkFailed, Settle, GoTo, SetProviderMessageID,
            UpdateStatus, repoVars
    <2>2. status'[n] \in {"ABSENT", "ACCEPTED", "QUEUED"} => status'[n] = status[n]
        BY <1>1, <2>1, Zenon
    <2>3. \A v \in Workers :
            /\ pc'[v] \in {"limit", "send", "record"} => pc[v] = pc'[v]
            /\ pc'[v] \in {"setid", "settle"} => pc[v] \in {"setid", "settle"}
        BY <1>1, <2>1, Zenon
    <2> QED
        BY <1>3, <2>1, <2>2, <2>3, LogFrame, Zenon
<1>9. ASSUME NEW applied \in BOOLEAN, NEW replied \in BOOLEAN, ScheduleRetry(w, applied, replied)
      PROVE  Log(n)'
    <2>1. PICK m \in Notifications :
            /\ job[w] = m /\ pc[w] = "settle" /\ response[w] \notin Accepted
            /\ IF applied THEN UpdateStatusWithRetry(m, "QUEUED") ELSE UNCHANGED repoVars
            /\ \E l \in {"ack", "nack"} : pc' = [pc EXCEPT ![w] = l]
            /\ UNCHANGED <<job, response>>
        BY <1>1, <1>9, Zenon DEF ScheduleRetry, Settle, GoTo
    <2>2. \A v \in Workers : pc'[v] \in Claiming => v # w /\ pc'[v] = pc[v]
        BY <1>1, <2>1, Zenon DEF Claiming
    <2>3. CASE m = n /\ applied
        <3>1. /\ attemptCount'[n] = attemptCount[n] + 1
              /\ UNCHANGED attempts
            <4>1. UpdateStatusWithRetry(n, "QUEUED")
                BY <2>1, <2>3, Zenon
            <4> QED
                BY <1>1, <4>1 DEF UpdateStatusWithRetry
        <3>2. Len(attempts[n]) = attemptCount[n] + 1 /\ NoSuccess(n)
            BY <1>3, <2>1, <2>3, Zenon DEF Log
        <3>3. Fresh(n)'
            BY <3>1, <3>2, Zenon DEF Fresh, NoSuccess
        <3>4. \A v \in Workers : Claims(v, n) => v = w
            <4>1. Claims(w, n)
                BY <2>1, <2>3, Zenon DEF Claims, Claiming
            <4> QED
                BY <1>3, <4>1, Zenon DEF IInv, ExclusiveSend
        <3>5. \A v \in Workers : job'[v] = n => pc'[v] \notin Claiming
            BY <2>1, <2>2, <3>4, Zenon DEF Claims
        <3> QED
            BY <1>3, <3>1, <3>3, <3>5, Zenon DEF Log, Claiming, Workers
    <2>4. CASE ~(m = n /\ applied)
        <3>1. UNCHANGED <<status[n], attemptCount[n], attempts>>
            BY <1>1, <2>1, <2>4, Zenon DEF UpdateStatusWithRetry, repoVars
        <3> QED
            BY <1>3, <2>1, <2>2, <3>1, LogFrame, Zenon DEF Claiming
    <2> QED
        BY <2>3, <2>4, Zenon
<1> QED
    BY <1>4, <1>5, <1>6, <1>7, <1>8, <1>9, Zenon DEF WorkerStep

\* The rows of notification_attempts are numbered in order, and only the
\* last can be a success, whatever duplicates, lost answers and restarts
\* come between the calls, until Create overwrites the row.
THEOREM LogIsInOrder == Spec => []AttemptLogInOrder
<1> DEFINE Strong == IInv /\ AttemptNumberCurrent
<1>1. Init => LogInv
    <2> SUFFICES ASSUME Init, NEW n \in Notifications PROVE Log(n)
        BY DEF LogInv
    <2>1. attempts[n] = << >> /\ attemptCount[n] = 0 /\ \A w \in Workers : pc[w] = "idle"
        BY DEF Init, RepoInit, WorkerInit
    <2> QED
        BY <2>1 DEF Log, Fresh, NoSuccess
<1>2. Strong /\ LogInv /\ [Next]_vars => LogInv'
    BY LogOthers, LogWorker DEF Next, WorkerNext
<1>3. LogInv => AttemptLogInOrder
    BY Zenon DEF LogInv, Log, AttemptLogInOrder
<1>4. Spec => []Strong
    BY AttemptNumberInvariant, Zenon
<1> QED
    BY <1>1, <1>2, <1>3, <1>4, PTL DEF Spec

===============================================================================
