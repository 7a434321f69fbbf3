----------------------------- MODULE BudgetProofs -----------------------------
(***************************************************************************)
(* What the provider sees of a notification: at most max_retries calls,    *)
(* none after the one it accepted, and at most two more when Create        *)
(* overwrites the row.                                                     *)
(***************************************************************************)
EXTENDS LifecycleProofs

\* How the counts of calls, attempts and retries compare after one more.
LEMMA Counting ==
    \A s, a, m \in Nat :
        /\ s <= a + 1 => s + 1 <= a + 2 /\ s <= a + 2
        /\ s <= a => s + 1 <= a + 1
        /\ s <= a + 2 => s <= (a + 1) + 1 /\ s <= (a + 1) + 2
        /\ a < m => a <= m /\ a + 1 <= m
        /\ a + 1 < m => a + 2 <= m
        /\ a + 2 <= m => (a + 1) + 1 <= m
        /\ (a + 1) + 1 < m => (a + 1) + 2 <= m
        /\ (a + 1) + 2 <= m => (a + 1) + 1 <= m
        /\ s <= a + 2 /\ a <= m => s <= m + 2
        /\ m > 0 => ~(m <= 0)
OBVIOUS

\* What the row knows of the calls made: attempt_count lags one behind while
\* a worker has the row or has lost it, and is exact once the row can be
\* claimed again.
CallsCounted(n) ==
    /\ status[n] = "ABSENT" => sends[n] = 0 /\ attemptCount[n] = 0
    /\ status[n] # "ABSENT" => attemptCount[n] < maxRetries[n]
    /\ sends[n] <= attemptCount[n] + 1
    /\ Claimable(n) => sends[n] <= attemptCount[n]
    /\ \A w \in Workers : pc[w] = "limit" /\ job[w] = n => sends[n] <= attemptCount[n]

BudgetInv == \A n \in Notifications : ~Overwritten(n) => CallsCounted(n)

\* What a step can do to the columns of n's row before Create overwrites it,
\* seen as a row of the lifecycle.
RowKept(n) == UNCHANGED <<phase[n], retries[n], maxRetries[n]>>

RowAccepted(n) ==
    /\ phase[n] = "ABSENT" /\ phase'[n] = "ACCEPTED"
    /\ maxRetries'[n] \in Nat \ {0}
    /\ UNCHANGED retries[n]

RowMoved(n) ==
    /\ phase[n] \in Status /\ phase'[n] \in Status
    /\ phase'[n] \in {"ACCEPTED", "QUEUED"} => phase[n] \in {"ACCEPTED", "QUEUED"}
    /\ UNCHANGED <<retries[n], maxRetries[n]>>

RowRetried(n) ==
    /\ phase[n] = "SENDING" /\ phase'[n] = "QUEUED"
    /\ retries'[n] = retries[n] + 1
    /\ retries'[n] < maxRetries[n]
    /\ UNCHANGED maxRetries[n]

\* A step of the lifecycle does one of these four to a row it does not free.
LEMMA RowSteps ==
    ASSUME LifeStep, IInv, NEW n \in Notifications, phase'[n] # "FREE"
    PROVE  RowKept(n) \/ RowAccepted(n) \/ RowMoved(n) \/ RowRetried(n)
<1>1. /\ phase \in [Notifications -> Status \cup {"ABSENT", "FREE"}]
      /\ retries \in [Notifications -> Nat]
      /\ maxRetries \in [Notifications -> Nat]
    BY DEF phase, retries, IInv, TypeOK, RepoTypeOK
<1>2. CASE UNCHANGED <<phase, retries, maxRetries>>
    BY <1>2 DEF RowKept
<1>3. ASSUME NEW m \in Notifications, Life!Accept(m)
      PROVE  RowKept(n) \/ RowAccepted(n)
    BY <1>1, <1>3 DEF Life!Accept, RowKept, RowAccepted
<1>4. ASSUME NEW m \in Notifications, Life!Retry(m)
      PROVE  RowKept(n) \/ RowRetried(n)
    BY <1>1, <1>4 DEF Life!Retry, RowKept, RowRetried
<1>5. ASSUME NEW m \in Notifications, Life!Release(m)
      PROVE  RowKept(n)
    BY <1>1, <1>5 DEF Life!Release, RowKept
<1>6. ASSUME NEW m \in Notifications,
             \/ Life!Move(m, {"ACCEPTED"}, "QUEUED")
             \/ Life!Move(m, {"ACCEPTED"}, "FAILED")
             \/ Life!Move(m, {"ACCEPTED", "QUEUED"}, "SENDING")
             \/ Life!Move(m, {"ACCEPTED", "QUEUED"}, "CANCELED")
             \/ Life!Move(m, {"SENDING"}, "SENT")
             \/ Life!Move(m, {"SENDING"}, "FAILED")
      PROVE  RowKept(n) \/ RowMoved(n)
    BY <1>1, <1>6 DEF Life!Move, RowKept, RowMoved, Status
<1> QED
    BY <1>2, <1>3, <1>4, <1>5, <1>6 DEF LifeStep, Life!LifeNext

\* The provider is called for n by a worker that Wait has let through.
Called(n) ==
    \E w \in Workers :
        /\ pc[w] = "limit" /\ job[w] = n /\ pc'[w] # "limit"
        /\ \A v \in Workers \ {w} : pc'[v] = pc[v] /\ job'[v] = job[v]
        /\ sends'[n] = sends[n] + 1
        /\ UNCHANGED <<repoVars, serviceVars>>

\* A worker that is about to call Wait for n was there before or has just
\* claimed the row.
WaitersKnown(n) ==
    \A w \in Workers : pc'[w] = "limit" /\ job'[w] = n =>
        \/ pc[w] = "limit" /\ job[w] = n
        \/ Claimable(n) /\ UNCHANGED <<attemptCount, sends>>

\* The steps of the other processes.
LEMMA OthersCallNobody ==
    ASSUME \/ ServiceNext /\ UNCHANGED <<workerVars, sendHistory, schedVars, retryVars>>
           \/ SchedulerStep \/ RetryStep \/ TimePasses \/ Crash \/ UNCHANGED vars,
           NEW n \in Notifications
    PROVE  UNCHANGED sends[n] /\ WaitersKnown(n)
<1>1. CASE ServiceNext /\ UNCHANGED <<workerVars, sendHistory, schedVars, retryVars>>
    BY <1>1 DEF workerVars, sendHistory, WaitersKnown
<1>2. CASE SchedulerStep
    BY <1>2 DEF SchedulerStep, SchedulerScan, SchedulerPublish, SchedulerMark,
        workerVars, sendHistory, WaitersKnown
<1>3. CASE RetryStep
    BY <1>3 DEF RetryStep, RetryScan, RetryPublish, RetryClear,
        workerVars, sendHistory, WaitersKnown
<1>4. CASE TimePasses \/ UNCHANGED vars
    BY <1>4 DEF TimePasses, vars, workerVars, sendHistory, WaitersKnown
<1>5. CASE Crash
    BY <1>5, Zenon DEF Crash, WorkerCrash, sendHistory, WaitersKnown
<1> QED
    BY <1>1, <1>2, <1>3, <1>4, <1>5

\* The steps of a worker: only Send calls the provider, and only Lock takes
\* a worker to "limit".
LEMMA WorkerCalls ==
    ASSUME IInv, NEW w \in Workers, WorkerStep(w) \/ ChannelLost(w), NEW n \in Notifications
    PROVE  (UNCHANGED sends[n] \/ Called(n)) /\ WaitersKnown(n)
<1> USE DEF IInv, TypeOK
<1>1. CASE Send(w)
    BY <1>1 DEF Send, GoTo, WorkerTypeOK, Called, WaitersKnown
<1>2. ASSUME NEW applied \in BOOLEAN, NEW replied \in BOOLEAN, Lock(w, applied, replied)
      PROVE  UNCHANGED sends[n] /\ WaitersKnown(n)
    <2>1. UNCHANGED <<sends, job, attemptCount>>
        BY <1>2 DEF Lock, LockForSending, repoVars, sendHistory
    <2> DEFINE label == IF ~replied THEN "nack" ELSE IF Claimable(job[w]) THEN "limit" ELSE "ack"
    <2>2. pc' = [pc EXCEPT ![w] = label]
        BY <1>2 DEF Lock, GoTo
    <2>3. \A v \in Workers : pc'[v] = "limit" => pc[v] = "limit" \/ (v = w /\ Claimable(job[w]))
        BY <2>2 DEF WorkerTypeOK
    <2> QED
        BY <2>1, <2>3 DEF WaitersKnown
<1> DEFINE Quiet == /\ UNCHANGED sends
                    /\ \A v \in Workers : pc'[v] = "limit" => pc[v] = "limit" /\ job'[v] = job[v]
<1>3. CASE Receive(w)
    <2>1. Quiet
        BY <1>3, Zenon DEF Receive, GoTo, WorkerTypeOK, sendHistory
    <2> QED
        BY <2>1 DEF WaitersKnown
<1>4. CASE WaitFails(w) \/ SendReturns(w) \/ ChannelLost(w)
    <2>1. Quiet
        BY <1>4 DEF WaitFails, SendReturns, ChannelLost, GoTo, WorkerTypeOK, workerVars, sendHistory
    <2> QED
        BY <2>1 DEF WaitersKnown
<1>5. CASE Acknowledge(w) \/ Reject(w)
    <2>1. Quiet
        BY <1>5 DEF Acknowledge, Reject, Done, GoTo, WorkerTypeOK, sendHistory
    <2> QED
        BY <2>1 DEF WaitersKnown
<1>6. ASSUME NEW applied \in BOOLEAN, NEW replied \in BOOLEAN,
             \/ RecordAttempt(w, applied, replied) \/ SetID(w, applied, replied)
             \/ MarkSent(w, applied, replied) \/ ScheduleRetry(w, applied, replied)
             \/ MarkFailed(w, applied, replied)
      PROVE  UNCHANGED sends[n] /\ WaitersKnown(n)
    <2>1. Quiet
        BY <1>6 DEF RecordAttempt, SetID, MarkSent, ScheduleRetry, MarkFailed, Settle, GoTo,
            WorkerTypeOK, sendHistory
    <2> QED
        BY <2>1, Zenon DEF WaitersKnown
<1> QED
    BY <1>1, <1>2, <1>3, <1>4, <1>5, <1>6, Zenon DEF WorkerStep

\* One step keeps the calls counted.
LEMMA CallsStayCounted ==
    ASSUME IInv, IInv', AttemptNumberCurrent, BudgetInv, [Next]_vars
    PROVE  BudgetInv'
<1> SUFFICES ASSUME NEW n \in Notifications, ~Overwritten(n)'
             PROVE  CallsCounted(n)'
    BY DEF BudgetInv
<1>1. /\ status[n] \in Status \cup {"ABSENT"} /\ status'[n] \in Status \cup {"ABSENT"}
      /\ sends[n] \in Nat /\ attemptCount[n] \in Nat /\ maxRetries[n] \in Nat
    BY Zenon DEF IInv, TypeOK, WorkerTypeOK, RepoTypeOK
<1>2. phase'[n] = status'[n] /\ retries'[n] = attemptCount'[n] /\ phase'[n] # "FREE"
    BY <1>1 DEF phase, retries, Status
<1>3. RowKept(n) \/ RowAccepted(n) \/ RowMoved(n) \/ RowRetried(n)
    BY <1>2, NextRefines, RowSteps
<1>4. ~Overwritten(n) /\ phase[n] = status[n] /\ retries[n] = attemptCount[n]
    <2>1. phase[n] # "FREE"
        BY <1>2, <1>3 DEF RowKept, RowAccepted, RowMoved, RowRetried, Status
    <2> QED
        BY <2>1 DEF phase, retries
<1>5. CallsCounted(n)
    BY <1>4, Zenon DEF BudgetInv
<1>6. (UNCHANGED sends[n] \/ Called(n)) /\ WaitersKnown(n)
    BY OthersCallNobody, WorkerCalls, Zenon DEF Next, WorkerNext
<1>7. CASE Called(n)
    <2>1. PICK w \in Workers :
            /\ pc[w] = "limit" /\ job[w] = n /\ pc'[w] # "limit"
            /\ \A v \in Workers \ {w} : pc'[v] = pc[v] /\ job'[v] = job[v]
            /\ sends'[n] = sends[n] + 1
            /\ UNCHANGED <<status, attemptCount, maxRetries>>
        BY <1>7, Zenon DEF Called, repoVars
    <2>2. Claims(w, n)
        BY <2>1 DEF Claims, Claiming
    <2>3. status[n] = "SENDING" /\ \A v \in Workers : Claims(v, n) => v = w
        BY <1>4, <2>2 DEF IInv, ExclusiveSend
    <2>4. \A v \in Workers : ~(pc'[v] = "limit" /\ job'[v] = n)
        BY <2>1, <2>3 DEF Claims, Claiming
    <2>5. Workers' = Workers
        BY DEF Workers
    <2> QED
        BY <1>1, <1>5, <2>1, <2>3, <2>4, <2>5 DEF CallsCounted, Claimable
<1>8. CASE UNCHANGED sends[n]
    <2>1. ASSUME NEW w \in Workers, pc'[w] = "limit", job'[w] = n
          PROVE  sends[n] <= attemptCount[n]
        BY <1>5, <1>6, <2>1, Zenon DEF WaitersKnown, CallsCounted
    <2>2. attemptCount'[n] \in Nat /\ attemptCount'[n] >= attemptCount[n]
        BY <1>1, <1>2, <1>3, <1>4 DEF RowKept, RowAccepted, RowMoved, RowRetried
    <2>3. /\ status'[n] = "ABSENT" => sends[n] = 0 /\ attemptCount'[n] = 0
          /\ status'[n] # "ABSENT" => attemptCount'[n] < maxRetries'[n]
          /\ sends[n] <= attemptCount'[n] + 1
          /\ status'[n] \in {"ACCEPTED", "QUEUED"} => sends[n] <= attemptCount'[n]
        <3>1. /\ status[n] = "ABSENT" => sends[n] = 0 /\ attemptCount[n] = 0
              /\ status[n] # "ABSENT" => attemptCount[n] < maxRetries[n]
              /\ sends[n] <= attemptCount[n] + 1
              /\ status[n] \in {"ACCEPTED", "QUEUED"} => sends[n] <= attemptCount[n]
            BY <1>5, Zenon DEF CallsCounted, Claimable
        <3> USE <1>1, <1>2, <1>4, <3>1
        <3>2. CASE RowKept(n)
            BY <3>2, Zenon DEF RowKept
        <3>3. CASE RowAccepted(n)
            BY <3>3 DEF RowAccepted
        <3>4. CASE RowMoved(n)
            BY <3>4, Zenon DEF RowMoved, Status
        <3>5. CASE RowRetried(n)
            BY <3>5 DEF RowRetried
        <3> QED
            BY <1>3, <3>2, <3>3, <3>4, <3>5, Zenon
    <2>4. \A w \in Workers : pc'[w] = "limit" /\ job'[w] = n => sends[n] <= attemptCount'[n]
        BY <1>1, <2>1, <2>2
    <2> QED
        BY <1>8, <2>3, <2>4, Zenon DEF CallsCounted, Claimable, Workers
<1> QED
    BY <1>6, <1>7, <1>8

\* No delivery, duplicate, lost channel, failed update or restart makes the
\* workers call the provider more than max_retries times for a row that
\* Create has not overwritten.
THEOREM BudgetIsKept == Spec => []AttemptBudget
<1> DEFINE Strong == IInv /\ AttemptNumberCurrent
<1>1. Init => BudgetInv
    BY DEF Init, RepoInit, WorkerInit, BudgetInv, CallsCounted, Claimable
<1>2. Strong /\ Strong' /\ BudgetInv /\ [Next]_vars => BudgetInv'
    BY CallsStayCounted, Zenon
<1>3. Strong /\ BudgetInv => AttemptBudget
    <2> SUFFICES ASSUME Strong, BudgetInv, NEW n \in Notifications, ~Overwritten(n)
                 PROVE  sends[n] <= maxRetries[n]
        BY DEF AttemptBudget
    <2>1. sends[n] \in Nat /\ attemptCount[n] \in Nat /\ maxRetries[n] \in Nat
        BY DEF IInv, TypeOK, WorkerTypeOK, RepoTypeOK
    <2> QED
        BY <2>1 DEF BudgetInv, CallsCounted
<1>4. Spec => []Strong
    BY AttemptNumberInvariant, Zenon
<1> QED
    BY <1>1, <1>2, <1>3, <1>4, PTL DEF Spec

-------------------------------------------------------------------------------

\* A worker that will call the provider for n, or that was refused by it,
\* knows that nobody was accepted before.
NotYetAccepted(n) ==
    \A w \in Workers :
        /\ Claims(w, n)
        /\ pc[w] \in {"limit", "send"} \/ response[w] \notin Accepted
        => accepted[n] = 0

AcceptInv ==
    \A n \in Notifications : ~Overwritten(n) =>
        /\ accepted[n] > 0 => accepted[n] = 1 /\ status[n] \in {"SENDING", "SENT"}
        /\ NotYetAccepted(n)

\* A step that takes no row out of SENDING or SENT, leaves accepted alone
\* and changes no worker, or forgets them all.
LEMMA AcceptFrame ==
    ASSUME AcceptInv, UNCHANGED accepted,
           \A w \in Workers : pc'[w] = "idle" \/ UNCHANGED <<pc[w], job[w], response[w]>>,
           \A n \in Notifications : ~Overwritten(n)' =>
               /\ ~Overwritten(n)
               /\ status[n] \in {"SENDING", "SENT"} => status'[n] = status[n]
    PROVE  AcceptInv'
BY DEF AcceptInv, NotYetAccepted, Claims, Claiming, Workers

\* Create and Cancel.
LEMMA AcceptService ==
    ASSUME IInv, AcceptInv, ServiceNext, UNCHANGED <<workerVars, sendHistory>>
    PROVE  AcceptInv'
<1>1. PICK m \in Notifications :
        \/ \E applied, replied \in BOOLEAN : CreateInsert(m, applied, replied)
        \/ CreateDuplicate(m)
        \/ CreateStep(m)
        \/ \E applied, replied \in BOOLEAN : CancelNotification(m, applied, replied)
    BY DEF ServiceNext
<1>2. /\ creator \in [Notifications -> {"idle", "wrote", "overwrote", "returned"} \cup Creating]
      /\ status \in [Notifications -> Status \cup {"ABSENT"}]
    BY Zenon DEF IInv, TypeOK, ServiceTypeOK, RepoTypeOK
<1> DEFINE Harmless ==
        \/ UNCHANGED creator
        \/ creator[m] # "overwrote" /\ \E x : creator' = [creator EXCEPT ![m] = x]
<1> DEFINE Spared ==
        \/ UNCHANGED status
        \/ status[m] \notin {"SENDING", "SENT"} /\ \E x : status' = [status EXCEPT ![m] = x]
        \/ creator'[m] = "overwrote" /\ \E x : status' = [status EXCEPT ![m] = x]
<1>3. Harmless
    BY <1>1, Zenon DEF CreateInsert, CreateDuplicate, CreateStep, CreateDefer, CreatePublish,
        CreateMark, CancelNotification
<1>4. Spared
    <2>1. ASSUME NEW applied \in BOOLEAN, NEW replied \in BOOLEAN,
                 CreateInsert(m, applied, replied)
          PROVE  Spared
        BY <2>1 DEF IInv, CreateInsert, Create, repoVars, RowExists
    <2>2. ASSUME NEW applied \in BOOLEAN, NEW replied \in BOOLEAN,
                 CreateMark(m, applied, replied)
          PROVE  Spared
        <3>1. \/ UNCHANGED status
              \/ status[m] = "ACCEPTED" /\ \E x : status' = [status EXCEPT ![m] = x]
              \/ status' = [status EXCEPT ![m] = status[m]]
              \/ /\ creator' = [creator EXCEPT ![m] = "overwrote"]
                 /\ \E x : status' = [status EXCEPT ![m] = x]
            BY <2>2, MarkCases, ZenonT(30) DEF IInv, repoVars
        <3> QED
            BY <1>2, <3>1, Zenon
    <2>3. ASSUME NEW applied \in BOOLEAN, NEW replied \in BOOLEAN,
                 CancelNotification(m, applied, replied)
          PROVE  Spared
        BY <1>2, <2>3, Zenon DEF CancelNotification, Cancel, Claimable, repoVars
    <2>4. ASSUME \/ CreateDuplicate(m) \/ CreateDefer(m)
                 \/ \E enqueued, ok \in BOOLEAN : CreatePublish(m, enqueued, ok)
          PROVE  Spared
        BY <2>4 DEF CreateDuplicate, CreateDefer, CreatePublish, repoVars
    <2> QED
        BY <1>1, <2>1, <2>2, <2>3, <2>4, Zenon DEF CreateStep
<1>5. \A n \in Notifications : ~Overwritten(n)' =>
        /\ ~Overwritten(n)
        /\ status[n] \in {"SENDING", "SENT"} => status'[n] = status[n]
    BY <1>2, <1>3, <1>4 DEF Overwritten
<1> QED
    BY <1>5, AcceptFrame DEF workerVars, sendHistory

\* The scans, time and crashes.
LEMMA AcceptOthers ==
    ASSUME IInv, AcceptInv,
           SchedulerStep \/ RetryStep \/ TimePasses \/ Crash \/ UNCHANGED vars
    PROVE  AcceptInv'
<1>1. /\ status \in [Notifications -> Status \cup {"ABSENT"}]
      /\ creator \in [Notifications -> {"idle", "wrote", "overwrote", "returned"} \cup Creating]
    BY Zenon DEF IInv, TypeOK, RepoTypeOK, ServiceTypeOK
<1>2. CASE SchedulerStep
    <2>1. /\ UNCHANGED <<serviceVars, workerVars, sendHistory>>
          /\ \/ UNCHANGED status
             \/ status' = [status EXCEPT ![schedCurrent] = IF @ = "ACCEPTED" THEN "QUEUED" ELSE @]
        BY <1>2 DEF SchedulerStep, SchedulerScan, SchedulerPublish, SchedulerMark,
            MarkQueuedIfAccepted, repoVars
    <2>2. \A n \in Notifications :
            status[n] \in {"SENDING", "SENT"} => status'[n] = status[n]
        BY <1>1, <2>1, Zenon
    <2> QED
        BY <2>1, <2>2, AcceptFrame, Zenon DEF serviceVars, workerVars, sendHistory, Overwritten
<1>4. CASE RetryStep \/ TimePasses \/ UNCHANGED vars
    <2>1. UNCHANGED <<status, serviceVars, workerVars, sendHistory>>
        BY <1>4, ZenonT(30) DEF RetryStep, RetryScan, RetryPublish, RetryClear, ClearNextRetryAt,
            TimePasses, ScheduleFallsDue, RetryFallsDue, repoVars, vars
    <2> QED
        BY <2>1, AcceptFrame DEF serviceVars, workerVars, sendHistory, Overwritten
<1>3. CASE Crash
    <2>1. UNCHANGED <<status, accepted>> /\ \A w \in Workers : pc'[w] = "idle"
        BY <1>3 DEF Crash, WorkerCrash, repoVars, sendHistory
    <2>2. \A n \in Notifications : ~Overwritten(n)' => ~Overwritten(n)
        BY <1>1, <1>3 DEF Crash, ServiceCrash, Overwritten, Creating
    <2> QED
        BY <2>1, <2>2, AcceptFrame, Zenon
<1> QED
    BY <1>2, <1>3, <1>4, Zenon

\* The workers.
LEMMA AcceptWorker ==
    ASSUME IInv, AcceptInv, NEW w \in Workers, WorkerStep(w) \/ ChannelLost(w)
    PROVE  AcceptInv'
<1> DEFINE n == job[w]
<1>1. \A m \in Notifications : Overwritten(m)' = Overwritten(m)
    BY WorkerLeavesService, Zenon DEF serviceVars, Overwritten
<1>2. /\ pc \in [Workers -> Claiming \cup {"idle", "lock", "ack", "nack"}]
      /\ response \in [Workers -> Response \cup {"none"}]
      /\ status \in [Notifications -> Status \cup {"ABSENT"}]
      /\ accepted \in [Notifications -> Nat]
      /\ job \in [Workers -> Notifications \cup {None}]
      /\ pc[w] # "idle" => n \in Notifications
    BY Zenon DEF IInv, TypeOK, WorkerTypeOK, RepoTypeOK
<1>3. ASSUME NEW applied \in BOOLEAN, NEW replied \in BOOLEAN, Lock(w, applied, replied)
      PROVE  AcceptInv'
    <2>1. /\ UNCHANGED <<job, response, accepted>>
          /\ \/ UNCHANGED status
             \/ status' = [status EXCEPT ![n] = IF Claimable(n) THEN "SENDING" ELSE @]
        BY <1>3, Zenon DEF Lock, LockForSending, repoVars, sendHistory
    <2> DEFINE label == IF ~replied THEN "nack" ELSE IF Claimable(n) THEN "limit" ELSE "ack"
    <2>2. pc' = [pc EXCEPT ![w] = label]
        BY <1>3, Zenon DEF Lock, GoTo
    <2>3. \A v \in Workers, m \in Notifications :
            Claims(v, m)' => Claimable(m) \/ (Claims(v, m) /\ pc'[v] = pc[v])
        BY <1>2, <2>1, <2>2 DEF Claims, Claiming
    <2>4. \A m \in Notifications :
            /\ status[m] \in {"SENDING", "SENT"} => status'[m] = status[m]
            /\ Claimable(m) => status[m] \notin {"SENDING", "SENT"}
        BY <1>2, <2>1, Zenon DEF Claimable
    <2>5. \A m \in Notifications : Claimable(m) /\ ~Overwritten(m) => accepted[m] = 0
        BY <1>2, <2>4 DEF AcceptInv
    <2> QED
        BY <1>1, <2>1, <2>3, <2>4, <2>5, Zenon DEF AcceptInv, NotYetAccepted, Workers
<1>4. CASE SendReturns(w)
    <2>1. PICK r \in Response :
            /\ pc[w] = "send" /\ pc' = [pc EXCEPT ![w] = "record"]
            /\ response' = [response EXCEPT ![w] = r]
            /\ accepted' = [accepted EXCEPT ![n] = IF r \in Accepted THEN @ + 1 ELSE @]
            /\ UNCHANGED <<status, job>>
        BY <1>4, ZenonT(30) DEF SendReturns, GoTo, repoVars
    <2>2. n \in Notifications /\ Claims(w, n)
        BY <1>2, <2>1 DEF Claims, Claiming
    <2>3. \A v \in Workers, m \in Notifications :
            /\ Claims(v, m)' => Claims(v, m)
            /\ v # w => UNCHANGED <<pc[v], response[v]>>
        BY <1>2, <2>1, Zenon DEF Claims, Claiming
    <2>4. ASSUME ~Overwritten(n)
          PROVE  /\ accepted[n] = 0 /\ status[n] = "SENDING"
                 /\ \A v \in Workers : Claims(v, n) => v = w
        <3>1. accepted[n] = 0
            BY <2>1, <2>2, <2>4 DEF AcceptInv, NotYetAccepted
        <3>2. ExclusiveSend
            BY Zenon DEF IInv
        <3> QED
            BY <2>2, <2>4, <3>1, <3>2, Zenon DEF ExclusiveSend
    <2>5. ASSUME NEW m \in Notifications, ~Overwritten(m)', m = n
          PROVE  /\ accepted'[m] > 0 => accepted'[m] = 1 /\ status'[m] \in {"SENDING", "SENT"}
                 /\ NotYetAccepted(m)'
        <3>1. accepted'[n] = IF r \in Accepted THEN 1 ELSE 0
            BY <1>1, <1>2, <2>1, <2>2, <2>4, <2>5
        <3>2. pc'[w] = "record" /\ response'[w] = r
            BY <1>2, <2>1, Zenon
        <3>3. ~Overwritten(n) /\ status'[n] = "SENDING"
            BY <1>1, <2>1, <2>2, <2>4, <2>5, Zenon
        <3>4. \A v \in Workers : Claims(v, m)' => v = w
            BY <2>3, <2>4, <2>5, <3>3, Zenon
        <3> QED
            BY <2>5, <3>1, <3>2, <3>3, <3>4 DEF NotYetAccepted, Workers
    <2>6. ASSUME NEW m \in Notifications, ~Overwritten(m)', m # n
          PROVE  /\ accepted'[m] > 0 => accepted'[m] = 1 /\ status'[m] \in {"SENDING", "SENT"}
                 /\ NotYetAccepted(m)'
        <3>1. accepted'[m] = accepted[m]
            BY <1>2, <2>1, <2>6, Zenon
        <3>2. ~Claims(w, m)'
            BY <2>1, <2>6 DEF Claims
        <3> QED
            BY <1>1, <2>1, <2>3, <2>6, <3>1, <3>2, Zenon DEF AcceptInv, NotYetAccepted, Workers
    <2> QED
        BY <2>5, <2>6, ZenonT(30) DEF AcceptInv
<1>5. CASE Receive(w) \/ Send(w) \/ WaitFails(w) \/ ChannelLost(w)
    <2>1. UNCHANGED <<status, response, accepted>>
        BY <1>5, Zenon DEF Receive, Send, WaitFails, ChannelLost, repoVars, workerVars, sendHistory
    <2>2. \A v \in Workers, m \in Notifications : Claims(v, m)' =>
            /\ Claims(v, m)
            /\ pc'[v] \in {"limit", "send"} => pc[v] \in {"limit", "send"}
        <3>1. CASE Receive(w)
            <4>1. pc' = [pc EXCEPT ![w] = "lock"] /\ \A v \in Workers \ {w} : job'[v] = job[v]
                BY <1>2, <3>1 DEF Receive, GoTo
            <4> QED
                BY <1>2, <4>1, Zenon DEF Claims, Claiming
        <3>2. CASE Send(w) \/ WaitFails(w) \/ ChannelLost(w)
            <4>1. /\ UNCHANGED job
                  /\ \/ UNCHANGED pc
                     \/ /\ pc[w] = "limit"
                        /\ \E label \in {"send", "nack"} : pc' = [pc EXCEPT ![w] = label]
                BY <3>2, Zenon DEF Send, WaitFails, ChannelLost, GoTo, workerVars
            <4> QED
                BY <1>2, <4>1, Zenon DEF Claims, Claiming
        <3> QED
            BY <1>5, <3>1, <3>2, ZenonT(30)
    <2> QED
        BY <1>1, <2>1, <2>2, ZenonT(30) DEF AcceptInv, NotYetAccepted, Workers
<1>6. CASE Acknowledge(w) \/ Reject(w)
    <2>1. /\ UNCHANGED <<status, accepted>>
          /\ \A v \in Workers : pc'[v] = "idle" \/ UNCHANGED <<pc[v], job[v], response[v]>>
        BY <1>2, <1>6 DEF Acknowledge, Reject, Done, GoTo, repoVars, sendHistory
    <2> QED
        BY <1>1, <2>1, AcceptFrame, Zenon
<1>7. ASSUME NEW applied \in BOOLEAN, NEW replied \in BOOLEAN,
             RecordAttempt(w, applied, replied) \/ SetID(w, applied, replied)
      PROVE  AcceptInv'
    <2>1. /\ UNCHANGED <<status, job, response, accepted>>
          /\ pc[w] \in {"record", "setid"}
          /\ \E label \in {"nack", "setid", "settle"} : pc' = [pc EXCEPT ![w] = label]
        BY <1>7, ZenonT(30)
        DEF RecordAttempt, SetID, CreateAttempt, SetProviderMessageID, GoTo, repoVars,
            sendHistory
    <2>2. \A v \in Workers, m \in Notifications : Claims(v, m)' =>
                /\ Claims(v, m)
                /\ pc'[v] \in {"limit", "send"} => pc[v] \in {"limit", "send"}
        BY <1>2, <2>1 DEF Claims, Claiming
    <2> QED
        BY <1>1, <2>1, <2>2, ZenonT(30) DEF AcceptInv, NotYetAccepted, Workers
<1>8. ASSUME NEW applied \in BOOLEAN, NEW replied \in BOOLEAN,
             \/ MarkSent(w, applied, replied) \/ ScheduleRetry(w, applied, replied)
             \/ MarkFailed(w, applied, replied)
      PROVE  AcceptInv'
    <2>1. /\ UNCHANGED <<job, response, accepted>>
          /\ pc[w] = "settle"
          /\ \E label \in {"ack", "nack"} : pc' = [pc EXCEPT ![w] = label]
          /\ \/ UNCHANGED status
             \/ status' = [status EXCEPT ![n] = "SENT"]
             \/ response[w] \notin Accepted /\ \E x : status' = [status EXCEPT ![n] = x]
        BY <1>8, ZenonT(30) DEF MarkSent, ScheduleRetry, MarkFailed, Settle, GoTo, UpdateStatus,
            UpdateStatusWithRetry, repoVars, sendHistory
    <2>2. \A v \in Workers, m \in Notifications : Claims(v, m)' =>
                Claims(v, m) /\ pc'[v] = pc[v]
        BY <1>2, <2>1 DEF Claims, Claiming
    <2>3. n \in Notifications /\ Claims(w, n)
        BY <1>2, <2>1, Zenon DEF Claims, Claiming
    <2>4. \A m \in Notifications : accepted[m] > 0 /\ ~Overwritten(m) =>
            status'[m] \in {"SENDING", "SENT"}
        BY <1>2, <2>1, <2>3 DEF AcceptInv, NotYetAccepted
    <2> QED
        BY <1>1, <2>1, <2>2, <2>4, ZenonT(30) DEF AcceptInv, NotYetAccepted, Workers
<1> QED
    BY <1>3, <1>4, <1>5, <1>6, <1>7, <1>8, Zenon DEF WorkerStep

\* Once the provider has accepted a notification no worker sends it again,
\* whatever processMessage fails to write afterwards: the row it left in
\* SENDING cannot be claimed.
THEOREM NothingSentTwice == Spec => []AcceptedOnce
<1>1. Init => AcceptInv
    BY DEF Init, WorkerInit, AcceptInv, NotYetAccepted, Claims, Claiming
<1>2. IInv /\ AcceptInv /\ [Next]_vars => AcceptInv'
    BY AcceptService, AcceptOthers, AcceptWorker, Zenon DEF Next, WorkerNext
<1>3. AcceptInv => AcceptedOnce
    BY DEF AcceptInv, AcceptedOnce
<1> QED
    BY <1>1, <1>2, <1>3, Invariance, InitInv, NextInv, PTL DEF Spec

-------------------------------------------------------------------------------
(* What Create's overwrite of a row costs.                                 *)

\* A turn is a chance to send n: the row's own while it can be claimed (0),
\* then the worker's that claims it.  Create's overwrite can add one turn to
\* the one there is, and nothing adds a third.
Turns == Workers \cup {0}

\* Slot 0 is the row's, every other its worker's.
HasTurn(n, x) == IF x = 0 THEN Claimable(n) ELSE Claims(x, n)

\* The call of this turn is still to come.
Unsent(n, x) == IF x = 0 THEN Claimable(n) ELSE pc[x] = "limit" /\ job[x] = n

\* This turn may end with a retry: UpdateStatusWithRetry, and a new turn.
MayRetry(n, x) ==
    /\ HasTurn(n, x)
    /\ (IF x = 0 THEN attemptCount[n] + 1 ELSE attemptNumber[x]) < maxRetries[n]

\* What at most two turns can still cost: a call for each that has none yet,
\* a count for each that may end with a retry.
Cost(n) ==
    /\ \A x, y, z \in Turns :
        HasTurn(n, x) /\ HasTurn(n, y) /\ HasTurn(n, z) => x = y \/ x = z \/ y = z
    /\ sends[n] <= attemptCount[n] + 2
    /\ \A x \in Turns : Unsent(n, x) => sends[n] <= attemptCount[n] + 1
    /\ \A x, y \in Turns :
        Unsent(n, x) /\ Unsent(n, y) /\ x # y => sends[n] <= attemptCount[n]
    /\ attemptCount[n] <= maxRetries[n]
    /\ \A x \in Turns : MayRetry(n, x) => attemptCount[n] + 1 <= maxRetries[n]
    /\ \A x, y \in Turns :
        MayRetry(n, x) /\ MayRetry(n, y) /\ x # y => attemptCount[n] + 2 <= maxRetries[n]

\* It starts with the overwrite and holds from then on.
CostInv == \A n \in Notifications : Overwritten(n) => Cost(n)

\* Workers are numbered from 1, so slot 0 is nobody's.
LEMMA TurnSlots ==
    /\ 0 \in Turns /\ \A w \in Workers : w # 0 /\ w \in Turns
    /\ \A x \in Turns : x # 0 => x \in Workers
BY BrokerAssumption DEF Turns, Workers

\* Every turn there is after the step was there before, perhaps as another's.
LEMMA CostMoves ==
    ASSUME NEW n \in Notifications, Cost(n),
           UNCHANGED <<sends[n], attemptCount[n], maxRetries[n]>>,
           NEW f \in [Turns -> Turns], \A x, y \in Turns : f[x] = f[y] => x = y,
           \A x \in Turns :
               /\ HasTurn(n, x)' => HasTurn(n, f[x])
               /\ Unsent(n, x)' => Unsent(n, f[x])
               /\ MayRetry(n, x)' => MayRetry(n, f[x])
    PROVE  Cost(n)'
<1>1. Turns' = Turns /\ \A x \in Turns : f[x] \in Turns
    BY Zenon DEF Turns, Workers
<1>2. \A x, y, z \in Turns :
        HasTurn(n, x)' /\ HasTurn(n, y)' /\ HasTurn(n, z)' => x = y \/ x = z \/ y = z
    <2> SUFFICES ASSUME NEW x \in Turns, NEW y \in Turns, NEW z \in Turns,
                        HasTurn(n, x)', HasTurn(n, y)', HasTurn(n, z)'
                 PROVE  x = y \/ x = z \/ y = z
        BY Zenon
    <2>1. HasTurn(n, f[x]) /\ HasTurn(n, f[y]) /\ HasTurn(n, f[z])
        BY Zenon
    <2>2. f[x] = f[y] \/ f[x] = f[z] \/ f[y] = f[z]
        BY <1>1, <2>1, Zenon DEF Cost
    <2> QED
        BY <2>2, Zenon
<1>3. /\ \A x \in Turns : Unsent(n, x)' => sends[n] <= attemptCount[n] + 1
      /\ \A x, y \in Turns :
            Unsent(n, x)' /\ Unsent(n, y)' /\ x # y => sends[n] <= attemptCount[n]
    BY <1>1, Zenon DEF Cost
<1>4. /\ \A x \in Turns : MayRetry(n, x)' => attemptCount[n] + 1 <= maxRetries[n]
      /\ \A x, y \in Turns :
            MayRetry(n, x)' /\ MayRetry(n, y)' /\ x # y => attemptCount[n] + 2 <= maxRetries[n]
    BY <1>1, ZenonT(30) DEF Cost
<1> QED
    BY <1>1, <1>2, <1>3, <1>4, Zenon DEF Cost

\* A step that gives nobody a turn.
LEMMA CostFrame ==
    ASSUME NEW n \in Notifications, Cost(n),
           UNCHANGED <<sends[n], attemptCount[n], maxRetries[n]>>,
           Claimable(n)' => Claimable(n),
           \A w \in Workers :
               Claims(w, n)' =>
                   /\ Claims(w, n) /\ UNCHANGED attemptNumber[w]
                   /\ pc'[w] = "limit" => pc[w] = "limit"
    PROVE  Cost(n)'
<1> DEFINE f == [x \in Turns |-> x]
<1>1. f \in [Turns -> Turns] /\ \A x \in Turns : f[x] = x
    BY Zenon
<1> HIDE DEF f
<1>2. ASSUME NEW x \in Turns
      PROVE  /\ HasTurn(n, x)' => HasTurn(n, x)
             /\ Unsent(n, x)' => Unsent(n, x)
             /\ MayRetry(n, x)' => MayRetry(n, x)
    <2>1. CASE x = 0
        BY <2>1, Zenon DEF HasTurn, Unsent, MayRetry
    <2>2. CASE x # 0
        <3>1. x \in Workers
            BY <1>2, <2>2, Zenon DEF Turns
        <3>2. Unsent(n, x)' => Claims(x, n)'
            BY <2>2, ZenonT(30) DEF Unsent, Claims, Claiming
        <3> QED
            BY <2>2, <3>1, <3>2, Zenon DEF HasTurn, Unsent, MayRetry, Claims
    <2> QED
        BY <2>1, <2>2, Zenon
<1>3. /\ \A x, y \in Turns : f[x] = f[y] => x = y
      /\ \A x \in Turns :
            /\ HasTurn(n, x)' => HasTurn(n, f[x])
            /\ Unsent(n, x)' => Unsent(n, f[x])
            /\ MayRetry(n, x)' => MayRetry(n, f[x])
    BY <1>1, <1>2
<1> QED
    BY <1>1, <1>3, CostMoves

\* Create's overwrite of a row that had at most one turn.
LEMMA CostStarts ==
    ASSUME IInv, AttemptNumberCurrent, NEW n \in Notifications, ~Overwritten(n),
           CallsCounted(n), status[n] # "ABSENT",
           UNCHANGED <<pc, job, attemptNumber, sends, attemptCount, maxRetries>>
    PROVE  Cost(n)'
<1>1. /\ sends[n] \in Nat /\ attemptCount[n] \in Nat /\ maxRetries[n] \in Nat
      /\ attemptNumber \in [Workers -> Nat]
    BY Zenon DEF IInv, TypeOK, RepoTypeOK, WorkerTypeOK
<1>2. Turns' = Turns /\ \A x \in Turns : x # 0 => x \in Workers
    BY Zenon DEF Turns, Workers
<1>3. \A v, w \in Workers : Claims(v, n) /\ Claims(w, n) => v = w
    BY Zenon DEF IInv, ExclusiveSend
<1>4. \A w \in Workers :
        /\ Claims(w, n)' = Claims(w, n)
        /\ Claims(w, n) => attemptNumber[w] = attemptCount[n] + 1
        /\ pc[w] = "limit" /\ job[w] = n => Claims(w, n) /\ sends[n] <= attemptCount[n]
    BY Zenon DEF AttemptNumberCurrent, CallsCounted, Claims, Claiming
<1>5. sends[n] <= attemptCount[n] + 1 /\ attemptCount[n] < maxRetries[n]
    BY Zenon DEF CallsCounted
<1>6. \A x, y, z \in Turns :
        HasTurn(n, x)' /\ HasTurn(n, y)' /\ HasTurn(n, z)' => x = y \/ x = z \/ y = z
    BY <1>2, <1>3, <1>4, Zenon DEF HasTurn
<1>7. \A x, y \in Turns : Unsent(n, x)' /\ Unsent(n, y)' /\ x # y => sends[n] <= attemptCount[n]
    BY <1>2, <1>4, Zenon DEF Unsent
<1>8. \A x \in Turns : MayRetry(n, x)' => attemptCount[n] + 1 < maxRetries[n]
    BY <1>2, <1>4, Zenon DEF MayRetry, HasTurn
<1>9. /\ sends[n] <= attemptCount[n] + 2 /\ attemptCount[n] <= maxRetries[n]
      /\ attemptCount[n] + 1 <= maxRetries[n]
      /\ attemptCount[n] + 1 < maxRetries[n] => attemptCount[n] + 2 <= maxRetries[n]
    BY <1>1, <1>5, Counting, Zenon
<1> QED
    BY <1>2, <1>5, <1>6, <1>7, <1>8, <1>9, Zenon DEF Cost

\* Create and Cancel.
LEMMA CostService ==
    ASSUME IInv, AttemptNumberCurrent, BudgetInv, CostInv, ServiceNext,
           UNCHANGED <<workerVars, sendHistory>>, NEW n \in Notifications, Overwritten(n)'
    PROVE  Cost(n)'
<1>1. /\ status \in [Notifications -> Status \cup {"ABSENT"}]
      /\ maxRetries \in [Notifications -> Nat]
      /\ creator \in [Notifications -> {"idle", "wrote", "overwrote", "returned"} \cup Creating]
    BY Zenon DEF IInv, TypeOK, RepoTypeOK, ServiceTypeOK
<1>2. UNCHANGED <<pc, job, attemptNumber, sends>>
    BY Zenon DEF workerVars, sendHistory
<1>3. PICK m \in Notifications :
        \/ \E applied, replied \in BOOLEAN :
            \/ CreateInsert(m, applied, replied)
            \/ CreateMark(m, applied, replied)
            \/ CancelNotification(m, applied, replied)
        \/ CreateDuplicate(m)
        \/ CreateDefer(m)
        \/ \E enqueued, ok \in BOOLEAN : CreatePublish(m, enqueued, ok)
    BY Zenon DEF ServiceNext, CreateStep
<1>4. UNCHANGED attemptCount
    BY <1>3, Zenon
    DEF CreateInsert, CreateMark, CancelNotification, CreateDuplicate, CreateDefer,
        CreatePublish, Create, UpdateStatus, Cancel, repoVars
<1>5. CASE Overwritten(n)
    <2>1. \/ /\ status' = [status EXCEPT ![m] = IF Claimable(m) THEN "CANCELED" ELSE @]
             /\ UNCHANGED maxRetries
          \/ UNCHANGED <<status, maxRetries>>
          \/ /\ creator[m] # "overwrote"
             /\ \E s : status' = [status EXCEPT ![m] = s]
             /\ UNCHANGED maxRetries \/ \E r : maxRetries' = [maxRetries EXCEPT ![m] = r]
        BY <1>3, ZenonT(30)
        DEF CreateInsert, CreateMark, CancelNotification, CreateDuplicate, CreateDefer,
            CreatePublish, Create, UpdateStatus, Cancel, repoVars
    <2>2. maxRetries'[n] = maxRetries[n] /\ (Claimable(n)' => Claimable(n))
        BY <1>1, <1>5, <2>1, Zenon DEF Overwritten, Claimable
    <2> QED
        BY <1>2, <1>4, <1>5, <2>2, CostFrame, Zenon DEF CostInv, Claims
<1>6. CASE ~Overwritten(n)
    <2>1. m = n /\ \E applied, replied \in BOOLEAN : applied /\ CreateMark(m, applied, replied)
        BY <1>1, <1>3, <1>6, Zenon DEF CreateInsert, CreateMark, CancelNotification,
            CreateDuplicate, CreateDefer, CreatePublish, Overwritten
    <2>2. creator[n] \in {"published", "pubfailed"} /\ UNCHANGED maxRetries
        BY <2>1, Zenon DEF CreateMark, UpdateStatus
    <2>3. status[n] # "ABSENT" /\ CallsCounted(n)
        BY <1>6, <2>2, Zenon DEF IInv, RowExists, Creating, BudgetInv
    <2> QED
        BY <1>2, <1>4, <1>6, <2>2, <2>3, CostStarts, Zenon
<1> QED
    BY <1>5, <1>6, Zenon

\* The scans, time and crashes.
LEMMA CostOthers ==
    ASSUME IInv, CostInv,
           SchedulerStep \/ RetryStep \/ TimePasses \/ Crash \/ UNCHANGED vars,
           NEW n \in Notifications, Overwritten(n)'
    PROVE  Cost(n)'
<1>1. status \in [Notifications -> Status \cup {"ABSENT"}]
    BY Zenon DEF IInv, TypeOK, RepoTypeOK
<1>2. UNCHANGED <<attemptCount, maxRetries, sends>>
    BY ZenonT(30) DEF SchedulerStep, SchedulerScan, SchedulerPublish, SchedulerMark,
        MarkQueuedIfAccepted, RetryStep, RetryScan, RetryPublish, RetryClear, ClearNextRetryAt,
        TimePasses, ScheduleFallsDue, RetryFallsDue, Crash, repoVars, sendHistory, vars
<1>3. \/ UNCHANGED status
      \/ status' = [status EXCEPT ![schedCurrent] = IF @ = "ACCEPTED" THEN "QUEUED" ELSE @]
    BY ZenonT(30) DEF SchedulerStep, SchedulerScan, SchedulerPublish, SchedulerMark,
        MarkQueuedIfAccepted, RetryStep, RetryScan, RetryPublish, RetryClear, ClearNextRetryAt,
        TimePasses, ScheduleFallsDue, RetryFallsDue, Crash, repoVars, vars
<1>4. Claimable(n)' => Claimable(n)
    BY <1>1, <1>3, Zenon DEF Claimable
<1>5. CASE SchedulerStep \/ RetryStep \/ TimePasses \/ UNCHANGED vars
    <2>1. UNCHANGED <<creator, pc, job, attemptNumber>>
        BY <1>5, ZenonT(30) DEF SchedulerStep, SchedulerScan, SchedulerPublish, SchedulerMark,
            RetryStep, RetryScan, RetryPublish, RetryClear, TimePasses, serviceVars,
            workerVars, vars
    <2> QED
        BY <1>2, <1>4, <2>1, CostFrame, Zenon DEF CostInv, Claims, Overwritten
<1>6. CASE Crash
    <2>1. /\ \A w \in Workers : pc'[w] = "idle"
          /\ creator'[n] = IF creator[n] \in Creating THEN "returned" ELSE creator[n]
        BY <1>6, Zenon DEF Crash, ServiceCrash, WorkerCrash
    <2> QED
        BY <1>2, <1>4, <2>1, CostFrame, Zenon DEF CostInv, Claims, Claiming, Overwritten
<1> QED
    BY <1>5, <1>6, Zenon

\* LockForSending hands the row's turn to the worker.
LEMMA CostLock ==
    ASSUME IInv, NEW w \in Workers, NEW applied \in BOOLEAN, NEW replied \in BOOLEAN,
           Lock(w, applied, replied), NEW n \in Notifications, Cost(n)
    PROVE  Cost(n)'
<1>1. /\ status \in [Notifications -> Status \cup {"ABSENT"}]
      /\ pc \in [Workers -> Claiming \cup {"idle", "lock", "ack", "nack"}]
      /\ attemptNumber \in [Workers -> Nat]
      /\ pc[w] # "idle" => job[w] \in Notifications
    BY Zenon DEF IInv, TypeOK, RepoTypeOK, WorkerTypeOK
<1>2. PICK m \in Notifications :
        /\ job[w] = m /\ pc[w] = "lock"
        /\ status' = [status EXCEPT ![m] = IF applied /\ Claimable(m) THEN "SENDING" ELSE @]
        /\ pc' = [pc EXCEPT ![w] = IF ~replied THEN "nack"
                                   ELSE IF Claimable(m) THEN "limit" ELSE "ack"]
        /\ attemptNumber' = [attemptNumber EXCEPT
                                ![w] = IF replied /\ Claimable(m) THEN attemptCount[m] + 1 ELSE @]
        /\ replied => applied
        /\ UNCHANGED <<job, sends, attemptCount, maxRetries>>
    BY <1>1, Zenon DEF Lock, LockForSending, Outcome, GoTo, repoVars, sendHistory
<1>3. \A v \in Workers \ {w} : UNCHANGED <<pc[v], job[v], attemptNumber[v]>>
    BY <1>1, <1>2, ZenonT(30)
<1>4. CASE m = n /\ replied /\ Claimable(n)
    <2>1. /\ status'[n] = "SENDING" /\ pc'[w] = "limit" /\ job'[w] = n
          /\ attemptNumber'[w] = attemptCount[n] + 1
        BY <1>1, <1>2, <1>4, Zenon
    <2> DEFINE f == [x \in Turns |-> IF x = w THEN 0 ELSE IF x = 0 THEN w ELSE x]
    <2>2. w # 0 /\ \A x \in Turns : x # 0 => x \in Workers
        BY TurnSlots, Zenon DEF Turns, Workers
    <2>3. /\ f \in [Turns -> Turns] /\ \A x, y \in Turns : f[x] = f[y] => x = y
          /\ f[w] = 0 /\ \A x \in Workers \ {w} : x # 0 => f[x] = x
        BY <2>2, Zenon DEF Turns
    <2> HIDE DEF f
    <2>4. ASSUME NEW x \in Turns
          PROVE  /\ HasTurn(n, x)' => HasTurn(n, f[x])
                 /\ Unsent(n, x)' => Unsent(n, f[x])
                 /\ MayRetry(n, x)' => MayRetry(n, f[x])
        <3>1. CASE x = 0
            BY <2>1, <3>1, Zenon DEF HasTurn, Unsent, MayRetry, Claimable
        <3>2. CASE x = w
            <4>1. HasTurn(n, 0) /\ Unsent(n, 0) /\ (MayRetry(n, w)' => MayRetry(n, 0))
                BY <1>2, <1>4, <2>1, <2>2, Zenon DEF HasTurn, Unsent, MayRetry
            <4> QED
                BY <2>3, <3>2, <4>1, Zenon
        <3>3. CASE x # 0 /\ x # w
            <4>1. f[x] = x /\ x \in Workers \ {w}
                BY <2>2, <2>3, <3>3, Zenon
            <4>2. /\ HasTurn(n, x)' = HasTurn(n, x) /\ Unsent(n, x)' = Unsent(n, x)
                  /\ MayRetry(n, x)' = MayRetry(n, x)
                BY <1>2, <1>3, <3>3, <4>1, Zenon DEF HasTurn, Unsent, MayRetry, Claims
            <4> QED
                BY <4>1, <4>2, Zenon
        <3> QED
            BY <3>1, <3>2, <3>3, Zenon
    <2> QED
        BY <1>2, <2>3, <2>4, CostMoves
<1>5. CASE ~(m = n /\ replied /\ Claimable(n))
    <2>1. Claimable(n)' => Claimable(n)
        BY <1>1, <1>2, Zenon DEF Claimable
    <2>2. Claims(w, n)' => FALSE
        BY <1>1, <1>2, <1>5, Zenon DEF Claims, Claiming
    <2> QED
        BY <1>2, <1>3, <2>1, <2>2, CostFrame, Zenon DEF Claims
<1> QED
    BY <1>4, <1>5, Zenon

\* The call of a turn is made once.
LEMMA CostSend ==
    ASSUME IInv, NEW w \in Workers, Send(w), NEW n \in Notifications, Cost(n)
    PROVE  Cost(n)'
<1>1. /\ pc \in [Workers -> Claiming \cup {"idle", "lock", "ack", "nack"}]
      /\ sends \in [Notifications -> Nat] /\ attemptCount[n] \in Nat
      /\ pc[w] # "idle" => job[w] \in Notifications
    BY Zenon DEF IInv, TypeOK, RepoTypeOK, WorkerTypeOK
<1>2. PICK m \in Notifications :
        /\ job[w] = m /\ pc[w] = "limit"
        /\ sends' = [sends EXCEPT ![m] = @ + 1]
        /\ pc' = [pc EXCEPT ![w] = "send"]
        /\ UNCHANGED <<status, job, attemptNumber, attemptCount, maxRetries>>
    BY <1>1, Zenon DEF Send, GoTo, repoVars
<1>3. pc'[w] = "send" /\ \A v \in Workers \ {w} : pc'[v] = pc[v]
    BY <1>1, <1>2, Zenon
<1>4. CASE m # n
    <2>1. sends'[n] = sends[n]
        BY <1>1, <1>2, <1>4, Zenon
    <2> QED
        BY <1>2, <1>3, <1>4, <2>1, CostFrame, Zenon DEF Claims, Claimable
<1>5. CASE m = n
    <2>1. /\ w # 0 /\ w \in Turns /\ Turns' = Turns
          /\ \A x \in Turns : x # 0 => x \in Workers
        BY TurnSlots, Zenon DEF Turns, Workers
    <2>2. sends'[n] = sends[n] + 1
        BY <1>1, <1>2, <1>5, Zenon
    <2>3. HasTurn(n, w) /\ Unsent(n, w)
        BY <1>2, <1>5, <2>1, Zenon DEF HasTurn, Unsent, Claims, Claiming
    <2>4. ASSUME NEW x \in Turns
          PROVE  /\ HasTurn(n, x)' = HasTurn(n, x)
                 /\ MayRetry(n, x)' = MayRetry(n, x)
                 /\ Unsent(n, x)' => Unsent(n, x) /\ x # w
        <3>1. HasTurn(n, x)' = HasTurn(n, x) /\ (Unsent(n, x)' => Unsent(n, x) /\ x # w)
            BY <1>2, <1>3, <1>5, <2>1, Zenon DEF HasTurn, Unsent, Claims, Claiming, Claimable
        <3> QED
            BY <1>2, <3>1, Zenon DEF MayRetry
    <2>5. sends[n] <= attemptCount[n] + 1
        BY <2>1, <2>3, Zenon DEF Cost
    <2>6. \A x \in Turns : Unsent(n, x)' => sends[n] <= attemptCount[n]
        BY <2>1, <2>3, <2>4, Zenon DEF Cost
    <2>7. \A x, y \in Turns : ~(Unsent(n, x)' /\ Unsent(n, y)' /\ x # y)
        <3>1. \A x \in Turns : Unsent(n, x) => HasTurn(n, x)
            BY Zenon DEF Unsent, HasTurn, Claims, Claiming
        <3> QED
            BY <2>1, <2>3, <2>4, <3>1, Zenon DEF Cost
    <2>8. /\ sends'[n] <= attemptCount[n] + 2
          /\ sends[n] <= attemptCount[n] => sends'[n] <= attemptCount[n] + 1
        <3>1. sends[n] \in Nat /\ attemptCount[n] \in Nat
            BY <1>1, Zenon
        <3>2. /\ sends[n] + 1 <= attemptCount[n] + 2
              /\ sends[n] <= attemptCount[n] => sends[n] + 1 <= attemptCount[n] + 1
            BY <2>5, <3>1, Counting, Zenon
        <3> QED
            BY <2>2, <3>2, Zenon
    <2> QED
        BY <1>2, <2>1, <2>4, <2>6, <2>7, <2>8, Zenon DEF Cost
<1> QED
    BY <1>4, <1>5, Zenon

\* A retry gives the worker's turn back to the row and counts one attempt.
LEMMA CostRetry ==
    ASSUME IInv, NEW w \in Workers, NEW replied \in BOOLEAN, ScheduleRetry(w, TRUE, replied),
           NEW n \in Notifications, job[w] = n, Cost(n)
    PROVE  Cost(n)'
<1>1. /\ pc \in [Workers -> Claiming \cup {"idle", "lock", "ack", "nack"}]
      /\ status \in [Notifications -> Status \cup {"ABSENT"}]
      /\ attemptCount \in [Notifications -> Nat]
      /\ attemptNumber[w] \in Nat /\ sends[n] \in Nat /\ maxRetries[n] \in Nat
    BY Zenon DEF IInv, TypeOK, RepoTypeOK, WorkerTypeOK
<1>2. /\ pc[w] = "settle" /\ attemptNumber[w] < EffectiveRetries(maxRetries[n])
      /\ status' = [status EXCEPT ![n] = "QUEUED"]
      /\ attemptCount' = [attemptCount EXCEPT ![n] = @ + 1]
      /\ \E l \in {"ack", "nack"} : pc' = [pc EXCEPT ![w] = l]
      /\ UNCHANGED <<job, attemptNumber, sends, maxRetries>>
    BY Zenon DEF ScheduleRetry, Settle, CanRetry, UpdateStatusWithRetry, GoTo, sendHistory
<1>3. /\ pc'[w] \notin Claiming /\ \A v \in Workers \ {w} : pc'[v] = pc[v]
      /\ attemptCount'[n] = attemptCount[n] + 1
      /\ Claims(w, n)
    BY <1>1, <1>2, Zenon DEF Claims, Claiming
<1>4. attemptNumber[w] < maxRetries[n]
    <2>1. maxRetries[n] > 0
        <3>1. status[n] # "ABSENT"
            BY <1>3, ClaimedRowExists, Zenon DEF IInv
        <3> QED
            BY <3>1, Zenon DEF IInv, TypeOK, RepoTypeOK
    <2> QED
        BY <1>1, <1>2, <2>1, Counting, Zenon DEF EffectiveRetries
<1>5. /\ w # 0 /\ w \in Turns /\ 0 \in Turns /\ Turns' = Turns
      /\ \A x \in Turns : x # 0 => x \in Workers
    BY TurnSlots, Zenon DEF Turns, Workers
<1>6. HasTurn(n, w) /\ MayRetry(n, w)
    BY <1>3, <1>4, <1>5, Zenon DEF HasTurn, MayRetry
<1>7. ASSUME NEW x \in Turns, x # 0
      PROVE  /\ HasTurn(n, x)' => HasTurn(n, x) /\ x # w
             /\ Unsent(n, x)' => Unsent(n, x) /\ x # w
             /\ MayRetry(n, x)' => MayRetry(n, x) /\ x # w
    <2>1. HasTurn(n, x)' => HasTurn(n, x) /\ x # w
        BY <1>2, <1>3, <1>5, <1>7, Zenon DEF HasTurn, Claims
    <2>2. Unsent(n, x)' => Unsent(n, x) /\ x # w
        BY <1>2, <1>3, <1>5, <1>7, Zenon DEF Unsent, Claiming
    <2>3. MayRetry(n, x)' => MayRetry(n, x) /\ x # w
        BY <1>2, <1>7, <2>1, Zenon DEF MayRetry
    <2> QED
        BY <2>1, <2>2, <2>3, Zenon
<1>8. \A x, y, z \in Turns :
        HasTurn(n, x)' /\ HasTurn(n, y)' /\ HasTurn(n, z)' => x = y \/ x = z \/ y = z
    <2>1. ASSUME NEW x \in Turns, NEW y \in Turns, x # 0, y # 0, x # y
          PROVE  ~(HasTurn(n, x)' /\ HasTurn(n, y)')
        BY <1>5, <1>6, <1>7, <2>1, ZenonT(30) DEF Cost
    <2> QED
        BY <2>1, Zenon
<1>9. /\ sends[n] <= attemptCount'[n] + 1
      /\ sends[n] <= attemptCount'[n] + 2
    BY <1>1, <1>3, Counting, Zenon DEF Cost
<1>10. \A x, y \in Turns : Unsent(n, x)' /\ Unsent(n, y)' /\ x # y => sends[n] <= attemptCount'[n]
    <2>1. ASSUME NEW x \in Turns, x # 0, Unsent(n, x)' PROVE sends[n] <= attemptCount[n] + 1
        BY <1>7, <2>1, Zenon DEF Cost
    <2> QED
        BY <1>3, <2>1, Zenon
<1>11. attemptCount'[n] <= maxRetries[n]
    BY <1>3, <1>5, <1>6, ZenonT(30) DEF Cost
<1>12. ASSUME NEW x \in Turns, x # 0, MayRetry(n, x)' PROVE attemptCount'[n] + 1 <= maxRetries[n]
    <2>1. attemptCount[n] + 2 <= maxRetries[n]
        BY <1>5, <1>6, <1>7, <1>12, ZenonT(30) DEF Cost
    <2> QED
        BY <1>1, <1>3, <2>1, Counting, Zenon
<1>13. MayRetry(n, 0)' => attemptCount'[n] + 2 <= maxRetries[n]
    <2>1. MayRetry(n, 0)' => attemptCount'[n] + 1 < maxRetries[n]
        BY <1>2, Zenon DEF MayRetry
    <2> QED
        BY <1>1, <1>3, <2>1, Counting, Zenon
<1>14. attemptCount'[n] + 2 <= maxRetries[n] => attemptCount'[n] + 1 <= maxRetries[n]
    BY <1>1, <1>3, Counting, Zenon
<1>15. ASSUME NEW x \in Turns, NEW y \in Turns, x # 0, y # 0, x # y
       PROVE  ~(MayRetry(n, x)' /\ MayRetry(n, y)')
    <2>1. \A z \in Turns : MayRetry(n, z) => HasTurn(n, z)
        BY Zenon DEF MayRetry
    <2> QED
        BY <1>5, <1>6, <1>7, <1>15, <2>1, Zenon DEF Cost
<1>16. /\ \A x \in Turns : MayRetry(n, x)' => attemptCount'[n] + 1 <= maxRetries[n]
       /\ \A x, y \in Turns :
            MayRetry(n, x)' /\ MayRetry(n, y)' /\ x # y => attemptCount'[n] + 2 <= maxRetries[n]
    BY <1>12, <1>13, <1>14, <1>15, Zenon
<1> QED
    BY <1>2, <1>5, <1>8, <1>9, <1>10, <1>11, <1>16, Zenon DEF Cost

\* The other steps of the workers take turns away or leave them alone.
LEMMA CostWorker ==
    ASSUME IInv, NEW w \in Workers, WorkerStep(w) \/ ChannelLost(w),
           NEW n \in Notifications, Cost(n)
    PROVE  Cost(n)'
<1>1. /\ pc \in [Workers -> Claiming \cup {"idle", "lock", "ack", "nack"}]
      /\ status \in [Notifications -> Status \cup {"ABSENT"}]
      /\ attemptCount \in [Notifications -> Nat]
      /\ attemptNumber \in [Workers -> Nat]
      /\ job \in [Workers -> Notifications \cup {None}]
    BY Zenon DEF IInv, TypeOK, RepoTypeOK, WorkerTypeOK
<1>2. CASE \/ Receive(w) \/ WaitFails(w) \/ SendReturns(w) \/ ChannelLost(w)
           \/ Acknowledge(w) \/ Reject(w)
    <2>1. UNCHANGED <<status, attemptCount, maxRetries, sends>>
        BY <1>2, Zenon DEF Receive, WaitFails, SendReturns, ChannelLost, Acknowledge, Reject,
            Done, repoVars, sendHistory
    <2>2. \A v \in Workers : pc'[v] \in Claiming =>
            /\ pc[v] \in Claiming /\ UNCHANGED <<job[v], attemptNumber[v]>>
            /\ pc'[v] = "limit" => pc[v] = "limit"
        <3>1. CASE Receive(w)
            BY <1>1, <3>1, Zenon DEF Receive, GoTo, Claiming
        <3>2. CASE WaitFails(w) \/ SendReturns(w)
            BY <1>1, <3>2, Zenon DEF WaitFails, SendReturns, GoTo, Claiming
        <3>3. CASE ChannelLost(w)
            BY <3>3, Zenon DEF ChannelLost, workerVars
        <3>4. CASE Acknowledge(w) \/ Reject(w)
            BY <1>1, <3>4, Zenon DEF Acknowledge, Reject, Done, GoTo, Claiming
        <3> QED
            BY <1>2, <3>1, <3>2, <3>3, <3>4, Zenon
    <2> QED
        BY <2>1, <2>2, CostFrame, Zenon DEF Claims, Claimable
<1>3. ASSUME NEW applied \in BOOLEAN, NEW replied \in BOOLEAN,
             \/ RecordAttempt(w, applied, replied) \/ SetID(w, applied, replied)
             \/ MarkSent(w, applied, replied) \/ MarkFailed(w, applied, replied)
             \/ ScheduleRetry(w, applied, replied) /\ ~(applied /\ job[w] = n)
      PROVE  Cost(n)'
    <2>1. /\ UNCHANGED <<job, attemptNumber, maxRetries, sends>>
          /\ pc[w] \in Claiming
          /\ \E l \in {"setid", "settle", "ack", "nack"} : pc' = [pc EXCEPT ![w] = l]
        BY <1>3, ZenonT(30) DEF RecordAttempt, SetID, MarkSent, MarkFailed, ScheduleRetry, Settle,
            GoTo, CreateAttempt, SetProviderMessageID, UpdateStatus, UpdateStatusWithRetry,
            repoVars, sendHistory, Claiming
    <2>2. \A v \in Workers : pc'[v] \in Claiming =>
            pc[v] \in Claiming /\ (pc'[v] = "limit" => pc[v] = "limit")
        BY <1>1, <2>1, Zenon
    <2>3. attemptCount'[n] = attemptCount[n] /\ (Claimable(n)' => Claimable(n))
        <3>1. CASE RecordAttempt(w, applied, replied) \/ SetID(w, applied, replied)
            BY <3>1, Zenon DEF RecordAttempt, SetID, CreateAttempt, SetProviderMessageID,
                repoVars, Claimable
        <3>2. CASE MarkSent(w, applied, replied) \/ MarkFailed(w, applied, replied)
            BY <1>1, <3>2, Zenon DEF MarkSent, MarkFailed, UpdateStatus, repoVars, Claimable
        <3>3. CASE ScheduleRetry(w, applied, replied) /\ ~(applied /\ job[w] = n)
            BY <1>1, <3>3, Zenon DEF ScheduleRetry, UpdateStatusWithRetry, repoVars, Claimable
        <3> QED
            BY <1>3, <3>1, <3>2, <3>3, Zenon
    <2> QED
        BY <2>1, <2>2, <2>3, CostFrame, Zenon DEF Claims
<1>4. ASSUME NEW replied \in BOOLEAN, ScheduleRetry(w, TRUE, replied), job[w] = n
      PROVE  Cost(n)'
    BY <1>4, CostRetry, Zenon
<1>5. CASE Send(w)
    BY <1>5, CostSend, Zenon
<1>6. ASSUME NEW applied \in BOOLEAN, NEW replied \in BOOLEAN, Lock(w, applied, replied)
      PROVE  Cost(n)'
    BY <1>6, CostLock, Zenon
<1>7. ASSUME NEW applied \in BOOLEAN, NEW replied \in BOOLEAN, ScheduleRetry(w, applied, replied)
      PROVE  Cost(n)'
    BY <1>3, <1>4, <1>7, Zenon
<1> QED
    BY <1>2, <1>3, <1>5, <1>6, <1>7, Zenon DEF WorkerStep

\* Create's overwrite of a row costs at most two calls beyond max_retries,
\* however many workers, deliveries and failures follow it.
THEOREM OverwriteIsBounded == Spec => []OverwriteCost
<1> DEFINE Strong == IInv /\ AttemptNumberCurrent
<1>1. Init => BudgetInv /\ CostInv
    BY DEF Init, RepoInit, ServiceInit, WorkerInit, BudgetInv, CallsCounted, Claimable,
        CostInv, Overwritten
<1>2. Strong /\ Strong' /\ BudgetInv /\ [Next]_vars => BudgetInv'
    BY CallsStayCounted, Zenon
<1>3. ASSUME Strong, BudgetInv, CostInv, [Next]_vars
      PROVE  CostInv'
    <2> SUFFICES ASSUME NEW n \in Notifications, Overwritten(n)' PROVE Cost(n)'
        BY Zenon DEF CostInv
    <2>1. CASE ServiceNext /\ UNCHANGED <<workerVars, sendHistory, schedVars, retryVars>>
        BY <1>3, <2>1, CostService, Zenon
    <2>2. CASE WorkerNext
        <3>1. PICK w \in Workers : WorkerStep(w) \/ ChannelLost(w)
            BY <2>2, Zenon DEF WorkerNext
        <3>2. Cost(n)
            BY <1>3, <3>1, WorkerLeavesService, Zenon DEF CostInv, Overwritten, serviceVars
        <3> QED
            BY <1>3, <3>1, <3>2, CostWorker, Zenon
    <2>3. CASE SchedulerStep \/ RetryStep \/ TimePasses \/ Crash \/ UNCHANGED vars
        BY <1>3, <2>3, CostOthers, Zenon
    <2> QED
        BY <1>3, <2>1, <2>2, <2>3, Zenon DEF Next
<1>4. ASSUME Strong, CostInv PROVE OverwriteCost
    <2> SUFFICES ASSUME NEW n \in Notifications, Cost(n)
                 PROVE  sends[n] <= maxRetries[n] + 2
        BY <1>4, Zenon DEF CostInv, OverwriteCost
    <2>1. sends[n] \in Nat /\ attemptCount[n] \in Nat /\ maxRetries[n] \in Nat
        BY <1>4, Zenon DEF IInv, TypeOK, WorkerTypeOK, RepoTypeOK
    <2>2. sends[n] <= attemptCount[n] + 2 /\ attemptCount[n] <= maxRetries[n]
        BY Zenon DEF Cost
    <2> QED
        BY <2>1, <2>2, Counting, Zenon
<1>5. Spec => []Strong
    BY AttemptNumberInvariant, Zenon
<1> QED
    BY <1>1, <1>2, <1>3, <1>4, <1>5, PTL DEF Spec

===============================================================================
