-------------------------------- MODULE Dispatch --------------------------------
(***************************************************************************)
(* The dispatch engine: create and cancel requests, the workers, the       *)
(* scheduler and the retry scanner, all goroutines of one process, over    *)
(* the notification table and the broker, with failing calls, lost AMQP    *)
(* channels, and crashes of the whole process.                             *)
(***************************************************************************)
EXTENDS RetryScanner

vars == <<repoVars, brokerVars, serviceVars, workerVars, sendHistory,
          schedVars, retryVars, faults>>

TypeOK ==
    /\ RepoTypeOK
    /\ BrokerTypeOK
    /\ ServiceTypeOK
    /\ WorkerTypeOK
    /\ SchedulerTypeOK
    /\ RetryTypeOK
    /\ faults \in 0..MaxFaults

Init ==
    /\ RepoInit
    /\ BrokerInit
    /\ ServiceInit
    /\ WorkerInit
    /\ SchedulerInit
    /\ RetryInit
    /\ faults = 0

TimePasses ==
    /\ \E n \in Notifications : ScheduleFallsDue(n) \/ RetryFallsDue(n)
    /\ UNCHANGED <<brokerVars, serviceVars, workerVars, sendHistory,
                   schedVars, retryVars, faults>>

\* The process dies and is started again: what it held in memory is lost,
\* the rows stay, and the broker requeues every unacknowledged message.
Crash ==
    /\ Fault
    /\ RequeueAll
    /\ ServiceCrash
    /\ WorkerCrash
    /\ schedTodo' = {} /\ schedCurrent' = None
    /\ retryTodo' = {} /\ retryCurrent' = None
    /\ UNCHANGED <<repoVars, cancelAcked, sendHistory>>

Next ==
    \/ ServiceNext /\ UNCHANGED <<workerVars, sendHistory, schedVars, retryVars>>
    \/ WorkerNext /\ UNCHANGED <<schedVars, retryVars>>
    \/ SchedulerStep /\ UNCHANGED retryVars
    \/ RetryStep
    \/ TimePasses
    \/ Crash

Spec == Init /\ [][Next]_vars

(***************************************************************************)
(* Every goroutine that can go on does so in the end.  Create handlers,    *)
(* workers and scans are runnable goroutines; the tickers fire again and   *)
(* again; RabbitMQ delivers a ready message to an idle consumer; the HTTP  *)
(* client of the provider has a timeout; rateLimiter.Wait ends with the    *)
(* second; and time passes.  Requests, cancels and failures owe nothing.   *)
(***************************************************************************)
Fairness ==
    /\ \A n \in Notifications :
        WF_vars(CreateStep(n) /\ UNCHANGED <<workerVars, sendHistory, schedVars, retryVars>>)
    /\ \A w \in Workers : WF_vars(WorkerStep(w) /\ UNCHANGED <<schedVars, retryVars>>)
    /\ WF_vars(SchedulerStep /\ UNCHANGED retryVars)
    /\ WF_vars(RetryStep)
    /\ WF_vars(TimePasses)

FairSpec == Spec /\ Fairness

-------------------------------------------------------------------------------
(* Safety.  Most of what the table promises about n holds unless Create's  *)
(* own last UpdateStatus on n, which looks at no status, came so late that *)
(* it replaced what a worker or a cancel had written.                      *)

Overwritten(n) == creator[n] = "overwrote"

\* LockForSending hands a notification to one worker at a time, and while a
\* worker holds it nothing else changes its status, whatever duplicates the
\* broker delivers and whatever the scanners publish.
ExclusiveSend ==
    \A n \in Notifications : ~Overwritten(n) =>
        \A v, w \in Workers : Claims(v, n) =>
            status[n] = "SENDING" /\ (Claims(w, n) => v = w)

\* The provider is called for a notification at most max_retries times,
\* counting every delivery, duplicate and restart: the claim and the count of
\* attempts live in the row, never in the message.
AttemptBudget ==
    \A n \in Notifications : ~Overwritten(n) => sends[n] <= maxRetries[n]

\* Create's overwrite can put a claimed or settled row back to QUEUED.  It
\* costs at most two calls more: the one it forgets, and the one of the
\* worker that still had the row.
OverwriteCost ==
    \A n \in Notifications : Overwritten(n) => sends[n] <= maxRetries[n] + 2

\* The rows of notification_attempts are numbered 1, 2, 3, ... in the order
\* of the calls, and only the last can be a success: recordAttempt takes its
\* number from the row LockForSending returned.
AttemptLogInOrder ==
    \A n \in Notifications : ~Overwritten(n) =>
        \A i \in 1..Len(attempts[n]) :
            /\ attempts[n][i].number = i
            /\ attempts[n][i].ok => i = Len(attempts[n])

\* Status SENT is never shown without a recorded attempt that succeeded.
SentIsRecorded ==
    \A n \in Notifications : status[n] = "SENT" =>
        \E i \in 1..Len(attempts[n]) : attempts[n][i].ok

\* Once the provider has accepted a notification it is not sent again and
\* ends SENT, or stays SENDING when a later call of processMessage failed.
AcceptedOnce ==
    \A n \in Notifications : ~Overwritten(n) /\ accepted[n] > 0 =>
        accepted[n] = 1 /\ status[n] \in {"SENDING", "SENT"}

\* However often a client repeats a create with the same idempotency key,
\* also after an answer that was lost, the provider accepts one notification
\* for it: the others are answered with the first one's row.
OneDeliveryPerKey ==
    \A m, n \in Notifications :
        /\ idempotencyKey[m] \in Keys /\ idempotencyKey[m] = idempotencyKey[n]
        /\ accepted[m] > 0 /\ accepted[n] > 0
        => m = n

\* A cancel that was answered with success holds: the row stays CANCELED and
\* no worker has it or gets it, though its messages may still be queued.
CancelHolds ==
    \A n \in Notifications : cancelAcked[n] /\ ~Overwritten(n) =>
        status[n] = "CANCELED" /\ \A w \in Workers : ~Claims(w, n)

\* A row in SENDING that no worker has: nothing takes it back to QUEUED.
Orphaned(n) == status[n] = "SENDING" /\ \A w \in Workers : ~Claims(w, n)

\* A row is orphaned by the very step in which its worker fails or dies: not
\* by a redelivery or an overwrite, and not by a failure anywhere else, such
\* as a scan's, a lost AMQP channel or an earlier one of its own.
SendingIsOwned ==
    [][\A n \in Notifications : Orphaned(n)' /\ ~Orphaned(n) =>
        /\ faults' = faults + 1
        /\ \E w \in Workers : job[w] = n /\ pc[w] # pc'[w] /\ pc'[w] \in {"nack", "idle"}]_vars

\* Something in the system will still take the notification further: its
\* Create call, a message for it, a worker, or a scan that will find it.
InHand(n) ==
    \/ creator[n] \in Creating
    \/ ready[n] > 0
    \/ \E w \in Workers : job[w] = n /\ pc[w] # "ack"
    \/ status[n] = "ACCEPTED" /\ scheduledAt[n] # "null"
    \/ status[n] = "QUEUED" /\ nextRetryAt[n] # "null"
    \/ n \in schedTodo \cup retryTodo

Stranded(n) == status[n] \notin Settled \cup {"ABSENT"} /\ ~InHand(n)

\* When nothing fails, a notification is never left behind before the
\* provider was called for it once, unless it was cancelled and Create then
\* wrote QUEUED over the cancellation.
NothingLostBeforeFirstSend ==
    \A n \in Notifications : Stranded(n) =>
        faults > 0 \/ sends[n] > 0 \/ (cancelAcked[n] /\ Overwritten(n))

-------------------------------------------------------------------------------
(* Refinement: the documented lifecycle. *)

phase   == [n \in Notifications |-> IF Overwritten(n) THEN "FREE" ELSE status[n]]
retries == [n \in Notifications |-> IF Overwritten(n) THEN 0 ELSE attemptCount[n]]

Life == INSTANCE Lifecycle WITH phase <- phase, retries <- retries, limit <- maxRetries

\* Every row goes through the lifecycle of Lifecycle.tla: no step of any
\* worker, scan, cancel or restart skips a stage, leaves a final status or
\* retries past max_retries, until Create overwrites the row.
FollowsLifecycle == Life!LifeSpec

-------------------------------------------------------------------------------
(* Liveness, under FairSpec. *)

\* Whatever fails and is redelivered, the queues run empty and the workers
\* come to rest: a message that processMessage keeps refusing is impossible,
\* because a second delivery finds a row it cannot claim and is acknowledged.
QueuesDrain ==
    <>[](/\ \A n \in Notifications : ready[n] = 0
         /\ \A w \in Workers : pc[w] = "idle")

\* A notification whose Create left it to the scheduler is settled in the
\* end: found when due, published, claimed, retried and sent, failed or
\* cancelled.  It is left behind instead only after a failure, or when
\* RetryScanner erased its second or a later retry; a publish that fails or a
\* crash between publish and mark does not keep the scheduler from it.
DeferredSettles ==
    \A n \in Notifications :
        creator[n] = "returned" /\ status[n] # "ABSENT" ~>
            \/ status[n] \in Settled
            \/ Stranded(n) /\ (faults > 0 \/ attemptCount[n] > 1)

-------------------------------------------------------------------------------
(* What the documentation says and the code does not keep. *)

\* docs/ARCHITECTURE.md, lifecycle diagram: no edge leaves SENT, FAILED or
\* CANCELED.  Create's unconditional UpdateStatus draws one.
FinalStatusIsFinal ==
    [][\A n \in Notifications : status[n] \in Settled => status'[n] = status[n]]_vars

\* docs/ARCHITECTURE.md: "LockForSending prevents duplicate concurrent
\* sending for the same notification."
NoConcurrentSending ==
    \A n \in Notifications : \A v, w \in Workers :
        Claims(v, n) /\ Claims(w, n) => v = w

\* docs/ARCHITECTURE.md, Retry Mechanism: "Due notifications are republished
\* to channel queues."  A retry that was scheduled is eventually attempted
\* or made moot by another status; RetryScanner may erase it instead.
RetryIsRepublished ==
    \A n \in Notifications :
        creator[n] = "returned" /\ status[n] = "QUEUED" /\ nextRetryAt[n] # "null"
            ~> status[n] # "QUEUED"

===============================================================================
