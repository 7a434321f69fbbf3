------------------------------ MODULE RetryScanner ------------------------------
(***************************************************************************)
(* RetryScanner.scanDue: read up to RetryLimit rows that are QUEUED and    *)
(* whose next_retry_at has passed, then publish each and set its           *)
(* next_retry_at to NULL, whatever it is by then.                          *)
(***************************************************************************)
EXTENDS Scheduler

CONSTANT RetryLimit         \* the limit given to NewRetryScanner

ASSUME RetryAssumption == RetryLimit \in Nat \ {0}

VARIABLES
    retryTodo,          \* rows of the current scan that are still to come
    retryCurrent        \* the row that is published and not yet cleared

retryVars == <<retryTodo, retryCurrent>>

RetryTypeOK ==
    /\ retryTodo \subseteq Notifications
    /\ retryCurrent \in Notifications \cup {None}

RetryInit == retryTodo = {} /\ retryCurrent = None

\* A scan that fails, or finds nothing, changes nothing.
RetryScan ==
    /\ retryTodo = {} /\ retryCurrent = None
    /\ DueForRetry # {}
    /\ retryTodo' \in FirstRows(DueForRetry, RetryLimit)
    /\ UNCHANGED <<repoVars, brokerVars, serviceVars, workerVars, sendHistory,
                   schedVars, retryCurrent, faults>>

\* After a failed Publish the loop continues with the next row.
RetryPublish(n, enqueued, ok) ==
    /\ retryCurrent = None
    /\ n \in retryTodo
    /\ Publish(n, enqueued, ok)
    /\ retryTodo' = retryTodo \ {n}
    /\ retryCurrent' = IF ok THEN n ELSE None
    /\ UNCHANGED <<repoVars, serviceVars, workerVars, sendHistory, schedVars>>

RetryClear(applied, replied) ==
    /\ retryCurrent # None
    /\ Outcome(applied, replied)
    /\ IF applied THEN ClearNextRetryAt(retryCurrent) ELSE UNCHANGED repoVars
    /\ retryCurrent' = None
    /\ UNCHANGED <<brokerVars, serviceVars, workerVars, sendHistory, schedVars, retryTodo>>

RetryStep ==
    \/ RetryScan
    \/ \E n \in Notifications, enqueued, ok \in BOOLEAN : RetryPublish(n, enqueued, ok)
    \/ \E applied, replied \in BOOLEAN : RetryClear(applied, replied)

===============================================================================
