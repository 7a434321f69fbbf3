------------------------------- MODULE Scheduler -------------------------------
(***************************************************************************)
(* Scheduler.scanDue: read up to SchedulerLimit rows that are ACCEPTED and *)
(* due, then publish each and mark it QUEUED if it still is ACCEPTED.  The *)
(* rows are a snapshot: what other processes do meanwhile is not seen.     *)
(***************************************************************************)
EXTENDS WorkerService

CONSTANT SchedulerLimit     \* the limit given to NewScheduler

ASSUME SchedulerAssumption == SchedulerLimit \in Nat \ {0}

VARIABLES
    schedTodo,          \* rows of the current scan that are still to come
    schedCurrent        \* the row that is published and not yet marked

schedVars == <<schedTodo, schedCurrent>>

SchedulerTypeOK ==
    /\ schedTodo \subseteq Notifications
    /\ schedCurrent \in Notifications \cup {None}

SchedulerInit == schedTodo = {} /\ schedCurrent = None

\* What a query with ORDER BY a timestamp and LIMIT may return: the
\* timestamps are abstracted, so any of the due rows may come first.
FirstRows(due, limit) ==
    {S \in SUBSET due : Cardinality(S) = IF Cardinality(due) < limit
                                         THEN Cardinality(due) ELSE limit}

\* A scan that fails, or finds nothing, changes nothing.
SchedulerScan ==
    /\ schedTodo = {} /\ schedCurrent = None
    /\ DueForSchedule # {}
    /\ schedTodo' \in FirstRows(DueForSchedule, SchedulerLimit)
    /\ UNCHANGED <<repoVars, brokerVars, serviceVars, workerVars, sendHistory,
                   schedCurrent, faults>>

\* After a failed Publish the loop continues with the next row.
SchedulerPublish(n, enqueued, ok) ==
    /\ schedCurrent = None
    /\ n \in schedTodo
    /\ Publish(n, enqueued, ok)
    /\ schedTodo' = schedTodo \ {n}
    /\ schedCurrent' = IF ok THEN n ELSE None
    /\ UNCHANGED <<repoVars, serviceVars, workerVars, sendHistory>>

SchedulerMark(applied, replied) ==
    /\ schedCurrent # None
    /\ Outcome(applied, replied)
    /\ IF applied THEN MarkQueuedIfAccepted(schedCurrent) ELSE UNCHANGED repoVars
    /\ schedCurrent' = None
    /\ UNCHANGED <<brokerVars, serviceVars, workerVars, sendHistory, schedTodo>>

SchedulerStep ==
    \/ SchedulerScan
    \/ \E n \in Notifications, enqueued, ok \in BOOLEAN : SchedulerPublish(n, enqueued, ok)
    \/ \E applied, replied \in BOOLEAN : SchedulerMark(applied, replied)

===============================================================================
