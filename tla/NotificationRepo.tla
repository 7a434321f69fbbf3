--------------------------- MODULE NotificationRepo ---------------------------
(***************************************************************************)
(* The tables "notifications" and "notification_attempts" and the          *)
(* statements of GormNotificationRepo and GormAttemptRepo that write them. *)
(* A column that a property tells apart is a variable, indexed by row id.  *)
(* Every statement is a single UPDATE or INSERT and is atomic in           *)
(* PostgreSQL; nothing in the program runs two of them in a transaction.   *)
(*                                                                         *)
(* A timestamp column holds "null", "future" or "due": the code only asks  *)
(* whether it is NULL and whether it is <= now.                            *)
(***************************************************************************)
EXTENDS Failures, Sequences, FiniteSets

CONSTANTS
    Notifications,      \* ids, one per create request
    SupportedChannels,  \* the sequence of channels of package queue
    Keys,               \* idempotency keys
    NoKey               \* the idempotency_key column is NULL

ASSUME RepoAssumption ==
    /\ SupportedChannels \in Seq(STRING)
    /\ Len(SupportedChannels) > 0
    /\ NoKey \notin Keys

VARIABLES
    status, scheduledAt, nextRetryAt, attemptCount, maxRetries,
    channel, idempotencyKey, providerMessageID,
    attempts            \* rows of notification_attempts, in insertion order

repoVars == <<status, scheduledAt, nextRetryAt, attemptCount, maxRetries,
              channel, idempotencyKey, providerMessageID, attempts>>

Status  == {"ACCEPTED", "QUEUED", "SENDING", "SENT", "FAILED", "CANCELED"}
Settled == {"SENT", "FAILED", "CANCELED"}
Instant == {"null", "future", "due"}
Channel == {SupportedChannels[i] : i \in 1..Len(SupportedChannels)}
Attempt == [number : Nat, ok : BOOLEAN]

RepoTypeOK ==
    /\ status \in [Notifications -> Status \cup {"ABSENT"}]
    /\ scheduledAt \in [Notifications -> Instant]
    /\ nextRetryAt \in [Notifications -> Instant]
    /\ attemptCount \in [Notifications -> Nat]
    /\ maxRetries \in [Notifications -> Nat]
    /\ \A n \in Notifications : status[n] # "ABSENT" => maxRetries[n] > 0
    /\ channel \in [Notifications -> Channel]
    /\ idempotencyKey \in [Notifications -> Keys \cup {NoKey}]
    /\ providerMessageID \in [Notifications -> BOOLEAN]
    /\ attempts \in [Notifications -> Seq(Attempt)]

RepoInit ==
    /\ status = [n \in Notifications |-> "ABSENT"]
    /\ scheduledAt = [n \in Notifications |-> "null"]
    /\ nextRetryAt = [n \in Notifications |-> "null"]
    /\ attemptCount = [n \in Notifications |-> 0]
    /\ maxRetries = [n \in Notifications |-> 0]
    /\ channel = [n \in Notifications |-> SupportedChannels[1]]
    /\ idempotencyKey = [n \in Notifications |-> NoKey]
    /\ providerMessageID = [n \in Notifications |-> FALSE]
    /\ attempts = [n \in Notifications |-> << >>]

-------------------------------------------------------------------------------
(* GormNotificationRepo *)

\* Slip: a key is free again once its notification was sent.
KeyTakenUntilSent(k) ==
    /\ k # NoKey
    /\ \E m \in Notifications :
        status[m] \notin {"ABSENT", "SENT"} /\ idempotencyKey[m] = k

\* The unique partial index idx_notifications_idempotency_key.
KeyTaken(k) ==
    /\ k # NoKey
    /\ \E m \in Notifications : status[m] # "ABSENT" /\ idempotencyKey[m] = k

Create(n, c, k, sched, retries) ==
    /\ status' = [status EXCEPT ![n] = "ACCEPTED"]
    /\ channel' = [channel EXCEPT ![n] = c]
    /\ idempotencyKey' = [idempotencyKey EXCEPT ![n] = k]
    /\ scheduledAt' = [scheduledAt EXCEPT ![n] = sched]
    /\ maxRetries' = [maxRetries EXCEPT ![n] = retries]
    /\ UNCHANGED <<nextRetryAt, attemptCount, providerMessageID, attempts>>

\* The WHERE clause names the row only: whatever status it has is overwritten.
UpdateStatus(n, s) ==
    /\ status' = [status EXCEPT ![n] = s]
    /\ UNCHANGED <<scheduledAt, nextRetryAt, attemptCount, maxRetries,
                   channel, idempotencyKey, providerMessageID, attempts>>

\* Slip: the status is missing from the WHERE clause.
MarkQueuedBlindly(n) == UpdateStatus(n, "QUEUED")

MarkQueuedIfAccepted(n) ==
    /\ status' = [status EXCEPT ![n] = IF @ = "ACCEPTED" THEN "QUEUED" ELSE @]
    /\ UNCHANGED <<scheduledAt, nextRetryAt, attemptCount, maxRetries,
                   channel, idempotencyKey, providerMessageID, attempts>>

\* Slip: attempt_count is not incremented.
UpdateStatusWithoutCount(n, s) ==
    /\ status' = [status EXCEPT ![n] = s]
    /\ nextRetryAt' = [nextRetryAt EXCEPT ![n] = "future"]
    /\ UNCHANGED <<scheduledAt, attemptCount, maxRetries, channel,
                   idempotencyKey, providerMessageID, attempts>>

UpdateStatusWithRetry(n, s) ==
    /\ status' = [status EXCEPT ![n] = s]
    /\ nextRetryAt' = [nextRetryAt EXCEPT ![n] = "future"]
    /\ attemptCount' = [attemptCount EXCEPT ![n] = @ + 1]
    /\ UNCHANGED <<scheduledAt, maxRetries, channel, idempotencyKey,
                   providerMessageID, attempts>>

\* Slip: SENDING is claimed again, as if the earlier worker were dead.
ClaimableAgain(n) == status[n] \in {"ACCEPTED", "QUEUED", "SENDING"}

\* The statuses of the WHERE clauses of Cancel and LockForSending.
Claimable(n) == status[n] \in {"ACCEPTED", "QUEUED"}

\* Slip: any row can be cancelled.
CancelBlindly(n) == UpdateStatus(n, "CANCELED")

Cancel(n) ==
    /\ status' = [status EXCEPT ![n] = IF Claimable(n) THEN "CANCELED" ELSE @]
    /\ UNCHANGED <<scheduledAt, nextRetryAt, attemptCount, maxRetries,
                   channel, idempotencyKey, providerMessageID, attempts>>

\* Returns the claimed row when Claimable(n), nil otherwise.
LockForSending(n) ==
    /\ status' = [status EXCEPT ![n] = IF Claimable(n) THEN "SENDING" ELSE @]
    /\ UNCHANGED <<scheduledAt, nextRetryAt, attemptCount, maxRetries,
                   channel, idempotencyKey, providerMessageID, attempts>>

\* Slip: the scan looks for the status of a retry.
DueForScheduleQueued ==
    {n \in Notifications : status[n] = "QUEUED" /\ scheduledAt[n] = "due"}

DueForSchedule ==
    {n \in Notifications : status[n] = "ACCEPTED" /\ scheduledAt[n] = "due"}

DueForRetry ==
    {n \in Notifications : status[n] = "QUEUED" /\ nextRetryAt[n] = "due"}

ClearNextRetryAt(n) ==
    /\ nextRetryAt' = [nextRetryAt EXCEPT ![n] = "null"]
    /\ UNCHANGED <<status, scheduledAt, attemptCount, maxRetries,
                   channel, idempotencyKey, providerMessageID, attempts>>

SetProviderMessageID(n) ==
    /\ providerMessageID' = [providerMessageID EXCEPT ![n] = TRUE]
    /\ UNCHANGED <<status, scheduledAt, nextRetryAt, attemptCount, maxRetries,
                   channel, idempotencyKey, attempts>>

-------------------------------------------------------------------------------
(* GormAttemptRepo *)

CreateAttempt(n, a) ==
    /\ attempts' = [attempts EXCEPT ![n] = Append(@, a)]
    /\ UNCHANGED <<status, scheduledAt, nextRetryAt, attemptCount, maxRetries,
                   channel, idempotencyKey, providerMessageID>>

-------------------------------------------------------------------------------
(* Rows that time alone changes from not yet due to due. *)

ScheduleFallsDue(n) ==
    /\ scheduledAt[n] = "future"
    /\ scheduledAt' = [scheduledAt EXCEPT ![n] = "due"]
    /\ UNCHANGED <<status, nextRetryAt, attemptCount, maxRetries,
                   channel, idempotencyKey, providerMessageID, attempts>>

RetryFallsDue(n) ==
    /\ nextRetryAt[n] = "future"
    /\ nextRetryAt' = [nextRetryAt EXCEPT ![n] = "due"]
    /\ UNCHANGED <<status, scheduledAt, attemptCount, maxRetries,
                   channel, idempotencyKey, providerMessageID, attempts>>

===============================================================================
