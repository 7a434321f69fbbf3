----------------------------- MODULE WorkerService -----------------------------
(***************************************************************************)
(* WorkerService.processMessage run by each consumer goroutine, with the   *)
(* acknowledgement handleDelivery gives when it returns.  pc[w] is the     *)
(* call the worker is about to make or is waiting on:                      *)
(*    "idle"    waiting for a delivery                                     *)
(*    "lock"    LockForSending                                             *)
(*    "limit"   rateLimiter.Wait                                           *)
(*    "send"    provider.Send, the request is on its way                   *)
(*    "record"  recordAttempt                                              *)
(*    "setid"   SetProviderMessageID                                       *)
(*    "settle"  the UpdateStatus or UpdateStatusWithRetry that ends it     *)
(*    "ack"     processMessage returned nil                                *)
(*    "nack"    processMessage returned an error                           *)
(***************************************************************************)
EXTENDS NotificationService

VARIABLES
    pc,
    job,                \* the notification of the delivery being handled
    attemptNumber,      \* AttemptCount of the claimed row, plus one
    response,           \* what provider.Send returned
    sends,              \* history: provider calls made for n
    accepted            \* history: 2xx answers received for n

workerVars == <<pc, job, attemptNumber, response>>
sendHistory == <<sends, accepted>>

\* A worker between a successful LockForSending and its last status update.
Claiming == {"limit", "send", "record", "setid", "settle"}
\* "acceptedWithID": a 2xx answer that carries a message id.
Accepted == {"accepted", "acceptedWithID"}
Response == Accepted \cup {"transient", "permanent"}

WorkerTypeOK ==
    /\ pc \in [Workers -> Claiming \cup {"idle", "lock", "ack", "nack"}]
    /\ job \in [Workers -> Notifications \cup {None}]
    /\ \A w \in Workers : pc[w] # "idle" => job[w] \in Notifications
    /\ attemptNumber \in [Workers -> Nat]
    /\ response \in [Workers -> Response \cup {"none"}]
    /\ sends \in [Notifications -> Nat]
    /\ accepted \in [Notifications -> Nat]

WorkerInit ==
    /\ pc = [w \in Workers |-> "idle"]
    /\ job = [w \in Workers |-> None]
    /\ attemptNumber = [w \in Workers |-> 0]
    /\ response = [w \in Workers |-> "none"]
    /\ sends = [n \in Notifications |-> 0]
    /\ accepted = [n \in Notifications |-> 0]

Claims(w, n) == pc[w] \in Claiming /\ job[w] = n

GoTo(w, label) == pc' = [pc EXCEPT ![w] = label]

-------------------------------------------------------------------------------

Receive(w) ==
    /\ pc[w] = "idle"
    /\ \E n \in Notifications :
        /\ Deliver(w, n)
        /\ job' = [job EXCEPT ![w] = n]
    /\ GoTo(w, "lock")
    /\ UNCHANGED <<repoVars, serviceVars, attemptNumber, response, sendHistory, faults>>

\* Slip: the nil row of a failed claim is not noticed.
LockIgnoringNil(w, applied, replied) ==
    /\ pc[w] = "lock"
    /\ Outcome(applied, replied)
    /\ IF applied THEN LockForSending(job[w]) ELSE UNCHANGED repoVars
    /\ GoTo(w, IF replied THEN "limit" ELSE "nack")
    /\ attemptNumber' = [attemptNumber EXCEPT
                            ![w] = IF replied THEN attemptCount[job[w]] + 1 ELSE @]
    /\ UNCHANGED <<brokerVars, serviceVars, job, response, sendHistory>>

\* A row that cannot be claimed is skipped: acknowledged and left alone.
Lock(w, applied, replied) ==
    LET n == job[w] IN
    /\ pc[w] = "lock"
    /\ Outcome(applied, replied)
    /\ IF applied THEN LockForSending(n) ELSE UNCHANGED repoVars
    /\ GoTo(w, IF ~replied THEN "nack" ELSE IF Claimable(n) THEN "limit" ELSE "ack")
    /\ attemptNumber' = [attemptNumber EXCEPT
                            ![w] = IF replied /\ Claimable(n) THEN attemptCount[n] + 1 ELSE @]
    /\ UNCHANGED <<brokerVars, serviceVars, job, response, sendHistory>>

\* rateLimiter.Wait returned nil, and the request goes out.
Send(w) ==
    /\ pc[w] = "limit"
    /\ sends' = [sends EXCEPT ![job[w]] = @ + 1]
    /\ GoTo(w, "send")
    /\ UNCHANGED <<repoVars, brokerVars, serviceVars, job, attemptNumber,
                   response, accepted, faults>>

\* Redis failed, or the context was cancelled during the wait.
WaitFails(w) ==
    /\ pc[w] = "limit"
    /\ Fault
    /\ GoTo(w, "nack")
    /\ UNCHANGED <<repoVars, brokerVars, serviceVars, job, attemptNumber,
                   response, sendHistory>>

\* provider.Send returned; IsTransient sorts its errors.
SendReturns(w) ==
    /\ pc[w] = "send"
    /\ \E r \in Response :
        /\ response' = [response EXCEPT ![w] = r]
        /\ accepted' = [accepted EXCEPT ![job[w]] = IF r \in Accepted THEN @ + 1 ELSE @]
    /\ GoTo(w, "record")
    /\ UNCHANGED <<repoVars, brokerVars, serviceVars, job, attemptNumber, sends, faults>>

\* Slip: an error of recordAttempt is logged and ignored.
RecordAttemptBestEffort(w, applied, replied) ==
    /\ pc[w] = "record"
    /\ Outcome(applied, replied)
    /\ IF applied
       THEN CreateAttempt(job[w], [number |-> attemptNumber[w],
                                   ok |-> response[w] \in Accepted])
       ELSE UNCHANGED repoVars
    /\ GoTo(w, IF response[w] = "acceptedWithID" THEN "setid" ELSE "settle")
    /\ UNCHANGED <<brokerVars, serviceVars, job, attemptNumber, response, sendHistory>>

RecordAttempt(w, applied, replied) ==
    /\ pc[w] = "record"
    /\ Outcome(applied, replied)
    /\ IF applied
       THEN CreateAttempt(job[w], [number |-> attemptNumber[w],
                                   ok |-> response[w] \in Accepted])
       ELSE UNCHANGED repoVars
    /\ GoTo(w, IF ~replied THEN "nack"
               ELSE IF response[w] = "acceptedWithID" THEN "setid" ELSE "settle")
    /\ UNCHANGED <<brokerVars, serviceVars, job, attemptNumber, response, sendHistory>>

SetID(w, applied, replied) ==
    /\ pc[w] = "setid"
    /\ Outcome(applied, replied)
    /\ IF applied THEN SetProviderMessageID(job[w]) ELSE UNCHANGED repoVars
    /\ GoTo(w, IF replied THEN "settle" ELSE "nack")
    /\ UNCHANGED <<brokerVars, serviceVars, job, attemptNumber, response, sendHistory>>

\* Slip: one attempt too many.
CanRetryOffByOne(w) ==
    /\ response[w] = "transient"
    /\ attemptNumber[w] <= EffectiveRetries(maxRetries[job[w]])

\* max_retries of a row is positive since Create; the worker checks again.
CanRetry(w) ==
    /\ response[w] = "transient"
    /\ attemptNumber[w] < EffectiveRetries(maxRetries[job[w]])

\* The status update that ends processMessage, and its answer to the delivery.
Settle(w, applied, replied) ==
    /\ pc[w] = "settle"
    /\ Outcome(applied, replied)
    /\ GoTo(w, IF replied THEN "ack" ELSE "nack")
    /\ UNCHANGED <<brokerVars, serviceVars, job, attemptNumber, response, sendHistory>>

MarkSent(w, applied, replied) ==
    /\ Settle(w, applied, replied)
    /\ response[w] \in Accepted
    /\ IF applied THEN UpdateStatus(job[w], "SENT") ELSE UNCHANGED repoVars

ScheduleRetry(w, applied, replied) ==
    /\ Settle(w, applied, replied)
    /\ response[w] \notin Accepted
    /\ CanRetry(w)
    /\ IF applied THEN UpdateStatusWithRetry(job[w], "QUEUED") ELSE UNCHANGED repoVars

\* Slip: the exhausted notification is acknowledged without an update.
MarkFailedForgotten(w, applied, replied) ==
    /\ Settle(w, applied, replied)
    /\ response[w] \notin Accepted
    /\ ~CanRetry(w)
    /\ UNCHANGED repoVars

MarkFailed(w, applied, replied) ==
    /\ Settle(w, applied, replied)
    /\ response[w] \notin Accepted
    /\ ~CanRetry(w)
    /\ IF applied THEN UpdateStatus(job[w], "FAILED") ELSE UNCHANGED repoVars

\* The locals of processMessage are gone when it has returned.
Done(w) ==
    /\ GoTo(w, "idle")
    /\ job' = [job EXCEPT ![w] = None]
    /\ attemptNumber' = [attemptNumber EXCEPT ![w] = 0]
    /\ response' = [response EXCEPT ![w] = "none"]
    /\ UNCHANGED <<repoVars, serviceVars, sendHistory, faults>>

Acknowledge(w) == pc[w] = "ack"  /\ Ack(w)     /\ Done(w)
Reject(w)      == pc[w] = "nack" /\ Requeue(w) /\ Done(w)

\* The AMQP channel of w is lost.  The broker requeues what w holds while the
\* handler goes on: it learns of the loss only when it acknowledges.  The
\* channels share one connection; losing it is one such step, and one
\* failure, for every worker that holds a delivery.
ChannelLost(w) ==
    /\ unacked[w] # None
    /\ Fault
    /\ Requeue(w)
    /\ UNCHANGED <<repoVars, serviceVars, workerVars, sendHistory>>

WorkerCrash ==
    /\ pc' = [w \in Workers |-> "idle"]
    /\ job' = [w \in Workers |-> None]
    /\ attemptNumber' = [w \in Workers |-> 0]
    /\ response' = [w \in Workers |-> "none"]

WorkerStep(w) ==
    \/ Receive(w)
    \/ Send(w)
    \/ WaitFails(w)
    \/ SendReturns(w)
    \/ Acknowledge(w)
    \/ Reject(w)
    \/ \E applied, replied \in BOOLEAN :
        \/ Lock(w, applied, replied)
        \/ RecordAttempt(w, applied, replied)
        \/ SetID(w, applied, replied)
        \/ MarkSent(w, applied, replied)
        \/ ScheduleRetry(w, applied, replied)
        \/ MarkFailed(w, applied, replied)

WorkerNext == \E w \in Workers : WorkerStep(w) \/ ChannelLost(w)

===============================================================================
