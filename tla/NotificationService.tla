-------------------------- MODULE NotificationService --------------------------
(***************************************************************************)
(* NotificationService.Create and Cancel.  Each create request has a       *)
(* goroutine of its own and an id of its own, so creator[n] is the program *)
(* counter of the one Create call that may write row n:                    *)
(*    "idle"       not called yet                                          *)
(*    "inserted"   the row is in, the schedule is not looked at yet        *)
(*    "published"  Publish returned nil, status QUEUED not written yet     *)
(*    "pubfailed"  Publish failed, status FAILED not written yet           *)
(*    "wrote"      returned after its last UpdateStatus took effect        *)
(*    "overwrote"  the same, and the update replaced a status that others  *)
(*                 had written since the insert                            *)
(*    "returned"   returned or died without such an update                 *)
(***************************************************************************)
EXTENDS Broker, Integers

CONSTANTS
    DefaultMaxRetries,  \* defaultMaxRetries
    RequestedRetries,   \* the maxRetries a request may carry
    RequestedSchedules  \* the scheduledAt a request may carry

ASSUME ServiceAssumption ==
    /\ DefaultMaxRetries \in Nat \ {0}
    /\ RequestedRetries \subseteq Int
    /\ RequestedSchedules \subseteq Instant

VARIABLES
    creator,
    cancelAcked         \* history: a Cancel of n was answered with success

serviceVars == <<creator, cancelAcked>>

Creating == {"inserted", "published", "pubfailed"}

ServiceTypeOK ==
    /\ creator \in [Notifications -> {"idle", "wrote", "overwrote", "returned"} \cup Creating]
    /\ cancelAcked \in [Notifications -> BOOLEAN]

ServiceInit ==
    /\ creator = [n \in Notifications |-> "idle"]
    /\ cancelAcked = [n \in Notifications |-> FALSE]

\* Slip: a request without maxRetries keeps its zero.
RetriesAsRequested(r) == r

\* prepareNotificationForCreate: what it does to max_retries.
EffectiveRetries(r) == IF r <= 0 THEN DefaultMaxRetries ELSE r

CreateInsert(n, applied, replied) ==
    /\ creator[n] = "idle"
    /\ Outcome(applied, replied)
    /\ \E c \in Channel, k \in Keys \cup {NoKey},
          sched \in RequestedSchedules, r \in RequestedRetries :
        /\ ~KeyTaken(k)
        /\ IF applied THEN Create(n, c, k, sched, EffectiveRetries(r))
                      ELSE UNCHANGED repoVars
    /\ creator' = [creator EXCEPT ![n] = IF replied THEN "inserted" ELSE "returned"]
    /\ UNCHANGED <<brokerVars, cancelAcked>>

\* The insert hits the unique index; resolveIdempotencyConflict answers with
\* the existing row and the request changes nothing.
CreateDuplicate(n) ==
    /\ creator[n] = "idle"
    /\ \E k \in Keys : KeyTaken(k)
    /\ creator' = [creator EXCEPT ![n] = "returned"]
    /\ UNCHANGED <<repoVars, brokerVars, cancelAcked, faults>>

\* Slip: a notification without scheduledAt counts as deferred.
EnqueueOnlyDue(n) == scheduledAt[n] = "due"

\* shouldEnqueueImmediately
EnqueueNow(n) == scheduledAt[n] # "future"

CreateDefer(n) ==
    /\ creator[n] = "inserted"
    /\ ~EnqueueNow(n)
    /\ creator' = [creator EXCEPT ![n] = "returned"]
    /\ UNCHANGED <<repoVars, brokerVars, cancelAcked, faults>>

CreatePublish(n, enqueued, ok) ==
    /\ creator[n] = "inserted"
    /\ EnqueueNow(n)
    /\ Publish(n, enqueued, ok)
    /\ creator' = [creator EXCEPT ![n] = IF ok THEN "published" ELSE "pubfailed"]
    /\ UNCHANGED <<repoVars, cancelAcked>>

\* The status Create writes after its publish, without looking at the row.
MarkedStatus(n) == IF creator[n] = "published" THEN "QUEUED" ELSE "FAILED"

\* History: whether that replaces what somebody else wrote after the insert.
Overwrites(n) == status[n] \notin {"ACCEPTED", MarkedStatus(n)}

CreateMark(n, applied, replied) ==
    /\ creator[n] \in {"published", "pubfailed"}
    /\ Outcome(applied, replied)
    /\ IF applied THEN UpdateStatus(n, MarkedStatus(n)) ELSE UNCHANGED repoVars
    /\ creator' = [creator EXCEPT ![n] =
                    IF ~applied THEN "returned" ELSE IF Overwrites(n) THEN "overwrote" ELSE "wrote"]
    /\ UNCHANGED <<brokerVars, cancelAcked>>

\* Cancel of a row that is absent or cannot be cancelled is answered with
\* ErrConflict.
CancelNotification(n, applied, replied) ==
    /\ Outcome(applied, replied)
    /\ IF applied THEN Cancel(n) ELSE UNCHANGED repoVars
    /\ cancelAcked' = [cancelAcked EXCEPT ![n] = @ \/ (replied /\ Claimable(n))]
    /\ UNCHANGED <<brokerVars, creator>>

\* Create calls die with the process; the rows they wrote stay.
ServiceCrash ==
    creator' = [n \in Notifications |->
                    IF creator[n] \in Creating THEN "returned" ELSE creator[n]]

CreateStep(n) ==
    \/ CreateDefer(n)
    \/ \E enqueued, ok \in BOOLEAN : CreatePublish(n, enqueued, ok)
    \/ \E applied, replied \in BOOLEAN : CreateMark(n, applied, replied)

ServiceNext ==
    \E n \in Notifications :
        \/ \E applied, replied \in BOOLEAN : CreateInsert(n, applied, replied)
        \/ CreateDuplicate(n)
        \/ CreateStep(n)
        \/ \E applied, replied \in BOOLEAN : CancelNotification(n, applied, replied)

===============================================================================
