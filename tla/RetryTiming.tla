------------------------------ MODULE RetryTiming ------------------------------
(***************************************************************************)
(* Dispatch with a clock for the retries.  Dispatch lets a next_retry_at   *)
(* fall due at any moment; here it falls due when the delay computed by    *)
(* computeRetryDelay is over.  Time is counted down and up in ticks, so no *)
(* bound on it is needed.                                                  *)
(***************************************************************************)
EXTENDS Dispatch

CONSTANTS
    BaseRetryDelay,     \* baseRetryDelay in ticks
    MaxRetryDelay,      \* maxRetryDelay in ticks
    MaxRetryJitter      \* maxRetryJitterMillis in ticks

ASSUME TimingAssumption ==
    /\ BaseRetryDelay \in Nat \ {0}
    /\ MaxRetryDelay \in Nat /\ MaxRetryDelay >= BaseRetryDelay
    /\ MaxRetryJitter \in Nat

VARIABLES
    remaining,          \* remaining[n]: ticks until next_retry_at of n
    elapsed             \* history: ticks since the last retry of n was scheduled,
                        \* counted up to MaxRetryDelay

timingVars == <<remaining, elapsed>>

\* Slip: the loop starts at 2.
ComputeRetryDelayLate(a) ==
    LET delay[k \in 0..a] ==
            IF k <= 2 THEN BaseRetryDelay
            ELSE IF 2 * delay[k - 1] >= MaxRetryDelay THEN MaxRetryDelay ELSE 2 * delay[k - 1]
    IN  delay[a]

\* Slip: the cap stops the doubling too late.
ComputeRetryDelayUncapped(a) ==
    LET delay[k \in 0..a] ==
            IF k <= 1 THEN BaseRetryDelay
            ELSE IF delay[k - 1] >= MaxRetryDelay THEN MaxRetryDelay ELSE 2 * delay[k - 1]
    IN  delay[a]

\* computeRetryDelay without its jitter: delay[k] is the delay after k - 1
\* rounds of the loop, which leaves it at the cap.
ComputeRetryDelay(a) ==
    LET delay[k \in 0..a] ==
            IF k <= 1 THEN BaseRetryDelay
            ELSE IF 2 * delay[k - 1] >= MaxRetryDelay THEN MaxRetryDelay ELSE 2 * delay[k - 1]
    IN  delay[a]

TimingTypeOK ==
    /\ remaining \in [Notifications -> 0..(MaxRetryDelay + MaxRetryJitter)]
    /\ elapsed \in [Notifications -> 0..MaxRetryDelay]

TimedInit ==
    /\ Init
    /\ remaining = [n \in Notifications |-> 0]
    /\ elapsed = [n \in Notifications |-> MaxRetryDelay]

Tick ==
    /\ \E n \in Notifications : remaining[n] > 0 \/ elapsed[n] < MaxRetryDelay
    /\ remaining' = [n \in Notifications |-> IF remaining[n] > 0 THEN remaining[n] - 1 ELSE 0]
    /\ elapsed' = [n \in Notifications |->
                    IF elapsed[n] < MaxRetryDelay THEN elapsed[n] + 1 ELSE MaxRetryDelay]
    /\ UNCHANGED vars

\* ScheduleRetry takes effect: next_retry_at is now plus the delay of this
\* attempt plus a random jitter.
TimedScheduleRetry(w, replied, jitter) ==
    LET n == job[w] IN
    /\ ScheduleRetry(w, TRUE, replied)
    /\ UNCHANGED <<schedVars, retryVars>>
    /\ remaining' = [remaining EXCEPT ![n] = ComputeRetryDelay(attemptNumber[w]) + jitter]
    /\ elapsed' = [elapsed EXCEPT ![n] = 0]

\* Every other step of Dispatch; a next_retry_at falls due at its time.
TimedStep ==
    /\ Next
    /\ attemptCount' = attemptCount
    /\ \A n \in Notifications :
        nextRetryAt[n] = "future" /\ nextRetryAt'[n] = "due" => remaining[n] = 0
    /\ UNCHANGED timingVars

timedVars == <<vars, timingVars>>

TimedNext ==
    \/ Tick
    \/ \E w \in Workers, replied \in BOOLEAN, jitter \in 0..MaxRetryJitter :
        TimedScheduleRetry(w, replied, jitter)
    \/ TimedStep

TimedSpec == TimedInit /\ [][TimedNext]_timedVars

-------------------------------------------------------------------------------
\* The documented policy: base, twice the base, four times, ... up to the cap.
BackoffPolicy(a) ==
    LET exponential == BaseRetryDelay * 2 ^ (a - 1)
    IN  IF exponential < MaxRetryDelay THEN exponential ELSE MaxRetryDelay

\* Create found a scheduled notification due and published it: the scheduler
\* finds it as well.
PublishedByBoth(n) == scheduledAt[n] # "null" /\ creator[n] # "returned"

\* The provider is not called again for a notification before the back-off
\* of its last attempt is over.  LockForSending does not look at
\* next_retry_at, so this rests on there being one message at a time: it
\* holds while nothing fails, unless Create and the scheduler both publish.
BackoffRespected ==
    [][\A n \in Notifications :
        /\ sends'[n] > sends[n] /\ sends[n] > 0
        /\ faults = 0 /\ ~PublishedByBoth(n)
        => elapsed[n] >= BackoffPolicy(sends[n])]_timedVars

===============================================================================
