------------------------------ MODULE RateLimiter ------------------------------
(***************************************************************************)
(* RedisRateLimiter: Wait and Allow for the callers of one channel, on all *)
(* replicas.  Keys of different channels are different and share nothing,  *)
(* so one channel is enough.  Every caller reads a clock of its own, and   *)
(* time passes between reading it and the increment in Redis.  Time is     *)
(* counted in ticks of the backoff step (10 ms in the code).               *)
(***************************************************************************)
EXTENDS Failures, Integers

CONSTANTS
    Callers,        \* goroutines in Wait
    LimitPerSec,    \* limitPerSec
    SecondLength,   \* ticks in a second (windowSeconds)
    BackoffMax,     \* backoffMax, in ticks
    Skew,           \* ticks by which a replica's clock may be off
    MaxTime         \* bound: the clock stops here

ASSUME LimiterAssumption ==
    /\ {LimitPerSec, SecondLength, BackoffMax} \subseteq Nat \ {0}
    /\ {Skew, MaxTime} \subseteq Nat

VARIABLES
    now,            \* Redis's clock
    count,          \* the key of a second: its value, 0 if it does not exist
    expiry,         \* when the key is removed, 0 if it does not exist
    call,           \* "idle", "trying": request to Redis under way, "sleeping"
    second,         \* the second in the key of a caller's request
    backoff,        \* how long the caller sleeps next
    wake,           \* when a sleeping caller's timer fires
    granted,        \* history: calls allowed on account of a second
    created,        \* history: how often the key of a second was created
    strayed         \* history: seconds whose key was incremented in another second

redisVars == <<now, count, expiry>>
callVars == <<call, second, backoff, wake>>
grantHistory == <<granted, created, strayed>>
limiterVars == <<redisVars, callVars, grantHistory, faults>>

SecondOf(t) == t \div SecondLength

Seconds == 0..SecondOf(MaxTime + Skew)

LimiterTypeOK ==
    /\ faults \in 0..MaxFaults
    /\ now \in 0..MaxTime
    /\ count \in [Seconds -> Nat]
    /\ expiry \in [Seconds -> Nat]
    /\ call \in [Callers -> {"idle", "trying", "sleeping"}]
    /\ second \in [Callers -> Seconds]
    /\ backoff \in [Callers -> 1..BackoffMax]
    /\ wake \in [Callers -> Nat]
    /\ granted \in [Seconds -> Nat]
    /\ created \in [Seconds -> Nat]
    /\ strayed \subseteq Seconds

LimiterInit ==
    /\ faults = 0
    /\ now = 0
    /\ count = [s \in Seconds |-> 0]
    /\ expiry = [s \in Seconds |-> 0]
    /\ call = [c \in Callers |-> "idle"]
    /\ second = [c \in Callers |-> 0]
    /\ backoff = [c \in Callers |-> 1]
    /\ wake = [c \in Callers |-> 0]
    /\ granted = [s \in Seconds |-> 0]
    /\ created = [s \in Seconds |-> 0]
    /\ strayed = {}

-------------------------------------------------------------------------------
\* What the replica's clock may show.
ClockReadings == {t \in (now - Skew)..(now + Skew) : t >= 0}

\* The beginning of Allow: the key is named after the second just read.
ReadClock(c, t) ==
    /\ second' = [second EXCEPT ![c] = SecondOf(t)]
    /\ call' = [call EXCEPT ![c] = "trying"]

\* A worker enters Wait.
StartWait(c, t) ==
    /\ call[c] = "idle"
    /\ ReadClock(c, t)
    /\ UNCHANGED <<redisVars, grantHistory, faults, backoff, wake>>

\* Wait returns, and its local variables are gone.
Return(c) ==
    /\ call' = [call EXCEPT ![c] = "idle"]
    /\ second' = [second EXCEPT ![c] = 0]
    /\ backoff' = [backoff EXCEPT ![c] = 1]
    /\ wake' = [wake EXCEPT ![c] = 0]

\* Slip: the limit itself is already refused.
AllowedBelow(value) == value < LimitPerSec

\* Slip: one more than the limit is let through.
AllowedOneMore(value) == value <= LimitPerSec + 1

\* The comparison at the end of Allow.
Allowed(value) == value <= LimitPerSec

\* INCR of a key that has expired starts again at 1.
IncrUntil(s, t) ==
    /\ count' = [count EXCEPT ![s] = @ + 1]
    /\ expiry' = [expiry EXCEPT ![s] = t]
    /\ created' = [created EXCEPT ![s] = IF count[s] = 0 THEN @ + 1 ELSE @]
    /\ strayed' = IF SecondOf(now) = s THEN strayed ELSE strayed \cup {s}
    /\ UNCHANGED now

\* Slip: the key lives a tick less than the second.
IncrExpireShort(s) == IncrUntil(s, now + SecondLength - 1)

\* Slip: EXPIRE is left out.
IncrWithoutExpire(s) == IncrUntil(s, MaxTime + 1)

\* INCR and EXPIRE in one MULTI/EXEC.
IncrExpire(s) == IncrUntil(s, now + SecondLength)

\* Slip: the backoff is not capped.
NextBackoffUncapped(b) == b + 1

\* Wait's backoff grows by a step up to backoffMax.
NextBackoff(b) == IF b < BackoffMax THEN b + 1 ELSE BackoffMax

\* Redis answers.  An allowed caller leaves Wait, another one goes to sleep.
Evaluate(c) ==
    LET s == second[c] IN
    /\ call[c] = "trying"
    /\ IncrExpire(s)
    /\ IF Allowed(count[s] + 1)
       THEN /\ granted' = [granted EXCEPT ![s] = @ + 1]
            /\ Return(c)
       ELSE /\ call' = [call EXCEPT ![c] = "sleeping"]
            /\ wake' = [wake EXCEPT ![c] = now + backoff[c]]
            /\ backoff' = [backoff EXCEPT ![c] = NextBackoff(@)]
            /\ UNCHANGED <<second, granted>>
    /\ UNCHANGED faults

\* The answer is lost.  The client library sends the pipeline again, or gives
\* up and Wait returns the error.
AnswerLost(c, again) ==
    /\ call[c] = "trying"
    /\ Fault
    /\ IncrExpire(second[c])
    /\ IF again THEN UNCHANGED callVars ELSE Return(c)
    /\ UNCHANGED granted

\* The request does not reach Redis, or the context ends: Wait returns the
\* error.
WaitReturnsError(c) ==
    /\ call[c] \in {"trying", "sleeping"}
    /\ Fault
    /\ Return(c)
    /\ UNCHANGED <<redisVars, grantHistory>>

\* The sleep is over and the loop calls Allow again.
Wake(c, t) ==
    /\ call[c] = "sleeping"
    /\ now >= wake[c]
    /\ ReadClock(c, t)
    /\ UNCHANGED <<redisVars, grantHistory, faults, backoff, wake>>

\* Time passes, and Redis removes the keys that are due.
Tick ==
    /\ now < MaxTime
    /\ now' = now + 1
    /\ count' = [s \in Seconds |-> IF expiry[s] <= now + 1 THEN 0 ELSE count[s]]
    /\ expiry' = [s \in Seconds |-> IF expiry[s] <= now + 1 THEN 0 ELSE expiry[s]]
    /\ UNCHANGED <<callVars, grantHistory, faults>>

CallerStep(c) ==
    \/ \E t \in ClockReadings : StartWait(c, t)
    \/ Evaluate(c)
    \/ \E again \in BOOLEAN : AnswerLost(c, again)
    \/ WaitReturnsError(c)
    \/ \E t \in ClockReadings : Wake(c, t)

LimiterNext == Tick \/ \E c \in Callers : CallerStep(c)

LimiterSpec == LimiterInit /\ [][LimiterNext]_limiterVars

-------------------------------------------------------------------------------
\* Allow never lets more than limitPerSec calls through on account of one
\* second, as long as the requests of that second reach Redis within it: the
\* key cannot expire and start again while the second lasts.
PerSecondLimit ==
    \A s \in Seconds \ strayed : granted[s] <= LimitPerSec

\* Whatever the delays and the clocks, a second's calls exceed the limit only
\* by as many times as its key was created anew after expiring.
PerKeyLimit ==
    \A s \in Seconds : granted[s] <= LimitPerSec * created[s]

\* Allow refuses a call only when the second's limit is used up; a failed
\* request may have used up one of it.
RefusedOnlyWhenFull ==
    \A c \in Callers :
        call[c] = "sleeping" => granted[second[c]] + faults >= LimitPerSec

\* The keys do not pile up: EXPIRE removes the key of a second that is over
\* at the end of the next second.
OldKeysVanish ==
    \A s \in Seconds \ strayed : count[s] > 0 => s >= SecondOf(now) - 1

===============================================================================
