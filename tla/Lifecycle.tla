------------------------------- MODULE Lifecycle -------------------------------
(***************************************************************************)
(* What a notification's row promises: the lifecycle of the architecture   *)
(* document as the statements of the repository implement it.  A row whose *)
(* publish failed is FAILED at once, a worker may claim a row that is      *)
(* still ACCEPTED, a retry spends one of the row's attempts and needs      *)
(* another one left, and SENT, FAILED and CANCELED are final.  Release(n)  *)
(* is the point from which the row is no longer bound by this: Create has  *)
(* overwritten, without looking, what others made of the row.              *)
(***************************************************************************)
EXTENDS Integers

CONSTANT Notifications

VARIABLES
    phase,      \* status, "ABSENT" before the insert, "FREE" once released
    retries,    \* retries scheduled so far
    limit       \* attempts the row allows

lifeVars == <<phase, retries, limit>>

LifeInit ==
    /\ phase = [n \in Notifications |-> "ABSENT"]
    /\ retries = [n \in Notifications |-> 0]
    /\ limit = [n \in Notifications |-> 0]

Accept(n) ==
    /\ phase[n] = "ABSENT"
    /\ phase' = [phase EXCEPT ![n] = "ACCEPTED"]
    /\ limit'[n] \in Nat \ {0}
    /\ limit' = [limit EXCEPT ![n] = limit'[n]]
    /\ UNCHANGED retries

Move(n, from, to) ==
    /\ phase[n] \in from
    /\ phase' = [phase EXCEPT ![n] = to]
    /\ UNCHANGED <<retries, limit>>

Retry(n) ==
    /\ phase[n] = "SENDING"
    /\ retries[n] + 1 < limit[n]
    /\ phase' = [phase EXCEPT ![n] = "QUEUED"]
    /\ retries' = [retries EXCEPT ![n] = @ + 1]
    /\ UNCHANGED limit

Release(n) ==
    /\ phase[n] \notin {"ABSENT", "ACCEPTED"}
    /\ phase' = [phase EXCEPT ![n] = "FREE"]
    /\ retries' = [retries EXCEPT ![n] = 0]
    /\ UNCHANGED limit

LifeNext ==
    \E n \in Notifications :
        \/ Accept(n)
        \/ Move(n, {"ACCEPTED"}, "QUEUED")
        \/ Move(n, {"ACCEPTED"}, "FAILED")
        \/ Move(n, {"ACCEPTED", "QUEUED"}, "SENDING")
        \/ Move(n, {"ACCEPTED", "QUEUED"}, "CANCELED")
        \/ Move(n, {"SENDING"}, "SENT")
        \/ Move(n, {"SENDING"}, "FAILED")
        \/ Retry(n)
        \/ Release(n)

LifeSpec == LifeInit /\ [][LifeNext]_lifeVars

===============================================================================
