------------------------------- MODULE Failures -------------------------------
(***************************************************************************)
(* The services the program talks to (PostgreSQL, RabbitMQ, Redis) and the *)
(* process itself may fail at any call.  Every failure draws on one budget *)
(* so that a model can bound them; the theorems hold for every budget.     *)
(***************************************************************************)
EXTENDS Naturals

CONSTANT MaxFaults      \* bound: failures of services and of the process

ASSUME MaxFaultsAssumption == MaxFaults \in Nat

VARIABLE faults         \* failures that have happened so far

Fault ==
    /\ faults < MaxFaults
    /\ faults' = faults + 1

(***************************************************************************)
(* The result of one SQL statement.  "replied" is a nil error in the code. *)
(* Without a reply (connection lost, context cancelled) the statement may  *)
(* or may not have been applied by the database.                           *)
(***************************************************************************)
Outcome(applied, replied) ==
    /\ replied => applied
    /\ IF replied THEN UNCHANGED faults ELSE Fault

===============================================================================
