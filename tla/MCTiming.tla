------------------------------- MODULE MCTiming -------------------------------
(***************************************************************************)
(* Values of the constants for TLC: a base delay of two ticks, so that     *)
(* the second retry already meets the cap of three.                        *)
(***************************************************************************)
EXTENDS RetryTiming

OneChannel == <<"sms">>
AnyTime    == {"null", "future"}

===============================================================================
