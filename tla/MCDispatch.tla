------------------------------ MODULE MCDispatch ------------------------------
(***************************************************************************)
(* Values of the constants for TLC.                                        *)
(***************************************************************************)
EXTENDS Dispatch, TLC

OneChannel  == <<"sms">>
TwoChannels == <<"sms", "email">>
AnyTime     == {"null", "future"}
Later       == {"future"}
AtOnce      == {"null"}

\* The notifications are interchangeable: no statement tells ids apart.
NotificationSymmetry == Permutations(Notifications)

===============================================================================
