-------------------------------- MODULE MCBatch --------------------------------
(***************************************************************************)
(* A batch of two items in two chunks, next to a notification n1 of        *)
(* another request that may take the key k.                                *)
(***************************************************************************)
EXTENDS BatchService

CONSTANTS b1, b2, n1

OneChannel == <<"sms">>
AnyTime    == {"null", "future"}
TwoItems   == <<b1, b2>>

===============================================================================
