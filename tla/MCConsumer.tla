------------------------------- MODULE MCConsumer -------------------------------
(***************************************************************************)
(* Instances of Consumer for TLC: two consumers of a queue with one good   *)
(* and one malformed message.  All are model values.                       *)
(***************************************************************************)
EXTENDS Consumer

===============================================================================
