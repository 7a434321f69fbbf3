----------------------------- MODULE MCConnection -----------------------------
(***************************************************************************)
(* Instances of Connection for TLC.  Threads are model values.             *)
(***************************************************************************)
EXTENDS Connection

===============================================================================
