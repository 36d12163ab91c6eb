----------------------------- MODULE MCEventLog -----------------------------
(***************************************************************************)
(* A small instance of EventLog for TLC: traffic from one chain to another. *)
(***************************************************************************)
EXTENDS EventLog

CONSTANTS A, B

OneWay == {<<A, B>>}
=============================================================================
