------------------------------ MODULE MCSched ------------------------------
(* The instance of Sched for TLC. *)
EXTENDS Sched

CONSTANTS boot, a, b, idle

Clients3 == {boot, a, b}
=============================================================================
