----------------------------- MODULE MCRunQueue -----------------------------
(* The instance of RunQueue, and with it of Sched, for TLC. *)
EXTENDS RunQueue, TLC

CONSTANTS boot, a, b, c, idle

\* The clients besides the boot thread are interchangeable.
Symmetry == Permutations({a, b, c})

Clients4 == {boot, a, b, c}
=============================================================================
