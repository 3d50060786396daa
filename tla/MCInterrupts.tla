---------------------------- MODULE MCInterrupts ----------------------------
(* Instances of Interrupts for TLC. *)
EXTENDS Interrupts

\* The timer, the keyboard, and a line of the second controller.
MCDevices == {0, 1, 10}

\* Line 10 needs line 2 open.
MCDrivers == {1, 2, 10}

\* An exception without an error code and one with.
MCFaults == {6, 17}
MCBiosMasks == {{}, 0..7}
=============================================================================
