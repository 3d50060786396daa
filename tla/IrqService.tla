----------------------------- MODULE IrqService -----------------------------
(***************************************************************************)
(* What the interrupt path promises the drivers: the requests of the lines *)
(* they opened are handled one at a time, the highest priority first, each *)
(* by its own driver; and the clock, in milliseconds, moves on by one      *)
(* period for each timer interrupt handled and at no other time.           *)
(***************************************************************************)
EXTENDS Integers

CONSTANTS
    Wrap,     \* the clock is kept modulo this
    None      \* no interrupt

Irqs == 0..15
Period == 10
Timer == 0

VARIABLES
    requests,   \* interrupts asked for by the hardware
    open,       \* lines that are not masked
    inHand,     \* the interrupt being handled
    ms

\* The lines of the second controller come in on line 2 of the first.
Rank(i) == CASE i < 3 -> i  []  i >= 8 -> i - 6  []  OTHER -> i + 7
Deliverable(i) == i \in open /\ (i >= 8 => 2 \in open)

Init == requests \subseteq Irqs /\ open \subseteq Irqs /\ inHand = None /\ ms = 0

\* A device asks, or takes its request back.
Device == requests' \in SUBSET Irqs /\ UNCHANGED <<open, inHand, ms>>

Masks == open' \in SUBSET Irqs /\ requests' \in SUBSET requests
         /\ UNCHANGED <<inHand, ms>>

First(i) ==
    /\ i \in requests /\ Deliverable(i)
    /\ \A j \in requests : Deliverable(j) => Rank(i) <= Rank(j)

Take(i) ==
    /\ inHand = None /\ First(i)
    /\ requests' = requests \ {i}
    /\ inHand' \in {i, 8 * (i \div 8) + 7}   \* the second: it was withdrawn
    /\ UNCHANGED <<open, ms>>

Handle ==
    /\ inHand # None /\ inHand' = None
    /\ ms' = (ms + IF inHand = Timer THEN Period ELSE 0) % Wrap
    /\ UNCHANGED <<requests, open>>

Next == Device \/ Masks \/ Handle \/ \E i \in Irqs : Take(i)

Spec == Init /\ [][Next]_<<requests, open, inHand, ms>>
=============================================================================
