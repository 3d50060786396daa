---------------------------- MODULE MCBootLoader ----------------------------
(* Instances of BootLoader for TLC. *)
EXTENDS BootLoader

\* From one sector to more than two cylinders, at, before and after the block
\* boundary.
Sizes == {1, 511, 512, 513, 512 * 120 + 1}
            \cup {512 * n : n \in 2..80} \cup {512 * n + 1 : n \in 14..54}
FewSizes   == {512 * n : n \in {1, 17, 40}}
=============================================================================
