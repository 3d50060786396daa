------------------------------- MODULE MCHeap -------------------------------
(* Instances of Heap for TLC. *)
EXTENDS HeapLinks

\* An empty request, one that the smallest block holds, and larger ones.
Sizes  == {0, 2, 5}
\* Less than 16 bytes, no power of two, 32 bytes.
Bounds == {2, 3, 8}
=============================================================================
