------------------------------ MODULE Allocator ------------------------------
(***************************************************************************)
(* What malloc, memalign, realloc and free promise their callers: blocks   *)
(* of the heap that no other block overlaps, aligned as asked, that stay   *)
(* where they are until their owner gives them back.                       *)
(***************************************************************************)
EXTENDS Integers

CONSTANTS
    Words,        \* the words of the heap
    Requests,     \* sizes callers ask for, in words
    Alignments    \* alignments callers ask for, in words; 0 for none

VARIABLE blocks   \* the blocks handed out: first word and size asked for

Extent(b) == b.ptr..(b.ptr + b.want - 1)

Free(ptr, want) ==
    /\ Extent([ptr |-> ptr, want |-> want]) \subseteq Words
    /\ \A b \in blocks :
          b.ptr # ptr /\ Extent(b) \cap Extent([ptr |-> ptr, want |-> want]) = {}

Aligned(ptr, al) == al = 0 \/ ptr % al = 0

Init == blocks = {}

\* A new block, or NULL and nothing changed.
Alloc(want, al) ==
    \/ \E ptr \in Words :
          /\ blocks' = blocks \cup {[ptr |-> ptr, want |-> want]}
          /\ Free(ptr, want) /\ Aligned(ptr, al)
    \/ UNCHANGED blocks

\* The new block is in place before the old one is given back.
Realloc(b, want) ==
    \/ \E ptr \in Words :
          /\ blocks' = (blocks \ {b}) \cup {[ptr |-> ptr, want |-> want]}
          /\ Free(ptr, want)
    \/ UNCHANGED blocks

Release(b) == blocks' = blocks \ {b}

Next ==
    \/ \E want \in Requests, al \in Alignments : Alloc(want, al)
    \/ \E b \in blocks : Release(b) \/ \E want \in Requests : Realloc(b, want)

Spec == Init /\ [][Next]_blocks
=============================================================================
