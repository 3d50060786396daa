-------------------------------- MODULE Heap --------------------------------
(***************************************************************************)
(* The kernel heap: miniheap.c behind the calls of heap.c.  Addresses and  *)
(* sizes are in words of 4 bytes, the size of a pointer: every length the  *)
(* code computes is rounded up to words.  The free list is the sequence of *)
(* its chunks in list order.                                               *)
(***************************************************************************)
EXTENDS Integers, Sequences, FiniteSets, SequencesExt, FiniteSetsExt

CONSTANTS
    Base, Length,  \* the range heap_init hands to miniheap_init
    Page,          \* PAGE_SIZE
    Requests,      \* sizes callers ask for
    Alignments,    \* alignments callers of memalign ask for
    MaxBlocks      \* bound: blocks allocated at a time

Header == 2        \* sizeof(struct alloc_struct_begin)
Node   == 3        \* sizeof(struct free_heap_chunk)

PowersOfTwo == {2^k : k \in 0..24}

\* The sizes are such that the additions of miniheap_alloc do not wrap.
ASSUME HeapAssumption ==
    /\ Base \in Nat /\ Length \in Nat /\ Length >= Node
    /\ Page \in PowersOfTwo /\ Page > Node
    /\ Requests \subseteq 0..2^24 /\ Alignments \subseteq 0..2^24
    /\ MaxBlocks \in Nat

VARIABLES
    free,           \* theheap.free_list: chunks, each with base and len
    live,           \* allocations: ptr, the header (base, len) before it,
                    \* and the size asked for, which only the caller knows
    remaining,      \* theheap.remaining
    low_watermark,  \* theheap.low_watermark
    released        \* the words passed to page_free

vars == <<free, live, remaining, low_watermark, released>>

Chunk(base, len) == [base |-> base, len |-> len]
Touch(c, d)      == c.base + c.len = d.base
Cells(c)         == c.base..(c.base + c.len - 1)

RoundUp(a, n)   == a + ((-a) % n)
RoundDown(a, n) == a - (a % n)

-----------------------------------------------------------------------------
(* The free list *)

\* How many chunks of the list heap_insert_free_chunk walks past.
Before(list, c) ==
    LET i == SelectInSeq(list, LAMBDA d : c.base < d.base)
    IN  IF i = 0 THEN Len(list) ELSE i - 1

ToLast(list, k, c) == k > 0 /\ Touch(list[k], c)

\* Mutant: once merged with the chunk before, the one after is not tried.
ToNext_OneMerge(list, k, c) ==
    ~ToLast(list, k, c) /\ k < Len(list) /\ Touch(c, list[k + 1])

ToNext(list, k, c) == k < Len(list) /\ Touch(c, list[k + 1])

\* heap_insert_free_chunk: in front of the first chunk above it, merged with
\* its neighbours where they touch.
InsertFreeChunk(list, c) ==
    LET k      == Before(list, c)
        toLast == ToLast(list, k, c)
        toNext == ToNext(list, k, c)
        merged == Chunk(IF toLast THEN list[k].base ELSE c.base,
                        c.len + (IF toLast THEN list[k].len ELSE 0)
                              + (IF toNext THEN list[k + 1].len ELSE 0))
    IN  SubSeq(list, 1, IF toLast THEN k - 1 ELSE k) \o <<merged>>
            \o SubSeq(list, IF toNext THEN k + 2 ELSE k + 1, Len(list))

\* miniheap_init, as heap_init calls it.
Init ==
    /\ free = InsertFreeChunk(<<>>, Chunk(Base, Length))
    /\ live = {}
    /\ remaining = Length
    /\ low_watermark = 0
    /\ released = {}

-----------------------------------------------------------------------------
(* miniheap_alloc *)

Larger(a, b) == IF a > b THEN a ELSE b

\* An alignment below 16 bytes, but not zero, is 16 bytes.
AlignTo(al) == IF al > 0 THEN Larger(al, 4) ELSE 0

\* Mutant: no room for the worst case of an alignment.
NeededSize_NoSlack(want, al) == Larger(want + Header, Node)

NeededSize(want, al) == Larger(want + Header, Node) + AlignTo(al)

\* The first chunk of the list that is large enough, 0 when there is none.
FirstFit(list, size) == SelectInSeq(list, LAMBDA c : c.len >= size)

\* Mutant: a remainder too small for a chunk's list node is split off.
Splits_AnyRest(c, size) == c.len > size

Splits(c, size) == c.len > size + Node

\* Mutant: the chunk is split and keeps its old length.
Taken_NotTruncated(c, size) == c

\* What the allocation takes of the chunk, and the list without it.
Taken(c, size) == IF Splits(c, size) THEN Chunk(c.base, size) ELSE c

Rest(list, i, size) ==
    IF Splits(list[i], size)
    THEN ReplaceAt(list, i, Chunk(list[i].base + size, list[i].len - size))
    ELSE RemoveAt(list, i)

\* The caller's pointer: past the header, aligned.
Pointer(c, al) ==
    IF al > 0 THEN RoundUp(c.base + Header, AlignTo(al)) ELSE c.base + Header

Allocation(c, want, al) ==
    [ptr |-> Pointer(c, al), base |-> c.base, len |-> c.len, want |-> want]

Smaller(a, b) == IF a < b THEN a ELSE b

\* miniheap_alloc finds a chunk: free list, header and accounts.
AllocFrom(i, want, al) ==
    LET size  == NeededSize(want, al)
        taken == Taken(free[i], size)
    IN  /\ free' = Rest(free, i, size)
        /\ live' = live \cup {Allocation(taken, want, al)}
        /\ remaining' = remaining - taken.len
        /\ low_watermark' = Smaller(low_watermark, remaining')
        /\ UNCHANGED released

\* malloc and calloc (al = 0), and memalign.  NULL is returned, and nothing
\* changes, when the alignment is no power of two or no chunk is large enough:
\* page_alloc gives heap_grow nothing.
Alloc(want, al) ==
    /\ Cardinality(live) < MaxBlocks
    /\ LET i == FirstFit(free, NeededSize(want, al))
       IN  IF al \in {0} \cup PowersOfTwo /\ i # 0
           THEN AllocFrom(i, want, al)
           ELSE UNCHANGED vars

-----------------------------------------------------------------------------
(* miniheap_free, miniheap_realloc *)

\* The header gives back what was taken.
FreeBlock(b) ==
    /\ free' = InsertFreeChunk(free, Chunk(b.base, b.len))
    /\ live' = live \ {b}
    /\ remaining' = remaining + b.len
    /\ UNCHANGED <<low_watermark, released>>

\* Mutant: the old block is freed before the new one is looked for.
Realloc_FreesFirst(b, want) ==
    LET list  == InsertFreeChunk(free, Chunk(b.base, b.len))
        size  == NeededSize(want, 0)
        i     == FirstFit(list, size)
        taken == Taken(list[i], size)
    IN  IF want = 0 \/ i = 0 THEN FreeBlock(b)
        ELSE /\ free' = Rest(list, i, size)
             /\ live' = (live \ {b}) \cup {Allocation(taken, want, 0)}
             /\ remaining' = remaining + b.len - taken.len
             /\ low_watermark' = Smaller(low_watermark, remaining')
             /\ UNCHANGED released

\* A new block, the copy, and the old one freed; when there is no new block the
\* old one is left alone.
Realloc(b, want) ==
    LET size  == NeededSize(want, 0)
        i     == FirstFit(free, size)
        taken == Taken(free[i], size)
    IN  \/ want = 0 /\ FreeBlock(b)
        \/ want > 0 /\ i = 0 /\ UNCHANGED vars
        \/ /\ want > 0 /\ i # 0
           /\ free' = InsertFreeChunk(Rest(free, i, size), Chunk(b.base, b.len))
           /\ live' = (live \ {b}) \cup {Allocation(taken, want, 0)}
           /\ remaining' = remaining - taken.len + b.len
           /\ low_watermark' = Smaller(low_watermark, remaining - taken.len)
           /\ UNCHANGED released

-----------------------------------------------------------------------------
(* miniheap_trim *)

EndOf(c) == c.base + c.len

\* The whole pages of a chunk that can go: what stays before and after them
\* is nothing or holds a list node.
TrimStart(c) ==
    LET p == RoundUp(c.base, Page)
    IN  IF p # c.base /\ p - c.base < Node THEN p + Page ELSE p
TrimEnd(c) ==
    LET p == RoundDown(EndOf(c), Page)
    IN  IF p # EndOf(c) /\ EndOf(c) - p < Node THEN p - Page ELSE p

Trims(c) == TrimEnd(c) > TrimStart(c)
Pages(c) == IF Trims(c) THEN TrimStart(c)..(TrimEnd(c) - 1) ELSE {}

Piece(base, end) == IF end > base THEN <<Chunk(base, end - base)>> ELSE <<>>

\* What stays of a chunk in the list.
Remains(c) ==
    IF Trims(c) THEN Piece(c.base, TrimStart(c)) \o Piece(TrimEnd(c), EndOf(c)) ELSE <<c>>

\* The list after each turn of the loop, and after the last.
TrimmedUpTo(list) ==
    LET kept[k \in 0..Len(list)] ==
            IF k = 0 THEN <<>> ELSE kept[k - 1] \o Remains(list[k])
    IN  kept
Trimmed(list) == TrimmedUpTo(list)[Len(list)]

PagesOf(list) == UNION {Pages(list[i]) : i \in DOMAIN list}

Trim ==
    /\ free' = Trimmed(free)
    /\ released' = released \cup PagesOf(free)
    /\ remaining' = remaining - Cardinality(PagesOf(free))
    /\ UNCHANGED <<live, low_watermark>>

-----------------------------------------------------------------------------
Next ==
    \/ \E want \in Requests, al \in {0} \cup Alignments : Alloc(want, al)
    \/ \E b \in live : FreeBlock(b) \/ \E want \in Requests : Realloc(b, want)
    \/ Trim

Spec == Init /\ [][Next]_vars

-----------------------------------------------------------------------------
(* Properties *)

HeapCells == Base..(Base + Length - 1)
ChunkSet  == [base : HeapCells, len : Node..Length]

\* The type of the state.  Every free chunk, and every allocation, which will
\* be one, has room for the list node heap_create_free_chunk writes into it
\* (miniheap.c:198), however it was split, trimmed or merged.
TypeOK ==
    /\ free \in Seq(ChunkSet)
    /\ live \subseteq [ptr : HeapCells, base : HeapCells, len : Node..Length,
                      want : Requests]
    /\ remaining \in 0..Length
    /\ low_watermark \in 0..Length
    /\ released \subseteq HeapCells

\* Nothing of the heap is lost and nothing is given twice: every word belongs
\* to one free chunk, to one allocation's header and block, or to the pages
\* handed to page_free, and to one only.
EachWordOnce ==
    \A w \in HeapCells :
        Cardinality({i \in DOMAIN free : w \in Cells(free[i])})
            + Cardinality({b \in live : w \in Cells(b)})
            + (IF w \in released THEN 1 ELSE 0) = 1

\* The list is in address order and no two of its chunks touch: what is freed
\* in any order is one chunk again.
SortedAndMerged ==
    \A i, j \in DOMAIN free : i < j => EndOf(free[i]) < free[j].base

\* Header and block lie inside what was taken of the heap, however the block is
\* aligned: writing to them touches no chunk's node and no other block.
PayloadFits ==
    \A b \in live :
        /\ b.base <= b.ptr - Header
        /\ b.ptr + b.want <= b.base + b.len

\* The lengths of the first chunks of a list, added up.
SumUpTo(list) ==
    LET sum[k \in 0..Len(list)] == IF k = 0 THEN 0 ELSE sum[k - 1] + list[k].len
    IN  sum

\* theheap.remaining is what miniheap_get_stats adds up walking the list.
HeapFree   == SumUpTo(free)[Len(free)]
Accounting == remaining = HeapFree

\* realloc never leaves its caller without a block to copy from: when there is
\* no memory the old one stays (miniheap.c:349), and else the new one, which is
\* as long as was asked for, has no word in common with it, so that the copy
\* made before the old one is freed reads nothing it has written.
ReallocKeepsABlock ==
    [][\A b \in live, want \in Requests \ {0} :
          Realloc(b, want) =>
              \/ b \in live'
              \/ \E new \in live' \ live :
                    new.want = want /\ Cells(new) \cap Cells(b) = {}]_vars

\* The callers' view of the heap is that of the abstract allocator.
Promise == INSTANCE Allocator
    WITH Words <- HeapCells,
         Alignments <- {0} \cup Alignments,
         blocks <- {[ptr |-> b.ptr, want |-> b.want] : b \in live}
ImplementsAllocator == Promise!Spec
=============================================================================
