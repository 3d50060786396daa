----------------------------- MODULE HeapLinks -----------------------------
(***************************************************************************)
(* The free list of miniheap.c as it is in memory: Heap, and the struct    *)
(* free_heap_chunk that stands at the start of every free chunk.  The      *)
(* operations walk, link and cut the list by its pointers, as the code     *)
(* does; what they do does not depend on the sequence Heap keeps.  A node  *)
(* that leaves the list is anybody's memory: nothing can be read of it.    *)
(***************************************************************************)
EXTENDS Heap, List

CONSTANT FreeList      \* the address of theheap.free_list

\* theheap is a variable of the kernel's, and nothing of the heap is at NULL.
ASSUME HeapLinksAssumption ==
    FreeList \notin HeapCells /\ NULL \notin HeapCells \cup {FreeList}

VARIABLE mem       \* struct free_heap_chunk by address, and the list's head

hlvars == <<vars, mem>>

Nothing == [prev |-> NULL, next |-> NULL, len |-> 0]
SetLen(m, c, len) == [m EXCEPT ![c].len = len]

\* The owner of the memory writes over the node.
Overwritten(m, c) == [m EXCEPT ![c] = Nothing]
Unlinked(m, c) == Overwritten(list_delete(m, c), c)

\* The first of some chunks a walk comes to, else where the walk ends.
FirstOf(m, chunks) ==
    LET hits == {k \in 1..list_length(m, FreeList) : Walk(m, FreeList, k) \in chunks}
    IN  IF hits = {} THEN FreeList ELSE Walk(m, FreeList, Min(hits))

\* Mutant: merged with the chunk before, the freed one stays in the list.
MergedBack_StillLinked(m, last, c) == SetLen(m, last, m[last].len + m[c].len)

\* The chunk is taken into the one before it, or the one behind into the chunk.
MergedBack(m, last, c) == Unlinked(SetLen(m, last, m[last].len + m[c].len), c)

\* heap_create_free_chunk, which sets the length, then heap_insert_free_chunk.  A walk that finds no
\* chunk above ends with next_chunk at the list's head, never NULL; the head is
\* no chunk's end, so that it is not merged with.
InsertMem(m, base, len) ==
    LET m0    == SetLen(m, base, len)
        next  == FirstOf(m0, {d \in HeapCells : base < d})
        m1    == list_add_tail(m0, next, base)
        last  == list_prev(m1, FreeList, base)
        back  == last # NULL /\ last + m1[last].len = base
        m2    == IF back THEN MergedBack(m1, last, base) ELSE m1
        chunk == IF back THEN last ELSE base
    IN  IF next # FreeList /\ chunk + m2[chunk].len = next
        THEN MergedBack(m2, chunk, next) ELSE m2

\* miniheap_alloc's part of the list: the chunk found is taken out and what is
\* split off put where it was.
Found(m, size) == FirstOf(m, {d \in HeapCells : m[d].len >= size})
AllocMem(m, size) ==
    LET c    == Found(m, size)
        next == list_next(m, FreeList, c)
        m1   == list_delete(m, c)
        rest == c + size
        m2   == SetLen(m1, rest, m1[c].len - size)
    IN  Overwritten(IF Splits(Chunk(c, m[c].len), size)
                    THEN list_add_tail(m2, IF next # NULL THEN next ELSE FreeList, rest)
                    ELSE m1, c)

\* One turn of miniheap_trim's loop.
TrimMem(m, c) ==
    LET chunk == Chunk(c, m[c].len)
        start == TrimStart(chunk)
        end   == TrimEnd(chunk)
        m1    == SetLen(SetLen(m, c, end - c), end, EndOf(chunk) - end)
        m2    == IF end < EndOf(chunk) THEN list_add_head(m1, c, end) ELSE m
    IN  IF ~Trims(chunk) THEN m
        ELSE IF start = c THEN Unlinked(m2, c)
        ELSE SetLen(m2, c, m2[c].len - (end - start))

\* list_for_every_entry_safe reads the next node before the turn.
TrimAll(m) ==
    LET turns == list_length(m, FreeList)
        at[k \in 0..turns] ==
            IF k = 0 THEN [mem |-> m, node |-> m[FreeList].next, next |-> m[m[FreeList].next].next]
            ELSE LET p == at[k - 1]
                     t == TrimMem(p.mem, p.node)
                 IN  [mem |-> t, node |-> p.next, next |-> t[p.next].next]
    IN  at[turns].mem

HLInit ==
    /\ Init
    /\ mem = InsertMem(list_initialize([a \in HeapCells \cup {FreeList} |-> Nothing], FreeList),
                       Base, Length)

AllocNext(want, al) ==
    /\ Alloc(want, al)
    /\ LET size == NeededSize(want, al)
       IN  mem' = IF al \in {0} \cup PowersOfTwo /\ Found(mem, size) # FreeList
                  THEN AllocMem(mem, size) ELSE mem

FreeNext(b) == FreeBlock(b) /\ mem' = InsertMem(mem, b.base, b.len)

ReallocNext(b, want) ==
    /\ Realloc(b, want)
    /\ LET size == NeededSize(want, 0)
       IN  mem' = IF want = 0 THEN InsertMem(mem, b.base, b.len)
                  ELSE IF Found(mem, size) = FreeList THEN mem
                  ELSE InsertMem(AllocMem(mem, size), b.base, b.len)

HLNext ==
    \/ \E want \in Requests, al \in {0} \cup Alignments : AllocNext(want, al)
    \/ \E b \in live : FreeNext(b) \/ \E want \in Requests : ReallocNext(b, want)
    \/ Trim /\ mem' = TrimAll(mem)

HLSpec == HLInit /\ [][HLNext]_hlvars

\* The pointers and lengths in memory are the free list: it leads through its
\* chunks in order and back, whatever was merged, split, cut or written over,
\* and what an operation finds by walking it is what Heap says it finds.
FreeListLinked ==
    /\ IsList(mem, FreeList, [i \in DOMAIN free |-> free[i].base])
    /\ \A i \in DOMAIN free : mem[free[i].base].len = free[i].len
=============================================================================
