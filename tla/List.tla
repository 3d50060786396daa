-------------------------------- MODULE List --------------------------------
(***************************************************************************)
(* The doubly linked lists of include/list.h: circular, the list's head a  *)
(* node among the nodes.  m is the memory of the nodes, a function from    *)
(* their addresses to their prev and next pointers.  Each operation makes  *)
(* the assignments of its function in their order, every one on the memory *)
(* the one before left, because list and item can be neighbours.           *)
(***************************************************************************)
EXTENDS Integers, Sequences, FiniteSets

CONSTANT NULL

SetPrev(m, a, b) == [m EXCEPT ![a].prev = b]
SetNext(m, a, b) == [m EXCEPT ![a].next = b]

list_initialize(m, list) == SetPrev(SetNext(m, list, list), list, list)
list_clear_node(m, item) == SetPrev(SetNext(m, item, NULL), item, NULL)
list_in_list(m, item)    == ~(m[item].prev = NULL /\ m[item].next = NULL)

\* Also list_add_after, with an entry for the list.
list_add_head(m, list, item) ==
    LET m1 == SetNext(m, item, m[list].next)
        m2 == SetPrev(m1, item, list)
        m3 == SetPrev(m2, m2[list].next, item)
    IN  SetNext(m3, list, item)

\* Mutant: the last entry is left pointing to the list.
list_add_tail_Unlinked(m, list, item) ==
    LET m1 == SetPrev(m, item, m[list].prev)
        m2 == SetNext(m1, item, list)
    IN  SetPrev(m2, list, item)

\* Also list_add_before.
list_add_tail(m, list, item) ==
    LET m1 == SetPrev(m, item, m[list].prev)
        m2 == SetNext(m1, item, list)
        m3 == SetNext(m2, m2[list].prev, item)
    IN  SetPrev(m3, list, item)

\* Mutant: the entry behind is left pointing to the deleted one.
list_delete_OneSide(m, item) ==
    list_clear_node(SetNext(m, m[item].prev, m[item].next), item)

list_delete(m, item) ==
    LET m1 == SetPrev(m, m[item].next, m[item].prev)
        m2 == SetNext(m1, m1[item].prev, m1[item].next)
    IN  list_clear_node(m2, item)

list_peek_head(m, list) == IF m[list].next # list THEN m[list].next ELSE NULL
list_peek_tail(m, list) == IF m[list].prev # list THEN m[list].prev ELSE NULL

\* The memory after the removal; the node returned is the one peeked at.
list_remove_head(m, list) ==
    IF m[list].next # list THEN list_delete(m, m[list].next) ELSE m
list_remove_tail(m, list) ==
    IF m[list].prev # list THEN list_delete(m, m[list].prev) ELSE m

list_next(m, list, item) == IF m[item].next # list THEN m[item].next ELSE NULL
list_prev(m, list, item) == IF m[item].prev # list THEN m[item].prev ELSE NULL

list_next_wrap(m, list, item) ==
    IF m[item].next # list THEN m[item].next ELSE list_next(m, list, m[item].next)
list_prev_wrap(m, list, item) ==
    IF m[item].prev # list THEN m[item].prev ELSE list_prev(m, list, m[item].prev)

list_is_empty(m, list) == m[list].next = list

\* The k-th node list_for_every comes to, the list's own for k = 0.
Walk(m, list, k) ==
    LET at[j \in 0..k] == IF j = 0 THEN list ELSE m[at[j - 1]].next
    IN  at[k]

\* list_length counts until the walk is back at the list.
list_length(m, list) ==
    (CHOOSE k \in 1..Cardinality(DOMAIN m) :
        Walk(m, list, k) = list /\ \A j \in 1..(k - 1) : Walk(m, list, j) # list) - 1

\* The list is the sequence s: so do the pointers say, in both directions.
Nth(list, s, k) == IF k \in 1..Len(s) THEN s[k] ELSE list
IsList(m, list, s) ==
    \A k \in 0..Len(s) :
        /\ m[Nth(list, s, k)].next = Nth(list, s, k + 1)
        /\ m[Nth(list, s, k + 1)].prev = Nth(list, s, k)
=============================================================================
