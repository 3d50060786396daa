--------------------------- MODULE RunQueueProofs ---------------------------
(* Proofs that the operations of list.h do to a list of any length what they *)
(* are to do to the sequence it stands for, and that the pointers of         *)
(* run_queue are therefore the queue the scheduler relies on.                *)
EXTENDS RunQueue, SchedProofs, FiniteSetTheorems, WellFoundedInduction

\* The memory of nodes at the addresses A, which may point to each other.
Nodes(A) == [A -> [prev : A \cup {NULL}, next : A \cup {NULL}]]

-----------------------------------------------------------------------------
(* What the assignments come to *)

\* list_clear_node touches the node it clears only.
LEMMA ClearPointers ==
    ASSUME NEW A, NEW m \in Nodes(A), NEW a \in A
    PROVE  LET r == list_clear_node(m, a)
           IN  /\ r \in Nodes(A)
               /\ \A c \in A :
                     /\ c = a => r[c].next = NULL
                     /\ c # a => r[c].next = m[c].next
                     /\ c = a => r[c].prev = NULL
                     /\ c # a => r[c].prev = m[c].prev
  <1> DEFINE m1 == SetNext(m, a, NULL)
  <1>0. NULL \in A \cup {NULL}
    OBVIOUS
  <1>1. /\ m1 \in Nodes(A)
        /\ \A c \in A : /\ c = a => m1[c].next = NULL
                        /\ c # a => m1[c].next = m[c].next
                        /\ m1[c].prev = m[c].prev
    BY <1>0 DEF Nodes, SetNext
  <1> HIDE DEF m1
  <1>2. /\ SetPrev(m1, a, NULL) \in Nodes(A)
        /\ \A c \in A : /\ SetPrev(m1, a, NULL)[c].next = m1[c].next
                        /\ c = a => SetPrev(m1, a, NULL)[c].prev = NULL
                        /\ c # a => SetPrev(m1, a, NULL)[c].prev = m1[c].prev
    BY <1>0, <1>1 DEF Nodes, SetPrev
  <1>3. list_clear_node(m, a) = SetPrev(m1, a, NULL)
    BY DEF list_clear_node, m1
  <1> QED BY <1>1, <1>2, <1>3

\* list_add_tail links the item between the list and what was last of it.
LEMMA AddTailPointers ==
    ASSUME NEW A, NEW m \in Nodes(A), NEW list \in A, NEW x \in A \ {list},
           m[list].prev \in A \ {x}
    PROVE  LET r == list_add_tail(m, list, x)
               last == m[list].prev
           IN  /\ r \in Nodes(A)
               /\ \A a \in A :
                     /\ r[a].next = IF a = last THEN x ELSE IF a = x THEN list ELSE m[a].next
                     /\ r[a].prev = IF a = list THEN x ELSE IF a = x THEN last ELSE m[a].prev
  <1> DEFINE last == m[list].prev
             m1 == SetPrev(m, x, last)
             m2 == SetNext(m1, x, list)
             m3 == SetNext(m2, last, x)
             m4 == SetPrev(m3, list, x)
  <1>0. /\ x \in A /\ last \in A
        /\ x \in A \cup {NULL} /\ last \in A \cup {NULL} /\ list \in A \cup {NULL}
    OBVIOUS
  <1>1. /\ m1 \in Nodes(A)
        /\ \A a \in A : /\ m1[a].next = m[a].next
                        /\ a = x => m1[a].prev = last
                        /\ a # x => m1[a].prev = m[a].prev
    BY <1>0 DEF Nodes, SetPrev
  <1> HIDE DEF m1
  <1>2. /\ m2 \in Nodes(A)
        /\ \A a \in A : /\ a = x => m2[a].next = list
                        /\ a # x => m2[a].next = m1[a].next
                        /\ m2[a].prev = m1[a].prev
    BY <1>0, <1>1 DEF Nodes, SetNext
  <1> HIDE DEF m2
  <1>3. /\ m3 \in Nodes(A)
        /\ \A a \in A : /\ a = last => m3[a].next = x
                        /\ a # last => m3[a].next = m2[a].next
                        /\ m3[a].prev = m2[a].prev
    BY <1>0, <1>2 DEF Nodes, SetNext
  <1> HIDE DEF m3
  <1>4. /\ m4 \in Nodes(A)
        /\ \A a \in A : /\ m4[a].next = m3[a].next
                        /\ a = list => m4[a].prev = x
                        /\ a # list => m4[a].prev = m3[a].prev
    BY <1>0, <1>3 DEF Nodes, SetPrev
  <1>5. m2[list].prev = last
    BY <1>1, <1>2
  <1>6. list_add_tail(m, list, x) = m4
    BY <1>5 DEF list_add_tail, m1, m2, m3, m4
  <1> HIDE DEF m4
  <1> QED BY <1>1, <1>2, <1>3, <1>4, <1>6

\* list_add_head links the item between the list and what was first of it.
LEMMA AddHeadPointers ==
    ASSUME NEW A, NEW m \in Nodes(A), NEW list \in A, NEW x \in A \ {list},
           m[list].next \in A \ {x}
    PROVE  LET r == list_add_head(m, list, x)
               first == m[list].next
           IN  /\ r \in Nodes(A)
               /\ \A a \in A :
                     /\ r[a].next = IF a = list THEN x ELSE IF a = x THEN first ELSE m[a].next
                     /\ r[a].prev = IF a = first THEN x ELSE IF a = x THEN list ELSE m[a].prev
  <1> DEFINE first == m[list].next
             m1 == SetNext(m, x, first)
             m2 == SetPrev(m1, x, list)
             m3 == SetPrev(m2, first, x)
             m4 == SetNext(m3, list, x)
  <1>0. /\ x \in A /\ first \in A
        /\ x \in A \cup {NULL} /\ first \in A \cup {NULL} /\ list \in A \cup {NULL}
    OBVIOUS
  <1>1. /\ m1 \in Nodes(A)
        /\ \A a \in A : /\ a = x => m1[a].next = first
                        /\ a # x => m1[a].next = m[a].next
                        /\ m1[a].prev = m[a].prev
    BY <1>0 DEF Nodes, SetNext
  <1> HIDE DEF m1
  <1>2. /\ m2 \in Nodes(A)
        /\ \A a \in A : /\ m2[a].next = m1[a].next
                        /\ a = x => m2[a].prev = list
                        /\ a # x => m2[a].prev = m1[a].prev
    BY <1>0, <1>1 DEF Nodes, SetPrev
  <1> HIDE DEF m2
  <1>3. /\ m3 \in Nodes(A)
        /\ \A a \in A : /\ m3[a].next = m2[a].next
                        /\ a = first => m3[a].prev = x
                        /\ a # first => m3[a].prev = m2[a].prev
    BY <1>0, <1>2 DEF Nodes, SetPrev
  <1> HIDE DEF m3
  <1>4. /\ m4 \in Nodes(A)
        /\ \A a \in A : /\ a = list => m4[a].next = x
                        /\ a # list => m4[a].next = m3[a].next
                        /\ m4[a].prev = m3[a].prev
    BY <1>0, <1>3 DEF Nodes, SetNext
  <1>5. m2[list].next = first
    BY <1>1, <1>2
  <1>6. list_add_head(m, list, x) = m4
    BY <1>5 DEF list_add_head, m1, m2, m3, m4
  <1> HIDE DEF m4
  <1> QED BY <1>1, <1>2, <1>3, <1>4, <1>6

\* list_delete links the neighbours of the item to each other, also when the
\* two are the same, and clears it.
LEMMA DeletePointers ==
    ASSUME NEW A, NEW m \in Nodes(A), NEW x \in A,
           m[x].prev \in A \ {x}, m[x].next \in A \ {x}
    PROVE  LET r == list_delete(m, x)
           IN  /\ r \in Nodes(A)
               /\ \A a \in A :
                     /\ r[a].next = IF a = x THEN NULL
                                    ELSE IF a = m[x].prev THEN m[x].next ELSE m[a].next
                     /\ r[a].prev = IF a = x THEN NULL
                                    ELSE IF a = m[x].next THEN m[x].prev ELSE m[a].prev
  <1> DEFINE p == m[x].prev
             n == m[x].next
             m1 == SetPrev(m, n, p)
             m2 == SetNext(m1, p, n)
             m3 == list_clear_node(m2, x)
  <1>0. /\ p \in A /\ n \in A
        /\ p \in A \cup {NULL} /\ n \in A \cup {NULL}
    OBVIOUS
  <1>1. /\ m1 \in Nodes(A)
        /\ \A a \in A : /\ m1[a].next = m[a].next
                        /\ a = n => m1[a].prev = p
                        /\ a # n => m1[a].prev = m[a].prev
    BY <1>0 DEF Nodes, SetPrev
  <1> HIDE DEF m1
  <1>2. /\ m2 \in Nodes(A)
        /\ \A a \in A : /\ a = p => m2[a].next = n
                        /\ a # p => m2[a].next = m1[a].next
                        /\ m2[a].prev = m1[a].prev
    BY <1>0, <1>1 DEF Nodes, SetNext
  <1> HIDE DEF m2
  <1>3. /\ m3 \in Nodes(A)
        /\ \A a \in A : /\ a = x => m3[a].next = NULL
                        /\ a # x => m3[a].next = m2[a].next
                        /\ a = x => m3[a].prev = NULL
                        /\ a # x => m3[a].prev = m2[a].prev
    BY <1>2, ClearPointers
  <1>4. m1[x].prev = p /\ m1[x].next = n
    BY <1>1
  <1>5. list_delete(m, x) = m3
    BY <1>4 DEF list_delete, m1, m2, m3
  <1> HIDE DEF m3
  <1> QED BY <1>1, <1>2, <1>3, <1>5

-----------------------------------------------------------------------------
(* What that means for the sequence a list is *)

\* list_add_tail makes a list with sequence s one with Append(s, x).
LEMMA AddTailList ==
    ASSUME NEW A, NEW m \in Nodes(A), NEW list \in A, NEW s \in Seq(A \ {list}),
           IsInjective(s), NEW x \in A \ {list}, x \notin Range(s), IsList(m, list, s)
    PROVE  /\ list_add_tail(m, list, x) \in Nodes(A)
           /\ IsList(list_add_tail(m, list, x), list, Append(s, x))
           /\ \A a \in A \ (Range(s) \cup {list, x}) : list_add_tail(m, list, x)[a] = m[a]
  <1> DEFINE r    == list_add_tail(m, list, x)
             t    == Append(s, x)
             n    == Len(s)
             last == Nth(list, s, n)
  <1>1. /\ n \in Nat /\ DOMAIN s = 1..n
        /\ \A k \in 1..n : s[k] \in A \ {list} /\ s[k] \in Range(s)
        /\ \A j, k \in 1..n : s[j] = s[k] => j = k
    BY LenProperties DEF IsInjective, Range
  <1>2. /\ Len(t) = n + 1 /\ t[n + 1] = x
        /\ \A k \in 1..n : t[k] = s[k]
    BY AppendProperties
  <1> HIDE DEF t, n
  <1>3. \A k \in 0..n : /\ m[Nth(list, s, k)].next = Nth(list, s, k + 1)
                        /\ m[Nth(list, s, k + 1)].prev = Nth(list, s, k)
    BY DEF IsList, n
  <1>4. /\ Nth(list, s, 0) = list /\ Nth(list, s, n + 1) = list
        /\ \A k \in 1..n : Nth(list, s, k) = s[k]
    BY <1>1 DEF Nth, n
  <1>5. /\ Nth(list, t, 0) = list /\ Nth(list, t, n + 1) = x /\ Nth(list, t, n + 2) = list
        /\ \A k \in 1..n : Nth(list, t, k) = s[k]
    BY <1>1, <1>2 DEF Nth
  <1>6. last \in A \ {x} /\ m[list].prev = last
    BY <1>1, <1>3, <1>4
  <1> HIDE DEF last
  <1>7. /\ r \in Nodes(A)
        /\ \A a \in A :
              /\ r[a].next = IF a = last THEN x ELSE IF a = x THEN list ELSE m[a].next
              /\ r[a].prev = IF a = list THEN x ELSE IF a = x THEN last ELSE m[a].prev
    BY <1>6, AddTailPointers
  <1> HIDE DEF r
  <1>8. ASSUME NEW k \in 0..(n + 1)
        PROVE  /\ r[Nth(list, t, k)].next = Nth(list, t, k + 1)
               /\ r[Nth(list, t, k + 1)].prev = Nth(list, t, k)
    <2>1. CASE k < n
      <3>1. /\ Nth(list, t, k) = Nth(list, s, k) /\ Nth(list, t, k + 1) = s[k + 1]
            /\ Nth(list, s, k) \in A \ {x} /\ s[k + 1] \in A \ {list, x}
        BY <1>1, <1>4, <1>5, <2>1
      <3>2. Nth(list, s, k) # last
        BY <1>1, <1>4, <2>1 DEF last
      <3> QED BY <1>1, <1>3, <1>4, <1>7, <2>1, <3>1, <3>2
    <2>2. CASE k = n
      <3>1. Nth(list, t, k) = last /\ Nth(list, t, k + 1) = x
        BY <1>1, <1>4, <1>5, <2>2 DEF last
      <3> QED BY <1>6, <1>7, <3>1
    <2>3. CASE k = n + 1
      BY <1>1, <1>5, <1>6, <1>7, <2>3
    <2> QED BY <1>1, <2>1, <2>2, <2>3
  <1>9. IsList(r, list, t)
    BY <1>2, <1>8 DEF IsList
  <1>10. ASSUME NEW a \in A \ (Range(s) \cup {list, x}) PROVE r[a] = m[a]
    <2>1. last # a
      BY <1>1, <1>4 DEF last
    <2>2. r[a].next = m[a].next /\ r[a].prev = m[a].prev
      BY <1>7, <2>1
    <2>3. /\ r[a] \in [prev : A \cup {NULL}, next : A \cup {NULL}]
          /\ m[a] \in [prev : A \cup {NULL}, next : A \cup {NULL}]
      BY <1>7 DEF Nodes
    <2> QED BY <2>2, <2>3
  <1> QED BY <1>7, <1>9, <1>10 DEF r, t

\* list_add_head makes a list with sequence s one with <<x>> \o s.
LEMMA AddHeadList ==
    ASSUME NEW A, NEW m \in Nodes(A), NEW list \in A, NEW s \in Seq(A \ {list}),
           IsInjective(s), NEW x \in A \ {list}, x \notin Range(s), IsList(m, list, s)
    PROVE  /\ list_add_head(m, list, x) \in Nodes(A)
           /\ IsList(list_add_head(m, list, x), list, <<x>> \o s)
           /\ \A a \in A \ (Range(s) \cup {list, x}) : list_add_head(m, list, x)[a] = m[a]
  <1> DEFINE r     == list_add_head(m, list, x)
             t     == <<x>> \o s
             n     == Len(s)
             first == Nth(list, s, 1)
  <1>1. /\ n \in Nat /\ DOMAIN s = 1..n
        /\ \A k \in 1..n : s[k] \in A \ {list} /\ s[k] \in Range(s)
        /\ \A j, k \in 1..n : s[j] = s[k] => j = k
    BY LenProperties DEF IsInjective, Range
  <1>2. /\ Len(t) = n + 1 /\ t[1] = x
        /\ \A k \in 2..(n + 1) : t[k] = s[k - 1]
    <2>1. <<x>> \in Seq(A \ {list}) /\ Len(<<x>>) = 1 /\ <<x>>[1] = x
      OBVIOUS
    <2>2. /\ Len(t) = 1 + n
          /\ \A k \in 1..(1 + n) : t[k] = IF k <= 1 THEN <<x>>[k] ELSE s[k - 1]
      BY <2>1, ConcatProperties
    <2> QED BY <1>1, <2>1, <2>2
  <1> HIDE DEF t, n
  <1>3. \A k \in 0..n : /\ m[Nth(list, s, k)].next = Nth(list, s, k + 1)
                        /\ m[Nth(list, s, k + 1)].prev = Nth(list, s, k)
    BY DEF IsList, n
  <1>4. /\ Nth(list, s, 0) = list /\ Nth(list, s, n + 1) = list
        /\ \A k \in 1..n : Nth(list, s, k) = s[k]
    BY <1>1 DEF Nth, n
  <1>5. /\ Nth(list, t, 0) = list /\ Nth(list, t, 1) = x
        /\ \A k \in 2..(n + 2) : Nth(list, t, k) = Nth(list, s, k - 1)
    BY <1>1, <1>2, <1>4 DEF Nth
  <1>6. first \in A \ {x} /\ m[list].next = first
    BY <1>1, <1>3, <1>4
  <1> HIDE DEF first
  <1>7. /\ r \in Nodes(A)
        /\ \A a \in A :
              /\ r[a].next = IF a = list THEN x ELSE IF a = x THEN first ELSE m[a].next
              /\ r[a].prev = IF a = first THEN x ELSE IF a = x THEN list ELSE m[a].prev
    BY <1>6, AddHeadPointers
  <1> HIDE DEF r
  <1>8. ASSUME NEW k \in 0..(n + 1)
        PROVE  /\ r[Nth(list, t, k)].next = Nth(list, t, k + 1)
               /\ r[Nth(list, t, k + 1)].prev = Nth(list, t, k)
    <2>1. CASE k = 0
      BY <1>5, <1>6, <1>7, <2>1
    <2>2. CASE k = 1
      <3>1. Nth(list, t, k) = x /\ Nth(list, t, k + 1) = first
        BY <1>1, <1>5, <2>2 DEF first
      <3> QED BY <1>6, <1>7, <3>1
    <2>3. CASE k > 1
      <3>1. /\ Nth(list, t, k) = s[k - 1] /\ Nth(list, t, k + 1) = Nth(list, s, k)
            /\ s[k - 1] \in A \ {list, x} /\ Nth(list, s, k) \in A \ {x}
        BY <1>1, <1>4, <1>5, <2>3
      <3>2. Nth(list, s, k) # first
        BY <1>1, <1>4, <2>3 DEF first
      <3>3. m[s[k - 1]].next = Nth(list, s, k) /\ m[Nth(list, s, k)].prev = s[k - 1]
        <4>1. k - 1 \in 0..n /\ (k - 1) + 1 = k /\ k - 1 \in 1..n
          BY <1>1, <2>3
        <4> QED BY <1>3, <1>4, <4>1
      <3> QED BY <1>7, <3>1, <3>2, <3>3
    <2> QED BY <1>1, <2>1, <2>2, <2>3
  <1>9. IsList(r, list, t)
    BY <1>2, <1>8 DEF IsList
  <1>10. ASSUME NEW a \in A \ (Range(s) \cup {list, x}) PROVE r[a] = m[a]
    <2>1. first # a
      BY <1>1, <1>4 DEF first
    <2>2. r[a].next = m[a].next /\ r[a].prev = m[a].prev
      BY <1>7, <2>1
    <2>3. /\ r[a] \in [prev : A \cup {NULL}, next : A \cup {NULL}]
          /\ m[a] \in [prev : A \cup {NULL}, next : A \cup {NULL}]
      BY <1>7 DEF Nodes
    <2> QED BY <2>2, <2>3
  <1> QED BY <1>7, <1>9, <1>10 DEF r, t

\* list_remove_head makes a list with sequence s one with Tail(s), and clears
\* the node of the entry it removes.
LEMMA RemoveHeadList ==
    ASSUME NEW A, NEW m \in Nodes(A), NEW list \in A, NEW s \in Seq(A \ {list}),
           IsInjective(s), s # <<>>, IsList(m, list, s)
    PROVE  /\ list_remove_head(m, list) \in Nodes(A)
           /\ IsList(list_remove_head(m, list), list, Tail(s))
           /\ ~list_in_list(list_remove_head(m, list), Head(s))
           /\ \A a \in A \ (Range(s) \cup {list}) : list_remove_head(m, list)[a] = m[a]
  <1> DEFINE r == list_remove_head(m, list)
             t == Tail(s)
             n == Len(s)
             x == s[1]
             second == Nth(list, s, 2)
  <1>1. /\ n \in Nat \ {0} /\ DOMAIN s = 1..n
        /\ \A k \in 1..n : s[k] \in A \ {list} /\ s[k] \in Range(s)
        /\ \A j, k \in 1..n : s[j] = s[k] => j = k
    BY LenProperties, EmptySeq DEF IsInjective, Range
  <1>2. /\ Len(t) = n - 1 /\ Head(s) = x
        /\ \A k \in 1..(n - 1) : t[k] = s[k + 1]
    BY HeadTailProperties
  <1> HIDE DEF t, n
  <1>3. \A k \in 0..n : /\ m[Nth(list, s, k)].next = Nth(list, s, k + 1)
                        /\ m[Nth(list, s, k + 1)].prev = Nth(list, s, k)
    BY DEF IsList, n
  <1>4. /\ Nth(list, s, 0) = list /\ Nth(list, s, n + 1) = list
        /\ \A k \in 1..n : Nth(list, s, k) = s[k]
    BY <1>1 DEF Nth, n
  <1>5. /\ Nth(list, t, 0) = list
        /\ \A k \in 1..n : Nth(list, t, k) = Nth(list, s, k + 1)
    BY <1>1, <1>2, <1>4 DEF Nth
  <1>6. /\ x \in A \ {list} /\ second \in A \ {x}
        /\ m[list].next = x /\ m[x].prev = list /\ m[x].next = second
    BY <1>1, <1>3, <1>4
  <1> HIDE DEF x, second
  <1>7. /\ r \in Nodes(A)
        /\ \A a \in A :
              /\ r[a].next = IF a = x THEN NULL ELSE IF a = list THEN second ELSE m[a].next
              /\ r[a].prev = IF a = x THEN NULL ELSE IF a = second THEN list ELSE m[a].prev
    <2>1. r = list_delete(m, x)
      BY <1>6 DEF list_remove_head
    <2> HIDE DEF r
    <2> QED BY <1>6, <2>1, DeletePointers
  <1> HIDE DEF r
  <1>8. ASSUME NEW k \in 0..(n - 1)
        PROVE  /\ r[Nth(list, t, k)].next = Nth(list, t, k + 1)
               /\ r[Nth(list, t, k + 1)].prev = Nth(list, t, k)
    <2>1. CASE k = 0
      <3>1. Nth(list, t, k) = list /\ Nth(list, t, k + 1) = second
        BY <1>1, <1>5, <2>1 DEF second
      <3> QED BY <1>6, <1>7, <3>1
    <2>2. CASE k > 0
      <3>1. /\ Nth(list, t, k) = s[k + 1] /\ Nth(list, t, k + 1) = Nth(list, s, k + 2)
            /\ s[k + 1] \in A \ {list, x} /\ Nth(list, s, k + 2) \in A \ {x}
        <4>1. k \in 1..n /\ k + 1 \in 1..n /\ (k + 1) + 1 = k + 2
          BY <1>1, <2>2
        <4>2. Nth(list, s, k + 2) \in A \ {x}
          <5>1. CASE k + 2 = n + 1
            BY <1>4, <1>6, <5>1
          <5>2. CASE k + 2 \in 1..n
            BY <1>1, <1>4, <1>6, <2>2, <5>2 DEF x
          <5> QED BY <1>1, <2>2, <5>1, <5>2
        <4> QED BY <1>1, <1>4, <1>5, <2>2, <4>1, <4>2 DEF x
      <3>2. Nth(list, s, k + 2) # second
        <4>1. CASE k + 2 = n + 1
          <5>1. second = s[2] /\ s[2] # list
            BY <1>1, <1>4, <2>2, <4>1 DEF second
          <5> QED BY <1>4, <4>1, <5>1
        <4>2. CASE k + 2 \in 1..n
          <5>1. second = s[2]
            BY <1>1, <1>4, <2>2, <4>2 DEF second
          <5> QED BY <1>1, <1>4, <2>2, <4>2, <5>1
        <4> QED BY <1>1, <2>2, <4>1, <4>2
      <3>3. m[s[k + 1]].next = Nth(list, s, k + 2) /\ m[Nth(list, s, k + 2)].prev = s[k + 1]
        <4>1. k + 1 \in 0..n /\ (k + 1) + 1 = k + 2 /\ k + 1 \in 1..n
          BY <1>1, <2>2
        <4> QED BY <1>3, <1>4, <4>1
      <3> QED BY <1>7, <3>1, <3>2, <3>3
    <2> QED BY <1>1, <2>1, <2>2
  <1>9. IsList(r, list, t)
    BY <1>1, <1>2, <1>8 DEF IsList
  <1>10. ASSUME NEW a \in A \ (Range(s) \cup {list}) PROVE r[a] = m[a]
    <2>1. second # a /\ x # a
      BY <1>1, <1>4 DEF second, x, Nth, n
    <2>2. r[a].next = m[a].next /\ r[a].prev = m[a].prev
      BY <1>7, <2>1
    <2>3. /\ r[a] \in [prev : A \cup {NULL}, next : A \cup {NULL}]
          /\ m[a] \in [prev : A \cup {NULL}, next : A \cup {NULL}]
      BY <1>7 DEF Nodes
    <2> QED BY <2>2, <2>3
  <1>11. ~list_in_list(r, Head(s))
    BY <1>2, <1>6, <1>7 DEF list_in_list
  <1> QED BY <1>7, <1>9, <1>10, <1>11 DEF r, t

\* The entries of a list are in a list, as list_in_list has it.
LEMMA MembersInList ==
    ASSUME NEW A, NEW m \in Nodes(A), NEW list \in A, NULL \notin A,
           NEW s \in Seq(A \ {list}), IsList(m, list, s), NEW a \in Range(s)
    PROVE  list_in_list(m, a)
  <1>1. /\ Len(s) \in Nat /\ DOMAIN s = 1..Len(s)
        /\ \A k \in 1..Len(s) : s[k] \in A
    BY LenProperties
  <1>2. PICK k \in 1..Len(s) : s[k] = a
    BY <1>1 DEF Range
  <1>3. Nth(list, s, k) = a /\ Nth(list, s, k + 1) \in A
    BY <1>1, <1>2 DEF Nth
  <1>4. m[a].next = Nth(list, s, k + 1)
    BY <1>1, <1>2, <1>3 DEF IsList
  <1> QED BY <1>3, <1>4 DEF list_in_list

-----------------------------------------------------------------------------
(* The run queue *)

\* The nodes of all tasks and of run_queue itself.
Addr == Task \cup {Queue}
NodesInv == nodes \in Nodes(Addr) /\ QueueLinked

\* What the list lemmas ask of the queue, and what the scheduler's invariant
\* says of it.
LEMMA QueueFacts ==
    ASSUME IInv
    PROVE  /\ Queue \in Addr /\ NULL \notin Addr /\ Addr \ {Queue} = Task
           /\ run_queue \in Seq(Addr \ {Queue}) /\ IsInjective(run_queue)
           /\ \A t \in Range(run_queue) : t \in Task /\ state[t] = "READY"
  <1>1. run_queue \in Seq(Client) /\ Client \subseteq Task
    BY DEF IInv, TypeOK, Task
  <1>2. run_queue \in Seq(Task)
    BY <1>1, SeqMonotonic
  <1>3. Queue \in Addr /\ NULL \notin Addr /\ Addr \ {Queue} = Task
    BY RunQueueAssumption DEF Addr
  <1> QED BY <1>2, <1>3 DEF IInv, QueueInv

\* A task that is started or goes back to the queue is not in it.
LEMMA StartedNotQueued ==
    ASSUME IInv, StartAdd
    PROVE  arg \in Task /\ arg \notin Range(run_queue) /\ run_queue' = <<arg>> \o run_queue
  <1>1. Here = "start_add"
    BY DEF StartAdd, At, Here, Where
  <1> QED BY <1>1 DEF IInv, FrameInv, QueueInv, InHand, StartAdd, StartLabel, Task

LEMMA YielderNotQueued ==
    ASSUME IInv, RsAdd
    PROVE  /\ current_task \in Task /\ current_task \notin Range(run_queue)
           /\ run_queue' = Append(run_queue, current_task)
  <1>1. Here = "rs_add" /\ current_task \in Task
    BY DEF RsAdd, At, Here, Where, IInv, TypeOK
  <1>2. ret[cpu] = "user" /\ cpu = current_task /\ cpu # Idle
    BY <1>1 DEF IInv, StateInv, FrameInv, ReschedLabel
  <1>3. InHand = {current_task}
    BY <1>1, <1>2 DEF InHand
  <1> QED BY <1>1, <1>3 DEF IInv, QueueInv, RsAdd

\* Clearing the node of a task that is not in the queue, as task_create does,
\* leaves the queue alone.
LEMMA ClearKeepsQueue ==
    ASSUME IInv, NodesInv, NEW u \in Task, u \notin Range(run_queue),
           nodes' = list_clear_node(nodes, u), run_queue' = run_queue
    PROVE  NodesInv'
  <1> DEFINE n == Len(run_queue)
  <1>0. nodes \in Nodes(Addr) /\ u \in Addr /\ u # Queue
    BY QueueFacts DEF NodesInv, Addr
  <1>1. /\ nodes' \in Nodes(Addr)
        /\ \A c \in Addr :
              /\ nodes'[c].next = IF c = u THEN NULL ELSE nodes[c].next
              /\ nodes'[c].prev = IF c = u THEN NULL ELSE nodes[c].prev
    BY <1>0, ClearPointers
  <1>2. \A k \in 0..(n + 1) : Nth(Queue, run_queue, k) \in Addr \ {u}
    <2>1. /\ n \in Nat /\ DOMAIN run_queue = 1..n
          /\ \A k \in 1..n : run_queue[k] \in Addr /\ run_queue[k] \in Range(run_queue)
      BY QueueFacts, LenProperties DEF Range
    <2> QED BY <1>0, <2>1, QueueFacts DEF Nth
  <1>3. IsList(nodes, Queue, run_queue) /\ n \in Nat
    BY QueueFacts, LenProperties DEF NodesInv, QueueLinked
  <1>4. IsList(nodes', Queue, run_queue)
    BY <1>1, <1>2, <1>3 DEF IsList
  <1>5. \A t \in Task : list_in_list(nodes', t) <=> t \in Range(run_queue)
    BY <1>1 DEF NodesInv, QueueLinked, list_in_list, Addr
  <1> QED BY <1>1, <1>4, <1>5 DEF NodesInv, QueueLinked

\* The list of the next state, given that nodes that came into or went out of
\* it are the only ones that changed.
LEMMA LinkedAfter ==
    ASSUME IInv, IInv', NodesInv, nodes' \in Nodes(Addr), IsList(nodes', Queue, run_queue'),
           \A t \in Task : t \notin Range(run_queue') =>
               ~list_in_list(nodes', t) \/ (t \notin Range(run_queue) /\ nodes'[t] = nodes[t])
    PROVE  NodesInv'
  <1>1. /\ Queue \in Addr /\ NULL \notin Addr
        /\ run_queue' \in Seq(Addr \ {Queue})
    <2>1. run_queue' \in Seq(Client) /\ Client \subseteq Addr \ {Queue}
      BY QueueFacts DEF IInv, TypeOK, Task, Addr
    <2> QED BY <2>1, QueueFacts, SeqMonotonic
  <1>2. \A t \in Range(run_queue') : list_in_list(nodes', t)
    BY <1>1, MembersInList
  <1>3. ASSUME NEW t \in Task, t \notin Range(run_queue') PROVE ~list_in_list(nodes', t)
    BY <1>3 DEF NodesInv, QueueLinked, list_in_list
  <1> QED BY <1>2, <1>3 DEF NodesInv, QueueLinked

\* The pointers are the queue initially.
LEMMA InitLinked == RQInit => NodesInv
  <1> SUFFICES ASSUME RQInit PROVE NodesInv
    OBVIOUS
  <1>1. /\ run_queue = <<>> /\ Len(run_queue) = 0 /\ Range(run_queue) = {}
        /\ Queue \in Addr /\ Queue \notin Task
    BY RunQueueAssumption DEF RQInit, Init, Range, Addr
  <1>2. /\ nodes \in Nodes(Addr)
        /\ nodes[Queue].next = Queue /\ nodes[Queue].prev = Queue
        /\ \A t \in Task : nodes[t].next = NULL /\ nodes[t].prev = NULL
    BY <1>1 DEF RQInit, list_initialize, SetPrev, SetNext, Cleared, Nodes, Addr
  <1>3. IsList(nodes, Queue, run_queue)
    BY <1>1, <1>2 DEF IsList, Nth
  <1> QED BY <1>1, <1>2, <1>3 DEF NodesInv, QueueLinked, list_in_list

\* The step of the code that starts a task.
LEMMA StartLinked ==
    ASSUME IInv, IInv', NodesInv, StartAdd, nodes' = list_add_head(nodes, Queue, arg)
    PROVE  NodesInv'
  <1>1. arg \in Addr \ {Queue} /\ arg \notin Range(run_queue) /\ run_queue' = <<arg>> \o run_queue
    BY StartedNotQueued, QueueFacts
  <1>2. nodes \in Nodes(Addr) /\ IsList(nodes, Queue, run_queue)
    BY DEF NodesInv, QueueLinked
  <1>3. /\ nodes' \in Nodes(Addr) /\ IsList(nodes', Queue, run_queue')
        /\ \A a \in Addr \ (Range(run_queue) \cup {Queue, arg}) : nodes'[a] = nodes[a]
    BY <1>1, <1>2, QueueFacts, AddHeadList
  <1>4. Range(run_queue') = Range(run_queue) \cup {arg}
    BY <1>1, QueueFacts, PrependMembers
  <1> QED BY <1>3, <1>4, LinkedAfter, QueueFacts

\* The step that puts a task that yields at the end.
LEMMA YieldLinked ==
    ASSUME IInv, IInv', NodesInv, RsAdd, nodes' = list_add_tail(nodes, Queue, current_task)
    PROVE  NodesInv'
  <1>1. /\ current_task \in Addr \ {Queue} /\ current_task \notin Range(run_queue)
        /\ run_queue' = Append(run_queue, current_task)
    BY YielderNotQueued, QueueFacts
  <1>2. nodes \in Nodes(Addr) /\ IsList(nodes, Queue, run_queue)
    BY DEF NodesInv, QueueLinked
  <1>3. /\ nodes' \in Nodes(Addr) /\ IsList(nodes', Queue, run_queue')
        /\ \A a \in Addr \ (Range(run_queue) \cup {Queue, current_task}) : nodes'[a] = nodes[a]
    BY <1>1, <1>2, QueueFacts, AddTailList
  <1>4. Range(run_queue') = Range(run_queue) \cup {current_task}
    BY <1>1, QueueFacts, AppendMembers
  <1> QED BY <1>3, <1>4, LinkedAfter, QueueFacts

\* The step that takes the next task from the queue, or finds it empty.
LEMMA PickLinked ==
    ASSUME IInv, IInv', NodesInv, RsPick, nodes' = list_remove_head(nodes, Queue)
    PROVE  NodesInv'
  <1>1. nodes \in Nodes(Addr) /\ IsList(nodes, Queue, run_queue)
    BY DEF NodesInv, QueueLinked
  <1>2. CASE run_queue = <<>>
    <2>1. nodes[Queue].next = Queue
      BY <1>1, <1>2 DEF IsList, Nth
    <2>2. nodes' = nodes /\ run_queue' = run_queue
      BY <1>2, <2>1 DEF list_remove_head, RsPick
    <2> QED BY <2>2 DEF NodesInv, QueueLinked
  <1>3. CASE run_queue # <<>>
    <2>1. run_queue' = Tail(run_queue)
      BY <1>3 DEF RsPick
    <2>2. /\ nodes' \in Nodes(Addr) /\ IsList(nodes', Queue, run_queue')
          /\ ~list_in_list(nodes', Head(run_queue))
          /\ \A a \in Addr \ (Range(run_queue) \cup {Queue}) : nodes'[a] = nodes[a]
      BY <1>1, <1>3, <2>1, QueueFacts, RemoveHeadList
    <2>3. Range(run_queue') = Range(run_queue) \ {Head(run_queue)}
      BY <1>3, <2>1, QueueFacts, TailMembers
    <2> QED BY <2>2, <2>3, LinkedAfter, QueueFacts
  <1> QED BY <1>2, <1>3

\* Every step of the code on the pointers is one of the scheduler on its queue.
LEMMA StepIsSched == [RQNext]_rqvars => [Next]_vars
  BY DEF RQNext, Elsewhere, Next, KernelStep, ClientStep, rqvars, vars

\* The steps that do not touch the nodes do not touch the queue.
LEMMA ElsewhereKeepsQueue ==
    ASSUME Elsewhere \/ UNCHANGED vars
    PROVE  run_queue' = run_queue
  BY DEF Elsewhere, vars, Cli, Sti, Trampoline, StartCheck, StartExit, RsOld, RsRun,
         RsSwitch, RsExit, ExitDead, BootStart, BecomeIdle, IdleExit, UserStart,
         UserYield, UserEnter, UserLeave, UserExit, RaiseIrq, TakeIrq, CallStart,
         CallReschedule

\* The scheduler's invariant and the memory's, which the properties follow from.
LEMMA QueueInvariance == RQSpec => [](IInv /\ NodesInv)
  <1>1. RQSpec => Spec
    <2>1. RQInit => Init
      BY DEF RQInit
    <2> QED BY <2>1, StepIsSched, PTL DEF RQSpec, Spec
  <1>2. ASSUME IInv, IInv', NodesInv, [RQNext]_rqvars PROVE NodesInv'
    <2>1. CASE StartAdd /\ nodes' = list_add_head(nodes, Queue, arg)
      BY <1>2, <2>1, StartLinked
    <2>2. CASE RsAdd /\ nodes' = list_add_tail(nodes, Queue, current_task)
      BY <1>2, <2>2, YieldLinked
    <2>3. CASE RsPick /\ nodes' = list_remove_head(nodes, Queue)
      BY <1>2, <2>3, PickLinked
    <2>4. CASE BootCreate /\ nodes' = list_clear_node(nodes, Boot)
      <3>1. Boot \in Task /\ Boot \in Client /\ state[Boot] = "none" /\ run_queue' = run_queue
        BY <1>2, <2>4, SchedAssumption DEF BootCreate, At, IInv, StateInv, Here, Where, Task
      <3>2. Boot \notin Range(run_queue)
        BY <1>2, <3>1, QueueFacts
      <3> QED BY <1>2, <2>4, <3>1, <3>2, ClearKeepsQueue
    <2>5. ASSUME NEW u \in Client, UserCreate(u), nodes' = list_clear_node(nodes, u)
          PROVE  NodesInv'
      <3>1. u \in Task /\ state[u] # "READY" /\ run_queue' = run_queue
        BY <2>5 DEF UserCreate, Task
      <3>2. u \notin Range(run_queue)
        BY <1>2, <3>1, QueueFacts
      <3> QED BY <1>2, <2>5, <3>1, <3>2, ClearKeepsQueue
    <2>6. CASE (Elsewhere \/ UNCHANGED vars) /\ UNCHANGED nodes
      <3>1. run_queue' = run_queue /\ nodes' = nodes
        BY <2>6, ElsewhereKeepsQueue
      <3> QED BY <1>2, <3>1 DEF NodesInv, QueueLinked
    <2> QED BY <1>2, <2>1, <2>2, <2>3, <2>4, <2>5, <2>6 DEF RQNext, rqvars
  <1>3. RQSpec => []IInv
    BY <1>1, Invariance, PTL
  <1> QED BY <1>2, <1>3, InitLinked, PTL DEF RQSpec

\* With any number of tasks, whatever they start, yield and exit, the pointers
\* of task.c's run_queue lead through the tasks of the queue in order and back,
\* and no other task's node is linked anywhere.
THEOREM PointersAreQueue == RQSpec => []QueueLinked
  <1>1. NodesInv => QueueLinked
    BY DEF NodesInv
  <1> QED BY <1>1, QueueInvariance, PTL

-----------------------------------------------------------------------------
(* What readers of a list are answered *)

\* A list of any length, and what its pointers say.
Linked(A, m, list, s) ==
    /\ m \in Nodes(A) /\ list \in A /\ NULL \notin A
    /\ s \in Seq(A \ {list}) /\ IsInjective(s) /\ IsList(m, list, s)

\* The nodes of the list, from the list's own to the list's own again.
LEMMA NthFacts ==
    ASSUME NEW A, NEW m, NEW list, NEW s, Linked(A, m, list, s), NEW n, n = Len(s)
    PROVE  /\ n \in Nat
           /\ Nth(list, s, 0) = list /\ Nth(list, s, n + 1) = list
           /\ \A k \in 1..n : Nth(list, s, k) = s[k]
           /\ \A k \in 1..n : s[k] \in A /\ s[k] # list /\ s[k] # NULL
           /\ \A j, k \in 1..n : s[j] = s[k] => j = k
           /\ \A k \in 0..n : /\ m[Nth(list, s, k)].next = Nth(list, s, k + 1)
                              /\ m[Nth(list, s, k + 1)].prev = Nth(list, s, k)
  <1>1. /\ n \in Nat /\ DOMAIN s = 1..n /\ \A k \in 1..n : s[k] \in A \ {list}
    BY LenProperties DEF Linked
  <1>2. \A j, k \in 1..n : s[j] = s[k] => j = k
    BY <1>1 DEF Linked, IsInjective
  <1>3. Nth(list, s, 0) = list /\ Nth(list, s, n + 1) = list
        /\ \A k \in 1..n : Nth(list, s, k) = s[k]
    BY <1>1 DEF Nth
  <1>4. \A k \in 0..n : /\ m[Nth(list, s, k)].next = Nth(list, s, k + 1)
                        /\ m[Nth(list, s, k + 1)].prev = Nth(list, s, k)
    BY DEF Linked, IsList
  <1> QED BY <1>1, <1>2, <1>3, <1>4 DEF Linked

\* Nodes of the list at different places are different.
LEMMA NthDistinct ==
    ASSUME NEW A, NEW m, NEW list, NEW s, Linked(A, m, list, s), NEW n, n = Len(s)
    PROVE  /\ \A k \in 0..(n + 1) : Nth(list, s, k) \in A
           /\ \A j, k \in 0..n : Nth(list, s, j) = Nth(list, s, k) => j = k
           /\ \A j, k \in 1..(n + 1) : Nth(list, s, j) = Nth(list, s, k) => j = k
  <1>1. /\ n \in Nat /\ list \in A
        /\ Nth(list, s, 0) = list /\ Nth(list, s, n + 1) = list
        /\ \A k \in 1..n : Nth(list, s, k) \in A /\ Nth(list, s, k) # list
        /\ \A j, k \in 1..n : Nth(list, s, j) = Nth(list, s, k) => j = k
    BY NthFacts DEF Linked
  <1>2. \A k \in 0..(n + 1) : k = 0 \/ k = n + 1 \/ k \in 1..n
    BY <1>1
  <1>3. \A k \in 0..n : k = 0 \/ k \in 1..n
    BY <1>1
  <1>4. \A k \in 1..(n + 1) : k = n + 1 \/ k \in 1..n
    BY <1>1
  <1>5. \A k \in 0..(n + 1) : Nth(list, s, k) \in A
    BY <1>1, <1>2, Zenon
  <1>6. \A j, k \in 0..n : Nth(list, s, j) = Nth(list, s, k) => j = k
    BY <1>1, <1>3
  <1>7. \A j, k \in 1..(n + 1) : Nth(list, s, j) = Nth(list, s, k) => j = k
    BY <1>1, <1>4
  <1> QED BY <1>5, <1>6, <1>7

\* Peeking at the ends, and asking whether the list is empty.
LEMMA EndsRead ==
    ASSUME NEW A, NEW m, NEW list, NEW s, Linked(A, m, list, s), NEW n, n = Len(s)
    PROVE  /\ list_peek_head(m, list) = IF n = 0 THEN NULL ELSE s[1]
           /\ list_peek_tail(m, list) = IF n = 0 THEN NULL ELSE s[n]
           /\ list_is_empty(m, list) <=> n = 0
  <1>1. /\ n \in Nat
        /\ m[list].next = Nth(list, s, 1) /\ m[list].prev = Nth(list, s, n)
    <2>1. n \in Nat /\ 0 \in 0..n /\ n \in 0..n
      BY NthFacts
    <2>2. m[Nth(list, s, 0)].next = Nth(list, s, 0 + 1)
          /\ m[Nth(list, s, n + 1)].prev = Nth(list, s, n)
      BY <2>1, NthFacts
    <2>3. Nth(list, s, 0) = list /\ Nth(list, s, n + 1) = list
      BY NthFacts
    <2> QED BY <2>1, <2>2, <2>3
  <1>2. CASE n = 0
    <2>1. m[list].next = list /\ m[list].prev = list
      <3>1. Nth(list, s, 0) = list /\ Nth(list, s, n + 1) = list
        BY NthFacts
      <3>2. n + 1 = 1
        BY <1>2
      <3> QED BY <1>1, <1>2, <3>1, <3>2
    <2> QED BY <1>2, <2>1 DEF list_peek_head, list_peek_tail, list_is_empty
  <1>3. CASE n # 0
    <2>1. 1 \in 1..n /\ n \in 1..n
      BY <1>1, <1>3
    <2>2. m[list].next = s[1] /\ m[list].prev = s[n] /\ s[1] # list /\ s[n] # list
      BY <1>1, <2>1, NthFacts
    <2> QED BY <1>3, <2>2 DEF list_peek_head, list_peek_tail, list_is_empty
  <1> QED BY <1>2, <1>3

\* Remainders of places that go around.
LEMMA Around ==
    ASSUME NEW n \in Nat \ {0}
    PROVE  /\ n % n = 0
           /\ \A r \in 0..(n - 1) : r % n = r /\ (n + r) % n = r
  <1>1. ASSUME NEW r \in 0..(n - 1), NEW q \in Nat PROVE (n * q + r) % n = r
    OBVIOUS
  <1>2. ASSUME NEW r \in 0..(n - 1) PROVE r % n = r /\ (n + r) % n = r
    <2>1. (n * 0 + r) % n = r /\ (n * 1 + r) % n = r
      BY <1>1
    <2> QED BY <2>1
  <1>3. 0 \in 0..(n - 1) /\ n + 0 = n
    OBVIOUS
  <1> QED BY <1>2, <1>3

\* The neighbours of an entry, where the list ends and where it goes around.
NeighboursAre(m, list, s, n, k) ==
    /\ list_next(m, list, s[k]) = IF k = n THEN NULL ELSE s[k + 1]
    /\ list_prev(m, list, s[k]) = IF k = 1 THEN NULL ELSE s[k - 1]
    /\ list_next_wrap(m, list, s[k]) = s[(k % n) + 1]
    /\ list_prev_wrap(m, list, s[k]) = s[((k + n - 2) % n) + 1]

LEMMA NeighboursRead ==
    ASSUME NEW A, NEW m, NEW list, NEW s, Linked(A, m, list, s), NEW n, n = Len(s),
           NEW k \in 1..n
    PROVE  NeighboursAre(m, list, s, n, k)
  <1>1. /\ n \in Nat \ {0} /\ k \in Nat /\ k >= 1 /\ k <= n
        /\ m[s[k]].next = Nth(list, s, k + 1) /\ m[s[k]].prev = Nth(list, s, k - 1)
    <2>1. n \in Nat /\ k \in 0..n /\ k - 1 \in 0..n /\ (k - 1) + 1 = k
      BY NthFacts
    <2>2. m[Nth(list, s, k)].next = Nth(list, s, k + 1)
      BY <2>1, NthFacts
    <2>3. m[Nth(list, s, (k - 1) + 1)].prev = Nth(list, s, k - 1)
      BY <2>1, NthFacts
    <2>4. Nth(list, s, k) = s[k]
      BY NthFacts
    <2> QED BY <2>1, <2>2, <2>3, <2>4
  <1>2. /\ m[list].next = s[1] /\ m[list].prev = s[n]
        /\ s[1] # list /\ s[n] # list
    <2>1. 1 \in 1..n /\ n \in 1..n /\ 0 \in 0..n /\ n \in 0..n /\ 0 + 1 = 1
      BY <1>1
    <2>2. m[Nth(list, s, 0)].next = Nth(list, s, 0 + 1)
          /\ m[Nth(list, s, n + 1)].prev = Nth(list, s, n)
      BY <2>1, NthFacts
    <2>3. Nth(list, s, 0) = list /\ Nth(list, s, n + 1) = list
          /\ Nth(list, s, 1) = s[1] /\ Nth(list, s, n) = s[n]
          /\ s[1] # list /\ s[n] # list
      BY <2>1, NthFacts
    <2> QED BY <2>1, <2>2, <2>3
  <1>3. /\ list_next(m, list, s[k]) = IF k = n THEN NULL ELSE s[k + 1]
        /\ list_next_wrap(m, list, s[k]) = s[(k % n) + 1]
    <2>1. CASE k = n
      <3>1. m[s[k]].next = list
        BY <1>1, <2>1, NthFacts
      <3>2. (k % n) + 1 = 1
        BY <1>1, <2>1, Around
      <3> QED BY <1>2, <2>1, <3>1, <3>2 DEF list_next, list_next_wrap
    <2>2. CASE k # n
      <3>1. k + 1 \in 1..n /\ k \in 0..(n - 1)
        BY <1>1, <2>2
      <3>2. m[s[k]].next = s[k + 1] /\ s[k + 1] # list
        BY <1>1, <3>1, NthFacts
      <3>3. (k % n) + 1 = k + 1
        BY <1>1, <3>1, Around
      <3> QED BY <2>2, <3>2, <3>3 DEF list_next, list_next_wrap
    <2> QED BY <2>1, <2>2
  <1>4. /\ list_prev(m, list, s[k]) = IF k = 1 THEN NULL ELSE s[k - 1]
        /\ list_prev_wrap(m, list, s[k]) = s[((k + n - 2) % n) + 1]
    <2>1. CASE k = 1
      <3>1. m[s[k]].prev = list
        BY <1>1, <2>1, NthFacts
      <3>2. ((k + n - 2) % n) + 1 = n
        <4>1. k + n - 2 = n - 1 /\ n - 1 \in 0..(n - 1)
          BY <1>1, <2>1
        <4>2. (n - 1) % n = n - 1
          BY <1>1, <4>1, Around
        <4> QED BY <1>1, <4>1, <4>2
      <3> QED BY <1>2, <2>1, <3>1, <3>2 DEF list_prev, list_prev_wrap
    <2>2. CASE k # 1
      <3>1. k - 1 \in 1..n /\ k - 2 \in 0..(n - 1) /\ k + n - 2 = n + (k - 2)
        BY <1>1, <2>2
      <3>2. m[s[k]].prev = s[k - 1] /\ s[k - 1] # list
        BY <1>1, <3>1, NthFacts, SMTT(30)
      <3>3. ((k + n - 2) % n) + 1 = k - 1
        <4>1. (n + (k - 2)) % n = k - 2
          BY <1>1, <3>1, Around
        <4> QED BY <1>1, <3>1, <4>1
      <3> QED BY <2>2, <3>2, <3>3 DEF list_prev, list_prev_wrap
    <2> QED BY <2>1, <2>2
  <1> QED BY <1>3, <1>4, Zenon DEF NeighboursAre

\* An entry deleted anywhere leaves the list of the others.
LEMMA DeleteList ==
    ASSUME NEW A, NEW m, NEW list, NEW s, Linked(A, m, list, s), NEW n, n = Len(s),
           NEW k \in 1..n
    PROVE  IsList(list_delete(m, s[k]), list, SubSeq(s, 1, k - 1) \o SubSeq(s, k + 1, n))
  <1>0. Nth(list, s, 0) = list /\ Nth(list, s, n + 1) = list
    <2>1. n \in Nat
      BY NthFacts
    <2> QED BY <2>1 DEF Nth
  <1> DEFINE t == SubSeq(s, 1, k - 1) \o SubSeq(s, k + 1, n)
             r == list_delete(m, s[k])
             Place(j) == Nth(list, s, j)
  <1>1. /\ n \in Nat /\ k \in Nat /\ k >= 1 /\ k <= n
        /\ Place(0) = list /\ Place(n + 1) = list /\ Place(k) = s[k]
        /\ \A j \in 1..n : Place(j) = s[j]
        /\ \A j \in 0..n : m[Place(j)].next = Place(j + 1) /\ m[Place(j + 1)].prev = Place(j)
    <2>1. n \in Nat /\ k \in Nat /\ k >= 1 /\ k <= n
      BY NthFacts
    <2>2. ASSUME NEW j \in 0..n PROVE m[Place(j)].next = Place(j + 1) /\ m[Place(j + 1)].prev = Place(j)
      BY NthFacts
    <2>3. Place(0) = list /\ Place(n + 1) = list
      BY <1>0
    <2>4. ASSUME NEW j \in 1..n PROVE Place(j) = s[j]
      BY NthFacts
    <2> QED BY <2>1, <2>2, <2>3, <2>4, Zenon
  <1>2. /\ \A j \in 0..(n + 1) : Place(j) \in A
        /\ \A i, j \in 0..n : Place(i) = Place(j) => i = j
        /\ \A i, j \in 1..(n + 1) : Place(i) = Place(j) => i = j
    BY NthDistinct
  <1>3. /\ Len(t) = n - 1
        /\ \A j \in 1..(n - 1) : t[j] = IF j < k THEN s[j] ELSE s[j + 1]
    <2> DEFINE u == SubSeq(s, 1, k - 1)
               v == SubSeq(s, k + 1, n)
    <2>1. s \in Seq(A)
      <3>1. A \ {list} \subseteq A
        OBVIOUS
      <3> QED BY <3>1, SeqMonotonic DEF Linked
    <2>2. /\ u \in Seq(A) /\ Len(u) = k - 1 /\ \A j \in 1..(k - 1) : u[j] = s[j]
      <3>1. 1 \in 1..(Len(s) + 1) /\ k - 1 \in (1 - 1)..Len(s)
        BY <1>1
      <3> QED BY <1>1, <2>1, <3>1, SubSeqProperties
    <2>3. /\ v \in Seq(A) /\ Len(v) = n - k /\ \A j \in 1..(n - k) : v[j] = s[k + j]
      <3>1. k + 1 \in 1..(Len(s) + 1) /\ n \in ((k + 1) - 1)..Len(s)
        BY <1>1
      <3>2. /\ v \in Seq(A)
            /\ Len(v) = IF k + 1 <= n THEN n - (k + 1) + 1 ELSE 0
            /\ \A j \in 1..(n - (k + 1) + 1) : v[j] = s[(k + 1) + j - 1]
        BY <1>1, <2>1, <3>1, SubSeqProperties
      <3> QED BY <1>1, <3>2
    <2> HIDE DEF u, v
    <2>4. /\ Len(u \o v) = n - 1
          /\ \A j \in 1..(n - 1) : (u \o v)[j] = IF j <= k - 1 THEN u[j] ELSE v[j - (k - 1)]
      <3>1. Len(u) + Len(v) = n - 1
        BY <1>1, <2>2, <2>3
      <3>2. /\ Len(u \o v) = Len(u) + Len(v)
            /\ \A j \in 1..(Len(u) + Len(v)) :
                  (u \o v)[j] = IF j <= Len(u) THEN u[j] ELSE v[j - Len(u)]
        BY <2>2, <2>3, ConcatProperties
      <3> QED BY <2>2, <3>1, <3>2
    <2>5. \A j \in 1..(n - 1) : (u \o v)[j] = IF j < k THEN s[j] ELSE s[j + 1]
      <3>1. ASSUME NEW j \in 1..(n - 1), j <= k - 1 PROVE (u \o v)[j] = s[j] /\ j < k
        <4>1. j \in 1..(k - 1) /\ j < k
          BY <1>1, <3>1
        <4> QED BY <2>2, <2>4, <3>1, <4>1
      <3>2. ASSUME NEW j \in 1..(n - 1), ~(j <= k - 1) PROVE (u \o v)[j] = s[j + 1] /\ ~(j < k)
        <4>1. /\ j - (k - 1) \in 1..(n - k) /\ k + (j - (k - 1)) = j + 1 /\ ~(j < k)
          BY <1>1, <3>2
        <4>2. v[j - (k - 1)] = s[k + (j - (k - 1))]
          BY <2>3, <4>1
        <4> QED BY <2>4, <3>2, <4>1, <4>2
      <3> QED BY <3>1, <3>2
    <2> QED BY <2>4, <2>5 DEF u, v
  <1> HIDE DEF t
  <1>4. \A j \in 0..n : Nth(list, t, j) = IF j < k THEN Place(j) ELSE Place(j + 1)
    <2>1. ASSUME NEW j \in 1..(n - 1) PROVE Nth(list, t, j) = IF j < k THEN Place(j) ELSE Place(j + 1)
      <3>1. j \in 1..n /\ j + 1 \in 1..n /\ j \in 1..Len(t)
        BY <1>1, <1>3
      <3> QED BY <1>1, <1>3, <3>1 DEF Nth
    <2>2. Nth(list, t, 0) = list /\ Nth(list, t, n) = list
      BY <1>1, <1>3 DEF Nth
    <2>3. \A j \in 0..n : j = 0 \/ j = n \/ j \in 1..(n - 1)
      BY <1>1
    <2> HIDE DEF Place
    <2> QED BY <1>1, <2>1, <2>2, <2>3
  <1>5. /\ r \in Nodes(A)
        /\ \A a \in A :
              /\ r[a].next = IF a = Place(k) THEN NULL ELSE IF a = Place(k - 1) THEN Place(k + 1) ELSE m[a].next
              /\ r[a].prev = IF a = Place(k) THEN NULL ELSE IF a = Place(k + 1) THEN Place(k - 1) ELSE m[a].prev
    <2>1. /\ k \in 0..n /\ k - 1 \in 0..n /\ (k - 1) + 1 = k /\ k + 1 \in 1..(n + 1) /\ k \in 1..(n + 1)
          /\ k - 1 \in 0..(n + 1) /\ k \in 0..(n + 1) /\ k + 1 \in 0..(n + 1)
      BY <1>1
    <2>2. m[s[k]].next = Place(k + 1) /\ m[s[k]].prev = Place(k - 1)
      BY <1>1, <2>1
    <2>3. Place(k + 1) \in A /\ Place(k - 1) \in A /\ s[k] \in A /\ Place(k + 1) # s[k] /\ Place(k - 1) # s[k]
      <3>1. k + 1 # k /\ k - 1 # k
        BY <1>1
      <3> HIDE DEF Place
      <3> QED BY <1>1, <1>2, <2>1, <3>1
    <2>4. m \in Nodes(A)
      BY DEF Linked
    <2> HIDE DEF Place
    <2> QED BY <1>1, <2>2, <2>3, <2>4, DeletePointers
  <1> HIDE DEF r, Place
  <1>6. ASSUME NEW j \in 0..(n - 1)
        PROVE  /\ r[Nth(list, t, j)].next = Nth(list, t, j + 1)
               /\ r[Nth(list, t, j + 1)].prev = Nth(list, t, j)
    <2>1. CASE j < k - 1
      <3>1. /\ j \in 0..n /\ j + 1 \in 0..n /\ j + 1 \in 1..(n + 1) /\ j < k /\ j + 1 < k
            /\ j # k - 1 /\ j + 1 # k + 1 /\ j # k /\ j + 1 # k /\ k \in 0..n /\ k - 1 \in 0..n
            /\ k + 1 \in 1..(n + 1) /\ k \in 1..(n + 1) /\ j \in 0..(n + 1) /\ j + 1 \in 0..(n + 1)
        BY <1>1, <2>1
      <3>2. Nth(list, t, j) = Place(j) /\ Nth(list, t, j + 1) = Place(j + 1)
        BY <1>4, <3>1
      <3>3. Place(j) # Place(k) /\ Place(j) # Place(k - 1) /\ Place(j + 1) # Place(k) /\ Place(j + 1) # Place(k + 1)
        BY <1>2, <3>1
      <3>4. Place(j) \in A /\ Place(j + 1) \in A /\ m[Place(j)].next = Place(j + 1) /\ m[Place(j + 1)].prev = Place(j)
        BY <1>1, <1>2, <3>1
      <3> QED BY <1>5, <3>2, <3>3, <3>4
    <2>2. CASE j = k - 1
      <3>1. /\ j \in 0..n /\ j + 1 \in 0..n /\ j < k /\ j + 1 = k /\ ~(j + 1 < k) /\ j + 1 + 1 = k + 1
            /\ k \in 0..n /\ k - 1 \in 0..n /\ k - 1 # k /\ k + 1 # k
            /\ k + 1 \in 1..(n + 1) /\ k \in 1..(n + 1) /\ k - 1 \in 0..(n + 1) /\ k + 1 \in 0..(n + 1)
        BY <1>1, <2>2
      <3>2. Nth(list, t, j) = Place(k - 1) /\ Nth(list, t, j + 1) = Place(k + 1)
        BY <1>4, <2>2, <3>1
      <3>3. Place(k - 1) # Place(k) /\ Place(k + 1) # Place(k) /\ Place(k - 1) \in A /\ Place(k + 1) \in A
        BY <1>2, <3>1
      <3> QED BY <1>5, <3>2, <3>3
    <2>3. CASE j > k - 1
      <3>1. /\ j \in 0..n /\ j + 1 \in 0..n /\ ~(j < k) /\ ~(j + 1 < k) /\ (j + 1) + 1 \in 1..(n + 1)
            /\ j + 1 # k - 1 /\ j + 1 # k /\ (j + 1) + 1 # k /\ (j + 1) + 1 # k + 1
            /\ k \in 0..n /\ k - 1 \in 0..n
            /\ k + 1 \in 1..(n + 1) /\ k \in 1..(n + 1)
            /\ j + 1 \in 0..(n + 1) /\ (j + 1) + 1 \in 0..(n + 1)
        BY <1>1, <2>3
      <3>2. Nth(list, t, j) = Place(j + 1) /\ Nth(list, t, j + 1) = Place((j + 1) + 1)
        BY <1>4, <3>1
      <3>3. /\ Place(j + 1) # Place(k) /\ Place(j + 1) # Place(k - 1)
            /\ Place((j + 1) + 1) # Place(k) /\ Place((j + 1) + 1) # Place(k + 1)
        BY <1>2, <3>1
      <3>4. /\ Place(j + 1) \in A /\ Place((j + 1) + 1) \in A
            /\ m[Place(j + 1)].next = Place((j + 1) + 1) /\ m[Place((j + 1) + 1)].prev = Place(j + 1)
        BY <1>1, <1>2, <3>1
      <3> QED BY <1>5, <3>2, <3>3, <3>4
    <2> QED BY <1>1, <2>1, <2>2, <2>3
  <1>7. IsList(r, list, t)
    BY <1>3, <1>6 DEF IsList
  <1> QED BY <1>7 DEF r, t

\* The removal at the tail, also of an empty list.
LEMMA RemoveTailList ==
    ASSUME NEW A, NEW m, NEW list, NEW s, Linked(A, m, list, s), NEW n, n = Len(s)
    PROVE  IsList(list_remove_tail(m, list), list, SubSeq(s, 1, n - 1))
  <1>1. n \in Nat /\ m[list].prev = Nth(list, s, n)
    <2>1. n \in Nat /\ n \in 0..n
      BY NthFacts
    <2>2. m[Nth(list, s, n + 1)].prev = Nth(list, s, n) /\ Nth(list, s, n + 1) = list
      BY <2>1, NthFacts
    <2> QED BY <2>1, <2>2
  <1>2. CASE n = 0
    <2>1. Nth(list, s, n) = list /\ s = <<>>
      <3>1. Nth(list, s, 0) = list /\ s \in Seq(A \ {list})
        BY NthFacts DEF Linked
      <3> QED BY <1>2, <3>1, EmptySeq
    <2>2. list_remove_tail(m, list) = m
      BY <1>1, <2>1 DEF list_remove_tail
    <2>3. SubSeq(s, 1, n - 1) = s
      BY <1>2, <2>1
    <2> QED BY <2>2, <2>3 DEF Linked
  <1>3. CASE n # 0
    <2>1. n \in 1..n
      BY <1>1, <1>3
    <2>2. m[list].prev = s[n] /\ s[n] # list
      BY <1>1, <2>1, NthFacts
    <2>3. list_remove_tail(m, list) = list_delete(m, s[n])
      BY <2>2 DEF list_remove_tail
    <2>4. SubSeq(s, 1, n - 1) \o SubSeq(s, n + 1, n) = SubSeq(s, 1, n - 1)
      <3>1. SubSeq(s, 1, n - 1) \in Seq(A)
        <4>1. s \in Seq(A \ {list}) /\ A \ {list} \subseteq A
          BY DEF Linked
        <4>2. s \in Seq(A)
          BY <4>1, SeqMonotonic
        <4>3. 1 \in 1..(Len(s) + 1) /\ n - 1 \in (1 - 1)..Len(s)
          BY <1>1, <2>1
        <4> QED BY <4>2, <4>3, SubSeqProperties
      <3>2. SubSeq(s, n + 1, n) = <<>>
        BY <1>1, SubSeqEmpty
      <3> QED BY <3>1, <3>2, ConcatEmptySeq
    <2> QED BY <2>1, <2>3, <2>4, DeleteList
  <1> QED BY <1>2, <1>3

\* A set of numbers that has the first, and with each the next, has them all.
LEMMA PlacesUpTo ==
    ASSUME NEW n \in Nat, NEW T, 0 \in T, \A k \in 1..n : k - 1 \in T => k \in T
    PROVE  0..n \subseteq T
  <1> DEFINE Missing == {k \in Nat : k \in 0..n /\ k \notin T}
  <1>1. ASSUME Missing # {} PROVE FALSE
    <2>1. Missing \subseteq Nat
      OBVIOUS
    <2> HIDE DEF Missing
    <2>2. PICK m \in Missing : \A k \in Missing : ~(<<k, m>> \in OpToRel(<, Nat))
      BY <1>1, <2>1, WFMin, NatLessThanWellFounded, Zenon
    <2>3. \A k \in Missing : ~(k < m)
      BY <2>1, <2>2 DEF OpToRel
    <2>4. m \in 0..n /\ m \notin T /\ m # 0
      BY <2>2 DEF Missing
    <2>5. m \in 1..n /\ m - 1 \in 0..n /\ m - 1 \in Nat /\ m - 1 < m
      BY <2>4
    <2>6. m - 1 \in T
      BY <2>3, <2>5 DEF Missing
    <2> QED BY <2>4, <2>5, <2>6
  <1>2. \A k \in 0..n : k \in Nat
    OBVIOUS
  <1> QED BY <1>1, <1>2

\* list_for_every comes to the nodes in order and back to the list.
LEMMA WalkIs ==
    ASSUME NEW A, NEW m, NEW list, NEW s, Linked(A, m, list, s), NEW n, n = Len(s),
           NEW k \in 0..(n + 1)
    PROVE  Walk(m, list, k) = Nth(list, s, k)
  <1> DEFINE Place(j) == Nth(list, s, j)
             Turns(f) == f = [j \in 0..k |-> IF j = 0 THEN list ELSE m[f[j - 1]].next]
             op == CHOOSE f : Turns(f)
  <1>1. /\ n \in Nat /\ Place(0) = list
        /\ \A j \in 0..n : m[Place(j)].next = Place(j + 1)
    <2>1. n \in Nat /\ Place(0) = list
      BY NthFacts
    <2>2. ASSUME NEW j \in 0..n PROVE m[Place(j)].next = Place(j + 1)
      BY NthFacts
    <2> QED BY <2>1, <2>2
  <1> HIDE DEF Place
  <1>2. k \in Nat /\ \A j \in 1..k : j - 1 \in 0..k /\ m[Place(j - 1)].next = Place(j)
    <2>1. ASSUME NEW j \in 1..k
          PROVE  j - 1 \in 0..k /\ m[Place(j - 1)].next = Place(j)
      <3>1. j - 1 \in 0..n /\ (j - 1) + 1 = j /\ j - 1 \in 0..k
        BY <1>1
      <3> QED BY <1>1, <3>1
    <2> QED BY <1>1, <2>1
  <1>3. \E f : Turns(f)
    <2> DEFINE g == [j \in 0..k |-> Place(j)]
    <2>1. ASSUME NEW j \in 0..k
          PROVE  g[j] = IF j = 0 THEN list ELSE m[g[j - 1]].next
      <3>1. j = 0 \/ j \in 1..k
        BY <1>2
      <3> QED BY <1>1, <1>2, <3>1
    <2>2. g = [j \in 0..k |-> g[j]]
      OBVIOUS
    <2> HIDE DEF g
    <2>3. Turns(g)
      BY <2>1, <2>2 DEF Turns
    <2> HIDE DEF Turns
    <2> QED BY <2>3
  <1>4. Turns(op)
    <2> HIDE DEF Turns
    <2> QED BY <1>3, Zenon
  <1>5. Walk(m, list, k) = op[k]
    BY Zenon DEF Walk, op, Turns
  <1> HIDE DEF op
  <1>6. op[0] = list /\ \A j \in 1..k : op[j] = m[op[j - 1]].next
    <2>1. 0 \in 0..k /\ \A j \in 1..k : j \in 0..k /\ j # 0
      BY <1>2
    <2> QED BY <1>4, <2>1 DEF Turns
  <1> DEFINE T == {j \in 0..k : op[j] = Place(j)}
  <1>7. 0..k \subseteq T
    <2>1. 0 \in T
      BY <1>1, <1>2, <1>6
    <2>2. ASSUME NEW j \in 1..k, j - 1 \in T PROVE j \in T
      BY <1>2, <1>6, <2>2
    <2> HIDE DEF T
    <2> QED BY <1>2, <2>1, <2>2, PlacesUpTo
  <1>8. k \in 0..k
    BY <1>2
  <1> QED BY <1>5, <1>7, <1>8 DEF Place

\* list_length is the length.
LEMMA LengthRead ==
    ASSUME NEW A, IsFiniteSet(A), NEW m, NEW list, NEW s, Linked(A, m, list, s),
           NEW n, n = Len(s)
    PROVE  list_length(m, list) = n
  <1> DEFINE Back(k) == /\ Walk(m, list, k) = list
                        /\ \A j \in 1..(k - 1) : Walk(m, list, j) # list
  <1>1. /\ n \in Nat /\ Walk(m, list, n + 1) = list
        /\ \A k \in 1..n : Walk(m, list, k) # list
    <2>1. n \in Nat /\ n + 1 \in 0..(n + 1) /\ \A k \in 1..n : k \in 0..(n + 1)
      BY NthFacts
    <2>2. Nth(list, s, n + 1) = list /\ \A k \in 1..n : Nth(list, s, k) # list
      BY NthFacts
    <2>3. \A k \in 0..(n + 1) : Walk(m, list, k) = Nth(list, s, k)
      BY WalkIs
    <2> QED BY <2>1, <2>2, <2>3
  <1>2. DOMAIN m = A
    BY DEF Linked, Nodes
  <1>3. Cardinality(A) \in Nat /\ n + 1 <= Cardinality(A)
    <2> DEFINE f == [k \in 0..n |-> Nth(list, s, k)]
    <2>1. f \in Injection(0..n, A)
      <3>1. \A k \in 0..n : k \in 0..(n + 1)
        BY <1>1
      <3>2. \A k \in 0..n : Nth(list, s, k) \in A
        BY <3>1, NthDistinct
      <3>3. \A j, k \in 0..n : Nth(list, s, j) = Nth(list, s, k) => j = k
        BY NthDistinct
      <3> QED BY <3>2, <3>3 DEF Injection, IsInjective
    <2>2. Cardinality(0..n) <= Cardinality(A)
      <3> HIDE DEF f
      <3> QED BY <2>1, FS_Injection DEF ExistsInjection
    <2>3. Cardinality(0..n) = n + 1
      BY <1>1, FS_Interval
    <2> QED BY <2>2, <2>3, FS_CardinalityType
  <1>4. n + 1 \in 1..Cardinality(A) /\ Back(n + 1)
    BY <1>1, <1>3
  <1>5. ASSUME NEW k \in 1..Cardinality(A), Back(k) PROVE k = n + 1
    <2>1. CASE k <= n
      BY <1>1, <1>3, <1>5, <2>1
    <2>2. CASE k > n + 1
      <3>1. n + 1 \in 1..(k - 1)
        BY <1>1, <1>3, <2>2
      <3> QED BY <1>1, <1>5, <3>1
    <2> QED BY <1>1, <1>3, <2>1, <2>2
  <1>6. list_length(m, list) = (CHOOSE k \in 1..Cardinality(A) : Back(k)) - 1
    BY <1>2, Zenon DEF list_length, Back
  <1> HIDE DEF Back
  <1>7. (CHOOSE k \in 1..Cardinality(A) : Back(k)) = n + 1
    BY <1>4, <1>5
  <1>8. (n + 1) - 1 = n
    BY <1>1
  <1> QED BY <1>6, <1>7, <1>8

-----------------------------------------------------------------------------
(* What readers of the run queue are answered *)

\* The queue's memory answers every reader of list.h as its sequence would.
LEMMA QueueReads ==
    ASSUME IInv, NodesInv
    PROVE  ListReads
  <1>0. PICK n : n = Len(run_queue)
    OBVIOUS
  <1> DEFINE q == run_queue
  <1>1. Linked(Addr, nodes, Queue, run_queue)
    BY QueueFacts DEF Linked, NodesInv, QueueLinked
  <1>2. IsFiniteSet(Addr)
    <2>1. IsFiniteSet(Client)
      BY RunQueueAssumption
    <2>2. IsFiniteSet(Client \cup {Idle})
      BY <2>1, FS_AddElement
    <2>3. IsFiniteSet((Client \cup {Idle}) \cup {Queue})
      BY <2>2, FS_AddElement
    <2> QED BY <2>3 DEF Addr, Task
  <1>3. n \in Nat /\ DOMAIN run_queue = 1..n
    BY <1>0, QueueFacts, LenProperties
  <1>4. /\ AtOr(1) = IF n = 0 THEN NULL ELSE q[1]
        /\ AtOr(n) = IF n = 0 THEN NULL ELSE q[n]
        /\ \A k \in 1..n : /\ AtOr(k + 1) = IF k = n THEN NULL ELSE q[k + 1]
                           /\ AtOr(k - 1) = IF k = 1 THEN NULL ELSE q[k - 1]
    <2>1. 1 \in 1..n <=> n # 0
      BY <1>3
    <2>2. n \in 1..n <=> n # 0
      BY <1>3
    <2>3. ASSUME NEW k \in 1..n
          PROVE  (k + 1 \in 1..n <=> k # n) /\ (k - 1 \in 1..n <=> k # 1)
      BY <1>3
    <2> QED BY <1>3, <2>1, <2>2, <2>3 DEF AtOr
  <1>5. /\ list_peek_head(nodes, Queue) = AtOr(1)
        /\ list_peek_tail(nodes, Queue) = AtOr(n)
        /\ list_is_empty(nodes, Queue) <=> n = 0
    BY <1>0, <1>1, <1>4, EndsRead
  <1>6. list_length(nodes, Queue) = n
    BY <1>0, <1>1, <1>2, LengthRead
  <1>7. IsList(list_remove_tail(nodes, Queue), Queue, SubSeq(q, 1, n - 1))
    BY <1>0, <1>1, RemoveTailList
  <1>8. ASSUME NEW k \in 1..n
        PROVE  /\ list_next(nodes, Queue, q[k]) = AtOr(k + 1)
               /\ list_prev(nodes, Queue, q[k]) = AtOr(k - 1)
               /\ list_next_wrap(nodes, Queue, q[k]) = q[(k % n) + 1]
               /\ list_prev_wrap(nodes, Queue, q[k]) = q[((k + n - 2) % n) + 1]
               /\ IsList(list_delete(nodes, q[k]), Queue, SubSeq(q, 1, k - 1) \o SubSeq(q, k + 1, n))
    <2>1. IsList(list_delete(nodes, q[k]), Queue, SubSeq(q, 1, k - 1) \o SubSeq(q, k + 1, n))
      BY <1>0, <1>1, DeleteList
    <2>2. NeighboursAre(nodes, Queue, run_queue, n, k)
      BY <1>0, <1>1, NeighboursRead
    <2>3. /\ list_next(nodes, Queue, q[k]) = IF k = n THEN NULL ELSE q[k + 1]
          /\ list_prev(nodes, Queue, q[k]) = IF k = 1 THEN NULL ELSE q[k - 1]
          /\ list_next_wrap(nodes, Queue, q[k]) = q[(k % n) + 1]
          /\ list_prev_wrap(nodes, Queue, q[k]) = q[((k + n - 2) % n) + 1]
      BY <2>2, Zenon DEF NeighboursAre
    <2> QED BY <1>4, <2>1, <2>3
  <1> QED BY <1>0, <1>3, <1>5, <1>6, <1>7, <1>8, Zenon DEF ListReads

\* Whatever the tasks do, peeking at either end of run_queue, going to the next
\* or previous entry with and without wrapping, counting and testing for
\* emptiness give what the queue would, and an entry can be deleted anywhere.
THEOREM QueueIsRead == RQSpec => []ListReads
  <1>1. IInv /\ NodesInv => ListReads
    BY QueueReads
  <1> QED BY <1>1, QueueInvariance, PTL
=============================================================================
