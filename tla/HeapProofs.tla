----------------------------- MODULE HeapProofs -----------------------------
(* Proofs that the kernel heap neither loses nor gives twice a word, that its *)
(* free list is in order and merged, that its account is right, that it       *)
(* implements Allocator, and that the pointers in memory are its free list,   *)
(* for every heap, page size, request and alignment.                          *)
EXTENDS HeapLinks, FiniteSetTheorems, SequenceTheorems, TLAPS

-----------------------------------------------------------------------------
(* Induction over the places of a list *)

\* A set of numbers that has the first, and with each the next, has them all.
LEMMA UpTo ==
    ASSUME NEW n \in Nat, NEW T, 0 \in T, \A k \in 1..n : k - 1 \in T => k \in T
    PROVE  0..n \subseteq T
  <1> DEFINE Missing == {k \in Nat : k \in 0..n /\ k \notin T}
  <1>1. ASSUME Missing # {} PROVE FALSE
    <2>1. Missing \subseteq Nat
      OBVIOUS
    <2> HIDE DEF Missing
    <2>2. PICK m \in Missing : \A k \in Missing : ~(<<k, m>> \in OpToRel(<, Nat))
      BY <1>1, <2>1, WFMin, NatLessThanWellFounded, Zenon
    <2>3. \A k \in Missing : ~(k < m)
      BY <2>1, <2>2 DEF OpToRel
    <2>4. m \in 0..n /\ m \notin T /\ m # 0
      BY <2>2 DEF Missing
    <2>5. m \in 1..n /\ m - 1 \in 0..n /\ m - 1 \in Nat /\ m - 1 < m
      BY <2>4
    <2>6. m - 1 \in T
      BY <2>3, <2>5 DEF Missing
    <2> QED BY <2>4, <2>5, <2>6
  <1>2. \A k \in 0..n : k \in Nat
    OBVIOUS
  <1> QED BY <1>1, <1>2

\* The turns of miniheap_trim's loop.
LEMMA TrimmedUpToDef ==
    ASSUME NEW list, NEW n \in Nat, n = Len(list)
    PROVE  /\ TrimmedUpTo(list)[0] = <<>>
           /\ \A k \in 1..n : TrimmedUpTo(list)[k] = TrimmedUpTo(list)[k - 1] \o Remains(list[k])
  <1> DEFINE Turns(f, m) == f = [k \in 0..m |-> IF k = 0 THEN <<>> ELSE f[k - 1] \o Remains(list[k])]
             Some == {m \in 0..n : \E f : Turns(f, m)}
  <1>1. 0 \in Some
    <2>1. Turns([k \in 0..0 |-> <<>>], 0)
      OBVIOUS
    <2>2. \E f : Turns(f, 0)
      <3> HIDE DEF Turns
      <3> QED BY <2>1
    <2> HIDE DEF Turns
    <2> QED BY <2>2
  <1>2. ASSUME NEW m \in 1..n, m - 1 \in Some PROVE m \in Some
    <2>1. PICK f : Turns(f, m - 1)
      BY <1>2
    <2> DEFINE g == [k \in 0..m |-> IF k = 0 THEN <<>> ELSE f[k - 1] \o Remains(list[k])]
    <2>2. \A k \in 0..(m - 1) : g[k] = f[k]
      <3>1. \A k \in 0..(m - 1) : k \in 0..m
        OBVIOUS
      <3> QED BY <2>1, <3>1, Zenon
    <2>3. \A k \in 0..m : k # 0 => k - 1 \in 0..(m - 1)
      OBVIOUS
    <2>4. Turns(g, m)
      <3>1. \A k \in 0..m : k # 0 => g[k - 1] = f[k - 1]
        BY <2>2, <2>3
      <3> QED BY <3>1, Zenon
    <2>5. \E h : Turns(h, m)
      <3> HIDE DEF Turns
      <3> QED BY <2>4
    <2> HIDE DEF Turns
    <2> QED BY <2>5
  <1> HIDE DEF Turns
  <1>3. n \in Some
    <2>1. 0..n \subseteq Some
      <3> HIDE DEF Some
      <3> QED BY <1>1, <1>2, UpTo
    <2> QED BY <2>1
  <1>4. Turns(TrimmedUpTo(list), n)
    <2>1. TrimmedUpTo(list) = CHOOSE f : Turns(f, n)
      BY Zenon DEF TrimmedUpTo, Turns
    <2> QED BY <1>3, <2>1, Zenon
  <1> QED BY <1>4 DEF Turns

\* The sum miniheap_get_stats makes.
LEMMA SumUpToDef ==
    ASSUME NEW list, NEW n \in Nat, n = Len(list)
    PROVE  /\ SumUpTo(list)[0] = 0
           /\ \A k \in 1..n : SumUpTo(list)[k] = SumUpTo(list)[k - 1] + list[k].len
  <1> DEFINE Sums(f, m) == f = [k \in 0..m |-> IF k = 0 THEN 0 ELSE f[k - 1] + list[k].len]
             Some == {m \in 0..n : \E f : Sums(f, m)}
  <1>1. 0 \in Some
    <2>1. Sums([k \in 0..0 |-> 0], 0)
      OBVIOUS
    <2>2. \E f : Sums(f, 0)
      <3> HIDE DEF Sums
      <3> QED BY <2>1
    <2> HIDE DEF Sums
    <2> QED BY <2>2
  <1>2. ASSUME NEW m \in 1..n, m - 1 \in Some PROVE m \in Some
    <2>1. PICK f : Sums(f, m - 1)
      BY <1>2
    <2> DEFINE g == [k \in 0..m |-> IF k = 0 THEN 0 ELSE f[k - 1] + list[k].len]
    <2>2. \A k \in 0..(m - 1) : g[k] = f[k]
      <3>1. \A k \in 0..(m - 1) : k \in 0..m
        OBVIOUS
      <3> QED BY <2>1, <3>1, Zenon
    <2>3. \A k \in 0..m : k # 0 => k - 1 \in 0..(m - 1)
      OBVIOUS
    <2>4. Sums(g, m)
      <3>1. \A k \in 0..m : k # 0 => g[k - 1] = f[k - 1]
        BY <2>2, <2>3
      <3> QED BY <3>1, Zenon
    <2>5. \E h : Sums(h, m)
      <3> HIDE DEF Sums
      <3> QED BY <2>4
    <2> HIDE DEF Sums
    <2> QED BY <2>5
  <1> HIDE DEF Sums
  <1>3. n \in Some
    <2>1. 0..n \subseteq Some
      <3> HIDE DEF Some
      <3> QED BY <1>1, <1>2, UpTo
    <2> QED BY <2>1
  <1>4. Sums(SumUpTo(list), n)
    <2>1. SumUpTo(list) = CHOOSE f : Sums(f, n)
      BY Zenon DEF SumUpTo, Sums
    <2> QED BY <1>3, <2>1, Zenon
  <1> QED BY <1>4 DEF Sums

-----------------------------------------------------------------------------
(* Lists of chunks *)

\* Chunks of the heap that hold a list node.
Chunks ==
    {c \in [base : Int, len : Int] :
        Base <= c.base /\ Node <= c.len /\ c.base + c.len <= Base + Length}

\* Lists in order in which no chunk touches the next.
Good(list) ==
    /\ list \in Seq(Chunks)
    /\ \A i, j \in 1..Len(list) : i < j => EndOf(list[i]) < list[j].base

CellsOf(list) == UNION {Cells(list[i]) : i \in 1..Len(list)}

LEMMA HeapSizes ==
    Base \in Nat /\ Length \in Nat /\ Node <= Length
  BY HeapAssumption DEF HeapAssumption, Node

LEMMA ChunkFacts ==
    ASSUME NEW c \in Chunks
    PROVE  /\ c.base \in Int /\ c.len \in Int /\ Base <= c.base /\ Node <= c.len
           /\ c.base + c.len <= Base + Length
           /\ EndOf(c) = c.base + c.len /\ c.base < EndOf(c)
           /\ c = Chunk(c.base, c.len)
           /\ \A w : w \in Cells(c) <=> w \in Int /\ c.base <= w /\ w < EndOf(c)
  <1>1. c \in [base : Int, len : Int] /\ Base <= c.base /\ Node <= c.len
        /\ c.base + c.len <= Base + Length
    BY DEF Chunks
  <1>2. c.base \in Int /\ c.len \in Int /\ c = Chunk(c.base, c.len)
    BY <1>1 DEF Chunk
  <1>3. EndOf(c) = c.base + c.len /\ c.base < EndOf(c)
    BY <1>1, <1>2 DEF EndOf, Node
  <1>4. ASSUME NEW w PROVE w \in Cells(c) <=> w \in Int /\ c.base <= w /\ w < EndOf(c)
    BY <1>2, <1>3 DEF Cells
  <1> QED BY <1>1, <1>2, <1>3, <1>4

LEMMA ChunkIs ==
    ASSUME NEW base \in Int, NEW len \in Int,
           Base <= base, Node <= len, base + len <= Base + Length
    PROVE  Chunk(base, len) \in Chunks
  BY DEF Chunks, Chunk

LEMMA CellsOfIs ==
    ASSUME NEW list, NEW w
    PROVE  w \in CellsOf(list) <=> \E i \in 1..Len(list) : w \in Cells(list[i])
  BY DEF CellsOf

LEMMA GoodFacts ==
    ASSUME NEW list, Good(list)
    PROVE  /\ list \in Seq(Chunks) /\ Len(list) \in Nat /\ DOMAIN list = 1..Len(list)
           /\ \A i \in 1..Len(list) : list[i] \in Chunks
           /\ \A i, j \in 1..Len(list) : i < j => EndOf(list[i]) < list[j].base
  BY LenProperties, ElementOfSeq DEF Good

-----------------------------------------------------------------------------
(* A chunk between two parts of a list *)

Splice(list, a, m, b) == SubSeq(list, 1, a) \o <<m>> \o SubSeq(list, b, Len(list))

LEMMA SpliceIs ==
    ASSUME NEW list \in Seq(Chunks), NEW m \in Chunks, NEW n \in Int, n = Len(list),
           NEW a \in Int, NEW b \in Int, 0 <= a, a + 1 <= b, b <= n + 1
    PROVE  /\ Splice(list, a, m, b) \in Seq(Chunks)
           /\ Len(Splice(list, a, m, b)) = a + 1 + (n - b + 1)
           /\ \A i \in 1..a : Splice(list, a, m, b)[i] = list[i]
           /\ Splice(list, a, m, b)[a + 1] = m
           /\ \A i \in (a + 2)..(a + 1 + (n - b + 1)) :
                 Splice(list, a, m, b)[i] = list[i - a - 2 + b]
  <1> DEFINE front == SubSeq(list, 1, a)
             back  == SubSeq(list, b, n)
             mid   == front \o <<m>>
             all   == mid \o back
  <1>1. a \in Int /\ b \in Int /\ n \in Int /\ 1 <= b /\ b <= n + 1 /\ 0 <= a /\ a + 1 <= b
    OBVIOUS
  <1>2. /\ front \in Seq(Chunks) /\ Len(front) = a
        /\ \A i \in 1..a : front[i] = list[i]
    <2>1. \A i \in 1..a : list[i] \in Chunks
      BY ElementOfSeq
    <2>2. /\ front \in Seq(Chunks) /\ Len(front) = IF 1 <= a THEN a - 1 + 1 ELSE 0
          /\ \A i \in 1..(a - 1 + 1) : front[i] = list[1 + i - 1]
      BY <1>1, <2>1, SubSeqProperties
    <2> HIDE DEF front
    <2> QED BY <1>1, <2>2
  <1>3. /\ back \in Seq(Chunks) /\ Len(back) = n - b + 1
        /\ \A i \in 1..(n - b + 1) : back[i] = list[b + i - 1]
    <2>1. \A i \in b..n : list[i] \in Chunks
      BY <1>1, ElementOfSeq
    <2>2. /\ back \in Seq(Chunks) /\ Len(back) = IF b <= n THEN n - b + 1 ELSE 0
          /\ \A i \in 1..(n - b + 1) : back[i] = list[b + i - 1]
      BY <1>1, <2>1, SubSeqProperties
    <2> HIDE DEF back
    <2> QED BY <1>1, <2>2
  <1>4. <<m>> \in Seq(Chunks) /\ Len(<<m>>) = 1 /\ <<m>>[1] = m
    OBVIOUS
  <1> HIDE DEF front, back
  <1>5. /\ mid \in Seq(Chunks) /\ Len(mid) = a + 1
        /\ \A i \in 1..(a + 1) : mid[i] = IF i <= a THEN front[i] ELSE <<m>>[i - a]
    BY <1>2, <1>4, ConcatProperties
  <1> HIDE DEF mid
  <1>6. /\ all \in Seq(Chunks) /\ Len(all) = a + 1 + (n - b + 1)
        /\ \A i \in 1..(a + 1 + (n - b + 1)) :
              all[i] = IF i <= a + 1 THEN mid[i] ELSE back[i - (a + 1)]
    <2>1. Len(mid) + Len(back) = a + 1 + (n - b + 1) /\ Len(mid) = a + 1
      BY <1>1, <1>3, <1>5
    <2>2. /\ mid \o back \in Seq(Chunks) /\ Len(mid \o back) = Len(mid) + Len(back)
          /\ \A i \in 1..(Len(mid) + Len(back)) :
                (mid \o back)[i] = IF i <= Len(mid) THEN mid[i] ELSE back[i - Len(mid)]
      BY <1>3, <1>5, ConcatProperties
    <2> QED BY <2>1, <2>2
  <1> HIDE DEF all
  <1>7. \A i \in 1..a : all[i] = list[i]
    <2>1. ASSUME NEW i \in 1..a PROVE all[i] = list[i]
      <3>1. i \in 1..(a + 1) /\ i \in 1..(a + 1 + (n - b + 1)) /\ i <= a + 1 /\ i <= a
        BY <1>1
      <3>2. all[i] = mid[i]
        BY <1>6, <3>1
      <3>3. mid[i] = front[i]
        BY <1>5, <3>1
      <3> QED BY <1>2, <3>2, <3>3
    <2> QED BY <2>1
  <1>8. all[a + 1] = m
    BY <1>1, <1>4, <1>5, <1>6
  <1>9. \A i \in (a + 2)..(a + 1 + (n - b + 1)) : all[i] = list[i - a - 2 + b]
    <2>1. ASSUME NEW i \in (a + 2)..(a + 1 + (n - b + 1)) PROVE all[i] = list[i - a - 2 + b]
      <3>1. i - (a + 1) \in 1..(n - b + 1) /\ b + (i - (a + 1)) - 1 = i - a - 2 + b
        BY <1>1
      <3>2. all[i] = back[i - (a + 1)]
        BY <1>1, <1>6
      <3>3. back[i - (a + 1)] = list[b + (i - (a + 1)) - 1]
        BY <1>3, <3>1
      <3> QED BY <3>1, <3>2, <3>3
    <2> QED BY <2>1
  <1>10. all = Splice(list, a, m, b)
    BY DEF all, mid, front, back, Splice
  <1> QED BY <1>6, <1>7, <1>8, <1>9, <1>10

\* A chunk that lies between keeps the order, and adds its words.
LEMMA SpliceGood ==
    ASSUME NEW list, Good(list), NEW m \in Chunks, NEW n \in Nat, n = Len(list),
           NEW a \in 0..n, NEW b \in (a + 1)..(n + 1),
           \A j \in 1..a : EndOf(list[j]) < m.base,
           \A j \in b..n : EndOf(m) < list[j].base
    PROVE  /\ Good(Splice(list, a, m, b))
           /\ \A w : w \in CellsOf(Splice(list, a, m, b))
                 <=> \/ w \in Cells(m)
                     \/ \E j \in 1..n : (j <= a \/ b <= j) /\ w \in Cells(list[j])
  <1> DEFINE all == Splice(list, a, m, b)
             len == a + 1 + (n - b + 1)
             At(i) == IF i <= a THEN i ELSE i - a - 2 + b
  <1>1. /\ list \in Seq(Chunks) /\ \A i \in 1..n : list[i] \in Chunks
        /\ \A i, j \in 1..n : i < j => EndOf(list[i]) < list[j].base
    BY GoodFacts
  <1>2. /\ all \in Seq(Chunks) /\ Len(all) = len /\ len \in Nat
        /\ all[a + 1] = m
        /\ \A i \in 1..len : i # a + 1 =>
              At(i) \in 1..n /\ (At(i) <= a \/ b <= At(i)) /\ all[i] = list[At(i)]
    <2>1. /\ all \in Seq(Chunks) /\ Len(all) = len
          /\ \A i \in 1..a : all[i] = list[i]
          /\ all[a + 1] = m
          /\ \A i \in (a + 2)..len : all[i] = list[i - a - 2 + b]
      <3>1. list \in Seq(Chunks) /\ m \in Chunks /\ n \in Nat /\ n = Len(list)
            /\ a \in Int /\ b \in Int /\ 0 <= a /\ a + 1 <= b /\ b <= n + 1
        BY <1>1
      <3>2. all \in Seq(Chunks)
        BY <3>1, SpliceIs
      <3>3. Len(all) = len
        <4>1. Len(all) \in Nat /\ len \in Nat
          BY <3>1, <3>2, LenProperties
        <4>2. Len(all) <= len /\ len <= Len(all)
          BY <3>1, SpliceIs
        <4> QED BY <4>1, <4>2
      <3>4. \A i \in 1..a : all[i] = list[i]
        BY <3>1, SpliceIs
      <3>5. all[a + 1] = m
        BY <3>1, SpliceIs
      <3>6. \A i \in (a + 2)..len : all[i] = list[i - a - 2 + b]
        BY <3>1, SpliceIs
      <3> QED BY <3>1, <3>2, <3>3, <3>4, <3>5, <3>6
    <2> HIDE DEF all
    <2> QED BY <2>1
  <1> HIDE DEF all
  <1>3. ASSUME NEW i \in 1..len, NEW j \in 1..len, i < j
        PROVE  EndOf(all[i]) < all[j].base
    <2>1. CASE i # a + 1 /\ j # a + 1
      <3>1. At(i) \in 1..n /\ At(j) \in 1..n /\ At(i) < At(j)
        BY <1>2, <1>3, <2>1
      <3>2. EndOf(list[At(i)]) < list[At(j)].base
        BY <1>1, <3>1
      <3> QED BY <1>2, <2>1, <3>2
    <2>2. CASE j = a + 1
      <3>1. i \in 1..a /\ i # a + 1 /\ At(i) = i
        BY <1>3, <2>2
      <3>2. all[i] = list[i] /\ all[j] = m
        BY <1>2, <2>2, <3>1
      <3> QED BY <3>1, <3>2
    <2>3. CASE i = a + 1
      <3>1. j # a + 1 /\ At(j) \in b..n
        BY <1>3, <2>3
      <3>2. all[j] = list[At(j)] /\ all[i] = m
        BY <1>2, <2>3, <3>1
      <3> QED BY <3>1, <3>2
    <2> QED BY <2>1, <2>2, <2>3
  <1>4. Good(all)
    BY <1>2, <1>3 DEF Good
  <1>5. ASSUME NEW w, w \in CellsOf(all)
        PROVE  \/ w \in Cells(m)
               \/ \E j \in 1..n : (j <= a \/ b <= j) /\ w \in Cells(list[j])
    <2>1. PICK i \in 1..len : w \in Cells(all[i])
      BY <1>2, <1>5, CellsOfIs
    <2> QED BY <1>2, <2>1
  <1>6. ASSUME NEW w, w \in Cells(m) PROVE w \in CellsOf(all)
    <2>1. a + 1 \in 1..len
      OBVIOUS
    <2> QED BY <1>2, <1>6, <2>1, CellsOfIs
  <1>7. ASSUME NEW w, NEW j \in 1..n, j <= a \/ b <= j, w \in Cells(list[j])
        PROVE  w \in CellsOf(all)
    <2> DEFINE i == IF j <= a THEN j ELSE j + a + 2 - b
    <2>1. i \in 1..len /\ i # a + 1 /\ At(i) = j
      BY <1>7
    <2>2. all[i] = list[j]
      BY <1>2, <2>1
    <2> QED BY <1>2, <1>7, <2>1, <2>2, CellsOfIs
  <1> QED BY <1>4, <1>5, <1>6, <1>7 DEF all

-----------------------------------------------------------------------------
(* heap_insert_free_chunk *)

LEMMA MinIs ==
    ASSUME NEW I, I \subseteq Nat, I # {}
    PROVE  Min(I) \in I /\ \A k \in I : Min(I) <= k
  <1>1. PICK m \in I : \A k \in I : ~(<<k, m>> \in OpToRel(<, Nat))
    BY WFMin, NatLessThanWellFounded, Zenon
  <1>2. \A k \in I : m <= k
    <2>1. \A k \in I : ~(k < m) /\ k \in Nat
      BY <1>1 DEF OpToRel
    <2> QED BY <2>1
  <1>3. \E x \in I : \A k \in I : x =< k
    BY <1>1, <1>2
  <1> QED BY <1>3, Zenon DEF Min

\* Chunks that share no word are one behind the other.
LEMMA Apart ==
    ASSUME NEW c \in Chunks, NEW d \in Chunks, \A w : ~(w \in Cells(c) /\ w \in Cells(d)),
           c.base <= d.base
    PROVE  EndOf(c) <= d.base
  BY ChunkFacts

\* The walk stops where the chunk belongs.
LEMMA BeforeIs ==
    ASSUME NEW list, Good(list), NEW c \in Chunks, NEW n \in Nat, n = Len(list),
           \A w : ~(w \in Cells(c) /\ w \in CellsOf(list))
    PROVE  /\ Before(list, c) \in 0..n
           /\ \A j \in 1..n : j <= Before(list, c) => EndOf(list[j]) <= c.base
           /\ \A j \in 1..n : Before(list, c) < j => EndOf(c) <= list[j].base
  <1> DEFINE Above == {i \in 1..n : c.base < list[i].base}
             found == SelectInSeq(list, LAMBDA d : c.base < d.base)
  <1>1. /\ \A i \in 1..n : list[i] \in Chunks
        /\ \A i, j \in 1..n : i < j => EndOf(list[i]) < list[j].base
    BY GoodFacts
  <1>2. \A j \in 1..n : \A w : ~(w \in Cells(c) /\ w \in Cells(list[j]))
    BY CellsOfIs
  <1>3. Above \subseteq Nat
    OBVIOUS
  <1>4. found = IF Above # {} THEN Min(Above) ELSE 0
    BY DEF SelectInSeq
  <1>5. Before(list, c) = IF found = 0 THEN n ELSE found - 1
    BY DEF Before
  <1>6. ASSUME NEW j \in 1..n, c.base < list[j].base PROVE EndOf(c) <= list[j].base
    BY <1>1, <1>2, <1>6, Apart, ChunkFacts
  <1>7. ASSUME NEW j \in 1..n, ~(c.base < list[j].base) PROVE EndOf(list[j]) <= c.base
    BY <1>1, <1>2, <1>7, Apart, ChunkFacts
  <1> HIDE DEF found
  <1>8. CASE Above = {}
    <2>1. Before(list, c) = n
      BY <1>4, <1>5, <1>8
    <2>2. \A j \in 1..n : ~(c.base < list[j].base)
      BY <1>8
    <2> QED BY <1>7, <2>1, <2>2
  <1>9. CASE Above # {}
    <2>1. PICK m : m = Min(Above)
      OBVIOUS
    <2>2. m \in Above /\ \A j \in Above : m <= j
      BY <1>3, <1>9, <2>1, MinIs
    <2>3. m \in 1..n /\ Before(list, c) = m - 1
      BY <1>4, <1>5, <1>9, <2>1, <2>2
    <2>4. \A j \in 1..n : j <= m - 1 => ~(c.base < list[j].base)
      BY <2>2, <2>3
    <2>5. ASSUME NEW j \in 1..n, m - 1 < j PROVE c.base < list[j].base
      <3>1. c.base < list[m].base
        BY <2>2
      <3>2. m = j \/ m < j
        BY <2>3, <2>5
      <3>3. m < j => list[m].base < list[j].base
        BY <1>1, <2>3, ChunkFacts
      <3> QED BY <1>1, <2>3, <3>1, <3>2, <3>3, ChunkFacts
    <2> QED BY <1>6, <1>7, <2>3, <2>4, <2>5
  <1> QED BY <1>8, <1>9

\* The chunk that is inserted, with what it touches.
Merged(list, k, c) ==
    Chunk(IF ToLast(list, k, c) THEN list[k].base ELSE c.base,
          c.len + (IF ToLast(list, k, c) THEN list[k].len ELSE 0)
                + (IF ToNext(list, k, c) THEN list[k + 1].len ELSE 0))

\* Its words join the list's; order and gaps are kept.
LEMMA InsertGood ==
    ASSUME NEW list, Good(list), NEW c \in Chunks,
           \A w : ~(w \in Cells(c) /\ w \in CellsOf(list))
    PROVE  /\ Good(InsertFreeChunk(list, c))
           /\ CellsOf(InsertFreeChunk(list, c)) = CellsOf(list) \cup Cells(c)
  <1>1. PICK n \in Nat : n = Len(list)
    BY GoodFacts
  <1>2. PICK k : k = Before(list, c)
    OBVIOUS
  <1>3. /\ k \in 0..n
        /\ \A j \in 1..n : j <= k => EndOf(list[j]) <= c.base
        /\ \A j \in 1..n : k < j => EndOf(c) <= list[j].base
    BY <1>1, <1>2, BeforeIs
  <1>4. /\ \A i \in 1..n : list[i] \in Chunks
        /\ \A i, j \in 1..n : i < j => EndOf(list[i]) < list[j].base
    BY <1>1, GoodFacts
  <1>5. PICK a, b : /\ a = IF ToLast(list, k, c) THEN k - 1 ELSE k
                    /\ b = IF ToNext(list, k, c) THEN k + 2 ELSE k + 1
    OBVIOUS
  <1>6. PICK m : m = Merged(list, k, c)
    OBVIOUS
  <1>7. InsertFreeChunk(list, c) = Splice(list, a, m, b)
    BY <1>2, <1>5, <1>6 DEF InsertFreeChunk, Splice, Merged
  <1>8. /\ ToLast(list, k, c) => k \in 1..n /\ EndOf(list[k]) = c.base
        /\ ToNext(list, k, c) => k + 1 \in 1..n /\ EndOf(c) = list[k + 1].base
    BY <1>1, <1>3 DEF ToLast, ToNext, Touch, EndOf
  <1>9. /\ ~ToLast(list, k, c) /\ k > 0 => EndOf(list[k]) # c.base
        /\ ~ToNext(list, k, c) /\ k < n => EndOf(c) # list[k + 1].base
    BY <1>1, <1>3 DEF ToLast, ToNext, Touch, EndOf
  <1>10. a \in 0..n /\ b \in (a + 1)..(n + 1)
    BY <1>3, <1>5, <1>8
  <1>11. /\ m \in Chunks
         /\ m.base = IF ToLast(list, k, c) THEN list[k].base ELSE c.base
         /\ EndOf(m) = IF ToNext(list, k, c) THEN EndOf(list[k + 1]) ELSE EndOf(c)
    <2>1. PICK base, len : /\ base = IF ToLast(list, k, c) THEN list[k].base ELSE c.base
                           /\ len = c.len + (IF ToLast(list, k, c) THEN list[k].len ELSE 0)
                                          + (IF ToNext(list, k, c) THEN list[k + 1].len ELSE 0)
      OBVIOUS
    <2>2. m = Chunk(base, len)
      BY <1>6, <2>1 DEF Merged
    <2>3. /\ ToLast(list, k, c) =>
               /\ list[k].base \in Int /\ list[k].len \in Int /\ Base <= list[k].base
               /\ Node <= list[k].len /\ list[k].base + list[k].len = c.base
          /\ ToNext(list, k, c) =>
               /\ list[k + 1].base \in Int /\ list[k + 1].len \in Int
               /\ list[k + 1].base + list[k + 1].len <= Base + Length
               /\ EndOf(list[k + 1]) = list[k + 1].base + list[k + 1].len
               /\ Node <= list[k + 1].len /\ list[k + 1].base = c.base + c.len
      BY <1>4, <1>8, ChunkFacts
    <2>4. /\ c.base \in Int /\ c.len \in Int /\ Base <= c.base /\ Node <= c.len
          /\ c.base + c.len <= Base + Length /\ EndOf(c) = c.base + c.len
      BY ChunkFacts
    <2>5. /\ base \in Int /\ len \in Int /\ Base <= base /\ Node <= len
          /\ base + len = IF ToNext(list, k, c) THEN EndOf(list[k + 1]) ELSE EndOf(c)
          /\ base + len <= Base + Length
      <3>1. CASE ToLast(list, k, c) /\ ToNext(list, k, c)
        BY <2>1, <2>3, <2>4, <3>1 DEF Node
      <3>2. CASE ToLast(list, k, c) /\ ~ToNext(list, k, c)
        BY <2>1, <2>3, <2>4, <3>2 DEF Node
      <3>3. CASE ~ToLast(list, k, c) /\ ToNext(list, k, c)
        BY <2>1, <2>3, <2>4, <3>3 DEF Node
      <3>4. CASE ~ToLast(list, k, c) /\ ~ToNext(list, k, c)
        BY <2>1, <2>3, <2>4, <3>4 DEF Node
      <3> QED BY <3>1, <3>2, <3>3, <3>4
    <2> QED BY <2>1, <2>2, <2>5, ChunkIs DEF Chunk, EndOf
  <1>12. \A j \in 1..n : j <= a => EndOf(list[j]) < m.base
    <2>1. ASSUME NEW j \in 1..n, j <= a PROVE EndOf(list[j]) < m.base
      <3>1. CASE ToLast(list, k, c)
        BY <1>4, <1>5, <1>8, <1>11, <2>1, <3>1
      <3>2. CASE ~ToLast(list, k, c)
        <4>1. j <= k /\ k \in 1..n /\ m.base = c.base
          BY <1>3, <1>5, <1>11, <2>1, <3>2
        <4>2. CASE j = k
          BY <1>3, <1>4, <1>9, <3>2, <4>1, <4>2, ChunkFacts
        <4>3. CASE j < k
          <5>1. EndOf(list[j]) < list[k].base /\ list[k].base < EndOf(list[k])
                /\ EndOf(list[k]) <= c.base
            BY <1>3, <1>4, <4>1, <4>3, ChunkFacts
          <5> QED BY <1>4, <4>1, <5>1, ChunkFacts
        <4> QED BY <4>1, <4>2, <4>3
      <3> QED BY <3>1, <3>2
    <2> QED BY <2>1
  <1>13. \A j \in 1..n : b <= j => EndOf(m) < list[j].base
    <2>1. ASSUME NEW j \in 1..n, b <= j PROVE EndOf(m) < list[j].base
      <3>1. CASE ToNext(list, k, c)
        <4>1. k + 1 \in 1..n /\ k + 1 < j /\ EndOf(m) = EndOf(list[k + 1])
          BY <1>3, <1>5, <1>8, <1>11, <2>1, <3>1
        <4> QED BY <1>4, <4>1
      <3>2. CASE ~ToNext(list, k, c)
        <4>1. k + 1 <= j /\ k + 1 \in 1..n /\ EndOf(m) = EndOf(c)
          BY <1>3, <1>5, <1>11, <2>1, <3>2
        <4>2. CASE j = k + 1
          BY <1>3, <1>4, <1>9, <3>2, <4>1, <4>2, ChunkFacts
        <4>3. CASE k + 1 < j
          <5>1. EndOf(c) <= list[k + 1].base /\ list[k + 1].base < EndOf(list[k + 1])
                /\ EndOf(list[k + 1]) < list[j].base
            BY <1>3, <1>4, <4>1, <4>3, ChunkFacts
          <5> QED BY <1>4, <4>1, <5>1, ChunkFacts
        <4> QED BY <1>3, <4>1, <4>2, <4>3
      <3> QED BY <3>1, <3>2
    <2> QED BY <2>1
  <1>14. /\ Good(Splice(list, a, m, b))
         /\ \A w : w \in CellsOf(Splice(list, a, m, b))
               <=> \/ w \in Cells(m)
                   \/ \E j \in 1..n : (j <= a \/ b <= j) /\ w \in Cells(list[j])
    <2>1. /\ \A j \in 1..a : EndOf(list[j]) < m.base
          /\ \A j \in b..n : EndOf(m) < list[j].base
      BY <1>10, <1>12, <1>13
    <2> QED BY <1>1, <1>10, <1>11, <2>1, SpliceGood
  <1>15. ASSUME NEW w PROVE w \in CellsOf(Splice(list, a, m, b)) <=> w \in CellsOf(list) \/ w \in Cells(c)
    <2>1. w \in Cells(m) <=> \/ w \in Cells(c)
                             \/ ToLast(list, k, c) /\ w \in Cells(list[k])
                             \/ ToNext(list, k, c) /\ w \in Cells(list[k + 1])
      <3>1. w \in Cells(m) <=> w \in Int /\ m.base <= w /\ w < EndOf(m)
        BY <1>11, ChunkFacts
      <3>2. w \in Cells(c) <=> w \in Int /\ c.base <= w /\ w < EndOf(c)
        BY ChunkFacts
      <3>3. ToLast(list, k, c) =>
               /\ w \in Cells(list[k]) <=> w \in Int /\ list[k].base <= w /\ w < c.base
               /\ list[k].base < c.base /\ list[k].base \in Int
        BY <1>4, <1>8, ChunkFacts
      <3>4. ToNext(list, k, c) =>
               /\ w \in Cells(list[k + 1]) <=> w \in Int /\ EndOf(c) <= w /\ w < EndOf(list[k + 1])
               /\ EndOf(c) < EndOf(list[k + 1]) /\ EndOf(list[k + 1]) \in Int
        BY <1>4, <1>8, ChunkFacts
      <3>5. c.base \in Int /\ EndOf(c) \in Int /\ c.base < EndOf(c)
        BY ChunkFacts
      <3> QED BY <1>11, <3>1, <3>2, <3>3, <3>4, <3>5
    <2>2. w \in CellsOf(list) <=> \E j \in 1..n : w \in Cells(list[j])
      BY <1>1, CellsOfIs
    <2>3. \A j \in 1..n : j <= a \/ b <= j \/ (ToLast(list, k, c) /\ j = k)
                                        \/ (ToNext(list, k, c) /\ j = k + 1)
      BY <1>3, <1>5
    <2>4. /\ ToLast(list, k, c) => k \in 1..n
          /\ ToNext(list, k, c) => k + 1 \in 1..n
      BY <1>8
    <2> QED BY <1>14, <2>1, <2>2, <2>3, <2>4
  <1> QED BY <1>7, <1>14, <1>15

-----------------------------------------------------------------------------
(* miniheap_alloc *)

\* A part of a list.
LEMMA SubSeqGood ==
    ASSUME NEW list, Good(list), NEW n \in Int, n = Len(list),
           NEW a \in Int, NEW b \in Int, 1 <= a, b <= n
    PROVE  /\ Good(SubSeq(list, a, b))
           /\ \A i \in 1..Len(SubSeq(list, a, b)) :
                 i + a - 1 \in a..b /\ SubSeq(list, a, b)[i] = list[i + a - 1]
           /\ \A w : w \in CellsOf(SubSeq(list, a, b)) <=> \E j \in a..b : w \in Cells(list[j])
  <1> DEFINE part == SubSeq(list, a, b)
  <1>1. /\ \A i \in 1..n : list[i] \in Chunks
        /\ \A i, j \in 1..n : i < j => EndOf(list[i]) < list[j].base
    BY GoodFacts
  <1>2. \A i \in a..b : list[i] \in Chunks
    BY <1>1
  <1>3. /\ part \in Seq(Chunks) /\ Len(part) = IF a <= b THEN b - a + 1 ELSE 0
        /\ \A i \in 1..(b - a + 1) : part[i] = list[a + i - 1]
    BY <1>2, SubSeqProperties
  <1> HIDE DEF part
  <1>4. \A i \in 1..Len(part) : i + a - 1 \in a..b /\ part[i] = list[i + a - 1]
    BY <1>3
  <1>5. Good(part)
    <2>1. ASSUME NEW i \in 1..Len(part), NEW j \in 1..Len(part), i < j
          PROVE  EndOf(part[i]) < part[j].base
      <3>1. i + a - 1 \in 1..n /\ j + a - 1 \in 1..n /\ i + a - 1 < j + a - 1
        BY <1>3, <2>1
      <3> QED BY <1>1, <1>4, <3>1
    <2> QED BY <1>3, <2>1 DEF Good
  <1>6. ASSUME NEW w PROVE w \in CellsOf(part) <=> \E j \in a..b : w \in Cells(list[j])
    <2>1. ASSUME NEW j \in a..b, w \in Cells(list[j]) PROVE w \in CellsOf(part)
      <3>1. j - a + 1 \in 1..Len(part) /\ (j - a + 1) + a - 1 = j
        BY <1>3
      <3>2. part[j - a + 1] = list[j]
        BY <1>4, <3>1
      <3> QED BY <2>1, <3>1, <3>2, CellsOfIs
    <2>2. ASSUME w \in CellsOf(part) PROVE \E j \in a..b : w \in Cells(list[j])
      BY <1>4, <2>2, CellsOfIs
    <2> QED BY <2>1, <2>2
  <1> QED BY <1>4, <1>5, <1>6 DEF part

\* One list behind another.
LEMMA ConcatGood ==
    ASSUME NEW s, Good(s), NEW t, Good(t),
           \A i \in 1..Len(s), j \in 1..Len(t) : EndOf(s[i]) < t[j].base
    PROVE  /\ Good(s \o t)
           /\ \A i \in 1..Len(s \o t) : \/ i \in 1..Len(s) /\ (s \o t)[i] = s[i]
                                        \/ i - Len(s) \in 1..Len(t) /\ (s \o t)[i] = t[i - Len(s)]
           /\ CellsOf(s \o t) = CellsOf(s) \cup CellsOf(t)
  <1> DEFINE all == s \o t
  <1>1. PICK p \in Nat, q \in Nat : p = Len(s) /\ q = Len(t)
    BY GoodFacts
  <1>2. /\ \A i, j \in 1..p : i < j => EndOf(s[i]) < s[j].base
        /\ \A i, j \in 1..q : i < j => EndOf(t[i]) < t[j].base
    BY <1>1, GoodFacts
  <1>3. /\ all \in Seq(Chunks) /\ Len(all) = p + q
        /\ \A i \in 1..(p + q) : all[i] = IF i <= p THEN s[i] ELSE t[i - p]
    BY <1>1, GoodFacts, ConcatProperties
  <1> HIDE DEF all
  <1>4. Good(all)
    <2>1. ASSUME NEW i \in 1..(p + q), NEW j \in 1..(p + q), i < j
          PROVE  EndOf(all[i]) < all[j].base
      <3>1. CASE j <= p
        <4>1. i \in 1..p /\ j \in 1..p
          BY <2>1, <3>1
        <4> QED BY <1>2, <1>3, <2>1, <4>1
      <3>2. CASE i <= p /\ p < j
        <4>1. i \in 1..p /\ j - p \in 1..q
          BY <3>2
        <4>2. EndOf(s[i]) < t[j - p].base
          BY <1>1, <4>1
        <4> QED BY <1>3, <3>2, <4>2
      <3>3. CASE p < i
        <4>1. i - p \in 1..q /\ j - p \in 1..q /\ i - p < j - p
          BY <2>1, <3>3
        <4>2. EndOf(t[i - p]) < t[j - p].base
          BY <1>2, <4>1
        <4> QED BY <1>3, <2>1, <3>3, <4>2
      <3> QED BY <3>1, <3>2, <3>3
    <2> QED BY <1>3, <2>1 DEF Good
  <1>5. \A i \in 1..(p + q) : \/ i \in 1..p /\ all[i] = s[i]
                              \/ i - p \in 1..q /\ all[i] = t[i - p]
    BY <1>3
  <1>6. ASSUME NEW w PROVE w \in CellsOf(all) <=> w \in CellsOf(s) \/ w \in CellsOf(t)
    <2>1. ASSUME NEW i \in 1..p, w \in Cells(s[i]) PROVE w \in CellsOf(all)
      <3>1. i \in 1..(p + q) /\ all[i] = s[i]
        BY <1>3
      <3> QED BY <1>3, <2>1, <3>1, CellsOfIs
    <2>2. ASSUME NEW i \in 1..q, w \in Cells(t[i]) PROVE w \in CellsOf(all)
      <3>1. i + p \in 1..(p + q) /\ (i + p) - p = i /\ ~(i + p <= p)
        OBVIOUS
      <3>2. all[i + p] = t[i]
        BY <1>3, <3>1
      <3> QED BY <1>3, <2>2, <3>1, <3>2, CellsOfIs
    <2>3. ASSUME w \in CellsOf(all) PROVE w \in CellsOf(s) \/ w \in CellsOf(t)
      <3>1. PICK i \in 1..(p + q) : w \in Cells(all[i])
        BY <1>3, <2>3, CellsOfIs
      <3> QED BY <1>1, <1>5, <3>1, CellsOfIs
    <2> QED BY <1>1, <2>1, <2>2, <2>3, CellsOfIs
  <1> QED BY <1>1, <1>3, <1>4, <1>5, <1>6 DEF all

\* What is taken lies in its chunk, and the words of the rest are the others.
LEMMA RestGood ==
    ASSUME NEW list, Good(list), NEW n \in Nat, n = Len(list), NEW i \in 1..n,
           NEW size \in Int, Node <= size, size <= list[i].len
    PROVE  /\ Taken(list[i], size) \in Chunks
           /\ Taken(list[i], size).base = list[i].base
           /\ size <= Taken(list[i], size).len
           /\ Cells(Taken(list[i], size)) \subseteq CellsOf(list)
           /\ Good(Rest(list, i, size))
           /\ CellsOf(Rest(list, i, size)) = CellsOf(list) \ Cells(Taken(list[i], size))
  <1> DEFINE taken == Taken(list[i], size)
  <1>1. /\ list \in Seq(Chunks) /\ \A j \in 1..n : list[j] \in Chunks
        /\ \A j, k \in 1..n : j < k => EndOf(list[j]) < list[k].base
    BY GoodFacts
  <1>2. PICK c : c = list[i] /\ c \in Chunks
    BY <1>1
  <1>3. \A w : w \in CellsOf(list) <=> \E j \in 1..n : w \in Cells(list[j])
    BY CellsOfIs
  <1>4. \A j \in 1..n : j # i => \A w : ~(w \in Cells(list[j]) /\ w \in Cells(c))
    BY <1>1, <1>2, ChunkFacts, SMTT(30)
  <1>5. CASE Splits(c, size)
    <2> DEFINE rest == Chunk(c.base + size, c.len - size)
               all  == [list EXCEPT ![i] = rest]
    <2>1. taken = Chunk(c.base, size) /\ Rest(list, i, size) = all
      BY <1>2, <1>5 DEF Taken, Rest, ReplaceAt
    <2>2. c.len > size + Node /\ size <= c.len
      BY <1>2, <1>5 DEF Splits
    <2>whole. /\ c.base \in Int /\ c.len \in Int /\ Base <= c.base /\ c.base + c.len <= Base + Length
          /\ EndOf(c) = c.base + c.len
      BY <1>2, ChunkFacts
    <2>parts. /\ taken.base = c.base /\ taken.len = size
          /\ rest.base = c.base + size /\ rest.len = c.len - size
      BY <2>1 DEF Chunk
    <2>3. taken \in Chunks /\ taken.base = c.base /\ taken.len = size /\ EndOf(taken) = c.base + size
      <3>1. c.base + size <= Base + Length
        BY <2>2, <2>whole, HeapSizes DEF Node
      <3> QED BY <2>1, <2>whole, <2>parts, <3>1, ChunkIs DEF EndOf
    <2>4. rest \in Chunks /\ rest.base = c.base + size /\ EndOf(rest) = EndOf(c)
      <3>1. /\ c.base + size \in Int /\ c.len - size \in Int
            /\ Base <= c.base + size /\ Node <= c.len - size
            /\ (c.base + size) + (c.len - size) = c.base + c.len
        BY <2>2, <2>whole, HeapSizes, SMTT(30) DEF Node
      <3>2. rest \in Chunks
        BY <2>whole, <3>1, ChunkIs
      <3> QED BY <2>whole, <2>parts, <3>1, <3>2 DEF EndOf
    <2>5. \A w : w \in Cells(c) <=> w \in Cells(taken) \/ w \in Cells(rest)
      <3> HIDE DEF taken, rest
      <3>1. ASSUME NEW w PROVE w \in Cells(c) <=> w \in Cells(taken) \/ w \in Cells(rest)
        <4>1. w \in Cells(c) <=> w \in Int /\ c.base <= w /\ w < EndOf(c)
          BY <1>2, ChunkFacts
        <4>2. w \in Cells(taken) <=> w \in Int /\ c.base <= w /\ w < c.base + size
          BY <2>3, ChunkFacts
        <4>3. w \in Cells(rest) <=> w \in Int /\ c.base + size <= w /\ w < EndOf(c)
          BY <2>4, ChunkFacts
        <4> QED BY <2>2, <2>whole, <4>1, <4>2, <4>3 DEF Node
      <3> QED BY <3>1
    <2>6. \A w : ~(w \in Cells(taken) /\ w \in Cells(rest))
      BY <2>3, <2>4, ChunkFacts
    <2> HIDE DEF rest, taken
    <2>7. /\ all \in Seq(Chunks) /\ Len(all) = n
          /\ \A j \in 1..n : all[j] = IF j = i THEN rest ELSE list[j]
      BY <1>1, <2>4, ExceptSeq
    <2> HIDE DEF all
    <2>8. Good(all)
      <3>1. ASSUME NEW j \in 1..n, NEW k \in 1..n, j < k
            PROVE  EndOf(all[j]) < all[k].base
        <4>1. EndOf(list[j]) < list[k].base
          BY <1>1, <3>1
        <4>2. EndOf(all[j]) = EndOf(list[j])
          BY <1>2, <2>4, <2>7
        <4>3. list[k].base <= all[k].base /\ list[k].base \in Int /\ all[k].base \in Int
          BY <1>1, <1>2, <2>2, <2>4, <2>7, ChunkFacts, SMTT(30) DEF Node
        <4>4. EndOf(list[j]) \in Int
          BY <1>1, ChunkFacts
        <4> QED BY <4>1, <4>2, <4>3, <4>4
      <3> QED BY <2>7, <3>1 DEF Good
    <2>9. \A w : w \in CellsOf(all) <=> \E j \in 1..n : w \in Cells(all[j])
      BY <2>7, CellsOfIs
    <2>10. \A w : w \in CellsOf(all) <=> w \in CellsOf(list) /\ w \notin Cells(taken)
      BY <1>2, <1>3, <1>4, <2>5, <2>6, <2>7, <2>9
    <2>11. Cells(taken) \subseteq CellsOf(list)
      BY <1>2, <1>3, <2>5
    <2> QED BY <1>2, <2>1, <2>3, <2>8, <2>10, <2>11 DEF taken
  <1>6. CASE ~Splits(c, size)
    <2> DEFINE front == SubSeq(list, 1, i - 1)
               back  == SubSeq(list, i + 1, n)
    <2>1. taken = c /\ Rest(list, i, size) = front \o back
      BY <1>2, <1>6 DEF Taken, Rest, RemoveAt
    <2>2. /\ Good(front)
          /\ \A j \in 1..Len(front) : j + 1 - 1 \in 1..(i - 1) /\ front[j] = list[j + 1 - 1]
          /\ \A w : w \in CellsOf(front) <=> \E j \in 1..(i - 1) : w \in Cells(list[j])
      BY SubSeqGood
    <2>3. /\ Good(back)
          /\ \A j \in 1..Len(back) :
                j + (i + 1) - 1 \in (i + 1)..n /\ back[j] = list[j + (i + 1) - 1]
          /\ \A w : w \in CellsOf(back) <=> \E j \in (i + 1)..n : w \in Cells(list[j])
      BY SubSeqGood
    <2> HIDE DEF front, back
    <2>4. ASSUME NEW j \in 1..Len(front), NEW k \in 1..Len(back)
          PROVE  EndOf(front[j]) < back[k].base
      <3>1. j \in 1..n /\ k + (i + 1) - 1 \in 1..n /\ j < k + (i + 1) - 1 /\ j + 1 - 1 = j
        BY <2>2, <2>3
      <3> QED BY <1>1, <2>2, <2>3, <3>1
    <2>5. Good(front \o back) /\ CellsOf(front \o back) = CellsOf(front) \cup CellsOf(back)
      BY <2>2, <2>3, <2>4, ConcatGood
    <2>6. \A w : w \in CellsOf(front \o back) <=> \E j \in 1..n : j # i /\ w \in Cells(list[j])
      <3>1. \A j \in 1..n : j # i <=> j \in 1..(i - 1) \/ j \in (i + 1)..n
        OBVIOUS
      <3>2. \A j : j \in 1..(i - 1) \/ j \in (i + 1)..n => j \in 1..n
        OBVIOUS
      <3> QED BY <2>2, <2>3, <2>5, <3>1, <3>2
    <2>7. \A w : w \in CellsOf(front \o back) <=> w \in CellsOf(list) /\ w \notin Cells(c)
      BY <1>2, <1>3, <1>4, <2>6
    <2>8. Cells(c) \subseteq CellsOf(list)
      BY <1>2, <1>3
    <2> QED BY <1>2, <2>1, <2>5, <2>7, <2>8
  <1> QED BY <1>5, <1>6

\* The chunk of an allocation is large enough.
LEMMA FirstFitIs ==
    ASSUME NEW list, NEW n \in Nat, n = Len(list), NEW size
    PROVE  /\ FirstFit(list, size) \in 0..n
           /\ FirstFit(list, size) # 0 => list[FirstFit(list, size)].len >= size
  <1> DEFINE Fits == {i \in 1..n : list[i].len >= size}
  <1>1. FirstFit(list, size) = IF Fits # {} THEN Min(Fits) ELSE 0
    BY DEF FirstFit, SelectInSeq
  <1>2. CASE Fits = {}
    BY <1>1, <1>2
  <1>3. CASE Fits # {}
    <2>1. Fits \subseteq Nat
      OBVIOUS
    <2>2. PICK m : m = Min(Fits)
      OBVIOUS
    <2>3. m \in Fits
      <3> HIDE DEF Fits
      <3> QED BY <1>3, <2>1, <2>2, MinIs
    <2> QED BY <1>1, <1>3, <2>2, <2>3
  <1> QED BY <1>2, <1>3

-----------------------------------------------------------------------------
(* miniheap_trim *)

\* Alignments and pages: the powers of two up to 2^24.
LEMMA PowersAre ==
    ASSUME NEW p \in PowersOfTwo
    PROVE  p \in Nat /\ (p = 1 \/ p = 2 \/ 4 <= p)
  <1> DEFINE IsPower(q) == q \in Nat /\ (q = 1 \/ q = 2 \/ 4 <= q)
  <1>1. /\ IsPower(2^0) /\ IsPower(2^1) /\ IsPower(2^2) /\ IsPower(2^3) /\ IsPower(2^4)
        /\ IsPower(2^5) /\ IsPower(2^6) /\ IsPower(2^7) /\ IsPower(2^8) /\ IsPower(2^9)
        /\ IsPower(2^10) /\ IsPower(2^11) /\ IsPower(2^12) /\ IsPower(2^13) /\ IsPower(2^14)
        /\ IsPower(2^15) /\ IsPower(2^16) /\ IsPower(2^17) /\ IsPower(2^18) /\ IsPower(2^19)
        /\ IsPower(2^20) /\ IsPower(2^21) /\ IsPower(2^22) /\ IsPower(2^23) /\ IsPower(2^24)
    OBVIOUS
  <1> HIDE DEF IsPower
  <1>2. PICK k \in 0..24 : p = 2^k
    BY Zenon DEF PowersOfTwo
  <1>3. \/ k = 0 \/ k = 1 \/ k = 2 \/ k = 3 \/ k = 4
        \/ k = 5 \/ k = 6 \/ k = 7 \/ k = 8 \/ k = 9
        \/ k = 10 \/ k = 11 \/ k = 12 \/ k = 13 \/ k = 14
        \/ k = 15 \/ k = 16 \/ k = 17 \/ k = 18 \/ k = 19
        \/ k = 20 \/ k = 21 \/ k = 22 \/ k = 23 \/ k = 24
    BY <1>2
  <1>4. IsPower(p)
    BY <1>1, <1>2, <1>3, Zenon
  <1> QED BY <1>4 DEF IsPower

LEMMA PageIs == Page \in Nat /\ Node < Page
  BY PowersAre, HeapAssumption DEF HeapAssumption

LEMMA SizesAre == Requests \subseteq Nat /\ Alignments \subseteq Nat
  <1>1. 2^24 \in Nat
    OBVIOUS
  <1>2. PICK top \in Nat : top = 2^24
    BY <1>1
  <1>3. Requests \subseteq 0..top /\ Alignments \subseteq 0..top
    BY <1>2, HeapAssumption, Zenon DEF HeapAssumption
  <1> QED BY <1>3

LEMMA RoundIs ==
    ASSUME NEW a \in Int, NEW n \in Nat, 0 < n
    PROVE  /\ RoundUp(a, n) \in Int /\ a <= RoundUp(a, n) /\ RoundUp(a, n) < a + n
           /\ RoundDown(a, n) \in Int /\ a - n < RoundDown(a, n) /\ RoundDown(a, n) <= a
  <1>1. ASSUME NEW b \in Int PROVE b % n \in 0..(n - 1)
    OBVIOUS
  <1>2. a % n \in 0..(n - 1) /\ (-a) % n \in 0..(n - 1)
    BY <1>1
  <1> QED BY <1>2 DEF RoundUp, RoundDown

\* What stays of a chunk is nothing or holds a list node.
LEMMA TrimBounds ==
    ASSUME NEW c \in Chunks
    PROVE  /\ TrimStart(c) \in Int
           /\ TrimStart(c) = c.base \/ c.base + Node <= TrimStart(c)
           /\ TrimEnd(c) \in Int
           /\ TrimEnd(c) = EndOf(c) \/ TrimEnd(c) + Node <= EndOf(c)
  <1>1. c.base \in Int /\ EndOf(c) \in Int
    BY ChunkFacts
  <1>2. Page \in Nat /\ Node < Page /\ 0 < Page
    BY PageIs DEF Node
  <1>3. TrimStart(c) \in Int /\ (TrimStart(c) = c.base \/ c.base + Node <= TrimStart(c))
    <2>1. PICK p : p = RoundUp(c.base, Page)
      OBVIOUS
    <2>2. p \in Int /\ c.base <= p
      BY <1>1, <1>2, <2>1, RoundIs
    <2>3. TrimStart(c) = IF p # c.base /\ p - c.base < Node THEN p + Page ELSE p
      BY <2>1 DEF TrimStart
    <2> QED BY <1>1, <1>2, <2>2, <2>3 DEF Node
  <1>4. TrimEnd(c) \in Int /\ (TrimEnd(c) = EndOf(c) \/ TrimEnd(c) + Node <= EndOf(c))
    <2>1. PICK p : p = RoundDown(EndOf(c), Page)
      OBVIOUS
    <2>2. p \in Int /\ p <= EndOf(c)
      BY <1>1, <1>2, <2>1, RoundIs
    <2>3. TrimEnd(c) = IF p # EndOf(c) /\ EndOf(c) - p < Node THEN p - Page ELSE p
      BY <2>1 DEF TrimEnd
    <2> QED BY <1>1, <1>2, <2>2, <2>3 DEF Node
  <1> QED BY <1>3, <1>4

LEMMA PieceGood ==
    ASSUME NEW base \in Int, NEW end \in Int, Base <= base, end <= Base + Length,
           base = end \/ base + Node <= end
    PROVE  /\ Good(Piece(base, end))
           /\ \A i \in 1..Len(Piece(base, end)) :
                 Piece(base, end)[i].base = base /\ EndOf(Piece(base, end)[i]) = end
           /\ \A w : w \in CellsOf(Piece(base, end)) <=> w \in Int /\ base <= w /\ w < end
  <1>1. CASE base = end
    <2>1. Piece(base, end) = <<>>
      BY <1>1 DEF Piece
    <2>2. Len(<<>>) = 0 /\ <<>> \in Seq(Chunks)
      OBVIOUS
    <2>3. Good(<<>>)
      BY <2>2 DEF Good
    <2>4. \A w : w \notin CellsOf(<<>>)
      BY <2>2, CellsOfIs
    <2> QED BY <1>1, <2>1, <2>2, <2>3, <2>4
  <1>2. CASE base + Node <= end
    <2>1. PICK c : c = Chunk(base, end - base)
      OBVIOUS
    <2>2. Piece(base, end) = <<c>>
      BY <1>2, <2>1 DEF Piece, Node
    <2>3. base + (end - base) = end /\ end - base \in Int /\ Node <= end - base
      BY <1>2 DEF Node
    <2>4. c \in Chunks /\ c.base = base /\ c.len = end - base
      BY <2>1, <2>3, ChunkIs DEF Chunk
    <2>5. EndOf(c) = end
      BY <2>3, <2>4 DEF EndOf
    <2>6. <<c>> \in Seq(Chunks) /\ Len(<<c>>) = 1 /\ <<c>>[1] = c
      BY <2>4
    <2>7. Good(<<c>>)
      BY <2>6 DEF Good
    <2>8. \A w : w \in CellsOf(<<c>>) <=> w \in Cells(c)
      BY <2>6, CellsOfIs
    <2> QED BY <2>2, <2>4, <2>5, <2>6, <2>7, <2>8, ChunkFacts
  <1> QED BY <1>1, <1>2

\* What stays of one chunk, and what goes.
LEMMA RemainsGood ==
    ASSUME NEW c \in Chunks
    PROVE  /\ Good(Remains(c))
           /\ \A i \in 1..Len(Remains(c)) :
                 c.base <= Remains(c)[i].base /\ EndOf(Remains(c)[i]) <= EndOf(c)
           /\ CellsOf(Remains(c)) = Cells(c) \ Pages(c)
           /\ Pages(c) \subseteq Cells(c)
  <1>1. /\ c.base \in Int /\ EndOf(c) \in Int /\ Base <= c.base /\ EndOf(c) <= Base + Length
        /\ \A w : w \in Cells(c) <=> w \in Int /\ c.base <= w /\ w < EndOf(c)
    BY ChunkFacts
  <1>2. CASE ~Trims(c)
    <2>1. Remains(c) = <<c>> /\ Pages(c) = {}
      BY <1>2 DEF Remains, Pages
    <2>2. <<c>> \in Seq(Chunks) /\ Len(<<c>>) = 1 /\ <<c>>[1] = c
      OBVIOUS
    <2>3. Good(<<c>>)
      BY <2>2 DEF Good
    <2>4. \A w : w \in CellsOf(<<c>>) <=> w \in Cells(c)
      BY <2>2, CellsOfIs
    <2> QED BY <1>1, <2>1, <2>2, <2>3, <2>4
  <1>3. CASE Trims(c)
    <2>1. PICK s, e : s = TrimStart(c) /\ e = TrimEnd(c)
      OBVIOUS
    <2>2. /\ s \in Int /\ (s = c.base \/ c.base + Node <= s)
          /\ e \in Int /\ (e = EndOf(c) \/ e + Node <= EndOf(c)) /\ s < e
      BY <1>3, <2>1, TrimBounds DEF Trims
    <2>3. PICK p, q : p = Piece(c.base, s) /\ q = Piece(e, EndOf(c))
      OBVIOUS
    <2>4. c.base <= s /\ s < e /\ e <= EndOf(c) /\ s <= Base + Length /\ Base <= e
      BY <1>1, <2>2, HeapSizes DEF Node
    <2>5. /\ Good(p)
          /\ \A i \in 1..Len(p) : p[i].base = c.base /\ EndOf(p[i]) = s
          /\ \A w : w \in CellsOf(p) <=> w \in Int /\ c.base <= w /\ w < s
      BY <1>1, <2>2, <2>3, <2>4, PieceGood
    <2>6. /\ Good(q)
          /\ \A i \in 1..Len(q) : q[i].base = e /\ EndOf(q[i]) = EndOf(c)
          /\ \A w : w \in CellsOf(q) <=> w \in Int /\ e <= w /\ w < EndOf(c)
      BY <1>1, <2>2, <2>3, <2>4, PieceGood
    <2>7. /\ Good(p \o q)
          /\ \A i \in 1..Len(p \o q) : \/ i \in 1..Len(p) /\ (p \o q)[i] = p[i]
                                       \/ i - Len(p) \in 1..Len(q) /\ (p \o q)[i] = q[i - Len(p)]
          /\ CellsOf(p \o q) = CellsOf(p) \cup CellsOf(q)
      BY <2>2, <2>5, <2>6, ConcatGood
    <2>8. Remains(c) = p \o q
      BY <1>3, <2>1, <2>3 DEF Remains
    <2>9. \A w : w \in Pages(c) <=> w \in Int /\ s <= w /\ w < e
      BY <1>3, <2>1, <2>2 DEF Pages
    <2>10. \A i \in 1..Len(p \o q) :
              c.base <= (p \o q)[i].base /\ EndOf((p \o q)[i]) <= EndOf(c)
      BY <1>1, <2>2, <2>4, <2>5, <2>6, <2>7, SMTT(30)
    <2>11. \A w : w \in CellsOf(p \o q) <=> w \in Cells(c) /\ w \notin Pages(c)
      BY <1>1, <2>2, <2>4, <2>5, <2>6, <2>7, <2>9
    <2>12. \A w : w \in Pages(c) => w \in Cells(c)
      BY <1>1, <2>2, <2>4, <2>9
    <2> QED BY <2>7, <2>8, <2>10, <2>11, <2>12
  <1> QED BY <1>2, <1>3

\* The list after the first turns of the loop.
TrimGood(list, k) ==
    /\ Good(TrimmedUpTo(list)[k])
    /\ \A i \in 1..Len(TrimmedUpTo(list)[k]), j \in (k + 1)..Len(list) :
          EndOf(TrimmedUpTo(list)[k][i]) < list[j].base
    /\ \A w : w \in CellsOf(TrimmedUpTo(list)[k])
          <=> \E j \in 1..k : w \in Cells(list[j]) /\ w \notin Pages(list[j])

\* It is in order after every turn, and ends before the chunks still to come.
LEMMA TrimGoodUpTo ==
    ASSUME NEW list, Good(list), NEW n, n = Len(list)
    PROVE  \A k \in 0..n : TrimGood(list, k)
  <1>1. n \in Nat /\ n = Len(list)
    BY GoodFacts
  <1>2. /\ \A i \in 1..n : list[i] \in Chunks
        /\ \A i, j \in 1..n : i < j => EndOf(list[i]) < list[j].base
        /\ DOMAIN list = 1..n
    BY <1>1, GoodFacts
  <1>3. PICK kept : kept = TrimmedUpTo(list)
    OBVIOUS
  <1>4. /\ kept[0] = <<>>
        /\ \A k \in 1..n : kept[k] = kept[k - 1] \o Remains(list[k])
    BY <1>1, <1>3, TrimmedUpToDef
  <1> DEFINE Turned == {k \in 0..n : TrimGood(list, k)}
  <1>5. 0 \in Turned
    <2>1. <<>> \in Seq(Chunks) /\ Len(<<>>) = 0
      OBVIOUS
    <2>2. Good(<<>>)
      BY <2>1 DEF Good
    <2>3. \A w : w \notin CellsOf(<<>>)
      BY <2>1, CellsOfIs
    <2>4. TrimGood(list, 0)
      BY <1>3, <1>4, <2>1, <2>2, <2>3 DEF TrimGood
    <2> QED BY <2>4
  <1>6. ASSUME NEW k \in 1..n, k - 1 \in Turned PROVE k \in Turned
    <2>1. PICK s, t : s = kept[k - 1] /\ t = Remains(list[k])
      OBVIOUS
    <2>2. /\ Good(s)
          /\ \A i \in 1..Len(s), j \in k..n : EndOf(s[i]) < list[j].base
          /\ \A w : w \in CellsOf(s)
                <=> \E j \in 1..(k - 1) : w \in Cells(list[j]) /\ w \notin Pages(list[j])
      <3>1. TrimGood(list, k - 1)
        BY <1>6
      <3>2. (k - 1) + 1 = k
        OBVIOUS
      <3> QED BY <1>1, <1>3, <2>1, <3>1, <3>2 DEF TrimGood
    <2>3. /\ Good(t)
          /\ \A i \in 1..Len(t) : list[k].base <= t[i].base /\ EndOf(t[i]) <= EndOf(list[k])
          /\ CellsOf(t) = Cells(list[k]) \ Pages(list[k])
      BY <1>2, <2>1, RemainsGood
    <2>4. /\ \A i \in 1..Len(s) : EndOf(s[i]) \in Int /\ s[i].base \in Int
          /\ \A i \in 1..Len(t) : EndOf(t[i]) \in Int /\ t[i].base \in Int
          /\ \A j \in 1..n : EndOf(list[j]) \in Int /\ list[j].base \in Int
      <3>1. \A d \in Chunks : EndOf(d) \in Int /\ d.base \in Int
        BY ChunkFacts
      <3>2. /\ \A i \in 1..Len(s) : s[i] \in Chunks
            /\ \A i \in 1..Len(t) : t[i] \in Chunks
        BY <2>2, <2>3, GoodFacts
      <3> QED BY <1>2, <3>1, <3>2
    <2>5. \A i \in 1..Len(s), j \in 1..Len(t) : EndOf(s[i]) < t[j].base
      <3>1. ASSUME NEW i \in 1..Len(s), NEW j \in 1..Len(t) PROVE EndOf(s[i]) < t[j].base
        <4>1. EndOf(s[i]) < list[k].base
          BY <2>2
        <4>2. list[k].base <= t[j].base
          BY <2>3
        <4> QED BY <2>4, <4>1, <4>2
      <3> QED BY <3>1
    <2>6. /\ Good(s \o t)
          /\ \A i \in 1..Len(s \o t) : \/ i \in 1..Len(s) /\ (s \o t)[i] = s[i]
                                       \/ i - Len(s) \in 1..Len(t) /\ (s \o t)[i] = t[i - Len(s)]
          /\ CellsOf(s \o t) = CellsOf(s) \cup CellsOf(t)
      BY <2>2, <2>3, <2>5, ConcatGood
    <2>7. ASSUME NEW i \in 1..Len(s \o t), NEW j \in (k + 1)..n
          PROVE  EndOf((s \o t)[i]) < list[j].base
      <3>1. CASE i \in 1..Len(s) /\ (s \o t)[i] = s[i]
        <4>1. j \in k..n
          BY <2>7
        <4> QED BY <2>2, <3>1, <4>1
      <3>2. CASE i - Len(s) \in 1..Len(t) /\ (s \o t)[i] = t[i - Len(s)]
        <4>1. PICK m \in 1..Len(t) : (s \o t)[i] = t[m]
          BY <3>2
        <4>2. EndOf(t[m]) <= EndOf(list[k])
          BY <2>3
        <4>3. j \in 1..n /\ k \in 1..n /\ k < j
          BY <2>7
        <4>4. EndOf(list[k]) < list[j].base
          BY <1>2, <4>3
        <4>5. EndOf(t[m]) \in Int /\ EndOf(list[k]) \in Int /\ list[j].base \in Int
          BY <2>4, <4>3
        <4>6. EndOf(t[m]) < list[j].base
          BY <4>2, <4>4, <4>5
        <4> QED BY <4>1, <4>6
      <3> QED BY <2>6, <3>1, <3>2
    <2>8. ASSUME NEW w
          PROVE  w \in CellsOf(s \o t)
                    <=> \E j \in 1..k : w \in Cells(list[j]) /\ w \notin Pages(list[j])
      <3>1. \A j : j \in 1..k <=> j \in 1..(k - 1) \/ j = k
        OBVIOUS
      <3> QED BY <2>2, <2>3, <2>6, <3>1
    <2>9. kept[k] = s \o t
      BY <1>4, <2>1
    <2>10. TrimGood(list, k)
      BY <1>1, <1>3, <2>6, <2>7, <2>8, <2>9 DEF TrimGood
    <2> QED BY <2>10
  <1>7. 0..n \subseteq Turned
    <2> HIDE DEF Turned
    <2> QED BY <1>1, <1>5, <1>6, UpTo
  <1> QED BY <1>7

\* The loop takes the pages out of the list, and nothing else.
LEMMA TrimmedGood ==
    ASSUME NEW list, Good(list)
    PROVE  /\ Good(Trimmed(list))
           /\ CellsOf(Trimmed(list)) = CellsOf(list) \ PagesOf(list)
           /\ PagesOf(list) \subseteq CellsOf(list)
  <1>1. PICK n \in Nat : n = Len(list)
    BY GoodFacts
  <1>2. /\ \A i \in 1..n : list[i] \in Chunks
        /\ \A i, j \in 1..n : i < j => EndOf(list[i]) < list[j].base
        /\ DOMAIN list = 1..n
    BY <1>1, GoodFacts
  <1>3. PICK kept : kept = TrimmedUpTo(list)
    OBVIOUS
  <1>4. TrimGood(list, n)
    BY <1>1, TrimGoodUpTo
  <1>8. Trimmed(list) = kept[n]
    BY <1>1, <1>3 DEF Trimmed
  <1>9. /\ Good(kept[n])
        /\ \A w : w \in CellsOf(kept[n])
              <=> \E j \in 1..n : w \in Cells(list[j]) /\ w \notin Pages(list[j])
    BY <1>3, <1>4 DEF TrimGood
  <1>10. /\ \A w : w \in CellsOf(list) <=> \E j \in 1..n : w \in Cells(list[j])
         /\ \A w : w \in PagesOf(list) <=> \E j \in 1..n : w \in Pages(list[j])
    BY <1>1, <1>2, CellsOfIs DEF PagesOf
  <1>11. \A j \in 1..n : Pages(list[j]) \subseteq Cells(list[j])
    BY <1>2, RemainsGood
  <1>12. ASSUME NEW i \in 1..n, NEW j \in 1..n, NEW w, w \in Cells(list[i]), w \in Cells(list[j])
         PROVE  i = j
    BY <1>2, <1>12, ChunkFacts
  <1>13. \A w : w \in CellsOf(kept[n]) <=> w \in CellsOf(list) /\ w \notin PagesOf(list)
    <2>1. ASSUME NEW w, w \in CellsOf(kept[n]) PROVE w \in CellsOf(list) /\ w \notin PagesOf(list)
      <3>1. PICK j \in 1..n : w \in Cells(list[j]) /\ w \notin Pages(list[j])
        BY <1>9, <2>1
      <3>2. \A i \in 1..n : w \in Pages(list[i]) => i = j
        BY <1>11, <1>12, <3>1
      <3> QED BY <1>10, <3>1, <3>2
    <2>2. ASSUME NEW w, w \in CellsOf(list), w \notin PagesOf(list) PROVE w \in CellsOf(kept[n])
      BY <1>9, <1>10, <2>2
    <2> QED BY <2>1, <2>2
  <1>14. \A w : w \in PagesOf(list) => w \in CellsOf(list)
    BY <1>10, <1>11
  <1> QED BY <1>8, <1>9, <1>13, <1>14

-----------------------------------------------------------------------------
(* miniheap_get_stats *)

LEMMA CellsFinite ==
    ASSUME NEW c \in Chunks
    PROVE  IsFiniteSet(Cells(c)) /\ Cardinality(Cells(c)) = c.len
  <1>1. PICK a \in Int, b \in Int : a = c.base /\ b = c.base + c.len - 1
    BY ChunkFacts
  <1>2. IsFiniteSet(a..b) /\ Cardinality(a..b) = IF a > b THEN 0 ELSE b - a + 1
    BY FS_Interval
  <1>3. ~(a > b) /\ b - a + 1 = c.len
    BY <1>1, ChunkFacts DEF Node
  <1> QED BY <1>1, <1>2, <1>3 DEF Cells

\* The words of two disjoint sets.
LEMMA TwoCounts ==
    ASSUME NEW S, NEW T, IsFiniteSet(S), IsFiniteSet(T), \A w : ~(w \in S /\ w \in T)
    PROVE  IsFiniteSet(S \cup T) /\ Cardinality(S \cup T) = Cardinality(S) + Cardinality(T)
  <1>1. S \cap T = {}
    OBVIOUS
  <1>2. /\ IsFiniteSet(S \cup T)
        /\ Cardinality(S \cup T) = Cardinality(S) + Cardinality(T) - Cardinality(S \cap T)
    BY FS_Union
  <1>3. Cardinality(S \cap T) = 0
    BY <1>1, FS_EmptySet
  <1>4. Cardinality(S) \in Nat /\ Cardinality(T) \in Nat
    BY FS_CardinalityType
  <1> QED BY <1>2, <1>3, <1>4

\* The sum of the lengths counts the words.
LEMMA SumIsCount ==
    ASSUME NEW list, Good(list)
    PROVE  /\ IsFiniteSet(CellsOf(list))
           /\ SumUpTo(list)[Len(list)] = Cardinality(CellsOf(list))
  <1>1. PICK n \in Nat : n = Len(list)
    BY GoodFacts
  <1>2. /\ \A i \in 1..n : list[i] \in Chunks
        /\ \A i, j \in 1..n : i < j => EndOf(list[i]) < list[j].base
    BY <1>1, GoodFacts
  <1>3. PICK sum : sum = SumUpTo(list)
    OBVIOUS
  <1>4. sum[0] = 0 /\ \A k \in 1..n : sum[k] = sum[k - 1] + list[k].len
    BY <1>1, <1>3, SumUpToDef
  <1> DEFINE First(k) == UNION {Cells(list[i]) : i \in 1..k}
             Counted  == {k \in 0..n : IsFiniteSet(First(k)) /\ sum[k] = Cardinality(First(k))}
  <1>5. 0 \in Counted
    <2>1. First(0) = {}
      OBVIOUS
    <2> QED BY <1>4, <2>1, FS_EmptySet
  <1>6. ASSUME NEW k \in 1..n, k - 1 \in Counted PROVE k \in Counted
    <2>1. PICK S, T : S = First(k - 1) /\ T = Cells(list[k])
      OBVIOUS
    <2>2. IsFiniteSet(S) /\ sum[k - 1] = Cardinality(S)
      BY <1>6, <2>1
    <2>3. IsFiniteSet(T) /\ Cardinality(T) = list[k].len
      BY <1>2, <2>1, CellsFinite
    <2>4. \A w : ~(w \in S /\ w \in T)
      <3>1. ASSUME NEW i \in 1..(k - 1), NEW w, w \in Cells(list[i]), w \in Cells(list[k])
            PROVE  FALSE
        <4>1. i \in 1..n /\ i < k
          BY <3>1
        <4> QED BY <1>2, <3>1, <4>1, ChunkFacts
      <3> QED BY <2>1, <3>1
    <2>5. First(k) = S \cup T
      <3>1. \A j : j \in 1..k <=> j \in 1..(k - 1) \/ j = k
        OBVIOUS
      <3> QED BY <2>1, <3>1
    <2> HIDE DEF First
    <2>6. IsFiniteSet(First(k)) /\ Cardinality(First(k)) = Cardinality(S) + Cardinality(T)
      BY <2>2, <2>3, <2>4, <2>5, TwoCounts
    <2>7. sum[k] = Cardinality(First(k))
      BY <1>4, <2>2, <2>3, <2>6
    <2> QED BY <2>6, <2>7
  <1>7. First(n) = CellsOf(list)
    BY <1>1 DEF CellsOf
  <1> HIDE DEF First
  <1>8. n \in Counted
    <2>1. 0..n \subseteq Counted
      <3> HIDE DEF Counted
      <3> QED BY <1>5, <1>6, UpTo
    <2> QED BY <2>1
  <1> QED BY <1>1, <1>3, <1>7, <1>8

-----------------------------------------------------------------------------
(* Blocks *)

BlockOK(b) ==
    /\ b \in [ptr : Int, base : Int, len : Int, want : Requests]
    /\ Chunk(b.base, b.len) \in Chunks
    /\ b.base + Header <= b.ptr /\ b.ptr < b.base + b.len
    /\ b.ptr + b.want <= b.base + b.len

Owned(blocks) == UNION {Cells(b) : b \in blocks}

LEMMA BlockFacts ==
    ASSUME NEW b, BlockOK(b)
    PROVE  /\ b.ptr \in Int /\ b.base \in Int /\ b.len \in Int /\ b.want \in Nat
           /\ Chunk(b.base, b.len) \in Chunks /\ Cells(Chunk(b.base, b.len)) = Cells(b)
           /\ Base <= b.base /\ Node <= b.len /\ b.base + b.len <= Base + Length
           /\ \A w : w \in Cells(b) <=> w \in Int /\ b.base <= w /\ w < b.base + b.len
           /\ b.ptr \in Cells(b)
           /\ \A w \in Int : b.ptr <= w /\ w < b.ptr + b.want => w \in Cells(b)
  <1>1. b.ptr \in Int /\ b.base \in Int /\ b.len \in Int /\ b.want \in Requests
    BY DEF BlockOK
  <1>2. b.want \in Nat
    BY <1>1, SizesAre
  <1>3. PICK c : c = Chunk(b.base, b.len)
    OBVIOUS
  <1>4. c \in Chunks /\ c.base = b.base /\ c.len = b.len
    BY <1>3 DEF BlockOK, Chunk
  <1>5. Cells(c) = Cells(b)
    BY <1>4 DEF Cells
  <1>6. /\ b.base + Header <= b.ptr /\ b.ptr < b.base + b.len
        /\ b.ptr + b.want <= b.base + b.len
    BY DEF BlockOK
  <1>7. \A w : w \in Cells(b) <=> w \in Int /\ b.base <= w /\ w < b.base + b.len
    BY <1>4, <1>5, ChunkFacts
  <1>8. Base <= b.base /\ Node <= b.len /\ b.base + b.len <= Base + Length
    BY <1>4, ChunkFacts
  <1>9. b.ptr \in Cells(b)
    BY <1>1, <1>6, <1>7 DEF Header
  <1>10. \A w \in Int : b.ptr <= w /\ w < b.ptr + b.want => w \in Cells(b)
    BY <1>1, <1>2, <1>6, <1>7 DEF Header
  <1> QED BY <1>1, <1>2, <1>3, <1>4, <1>5, <1>7, <1>8, <1>9, <1>10

\* Rounding up gives a multiple.
LEMMA RoundUpMultiple ==
    ASSUME NEW a \in Int, NEW n \in Nat, 0 < n
    PROVE  RoundUp(a, n) % n = 0
  <1>1. PICK b \in Int : b = -a
    OBVIOUS
  <1>2. PICK d \in Int : b % n = b - n * d
    <2>1. b % n = b - n * (b \div n)
      OBVIOUS
    <2>2. b \div n \in Int
      OBVIOUS
    <2> QED BY <2>1, <2>2
  <1>3. \A q \in Int : (n * q) % n = 0
    OBVIOUS
  <1>4. a + (b % n) = n * (-d)
    BY <1>1, <1>2
  <1> QED BY <1>1, <1>3, <1>4 DEF RoundUp

\* The size that is looked for holds header, block and alignment.
LEMMA SizeIs ==
    ASSUME NEW want \in Nat, NEW al \in {0} \cup PowersOfTwo
    PROVE  /\ AlignTo(al) \in Nat /\ (al = 0 => AlignTo(al) = 0) /\ (al # 0 => 4 <= AlignTo(al))
           /\ NeededSize(want, al) \in Nat
           /\ want + Header + AlignTo(al) <= NeededSize(want, al)
           /\ Node + AlignTo(al) <= NeededSize(want, al)
           /\ Node <= NeededSize(want, al)
  <1>1. al = 0 \/ (al \in Nat /\ (al = 1 \/ al = 2 \/ 4 <= al))
    BY PowersAre
  <1>2. AlignTo(al) = IF al = 0 THEN 0 ELSE IF al > 4 THEN al ELSE 4
    BY <1>1 DEF AlignTo, Larger
  <1>3. AlignTo(al) \in Nat /\ (al = 0 => AlignTo(al) = 0) /\ (al # 0 => 4 <= AlignTo(al))
    BY <1>1, <1>2
  <1>4. PICK m : m = Larger(want + Header, Node)
    OBVIOUS
  <1>5. m \in Nat /\ want + Header <= m /\ Node <= m
    BY <1>4 DEF Larger, Header, Node
  <1>6. NeededSize(want, al) = m + AlignTo(al)
    BY <1>4 DEF NeededSize
  <1> QED BY <1>3, <1>5, <1>6 DEF Header, Node

LEMMA PointerIs ==
    ASSUME NEW c \in Chunks, NEW want \in Nat, NEW al \in {0} \cup PowersOfTwo,
           NeededSize(want, al) <= c.len
    PROVE  /\ Pointer(c, al) \in Int /\ c.base + Header <= Pointer(c, al)
           /\ Pointer(c, al) < c.base + c.len
           /\ Pointer(c, al) + want <= c.base + c.len
           /\ al = 0 \/ Pointer(c, al) % al = 0
  <1>1. c.base \in Int /\ c.len \in Int
    BY ChunkFacts
  <1>2. PICK n : n = AlignTo(al)
    OBVIOUS
  <1>3. /\ n \in Nat /\ (al = 0 => n = 0) /\ (al # 0 => 4 <= n)
        /\ NeededSize(want, al) \in Nat
        /\ want + Header + n <= NeededSize(want, al) /\ Node + n <= NeededSize(want, al)
    BY <1>2, SizeIs
  <1>4. want + Header + n <= c.len /\ Header < c.len - n
    BY <1>1, <1>3 DEF Header, Node
  <1>5. CASE al = 0
    <2>1. Pointer(c, al) = c.base + Header
      BY <1>5 DEF Pointer
    <2> QED BY <1>1, <1>3, <1>4, <1>5, <2>1 DEF Header
  <1>6. CASE al # 0
    <2>1. al \in Nat /\ (al = 1 \/ al = 2 \/ 4 <= al) /\ al > 0
      BY <1>6, PowersAre
    <2>2. PICK a \in Int : a = c.base + Header
      BY <1>1 DEF Header
    <2>3. Pointer(c, al) = RoundUp(a, n)
      BY <1>2, <2>1, <2>2 DEF Pointer
    <2>4. PICK p : p = RoundUp(a, n)
      OBVIOUS
    <2>5. 0 < n
      BY <1>3, <1>6
    <2>6. p \in Int /\ a <= p /\ p < a + n /\ p % n = 0
      BY <1>3, <2>4, <2>5, RoundIs, RoundUpMultiple
    <2>7. p % al = 0
      <3>1. CASE 4 <= al
        <4>1. n = al
          BY <1>2, <2>1, <3>1 DEF AlignTo, Larger
        <4> QED BY <2>6, <4>1
      <3>2. CASE al = 1
        BY <2>6, <3>2
      <3>3. CASE al = 2
        <4>1. n = 4
          BY <1>2, <3>3 DEF AlignTo, Larger
        <4> QED BY <2>6, <3>3, <4>1
      <3> QED BY <2>1, <3>1, <3>2, <3>3
    <2>8. c.base + Header <= p /\ p < c.base + c.len /\ p + want <= c.base + c.len
      BY <1>1, <1>3, <1>4, <2>2, <2>6 DEF Header
    <2> QED BY <2>3, <2>4, <2>6, <2>7, <2>8
  <1> QED BY <1>5, <1>6

LEMMA AllocationOK ==
    ASSUME NEW c \in Chunks, NEW want \in Requests, NEW al \in {0} \cup PowersOfTwo,
           NeededSize(want, al) <= c.len
    PROVE  /\ BlockOK(Allocation(c, want, al))
           /\ Cells(Allocation(c, want, al)) = Cells(c)
           /\ Allocation(c, want, al).ptr = Pointer(c, al)
           /\ Allocation(c, want, al).want = want
           /\ al = 0 \/ Pointer(c, al) % al = 0
  <1>1. PICK b : b = Allocation(c, want, al)
    OBVIOUS
  <1>2. b.ptr = Pointer(c, al) /\ b.base = c.base /\ b.len = c.len /\ b.want = want
    BY <1>1 DEF Allocation
  <1>3. want \in Nat
    BY SizesAre
  <1>4. /\ Pointer(c, al) \in Int /\ c.base + Header <= Pointer(c, al)
        /\ Pointer(c, al) < c.base + c.len
        /\ Pointer(c, al) + want <= c.base + c.len
        /\ al = 0 \/ Pointer(c, al) % al = 0
    BY <1>3, PointerIs
  <1>5. c.base \in Int /\ c.len \in Int /\ c = Chunk(c.base, c.len)
    BY ChunkFacts
  <1>6. b \in [ptr : Int, base : Int, len : Int, want : Requests]
    BY <1>1, <1>4, <1>5 DEF Allocation
  <1>7. Cells(b) = Cells(c)
    BY <1>2 DEF Cells
  <1> QED BY <1>1, <1>2, <1>4, <1>5, <1>6, <1>7 DEF BlockOK

-----------------------------------------------------------------------------
(* Who has which word *)

\* Free list, blocks and the words given to page_free divide the heap up.
Divided(list, blocks, gone) ==
    /\ Good(list)
    /\ \A b \in blocks : BlockOK(b)
    /\ \A b, d \in blocks : b # d => \A w : ~(w \in Cells(b) /\ w \in Cells(d))
    /\ \A w : ~(w \in CellsOf(list) /\ w \in Owned(blocks))
    /\ \A w \in gone : w \notin CellsOf(list) /\ w \notin Owned(blocks)
    /\ HeapCells = (CellsOf(list) \cup Owned(blocks)) \cup gone

LEMMA OwnedIs ==
    ASSUME NEW blocks, NEW w
    PROVE  w \in Owned(blocks) <=> \E b \in blocks : w \in Cells(b)
  BY DEF Owned

\* The i-th chunk serves a request of so many words: what is taken of it, and
\* the block that is.
Serves(list, i, want, al, taken, new, rest) ==
    /\ i \in 1..Len(list) /\ want \in Requests /\ al \in {0} \cup PowersOfTwo
    /\ list[i].len >= NeededSize(want, al)
    /\ taken = Taken(list[i], NeededSize(want, al))
    /\ new = Allocation(taken, want, al)
    /\ rest = Rest(list, i, NeededSize(want, al))

\* An allocation takes its words from the list.
LEMMA DividedAlloc ==
    ASSUME NEW list, NEW blocks, NEW gone, Divided(list, blocks, gone),
           NEW i, NEW want, NEW al, NEW taken, NEW new, NEW rest,
           Serves(list, i, want, al, taken, new, rest)
    PROVE  /\ Divided(rest, blocks \cup {new}, gone)
           /\ BlockOK(new) /\ \A b \in blocks : \A w : ~(w \in Cells(b) /\ w \in Cells(new))
           /\ new \notin blocks
           /\ taken.len \in Nat
           /\ Cardinality(CellsOf(list)) = Cardinality(CellsOf(rest)) + taken.len
           /\ Cardinality(CellsOf(rest)) \in Nat
  <1>1. /\ Good(list)
        /\ \A b \in blocks : BlockOK(b)
        /\ \A b, d \in blocks : b # d => \A w : ~(w \in Cells(b) /\ w \in Cells(d))
        /\ \A w : ~(w \in CellsOf(list) /\ w \in Owned(blocks))
        /\ \A w \in gone : w \notin CellsOf(list) /\ w \notin Owned(blocks)
        /\ HeapCells = (CellsOf(list) \cup Owned(blocks)) \cup gone
    BY DEF Divided
  <1>0. PICK size : size = NeededSize(want, al)
    OBVIOUS
  <1>served. /\ i \in 1..Len(list) /\ want \in Requests /\ al \in {0} \cup PowersOfTwo
        /\ list[i].len >= size /\ taken = Taken(list[i], size)
        /\ new = Allocation(taken, want, al) /\ rest = Rest(list, i, size)
    BY <1>0 DEF Serves
  <1>2. PICK n \in Nat : n = Len(list)
    BY <1>1, GoodFacts
  <1>3. size \in Nat /\ Node <= size
    <2>1. want \in Nat
      BY <1>served, SizesAre
    <2> QED BY <1>0, <1>served, <2>1, SizeIs
  <1>4. size <= list[i].len
    <2>1. list[i].len \in Int
      BY <1>1, <1>2, <1>served, GoodFacts, ChunkFacts
    <2> QED BY <1>3, <1>served, <2>1
  <1>6. /\ taken \in Chunks /\ size <= taken.len
        /\ Cells(taken) \subseteq CellsOf(list)
        /\ Good(rest) /\ CellsOf(rest) = CellsOf(list) \ Cells(taken)
    BY <1>1, <1>2, <1>3, <1>4, <1>served, RestGood
  <1>7. /\ BlockOK(new) /\ Cells(new) = Cells(taken)
        /\ new.ptr = Pointer(taken, al) /\ new.want = want
        /\ al = 0 \/ new.ptr % al = 0
    BY <1>0, <1>6, <1>served, AllocationOK
  <1>8. \A b \in blocks : \A w : ~(w \in Cells(b) /\ w \in Cells(new))
    BY <1>1, <1>6, <1>7, OwnedIs
  <1>9. new \notin blocks
    <2>1. new.ptr \in Cells(new)
      BY <1>7, BlockFacts
    <2> QED BY <1>8, <2>1
  <1>10. Divided(rest, blocks \cup {new}, gone)
    <2>1. \A w : w \in Owned(blocks \cup {new}) <=> w \in Owned(blocks) \/ w \in Cells(taken)
      BY <1>7, OwnedIs
    <2>2. \A b \in blocks \cup {new} : BlockOK(b)
      BY <1>1, <1>7
    <2>3. \A b, d \in blocks \cup {new} : b # d => \A w : ~(w \in Cells(b) /\ w \in Cells(d))
      BY <1>1, <1>8
    <2>4. \A w : ~(w \in CellsOf(rest) /\ w \in Owned(blocks \cup {new}))
      BY <1>1, <1>6, <2>1
    <2>5. \A w \in gone : w \notin CellsOf(rest) /\ w \notin Owned(blocks \cup {new})
      BY <1>1, <1>6, <2>1
    <2>6. HeapCells = (CellsOf(rest) \cup Owned(blocks \cup {new})) \cup gone
      <3>1. \A w : w \in HeapCells <=> w \in CellsOf(rest) \/ w \in Owned(blocks \cup {new}) \/ w \in gone
        BY <1>1, <1>6, <2>1
      <3> QED BY <3>1
    <2> QED BY <1>6, <2>2, <2>3, <2>4, <2>5, <2>6 DEF Divided
  <1>11. taken.len \in Nat
    BY <1>3, <1>6, ChunkFacts
  <1>12. /\ Cardinality(CellsOf(list)) = Cardinality(CellsOf(rest)) + taken.len
         /\ Cardinality(CellsOf(rest)) \in Nat
    <2>1. PICK S, T : S = CellsOf(rest) /\ T = Cells(taken)
      OBVIOUS
    <2>2. IsFiniteSet(S) /\ IsFiniteSet(T) /\ Cardinality(T) = taken.len
      BY <1>6, <2>1, SumIsCount, CellsFinite
    <2>3. \A w : ~(w \in S /\ w \in T)
      BY <1>6, <2>1
    <2>4. CellsOf(list) = S \cup T
      BY <1>6, <2>1
    <2>5. Cardinality(S \cup T) = Cardinality(S) + Cardinality(T)
      BY <2>2, <2>3, TwoCounts
    <2>6. Cardinality(S) \in Nat
      BY <2>2, FS_CardinalityType
    <2> QED BY <2>1, <2>2, <2>4, <2>5, <2>6
  <1> QED BY <1>7, <1>8, <1>9, <1>10, <1>11, <1>12

\* A block's words go back into the list.
LEMMA DividedFree ==
    ASSUME NEW list, NEW blocks, NEW gone, Divided(list, blocks, gone),
           NEW b \in blocks, NEW all, all = InsertFreeChunk(list, Chunk(b.base, b.len))
    PROVE  /\ Divided(all, blocks \ {b}, gone)
           /\ b.len \in Nat
           /\ Cardinality(CellsOf(all)) = Cardinality(CellsOf(list)) + b.len
           /\ Cardinality(CellsOf(list)) \in Nat
  <1>1. /\ Good(list)
        /\ \A d \in blocks : BlockOK(d)
        /\ \A d, e \in blocks : d # e => \A w : ~(w \in Cells(d) /\ w \in Cells(e))
        /\ \A w : ~(w \in CellsOf(list) /\ w \in Owned(blocks))
        /\ \A w \in gone : w \notin CellsOf(list) /\ w \notin Owned(blocks)
        /\ HeapCells = (CellsOf(list) \cup Owned(blocks)) \cup gone
    BY DEF Divided
  <1>2. PICK c : c = Chunk(b.base, b.len)
    OBVIOUS
  <1>3. c \in Chunks /\ Cells(c) = Cells(b) /\ c.len = b.len /\ b.len \in Nat
    <2>1. b.len \in Int /\ Node <= b.len
      BY <1>1, BlockFacts
    <2> QED BY <1>1, <1>2, <2>1, BlockFacts DEF Chunk, Node
  <1>4. \A w : w \in Cells(b) => w \in Owned(blocks)
    BY OwnedIs
  <1>5. Good(all) /\ CellsOf(all) = CellsOf(list) \cup Cells(c)
    <2>1. \A w : ~(w \in Cells(c) /\ w \in CellsOf(list))
      BY <1>1, <1>3, <1>4
    <2> QED BY <1>1, <1>2, <1>3, <2>1, InsertGood
  <1>6. \A w : w \in Owned(blocks \ {b}) <=> w \in Owned(blocks) /\ w \notin Cells(b)
    BY <1>1, OwnedIs
  <1>7. Divided(all, blocks \ {b}, gone)
    <2>1. \A w : ~(w \in CellsOf(all) /\ w \in Owned(blocks \ {b}))
      BY <1>1, <1>3, <1>5, <1>6
    <2>2. \A w \in gone : w \notin CellsOf(all) /\ w \notin Owned(blocks \ {b})
      BY <1>1, <1>3, <1>4, <1>5, <1>6
    <2>3. HeapCells = (CellsOf(all) \cup Owned(blocks \ {b})) \cup gone
      <3>1. \A w : w \in HeapCells <=> w \in CellsOf(all) \/ w \in Owned(blocks \ {b}) \/ w \in gone
        BY <1>1, <1>3, <1>4, <1>5, <1>6
      <3> QED BY <3>1
    <2>4. \A d, e \in blocks \ {b} : d # e => \A w : ~(w \in Cells(d) /\ w \in Cells(e))
      BY <1>1
    <2>5. \A d \in blocks \ {b} : BlockOK(d)
      BY <1>1
    <2> QED BY <1>5, <2>1, <2>2, <2>3, <2>4, <2>5 DEF Divided
  <1>8. /\ Cardinality(CellsOf(all)) = Cardinality(CellsOf(list)) + b.len
        /\ Cardinality(CellsOf(list)) \in Nat
    <2>1. PICK S, T : S = CellsOf(list) /\ T = Cells(c)
      OBVIOUS
    <2>2. IsFiniteSet(S) /\ IsFiniteSet(T) /\ Cardinality(T) = b.len
      BY <1>1, <1>3, <2>1, SumIsCount, CellsFinite
    <2>3. \A w : ~(w \in S /\ w \in T)
      BY <1>1, <1>3, <1>4, <2>1
    <2>4. Cardinality(S \cup T) = Cardinality(S) + Cardinality(T)
      BY <2>2, <2>3, TwoCounts
    <2>5. Cardinality(S) \in Nat
      BY <2>2, FS_CardinalityType
    <2> QED BY <1>5, <2>1, <2>2, <2>4, <2>5
  <1> QED BY <1>3, <1>7, <1>8

\* The pages of the list become those given to page_free.
LEMMA DividedTrim ==
    ASSUME NEW list, NEW blocks, NEW gone, Divided(list, blocks, gone)
    PROVE  /\ Divided(Trimmed(list), blocks, gone \cup PagesOf(list))
           /\ Cardinality(PagesOf(list)) \in Nat
           /\ Cardinality(CellsOf(list)) =
                 Cardinality(CellsOf(Trimmed(list))) + Cardinality(PagesOf(list))
           /\ Cardinality(CellsOf(Trimmed(list))) \in Nat
  <1>1. /\ Good(list)
        /\ \A d \in blocks : BlockOK(d)
        /\ \A d, e \in blocks : d # e => \A w : ~(w \in Cells(d) /\ w \in Cells(e))
        /\ \A w : ~(w \in CellsOf(list) /\ w \in Owned(blocks))
        /\ \A w \in gone : w \notin CellsOf(list) /\ w \notin Owned(blocks)
        /\ HeapCells = (CellsOf(list) \cup Owned(blocks)) \cup gone
    BY DEF Divided
  <1>2. PICK S, T, U : S = CellsOf(Trimmed(list)) /\ T = PagesOf(list) /\ U = CellsOf(list)
    OBVIOUS
  <1>3. Good(Trimmed(list)) /\ S = U \ T /\ T \subseteq U
    BY <1>1, <1>2, TrimmedGood
  <1>4. Divided(Trimmed(list), blocks, gone \cup T)
    <2>1. \A w : ~(w \in S /\ w \in Owned(blocks))
      BY <1>1, <1>2, <1>3
    <2>2. \A w \in gone \cup T : w \notin S /\ w \notin Owned(blocks)
      BY <1>1, <1>2, <1>3
    <2>3. HeapCells = (S \cup Owned(blocks)) \cup (gone \cup T)
      <3>1. \A w : w \in HeapCells <=> w \in S \/ w \in Owned(blocks) \/ w \in gone \/ w \in T
        BY <1>1, <1>2, <1>3
      <3> QED BY <3>1
    <2> QED BY <1>1, <1>2, <1>3, <2>1, <2>2, <2>3 DEF Divided
  <1>5. IsFiniteSet(U)
    BY <1>1, <1>2, SumIsCount
  <1>6. IsFiniteSet(S) /\ IsFiniteSet(T)
    BY <1>3, <1>5, FS_Subset
  <1>7. Cardinality(S \cup T) = Cardinality(S) + Cardinality(T)
    BY <1>3, <1>6, TwoCounts
  <1>8. U = S \cup T
    BY <1>3
  <1>9. Cardinality(S) \in Nat /\ Cardinality(T) \in Nat
    BY <1>6, FS_CardinalityType
  <1> QED BY <1>2, <1>4, <1>7, <1>8, <1>9

-----------------------------------------------------------------------------
(* The inductive invariant *)

HeapInv ==
    /\ Divided(free, live, released)
    /\ remaining = Cardinality(CellsOf(free))
    /\ low_watermark = 0

LEMMA InitHeapInv == Init => HeapInv
  <1> SUFFICES ASSUME Init PROVE HeapInv
    OBVIOUS
  <1>1. /\ free = InsertFreeChunk(<<>>, Chunk(Base, Length)) /\ live = {} /\ remaining = Length
        /\ low_watermark = 0 /\ released = {}
    BY DEF Init
  <1>2. PICK c : c = Chunk(Base, Length)
    OBVIOUS
  <1>3. c \in Chunks /\ c.base = Base /\ c.len = Length
    BY <1>2, HeapSizes, ChunkIs DEF Chunk
  <1>4. Good(<<>>) /\ \A w : w \notin CellsOf(<<>>)
    <2>1. Len(<<>>) = 0 /\ <<>> \in Seq(Chunks)
      OBVIOUS
    <2> QED BY <2>1, CellsOfIs DEF Good
  <1>5. Good(free) /\ CellsOf(free) = CellsOf(<<>>) \cup Cells(c)
    BY <1>1, <1>2, <1>3, <1>4, InsertGood
  <1>6. CellsOf(free) = Cells(c)
    BY <1>4, <1>5
  <1>7. HeapCells = Cells(c)
    BY <1>3 DEF HeapCells, Cells
  <1>8. Owned({}) = {}
    BY DEF Owned
  <1>9. Divided(free, live, released)
    BY <1>1, <1>5, <1>6, <1>7, <1>8 DEF Divided
  <1>10. Cardinality(Cells(c)) = Length
    BY <1>3, CellsFinite
  <1> QED BY <1>1, <1>6, <1>9, <1>10 DEF HeapInv

\* The chunk that miniheap_alloc finds.
LEMMA FirstFitServes ==
    ASSUME HeapInv, NEW want \in Requests, NEW al \in {0} \cup PowersOfTwo,
           NEW i, i = FirstFit(free, NeededSize(want, al)), i # 0,
           NEW taken, taken = Taken(free[i], NeededSize(want, al)),
           NEW new, new = Allocation(taken, want, al),
           NEW rest, rest = Rest(free, i, NeededSize(want, al))
    PROVE  Serves(free, i, want, al, taken, new, rest)
  <1>1. PICK n \in Nat : n = Len(free)
    BY GoodFacts DEF Divided, HeapInv
  <1>2. i \in 1..Len(free) /\ free[i].len >= NeededSize(want, al)
    BY <1>1, FirstFitIs
  <1> QED BY <1>2 DEF Serves

\* What miniheap_alloc does to the invariant when it finds a chunk.
LEMMA AllocKeeps ==
    ASSUME HeapInv, NEW i, NEW want, NEW al, NEW taken, NEW new, NEW rest,
           Serves(free, i, want, al, taken, new, rest)
    PROVE  /\ Divided(rest, live \cup {new}, released)
           /\ new \notin live
           /\ remaining - taken.len = Cardinality(CellsOf(rest))
           /\ remaining - taken.len \in Nat
  <1>1. Divided(free, live, released)
    BY DEF HeapInv
  <1>2. Divided(rest, live \cup {new}, released) /\ new \notin live
    BY <1>1, DividedAlloc, ZenonT(60)
  <1>3. /\ taken.len \in Nat
        /\ Cardinality(CellsOf(free)) = Cardinality(CellsOf(rest)) + taken.len
        /\ Cardinality(CellsOf(rest)) \in Nat
    <2>1. taken.len \in Nat
      BY <1>1, DividedAlloc, ZenonT(60)
    <2>2. Cardinality(CellsOf(free)) = Cardinality(CellsOf(rest)) + taken.len
      BY <1>1, DividedAlloc, ZenonT(60)
    <2>3. Cardinality(CellsOf(rest)) \in Nat
      BY <1>1, DividedAlloc, ZenonT(60)
    <2> QED BY <2>1, <2>2, <2>3
  <1>4. remaining = Cardinality(CellsOf(free))
    BY DEF HeapInv
  <1> QED BY <1>2, <1>3, <1>4

LEMMA AllocInv ==
    ASSUME HeapInv, NEW want \in Requests, NEW al \in {0} \cup Alignments, Alloc(want, al)
    PROVE  HeapInv'
  <1>1. CASE UNCHANGED vars
    BY <1>1 DEF HeapInv, vars
  <1>2. ASSUME NEW i, i = FirstFit(free, NeededSize(want, al)),
               al \in {0} \cup PowersOfTwo, i # 0, AllocFrom(i, want, al)
        PROVE  HeapInv'
    <2>1. PICK taken, new, rest : /\ taken = Taken(free[i], NeededSize(want, al))
                                  /\ new = Allocation(taken, want, al)
                                  /\ rest = Rest(free, i, NeededSize(want, al))
      OBVIOUS
    <2>2. /\ free' = rest /\ live' = live \cup {new}
          /\ remaining' = remaining - taken.len
          /\ low_watermark' = Smaller(low_watermark, remaining')
          /\ released' = released
      BY <1>2, <2>1 DEF AllocFrom
    <2>3. /\ Divided(rest, live \cup {new}, released)
          /\ remaining - taken.len = Cardinality(CellsOf(rest))
          /\ remaining - taken.len \in Nat
      <3>1. Serves(free, i, want, al, taken, new, rest)
        BY <1>2, <2>1, FirstFitServes
      <3> QED BY <3>1, AllocKeeps
    <2>4. low_watermark = 0
      BY DEF HeapInv
    <2>5. low_watermark' = 0
      BY <2>2, <2>3, <2>4 DEF Smaller
    <2>6. PICK list, blocks, gone, left : /\ list = free' /\ blocks = live' /\ gone = released'
                                          /\ left = remaining'
      OBVIOUS
    <2>7. Divided(list, blocks, gone) /\ left = Cardinality(CellsOf(list))
      BY <2>2, <2>3, <2>6
    <2> QED BY <2>5, <2>6, <2>7 DEF HeapInv
  <1> QED BY <1>1, <1>2 DEF Alloc

LEMMA FreeBlockInv ==
    ASSUME HeapInv, NEW b \in live, FreeBlock(b)
    PROVE  HeapInv'
  <1>1. PICK all : all = InsertFreeChunk(free, Chunk(b.base, b.len))
    OBVIOUS
  <1>2. /\ free' = all /\ live' = live \ {b} /\ remaining' = remaining + b.len
        /\ low_watermark' = low_watermark /\ released' = released
    BY <1>1 DEF FreeBlock
  <1>3. Divided(free, live, released) /\ remaining = Cardinality(CellsOf(free))
        /\ low_watermark = 0
    BY DEF HeapInv
  <1>4. /\ Divided(all, live \ {b}, released)
        /\ Cardinality(CellsOf(all)) = Cardinality(CellsOf(free)) + b.len
    BY <1>1, <1>3, DividedFree
  <1> QED BY <1>2, <1>3, <1>4 DEF HeapInv

LEMMA ReallocInv ==
    ASSUME HeapInv, NEW b \in live, NEW want \in Requests, Realloc(b, want)
    PROVE  HeapInv'
  <1>1. CASE UNCHANGED vars
    BY <1>1 DEF HeapInv, vars
  <1>2. CASE FreeBlock(b)
    BY <1>2, FreeBlockInv
  <1>3. PICK i, size : size = NeededSize(want, 0) /\ i = FirstFit(free, size)
    OBVIOUS
  <1>4. PICK taken, new, rest : /\ taken = Taken(free[i], size)
                                /\ new = Allocation(taken, want, 0)
                                /\ rest = Rest(free, i, size)
    OBVIOUS
  <1>5. CASE /\ i # 0
             /\ free' = InsertFreeChunk(rest, Chunk(b.base, b.len))
             /\ live' = (live \ {b}) \cup {new}
             /\ remaining' = remaining - taken.len + b.len
             /\ low_watermark' = Smaller(low_watermark, remaining - taken.len)
             /\ released' = released
    <2>1. PICK all : all = InsertFreeChunk(rest, Chunk(b.base, b.len))
      OBVIOUS
    <2>2. /\ Divided(rest, live \cup {new}, released)
          /\ new \notin live
          /\ remaining - taken.len = Cardinality(CellsOf(rest))
          /\ remaining - taken.len \in Nat
      <3>1. Serves(free, i, want, 0, taken, new, rest)
        BY <1>3, <1>4, <1>5, FirstFitServes
      <3> QED BY <3>1, AllocKeeps
    <2>3. /\ Divided(all, (live \cup {new}) \ {b}, released)
          /\ Cardinality(CellsOf(all)) = Cardinality(CellsOf(rest)) + b.len
      <3>1. PICK blocks : blocks = live \cup {new}
        OBVIOUS
      <3>member. b \in blocks
        BY <3>1
      <3>2. Divided(rest, blocks, released)
        BY <2>2, <3>1
      <3> QED BY <2>1, <3>1, <3>member, <3>2, DividedFree
    <2>4. (live \cup {new}) \ {b} = (live \ {b}) \cup {new}
      BY <2>2
    <2>5. low_watermark = 0
      BY DEF HeapInv
    <2>6. low_watermark' = 0
      BY <1>5, <2>2, <2>5 DEF Smaller
    <2>7. free' = all /\ live' = (live \cup {new}) \ {b} /\ released' = released
      BY <1>5, <2>1, <2>4
    <2>8. remaining' = Cardinality(CellsOf(all))
      BY <1>5, <2>2, <2>3
    <2> QED BY <2>3, <2>6, <2>7, <2>8 DEF HeapInv
  <1> QED BY <1>1, <1>2, <1>3, <1>4, <1>5 DEF Realloc

LEMMA TrimInv == HeapInv /\ Trim => HeapInv'
  <1> SUFFICES ASSUME HeapInv, Trim PROVE HeapInv'
    OBVIOUS
  <1>1. PICK all, pages : all = Trimmed(free) /\ pages = PagesOf(free)
    OBVIOUS
  <1>2. /\ free' = all /\ released' = released \cup pages
        /\ remaining' = remaining - Cardinality(pages)
        /\ live' = live /\ low_watermark' = low_watermark
    BY <1>1 DEF Trim
  <1>3. Divided(free, live, released) /\ remaining = Cardinality(CellsOf(free))
        /\ low_watermark = 0
    BY DEF HeapInv
  <1>4. /\ Divided(all, live, released \cup pages)
        /\ Cardinality(pages) \in Nat /\ Cardinality(CellsOf(all)) \in Nat
        /\ Cardinality(CellsOf(free)) = Cardinality(CellsOf(all)) + Cardinality(pages)
    BY <1>1, <1>3, DividedTrim
  <1>5. remaining' = Cardinality(CellsOf(all))
    BY <1>2, <1>3, <1>4
  <1> QED BY <1>2, <1>3, <1>4, <1>5 DEF HeapInv

\* The inductive invariant of the heap: chunks, blocks and pages given away
\* divide it up, and the list is in order with gaps.
THEOREM HeapInvariance == Spec => []HeapInv
  <1>1. HeapInv /\ [Next]_vars => HeapInv'
    <2> SUFFICES ASSUME HeapInv, [Next]_vars PROVE HeapInv'
      OBVIOUS
    <2>1. CASE UNCHANGED vars
      BY <2>1 DEF HeapInv, vars
    <2>2. ASSUME NEW want \in Requests, NEW al \in {0} \cup Alignments, Alloc(want, al)
          PROVE  HeapInv'
      BY <2>2, AllocInv
    <2>3. ASSUME NEW b \in live, FreeBlock(b) PROVE HeapInv'
      BY <2>3, FreeBlockInv
    <2>4. ASSUME NEW b \in live, NEW want \in Requests, Realloc(b, want) PROVE HeapInv'
      BY <2>4, ReallocInv
    <2>5. CASE Trim
      BY <2>5, TrimInv
    <2> QED BY <2>1, <2>2, <2>3, <2>4, <2>5 DEF Next
  <1> QED BY <1>1, InitHeapInv, PTL DEF Spec

-----------------------------------------------------------------------------
(* The properties *)

LEMMA InvGivesSorted == HeapInv => SortedAndMerged
  <1> SUFFICES ASSUME HeapInv PROVE SortedAndMerged
    OBVIOUS
  <1>1. Good(free)
    BY DEF HeapInv, Divided
  <1> QED BY <1>1, GoodFacts DEF SortedAndMerged

LEMMA InvGivesFits == HeapInv => PayloadFits
  <1> SUFFICES ASSUME HeapInv, NEW b \in live
               PROVE  b.base <= b.ptr - Header /\ b.ptr + b.want <= b.base + b.len
    BY DEF PayloadFits
  <1>1. BlockOK(b)
    BY DEF HeapInv, Divided
  <1>2. b.ptr \in Int /\ b.base \in Int
    BY <1>1, BlockFacts
  <1> QED BY <1>1, <1>2 DEF BlockOK, Header

LEMMA InvGivesAccounting == HeapInv => Accounting
  <1> SUFFICES ASSUME HeapInv PROVE Accounting
    OBVIOUS
  <1>1. Good(free) /\ remaining = Cardinality(CellsOf(free))
    BY DEF HeapInv, Divided
  <1> QED BY <1>1, SumIsCount DEF Accounting, HeapFree

LEMMA InvGivesType == HeapInv => TypeOK
  <1> SUFFICES ASSUME HeapInv PROVE TypeOK
    OBVIOUS
  <1>1. /\ Good(free)
        /\ \A b \in live : BlockOK(b)
        /\ HeapCells = (CellsOf(free) \cup Owned(live)) \cup released
        /\ remaining = Cardinality(CellsOf(free)) /\ low_watermark = 0
    BY DEF HeapInv, Divided
  <1>2. \A w : w \in HeapCells <=> w \in Int /\ Base <= w /\ w < Base + Length
    BY HeapSizes DEF HeapCells
  <1>3. Length \in Nat /\ Base \in Nat
    BY HeapSizes
  <1>4. \A c \in Chunks : c \in ChunkSet
    <2>1. ASSUME NEW c \in Chunks PROVE c \in ChunkSet
      <3>1. /\ c.base \in Int /\ c.len \in Int /\ Base <= c.base /\ Node <= c.len
            /\ c.base + c.len <= Base + Length
        BY ChunkFacts
      <3>2. c.base \in HeapCells /\ c.len \in Node..Length
        BY <1>2, <1>3, <3>1 DEF Node
      <3>3. c \in [base : Int, len : Int]
        BY DEF Chunks
      <3> QED BY <3>2, <3>3 DEF ChunkSet
    <2> QED BY <2>1
  <1>5. free \in Seq(ChunkSet)
    <2>1. PICK n \in Nat : n = Len(free)
      BY <1>1, GoodFacts
    <2>2. free \in Seq(Chunks)
      BY <1>1 DEF Good
    <2>3. \A i \in 1..n : free[i] \in ChunkSet
      BY <1>1, <1>4, <2>1, GoodFacts
    <2> QED BY <2>1, <2>2, <2>3, SeqDef, LenProperties
  <1>6. live \subseteq [ptr : HeapCells, base : HeapCells, len : Node..Length, want : Requests]
    <2>1. ASSUME NEW b \in live
          PROVE  b \in [ptr : HeapCells, base : HeapCells, len : Node..Length, want : Requests]
      <3>1. BlockOK(b)
        BY <1>1
      <3>2. /\ b.base \in Int /\ b.len \in Int
            /\ Base <= b.base /\ Node <= b.len /\ b.base + b.len <= Base + Length
            /\ b.ptr \in Int /\ b.base <= b.ptr /\ b.ptr < b.base + b.len
        BY <3>1, BlockFacts
      <3>3. b.ptr \in HeapCells /\ b.base \in HeapCells /\ b.len \in Node..Length
        BY <1>2, <1>3, <3>2 DEF Node
      <3>4. b \in [ptr : Int, base : Int, len : Int, want : Requests]
        BY <3>1 DEF BlockOK
      <3> QED BY <3>3, <3>4
    <2> QED BY <2>1
  <1>7. remaining \in 0..Length
    <2>1. PICK H, S : H = HeapCells /\ S = CellsOf(free)
      OBVIOUS
    <2>2. IsFiniteSet(H) /\ Cardinality(H) = Length
      <3>1. PICK c : c = Chunk(Base, Length)
        OBVIOUS
      <3>2. c \in Chunks /\ c.base = Base /\ c.len = Length
        BY <3>1, HeapSizes, ChunkIs DEF Chunk
      <3>3. H = Cells(c)
        BY <2>1, <3>2 DEF HeapCells, Cells
      <3> QED BY <3>2, <3>3, CellsFinite
    <2>3. S \subseteq H
      BY <1>1, <2>1
    <2>4. IsFiniteSet(S) /\ Cardinality(S) <= Cardinality(H)
      BY <2>2, <2>3, FS_Subset
    <2>5. Cardinality(S) \in Nat
      BY <2>4, FS_CardinalityType
    <2> QED BY <1>1, <1>3, <2>1, <2>2, <2>4, <2>5
  <1>8. low_watermark \in 0..Length
    BY <1>1, <1>3
  <1>9. released \subseteq HeapCells
    BY <1>1
  <1> QED BY <1>5, <1>6, <1>7, <1>8, <1>9 DEF TypeOK

\* How many things have a word: a set in which any two are the same.
LEMMA AtMostOne ==
    ASSUME NEW S, \A x, y \in S : x = y
    PROVE  /\ S = {} => Cardinality(S) = 0
           /\ S # {} => Cardinality(S) = 1
  <1>1. S = {} => Cardinality(S) = 0
    BY FS_EmptySet
  <1>2. ASSUME NEW x \in S PROVE Cardinality(S) = 1
    <2>1. S = {x}
      OBVIOUS
    <2> QED BY <2>1, FS_Singleton
  <1> QED BY <1>1, <1>2

LEMMA InvGivesOnce == HeapInv => EachWordOnce
  <1> SUFFICES ASSUME HeapInv, NEW w \in HeapCells
               PROVE  Cardinality({i \in DOMAIN free : w \in Cells(free[i])})
                          + Cardinality({b \in live : w \in Cells(b)})
                          + (IF w \in released THEN 1 ELSE 0) = 1
    BY DEF EachWordOnce
  <1>1. /\ Good(free)
        /\ \A b, d \in live : b # d => \A v : ~(v \in Cells(b) /\ v \in Cells(d))
        /\ \A v : ~(v \in CellsOf(free) /\ v \in Owned(live))
        /\ \A v \in released : v \notin CellsOf(free) /\ v \notin Owned(live)
        /\ HeapCells = (CellsOf(free) \cup Owned(live)) \cup released
    BY DEF HeapInv, Divided
  <1>2. PICK n \in Nat : n = Len(free) /\ DOMAIN free = 1..n
    BY <1>1, GoodFacts
  <1>3. PICK I, B : /\ I = {i \in DOMAIN free : w \in Cells(free[i])}
                    /\ B = {b \in live : w \in Cells(b)}
    OBVIOUS
  <1>4. I # {} <=> w \in CellsOf(free)
    BY <1>2, <1>3, CellsOfIs
  <1>5. B # {} <=> w \in Owned(live)
    BY <1>3, OwnedIs
  <1>6. \A i, j \in I : i = j
    <2>1. ASSUME NEW i \in 1..n, NEW j \in 1..n, i < j, w \in Cells(free[i]), w \in Cells(free[j])
          PROVE  FALSE
      BY <1>1, <1>2, <2>1, GoodFacts, ChunkFacts
    <2>2. ASSUME NEW i \in I, NEW j \in I, i # j PROVE FALSE
      <3>1. i \in 1..n /\ j \in 1..n /\ w \in Cells(free[i]) /\ w \in Cells(free[j])
        BY <1>2, <1>3
      <3>2. i < j \/ j < i
        BY <2>2, <3>1
      <3> QED BY <2>1, <3>1, <3>2
    <2> QED BY <2>2
  <1>7. \A b, d \in B : b = d
    BY <1>1, <1>3
  <1>8. /\ I = {} => Cardinality(I) = 0
        /\ I # {} => Cardinality(I) = 1
    BY <1>6, AtMostOne
  <1>9. /\ B = {} => Cardinality(B) = 0
        /\ B # {} => Cardinality(B) = 1
    BY <1>7, AtMostOne
  <1>10. \/ I # {} /\ B = {} /\ w \notin released
         \/ I = {} /\ B # {} /\ w \notin released
         \/ I = {} /\ B = {} /\ w \in released
    BY <1>1, <1>4, <1>5
  <1>11. Cardinality(I) + Cardinality(B) + (IF w \in released THEN 1 ELSE 0) = 1
    BY <1>8, <1>9, <1>10
  <1> QED BY <1>3, <1>11

\* Every free chunk and every allocation lies in the heap and has room for a
\* list node, whatever was split, merged, aligned and trimmed, for every heap,
\* page and request (miniheap.c:198).
THEOREM HeapTyped == Spec => []TypeOK
  BY HeapInvariance, InvGivesType, PTL

\* No sequence of malloc, memalign, realloc, free and trim loses a word of the
\* heap or gives it to two (miniheap.c:187-354).
THEOREM WordsHaveOneOwner == Spec => []EachWordOnce
  BY HeapInvariance, InvGivesOnce, PTL

\* The free list stays in address order with no two chunks touching: a freed
\* chunk is merged with both neighbours (heap_insert_free_chunk).
THEOREM ListIsMerged == Spec => []SortedAndMerged
  BY HeapInvariance, InvGivesSorted, PTL

\* Header and block lie in what was taken from the list, for every alignment
\* (miniheap_alloc's slack).
THEOREM BlocksFit == Spec => []PayloadFits
  BY HeapInvariance, InvGivesFits, PTL

\* theheap.remaining is the free space that miniheap_get_stats adds up.
THEOREM AccountIsRight == Spec => []Accounting
  BY HeapInvariance, InvGivesAccounting, PTL

\* A reallocation keeps the old block or gives a new one apart from it.
LEMMA ReallocKeeps ==
    ASSUME HeapInv, NEW b \in live, NEW want \in Requests \ {0}, Realloc(b, want)
    PROVE  \/ b \in live'
           \/ \E new \in live' \ live : new.want = want /\ Cells(new) \cap Cells(b) = {}
  <1>1. PICK i, size : size = NeededSize(want, 0) /\ i = FirstFit(free, size)
    OBVIOUS
  <1>2. PICK taken, new, rest : /\ taken = Taken(free[i], size)
                                /\ new = Allocation(taken, want, 0)
                                /\ rest = Rest(free, i, size)
    OBVIOUS
  <1>3. CASE i = 0
    <2>1. live' = live
      BY <1>1, <1>3 DEF Realloc, vars
    <2> QED BY <2>1
  <1>4. CASE i # 0
    <2>1. live' = (live \ {b}) \cup {new}
      BY <1>1, <1>2, <1>4 DEF Realloc
    <2>2. Divided(rest, live \cup {new}, released) /\ new \notin live
      <3>1. Serves(free, i, want, 0, taken, new, rest)
        BY <1>1, <1>2, <1>4, FirstFitServes
      <3> QED BY <3>1, AllocKeeps
    <2>3. \A w : ~(w \in Cells(new) /\ w \in Cells(b))
      BY <2>2 DEF Divided
    <2>4. new.want = want
      BY <1>2 DEF Allocation
    <2> QED BY <2>1, <2>2, <2>3, <2>4
  <1> QED BY <1>3, <1>4

\* A realloc that finds no memory leaves the old block alone (miniheap.c:349);
\* one that does gives a block apart from it, so that the copy is of words
\* nothing has been written to.
THEOREM ReallocIsSafe == Spec => ReallocKeepsABlock
  <1> DEFINE Keeps ==
          \A b \in live, want \in Requests \ {0} :
              Realloc(b, want) =>
                  \/ b \in live'
                  \/ \E new \in live' \ live :
                        new.want = want /\ Cells(new) \cap Cells(b) = {}
  <1>1. HeapInv => Keeps
    BY ReallocKeeps
  <1> HIDE DEF Keeps
  <1>2. Spec => [][Keeps]_vars
    BY <1>1, HeapInvariance, PTL DEF Spec
  <1> QED BY <1>2 DEF Keeps, ReallocKeepsABlock

-----------------------------------------------------------------------------
(* Heap implements Allocator *)

\* A block as its caller sees it.
Handed(b) == [ptr |-> b.ptr, want |-> b.want]
HandedOut(blocks) == {Handed(b) : b \in blocks}

\* What miniheap_alloc hands out nobody has, and it is aligned.
LEMMA ServedBlock ==
    ASSUME NEW list, NEW blocks, NEW gone, Divided(list, blocks, gone),
           NEW i, NEW want, NEW al, NEW taken, NEW new, NEW rest,
           Serves(list, i, want, al, taken, new, rest)
    PROVE  /\ new.ptr \in HeapCells
           /\ Handed(new) = [ptr |-> new.ptr, want |-> want]
           /\ Promise!Extent(Handed(new)) \subseteq HeapCells
           /\ \A h \in HandedOut(blocks) :
                 h.ptr # new.ptr /\ Promise!Extent(h) \cap Promise!Extent(Handed(new)) = {}
  <1>1. \A b \in blocks : BlockOK(b)
    BY DEF Divided
  <1>2. BlockOK(new) /\ \A b \in blocks : \A w : ~(w \in Cells(b) /\ w \in Cells(new))
    BY DividedAlloc, Zenon
  <1>3. Divided(rest, blocks \cup {new}, gone)
    BY DividedAlloc, Zenon
  <1>4. \A w : w \in Cells(new) => w \in HeapCells
    <2>1. \A w : w \in Cells(new) => w \in Owned(blocks \cup {new})
      BY OwnedIs
    <2> QED BY <1>3, <2>1 DEF Divided
  <1>5. new.want = want
    BY DEF Serves, Allocation
  <1>6. ASSUME NEW b, BlockOK(b)
        PROVE  /\ Handed(b).ptr = b.ptr /\ b.ptr \in Cells(b)
               /\ \A w : w \in Promise!Extent(Handed(b)) => w \in Cells(b)
    <2>1. /\ b.ptr \in Int /\ b.want \in Nat /\ b.ptr \in Cells(b)
          /\ \A w \in Int : b.ptr <= w /\ w < b.ptr + b.want => w \in Cells(b)
      BY <1>6, BlockFacts
    <2>2. Promise!Extent(Handed(b)) = b.ptr..(b.ptr + b.want - 1)
      BY DEF Promise!Extent, Handed
    <2>3. \A w : w \in Promise!Extent(Handed(b)) => w \in Int /\ b.ptr <= w /\ w < b.ptr + b.want
      BY <2>1, <2>2
    <2> QED BY <2>1, <2>3 DEF Handed
  <1>7. ASSUME NEW h \in HandedOut(blocks)
        PROVE  h.ptr # new.ptr /\ Promise!Extent(h) \cap Promise!Extent(Handed(new)) = {}
    <2>1. PICK b \in blocks : h = Handed(b)
      BY DEF HandedOut
    <2>2. BlockOK(b)
      BY <1>1
    <2>3. /\ h.ptr \in Cells(b) /\ \A w : w \in Promise!Extent(h) => w \in Cells(b)
      BY <1>6, <2>1, <2>2
    <2>4. /\ new.ptr \in Cells(new)
          /\ \A w : w \in Promise!Extent(Handed(new)) => w \in Cells(new)
      BY <1>2, <1>6
    <2> QED BY <1>2, <2>3, <2>4
  <1>8. new.ptr \in HeapCells /\ Promise!Extent(Handed(new)) \subseteq HeapCells
    BY <1>2, <1>4, <1>6
  <1> QED BY <1>5, <1>7, <1>8 DEF Handed

LEMMA ServedAligned ==
    ASSUME NEW list, Good(list), NEW i, NEW want, NEW al, NEW taken, NEW new, NEW rest,
           Serves(list, i, want, al, taken, new, rest)
    PROVE  Promise!Aligned(new.ptr, al)
  <1>1. PICK size : size = NeededSize(want, al)
    OBVIOUS
  <1>2. /\ i \in 1..Len(list) /\ want \in Requests /\ al \in {0} \cup PowersOfTwo
        /\ list[i].len >= size /\ taken = Taken(list[i], size)
        /\ new = Allocation(taken, want, al)
    BY <1>1 DEF Serves
  <1>3. want \in Nat
    BY <1>2, SizesAre
  <1>4. size \in Nat /\ Node <= size
    BY <1>1, <1>2, <1>3, SizeIs
  <1>5. PICK n \in Nat : n = Len(list)
    BY GoodFacts
  <1>6. size <= list[i].len
    <2>1. list[i].len \in Int
      BY <1>2, GoodFacts, ChunkFacts
    <2> QED BY <1>2, <1>4, <2>1
  <1>7. taken \in Chunks /\ size <= taken.len
    BY <1>2, <1>4, <1>5, <1>6, RestGood
  <1>8. al = 0 \/ new.ptr % al = 0
    BY <1>1, <1>2, <1>7, AllocationOK
  <1> QED BY <1>8 DEF Promise!Aligned

\* Blocks given out differ in where they begin.
LEMMA HandedBack ==
    ASSUME NEW list, NEW blocks, NEW gone, Divided(list, blocks, gone), NEW b \in blocks
    PROVE  /\ Handed(b) \in HandedOut(blocks)
           /\ HandedOut(blocks \ {b}) = HandedOut(blocks) \ {Handed(b)}
  <1>1. \A d \in blocks : d # b => Handed(d) # Handed(b)
    <2>1. ASSUME NEW d \in blocks, d # b PROVE d.ptr # b.ptr
      <3>1. d.ptr \in Cells(d) /\ b.ptr \in Cells(b)
        BY BlockFacts DEF Divided
      <3>2. \A w : ~(w \in Cells(d) /\ w \in Cells(b))
        BY <2>1 DEF Divided
      <3> QED BY <3>1, <3>2
    <2> QED BY <2>1 DEF Handed
  <1> QED BY <1>1 DEF HandedOut

LEMMA HandedMore ==
    ASSUME NEW blocks, NEW b
    PROVE  HandedOut(blocks \cup {b}) = HandedOut(blocks) \cup {Handed(b)}
  BY DEF HandedOut

\* Every step of the heap is one of the allocator's, or none.
LEMMA AllocSteps ==
    ASSUME HeapInv, NEW want \in Requests, NEW al \in {0} \cup Alignments, Alloc(want, al)
    PROVE  [Promise!Next]_(HandedOut(live))
  <1>1. CASE UNCHANGED vars
    BY <1>1 DEF vars, HandedOut
  <1>2. ASSUME NEW i, i = FirstFit(free, NeededSize(want, al)),
               al \in {0} \cup PowersOfTwo, i # 0, AllocFrom(i, want, al)
        PROVE  Promise!Next
    <2>1. PICK taken, new, rest : /\ taken = Taken(free[i], NeededSize(want, al))
                                  /\ new = Allocation(taken, want, al)
                                  /\ rest = Rest(free, i, NeededSize(want, al))
      OBVIOUS
    <2>2. live' = live \cup {new}
      BY <1>2, <2>1 DEF AllocFrom
    <2>3. Serves(free, i, want, al, taken, new, rest)
      BY <1>2, <2>1, FirstFitServes
    <2>4. Divided(free, live, released)
      BY DEF HeapInv
    <2>5. /\ new.ptr \in HeapCells
          /\ Handed(new) = [ptr |-> new.ptr, want |-> want]
          /\ Promise!Extent(Handed(new)) \subseteq HeapCells
          /\ \A h \in HandedOut(live) :
                h.ptr # new.ptr /\ Promise!Extent(h) \cap Promise!Extent(Handed(new)) = {}
      BY <2>3, <2>4, ServedBlock, Zenon
    <2>6. Promise!Aligned(new.ptr, al)
      <3>1. Good(free)
        BY <2>4 DEF Divided
      <3> QED BY <2>3, <3>1, ServedAligned, Zenon
    <2>7. Promise!Free(new.ptr, want)
      BY <2>5 DEF Promise!Free, HandedOut, Handed
    <2>8. HandedOut(live') = HandedOut(live) \cup {[ptr |-> new.ptr, want |-> want]}
      BY <2>2, <2>5, HandedMore
    <2>9. Promise!Alloc(want, al)
      BY <2>5, <2>6, <2>7, <2>8 DEF Promise!Alloc, HandedOut, Handed
    <2> QED BY <2>9 DEF Promise!Next
  <1> QED BY <1>1, <1>2 DEF Alloc

LEMMA FreeSteps ==
    ASSUME HeapInv, NEW b \in live, FreeBlock(b)
    PROVE  Promise!Next
  <1>1. live' = live \ {b} /\ Divided(free, live, released)
    BY DEF FreeBlock, HeapInv
  <1>2. Handed(b) \in HandedOut(live) /\ HandedOut(live \ {b}) = HandedOut(live) \ {Handed(b)}
    BY <1>1, HandedBack
  <1>3. HandedOut(live') = HandedOut(live) \ {Handed(b)}
    BY <1>1, <1>2
  <1>4. Promise!Release(Handed(b))
    BY <1>3 DEF Promise!Release, HandedOut, Handed
  <1> QED BY <1>2, <1>4 DEF Promise!Next, HandedOut, Handed

LEMMA ReallocSteps ==
    ASSUME HeapInv, NEW b \in live, NEW want \in Requests, Realloc(b, want)
    PROVE  [Promise!Next]_(HandedOut(live))
  <1>1. CASE UNCHANGED vars
    BY <1>1 DEF vars, HandedOut
  <1>2. CASE FreeBlock(b)
    BY <1>2, FreeSteps
  <1>3. PICK i, size : size = NeededSize(want, 0) /\ i = FirstFit(free, size)
    OBVIOUS
  <1>4. PICK taken, new, rest : /\ taken = Taken(free[i], size)
                                /\ new = Allocation(taken, want, 0)
                                /\ rest = Rest(free, i, size)
    OBVIOUS
  <1>5. CASE i # 0 /\ live' = (live \ {b}) \cup {new}
    <2>1. Serves(free, i, want, 0, taken, new, rest)
      BY <1>3, <1>4, <1>5, FirstFitServes
    <2>2. Divided(free, live, released)
      BY DEF HeapInv
    <2>3. /\ new.ptr \in HeapCells
          /\ Handed(new) = [ptr |-> new.ptr, want |-> want]
          /\ Promise!Extent(Handed(new)) \subseteq HeapCells
          /\ \A h \in HandedOut(live) :
                h.ptr # new.ptr /\ Promise!Extent(h) \cap Promise!Extent(Handed(new)) = {}
      BY <2>1, <2>2, ServedBlock, Zenon
    <2>4. Promise!Free(new.ptr, want)
      BY <2>3 DEF Promise!Free, HandedOut, Handed
    <2>5. /\ Handed(b) \in HandedOut(live)
          /\ HandedOut(live \ {b}) = HandedOut(live) \ {Handed(b)}
      BY <2>2, HandedBack
    <2>6. HandedOut(live') =
              (HandedOut(live) \ {Handed(b)}) \cup {[ptr |-> new.ptr, want |-> want]}
      BY <1>5, <2>3, <2>5, HandedMore
    <2>7. Promise!Realloc(Handed(b), want)
      BY <2>3, <2>4, <2>6 DEF Promise!Realloc, HandedOut, Handed
    <2> QED BY <2>5, <2>7 DEF Promise!Next, HandedOut, Handed
  <1> QED BY <1>1, <1>2, <1>3, <1>4, <1>5 DEF Realloc

\* Callers see an allocator that gives each block once, aligned as asked, and
\* leaves it alone until it is given back: the whole heap implements Allocator.
THEOREM HeapImplemented == Spec => ImplementsAllocator
  <1>1. Init => Promise!Init
    BY DEF Init, Promise!Init
  <1>2. HeapInv /\ [Next]_vars => [Promise!Next]_(HandedOut(live))
    <2> SUFFICES ASSUME HeapInv, [Next]_vars PROVE [Promise!Next]_(HandedOut(live))
      OBVIOUS
    <2>1. CASE UNCHANGED vars
      BY <2>1 DEF vars, HandedOut
    <2>2. ASSUME NEW want \in Requests, NEW al \in {0} \cup Alignments, Alloc(want, al)
          PROVE  [Promise!Next]_(HandedOut(live))
      BY <2>2, AllocSteps
    <2>3. ASSUME NEW b \in live, FreeBlock(b) PROVE Promise!Next
      BY <2>3, FreeSteps
    <2>4. ASSUME NEW b \in live, NEW want \in Requests, Realloc(b, want)
          PROVE  [Promise!Next]_(HandedOut(live))
      BY <2>4, ReallocSteps
    <2>5. CASE Trim
      BY <2>5 DEF Trim, HandedOut
    <2> QED BY <2>1, <2>2, <2>3, <2>4, <2>5 DEF Next
  <1>3. HeapInv /\ [Next]_vars => [Promise!Next]_({[ptr |-> b.ptr, want |-> b.want] : b \in live})
    BY <1>2 DEF HandedOut, Handed
  <1> QED BY <1>1, <1>3, HeapInvariance, PTL DEF Spec, ImplementsAllocator, Promise!Spec

-----------------------------------------------------------------------------
(* The memory of the free list *)

\* Every address a list node can be at, the head of the list's among them.
Places == HeapCells \cup {FreeList}
Memory == [Places -> [prev : Places \cup {NULL}, next : Places \cup {NULL}, len : Int]]

\* What list_add_tail does to the pointers, in front of an entry or the head.
LEMMA AddTailMem ==
    ASSUME NEW m \in Memory, NEW x \in Places, NEW a \in Places \ {x}, m[x].prev \in Places \ {a}
    PROVE  LET r == list_add_tail(m, x, a)
               last == m[x].prev
           IN  /\ r \in Memory
               /\ \A c \in Places :
                     /\ r[c].next = IF c = last THEN a ELSE IF c = a THEN x ELSE m[c].next
                     /\ r[c].prev = IF c = x THEN a ELSE IF c = a THEN last ELSE m[c].prev
                     /\ r[c].len = m[c].len
  <1> DEFINE last == m[x].prev
             m1 == SetPrev(m, a, last)
             m2 == SetNext(m1, a, x)
             m3 == SetNext(m2, last, a)
             m4 == SetPrev(m3, x, a)
  <1>0. /\ a \in Places /\ last \in Places
        /\ a \in Places \cup {NULL} /\ last \in Places \cup {NULL} /\ x \in Places \cup {NULL}
    OBVIOUS
  <1>1. /\ m1 \in Memory
        /\ \A c \in Places : /\ m1[c].next = m[c].next /\ m1[c].len = m[c].len
                             /\ c = a => m1[c].prev = last
                             /\ c # a => m1[c].prev = m[c].prev
    BY <1>0 DEF Memory, SetPrev
  <1> HIDE DEF m1
  <1>2. /\ m2 \in Memory
        /\ \A c \in Places : /\ c = a => m2[c].next = x
                             /\ c # a => m2[c].next = m1[c].next
                             /\ m2[c].prev = m1[c].prev /\ m2[c].len = m1[c].len
    BY <1>0, <1>1 DEF Memory, SetNext
  <1> HIDE DEF m2
  <1>3. /\ m3 \in Memory
        /\ \A c \in Places : /\ c = last => m3[c].next = a
                             /\ c # last => m3[c].next = m2[c].next
                             /\ m3[c].prev = m2[c].prev /\ m3[c].len = m2[c].len
    BY <1>0, <1>2 DEF Memory, SetNext
  <1> HIDE DEF m3
  <1>4. /\ m4 \in Memory
        /\ \A c \in Places : /\ m4[c].next = m3[c].next /\ m4[c].len = m3[c].len
                             /\ c = x => m4[c].prev = a
                             /\ c # x => m4[c].prev = m3[c].prev
    BY <1>0, <1>3 DEF Memory, SetPrev
  <1>5. m2[x].prev = last
    BY <1>1, <1>2
  <1>6. list_add_tail(m, x, a) = m4
    BY <1>5 DEF list_add_tail, m1, m2, m3, m4
  <1> HIDE DEF m4
  <1> QED BY <1>1, <1>2, <1>3, <1>4, <1>6

\* What list_add_head does, behind an entry or the head.
LEMMA AddHeadMem ==
    ASSUME NEW m \in Memory, NEW x \in Places, NEW a \in Places \ {x}, m[x].next \in Places \ {a}
    PROVE  LET r == list_add_head(m, x, a)
               first == m[x].next
           IN  /\ r \in Memory
               /\ \A c \in Places :
                     /\ r[c].next = IF c = x THEN a ELSE IF c = a THEN first ELSE m[c].next
                     /\ r[c].prev = IF c = first THEN a ELSE IF c = a THEN x ELSE m[c].prev
                     /\ r[c].len = m[c].len
  <1> DEFINE first == m[x].next
             m1 == SetNext(m, a, first)
             m2 == SetPrev(m1, a, x)
             m3 == SetPrev(m2, first, a)
             m4 == SetNext(m3, x, a)
  <1>0. /\ a \in Places /\ first \in Places
        /\ a \in Places \cup {NULL} /\ first \in Places \cup {NULL} /\ x \in Places \cup {NULL}
    OBVIOUS
  <1>1. /\ m1 \in Memory
        /\ \A c \in Places : /\ c = a => m1[c].next = first
                             /\ c # a => m1[c].next = m[c].next
                             /\ m1[c].prev = m[c].prev /\ m1[c].len = m[c].len
    BY <1>0 DEF Memory, SetNext
  <1> HIDE DEF m1
  <1>2. /\ m2 \in Memory
        /\ \A c \in Places : /\ m2[c].next = m1[c].next /\ m2[c].len = m1[c].len
                             /\ c = a => m2[c].prev = x
                             /\ c # a => m2[c].prev = m1[c].prev
    BY <1>0, <1>1 DEF Memory, SetPrev
  <1> HIDE DEF m2
  <1>3. /\ m3 \in Memory
        /\ \A c \in Places : /\ m3[c].next = m2[c].next /\ m3[c].len = m2[c].len
                             /\ c = first => m3[c].prev = a
                             /\ c # first => m3[c].prev = m2[c].prev
    BY <1>0, <1>2 DEF Memory, SetPrev
  <1> HIDE DEF m3
  <1>4. /\ m4 \in Memory
        /\ \A c \in Places : /\ c = x => m4[c].next = a
                             /\ c # x => m4[c].next = m3[c].next
                             /\ m4[c].prev = m3[c].prev /\ m4[c].len = m3[c].len
    BY <1>0, <1>3 DEF Memory, SetNext
  <1>5. m2[x].next = first
    BY <1>1, <1>2
  <1>6. list_add_head(m, x, a) = m4
    BY <1>5 DEF list_add_head, m1, m2, m3, m4
  <1> HIDE DEF m4
  <1> QED BY <1>1, <1>2, <1>3, <1>4, <1>6

\* What list_delete does: the neighbours, which can be the same, are linked to
\* each other, and the node is cleared.
LEMMA DeleteMem ==
    ASSUME NEW m \in Memory, NEW x \in Places, m[x].prev \in Places \ {x}, m[x].next \in Places \ {x}
    PROVE  LET r == list_delete(m, x)
           IN  /\ r \in Memory
               /\ \A c \in Places :
                     /\ r[c].next = IF c = x THEN NULL
                                    ELSE IF c = m[x].prev THEN m[x].next ELSE m[c].next
                     /\ r[c].prev = IF c = x THEN NULL
                                    ELSE IF c = m[x].next THEN m[x].prev ELSE m[c].prev
                     /\ r[c].len = m[c].len
  <1> DEFINE p == m[x].prev
             n == m[x].next
             m1 == SetPrev(m, n, p)
             m2 == SetNext(m1, p, n)
             m3 == SetNext(m2, x, NULL)
             m4 == SetPrev(m3, x, NULL)
  <1>0. /\ p \in Places /\ n \in Places /\ NULL \in Places \cup {NULL}
        /\ p \in Places \cup {NULL} /\ n \in Places \cup {NULL}
    OBVIOUS
  <1>1. /\ m1 \in Memory
        /\ \A c \in Places : /\ m1[c].next = m[c].next /\ m1[c].len = m[c].len
                             /\ c = n => m1[c].prev = p
                             /\ c # n => m1[c].prev = m[c].prev
    BY <1>0 DEF Memory, SetPrev
  <1> HIDE DEF m1
  <1>2. /\ m2 \in Memory
        /\ \A c \in Places : /\ c = p => m2[c].next = n
                             /\ c # p => m2[c].next = m1[c].next
                             /\ m2[c].prev = m1[c].prev /\ m2[c].len = m1[c].len
    BY <1>0, <1>1 DEF Memory, SetNext
  <1> HIDE DEF m2
  <1>3. /\ m3 \in Memory
        /\ \A c \in Places : /\ c = x => m3[c].next = NULL
                             /\ c # x => m3[c].next = m2[c].next
                             /\ m3[c].prev = m2[c].prev /\ m3[c].len = m2[c].len
    BY <1>0, <1>2 DEF Memory, SetNext
  <1> HIDE DEF m3
  <1>4. /\ m4 \in Memory
        /\ \A c \in Places : /\ m4[c].next = m3[c].next /\ m4[c].len = m3[c].len
                             /\ c = x => m4[c].prev = NULL
                             /\ c # x => m4[c].prev = m3[c].prev
    BY <1>0, <1>3 DEF Memory, SetPrev
  <1>5. m1[x].prev = p /\ m1[x].next = n
    BY <1>1
  <1>6. list_delete(m, x) = m4
    BY <1>5 DEF list_delete, list_clear_node, m1, m2, m3, m4
  <1> HIDE DEF m4
  <1> QED BY <1>1, <1>2, <1>3, <1>4, <1>6

\* What the other writes of miniheap.c do.
LEMMA WriteMem ==
    ASSUME NEW m \in Memory, NEW a \in Places, NEW len \in Int
    PROVE  /\ SetLen(m, a, len) \in Memory
           /\ \A c \in Places :
                 /\ SetLen(m, a, len)[c].next = m[c].next
                 /\ SetLen(m, a, len)[c].prev = m[c].prev
                 /\ SetLen(m, a, len)[c].len = IF c = a THEN len ELSE m[c].len
           /\ Overwritten(m, a) \in Memory
           /\ \A c \in Places : c # a => Overwritten(m, a)[c] = m[c]
  <1>1. /\ SetLen(m, a, len) \in Memory
        /\ \A c \in Places :
              /\ SetLen(m, a, len)[c].next = m[c].next
              /\ SetLen(m, a, len)[c].prev = m[c].prev
              /\ SetLen(m, a, len)[c].len = IF c = a THEN len ELSE m[c].len
    BY DEF Memory, SetLen
  <1>2. Nothing \in [prev : Places \cup {NULL}, next : Places \cup {NULL}, len : Int]
    BY DEF Nothing
  <1>3. Overwritten(m, a) = [m EXCEPT ![a] = Nothing]
    BY DEF Overwritten
  <1>4. /\ Overwritten(m, a) \in Memory
        /\ \A c \in Places : c # a => Overwritten(m, a)[c] = m[c]
    BY <1>2, <1>3, Zenon DEF Memory
  <1> QED BY <1>1, <1>4

-----------------------------------------------------------------------------
(* A list of chunks in memory *)

Slots == [base : HeapCells, len : Int]

\* The k-th place of the list, its head before the first chunk and after the last.
At(s, k) == IF k \in 1..Len(s) THEN s[k].base ELSE FreeList

\* The pointers lead through the chunks in order and back, and their lengths
\* are in memory.
LinkedAs(m, s) ==
    /\ m \in Memory /\ s \in Seq(Slots)
    /\ \A i, j \in 1..Len(s) : s[i].base = s[j].base => i = j
    /\ \A k \in 0..Len(s) : m[At(s, k)].next = At(s, k + 1) /\ m[At(s, k + 1)].prev = At(s, k)
    /\ \A i \in 1..Len(s) : m[s[i].base].len = s[i].len

\* No chunk of the list is at the address.
Lacks(s, a) == \A i \in 1..Len(s) : s[i].base # a

LEMMA PlacesAre ==
    /\ FreeList \in Places /\ NULL \notin Places /\ HeapCells = Places \ {FreeList}
    /\ HeapCells \subseteq Int
  BY HeapSizes, HeapLinksAssumption DEF HeapLinksAssumption, Places, HeapCells

\* What there is at the places of a list of n chunks.
PlacesOf(s, n) ==
    /\ n \in Nat
    /\ \A i \in 1..n : /\ s[i] \in Slots /\ s[i].base \in HeapCells /\ s[i].len \in Int
                       /\ s[i].base \in Places /\ s[i].base # FreeList /\ s[i].base # NULL
                       /\ At(s, i) = s[i].base
    /\ At(s, 0) = FreeList /\ At(s, n + 1) = FreeList

LEMMA SlotFacts ==
    ASSUME NEW s \in Seq(Slots), NEW n, n = Len(s)
    PROVE  PlacesOf(s, n)
  <1>1. n \in Nat /\ \A i \in 1..n : s[i] \in Slots
    BY LenProperties, ElementOfSeq
  <1>2. \A i \in 1..n : At(s, i) = s[i].base
    BY DEF At
  <1>3. At(s, 0) = FreeList /\ At(s, n + 1) = FreeList
    BY <1>1 DEF At
  <1> QED BY <1>1, <1>2, <1>3, PlacesAre DEF Slots, PlacesOf

\* What the memory says of them.
Leads(m, s, n) ==
    /\ m \in Memory /\ s \in Seq(Slots)
    /\ \A k \in 0..(n + 1) : At(s, k) \in Places
    /\ \A j, k \in 0..n : At(s, j) = At(s, k) => j = k
    /\ \A j, k \in 1..(n + 1) : At(s, j) = At(s, k) => j = k
    /\ \A k \in 0..n : m[At(s, k)].next = At(s, k + 1) /\ m[At(s, k + 1)].prev = At(s, k)
    /\ \A i \in 1..n : m[s[i].base].len = s[i].len
    /\ \A i \in 1..n : /\ m[s[i].base].next = At(s, i + 1)
                       /\ m[s[i].base].prev = At(s, i - 1)

LEMMA LinkedFacts ==
    ASSUME NEW m, NEW s, LinkedAs(m, s), NEW n, n = Len(s)
    PROVE  PlacesOf(s, n) /\ Leads(m, s, n)
  <1>1. m \in Memory /\ s \in Seq(Slots)
        /\ \A i, j \in 1..n : s[i].base = s[j].base => i = j
    BY DEF LinkedAs
  <1>2. /\ n \in Nat
        /\ \A i \in 1..n : s[i].base \in Places /\ s[i].base # FreeList /\ At(s, i) = s[i].base
        /\ At(s, 0) = FreeList /\ At(s, n + 1) = FreeList /\ FreeList \in Places
    BY <1>1, SlotFacts, PlacesAre DEF PlacesOf
  <1>3. \A k \in 0..(n + 1) : k = 0 \/ k = n + 1 \/ k \in 1..n
    BY <1>2
  <1>4. \A k \in 0..(n + 1) : At(s, k) \in Places
    BY <1>2, <1>3, Zenon
  <1>5. /\ \A k \in 0..n : k = 0 \/ k \in 1..n
        /\ \A k \in 1..(n + 1) : k = n + 1 \/ k \in 1..n
    BY <1>2
  <1>6. \A j, k \in 0..n : At(s, j) = At(s, k) => j = k
    BY <1>1, <1>2, <1>5
  <1>7. \A j, k \in 1..(n + 1) : At(s, j) = At(s, k) => j = k
    BY <1>1, <1>2, <1>5
  <1>8. \A k \in 0..n : m[At(s, k)].next = At(s, k + 1) /\ m[At(s, k + 1)].prev = At(s, k)
    BY DEF LinkedAs
  <1>9. ASSUME NEW i \in 1..n
        PROVE  m[s[i].base].next = At(s, i + 1) /\ m[s[i].base].prev = At(s, i - 1)
    <2>1. i \in 0..n /\ i - 1 \in 0..n /\ (i - 1) + 1 = i
      BY <1>2
    <2> QED BY <1>2, <1>8, <2>1
  <1>10. \A i \in 1..n : m[s[i].base].len = s[i].len
    BY DEF LinkedAs
  <1>11. Leads(m, s, n)
    BY <1>1, <1>4, <1>6, <1>7, <1>8, <1>9, <1>10 DEF Leads
  <1> QED BY <1>1, <1>11, SlotFacts

-----------------------------------------------------------------------------
(* A chunk put into the list, one taken out, one made longer or shorter *)

\* t is s with c put behind its k-th place.
Inserted(t, s, k, c) ==
    /\ s \in Seq(Slots) /\ t \in Seq(Slots) /\ k \in 0..Len(s) /\ Len(t) = Len(s) + 1
    /\ \A j \in 1..k : t[j] = s[j]
    /\ t[k + 1] = c
    /\ \A j \in (k + 1)..Len(s) : t[j + 1] = s[j]

\* What there is at the places of the longer list, and where the shorter one's
\* chunks are in it.
OneMore(t, s, k, c, n) ==
    /\ n \in Nat /\ k \in 0..n /\ Len(t) = n + 1 /\ c \in Slots
    /\ s \in Seq(Slots) /\ t \in Seq(Slots) /\ t[k + 1] = c
    /\ \A j \in 0..k : At(t, j) = At(s, j)
    /\ At(t, k + 1) = c.base
    /\ \A j \in (k + 1)..(n + 1) : At(t, j + 1) = At(s, j)
    /\ \A j \in 1..n : \/ j <= k /\ j \in 1..(n + 1) /\ t[j] = s[j]
                       \/ j > k /\ j + 1 \in 1..(n + 1) /\ t[j + 1] = s[j]
    /\ \A j \in 1..(n + 1) : \/ j <= k /\ j \in 1..n /\ t[j] = s[j]
                             \/ j = k + 1 /\ t[j] = c
                             \/ j > k + 1 /\ j - 1 \in 1..n /\ t[j] = s[j - 1]

LEMMA InsertedPlaces ==
    ASSUME NEW t, NEW s, NEW k, NEW c, Inserted(t, s, k, c), NEW n, n = Len(s)
    PROVE  OneMore(t, s, k, c, n)
  <1>1. /\ s \in Seq(Slots) /\ t \in Seq(Slots) /\ k \in 0..n /\ Len(t) = n + 1
        /\ \A j \in 1..k : t[j] = s[j]
        /\ t[k + 1] = c
        /\ \A j \in (k + 1)..n : t[j + 1] = s[j]
    BY DEF Inserted
  <1>2. n \in Nat /\ k + 1 \in 1..(n + 1)
    BY <1>1, LenProperties
  <1>3. c \in Slots
    BY <1>1, <1>2, ElementOfSeq
  <1>4. \A j \in 1..n : \/ j <= k /\ j \in 1..(n + 1) /\ t[j] = s[j]
                        \/ j > k /\ j + 1 \in 1..(n + 1) /\ t[j + 1] = s[j]
    <2>1. ASSUME NEW j \in 1..n, j <= k PROVE j \in 1..(n + 1) /\ t[j] = s[j]
      BY <1>1, <1>2, <2>1
    <2>2. ASSUME NEW j \in 1..n, j > k PROVE j + 1 \in 1..(n + 1) /\ t[j + 1] = s[j]
      BY <1>1, <1>2, <2>2
    <2>3. \A j \in 1..n : j <= k \/ j > k
      BY <1>1, <1>2
    <2> QED BY <1>1, <1>2, <2>1, <2>2, <2>3
  <1>5. ASSUME NEW j \in 1..(n + 1)
        PROVE  \/ j <= k /\ j \in 1..n /\ t[j] = s[j]
               \/ j = k + 1 /\ t[j] = c
               \/ j > k + 1 /\ j - 1 \in 1..n /\ t[j] = s[j - 1]
    <2>1. CASE j <= k
      BY <1>1, <1>2, <2>1
    <2>2. CASE j = k + 1
      BY <1>1, <2>2
    <2>3. CASE j > k + 1
      <3>1. j - 1 \in (k + 1)..n /\ (j - 1) + 1 = j /\ j - 1 \in 1..n
        BY <1>1, <1>2, <2>3
      <3>2. t[(j - 1) + 1] = s[j - 1]
        BY <1>1, <3>1
      <3> QED BY <2>3, <3>1, <3>2
    <2> QED BY <1>1, <1>2, <2>1, <2>2, <2>3
  <1>6. \A j \in 0..k : At(t, j) = At(s, j)
    <2>1. ASSUME NEW j \in 0..k PROVE At(t, j) = At(s, j)
      <3>1. CASE j = 0
        BY <1>1, <1>2, <3>1 DEF At
      <3>2. CASE j # 0
        <4>1. j \in 1..k /\ j \in 1..Len(t) /\ j \in 1..Len(s)
          BY <1>1, <1>2, <3>2
        <4> QED BY <1>1, <4>1 DEF At
      <3> QED BY <3>1, <3>2
    <2> QED BY <2>1
  <1>7. At(t, k + 1) = c.base
    BY <1>1, <1>2 DEF At
  <1>8. ASSUME NEW j \in (k + 1)..(n + 1) PROVE At(t, j + 1) = At(s, j)
    <2>1. CASE j = n + 1
      BY <1>1, <1>2, <2>1 DEF At
    <2>2. CASE j # n + 1
      <3>1. j \in (k + 1)..n /\ j + 1 \in 1..Len(t) /\ j \in 1..Len(s)
        BY <1>1, <1>2, <2>2
      <3> QED BY <1>1, <3>1 DEF At
    <2> QED BY <2>1, <2>2
  <1> QED BY <1>1, <1>2, <1>3, <1>4, <1>5, <1>6, <1>7, <1>8 DEF OneMore

\* The pointers that put c behind the k-th place of the list.
LEMMA InsertLinked ==
    ASSUME NEW m, NEW s, LinkedAs(m, s), NEW t, NEW k, NEW c, Inserted(t, s, k, c),
           Lacks(s, c.base),
           NEW r \in Memory, r[c.base].len = c.len,
           \A a \in Places :
              /\ r[a].next = IF a = At(s, k) THEN c.base
                             ELSE IF a = c.base THEN At(s, k + 1) ELSE m[a].next
              /\ r[a].prev = IF a = At(s, k + 1) THEN c.base
                             ELSE IF a = c.base THEN At(s, k) ELSE m[a].prev
              /\ a # c.base => r[a].len = m[a].len
    PROVE  LinkedAs(r, t)
  <1>1. PICK n : n = Len(s)
    OBVIOUS
  <1>2. /\ n \in Nat /\ k \in 0..n /\ Len(t) = n + 1 /\ c \in Slots
        /\ \A j \in 0..k : At(t, j) = At(s, j)
        /\ At(t, k + 1) = c.base
        /\ \A j \in (k + 1)..(n + 1) : At(t, j + 1) = At(s, j)
        /\ \A j \in 1..(n + 1) : \/ j <= k /\ j \in 1..n /\ t[j] = s[j]
                                 \/ j = k + 1 /\ t[j] = c
                                 \/ j > k + 1 /\ j - 1 \in 1..n /\ t[j] = s[j - 1]
    <2>1. OneMore(t, s, k, c, n)
      BY <1>1, InsertedPlaces, Zenon
    <2> QED BY <2>1 DEF OneMore
  <1>3. /\ \A j \in 0..(n + 1) : At(s, j) \in Places
        /\ \A i, j \in 0..n : At(s, i) = At(s, j) => i = j
        /\ \A i, j \in 1..(n + 1) : At(s, i) = At(s, j) => i = j
        /\ \A j \in 0..n : m[At(s, j)].next = At(s, j + 1) /\ m[At(s, j + 1)].prev = At(s, j)
        /\ \A i \in 1..n : m[s[i].base].len = s[i].len
    <2>1. Leads(m, s, n)
      BY <1>1, LinkedFacts, Zenon
    <2> QED BY <2>1 DEF Leads
  <1>4. /\ s \in Seq(Slots) /\ t \in Seq(Slots)
        /\ \A i, j \in 1..n : s[i].base = s[j].base => i = j
    BY <1>1 DEF LinkedAs, Inserted
  <1>5. c.base \in Places /\ c.base # FreeList
    BY <1>2, PlacesAre DEF Slots
  <1>6. /\ \A j \in 1..n : /\ At(s, j) = s[j].base /\ s[j].base \in Places
        /\ At(s, 0) = FreeList /\ At(s, n + 1) = FreeList
    <2>1. PlacesOf(s, n)
      BY <1>1, LinkedFacts, Zenon
    <2> QED BY <2>1 DEF PlacesOf
  <1>7. \A j \in 0..(n + 1) : At(s, j) # c.base
    <2>1. \A j \in 0..(n + 1) : j = 0 \/ j = n + 1 \/ j \in 1..n
      BY <1>2
    <2> QED BY <1>1, <1>5, <1>6, <2>1 DEF Lacks
  <1>8. ASSUME NEW j \in 0..(n + 1)
        PROVE  r[At(t, j)].next = At(t, j + 1) /\ r[At(t, j + 1)].prev = At(t, j)
    <2>1. CASE j < k
      <3>1. j \in 0..k /\ j + 1 \in 0..k /\ j \in 0..n /\ k \in 0..n /\ j + 1 \in 0..(n + 1)
            /\ j + 1 \in 1..(n + 1) /\ k + 1 \in 1..(n + 1) /\ j \in 0..(n + 1)
        BY <1>2, <2>1
      <3>2. At(t, j) = At(s, j) /\ At(t, j + 1) = At(s, j + 1)
        BY <1>2, <3>1
      <3>3. At(s, j) # At(s, k) /\ At(s, j + 1) # At(s, k + 1)
        BY <1>3, <2>1, <3>1
      <3>4. /\ At(s, j) \in Places /\ At(s, j + 1) \in Places
            /\ At(s, j) # c.base /\ At(s, j + 1) # c.base
            /\ m[At(s, j)].next = At(s, j + 1) /\ m[At(s, j + 1)].prev = At(s, j)
        BY <1>3, <1>7, <3>1
      <3> QED BY <3>2, <3>3, <3>4
    <2>2. CASE j = k
      <3>1. At(t, j) = At(s, k) /\ At(t, j + 1) = c.base
        BY <1>2, <2>2
      <3>2. At(s, k) \in Places /\ At(s, k + 1) \in Places /\ At(s, k + 1) # c.base
        BY <1>2, <1>3, <1>7
      <3> QED BY <1>5, <3>1, <3>2
    <2>3. CASE j = k + 1
      <3>1. At(t, j) = c.base /\ At(t, j + 1) = At(s, k + 1)
        BY <1>2, <2>3
      <3>2. At(s, k) \in Places /\ At(s, k + 1) \in Places /\ At(s, k) # c.base
        BY <1>2, <1>3, <1>7
      <3> QED BY <1>5, <3>1, <3>2
    <2>4. CASE j > k + 1
      <3>1. PICK i \in Int : i = j - 1
        BY <1>2
      <3>2. /\ i \in (k + 1)..(n + 1) /\ i + 1 = j /\ j \in (k + 1)..(n + 1)
            /\ i \in 0..n /\ k \in 0..n /\ i # k /\ j # k + 1
            /\ j \in 1..(n + 1) /\ k + 1 \in 1..(n + 1) /\ j \in 0..(n + 1) /\ i \in 0..(n + 1)
        BY <1>2, <2>4, <3>1
      <3>3. At(t, j) = At(s, i) /\ At(t, j + 1) = At(s, j)
        BY <1>2, <3>2
      <3>4. At(s, i) # At(s, k) /\ At(s, j) # At(s, k + 1)
        BY <1>3, <3>2
      <3>5. /\ At(s, i) \in Places /\ At(s, j) \in Places
            /\ At(s, i) # c.base /\ At(s, j) # c.base
            /\ m[At(s, i)].next = At(s, j) /\ m[At(s, j)].prev = At(s, i)
        BY <1>3, <1>7, <3>2
      <3> QED BY <3>3, <3>4, <3>5
    <2> QED BY <1>2, <2>1, <2>2, <2>3, <2>4
  <1>9. ASSUME NEW i \in 1..(n + 1), NEW j \in 1..(n + 1), t[i].base = t[j].base PROVE i = j
    <2>1. \A q \in 1..n : s[q].base # c.base
      BY <1>1 DEF Lacks
    <2>4. \/ i <= k /\ i \in 1..n /\ t[i] = s[i]
          \/ i = k + 1 /\ t[i] = c
          \/ i > k + 1 /\ i - 1 \in 1..n /\ t[i] = s[i - 1]
      BY <1>2, Zenon
    <2>5. \/ j <= k /\ j \in 1..n /\ t[j] = s[j]
          \/ j = k + 1 /\ t[j] = c
          \/ j > k + 1 /\ j - 1 \in 1..n /\ t[j] = s[j - 1]
      BY <1>2, Zenon
    <2>6. t[i] = c <=> t[j] = c
      BY <1>9, <2>1, <2>4, <2>5
    <2>7. CASE t[i] = c
      <3>1. i = k + 1 /\ j = k + 1
        BY <2>1, <2>4, <2>5, <2>6, <2>7
      <3> QED BY <3>1
    <2>8. CASE t[i] # c
      <3>0. k \in Int /\ n \in Nat
        BY <1>2
      <3>1. PICK p \in 1..n : t[i] = s[p] /\ ((p <= k /\ i = p) \/ (p > k /\ i = p + 1))
        <4>1. CASE i <= k /\ i \in 1..n /\ t[i] = s[i]
          BY <3>0, <4>1
        <4>2. CASE i > k + 1 /\ i - 1 \in 1..n /\ t[i] = s[i - 1]
          <5>1. i - 1 > k /\ i = (i - 1) + 1
            BY <3>0, <4>2
          <5> QED BY <4>2, <5>1
        <4> QED BY <2>4, <2>8, <4>1, <4>2
      <3>2. PICK q \in 1..n : t[j] = s[q] /\ ((q <= k /\ j = q) \/ (q > k /\ j = q + 1))
        <4>1. CASE j <= k /\ j \in 1..n /\ t[j] = s[j]
          BY <3>0, <4>1
        <4>2. CASE j > k + 1 /\ j - 1 \in 1..n /\ t[j] = s[j - 1]
          <5>1. j - 1 > k /\ j = (j - 1) + 1
            BY <3>0, <4>2
          <5> QED BY <4>2, <5>1
        <4> QED BY <2>5, <2>6, <2>8, <4>1, <4>2
      <3>3. s[p].base = s[q].base
        BY <1>9, <3>1, <3>2
      <3>4. p = q
        BY <1>4, <3>3
      <3> QED BY <3>0, <3>1, <3>2, <3>4
    <2> QED BY <2>7, <2>8
  <1>10. ASSUME NEW i \in 1..(n + 1) PROVE r[t[i].base].len = t[i].len
    <2>1. \A q \in 1..n : s[q].base # c.base /\ s[q].base \in Places
      BY <1>1, <1>6 DEF Lacks
    <2>2. \/ i \in 1..n /\ t[i] = s[i]
          \/ t[i] = c
          \/ i - 1 \in 1..n /\ t[i] = s[i - 1]
      BY <1>2, Zenon
    <2>3. \A q \in 1..n : r[s[q].base].len = s[q].len
      BY <1>3, <2>1
    <2> QED BY <2>2, <2>3
  <1> QED BY <1>2, <1>4, <1>8, <1>9, <1>10 DEF LinkedAs

\* No length is written.
SameLens(r, m) == \A a \in Places : r[a].len = m[a].len

\* The pointers that take the chunk behind the k-th place out of the list.
LEMMA RemoveLinked ==
    ASSUME NEW m, NEW s, NEW t, LinkedAs(m, t), NEW k, NEW c, Inserted(t, s, k, c),
           NEW r, r = list_delete(m, c.base)
    PROVE  /\ LinkedAs(r, s)
           /\ SameLens(r, m)
           /\ Lacks(s, c.base)
  <1>1. PICK n : n = Len(s)
    OBVIOUS
  <1>2. /\ n \in Nat /\ k \in 0..n /\ Len(t) = n + 1 /\ c \in Slots
        /\ \A j \in 0..k : At(t, j) = At(s, j)
        /\ At(t, k + 1) = c.base
        /\ \A j \in (k + 1)..(n + 1) : At(t, j + 1) = At(s, j)
        /\ \A j \in 1..n : \/ j <= k /\ j \in 1..(n + 1) /\ t[j] = s[j]
                           \/ j > k /\ j + 1 \in 1..(n + 1) /\ t[j + 1] = s[j]
    <2>1. OneMore(t, s, k, c, n)
      BY <1>1, InsertedPlaces, Zenon
    <2> QED BY <2>1 DEF OneMore
  <1>3. /\ \A j \in 0..(n + 2) : At(t, j) \in Places
        /\ \A i, j \in 0..(n + 1) : At(t, i) = At(t, j) => i = j
        /\ \A i, j \in 1..(n + 2) : At(t, i) = At(t, j) => i = j
        /\ \A j \in 0..(n + 1) : m[At(t, j)].next = At(t, j + 1) /\ m[At(t, j + 1)].prev = At(t, j)
        /\ \A i \in 1..(n + 1) : m[t[i].base].len = t[i].len
    <2>1. n + 1 = Len(t) /\ (n + 1) + 1 = n + 2
      BY <1>2
    <2>2. PICK p : p = n + 1
      OBVIOUS
    <2>3. /\ \A j \in 0..(p + 1) : At(t, j) \in Places
          /\ \A i, j \in 0..p : At(t, i) = At(t, j) => i = j
          /\ \A i, j \in 1..(p + 1) : At(t, i) = At(t, j) => i = j
          /\ \A j \in 0..p : m[At(t, j)].next = At(t, j + 1) /\ m[At(t, j + 1)].prev = At(t, j)
          /\ \A i \in 1..p : m[t[i].base].len = t[i].len
      BY <2>1, <2>2, LinkedFacts DEF Leads
    <2> QED BY <2>1, <2>2, <2>3
  <1>4. /\ m \in Memory /\ s \in Seq(Slots) /\ t \in Seq(Slots) /\ t[k + 1] = c
        /\ \A i, j \in 1..(n + 1) : t[i].base = t[j].base => i = j
    BY <1>1, <1>2 DEF LinkedAs, Inserted
  <1>5. PICK x : x = c.base
    OBVIOUS
  <1>6. /\ x \in Places /\ m[x].prev = At(t, k) /\ m[x].next = At(t, k + 2)
        /\ At(t, k) \in Places \ {x} /\ At(t, k + 2) \in Places \ {x}
    <2>1. /\ k \in 0..(n + 1) /\ k + 1 \in 0..(n + 1) /\ (k + 1) + 1 = k + 2
          /\ k + 1 \in 1..(n + 2) /\ k + 2 \in 1..(n + 2) /\ k + 2 \in 0..(n + 2)
          /\ k \in 0..(n + 2) /\ k + 1 \in 0..(n + 2) /\ k # k + 1 /\ k + 1 # k + 2
      BY <1>2
    <2>2. m[At(t, k + 1)].prev = At(t, k) /\ m[At(t, k + 1)].next = At(t, k + 2)
      BY <1>3, <2>1
    <2>3. At(t, k) # At(t, k + 1) /\ At(t, k + 2) # At(t, k + 1)
      BY <1>3, <2>1
    <2> QED BY <1>2, <1>3, <1>5, <2>1, <2>2, <2>3
  <1>7. /\ r \in Memory
        /\ \A a \in Places :
              /\ r[a].next = IF a = x THEN NULL
                             ELSE IF a = At(t, k) THEN At(t, k + 2) ELSE m[a].next
              /\ r[a].prev = IF a = x THEN NULL
                             ELSE IF a = At(t, k + 2) THEN At(t, k) ELSE m[a].prev
              /\ r[a].len = m[a].len
    BY <1>4, <1>5, <1>6, DeleteMem
  <1>8. ASSUME NEW j \in 0..n
        PROVE  r[At(s, j)].next = At(s, j + 1) /\ r[At(s, j + 1)].prev = At(s, j)
    <2>1. CASE j < k
      <3>1. /\ j \in 0..k /\ j + 1 \in 0..k /\ j \in 0..(n + 1) /\ k \in 0..(n + 1)
            /\ k + 1 \in 0..(n + 1) /\ j + 1 \in 1..(n + 2) /\ k + 1 \in 1..(n + 2)
            /\ k + 2 \in 1..(n + 2) /\ j # k /\ j # k + 1 /\ j + 1 # k + 1 /\ j + 1 # k + 2
            /\ j \in 0..(n + 2) /\ j + 1 \in 0..(n + 2)
        BY <1>2, <2>1
      <3>2. At(s, j) = At(t, j) /\ At(s, j + 1) = At(t, j + 1)
        BY <1>2, <3>1
      <3>3. /\ At(t, j) # At(t, k) /\ At(t, j) # x /\ At(t, j + 1) # At(t, k + 2)
            /\ At(t, j + 1) # x
        BY <1>2, <1>3, <1>5, <3>1
      <3>4. /\ At(t, j) \in Places /\ At(t, j + 1) \in Places
            /\ m[At(t, j)].next = At(t, j + 1) /\ m[At(t, j + 1)].prev = At(t, j)
        BY <1>3, <3>1
      <3> QED BY <1>7, <3>2, <3>3, <3>4
    <2>2. CASE j = k
      <3>1. /\ k \in 0..k /\ k + 1 \in (k + 1)..(n + 1) /\ (k + 1) + 1 = k + 2
        BY <1>2
      <3>2. At(s, j) = At(t, k) /\ At(s, j + 1) = At(t, k + 2)
        BY <1>2, <2>2, <3>1
      <3> QED BY <1>6, <1>7, <3>2
    <2>3. CASE j > k
      <3>1. PICK i \in Int : i = j + 1
        BY <1>2
      <3>2. /\ j \in (k + 1)..(n + 1) /\ i \in (k + 1)..(n + 1) /\ i \in 0..(n + 1)
            /\ k \in 0..(n + 1) /\ k + 1 \in 0..(n + 1) /\ i # k /\ i # k + 1
            /\ i + 1 \in 1..(n + 2) /\ k + 1 \in 1..(n + 2) /\ k + 2 \in 1..(n + 2)
            /\ i + 1 # k + 1 /\ i + 1 # k + 2 /\ i \in 0..(n + 2) /\ i + 1 \in 0..(n + 2)
        BY <1>2, <2>3, <3>1
      <3>3. At(s, j) = At(t, i) /\ At(s, j + 1) = At(t, i + 1)
        BY <1>2, <3>1, <3>2
      <3>4. /\ At(t, i) # At(t, k) /\ At(t, i) # x /\ At(t, i + 1) # At(t, k + 2)
            /\ At(t, i + 1) # x
        BY <1>2, <1>3, <1>5, <3>2
      <3>5. /\ At(t, i) \in Places /\ At(t, i + 1) \in Places
            /\ m[At(t, i)].next = At(t, i + 1) /\ m[At(t, i + 1)].prev = At(t, i)
        BY <1>3, <3>2
      <3> QED BY <1>7, <3>3, <3>4, <3>5
    <2> QED BY <1>2, <2>1, <2>2, <2>3
  <1>9. k + 1 \in 1..(n + 1)
    BY <1>2
  <1>10. ASSUME NEW i \in 1..n, NEW j \in 1..n, s[i].base = s[j].base PROVE i = j
    <2>1. \/ i <= k /\ i \in 1..(n + 1) /\ t[i] = s[i]
          \/ i > k /\ i + 1 \in 1..(n + 1) /\ t[i + 1] = s[i]
      BY <1>2, Zenon
    <2>2. \/ j <= k /\ j \in 1..(n + 1) /\ t[j] = s[j]
          \/ j > k /\ j + 1 \in 1..(n + 1) /\ t[j + 1] = s[j]
      BY <1>2, Zenon
    <2>0. k \in Int /\ n \in Nat
      BY <1>2
    <2>3. PICK p \in 1..(n + 1) : t[p] = s[i] /\ ((i <= k /\ p = i) \/ (i > k /\ p = i + 1))
      BY <2>0, <2>1
    <2>4. PICK q \in 1..(n + 1) : t[q] = s[j] /\ ((j <= k /\ q = j) \/ (j > k /\ q = j + 1))
      BY <2>0, <2>2
    <2>5. t[p].base = t[q].base
      BY <1>10, <2>3, <2>4
    <2>6. p = q
      BY <1>4, <2>5
    <2> QED BY <2>0, <2>3, <2>4, <2>6
  <1>11. \A i \in 1..n : s[i].base # x
    BY <1>2, <1>4, <1>5, <1>9
  <1>12. ASSUME NEW i \in 1..n PROVE r[s[i].base].len = s[i].len
    <2>1. s[i].base \in Places
      BY <1>1, <1>4, SlotFacts DEF PlacesOf
    <2>2. PICK j \in 1..(n + 1) : t[j] = s[i]
      BY <1>2
    <2>3. m[s[i].base].len = s[i].len
      BY <1>3, <2>2
    <2> QED BY <1>7, <2>1, <2>3
  <1>13. LinkedAs(r, s)
    BY <1>1, <1>4, <1>7, <1>8, <1>10, <1>12 DEF LinkedAs
  <1> QED BY <1>1, <1>5, <1>7, <1>11, <1>13 DEF Lacks, SameLens

\* Writing where no node of the list is leaves the list alone.
LEMMA OtherLinked ==
    ASSUME NEW m, NEW s, LinkedAs(m, s), NEW a \in HeapCells,
           Lacks(s, a),
           NEW r \in Memory,
           \A c \in Places : c # a => /\ r[c].next = m[c].next
                                      /\ r[c].prev = m[c].prev
                                      /\ r[c].len = m[c].len
    PROVE  LinkedAs(r, s)
  <1>1. PICK n : n = Len(s)
    OBVIOUS
  <1>2. PlacesOf(s, n) /\ Leads(m, s, n)
    BY <1>1, LinkedFacts, Zenon
  <1>3. a # FreeList /\ n \in Nat
    BY <1>2, PlacesAre DEF PlacesOf
  <1>4. \A k \in 0..(n + 1) : At(s, k) # a /\ At(s, k) \in Places
    <2>1. ASSUME NEW k \in 0..(n + 1) PROVE At(s, k) # a
      BY <1>1, <1>3 DEF At, Lacks
    <2> QED BY <1>2, <2>1 DEF Leads
  <1>5. ASSUME NEW k \in 0..n
        PROVE  r[At(s, k)].next = At(s, k + 1) /\ r[At(s, k + 1)].prev = At(s, k)
    <2>1. k \in 0..(n + 1) /\ k + 1 \in 0..(n + 1)
      BY <1>3
    <2>2. m[At(s, k)].next = At(s, k + 1) /\ m[At(s, k + 1)].prev = At(s, k)
      BY <1>2 DEF Leads
    <2> QED BY <1>4, <2>1, <2>2
  <1>6. ASSUME NEW i \in 1..n PROVE r[s[i].base].len = s[i].len
    <2>1. s[i].base \in Places /\ s[i].base # a /\ m[s[i].base].len = s[i].len
      BY <1>1, <1>2 DEF Leads, PlacesOf, Lacks
    <2> QED BY <2>1
  <1> QED BY <1>1, <1>5, <1>6 DEF LinkedAs

\* t is s with another length for its i-th chunk.
Resized(t, s, i, len) ==
    /\ s \in Seq(Slots) /\ t \in Seq(Slots) /\ i \in 1..Len(s) /\ Len(t) = Len(s) /\ len \in Int
    /\ \A j \in 1..Len(s) : t[j] = IF j = i THEN Chunk(s[i].base, len) ELSE s[j]

LEMMA ResizeLinked ==
    ASSUME NEW m, NEW s, LinkedAs(m, s), NEW t, NEW i, NEW len, Resized(t, s, i, len)
    PROVE  LinkedAs(SetLen(m, s[i].base, len), t)
  <1>1. PICK n, r, x : n = Len(s) /\ r = SetLen(m, s[i].base, len) /\ x = s[i].base
    OBVIOUS
  <1>2. PlacesOf(s, n) /\ Leads(m, s, n)
    BY <1>1, LinkedFacts, Zenon
  <1>3. /\ n \in Nat /\ i \in 1..n /\ Len(t) = n /\ len \in Int /\ t \in Seq(Slots)
        /\ \A j \in 1..n : t[j] = IF j = i THEN Chunk(x, len) ELSE s[j]
    BY <1>1, <1>2 DEF Resized, PlacesOf
  <1>4. /\ \A j \in 1..n : t[j].base = s[j].base
        /\ \A j \in 1..n : j # i => t[j].len = s[j].len
        /\ t[i].len = len
    BY <1>1, <1>3 DEF Chunk
  <1>5. \A k : At(t, k) = At(s, k)
    BY <1>1, <1>3, <1>4 DEF At
  <1>6. x \in Places /\ m \in Memory /\ \A j \in 1..n : s[j].base \in Places
    BY <1>1, <1>2, <1>3 DEF PlacesOf, Leads
  <1>7. /\ r \in Memory
        /\ \A c \in Places : /\ r[c].next = m[c].next /\ r[c].prev = m[c].prev
                             /\ r[c].len = IF c = x THEN len ELSE m[c].len
    <2>1. /\ SetLen(m, x, len) \in Memory
          /\ \A c \in Places : /\ SetLen(m, x, len)[c].next = m[c].next
                               /\ SetLen(m, x, len)[c].prev = m[c].prev
                               /\ SetLen(m, x, len)[c].len = IF c = x THEN len ELSE m[c].len
      BY <1>3, <1>6, WriteMem
    <2>2. r = SetLen(m, x, len)
      BY <1>1
    <2> QED BY <2>1, <2>2
  <1>8. ASSUME NEW k \in 0..n
        PROVE  r[At(t, k)].next = At(t, k + 1) /\ r[At(t, k + 1)].prev = At(t, k)
    <2>1. k \in 0..(n + 1) /\ k + 1 \in 0..(n + 1)
      BY <1>3
    <2>2. /\ At(s, k) \in Places /\ At(s, k + 1) \in Places
          /\ m[At(s, k)].next = At(s, k + 1) /\ m[At(s, k + 1)].prev = At(s, k)
      BY <1>2, <2>1 DEF Leads
    <2> QED BY <1>5, <1>7, <2>2
  <1>9. \A j, k \in 1..n : s[j].base = s[k].base => j = k
    BY <1>1 DEF LinkedAs
  <1>10. ASSUME NEW j \in 1..n PROVE r[t[j].base].len = t[j].len
    <2>1. CASE j = i
      BY <1>1, <1>3, <1>4, <1>6, <1>7, <2>1
    <2>2. CASE j # i
      <3>1. s[j].base # x
        BY <1>1, <1>3, <1>9, <2>2
      <3>2. m[s[j].base].len = s[j].len
        BY <1>2 DEF Leads
      <3> QED BY <1>4, <1>6, <1>7, <2>2, <3>1, <3>2
    <2> QED BY <2>1, <2>2
  <1>11. \A j, k \in 1..n : t[j].base = t[k].base => j = k
    BY <1>4, <1>9
  <1> QED BY <1>1, <1>3, <1>7, <1>8, <1>10, <1>11 DEF LinkedAs

\* list_add_tail and list_add_head put a chunk whose length is there already
\* into the list.
LEMMA AddTailLinked ==
    ASSUME NEW m, NEW s, LinkedAs(m, s), NEW t, NEW k, NEW c, Inserted(t, s, k, c),
           Lacks(s, c.base), m[c.base].len = c.len
    PROVE  /\ LinkedAs(list_add_tail(m, At(s, k + 1), c.base), t)
           /\ LinkedAs(list_add_head(m, At(s, k), c.base), t)
  <1>1. PICK n, x, p, q : n = Len(s) /\ x = c.base /\ p = At(s, k) /\ q = At(s, k + 1)
    OBVIOUS
  <1>2. PlacesOf(s, n) /\ Leads(m, s, n) /\ OneMore(t, s, k, c, n)
    BY <1>1, LinkedFacts, InsertedPlaces, Zenon
  <1>3. /\ n \in Nat /\ k \in 0..n /\ k + 1 \in 0..(n + 1) /\ k \in 0..(n + 1)
        /\ x \in HeapCells /\ x \in Places /\ x # FreeList /\ m \in Memory
    BY <1>1, <1>2, PlacesAre DEF OneMore, Leads, Slots
  <1>4. p \in Places /\ q \in Places /\ m[p].next = q /\ m[q].prev = p
    BY <1>1, <1>2, <1>3 DEF Leads
  <1>5. p # x /\ q # x
    BY <1>1, <1>3 DEF At, Lacks
  <1>6. PICK r : r = list_add_tail(m, q, x)
    OBVIOUS
  <1>7. /\ r \in Memory
        /\ \A a \in Places : /\ r[a].next = IF a = p THEN x ELSE IF a = x THEN q ELSE m[a].next
                             /\ r[a].prev = IF a = q THEN x ELSE IF a = x THEN p ELSE m[a].prev
                             /\ r[a].len = m[a].len
    BY <1>3, <1>4, <1>5, <1>6, AddTailMem
  <1>8. LinkedAs(r, t)
    BY <1>1, <1>3, <1>7, InsertLinked
  <1>9. PICK h : h = list_add_head(m, p, x)
    OBVIOUS
  <1>10. /\ h \in Memory
         /\ \A a \in Places : /\ h[a].next = IF a = p THEN x ELSE IF a = x THEN q ELSE m[a].next
                              /\ h[a].prev = IF a = q THEN x ELSE IF a = x THEN p ELSE m[a].prev
                              /\ h[a].len = m[a].len
    BY <1>3, <1>4, <1>5, <1>9, AddHeadMem
  <1>11. LinkedAs(h, t)
    BY <1>1, <1>3, <1>10, InsertLinked
  <1> QED BY <1>1, <1>6, <1>8, <1>9, <1>11

\* A chunk whose node is unlinked and written over is out of the list.
LEMMA UnlinkLinked ==
    ASSUME NEW m, NEW s, NEW t, LinkedAs(m, t), NEW k, NEW c, Inserted(t, s, k, c)
    PROVE  LinkedAs(Unlinked(m, c.base), s)
  <1>1. PICK r, x : r = list_delete(m, c.base) /\ x = c.base
    OBVIOUS
  <1>2. LinkedAs(r, s) /\ Lacks(s, x)
    <2>1. LinkedAs(r, s) /\ Lacks(s, c.base)
      BY <1>1, RemoveLinked, Zenon
    <2> QED BY <1>1, <2>1
  <1>3. x \in HeapCells /\ x \in Places /\ r \in Memory
    <2>1. OneMore(t, s, k, c, Len(s))
      BY InsertedPlaces, Zenon
    <2> QED BY <1>1, <1>2, <2>1, PlacesAre DEF OneMore, Slots, LinkedAs
  <1>4. /\ Overwritten(r, x) \in Memory
        /\ \A a \in Places : a # x => Overwritten(r, x)[a] = r[a]
    BY <1>3, WriteMem
  <1>5. LinkedAs(Overwritten(r, x), s)
    BY <1>2, <1>3, <1>4, OtherLinked
  <1> QED BY <1>1, <1>5 DEF Unlinked

\* s is t with its i-th chunk and the next made one.
Joined(s, t, i) ==
    /\ s \in Seq(Slots) /\ t \in Seq(Slots) /\ Len(t) = Len(s) + 1 /\ i \in 1..Len(s)
    /\ \A j \in 1..(i - 1) : s[j] = t[j]
    /\ s[i] = Chunk(t[i].base, t[i].len + t[i + 1].len)
    /\ \A j \in (i + 1)..Len(s) : s[j] = t[j + 1]

LEMMA JoinLinked ==
    ASSUME NEW m, NEW t, LinkedAs(m, t), NEW s, NEW i, Joined(s, t, i)
    PROVE  LinkedAs(MergedBack(m, t[i].base, t[i + 1].base), s)
  <1>1. PICK n \in Nat : n = Len(s)
    BY LenProperties DEF Joined
  <1>2. /\ s \in Seq(Slots) /\ t \in Seq(Slots) /\ Len(t) = n + 1 /\ i \in 1..n
        /\ \A j \in 1..(i - 1) : s[j] = t[j]
        /\ s[i] = Chunk(t[i].base, t[i].len + t[i + 1].len)
        /\ \A j \in (i + 1)..n : s[j] = t[j + 1]
    BY <1>1 DEF Joined
  <1>3. PICK len : len = t[i].len + t[i + 1].len
    OBVIOUS
  <1>4. /\ i \in 1..(n + 1) /\ i + 1 \in 1..(n + 1)
        /\ t[i] \in Slots /\ t[i + 1] \in Slots /\ len \in Int
        /\ m[t[i].base].len = t[i].len /\ m[t[i + 1].base].len = t[i + 1].len
    <2>1. i \in 1..(n + 1) /\ i + 1 \in 1..(n + 1)
      BY <1>2
    <2>2. /\ t[i] \in Slots /\ t[i + 1] \in Slots
          /\ m[t[i].base].len = t[i].len /\ m[t[i + 1].base].len = t[i + 1].len
      BY <1>2, <2>1, ElementOfSeq DEF LinkedAs
    <2> QED BY <1>3, <2>1, <2>2 DEF Slots
  <1>5. PICK u : u = [t EXCEPT ![i] = Chunk(t[i].base, len)]
    OBVIOUS
  <1>6. Chunk(t[i].base, len) \in Slots
    BY <1>4 DEF Chunk, Slots
  <1>7. /\ u \in Seq(Slots) /\ Len(u) = n + 1
        /\ \A j \in 1..(n + 1) : u[j] = IF j = i THEN Chunk(t[i].base, len) ELSE t[j]
    BY <1>2, <1>4, <1>5, <1>6
  <1>8. LinkedAs(SetLen(m, t[i].base, len), u)
    <2>1. Resized(u, t, i, len)
      BY <1>2, <1>4, <1>7 DEF Resized
    <2> QED BY <2>1, ResizeLinked
  <1>9. Inserted(u, s, i, t[i + 1])
    <2>1. \A j \in 1..i : u[j] = s[j]
      <3>1. \A j \in 1..i : j \in 1..(n + 1) /\ (j = i \/ (j \in 1..(i - 1) /\ j # i))
        BY <1>2
      <3> QED BY <1>2, <1>3, <1>7, <3>1
    <2>2. u[i + 1] = t[i + 1]
      BY <1>2, <1>4, <1>7
    <2>3. \A j \in (i + 1)..n : u[j + 1] = s[j]
      <3>1. \A j \in (i + 1)..n : j + 1 \in 1..(n + 1) /\ j + 1 # i
        BY <1>2
      <3> QED BY <1>2, <1>7, <3>1
    <2> QED BY <1>1, <1>2, <1>7, <2>1, <2>2, <2>3 DEF Inserted
  <1>10. MergedBack(m, t[i].base, t[i + 1].base) = Unlinked(SetLen(m, t[i].base, len), t[i + 1].base)
    BY <1>3, <1>4 DEF MergedBack
  <1> QED BY <1>8, <1>9, <1>10, UnlinkLinked

-----------------------------------------------------------------------------
(* Walking the list *)

\* list_for_every comes to the chunks in order and back to the head.
LEMMA WalkMem ==
    ASSUME NEW m, NEW s, LinkedAs(m, s), NEW n, n = Len(s), NEW k \in 0..(n + 1)
    PROVE  Walk(m, FreeList, k) = At(s, k)
  <1> DEFINE Turns(f) == f = [j \in 0..k |-> IF j = 0 THEN FreeList ELSE m[f[j - 1]].next]
             op == CHOOSE f : Turns(f)
  <1>1. PlacesOf(s, n) /\ Leads(m, s, n)
    BY LinkedFacts, Zenon
  <1>2. /\ n \in Nat /\ k \in Nat /\ At(s, 0) = FreeList
        /\ \A j \in 1..k : j - 1 \in 0..k /\ m[At(s, j - 1)].next = At(s, j)
    <2>1. n \in Nat /\ k \in Nat /\ At(s, 0) = FreeList
      BY <1>1 DEF PlacesOf
    <2>2. ASSUME NEW j \in 1..k PROVE j - 1 \in 0..k /\ m[At(s, j - 1)].next = At(s, j)
      <3>1. j - 1 \in 0..n /\ (j - 1) + 1 = j /\ j - 1 \in 0..k
        BY <2>1
      <3> QED BY <1>1, <3>1 DEF Leads
    <2> QED BY <2>1, <2>2
  <1>3. \E f : Turns(f)
    <2> DEFINE g == [j \in 0..k |-> At(s, j)]
    <2>1. ASSUME NEW j \in 0..k
          PROVE  g[j] = IF j = 0 THEN FreeList ELSE m[g[j - 1]].next
      <3>1. j = 0 \/ j \in 1..k
        BY <1>2
      <3> QED BY <1>2, <3>1
    <2>2. g = [j \in 0..k |-> g[j]]
      OBVIOUS
    <2> HIDE DEF g
    <2>3. Turns(g)
      BY <2>1, <2>2 DEF Turns
    <2> HIDE DEF Turns
    <2> QED BY <2>3
  <1>4. Turns(op)
    <2> HIDE DEF Turns
    <2> QED BY <1>3, Zenon
  <1>5. Walk(m, FreeList, k) = op[k]
    BY Zenon DEF Walk, op, Turns
  <1> HIDE DEF op
  <1>6. op[0] = FreeList /\ \A j \in 1..k : op[j] = m[op[j - 1]].next
    <2>1. 0 \in 0..k /\ \A j \in 1..k : j \in 0..k /\ j # 0
      BY <1>2
    <2> QED BY <1>4, <2>1 DEF Turns
  <1> DEFINE T == {j \in 0..k : op[j] = At(s, j)}
  <1>7. 0..k \subseteq T
    <2>1. 0 \in T
      BY <1>2, <1>6
    <2>2. ASSUME NEW j \in 1..k, j - 1 \in T PROVE j \in T
      BY <1>2, <1>6, <2>2
    <2> HIDE DEF T
    <2> QED BY <1>2, <2>1, <2>2, UpTo
  <1>8. k \in 0..k
    BY <1>2
  <1> QED BY <1>5, <1>7, <1>8

\* list_length counts them.
LEMMA LengthMem ==
    ASSUME NEW m, NEW s, LinkedAs(m, s), NEW n, n = Len(s)
    PROVE  list_length(m, FreeList) = n
  <1> DEFINE Back(k) == /\ Walk(m, FreeList, k) = FreeList
                        /\ \A j \in 1..(k - 1) : Walk(m, FreeList, j) # FreeList
  <1>1. PlacesOf(s, n) /\ Leads(m, s, n)
    BY LinkedFacts, Zenon
  <1>2. /\ n \in Nat /\ Walk(m, FreeList, n + 1) = FreeList
        /\ \A k \in 1..n : Walk(m, FreeList, k) # FreeList
    <2>1. n \in Nat /\ n + 1 \in 0..(n + 1) /\ \A k \in 1..n : k \in 0..(n + 1)
      BY <1>1 DEF PlacesOf
    <2>2. \A k \in 0..(n + 1) : Walk(m, FreeList, k) = At(s, k)
      BY WalkMem
    <2>3. At(s, n + 1) = FreeList /\ \A k \in 1..n : At(s, k) # FreeList
      BY <1>1 DEF PlacesOf
    <2> QED BY <2>1, <2>2, <2>3
  <1>3. DOMAIN m = Places
    BY <1>1 DEF Leads, Memory
  <1>4. Cardinality(Places) \in Nat /\ n + 1 <= Cardinality(Places)
    <2> DEFINE f == [k \in 0..n |-> At(s, k)]
    <2>1. f \in Injection(0..n, Places)
      <3>1. \A k \in 0..n : At(s, k) \in Places
        <4>1. \A k \in 0..n : k \in 0..(n + 1)
          BY <1>2
        <4> QED BY <1>1, <4>1 DEF Leads
      <3>2. \A j, k \in 0..n : At(s, j) = At(s, k) => j = k
        BY <1>1 DEF Leads
      <3> QED BY <3>1, <3>2 DEF Injection, IsInjective
    <2>2. IsFiniteSet(Places)
      <3>1. IsFiniteSet(HeapCells)
        BY HeapSizes, FS_Interval DEF HeapCells
      <3> QED BY <3>1, FS_AddElement DEF Places
    <2>3. Cardinality(0..n) <= Cardinality(Places)
      <3> HIDE DEF f
      <3> QED BY <2>1, <2>2, FS_Injection DEF ExistsInjection
    <2>4. Cardinality(0..n) = n + 1
      BY <1>2, FS_Interval
    <2> QED BY <2>2, <2>3, <2>4, FS_CardinalityType
  <1>5. n + 1 \in 1..Cardinality(Places) /\ Back(n + 1)
    BY <1>2, <1>4
  <1>6. ASSUME NEW k \in 1..Cardinality(Places), Back(k) PROVE k = n + 1
    <2>1. CASE k <= n
      BY <1>2, <1>4, <1>6, <2>1
    <2>2. CASE k > n + 1
      <3>1. n + 1 \in 1..(k - 1)
        BY <1>2, <1>4, <2>2
      <3> QED BY <1>2, <1>6, <3>1
    <2> QED BY <1>2, <1>4, <2>1, <2>2
  <1>7. list_length(m, FreeList) = (CHOOSE k \in 1..Cardinality(Places) : Back(k)) - 1
    BY <1>3, Zenon DEF list_length, Back
  <1> HIDE DEF Back
  <1>8. (CHOOSE k \in 1..Cardinality(Places) : Back(k)) = n + 1
    BY <1>5, <1>6
  <1>9. (n + 1) - 1 = n
    BY <1>2
  <1> QED BY <1>7, <1>8, <1>9

\* A walk finds the first chunk of a set, at the least of its places, or ends
\* at the head.
LEMMA FirstOfIs ==
    ASSUME NEW m, NEW s, LinkedAs(m, s), NEW n, n = Len(s), NEW C, FreeList \notin C,
           NEW hits, hits = {i \in 1..n : s[i].base \in C}
    PROVE  FirstOf(m, C) = IF hits = {} THEN FreeList ELSE At(s, Min(hits))
  <1>1. PlacesOf(s, n)
    BY LinkedFacts, Zenon
  <1>2. \A k \in 1..n : k \in 0..(n + 1) /\ Walk(m, FreeList, k) = s[k].base
    <2>1. \A k \in 0..(n + 1) : Walk(m, FreeList, k) = At(s, k)
      BY WalkMem
    <2> QED BY <1>1, <2>1 DEF PlacesOf
  <1>3. list_length(m, FreeList) = n
    BY LengthMem
  <1>4. {k \in 1..list_length(m, FreeList) : Walk(m, FreeList, k) \in C} = hits
    BY <1>2, <1>3
  <1>5. FirstOf(m, C) = IF hits = {} THEN FreeList ELSE Walk(m, FreeList, Min(hits))
    BY <1>4, Zenon DEF FirstOf
  <1>6. CASE hits # {}
    <2>1. hits \subseteq Nat /\ hits \subseteq 1..n
      OBVIOUS
    <2>2. PICK k : k = Min(hits)
      OBVIOUS
    <2>3. k \in hits
      BY <1>6, <2>1, <2>2, MinIs
    <2>4. k \in 1..n
      BY <2>1, <2>3
    <2> QED BY <1>1, <1>2, <1>5, <1>6, <2>2, <2>4 DEF PlacesOf
  <1>7. CASE hits = {}
    BY <1>5, <1>7
  <1> QED BY <1>6, <1>7

-----------------------------------------------------------------------------
(* heap_insert_free_chunk on the pointers *)

LEMMA ChunksFit == Chunks \subseteq Slots /\ Seq(Chunks) \subseteq Seq(Slots)
  <1>1. ASSUME NEW c \in Chunks PROVE c \in Slots
    <2>1. c \in [base : Int, len : Int] /\ Base <= c.base /\ Node <= c.len
          /\ c.base + c.len <= Base + Length
      BY DEF Chunks
    <2>2. c.base \in HeapCells
      BY <2>1, HeapSizes DEF HeapCells, Node
    <2>3. c = [base |-> c.base, len |-> c.len]
      BY <2>1
    <2> QED BY <2>1, <2>2, <2>3 DEF Slots
  <1> QED BY <1>1, SeqMonotonic

\* What there is at the places of a list with a chunk spliced in.
Spliced(t, list, a, m, b, n) ==
    /\ t \in Seq(Chunks) /\ Len(t) = a + 1 + (n - b + 1)
    /\ \A i \in 1..a : t[i] = list[i]
    /\ t[a + 1] = m
    /\ \A i \in (a + 2)..(a + 1 + (n - b + 1)) : t[i] = list[i - a - 2 + b]

LEMMA SplicedIs ==
    ASSUME NEW list \in Seq(Chunks), NEW m \in Chunks, NEW n \in Int, n = Len(list),
           NEW a \in Int, NEW b \in Int, 0 <= a, a + 1 <= b, b <= n + 1,
           NEW t, t = Splice(list, a, m, b)
    PROVE  Spliced(t, list, a, m, b, n)
  <1> DEFINE all == Splice(list, a, m, b)
             len == a + 1 + (n - b + 1)
  <1>1. n \in Nat
    BY LenProperties
  <1>2. all \in Seq(Chunks)
    BY SpliceIs
  <1>3. Len(all) = len
    <2>1. Len(all) \in Nat /\ len \in Nat
      BY <1>1, <1>2, LenProperties
    <2>2. Len(all) <= len /\ len <= Len(all)
      BY SpliceIs
    <2> QED BY <2>1, <2>2
  <1>4. \A i \in 1..a : all[i] = list[i]
    BY SpliceIs
  <1>5. all[a + 1] = m
    BY SpliceIs
  <1>6. \A i \in (a + 2)..len : all[i] = list[i - a - 2 + b]
    BY SpliceIs
  <1>7. t = all
    OBVIOUS
  <1> HIDE DEF all
  <1> QED BY <1>2, <1>3, <1>4, <1>5, <1>6, <1>7 DEF Spliced

\* A chunk spliced in and nothing taken out.
LEMMA SpliceInserted ==
    ASSUME NEW list \in Seq(Chunks), NEW n \in Nat, n = Len(list), NEW k \in 0..n, NEW c \in Chunks
    PROVE  Inserted(Splice(list, k, c, k + 1), list, k, c)
  <1>1. PICK t : t = Splice(list, k, c, k + 1)
    OBVIOUS
  <1>2. k \in Int /\ k + 1 \in Int /\ n \in Int /\ 0 <= k /\ k + 1 <= k + 1 /\ k + 1 <= n + 1
        /\ k + 1 + (n - (k + 1) + 1) = n + 1
    OBVIOUS
  <1>3. PICK b : b = k + 1
    OBVIOUS
  <1>4. /\ t \in Seq(Chunks) /\ Len(t) = k + 1 + (n - b + 1)
        /\ \A i \in 1..k : t[i] = list[i]
        /\ t[k + 1] = c
        /\ \A i \in (k + 2)..(k + 1 + (n - b + 1)) : t[i] = list[i - k - 2 + b]
    <2>1. b \in Int /\ 0 <= k /\ k + 1 <= b /\ b <= n + 1
      BY <1>2, <1>3
    <2>2. Spliced(t, list, k, c, b, n)
      BY <1>1, <1>2, <1>3, <2>1, SplicedIs, Zenon
    <2> QED BY <2>2 DEF Spliced
  <1>5. ASSUME NEW j \in (k + 1)..n PROVE t[j + 1] = list[j]
    <2>1. j + 1 \in (k + 2)..(k + 1 + (n - b + 1)) /\ (j + 1) - k - 2 + b = j
      BY <1>3
    <2> QED BY <1>4, <2>1
  <1>6. Len(t) = n + 1
    BY <1>3, <1>4
  <1> QED BY <1>1, <1>4, <1>5, <1>6, ChunksFit DEF Inserted

\* One of its neighbours joined with the chunk that is spliced in.
LEMMA SpliceJoined ==
    ASSUME NEW list \in Seq(Chunks), NEW n \in Nat, n = Len(list), NEW c \in Chunks,
           NEW a \in 0..n, NEW b \in (a + 1)..(n + 1), NEW m \in Chunks
    PROVE  /\ a > 0 /\ m = Chunk(list[a].base, list[a].len + c.len) =>
                 Joined(Splice(list, a - 1, m, b), Splice(list, a, c, b), a)
           /\ b <= n /\ m = Chunk(c.base, c.len + list[b].len) =>
                 Joined(Splice(list, a, m, b + 1), Splice(list, a, c, b), a + 1)
  <1>1. PICK t : t = Splice(list, a, c, b)
    OBVIOUS
  <1>2. /\ t \in Seq(Chunks) /\ Len(t) = a + 1 + (n - b + 1)
        /\ \A i \in 1..a : t[i] = list[i]
        /\ t[a + 1] = c
        /\ \A i \in (a + 2)..(a + 1 + (n - b + 1)) : t[i] = list[i - a - 2 + b]
    <2>1. a \in Int /\ b \in Int /\ n \in Int /\ 0 <= a /\ a + 1 <= b /\ b <= n + 1
      OBVIOUS
    <2>2. Spliced(t, list, a, c, b, n)
      BY <1>1, <2>1, SplicedIs, Zenon
    <2> QED BY <2>2 DEF Spliced
  <1>3. ASSUME a > 0, m = Chunk(list[a].base, list[a].len + c.len)
        PROVE  Joined(Splice(list, a - 1, m, b), t, a)
    <2>1. PICK p \in Int : p = a - 1
      OBVIOUS
    <2>2. PICK s : s = Splice(list, p, m, b)
      OBVIOUS
    <2>3. /\ s \in Seq(Chunks) /\ Len(s) = p + 1 + (n - b + 1)
          /\ \A i \in 1..p : s[i] = list[i]
          /\ s[p + 1] = m
          /\ \A i \in (p + 2)..(p + 1 + (n - b + 1)) : s[i] = list[i - p - 2 + b]
      <3>1. b \in Int /\ n \in Int /\ 0 <= p /\ p + 1 <= b /\ b <= n + 1
        BY <1>3, <2>1
      <3>2. Spliced(s, list, p, m, b, n)
        BY <2>1, <2>2, <3>1, SplicedIs, Zenon
      <3> QED BY <3>2 DEF Spliced
    <2>4. Len(t) = Len(s) + 1 /\ a \in 1..Len(s)
      BY <1>2, <1>3, <2>1, <2>3
    <2>5. \A j \in 1..(a - 1) : s[j] = t[j]
      <3>1. \A j \in 1..(a - 1) : j \in 1..p /\ j \in 1..a
        BY <2>1
      <3> QED BY <1>2, <2>3, <3>1
    <2>6. s[a] = Chunk(t[a].base, t[a].len + t[a + 1].len)
      <3>1. a \in 1..a /\ p + 1 = a
        BY <1>3, <2>1
      <3> QED BY <1>2, <1>3, <2>3, <3>1
    <2>7. ASSUME NEW j \in (a + 1)..(p + 1 + (n - b + 1)) PROVE s[j] = t[j + 1]
      <3>1. /\ j \in (p + 2)..(p + 1 + (n - b + 1))
            /\ j + 1 \in (a + 2)..(a + 1 + (n - b + 1))
            /\ j - p - 2 + b = (j + 1) - a - 2 + b
        BY <2>1
      <3> QED BY <1>2, <2>3, <3>1
    <2>8. Joined(s, t, a)
      BY <1>2, <2>3, <2>4, <2>5, <2>6, <2>7, ChunksFit DEF Joined
    <2> QED BY <2>1, <2>2, <2>8
  <1>4. ASSUME b <= n, m = Chunk(c.base, c.len + list[b].len)
        PROVE  Joined(Splice(list, a, m, b + 1), t, a + 1)
    <2>1. PICK q \in Int : q = b + 1
      OBVIOUS
    <2>2. PICK s : s = Splice(list, a, m, q)
      OBVIOUS
    <2>3. /\ s \in Seq(Chunks) /\ Len(s) = a + 1 + (n - q + 1)
          /\ \A i \in 1..a : s[i] = list[i]
          /\ s[a + 1] = m
          /\ \A i \in (a + 2)..(a + 1 + (n - q + 1)) : s[i] = list[i - a - 2 + q]
      <3>1. a \in Int /\ n \in Int /\ 0 <= a /\ a + 1 <= q /\ q <= n + 1
        BY <1>4, <2>1
      <3>2. Spliced(s, list, a, m, q, n)
        BY <2>1, <2>2, <3>1, SplicedIs, Zenon
      <3> QED BY <3>2 DEF Spliced
    <2>4. Len(t) = Len(s) + 1 /\ a + 1 \in 1..Len(s)
      BY <1>2, <1>4, <2>1, <2>3
    <2>5. \A j \in 1..((a + 1) - 1) : s[j] = t[j]
      <3>1. (a + 1) - 1 = a
        OBVIOUS
      <3> QED BY <1>2, <2>3, <3>1
    <2>6. s[a + 1] = Chunk(t[a + 1].base, t[a + 1].len + t[(a + 1) + 1].len)
      <3>1. (a + 1) + 1 = a + 2 /\ a + 2 \in (a + 2)..(a + 1 + (n - b + 1)) /\ (a + 2) - a - 2 + b = b
        BY <1>4
      <3>2. t[a + 2] = list[b]
        BY <1>2, <3>1
      <3> QED BY <1>2, <1>4, <2>3, <3>1, <3>2
    <2>7. ASSUME NEW j \in ((a + 1) + 1)..(a + 1 + (n - q + 1)) PROVE s[j] = t[j + 1]
      <3>1. /\ j \in (a + 2)..(a + 1 + (n - q + 1))
            /\ j + 1 \in (a + 2)..(a + 1 + (n - b + 1))
            /\ j - a - 2 + q = (j + 1) - a - 2 + b
        BY <2>1
      <3> QED BY <1>2, <2>3, <3>1
    <2>8. Joined(s, t, a + 1)
      BY <1>2, <2>3, <2>4, <2>5, <2>6, <2>7, ChunksFit DEF Joined
    <2> QED BY <2>1, <2>2, <2>8
  <1> QED BY <1>1, <1>3, <1>4

\* The walk ends at the chunk that Before counts up to.
LEMMA NextIs ==
    ASSUME NEW m, NEW list, LinkedAs(m, list), NEW c
    PROVE  FirstOf(m, {d \in HeapCells : c.base < d}) = At(list, Before(list, c) + 1)
  <1>1. PICK n : n = Len(list)
    OBVIOUS
  <1>2. PlacesOf(list, n)
    BY <1>1, LinkedFacts, Zenon
  <1> DEFINE C == {d \in HeapCells : c.base < d}
             Above == {i \in 1..n : c.base < list[i].base}
  <1>3. FreeList \notin C
    BY PlacesAre
  <1>4. Above = {i \in 1..n : list[i].base \in C}
    BY <1>2 DEF PlacesOf
  <1> HIDE DEF C
  <1>5. FirstOf(m, C) = IF Above = {} THEN FreeList ELSE At(list, Min(Above))
    <2> HIDE DEF Above
    <2> QED BY <1>1, <1>3, <1>4, FirstOfIs
  <1>6. Before(list, c) = IF Above = {} THEN n ELSE Min(Above) - 1
    <2>1. SelectInSeq(list, LAMBDA d : c.base < d.base) = IF Above # {} THEN Min(Above) ELSE 0
      BY <1>1 DEF SelectInSeq
    <2>2. Above # {} => Min(Above) \in 1..n
      <3>1. Above \subseteq Nat /\ Above \subseteq 1..n
        OBVIOUS
      <3> HIDE DEF Above
      <3> QED BY <3>1, MinIs
    <2> HIDE DEF Above
    <2> QED BY <1>1, <2>1, <2>2 DEF Before
  <1>7. ASSUME Above # {} PROVE (Min(Above) - 1) + 1 = Min(Above)
    <2>1. Above \subseteq Nat
      OBVIOUS
    <2>2. PICK k : k = Min(Above)
      OBVIOUS
    <2> HIDE DEF Above
    <2>3. k \in Nat
      BY <1>7, <2>1, <2>2, MinIs
    <2> QED BY <2>2, <2>3
  <1> HIDE DEF Above
  <1> QED BY <1>2, <1>5, <1>6, <1>7 DEF C, PlacesOf

\* A chunk that shares no word with the list's is at no address of theirs.
LEMMA LacksIs ==
    ASSUME NEW list, Good(list), NEW c \in Chunks, \A w : ~(w \in Cells(c) /\ w \in CellsOf(list))
    PROVE  Lacks(list, c.base) /\ c.base \in HeapCells /\ c.base \in Places
  <1>1. c.base \in Cells(c) /\ c.base \in HeapCells
    <2>1. /\ c.base \in Int /\ c.len \in Int /\ Base <= c.base /\ Node <= c.len
          /\ c.base + c.len <= Base + Length /\ c.base < EndOf(c)
          /\ \A w : w \in Cells(c) <=> w \in Int /\ c.base <= w /\ w < EndOf(c)
      BY ChunkFacts
    <2> QED BY <2>1, HeapSizes DEF HeapCells, Node
  <1>2. ASSUME NEW i \in 1..Len(list), list[i].base = c.base PROVE FALSE
    <2>1. list[i] \in Chunks
      BY GoodFacts
    <2>2. list[i].base \in Cells(list[i])
      <3>1. /\ list[i].base \in Int /\ list[i].base < EndOf(list[i])
            /\ \A w : w \in Cells(list[i]) <=> w \in Int /\ list[i].base <= w /\ w < EndOf(list[i])
        BY <2>1, ChunkFacts
      <3> QED BY <3>1
    <2>3. c.base \in CellsOf(list)
      BY <1>2, <2>2, CellsOfIs
    <2> QED BY <1>1, <2>3
  <1> QED BY <1>1, <1>2, PlacesAre DEF Lacks

\* heap_create_free_chunk and heap_insert_free_chunk do on the pointers what
\* InsertFreeChunk does on the sequence.
LEMMA InsertMemLinked ==
    ASSUME NEW m, NEW list, Good(list), LinkedAs(m, list), NEW c \in Chunks,
           \A w : ~(w \in Cells(c) /\ w \in CellsOf(list))
    PROVE  LinkedAs(InsertMem(m, c.base, c.len), InsertFreeChunk(list, c))
  <1> DEFINE x     == c.base
             m0    == SetLen(m, x, c.len)
             next  == FirstOf(m0, {d \in HeapCells : x < d})
             m1    == list_add_tail(m0, next, x)
             last  == list_prev(m1, FreeList, x)
             m2    == IF last # NULL /\ last + m1[last].len = x THEN MergedBack(m1, last, x) ELSE m1
             chunk == IF last # NULL /\ last + m1[last].len = x THEN last ELSE x
  <1>1. InsertMem(m, x, c.len) =
            IF next # FreeList /\ chunk + m2[chunk].len = next THEN MergedBack(m2, chunk, next) ELSE m2
    BY DEF InsertMem
  <1>2. PICK n \in Nat : n = Len(list)
    BY GoodFacts
  <1>3. PICK k : k = Before(list, c)
    OBVIOUS
  <1>4. /\ k \in 0..n
        /\ list \in Seq(Chunks) /\ \A i \in 1..n : list[i] \in Chunks
    BY <1>2, <1>3, BeforeIs, GoodFacts
  <1>5. /\ c.base \in Int /\ c.len \in Int /\ Base <= c.base /\ Node <= c.len
        /\ c.base + c.len <= Base + Length
        /\ \A i \in 1..n : /\ list[i].base \in Int /\ list[i].len \in Int /\ Base <= list[i].base
                           /\ Node <= list[i].len /\ list[i].base + list[i].len <= Base + Length
    BY <1>4, ChunkFacts
  <1>6. LinkedAs(m0, list) /\ m0[x].len = c.len /\ Lacks(list, x)
    <2>1. Lacks(list, x) /\ x \in HeapCells /\ x \in Places
      BY LacksIs
    <2>2. m \in Memory
      BY DEF LinkedAs
    <2>3. /\ m0 \in Memory
          /\ \A a \in Places : /\ m0[a].next = m[a].next /\ m0[a].prev = m[a].prev
                               /\ m0[a].len = IF a = x THEN c.len ELSE m[a].len
      <3>1. PICK len \in Int, b \in Places : len = c.len /\ b = x
        BY <1>5, <2>1
      <3>2. /\ SetLen(m, b, len) \in Memory
            /\ \A a \in Places : /\ SetLen(m, b, len)[a].next = m[a].next
                                 /\ SetLen(m, b, len)[a].prev = m[a].prev
                                 /\ SetLen(m, b, len)[a].len = IF a = b THEN len ELSE m[a].len
        BY <2>2, WriteMem
      <3> QED BY <3>1, <3>2
    <2> HIDE DEF m0, x
    <2>4. LinkedAs(m0, list)
      BY <2>1, <2>3, OtherLinked
    <2> QED BY <2>1, <2>3, <2>4
  <1>7. next = At(list, k + 1)
    <2> HIDE DEF m0
    <2> QED BY <1>3, <1>6, NextIs
  <1> HIDE DEF m0, next
  <1>8. PICK t : t = Splice(list, k, c, k + 1)
    OBVIOUS
  <1>9. Inserted(t, list, k, c)
    BY <1>2, <1>4, <1>8, SpliceInserted
  <1>10. LinkedAs(m1, t)
    BY <1>6, <1>7, <1>9, AddTailLinked
  <1> HIDE DEF m1
  <1>11. PlacesOf(list, n) /\ OneMore(t, list, k, c, n)
    BY <1>2, <1>6, <1>9, LinkedFacts, InsertedPlaces, Zenon
  <1>12. Len(t) = n + 1 /\ k + 1 \in 1..(n + 1) /\ t[k + 1] = c /\ At(t, k) = At(list, k)
         /\ \A i \in 1..k : i \in 1..(n + 1) /\ t[i] = list[i]
    BY <1>4, <1>9, <1>11, <1>2 DEF Inserted, OneMore
  <1>13. /\ m1[x].prev = At(list, k)
         /\ \A i \in 1..k : m1[list[i].base].len = list[i].len
    <2>1. /\ \A i \in 1..(n + 1) : m1[t[i].base].prev = At(t, i - 1)
          /\ \A i \in 1..(n + 1) : m1[t[i].base].len = t[i].len
      <3>1. Leads(m1, t, n + 1)
        BY <1>10, <1>12, LinkedFacts
      <3> QED BY <3>1 DEF Leads
    <2>2. (k + 1) - 1 = k
      BY <1>4
    <2>3. m1[x].prev = At(list, k)
      BY <1>12, <2>1, <2>2
    <2> QED BY <1>12, <2>1, <2>3
  <1>14. \A i \in 1..n : At(list, i) = list[i].base /\ list[i].base # FreeList /\ list[i].base # NULL
    BY <1>11 DEF PlacesOf
  <1>15. ToLast(list, k, c) <=> last # NULL /\ last + m1[last].len = x
    <2>1. last = IF At(list, k) # FreeList THEN At(list, k) ELSE NULL
      BY <1>13 DEF list_prev
    <2>2. CASE k = 0
      <3>1. last = NULL
        BY <1>11, <2>1, <2>2 DEF PlacesOf
      <3> QED BY <2>2, <3>1 DEF ToLast
    <2>3. CASE k # 0
      <3>1. k \in 1..n /\ k \in 1..k /\ k > 0
        BY <1>4, <2>3
      <3>2. last = list[k].base /\ last # NULL /\ m1[last].len = list[k].len
        BY <1>13, <1>14, <2>1, <3>1
      <3> QED BY <3>1, <3>2 DEF ToLast, Touch
    <2> QED BY <2>2, <2>3
  <1>16. ToLast(list, k, c) => k \in 1..n /\ last = list[k].base
    <2>1. ASSUME ToLast(list, k, c) PROVE k \in 1..n /\ last = list[k].base
      <3>1. k \in 1..n
        BY <1>4, <2>1 DEF ToLast
      <3> QED BY <1>13, <1>14, <3>1 DEF list_prev
    <2> QED BY <2>1
  <1> HIDE DEF last
  <1>17. PICK a, d : /\ a = IF ToLast(list, k, c) THEN k - 1 ELSE k
                     /\ d = IF ToLast(list, k, c) THEN Chunk(list[k].base, list[k].len + c.len) ELSE c
    OBVIOUS
  <1>18. d \in Chunks /\ d.base + d.len = c.base + c.len /\ chunk = d.base /\ a \in 0..n /\ k + 1 \in (a + 1)..(n + 1)
    <2>1. CASE ToLast(list, k, c)
      <3>1. k \in 1..n /\ list[k].base + list[k].len = c.base
        BY <1>16, <2>1 DEF ToLast, Touch
      <3>2. PICK p, q \in Int : p = list[k].base /\ q = list[k].len + c.len
        BY <1>5, <3>1
      <3>3. Base <= p /\ Node <= q /\ p + q = c.base + c.len /\ p + q <= Base + Length /\ p \in Int
        BY <1>5, <3>1, <3>2, HeapSizes DEF Node
      <3>4. d = Chunk(p, q)
        BY <1>17, <2>1, <3>2
      <3>5. d \in Chunks /\ d.base = p /\ d.len = q
        BY <3>3, <3>4, ChunkIs DEF Chunk
      <3>6. chunk = p
        BY <1>15, <1>16, <2>1, <3>2
      <3>7. a \in 0..n /\ k + 1 \in (a + 1)..(n + 1)
        BY <1>17, <2>1, <3>1
      <3> QED BY <3>3, <3>5, <3>6, <3>7
    <2>2. CASE ~ToLast(list, k, c)
      BY <1>4, <1>15, <1>17, <2>2
    <2> QED BY <2>1, <2>2
  <1>19. PICK s : s = Splice(list, a, d, k + 1)
    OBVIOUS
  <1>20. LinkedAs(m2, s)
    <2>1. CASE ToLast(list, k, c)
      <3>1. m2 = MergedBack(m1, last, x)
        BY <1>15, <2>1
      <3>2. k \in 0..n /\ k + 1 \in (k + 1)..(n + 1) /\ k > 0 /\ k \in 1..k
        BY <1>4, <1>16, <2>1
      <3>3. Joined(s, t, k)
        BY <1>2, <1>4, <1>8, <1>17, <1>18, <1>19, <2>1, <3>2, SpliceJoined
      <3>4. LinkedAs(MergedBack(m1, t[k].base, t[k + 1].base), s)
        BY <1>10, <3>3, JoinLinked
      <3>5. t[k].base = last /\ t[k + 1].base = x
        BY <1>12, <1>16, <2>1, <3>2
      <3> QED BY <3>1, <3>4, <3>5
    <2>2. CASE ~ToLast(list, k, c)
      <3>1. m2 = m1 /\ s = t
        BY <1>8, <1>15, <1>17, <1>19, <2>2
      <3> QED BY <1>10, <3>1
    <2> QED BY <2>1, <2>2
  <1> HIDE DEF m2, chunk
  <1>21. Spliced(s, list, a, d, k + 1, n)
    <2>1. a \in Int /\ k + 1 \in Int /\ n \in Int /\ 0 <= a /\ a + 1 <= k + 1 /\ k + 1 <= n + 1
      BY <1>4, <1>18
    <2> QED BY <1>2, <1>4, <1>18, <1>19, <2>1, SplicedIs
  <1>22. m2[chunk].len = d.len
    <2>1. a + 1 \in 1..Len(s) /\ s[a + 1] = d
      BY <1>4, <1>18, <1>21 DEF Spliced
    <2>2. m2[s[a + 1].base].len = s[a + 1].len
      BY <1>20, <2>1 DEF LinkedAs
    <2> QED BY <1>18, <2>1, <2>2
  <1>23. ToNext(list, k, c) <=> next # FreeList /\ chunk + m2[chunk].len = next
    <2>1. CASE k = n
      <3>1. next = FreeList
        BY <1>7, <1>11, <2>1 DEF PlacesOf
      <3> QED BY <1>2, <2>1, <3>1 DEF ToNext
    <2>2. CASE k # n
      <3>1. k + 1 \in 1..n /\ k < n
        BY <1>4, <2>2
      <3>2. next = list[k + 1].base /\ next # FreeList
        BY <1>7, <1>14, <3>1
      <3>3. chunk + m2[chunk].len = c.base + c.len
        BY <1>18, <1>22
      <3> QED BY <1>2, <3>1, <3>2, <3>3 DEF ToNext, Touch
    <2> QED BY <2>1, <2>2
  <1>24. CASE ToNext(list, k, c)
    <2>1. k + 1 \in 1..n /\ k < n /\ c.base + c.len = list[k + 1].base
      BY <1>2, <1>4, <1>24 DEF ToNext, Touch
    <2>2. PICK e : e = Chunk(d.base, d.len + list[k + 1].len)
      OBVIOUS
    <2>3. d.base \in Int /\ d.len \in Int /\ Base <= d.base /\ Node <= d.len
      BY <1>18, ChunkFacts
    <2>4. e \in Chunks
      <3>1. PICK p \in Int, q \in Int : p = d.base /\ q = d.len + list[k + 1].len
        BY <1>5, <2>1, <2>3
      <3>2. Base <= p /\ Node <= q /\ p + q <= Base + Length
        BY <1>5, <1>18, <2>1, <2>3, <3>1 DEF Node
      <3> QED BY <2>2, <3>1, <3>2, ChunkIs
    <2>5. Joined(Splice(list, a, e, (k + 1) + 1), s, a + 1)
      BY <1>2, <1>4, <1>18, <1>19, <2>1, <2>2, <2>4, SpliceJoined
    <2>6. LinkedAs(MergedBack(m2, s[a + 1].base, s[(a + 1) + 1].base), Splice(list, a, e, (k + 1) + 1))
      BY <1>20, <2>5, JoinLinked
    <2>7. s[a + 1].base = chunk /\ s[(a + 1) + 1].base = next
      <3>1. (a + 1) + 1 \in (a + 2)..(a + 1 + (n - (k + 1) + 1)) /\ ((a + 1) + 1) - a - 2 + (k + 1) = k + 1
        BY <1>4, <1>18, <2>1
      <3>2. s[(a + 1) + 1] = list[k + 1] /\ s[a + 1] = d
        BY <1>21, <3>1 DEF Spliced
      <3> QED BY <1>7, <1>14, <1>18, <2>1, <3>2
    <2>8. e = Merged(list, k, c)
      <3>1. CASE ToLast(list, k, c)
        <4>1. d.base = list[k].base /\ d.len = list[k].len + c.len /\ k \in 1..n
          BY <1>16, <1>17, <3>1 DEF Chunk
        <4>2. d.len + list[k + 1].len = c.len + list[k].len + list[k + 1].len
          BY <1>5, <2>1, <4>1
        <4> QED BY <1>24, <2>2, <3>1, <4>1, <4>2 DEF Merged
      <3>2. CASE ~ToLast(list, k, c)
        <4>1. d.len + list[k + 1].len = c.len + 0 + list[k + 1].len /\ d = c
          BY <1>5, <1>17, <2>1, <3>2
        <4> QED BY <1>24, <2>2, <3>2, <4>1 DEF Merged
      <3> QED BY <3>1, <3>2
    <2>9. InsertFreeChunk(list, c) = Splice(list, a, e, (k + 1) + 1)
      <3>1. (k + 1) + 1 = k + 2
        BY <1>4
      <3> QED BY <1>3, <1>17, <1>24, <2>8, <3>1 DEF InsertFreeChunk, Splice, Merged
    <2> QED BY <1>1, <1>23, <1>24, <2>6, <2>7, <2>9
  <1>25. CASE ~ToNext(list, k, c)
    <2>1. d = Merged(list, k, c)
      <3>1. CASE ToLast(list, k, c)
        <4>1. k \in 1..n
          BY <1>16, <3>1
        <4>2. list[k].len + c.len = c.len + list[k].len + 0
          BY <1>5, <4>1
        <4> QED BY <1>17, <1>25, <3>1, <4>2 DEF Merged
      <3>2. CASE ~ToLast(list, k, c)
        <4>1. c.len = c.len + 0 + 0 /\ c = Chunk(c.base, c.len)
          BY <1>5, ChunkFacts
        <4> QED BY <1>17, <1>25, <3>2, <4>1 DEF Merged
      <3> QED BY <3>1, <3>2
    <2>2. InsertFreeChunk(list, c) = s
      BY <1>3, <1>17, <1>19, <1>25, <2>1 DEF InsertFreeChunk, Splice, Merged
    <2> QED BY <1>1, <1>20, <1>23, <1>25, <2>2
  <1> QED BY <1>24, <1>25

-----------------------------------------------------------------------------
(* miniheap_alloc on the pointers *)

LEMMA RemoveAtIs ==
    ASSUME NEW list \in Seq(Slots), NEW n \in Nat, n = Len(list), NEW i \in 1..n
    PROVE  Inserted(list, RemoveAt(list, i), i - 1, list[i])
  <1> DEFINE front == SubSeq(list, 1, i - 1)
             back  == SubSeq(list, i + 1, n)
             all   == front \o back
  <1>1. \A j \in 1..n : list[j] \in Slots
    BY ElementOfSeq
  <1>2. /\ front \in Seq(Slots) /\ Len(front) = i - 1
        /\ \A j \in 1..(i - 1) : front[j] = list[j]
    <2>1. PICK k \in Int : k = i - 1
      OBVIOUS
    <2>2. 0 <= k /\ k <= n /\ \A j \in 1..k : list[j] \in Slots
      BY <1>1, <2>1
    <2>3. /\ SubSeq(list, 1, k) \in Seq(Slots) /\ Len(SubSeq(list, 1, k)) = IF 1 <= k THEN k - 1 + 1 ELSE 0
          /\ \A j \in 1..(k - 1 + 1) : SubSeq(list, 1, k)[j] = list[1 + j - 1]
      BY <2>2, SubSeqProperties
    <2>4. \A j \in 1..k : j \in 1..(k - 1 + 1) /\ 1 + j - 1 = j
      OBVIOUS
    <2>5. Len(SubSeq(list, 1, k)) = k
      BY <2>2, <2>3
    <2> QED BY <2>1, <2>3, <2>4, <2>5
  <1>3. /\ back \in Seq(Slots) /\ Len(back) = n - i
        /\ \A j \in 1..(n - i) : back[j] = list[i + j]
    <2>1. PICK k \in Int : k = i + 1
      OBVIOUS
    <2>2. 1 <= k /\ k <= n + 1 /\ \A j \in k..n : list[j] \in Slots
      BY <1>1, <2>1
    <2>3. /\ SubSeq(list, k, n) \in Seq(Slots) /\ Len(SubSeq(list, k, n)) = IF k <= n THEN n - k + 1 ELSE 0
          /\ \A j \in 1..(n - k + 1) : SubSeq(list, k, n)[j] = list[k + j - 1]
      BY <2>2, SubSeqProperties
    <2>4. \A j \in 1..(n - i) : j \in 1..(n - k + 1) /\ k + j - 1 = i + j
      BY <2>1
    <2>5. Len(SubSeq(list, k, n)) = n - i
      BY <2>1, <2>2, <2>3
    <2> QED BY <2>1, <2>3, <2>4, <2>5
  <1>4. RemoveAt(list, i) = all
    BY DEF RemoveAt
  <1> HIDE DEF front, back
  <1>5. /\ all \in Seq(Slots) /\ Len(all) = (i - 1) + (n - i)
        /\ \A j \in 1..((i - 1) + (n - i)) : all[j] = IF j <= i - 1 THEN front[j] ELSE back[j - (i - 1)]
    <2>1. /\ all \in Seq(Slots) /\ Len(all) = Len(front) + Len(back)
          /\ \A j \in 1..(Len(front) + Len(back)) :
                all[j] = IF j <= Len(front) THEN front[j] ELSE back[j - Len(front)]
      BY <1>2, <1>3, ConcatProperties
    <2> QED BY <1>2, <1>3, <2>1
  <1> HIDE DEF all
  <1>6. Len(all) \in Nat /\ Len(list) = Len(all) + 1 /\ i - 1 \in 0..Len(all) /\ (i - 1) + 1 = i
    BY <1>5
  <1>7. ASSUME NEW j \in 1..(i - 1) PROVE list[j] = all[j]
    <2>1. j \in 1..((i - 1) + (n - i)) /\ j <= i - 1
      OBVIOUS
    <2> QED BY <1>2, <1>5, <2>1
  <1>8. ASSUME NEW j \in ((i - 1) + 1)..((i - 1) + (n - i)) PROVE list[j + 1] = all[j]
    <2>1. /\ j \in 1..((i - 1) + (n - i)) /\ ~(j <= i - 1)
          /\ j - (i - 1) \in 1..(n - i) /\ i + (j - (i - 1)) = j + 1
      OBVIOUS
    <2> QED BY <1>3, <1>5, <2>1
  <1> QED BY <1>4, <1>5, <1>6, <1>7, <1>8 DEF Inserted

\* The walk comes to the first chunk that is large enough, as FirstFit does.
LEMMA FoundIs ==
    ASSUME NEW m, NEW list, LinkedAs(m, list), NEW size, NEW i, i = FirstFit(list, size)
    PROVE  /\ i # 0 => i \in 1..Len(list) /\ Found(m, size) = list[i].base /\ Found(m, size) # FreeList
           /\ i = 0 => Found(m, size) = FreeList
  <1>1. PICK n : n = Len(list)
    OBVIOUS
  <1>2. PlacesOf(list, n) /\ Leads(m, list, n)
    BY <1>1, LinkedFacts, Zenon
  <1> DEFINE C == {d \in HeapCells : m[d].len >= size}
             hits == {j \in 1..n : list[j].len >= size}
  <1>3. FreeList \notin C
    BY PlacesAre
  <1>4. hits = {j \in 1..n : list[j].base \in C}
    BY <1>2 DEF PlacesOf, Leads
  <1>5. Found(m, size) = FirstOf(m, C)
    BY DEF Found
  <1>6. i = IF hits # {} THEN Min(hits) ELSE 0
    BY <1>1 DEF FirstFit, SelectInSeq
  <1>7. hits \subseteq Nat /\ hits \subseteq 1..n
    OBVIOUS
  <1> HIDE DEF C, hits
  <1>8. FirstOf(m, C) = IF hits = {} THEN FreeList ELSE At(list, Min(hits))
    BY <1>1, <1>3, <1>4, FirstOfIs
  <1>9. CASE hits = {}
    BY <1>5, <1>6, <1>8, <1>9
  <1>10. CASE hits # {}
    <2>1. i = Min(hits) /\ i \in 1..n
      <3>1. PICK k : k = Min(hits)
        OBVIOUS
      <3>2. k \in 1..n
        BY <1>7, <1>10, <3>1, MinIs
      <3> QED BY <1>6, <1>10, <3>1, <3>2
    <2>2. At(list, i) = list[i].base /\ list[i].base # FreeList /\ i # 0
      BY <1>2, <2>1 DEF PlacesOf
    <2> QED BY <1>1, <1>5, <1>8, <1>10, <2>1, <2>2
  <1> QED BY <1>9, <1>10

\* No other chunk of the list starts within one of them.
LEMMA ApartInList ==
    ASSUME NEW list, Good(list), NEW n \in Nat, n = Len(list), NEW i \in 1..n, NEW a \in Int,
           list[i].base <= a, a < EndOf(list[i])
    PROVE  \A j \in 1..n : j # i => list[j].base # a
  <1>1. /\ \A j \in 1..n : list[j] \in Chunks
        /\ \A j, k \in 1..n : j < k => EndOf(list[j]) < list[k].base
    BY GoodFacts
  <1>2. \A j \in 1..n : list[j].base \in Int /\ EndOf(list[j]) \in Int /\ list[j].base < EndOf(list[j])
    BY <1>1, ChunkFacts
  <1>3. ASSUME NEW j \in 1..n, j # i, list[j].base = a PROVE FALSE
    <2>1. CASE j < i
      <3>1. EndOf(list[j]) < list[i].base
        BY <1>1, <2>1
      <3> QED BY <1>2, <1>3, <3>1
    <2>2. CASE i < j
      <3>1. EndOf(list[i]) < list[j].base
        BY <1>1, <2>2
      <3> QED BY <1>2, <1>3, <3>1
    <2> QED BY <1>3, <2>1, <2>2
  <1> QED BY <1>3

\* What it takes out, and what is split off put where the chunk was.
LEMMA AllocMemLinked ==
    ASSUME NEW m, NEW list, Good(list), LinkedAs(m, list), NEW size \in Int, Node <= size,
           NEW i, i = FirstFit(list, size), i # 0
    PROVE  LinkedAs(AllocMem(m, size), Rest(list, i, size))
  <1>1. PICK n \in Nat : n = Len(list)
    BY GoodFacts
  <1>2. PICK x : x = list[i].base
    OBVIOUS
  <1>3. i \in 1..n /\ Found(m, size) = x
    BY <1>1, <1>2, FoundIs
  <1>4. PICK c : c = list[i]
    OBVIOUS
  <1>5. /\ c \in Chunks /\ x = c.base /\ list \in Seq(Chunks) /\ list \in Seq(Slots)
        /\ \A j \in 1..n : list[j] \in Chunks
    BY <1>1, <1>2, <1>3, <1>4, GoodFacts, ChunksFit
  <1>6. /\ c.base \in Int /\ c.len \in Int /\ Base <= c.base /\ Node <= c.len
        /\ c.base + c.len <= Base + Length /\ EndOf(c) = c.base + c.len
        /\ c = Chunk(c.base, c.len)
    BY <1>5, ChunkFacts
  <1>7. PlacesOf(list, n) /\ Leads(m, list, n)
    BY <1>1, LinkedFacts, Zenon
  <1>8. /\ m \in Memory /\ x \in Places /\ x \in HeapCells /\ x # FreeList
        /\ m[x].next = At(list, i + 1) /\ m[x].len = c.len
    BY <1>2, <1>3, <1>4, <1>7 DEF PlacesOf, Leads
  <1>9. PICK s : s = RemoveAt(list, i)
    OBVIOUS
  <1>10. Inserted(list, s, i - 1, c)
    BY <1>1, <1>3, <1>4, <1>5, <1>9, RemoveAtIs
  <1>11. PICK m1 : m1 = list_delete(m, x)
    OBVIOUS
  <1>12. LinkedAs(m1, s) /\ (\A a \in Places : m1[a].len = m[a].len) /\ Lacks(s, x)
    <2>1. m1 = list_delete(m, c.base)
      BY <1>5, <1>11
    <2>2. LinkedAs(m1, s) /\ Lacks(s, c.base)
      BY <1>10, <2>1, RemoveLinked, Zenon
    <2>3. SameLens(m1, m)
      BY <1>10, <2>1, RemoveLinked, Zenon
    <2> QED BY <1>5, <2>2, <2>3 DEF SameLens
  <1>13. m1 \in Memory
    BY <1>12 DEF LinkedAs
  <1>14. PICK next : next = list_next(m, FreeList, x)
    OBVIOUS
  <1>15. (IF next # NULL THEN next ELSE FreeList) = At(s, (i - 1) + 1)
    <2>1. next = IF At(list, i + 1) # FreeList THEN At(list, i + 1) ELSE NULL
      BY <1>8, <1>14 DEF list_next
    <2>2. i + 1 \in 0..(n + 1)
      BY <1>3
    <2>3. At(list, i + 1) \in Places
      BY <1>7, <2>2 DEF Leads
    <2>4. (IF next # NULL THEN next ELSE FreeList) = At(list, i + 1)
      BY <2>1, <2>3, PlacesAre
    <2>5. Len(s) \in Nat /\ n = Len(s) + 1
      BY <1>1, <1>10, LenProperties DEF Inserted
    <2>6. OneMore(list, s, i - 1, c, Len(s))
      BY <1>10, InsertedPlaces
    <2>7. i \in ((i - 1) + 1)..(Len(s) + 1) /\ (i - 1) + 1 = i
      BY <1>3, <2>5
    <2>8. At(list, i + 1) = At(s, i)
      BY <2>6, <2>7 DEF OneMore
    <2> QED BY <2>4, <2>7, <2>8
  <1>16. PICK rest, len, m2 : rest = x + size /\ len = c.len - size /\ m2 = SetLen(m1, rest, len)
    OBVIOUS
  <1>17. AllocMem(m, size) =
            Overwritten(IF Splits(c, size)
                        THEN list_add_tail(m2, IF next # NULL THEN next ELSE FreeList, rest)
                        ELSE m1, x)
    <2>1. Chunk(x, m[x].len) = c
      BY <1>5, <1>6, <1>8
    <2>2. m1[x].len = c.len
      BY <1>8, <1>12
    <2> QED BY <1>3, <1>11, <1>14, <1>16, <2>1, <2>2 DEF AllocMem
  <1>18. CASE ~Splits(c, size)
    <2>1. AllocMem(m, size) = Overwritten(m1, x) /\ Rest(list, i, size) = s
      BY <1>4, <1>9, <1>17, <1>18 DEF Rest
    <2>2. Overwritten(m1, x) \in Memory /\ \A a \in Places : a # x => Overwritten(m1, x)[a] = m1[a]
      BY <1>8, <1>13, WriteMem
    <2>3. LinkedAs(Overwritten(m1, x), s)
      BY <1>8, <1>12, <2>2, OtherLinked
    <2> QED BY <2>1, <2>3
  <1>19. CASE Splits(c, size)
    <2>1. c.len > size + Node
      BY <1>19 DEF Splits
    <2>2. /\ rest \in Int /\ len \in Int /\ Base <= rest /\ Node <= len /\ rest + len <= Base + Length
          /\ x <= rest /\ rest < EndOf(c) /\ rest # x /\ x < EndOf(c) /\ x \in Int
      <3>1. PICK b \in Int, l \in Int : b = c.base /\ l = c.len
        BY <1>6
      <3>2. /\ x = b /\ rest = b + size /\ len = l - size /\ EndOf(c) = b + l /\ l > size + 3 /\ 3 <= size
            /\ Base <= b /\ b + l <= Base + Length /\ Base \in Nat /\ Length \in Nat
        BY <1>5, <1>6, <1>16, <2>1, <3>1, HeapSizes DEF Node
      <3> QED BY <3>2 DEF Node
    <2>3. PICK e : e = Chunk(rest, len)
      OBVIOUS
    <2>4. e \in Chunks /\ e.base = rest /\ e.len = len
      BY <2>2, <2>3, ChunkIs DEF Chunk
    <2>5. e \in Slots /\ rest \in HeapCells /\ rest \in Places
      BY <2>4, ChunksFit, PlacesAre DEF Slots
    <2>6. PICK u : u = ReplaceAt(list, i, e)
      OBVIOUS
    <2>7. Rest(list, i, size) = u
      BY <1>2, <1>4, <1>16, <1>19, <2>3, <2>6 DEF Rest
    <2>8. /\ u \in Seq(Slots) /\ Len(u) = n
          /\ \A j \in 1..n : u[j] = IF j = i THEN e ELSE list[j]
      BY <1>1, <1>3, <1>5, <2>5, <2>6, ExceptSeq DEF ReplaceAt
    <2>9. /\ s \in Seq(Slots) /\ Len(s) \in Nat /\ n = Len(s) + 1
          /\ \A j \in 1..(i - 1) : list[j] = s[j]
          /\ \A j \in ((i - 1) + 1)..Len(s) : list[j + 1] = s[j]
      BY <1>1, <1>10, LenProperties DEF Inserted
    <2>10. Inserted(u, s, i - 1, e)
      <3>1. i - 1 \in 0..Len(s) /\ (i - 1) + 1 = i
        BY <1>3, <2>9
      <3>2. \A j \in 1..(i - 1) : u[j] = s[j]
        <4>1. \A j \in 1..(i - 1) : j \in 1..n /\ j # i
          BY <1>3
        <4> QED BY <2>8, <2>9, <4>1
      <3>3. \A j \in ((i - 1) + 1)..Len(s) : u[j + 1] = s[j]
        <4>1. \A j \in ((i - 1) + 1)..Len(s) : j + 1 \in 1..n /\ j + 1 # i
          BY <1>3, <2>9
        <4> QED BY <2>8, <2>9, <4>1
      <3> QED BY <1>3, <2>8, <2>9, <3>1, <3>2, <3>3 DEF Inserted
    <2>11. \A j \in 1..n : j # i => list[j].base # rest /\ list[j].base # x
      <3>1. \A j \in 1..n : j # i => list[j].base # rest
        BY <1>1, <1>2, <1>3, <1>4, <2>2, ApartInList
      <3>2. \A j \in 1..n : j # i => list[j].base # x
        BY <1>1, <1>2, <1>3, <1>4, <2>2, ApartInList
      <3> QED BY <3>1, <3>2
    <2>12. Lacks(s, rest)
      <3>1. ASSUME NEW j \in 1..Len(s) PROVE s[j].base # rest
        <4>1. PICK p \in 1..n : p # i /\ s[j] = list[p]
          <5>1. CASE j <= i - 1
            <6>1. j \in 1..(i - 1) /\ j \in 1..n /\ j # i
              BY <1>3, <2>9, <5>1
            <6> QED BY <2>9, <6>1
          <5>2. CASE ~(j <= i - 1)
            <6>1. j \in ((i - 1) + 1)..Len(s) /\ j + 1 \in 1..n /\ j + 1 # i
              BY <1>3, <2>9, <5>2
            <6> QED BY <2>9, <6>1
          <5> QED BY <5>1, <5>2
        <4> QED BY <2>11, <4>1
      <3> QED BY <3>1 DEF Lacks
    <2>13. /\ m2 \in Memory
           /\ \A a \in Places : /\ m2[a].next = m1[a].next /\ m2[a].prev = m1[a].prev
                                /\ m2[a].len = IF a = rest THEN len ELSE m1[a].len
      <3>1. /\ SetLen(m1, rest, len) \in Memory
            /\ \A a \in Places : /\ SetLen(m1, rest, len)[a].next = m1[a].next
                                 /\ SetLen(m1, rest, len)[a].prev = m1[a].prev
                                 /\ SetLen(m1, rest, len)[a].len = IF a = rest THEN len ELSE m1[a].len
        BY <1>13, <2>2, <2>5, WriteMem
      <3> QED BY <1>16, <3>1
    <2>14. LinkedAs(m2, s)
      BY <1>12, <2>5, <2>12, <2>13, OtherLinked
    <2>15. PICK m3 : m3 = list_add_tail(m2, At(s, (i - 1) + 1), rest)
      OBVIOUS
    <2>16. LinkedAs(m3, u)
      BY <2>4, <2>5, <2>10, <2>12, <2>13, <2>14, <2>15, AddTailLinked
    <2>17. Lacks(u, x)
      BY <2>2, <2>4, <2>8, <2>11 DEF Lacks
    <2>18. m3 \in Memory
      BY <2>16 DEF LinkedAs
    <2>19. Overwritten(m3, x) \in Memory /\ \A a \in Places : a # x => Overwritten(m3, x)[a] = m3[a]
      BY <1>8, <2>18, WriteMem
    <2>20. LinkedAs(Overwritten(m3, x), u)
      BY <1>8, <2>16, <2>17, <2>19, OtherLinked
    <2>21. AllocMem(m, size) = Overwritten(m3, x)
      BY <1>15, <1>17, <1>19, <2>15
    <2> QED BY <2>7, <2>20, <2>21
  <1> QED BY <1>18, <1>19

-----------------------------------------------------------------------------
(* miniheap_trim on the pointers *)

\* A chunk with what is before it in the list and what is behind it.
Mid(front, c, back) == (front \o <<c>>) \o back

\* What there is at the places.
Placed(s, front, c, back, p, q) ==
    /\ s \in Seq(Slots) /\ p \in Nat /\ q \in Nat /\ Len(s) = p + 1 + q
    /\ \A i \in 1..p : s[i] = front[i]
    /\ s[p + 1] = c
    /\ \A i \in 1..q : s[p + 1 + i] = back[i]

LEMMA MidIs ==
    ASSUME NEW front \in Seq(Slots), NEW c \in Slots, NEW back \in Seq(Slots),
           NEW p, p = Len(front), NEW q, q = Len(back)
    PROVE  Placed(Mid(front, c, back), front, c, back, p, q)
  <1> DEFINE f == front \o <<c>>
             s == f \o back
  <1>1. p \in Nat /\ q \in Nat
    BY LenProperties
  <1>2. <<c>> \in Seq(Slots) /\ Len(<<c>>) = 1 /\ <<c>>[1] = c
    OBVIOUS
  <1>3. /\ f \in Seq(Slots) /\ Len(f) = p + 1
        /\ \A i \in 1..(p + 1) : f[i] = IF i <= p THEN front[i] ELSE <<c>>[i - p]
    <2>1. /\ f \in Seq(Slots) /\ Len(f) = Len(front) + Len(<<c>>)
          /\ \A i \in 1..(Len(front) + Len(<<c>>)) :
                f[i] = IF i <= Len(front) THEN front[i] ELSE <<c>>[i - Len(front)]
      BY <1>2, ConcatProperties
    <2> HIDE DEF f
    <2> QED BY <1>2, <2>1
  <1> HIDE DEF f
  <1>4. /\ s \in Seq(Slots) /\ Len(s) = p + 1 + q
        /\ \A i \in 1..(p + 1 + q) : s[i] = IF i <= p + 1 THEN f[i] ELSE back[i - (p + 1)]
    <2>1. /\ s \in Seq(Slots) /\ Len(s) = Len(f) + Len(back)
          /\ \A i \in 1..(Len(f) + Len(back)) :
                s[i] = IF i <= Len(f) THEN f[i] ELSE back[i - Len(f)]
      BY <1>3, ConcatProperties
    <2> HIDE DEF s
    <2> QED BY <1>3, <2>1
  <1>5. s = Mid(front, c, back)
    BY DEF f, Mid
  <1> HIDE DEF s
  <1>6. ASSUME NEW i \in 1..p PROVE s[i] = front[i]
    <2>1. i \in 1..(p + 1) /\ i \in 1..(p + 1 + q) /\ i <= p + 1 /\ i <= p
      BY <1>1
    <2> QED BY <1>3, <1>4, <2>1
  <1>7. s[p + 1] = c
    <2>1. p + 1 \in 1..(p + 1) /\ p + 1 \in 1..(p + 1 + q) /\ p + 1 <= p + 1 /\ ~(p + 1 <= p)
          /\ (p + 1) - p = 1
      BY <1>1
    <2> QED BY <1>2, <1>3, <1>4, <2>1
  <1>8. ASSUME NEW i \in 1..q PROVE s[p + 1 + i] = back[i]
    <2>1. p + 1 + i \in 1..(p + 1 + q) /\ ~(p + 1 + i <= p + 1) /\ (p + 1 + i) - (p + 1) = i
      BY <1>1
    <2> QED BY <1>4, <2>1
  <1> QED BY <1>1, <1>4, <1>5, <1>6, <1>7, <1>8 DEF Placed

\* Without the chunk.
LEMMA MidInserted ==
    ASSUME NEW front \in Seq(Slots), NEW c \in Slots, NEW back \in Seq(Slots),
           NEW p, p = Len(front)
    PROVE  Inserted(Mid(front, c, back), front \o back, p, c)
  <1>1. PICK s, t, q : s = front \o back /\ t = Mid(front, c, back) /\ q = Len(back)
    OBVIOUS
  <1>2. Placed(t, front, c, back, p, q)
    BY <1>1, MidIs
  <1>3. /\ t \in Seq(Slots) /\ p \in Nat /\ q \in Nat /\ Len(t) = p + 1 + q
        /\ \A i \in 1..p : t[i] = front[i]
        /\ t[p + 1] = c
        /\ \A i \in 1..q : t[p + 1 + i] = back[i]
    BY <1>2 DEF Placed
  <1>4. /\ s \in Seq(Slots) /\ Len(s) = p + q
        /\ \A i \in 1..(p + q) : s[i] = IF i <= p THEN front[i] ELSE back[i - p]
    BY <1>1, ConcatProperties
  <1>5. Len(t) = Len(s) + 1 /\ p \in 0..Len(s)
    BY <1>3, <1>4
  <1>6. ASSUME NEW i \in 1..p PROVE t[i] = s[i]
    <2>1. i \in 1..(p + q) /\ i <= p
      BY <1>3
    <2> QED BY <1>3, <1>4, <2>1
  <1>7. ASSUME NEW i \in (p + 1)..(p + q) PROVE t[i + 1] = s[i]
    <2>1. i \in 1..(p + q) /\ ~(i <= p) /\ i - p \in 1..q /\ p + 1 + (i - p) = i + 1
      BY <1>3
    <2> QED BY <1>3, <1>4, <2>1
  <1> QED BY <1>1, <1>3, <1>4, <1>5, <1>6, <1>7 DEF Inserted

\* With another length of the chunk.
LEMMA MidResized ==
    ASSUME NEW front \in Seq(Slots), NEW c \in Slots, NEW back \in Seq(Slots),
           NEW p, p = Len(front), NEW len \in Int
    PROVE  Resized(Mid(front, Chunk(c.base, len), back), Mid(front, c, back), p + 1, len)
  <1>1. PICK s, t, q, d : /\ s = Mid(front, c, back) /\ t = Mid(front, d, back) /\ q = Len(back)
                          /\ d = Chunk(c.base, len)
    OBVIOUS
  <1>2. d \in Slots
    BY <1>1 DEF Slots, Chunk
  <1>3. Placed(s, front, c, back, p, q) /\ Placed(t, front, d, back, p, q)
    BY <1>1, <1>2, MidIs
  <1>4. /\ s \in Seq(Slots) /\ t \in Seq(Slots) /\ p \in Nat /\ q \in Nat
        /\ Len(s) = p + 1 + q /\ Len(t) = p + 1 + q
        /\ \A i \in 1..p : s[i] = front[i] /\ t[i] = front[i]
        /\ s[p + 1] = c /\ t[p + 1] = d
        /\ \A i \in 1..q : s[p + 1 + i] = back[i] /\ t[p + 1 + i] = back[i]
    BY <1>3 DEF Placed
  <1>5. ASSUME NEW i \in 1..(p + 1 + q), i # p + 1 PROVE s[i] = t[i]
    <2>1. CASE i < p + 1
      <3>1. i \in 1..p
        BY <1>4, <2>1
      <3> QED BY <1>4, <3>1
    <2>2. CASE i > p + 1
      <3>1. i - (p + 1) \in 1..q /\ p + 1 + (i - (p + 1)) = i
        BY <1>4, <2>2
      <3>2. s[p + 1 + (i - (p + 1))] = t[p + 1 + (i - (p + 1))]
        BY <1>4, <3>1
      <3> QED BY <3>1, <3>2
    <2> QED BY <1>4, <1>5, <2>1, <2>2
  <1>6. p + 1 \in 1..(p + 1 + q)
    BY <1>4
  <1> QED BY <1>1, <1>4, <1>5, <1>6 DEF Resized

\* Where the parts of a list of chunks are put together first does not matter.
LEMMA SlotsJoin ==
    ASSUME NEW s \in Seq(Slots), NEW t \in Seq(Slots), NEW u \in Seq(Slots)
    PROVE  (s \o t) \o u = s \o (t \o u)
  BY ConcatAssociative

\* What the pointers and Heap say of the chunk.
LEMMA MidLinked ==
    ASSUME NEW m, NEW front \in Seq(Slots), NEW c \in Slots, NEW back \in Seq(Slots),
           LinkedAs(m, Mid(front, c, back))
    PROVE  m[c.base].len = c.len
  <1>1. PICK s, p, q : s = Mid(front, c, back) /\ p = Len(front) /\ q = Len(back)
    OBVIOUS
  <1>2. Placed(s, front, c, back, p, q)
    BY <1>1, MidIs
  <1>3. p + 1 \in 1..Len(s) /\ s[p + 1] = c
    BY <1>2 DEF Placed
  <1>4. m[s[p + 1].base].len = s[p + 1].len
    BY <1>1, <1>3 DEF LinkedAs
  <1> QED BY <1>3, <1>4

\* No other chunk starts within it.
LEMMA MidApart ==
    ASSUME NEW front \in Seq(Slots), NEW c \in Slots, NEW back \in Seq(Slots),
           Good(Mid(front, c, back)), NEW len \in Int, NEW a \in Int, c.base < a, a < EndOf(c)
    PROVE  Lacks(Mid(front, Chunk(c.base, len), back), a)
  <1>1. PICK s, t, p, d : /\ s = Mid(front, c, back) /\ t = Mid(front, d, back) /\ p = Len(front)
                          /\ d = Chunk(c.base, len)
    OBVIOUS
  <1>2. Resized(t, s, p + 1, len)
    BY <1>1, MidResized
  <1>3. PICK n \in Nat : n = Len(s)
    BY LenProperties, <1>2 DEF Resized
  <1>4. /\ p + 1 \in 1..n /\ Len(t) = n
        /\ \A j \in 1..n : t[j] = IF j = p + 1 THEN Chunk(s[p + 1].base, len) ELSE s[j]
    BY <1>2, <1>3 DEF Resized
  <1>5. s[p + 1] = c
    <2>1. Placed(s, front, c, back, p, Len(back))
      BY <1>1, MidIs
    <2> QED BY <2>1 DEF Placed
  <1>6. \A j \in 1..n : j # p + 1 => s[j].base # a
    <2>1. c.base \in Int
      BY PlacesAre DEF Slots
    <2>2. s[p + 1].base <= a /\ a < EndOf(s[p + 1])
      BY <1>5, <2>1
    <2> QED BY <1>1, <1>3, <1>4, <2>2, ApartInList
  <1>7. c.base # a
    BY PlacesAre DEF Slots
  <1>8. \A j \in 1..n : t[j].base # a
    BY <1>4, <1>5, <1>6, <1>7 DEF Chunk
  <1> QED BY <1>1, <1>4, <1>8 DEF Lacks

\* One turn of the loop cuts the chunk down to what remains of it.
LEMMA TurnLinked ==
    ASSUME NEW m, NEW front \in Seq(Slots), NEW c \in Chunks, NEW back \in Seq(Slots),
           Good(Mid(front, c, back)), LinkedAs(m, Mid(front, c, back))
    PROVE  LinkedAs(TrimMem(m, c.base), (front \o Remains(c)) \o back)
  <1>1. PICK x, start, end, top, p : /\ x = c.base /\ start = TrimStart(c) /\ end = TrimEnd(c)
                                     /\ top = EndOf(c) /\ p = Len(front)
    OBVIOUS
  <1>2. /\ c \in Slots /\ c = Chunk(x, top - x) /\ c.len = top - x /\ x \in Int /\ top \in Int
        /\ x \in HeapCells /\ x \in Places /\ Base <= x /\ top <= Base + Length
    <2>1. /\ c.base \in Int /\ c.len \in Int /\ Base <= c.base /\ c.base + c.len <= Base + Length
          /\ EndOf(c) = c.base + c.len /\ c = Chunk(c.base, c.len) /\ c \in Slots
      BY ChunkFacts, ChunksFit
    <2>2. PICK b \in Int, l \in Int : b = c.base /\ l = c.len
      BY <2>1
    <2>3. (b + l) - b = l
      OBVIOUS
    <2>4. x \in HeapCells /\ x \in Places
      BY <1>1, <2>1, PlacesAre DEF Slots
    <2> QED BY <1>1, <2>1, <2>2, <2>3, <2>4
  <1>3. /\ start \in Int /\ (start = x \/ x + 3 <= start)
        /\ end \in Int /\ (end = top \/ end + 3 <= top)
    BY <1>1, TrimBounds DEF Node
  <1>4. m[x].len = c.len /\ m \in Memory
    BY <1>1, <1>2, MidLinked DEF LinkedAs
  <1>5. PICK m1, m2 : /\ m1 = SetLen(SetLen(m, x, end - x), end, top - end)
                      /\ m2 = IF end < top THEN list_add_head(m1, x, end) ELSE m
    OBVIOUS
  <1>6. TrimMem(m, x) = IF ~Trims(c) THEN m
                        ELSE IF start = x THEN Unlinked(m2, x)
                        ELSE SetLen(m2, x, m2[x].len - (end - start))
    <2>1. Chunk(x, m[x].len) = c
      BY <1>2, <1>4
    <2> QED BY <1>1, <1>5, <2>1 DEF TrimMem
  <1>7. CASE ~Trims(c)
    <2>1. Remains(c) = <<c>>
      BY <1>7 DEF Remains
    <2> QED BY <1>1, <1>6, <1>7, <2>1 DEF Mid
  <1>8. CASE Trims(c)
    <2>1. start < end /\ x < end /\ end <= top
      BY <1>1, <1>2, <1>3, <1>8 DEF Trims
    <2>2. PICK q, tail, cut : /\ q = Piece(end, top) /\ tail = q \o back /\ cut = Chunk(x, end - x)
      OBVIOUS
    <2>3. cut \in Slots /\ cut.base = x /\ cut.len = end - x
      BY <1>2, <1>3, <2>2 DEF Chunk, Slots
    <2>4. q \in Seq(Slots) /\ tail \in Seq(Slots) /\ LinkedAs(m2, Mid(front, cut, tail))
      <3>1. CASE end = top
        <4>1. q = <<>> /\ cut = c /\ m2 = m
          BY <1>2, <1>5, <2>2, <3>1 DEF Piece
        <4>2. <<>> \in Seq(Slots) /\ <<>> \o back = back
          BY ConcatEmptySeq, EmptySeq
        <4> QED BY <2>2, <4>1, <4>2
      <3>2. CASE end < top
        <4>1. PICK e : e = Chunk(end, top - end)
          OBVIOUS
        <4>2. q = <<e>>
          BY <2>2, <3>2, <4>1 DEF Piece
        <4>3. end + 3 <= top /\ Base <= end /\ top - end \in Int /\ end - x \in Int
          BY <1>2, <1>3, <2>1, <3>2, HeapSizes
        <4>4. e \in Chunks /\ e.base = end /\ e.len = top - end
          <5>1. PICK l \in Int : l = top - end
            BY <4>3
          <5>2. 3 <= l /\ end + l <= Base + Length
            BY <1>2, <1>3, <4>3, <5>1
          <5> QED BY <1>3, <4>1, <4>3, <5>1, <5>2, ChunkIs DEF Chunk, Node
        <4>5. e \in Slots /\ end \in HeapCells /\ end \in Places
          BY <4>4, ChunksFit, PlacesAre DEF Slots
        <4>6. PICK m0 : m0 = SetLen(m, x, end - x)
          OBVIOUS
        <4>7. LinkedAs(m0, Mid(front, cut, back))
          <5>1. PICK s, t : s = Mid(front, c, back) /\ t = Mid(front, cut, back)
            OBVIOUS
          <5>0. PICK len \in Int : len = end - x
            BY <4>3
          <5>2. Resized(t, s, p + 1, len)
            BY <1>1, <1>2, <2>2, <5>0, <5>1, MidResized
          <5>3. Placed(s, front, c, back, p, Len(back))
            BY <1>1, <1>2, <5>1, MidIs
          <5>4. s[p + 1].base = x
            BY <1>1, <5>3 DEF Placed
          <5>5. LinkedAs(SetLen(m, s[p + 1].base, len), t)
            BY <5>1, <5>2, ResizeLinked
          <5> QED BY <4>6, <5>0, <5>1, <5>4, <5>5
        <4>8. Lacks(Mid(front, cut, back), end)
          BY <1>1, <1>2, <1>3, <2>1, <2>2, <3>2, <4>3, MidApart
        <4>9. /\ m1 \in Memory
              /\ \A a \in Places : /\ m1[a].next = m0[a].next /\ m1[a].prev = m0[a].prev
                                   /\ m1[a].len = IF a = end THEN top - end ELSE m0[a].len
          <5>1. PICK len \in Int : len = top - end
            BY <4>3
          <5>2. m0 \in Memory
            BY <4>7 DEF LinkedAs
          <5>3. /\ SetLen(m0, end, len) \in Memory
                /\ \A a \in Places : /\ SetLen(m0, end, len)[a].next = m0[a].next
                                     /\ SetLen(m0, end, len)[a].prev = m0[a].prev
                                     /\ SetLen(m0, end, len)[a].len = IF a = end THEN len ELSE m0[a].len
            BY <4>5, <5>2, WriteMem
          <5> QED BY <1>5, <4>6, <5>1, <5>3
        <4>10. LinkedAs(m1, Mid(front, cut, back))
          BY <4>5, <4>7, <4>8, <4>9, OtherLinked
        <4>11. PICK s, t, f : s = Mid(front, cut, back) /\ t = Mid(front, cut, tail) /\ f = front \o <<cut>>
          OBVIOUS
        <4>12. Inserted(t, s, p + 1, e)
          <5>1. f \in Seq(Slots) /\ Len(f) = p + 1
            <6>1. <<cut>> \in Seq(Slots) /\ Len(<<cut>>) = 1
              BY <2>3
            <6> QED BY <1>1, <4>11, <6>1, ConcatProperties
          <5>2. Inserted(Mid(f, e, back), f \o back, p + 1, e)
            BY <4>5, <5>1, MidInserted
          <5>3. f \o back = s
            BY <4>11 DEF Mid
          <5>4. Mid(f, e, back) = t
            <6>1. <<e>> \in Seq(Slots)
              BY <4>5
            <6>2. (f \o <<e>>) \o back = f \o (<<e>> \o back)
              BY <5>1, <6>1, SlotsJoin, Zenon
            <6> QED BY <2>2, <4>2, <4>11, <6>2 DEF Mid
          <5> QED BY <5>2, <5>3, <5>4
        <4>13. At(s, p + 1) = x
          <5>1. Placed(s, front, cut, back, p, Len(back))
            BY <1>1, <2>3, <4>11, MidIs
          <5>2. p + 1 \in 1..Len(s) /\ s[p + 1] = cut
            BY <5>1 DEF Placed
          <5> QED BY <2>3, <5>2 DEF At
        <4>14. LinkedAs(list_add_head(m1, At(s, p + 1), e.base), t)
          <5>1. m1[e.base].len = e.len /\ Lacks(s, e.base)
            BY <4>4, <4>5, <4>8, <4>9, <4>11
          <5> QED BY <4>10, <4>11, <4>12, <5>1, AddTailLinked
        <4>15. m2 = list_add_head(m1, At(s, p + 1), e.base)
          BY <1>5, <3>2, <4>4, <4>13
        <4>16. <<e>> \in Seq(Slots)
          BY <4>5
        <4>17. tail \in Seq(Slots)
          BY <2>2, <4>2, <4>16, ConcatProperties
        <4> QED BY <4>2, <4>11, <4>14, <4>15, <4>16, <4>17
      <3> QED BY <1>2, <1>3, <2>1, <3>1, <3>2
    <2>5. Remains(c) = Piece(x, start) \o q
      BY <1>1, <1>8, <2>2 DEF Remains
    <2>6. CASE start = x
      <3>1. Inserted(Mid(front, cut, tail), front \o tail, p, cut)
        BY <1>1, <2>3, <2>4, MidInserted
      <3>2. LinkedAs(Unlinked(m2, cut.base), front \o tail)
        BY <2>4, <3>1, UnlinkLinked
      <3>3. TrimMem(m, x) = Unlinked(m2, cut.base)
        BY <1>6, <1>8, <2>3, <2>6
      <3>4. Piece(x, start) = <<>>
        BY <1>2, <2>6 DEF Piece
      <3>5. <<>> \o q = q
        BY <2>4, ConcatEmptySeq
      <3>6. (front \o q) \o back = front \o tail
        <4>1. q \in Seq(Slots)
          BY <2>4
        <4> QED BY <2>2, <4>1, SlotsJoin, Zenon
      <3> QED BY <1>1, <2>5, <3>2, <3>3, <3>4, <3>5, <3>6
    <2>7. CASE start # x
      <3>0. PICK len \in Int : len = start - x
        BY <1>2, <1>3
      <3>1. PICK d : len = start - x /\ d = Chunk(x, len)
        BY <3>0
      <3>2. Piece(x, start) = <<d>>
        BY <1>2, <1>3, <2>7, <3>1 DEF Piece
      <3>3. d \in Slots /\ <<d>> \in Seq(Slots)
        BY <1>2, <3>1 DEF Slots, Chunk
      <3>4. PICK s, t : s = Mid(front, cut, tail) /\ t = Mid(front, d, tail)
        OBVIOUS
      <3>5. Resized(t, s, p + 1, len)
        BY <1>1, <2>3, <2>4, <3>1, <3>4, MidResized
      <3>6. Placed(s, front, cut, tail, p, Len(tail))
        BY <1>1, <2>3, <2>4, <3>4, MidIs
      <3>7. s[p + 1].base = x
        BY <2>3, <3>6 DEF Placed
      <3>8. LinkedAs(SetLen(m2, s[p + 1].base, len), t)
        BY <2>4, <3>4, <3>5, ResizeLinked
      <3>9. m2[x].len - (end - start) = len
        <4>1. m2[cut.base].len = cut.len
          BY <2>3, <2>4, MidLinked
        <4>2. m2[x].len = end - x
          BY <2>3, <4>1
        <4>3. (end - x) - (end - start) = start - x
          BY <1>2, <1>3
        <4> QED BY <3>1, <4>2, <4>3
      <3>10. LinkedAs(TrimMem(m, x), t)
        BY <1>6, <1>8, <2>7, <3>7, <3>8, <3>9
      <3>11. (front \o (<<d>> \o q)) \o back = t
        <4>1. q \in Seq(Slots)
          BY <2>4
        <4>2. PICK f : f = front \o <<d>>
          OBVIOUS
        <4>3. f \o q = front \o (<<d>> \o q)
          BY <3>3, <4>1, <4>2, SlotsJoin, Zenon
        <4>4. f \in Seq(Slots)
          BY <3>3, <4>2, ConcatProperties
        <4>5. (f \o q) \o back = f \o (q \o back)
          BY <4>1, <4>4, SlotsJoin, Zenon
        <4> QED BY <2>2, <3>4, <4>2, <4>3, <4>5 DEF Mid
      <3> QED BY <1>1, <2>5, <3>2, <3>10, <3>11
    <2> QED BY <2>6, <2>7
  <1> QED BY <1>7, <1>8

\* The loop's first state and its turn.
TrimFirst(m) == [mem |-> m, node |-> m[FreeList].next, next |-> m[m[FreeList].next].next]
TrimTurn(p) ==
    [mem |-> TrimMem(p.mem, p.node), node |-> p.next, next |-> TrimMem(p.mem, p.node)[p.next].next]

\* at are the loop's states, n its turns.
TrimTurns(at, m, n) ==
    at[0] = TrimFirst(m) /\ \A k \in 1..n : at[k] = TrimTurn(at[k - 1])

LEMMA TrimAllIs ==
    ASSUME NEW m, NEW n \in Nat, n = list_length(m, FreeList)
    PROVE  \E at : TrimTurns(at, m, n) /\ TrimAll(m) = at[n].mem
  <1> DEFINE Turns(f, j) == f = [k \in 0..j |-> IF k = 0 THEN TrimFirst(m) ELSE TrimTurn(f[k - 1])]
             Some == {j \in 0..n : \E f : Turns(f, j)}
  <1>1. 0 \in Some
    <2>1. Turns([k \in 0..0 |-> TrimFirst(m)], 0)
      OBVIOUS
    <2>2. \E f : Turns(f, 0)
      <3> HIDE DEF Turns
      <3> QED BY <2>1
    <2> HIDE DEF Turns
    <2> QED BY <2>2
  <1>2. ASSUME NEW j \in 1..n, j - 1 \in Some PROVE j \in Some
    <2>1. PICK f : Turns(f, j - 1)
      BY <1>2
    <2> DEFINE g == [k \in 0..j |-> IF k = 0 THEN TrimFirst(m) ELSE TrimTurn(f[k - 1])]
    <2>2. \A k \in 0..(j - 1) : g[k] = f[k]
      <3>1. \A k \in 0..(j - 1) : k \in 0..j
        OBVIOUS
      <3> QED BY <2>1, <3>1, Zenon
    <2>3. \A k \in 0..j : k # 0 => k - 1 \in 0..(j - 1)
      OBVIOUS
    <2>4. Turns(g, j)
      <3>1. \A k \in 0..j : k # 0 => g[k - 1] = f[k - 1]
        BY <2>2, <2>3
      <3> QED BY <3>1, Zenon
    <2>5. \E h : Turns(h, j)
      <3> HIDE DEF Turns
      <3> QED BY <2>4
    <2> HIDE DEF Turns
    <2> QED BY <2>5
  <1> HIDE DEF Turns
  <1>3. n \in Some
    <2>1. 0..n \subseteq Some
      <3> HIDE DEF Some
      <3> QED BY <1>1, <1>2, UpTo
    <2> QED BY <2>1
  <1>4. PICK at : at = CHOOSE f : Turns(f, n)
    OBVIOUS
  <1>5. Turns(at, n)
    BY <1>3, <1>4, Zenon
  <1>6. TrimAll(m) = at[n].mem
    <2>1. TrimAll(m) = (CHOOSE f : Turns(f, list_length(m, FreeList)))[list_length(m, FreeList)].mem
      BY Zenon DEF TrimAll, Turns, TrimFirst, TrimTurn
    <2> QED BY <1>4, <2>1
  <1>7. TrimTurns(at, m, n)
    BY <1>5 DEF Turns, TrimTurns
  <1> QED BY <1>6, <1>7

-----------------------------------------------------------------------------
\* The list after the first turns: what they left, and what is still to come.
Left(list, k) == TrimmedUpTo(list)[k] \o SubSeq(list, k + 1, Len(list))

\* The list around the chunk the next turn is about.
Around(list, k, front, back, n) ==
    /\ front = TrimmedUpTo(list)[k - 1] /\ back = SubSeq(list, k + 1, n)
    /\ front \in Seq(Slots) /\ back \in Seq(Slots) /\ list[k] \in Chunks
    /\ Len(back) = n - k /\ (k < n => back[1] = list[k + 1])
    /\ Left(list, k - 1) = Mid(front, list[k], back)
    /\ Good(Mid(front, list[k], back))
    /\ Left(list, k) = (front \o Remains(list[k])) \o back

LEMMA LeftIs ==
    ASSUME NEW list, Good(list), NEW n, n = Len(list), NEW k \in 1..n
    PROVE  \E front, back : Around(list, k, front, back, n)
  <1>1. PICK front, back : front = TrimmedUpTo(list)[k - 1] /\ back = SubSeq(list, k + 1, n)
    OBVIOUS
  <1>2. n \in Nat /\ list \in Seq(Chunks) /\ \A i \in 1..n : list[i] \in Chunks
    BY GoodFacts
  <1>3. k - 1 \in 0..n /\ k \in 0..n /\ (k - 1) + 1 = k /\ k \in k..n
    BY <1>2
  <1>4. /\ Good(front)
        /\ \A i \in 1..Len(front), j \in k..n : EndOf(front[i]) < list[j].base
    <2>1. TrimGood(list, k - 1)
      BY <1>3, TrimGoodUpTo
    <2> QED BY <1>1, <1>3, <2>1 DEF TrimGood
  <1>5. /\ back \in Seq(Chunks) /\ Len(back) = n - k
        /\ \A i \in 1..(n - k) : back[i] = list[k + i]
    <2>1. PICK b \in Int : b = k + 1
      OBVIOUS
    <2>2. \A i \in b..n : list[i] \in Chunks
      BY <1>2, <2>1
    <2>3. /\ SubSeq(list, b, n) \in Seq(Chunks) /\ Len(SubSeq(list, b, n)) = IF b <= n THEN n - b + 1 ELSE 0
          /\ \A i \in 1..(n - b + 1) : SubSeq(list, b, n)[i] = list[b + i - 1]
      BY <1>2, <2>2, SubSeqProperties
    <2>4. \A i \in 1..(n - k) : i \in 1..(n - b + 1) /\ b + i - 1 = k + i
      BY <1>2, <2>1
    <2>5. Len(back) = n - k
      BY <1>1, <1>2, <2>1, <2>3
    <2> QED BY <1>1, <2>1, <2>3, <2>4, <2>5
  <1>6. /\ front \in Seq(Chunks) /\ front \in Seq(Slots) /\ back \in Seq(Slots)
        /\ <<list[k]>> \in Seq(Chunks) /\ Remains(list[k]) \in Seq(Chunks)
    <2>1. front \in Seq(Chunks)
      BY <1>4 DEF Good
    <2>2. Remains(list[k]) \in Seq(Chunks)
      BY <1>2, RemainsGood DEF Good
    <2> QED BY <1>2, <1>5, <2>1, <2>2, ChunksFit
  <1>7. SubSeq(list, k, n) = <<list[k]>> \o back
    BY <1>1, <1>2, <1>3, SubSeqRecursiveFirst
  <1>8. Left(list, k - 1) = Mid(front, list[k], back)
    <2>1. front \o (<<list[k]>> \o back) = (front \o <<list[k]>>) \o back
      <3>1. <<list[k]>> \in Seq(Slots)
        BY <1>2, ChunksFit
      <3> QED BY <1>6, <3>1, SlotsJoin, Zenon
    <2> QED BY <1>1, <1>3, <1>7, <2>1 DEF Left, Mid
  <1>9. Good(Mid(front, list[k], back))
    <2>1. PICK rest : rest = SubSeq(list, k, n)
      OBVIOUS
    <2>2. /\ Good(rest)
          /\ \A i \in 1..Len(rest) : i + k - 1 \in k..n /\ rest[i] = list[i + k - 1]
      BY <1>2, <2>1, SubSeqGood
    <2>3. \A i \in 1..Len(front), j \in 1..Len(rest) : EndOf(front[i]) < rest[j].base
      BY <1>4, <2>2
    <2>4. Good(front \o rest)
      BY <1>4, <2>2, <2>3, ConcatGood
    <2> QED BY <1>1, <1>3, <1>8, <2>1, <2>4 DEF Left
  <1>10. Left(list, k) = (front \o Remains(list[k])) \o back
    BY <1>1, <1>2, TrimmedUpToDef DEF Left
  <1>11. k < n => back[1] = list[k + 1]
    <2>1. k < n => 1 \in 1..(n - k)
      BY <1>2
    <2> QED BY <1>5, <2>1
  <1>12. Around(list, k, front, back, n)
    BY <1>1, <1>2, <1>5, <1>6, <1>8, <1>9, <1>10, <1>11 DEF Around
  <1> QED BY <1>12

\* The node behind the next turn's is still the next of the first list.
LEMMA BehindIs ==
    ASSUME NEW list, Good(list), NEW n \in Nat, n = Len(list), NEW k \in 1..n,
           NEW t, LinkedAs(t, Left(list, k - 1))
    PROVE  t[list[k].base].next = At(list, k + 1)
  <1>1. PICK front, back : Around(list, k, front, back, n)
    BY LeftIs
  <1>2. PICK s, p, q, c : s = Left(list, k - 1) /\ p = Len(front) /\ q = Len(back) /\ c = list[k]
    OBVIOUS
  <1>3. /\ front \in Seq(Slots) /\ back \in Seq(Slots) /\ c \in Chunks /\ c \in Slots
        /\ q = n - k /\ (k < n => back[1] = list[k + 1]) /\ s = Mid(front, c, back)
    BY <1>1, <1>2, ChunksFit DEF Around
  <1>4. Placed(s, front, c, back, p, q)
    BY <1>2, <1>3, MidIs
  <1>5. /\ p \in Nat /\ q \in Nat /\ Len(s) = p + 1 + q /\ s[p + 1] = c
        /\ \A i \in 1..q : s[p + 1 + i] = back[i]
    BY <1>4 DEF Placed
  <1>6. p + 1 \in 1..Len(s) /\ (p + 1) + 1 = p + 2
    BY <1>5
  <1>7. t[c.base].next = At(s, p + 2)
    <2>1. Leads(t, s, Len(s))
      BY <1>2, LinkedFacts
    <2>2. t[s[p + 1].base].next = At(s, (p + 1) + 1)
      BY <1>6, <2>1 DEF Leads
    <2> QED BY <1>5, <1>6, <2>2
  <1>8. CASE k < n
    <2>1. 1 \in 1..q /\ p + 1 + 1 = p + 2 /\ p + 2 \in 1..Len(s) /\ k + 1 \in 1..Len(list)
      BY <1>3, <1>5, <1>8
    <2>2. s[p + 2] = list[k + 1]
      BY <1>3, <1>5, <1>8, <2>1
    <2>3. At(s, p + 2) = s[p + 2].base /\ At(list, k + 1) = list[k + 1].base
      BY <2>1 DEF At
    <2> QED BY <1>2, <1>7, <2>2, <2>3
  <1>9. CASE k = n
    <2>1. p + 2 \notin 1..Len(s) /\ k + 1 \notin 1..Len(list)
      BY <1>3, <1>5, <1>9
    <2>2. At(s, p + 2) = FreeList /\ At(list, k + 1) = FreeList
      BY <2>1 DEF At
    <2> QED BY <1>2, <1>7, <2>2
  <1> QED BY <1>8, <1>9

\* Where the loop is after its first turns.
TurnOK(p, list, k, n) ==
    /\ LinkedAs(p.mem, Left(list, k))
    /\ k < n => p.node = list[k + 1].base /\ p.next = At(list, k + 2)

\* The loop leaves what Trimmed says.
LEMMA TrimAllLinked ==
    ASSUME NEW m, NEW list, Good(list), LinkedAs(m, list)
    PROVE  LinkedAs(TrimAll(m), Trimmed(list))
  <1>1. PICK n \in Nat : n = Len(list)
    BY GoodFacts
  <1>2. list_length(m, FreeList) = n
    BY <1>1, LengthMem
  <1>3. PICK at : TrimTurns(at, m, n) /\ TrimAll(m) = at[n].mem
    BY <1>2, TrimAllIs
  <1>4. at[0] = TrimFirst(m) /\ \A k \in 1..n : at[k] = TrimTurn(at[k - 1])
    BY <1>3 DEF TrimTurns
  <1>5. /\ TrimmedUpTo(list)[0] = <<>>
        /\ list \in Seq(Chunks)
    BY <1>1, TrimmedUpToDef, GoodFacts
  <1> DEFINE Turned == {k \in 0..n : TurnOK(at[k], list, k, n)}
  <1>6. 0 \in Turned
    <2>1. Left(list, 0) = list
      <3>1. SubSeq(list, 1, n) = list
        BY <1>1, <1>5, SubSeqFull
      <3>2. <<>> \o list = list
        BY <1>5, ConcatEmptySeq
      <3> QED BY <1>1, <1>5, <3>1, <3>2 DEF Left
    <2>2. at[0].mem = m /\ at[0].node = m[FreeList].next /\ at[0].next = m[m[FreeList].next].next
      BY <1>4 DEF TrimFirst
    <2>3. ASSUME 0 < n PROVE at[0].node = list[0 + 1].base /\ at[0].next = At(list, 0 + 2)
      <3>1. PlacesOf(list, n) /\ Leads(m, list, n)
        BY <1>1, LinkedFacts, Zenon
      <3>2. 0 \in 0..n /\ 1 \in 1..n /\ 0 + 1 = 1 /\ 0 + 2 = 2 /\ 1 + 1 = 2
        BY <2>3
      <3>3. m[At(list, 0)].next = At(list, 0 + 1) /\ At(list, 0) = FreeList /\ At(list, 1) = list[1].base
        BY <3>1, <3>2 DEF Leads, PlacesOf
      <3>4. m[list[1].base].next = At(list, 1 + 1)
        BY <3>1, <3>2 DEF Leads
      <3> QED BY <2>2, <3>2, <3>3, <3>4
    <2>4. TurnOK(at[0], list, 0, n)
      BY <2>1, <2>2, <2>3 DEF TurnOK
    <2> QED BY <2>4
  <1>7. ASSUME NEW k \in 1..n, k - 1 \in Turned PROVE k \in Turned
    <2>1. PICK p, c, t : p = at[k - 1] /\ c = list[k] /\ t = TrimMem(p.mem, p.node)
      OBVIOUS
    <2>2. k - 1 < n /\ (k - 1) + 1 = k /\ (k - 1) + 2 = k + 1
      OBVIOUS
    <2>3. LinkedAs(p.mem, Left(list, k - 1)) /\ p.node = c.base /\ p.next = At(list, k + 1)
      <3>1. TurnOK(p, list, k - 1, n)
        BY <1>7, <2>1
      <3> QED BY <2>1, <2>2, <3>1 DEF TurnOK
    <2>4. PICK front, back : Around(list, k, front, back, n)
      BY <1>1, LeftIs
    <2>5. LinkedAs(TrimMem(p.mem, c.base), Left(list, k))
      <3>1. /\ front \in Seq(Slots) /\ back \in Seq(Slots) /\ c \in Chunks
            /\ Good(Mid(front, c, back)) /\ LinkedAs(p.mem, Mid(front, c, back))
            /\ Left(list, k) = (front \o Remains(c)) \o back
        BY <2>1, <2>3, <2>4 DEF Around
      <3>2. LinkedAs(TrimMem(p.mem, c.base), (front \o Remains(c)) \o back)
        BY <3>1, TurnLinked
      <3> QED BY <3>1, <3>2
    <2>6. at[k].mem = t /\ at[k].node = p.next /\ at[k].next = t[p.next].next
      <3>1. at[k] = TrimTurn(p)
        BY <1>4, <2>1
      <3>2. TrimTurn(p) = [mem |-> t, node |-> p.next, next |-> t[p.next].next]
        BY <2>1 DEF TrimTurn
      <3>3. PICK e : e = at[k] /\ e = [mem |-> t, node |-> p.next, next |-> t[p.next].next]
        BY <3>1, <3>2
      <3>4. e.mem = t /\ e.node = p.next /\ e.next = t[p.next].next
        BY <3>3
      <3> QED BY <3>3, <3>4
    <2>7. ASSUME k < n PROVE at[k].node = list[k + 1].base /\ at[k].next = At(list, k + 2)
      <3>1. PICK j : j = k + 1
        OBVIOUS
      <3>2. j \in 1..n /\ j - 1 = k /\ j + 1 = k + 2 /\ j \in 1..Len(list)
        BY <1>1, <2>7, <3>1
      <3>3. LinkedAs(t, Left(list, j - 1))
        BY <2>1, <2>3, <2>5, <3>2
      <3>4. t[list[j].base].next = At(list, j + 1)
        BY <1>1, <3>2, <3>3, BehindIs
      <3>5. p.next = list[j].base
        BY <2>3, <3>1, <3>2 DEF At
      <3> QED BY <2>6, <3>1, <3>2, <3>4, <3>5
    <2>8. TurnOK(at[k], list, k, n)
      BY <2>1, <2>3, <2>5, <2>6, <2>7 DEF TurnOK
    <2>9. k \in 0..n
      OBVIOUS
    <2> QED BY <2>8, <2>9
  <1>8. TurnOK(at[n], list, n, n)
    <2>1. 0..n \subseteq Turned
      <3> HIDE DEF Turned
      <3> QED BY <1>6, <1>7, UpTo
    <2>2. n \in 0..n
      OBVIOUS
    <2> QED BY <2>1, <2>2
  <1>9. Left(list, n) = Trimmed(list)
    <2>1. SubSeq(list, n + 1, n) = <<>>
      BY SubSeqEmpty
    <2>2. TrimmedUpTo(list)[n] \in Seq(Chunks)
      <3>1. TrimGood(list, n)
        BY <1>1, TrimGoodUpTo
      <3> QED BY <3>1 DEF TrimGood, Good
    <2>3. TrimmedUpTo(list)[n] \o <<>> = TrimmedUpTo(list)[n]
      BY <2>2, ConcatEmptySeq
    <2> QED BY <1>1, <2>1, <2>3 DEF Left, Trimmed
  <1> QED BY <1>3, <1>8, <1>9 DEF TurnOK

-----------------------------------------------------------------------------
(* The list is linked after every operation *)

LinkedInv == HeapInv /\ LinkedAs(mem, free)

\* miniheap_free's part of the list.
LEMMA FreeLinked ==
    ASSUME NEW m, NEW list, Good(list), LinkedAs(m, list), NEW b, BlockOK(b),
           \A w : ~(w \in Cells(b) /\ w \in CellsOf(list))
    PROVE  LinkedAs(InsertMem(m, b.base, b.len), InsertFreeChunk(list, Chunk(b.base, b.len)))
  <1>1. PICK c : c = Chunk(b.base, b.len)
    OBVIOUS
  <1>2. c \in Chunks /\ c.base = b.base /\ c.len = b.len /\ Cells(c) = Cells(b)
    BY <1>1, BlockFacts DEF Chunk
  <1>3. LinkedAs(InsertMem(m, c.base, c.len), InsertFreeChunk(list, c))
    BY <1>2, InsertMemLinked
  <1> QED BY <1>1, <1>2, <1>3

\* What the invariant says of the blocks and of what is looked for.
LEMMA LinkedInvFacts ==
    ASSUME LinkedInv
    PROVE  /\ Good(free) /\ LinkedAs(mem, free)
           /\ \A b \in live : BlockOK(b) /\ \A w : ~(w \in Cells(b) /\ w \in CellsOf(free))
  <1>1. /\ Good(free)
        /\ \A b \in live : BlockOK(b)
        /\ \A w : ~(w \in CellsOf(free) /\ w \in Owned(live))
    BY DEF LinkedInv, HeapInv, Divided
  <1>2. \A b \in live : \A w : w \in Cells(b) => w \in Owned(live)
    BY OwnedIs
  <1> QED BY <1>1, <1>2 DEF LinkedInv

LEMMA InitLinked == HLInit => LinkedInv
  <1> SUFFICES ASSUME HLInit PROVE LinkedInv
    OBVIOUS
  <1>1. PICK m0, m : m0 = [a \in Places |-> Nothing] /\ m = list_initialize(m0, FreeList)
    OBVIOUS
  <1>2. HeapInv /\ free = InsertFreeChunk(<<>>, Chunk(Base, Length)) /\ mem = InsertMem(m, Base, Length)
    BY <1>1, InitHeapInv DEF HLInit, Init, Places
  <1>3. FreeList \in Places /\ FreeList \in Places \cup {NULL}
    BY PlacesAre
  <1>4. m0 \in Memory
    BY <1>1 DEF Memory, Nothing
  <1>5. PICK m1 : m1 = SetNext(m0, FreeList, FreeList)
    OBVIOUS
  <1>6. m1 \in Memory /\ m1[FreeList].next = FreeList
    BY <1>3, <1>4, <1>5 DEF Memory, SetNext
  <1>7. m = SetPrev(m1, FreeList, FreeList)
    BY <1>1, <1>5 DEF list_initialize
  <1>8. m \in Memory /\ m[FreeList].next = FreeList /\ m[FreeList].prev = FreeList
    BY <1>3, <1>6, <1>7 DEF Memory, SetPrev
  <1>9. LinkedAs(m, <<>>)
    <2>1. <<>> \in Seq(Slots) /\ Len(<<>>) = 0
      OBVIOUS
    <2>2. \A k : At(<<>>, k) = FreeList
      BY <2>1 DEF At
    <2>3. \A k \in 0..Len(<<>>) :
              m[At(<<>>, k)].next = At(<<>>, k + 1) /\ m[At(<<>>, k + 1)].prev = At(<<>>, k)
      BY <1>8, <2>2
    <2> QED BY <1>8, <2>1, <2>3 DEF LinkedAs
  <1>10. PICK c : c = Chunk(Base, Length)
    OBVIOUS
  <1>11. c \in Chunks /\ c.base = Base /\ c.len = Length
    BY <1>10, HeapSizes, ChunkIs DEF Chunk
  <1>12. Good(<<>>) /\ \A w : w \notin CellsOf(<<>>)
    <2>1. Len(<<>>) = 0 /\ <<>> \in Seq(Chunks)
      OBVIOUS
    <2> QED BY <2>1, CellsOfIs DEF Good
  <1>13. LinkedAs(InsertMem(m, c.base, c.len), InsertFreeChunk(<<>>, c))
    BY <1>9, <1>11, <1>12, InsertMemLinked
  <1> QED BY <1>2, <1>10, <1>11, <1>13 DEF LinkedInv

LEMMA AllocLinked ==
    ASSUME LinkedInv, NEW want \in Requests, NEW al \in {0} \cup Alignments, AllocNext(want, al)
    PROVE  LinkedAs(mem', free')
  <1>1. PICK size, i : size = NeededSize(want, al) /\ i = FirstFit(free, size)
    OBVIOUS
  <1>2. LinkedAs(mem, free) /\ Good(free)
    BY LinkedInvFacts
  <1>3. Found(mem, size) # FreeList <=> i # 0
    BY <1>1, <1>2, FoundIs
  <1>4. /\ Alloc(want, al)
        /\ mem' = IF al \in {0} \cup PowersOfTwo /\ Found(mem, size) # FreeList
                  THEN AllocMem(mem, size) ELSE mem
    BY <1>1 DEF AllocNext
  <1>5. CASE al \in {0} \cup PowersOfTwo /\ i # 0
    <2>1. free' = Rest(free, i, size)
      BY <1>1, <1>4, <1>5 DEF Alloc, AllocFrom
    <2>2. mem' = AllocMem(mem, size)
      BY <1>3, <1>4, <1>5
    <2>3. size \in Int /\ Node <= size
      BY <1>1, <1>5, SizesAre, SizeIs
    <2>4. LinkedAs(AllocMem(mem, size), Rest(free, i, size))
      BY <1>1, <1>2, <1>5, <2>3, AllocMemLinked
    <2> QED BY <2>1, <2>2, <2>4
  <1>6. CASE ~(al \in {0} \cup PowersOfTwo /\ i # 0)
    <2>1. UNCHANGED vars
      BY <1>1, <1>4, <1>6 DEF Alloc
    <2>2. mem' = mem
      BY <1>3, <1>4, <1>6
    <2> QED BY <1>2, <2>1, <2>2 DEF vars
  <1> QED BY <1>5, <1>6

LEMMA FreeBlockLinked ==
    ASSUME LinkedInv, NEW b \in live, FreeBlock(b), mem' = InsertMem(mem, b.base, b.len)
    PROVE  LinkedAs(mem', free')
  <1>1. free' = InsertFreeChunk(free, Chunk(b.base, b.len))
    BY DEF FreeBlock
  <1>2. LinkedAs(InsertMem(mem, b.base, b.len), InsertFreeChunk(free, Chunk(b.base, b.len)))
    BY LinkedInvFacts, FreeLinked
  <1> QED BY <1>1, <1>2

LEMMA ReallocLinked ==
    ASSUME LinkedInv, NEW b \in live, NEW want \in Requests, ReallocNext(b, want)
    PROVE  LinkedAs(mem', free')
  <1>1. PICK size, i, rest : /\ size = NeededSize(want, 0) /\ i = FirstFit(free, size)
                             /\ rest = Rest(free, i, size)
    OBVIOUS
  <1>2. /\ LinkedAs(mem, free) /\ Good(free) /\ BlockOK(b)
        /\ \A w : ~(w \in Cells(b) /\ w \in CellsOf(free))
    BY LinkedInvFacts
  <1>3. Found(mem, size) # FreeList <=> i # 0
    BY <1>1, <1>2, FoundIs
  <1>4. /\ Realloc(b, want)
        /\ mem' = IF want = 0 THEN InsertMem(mem, b.base, b.len)
                  ELSE IF Found(mem, size) = FreeList THEN mem
                  ELSE InsertMem(AllocMem(mem, size), b.base, b.len)
    BY <1>1 DEF ReallocNext
  <1>5. \/ want = 0 /\ FreeBlock(b)
        \/ want > 0 /\ i = 0 /\ UNCHANGED vars
        \/ want > 0 /\ i # 0 /\ free' = InsertFreeChunk(rest, Chunk(b.base, b.len))
    BY <1>1, <1>4 DEF Realloc
  <1>6. want \in Nat
    BY SizesAre
  <1>7. CASE want = 0
    <2>1. FreeBlock(b) /\ mem' = InsertMem(mem, b.base, b.len)
      BY <1>4, <1>5, <1>6, <1>7
    <2> QED BY <2>1, FreeBlockLinked
  <1>8. CASE want # 0 /\ i = 0
    <2>1. UNCHANGED vars /\ mem' = mem
      BY <1>3, <1>4, <1>5, <1>8
    <2> QED BY <1>2, <2>1 DEF vars
  <1>9. CASE want # 0 /\ i # 0
    <2>1. free' = InsertFreeChunk(rest, Chunk(b.base, b.len))
          /\ mem' = InsertMem(AllocMem(mem, size), b.base, b.len)
      BY <1>3, <1>4, <1>5, <1>9
    <2>2. size \in Int /\ Node <= size
      BY <1>1, <1>6, SizeIs
    <2>3. LinkedAs(AllocMem(mem, size), rest)
      BY <1>1, <1>2, <1>9, <2>2, AllocMemLinked
    <2>4. PICK n \in Nat : n = Len(free)
      BY <1>2, GoodFacts
    <2>5. i \in 1..n /\ size <= free[i].len
      <3>1. i \in 0..n /\ free[i].len >= size
        BY <1>1, <1>9, <2>4, FirstFitIs
      <3>2. i \in 1..n
        BY <1>9, <3>1
      <3>3. free[i].len \in Int
        BY <1>2, <2>4, <3>2, GoodFacts, ChunkFacts
      <3> QED BY <2>2, <3>1, <3>2, <3>3
    <2>6. Good(rest) /\ CellsOf(rest) = CellsOf(free) \ Cells(Taken(free[i], size))
      BY <1>1, <1>2, <2>2, <2>4, <2>5, RestGood
    <2>7. LinkedAs(InsertMem(AllocMem(mem, size), b.base, b.len), InsertFreeChunk(rest, Chunk(b.base, b.len)))
      BY <1>2, <2>3, <2>6, FreeLinked
    <2> QED BY <2>1, <2>7
  <1> QED BY <1>7, <1>8, <1>9

LEMMA TrimLinked ==
    ASSUME LinkedInv, Trim, mem' = TrimAll(mem)
    PROVE  LinkedAs(mem', free')
  <1>1. free' = Trimmed(free)
    BY DEF Trim
  <1>2. LinkedAs(TrimAll(mem), Trimmed(free))
    BY LinkedInvFacts, TrimAllLinked
  <1> QED BY <1>1, <1>2

LEMMA LinkedGivesList ==
    ASSUME NEW m, NEW s, LinkedAs(m, s)
    PROVE  /\ IsList(m, FreeList, [i \in DOMAIN s |-> s[i].base])
           /\ \A i \in DOMAIN s : m[s[i].base].len = s[i].len
  <1>1. PICK n, q : n = Len(s) /\ q = [i \in 1..n |-> s[i].base]
    OBVIOUS
  <1>2. s \in Seq(Slots) /\ n \in Nat /\ DOMAIN s = 1..n
    BY <1>1, LenProperties DEF LinkedAs
  <1>3. Len(q) = n /\ \A i \in 1..n : q[i] = s[i].base
    BY <1>1, <1>2
  <1>4. \A k : Nth(FreeList, q, k) = At(s, k)
    BY <1>1, <1>3 DEF Nth, At
  <1>5. \A k \in 0..n : m[At(s, k)].next = At(s, k + 1) /\ m[At(s, k + 1)].prev = At(s, k)
    BY <1>1 DEF LinkedAs
  <1>6. IsList(m, FreeList, q)
    BY <1>3, <1>4, <1>5 DEF IsList
  <1> QED BY <1>1, <1>2, <1>6 DEF LinkedAs

\* The operations of miniheap.c walk, link and cut the list by its pointers:
\* in every reachable state these lead through the chunks of Heap's list, in
\* order and back, and the lengths are in memory.
THEOREM FreeListIsLinked == HLSpec => []FreeListLinked
  <1>1. HLInit => LinkedInv
    BY InitLinked
  <1>2. LinkedInv /\ [HLNext]_hlvars => LinkedInv'
    <2> SUFFICES ASSUME LinkedInv, [HLNext]_hlvars PROVE LinkedInv'
      OBVIOUS
    <2>1. CASE UNCHANGED hlvars
      BY <2>1 DEF LinkedInv, HeapInv, hlvars, vars
    <2>2. ASSUME NEW want \in Requests, NEW al \in {0} \cup Alignments, AllocNext(want, al)
          PROVE  LinkedInv'
      <3>1. HeapInv'
        BY <2>2, AllocInv DEF AllocNext, LinkedInv
      <3> QED BY <2>2, <3>1, AllocLinked DEF LinkedInv
    <2>3. ASSUME NEW b \in live, FreeNext(b) PROVE LinkedInv'
      <3>1. HeapInv'
        BY <2>3, FreeBlockInv DEF FreeNext, LinkedInv
      <3> QED BY <2>3, <3>1, FreeBlockLinked DEF LinkedInv, FreeNext
    <2>4. ASSUME NEW b \in live, NEW want \in Requests, ReallocNext(b, want) PROVE LinkedInv'
      <3>1. HeapInv'
        BY <2>4, ReallocInv DEF ReallocNext, LinkedInv
      <3> QED BY <2>4, <3>1, ReallocLinked DEF LinkedInv
    <2>5. ASSUME Trim, mem' = TrimAll(mem) PROVE LinkedInv'
      <3>1. HeapInv'
        BY <2>5, TrimInv DEF LinkedInv
      <3> QED BY <2>5, <3>1, TrimLinked DEF LinkedInv
    <2> QED BY <2>1, <2>2, <2>3, <2>4, <2>5 DEF HLNext
  <1>3. LinkedInv => FreeListLinked
    BY LinkedGivesList DEF LinkedInv, FreeListLinked
  <1> QED BY <1>1, <1>2, <1>3, PTL DEF HLSpec
=============================================================================
