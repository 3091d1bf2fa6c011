--------------------------- MODULE UserMemProofs ---------------------------
(***************************************************************************)
(* Proofs about physical pages and address spaces, for any number of       *)
(* processes and pages and any size of a page, of careful programs         *)
(* (Risks = {}).                                                           *)
(***************************************************************************)
EXTENDS UserMem, FiniteSetTheorems, FunctionTheorems, TLAPS

-----------------------------------------------------------------------------
(* The free list: kalloc hands out distinct free pages. *)

\* The place of x in S.
Rank(S, x) == Cardinality({y \in S : y < x})

\* Places are distinct, and every place is taken.
LEMMA RankBijective ==
  ASSUME NEW S \in SUBSET Int, IsFiniteSet(S)
  PROVE  /\ Cardinality(S) \in Nat
         /\ \A x \in S : Rank(S, x) \in 0..Cardinality(S) - 1
         /\ \A x, y \in S : Rank(S, x) = Rank(S, y) => x = y
         /\ \A k \in 0..Cardinality(S) - 1 : \E x \in S : Rank(S, x) = k
<1> DEFINE Less(x) == {y \in S : y < x}
<1>1. Cardinality(S) \in Nat  BY FS_CardinalityType
<1>2. ASSUME NEW x \in S
      PROVE  IsFiniteSet(Less(x)) /\ Cardinality(Less(x)) \in Nat
             /\ Cardinality(Less(x)) < Cardinality(S)
  <2>1. Less(x) \in SUBSET S /\ Less(x) # S  BY x \in Less(x) => x < x
  <2>2. IsFiniteSet(Less(x)) /\ Cardinality(Less(x)) <= Cardinality(S)
        /\ Cardinality(S) # Cardinality(Less(x))
    BY <2>1, FS_Subset
  <2>3. Cardinality(Less(x)) \in Nat  BY <2>2, FS_CardinalityType
  <2> QED  BY <1>1, <2>2, <2>3
<1>3. ASSUME NEW x \in S, NEW y \in S, x < y
      PROVE  Cardinality(Less(x)) < Cardinality(Less(y))
  <2>1. Less(x) \in SUBSET Less(y)
    <3>1. \A z \in S : z < x => z < y
      <4> TAKE z \in S
      <4>1. x \in Int /\ y \in Int /\ z \in Int  OBVIOUS
      <4> QED  BY <1>3, <4>1
    <3> QED  BY <3>1
  <2>2. Less(x) # Less(y)
    <3>1. x \in Less(y) /\ x \notin Less(x)  BY <1>3
    <3> QED  BY <3>1
  <2>3. Cardinality(Less(x)) <= Cardinality(Less(y)) /\ Cardinality(Less(y)) # Cardinality(Less(x))
    BY <1>2, <2>1, <2>2, FS_Subset
  <2>4. Cardinality(Less(x)) \in Nat /\ Cardinality(Less(y)) \in Nat  BY <1>2
  <2> QED  BY <2>3, <2>4
<1>4. \A x, y \in S : Cardinality(Less(x)) = Cardinality(Less(y)) => x = y
  <2> SUFFICES ASSUME NEW x \in S, NEW y \in S, Cardinality(Less(x)) = Cardinality(Less(y)), x # y
               PROVE  FALSE
    OBVIOUS
  <2>1. x < y \/ y < x  OBVIOUS
  <2>2. Cardinality(Less(x)) < Cardinality(Less(y)) \/ Cardinality(Less(y)) < Cardinality(Less(x))
    BY <1>3, <2>1
  <2>3. Cardinality(Less(x)) \in Nat /\ Cardinality(Less(y)) \in Nat  BY <1>2
  <2> QED  BY <2>2, <2>3
<1> DEFINE n == Cardinality(S)
           f == [x \in S |-> Cardinality(Less(x))]
<1>5. \A x \in S : Cardinality(Less(x)) \in 0..n - 1  BY <1>1, <1>2
<1>6. f \in [S -> 0..n - 1]  BY <1>5
<1>7. f \in Injection(S, 0..n - 1)
  <2>1. \A x, y \in S : f[x] = f[y] => x = y  BY <1>4
  <2> HIDE DEF f
  <2> QED  BY <1>6, <2>1, Fun_IsInj
<1>8. IsFiniteSet(0..n - 1) /\ Cardinality(0..n - 1) = n
  <2>1. 0 \in Int /\ n - 1 \in Int /\ n \in Nat  BY <1>1
  <2> HIDE DEF n
  <2> QED  BY <2>1, FS_Interval
<1>9. f \in Surjection(S, 0..n - 1)
  <2> HIDE DEF f
  <2> QED  BY <1>7, <1>8, FS_Injection
<1>10. \A k \in 0..n - 1 : \E x \in S : f[x] = k
  <2> HIDE DEF f
  <2> QED  BY <1>9 DEF Surjection
<1>11. \A k \in 0..n - 1 : \E x \in S : Cardinality(Less(x)) = k  BY <1>10
<1> QED  BY <1>1, <1>4, <1>5, <1>11 DEF Rank

USE UserMemAssumption
-----------------------------------------------------------------------------
(* Sizes and page numbers. *)

\* A page number is below the size rounded up when its first address is below the
\* size.
LEMMA RoundUp ==
  ASSUME NEW a \in Nat, NEW v \in Nat
  PROVE  PGROUNDUP(a) \in Nat /\ (v < PGROUNDUP(a) <=> v * PGSIZE < a)
<1>1. PGSIZE \in Nat \ {0}  OBVIOUS
<1> HIDE UserMemAssumption
<1>2. PICK b \in Nat : b = a + PGSIZE - 1  BY <1>1
<1>3. PICK q \in Int : q = b \div PGSIZE  BY <1>1
<1>4. PICK m \in Int : m = PGSIZE * q  BY <1>1
<1>5. m <= b /\ b < m + PGSIZE  BY <1>1, <1>3, <1>4, Z3
<1>6. PICK w \in Int : w = v * PGSIZE  BY <1>1
<1>7. v < q => w + PGSIZE <= m  BY <1>1, <1>4, <1>6, Z3
<1>8. q <= v => m <= w  BY <1>1, <1>4, <1>6, Z3
<1>9. q >= 0
  <2>1. q < 0 => m + PGSIZE <= 0  BY <1>1, <1>4, Z3
  <2> QED  BY <1>1, <1>5, <2>1
<1>10. v < q <=> w < a  BY <1>1, <1>2, <1>5, <1>7, <1>8
<1> QED  BY <1>2, <1>3, <1>6, <1>9, <1>10 DEF PGROUNDUP

\* uvmalloc maps what the new size covers and the old does not.
LEMMA NewPagesAre ==
  ASSUME NEW a \in Nat, NEW b \in Nat
  PROVE  NewPages(a, b) = Below(b) \ Below(a)
<1>1. VA \subseteq Nat  BY DEF VA
<1>2. \A v \in VA : PGROUNDUP(a) \in Nat /\ PGROUNDUP(b) \in Nat
                    /\ (v < PGROUNDUP(b) <=> v * PGSIZE < b)
  BY <1>1, RoundUp
<1>3. \A v \in VA : PGROUNDUP(a) <= v <=> ~(v < PGROUNDUP(a))  BY <1>1, <1>2
<1> QED  BY <1>2, <1>3 DEF NewPages, Below

\* k pages have k page numbers.
LEMMA BelowPages ==
  ASSUME NEW k \in Nat
  PROVE  k * PGSIZE \in Nat /\ Below(k * PGSIZE) = {v \in VA : v < k}
<1>1. PICK a \in Nat : a = k * PGSIZE  OBVIOUS
<1>2. ASSUME NEW v \in VA  PROVE v < PGROUNDUP(a) <=> v < k
  <2>1. v \in Nat /\ PGSIZE \in Nat \ {0}  BY DEF VA
  <2>2. PICK w \in Nat : w = v * PGSIZE  BY <2>1
  <2>3. v < PGROUNDUP(a) <=> w < a  BY <2>1, <2>2, RoundUp
  <2> HIDE UserMemAssumption
  <2>4. v < k => w < a  BY <1>1, <2>1, <2>2, Z3
  <2>5. k <= v => a <= w  BY <1>1, <2>1, <2>2, Z3
  <2> QED  BY <2>1, <2>3, <2>4, <2>5
<1> QED  BY <1>1, <1>2 DEF Below

\* A larger size covers more.
LEMMA BelowMonotonic ==
  ASSUME NEW a \in Nat, NEW b \in Nat, a <= b
  PROVE  Below(a) \subseteq Below(b)
<1>1. ASSUME NEW v \in VA, v < PGROUNDUP(a)  PROVE v < PGROUNDUP(b)
  <2>1. v \in Nat  BY DEF VA
  <2>2. PICK w \in Nat : w = v * PGSIZE  BY <2>1
  <2>3. (v < PGROUNDUP(a) <=> w < a) /\ (v < PGROUNDUP(b) <=> w < b)  BY <2>1, <2>2, RoundUp
  <2> QED  BY <1>1, <2>2, <2>3
<1> QED  BY <1>1 DEF Below
-----------------------------------------------------------------------------
(* kalloc *)

\* kalloc returns free pages, another one each time.
LEMMA KallocFacts ==
  ASSUME free \subseteq Page
  PROVE  /\ Cardinality(free) \in Nat
         /\ Cardinality(free) = 0 => free = {}
         /\ \A k \in 0..Cardinality(free) - 1 : kalloc(k) \in free
         /\ \A j, k \in 0..Cardinality(free) - 1 : kalloc(j) = kalloc(k) => j = k
<1>1. free \in SUBSET Int /\ IsFiniteSet(free)
  <2>1. IsFiniteSet(Page)  BY FS_Interval DEF Page
  <2>2. Page \subseteq Int  BY DEF Page
  <2>3. free \in SUBSET Page  OBVIOUS
  <2> QED  BY ONLY <2>1, <2>2, <2>3, FS_Subset
<1>2. \A k \in 0..Cardinality(free) - 1 : \E x \in free : Rank(free, x) = k
  BY <1>1, RankBijective
<1>3. \A k \in 0..Cardinality(free) - 1 : kalloc(k) \in free /\ Rank(free, kalloc(k)) = k
  BY <1>2 DEF kalloc, Rank
<1>4. Cardinality(free) \in Nat /\ (Cardinality(free) = 0 => free = {})
  BY <1>1, FS_CardinalityType, FS_EmptySet
<1> QED  BY <1>3, <1>4

\* What Taken is, element by element.
LEMMA TakenIs ==
  ASSUME NEW k, NEW g
  PROVE  g \in Taken(k) <=> \E j \in 0..k - 1 : g = kalloc(j)
BY Zenon DEF Taken

\* A mapping made with kalloc: distinct free pages at the given page numbers, and
\* these are the pages taken from the free list.
LEMMA FilledFacts ==
  ASSUME free \subseteq Page, NEW vs \in SUBSET VA, NEW skip \in Nat,
         Enough(skip + Cardinality(vs))
  PROVE  /\ Filled(vs, skip) \in [VA -> Page \cup {None}]
         /\ \A v \in VA : v \notin vs => Filled(vs, skip)[v] = None
         /\ \A v \in vs : Filled(vs, skip)[v] \in free
         /\ \A v, w \in vs : Filled(vs, skip)[v] = Filled(vs, skip)[w] => v = w
         /\ \A v \in vs, j \in 0..skip - 1 : Filled(vs, skip)[v] # kalloc(j)
         /\ Taken(skip) \subseteq free
         /\ Taken(skip + Cardinality(vs)) = Taken(skip) \cup {Filled(vs, skip)[v] : v \in vs}
<1> DEFINE n == Cardinality(vs)
           f == Filled(vs, skip)
<1>1. vs \in SUBSET Int /\ IsFiniteSet(vs)
  <2>1. IsFiniteSet(VA)  BY FS_Interval DEF VA
  <2>2. VA \subseteq Int  BY DEF VA
  <2>3. vs \in SUBSET VA  OBVIOUS
  <2> QED  BY ONLY <2>1, <2>2, <2>3, FS_Subset
<1>2. /\ n \in Nat
      /\ \A v \in vs : Rank(vs, v) \in 0..n - 1
      /\ \A v, w \in vs : Rank(vs, v) = Rank(vs, w) => v = w
      /\ \A k \in 0..n - 1 : \E v \in vs : Rank(vs, v) = k
  BY <1>1, RankBijective
<1>3. \A v \in vs : f[v] = kalloc(skip + Rank(vs, v))  BY DEF Filled, Rank
<1>4. \A v \in VA : v \notin vs => f[v] = None  BY DEF Filled
<1>5. Cardinality(free) \in Nat /\ skip + n <= Cardinality(free)
  BY <1>2, KallocFacts DEF Enough
<1> HIDE DEF n, f
<1>6. \A k \in 0..(skip + n) - 1 : k \in 0..Cardinality(free) - 1  BY <1>2, <1>5
<1>7. \A v \in vs : skip + Rank(vs, v) \in 0..(skip + n) - 1 /\ Rank(vs, v) \in Nat  BY <1>2
<1>8. \A v \in vs : f[v] \in free  BY <1>3, <1>6, <1>7, KallocFacts
<1>9. \A v, w \in vs : f[v] = f[w] => v = w
  <2> SUFFICES ASSUME NEW v \in vs, NEW w \in vs, f[v] = f[w]  PROVE v = w  OBVIOUS
  <2>1. skip + Rank(vs, v) = skip + Rank(vs, w)  BY <1>3, <1>6, <1>7, KallocFacts
  <2>2. Rank(vs, v) = Rank(vs, w)  BY <1>7, <2>1
  <2> QED  BY <1>2, <2>2
<1>10. \A v \in vs, j \in 0..skip - 1 : f[v] # kalloc(j)
  <2> SUFFICES ASSUME NEW v \in vs, NEW j \in 0..skip - 1, f[v] = kalloc(j)  PROVE FALSE  OBVIOUS
  <2>1. j \in 0..(skip + n) - 1  BY <1>2
  <2>2. j = skip + Rank(vs, v)  BY <1>3, <1>6, <1>7, <2>1, KallocFacts
  <2> QED  BY <1>7, <2>2
<1>11. Taken(skip) \subseteq free
  <2>1. \A j \in 0..skip - 1 : j \in 0..(skip + n) - 1  BY <1>2
  <2> QED  BY <1>6, <2>1, KallocFacts DEF Taken
<1>12. Taken(skip + n) = Taken(skip) \cup {f[v] : v \in vs}
  <2>1. \A k \in 0..(skip + n) - 1 : k \in 0..skip - 1 \/ \E v \in vs : k = skip + Rank(vs, v)
    <3> SUFFICES ASSUME NEW k \in 0..(skip + n) - 1, k \notin 0..skip - 1
                 PROVE  \E v \in vs : k = skip + Rank(vs, v)
      OBVIOUS
    <3>1. k - skip \in 0..n - 1  BY <1>2
    <3>2. PICK v \in vs : Rank(vs, v) = k - skip  BY <1>2, <3>1
    <3>3. k = skip + Rank(vs, v)  BY <1>2, <3>2
    <3> QED  BY <3>3
  <2>2. \A k \in 0..skip - 1 : k \in 0..(skip + n) - 1  BY <1>2
  <2>3. Taken(skip + n) \subseteq Taken(skip) \cup {f[v] : v \in vs}
    <3> SUFFICES ASSUME NEW g \in Taken(skip + n)
                 PROVE  g \in Taken(skip) \cup {f[v] : v \in vs}
      OBVIOUS
    <3>0. PICK k \in 0..(skip + n) - 1 : g = kalloc(k)  BY TakenIs, Zenon
    <3>1. CASE k \in 0..skip - 1  BY <3>0, <3>1, TakenIs, Zenon
    <3>2. CASE \E v \in vs : k = skip + Rank(vs, v)
      <4>1. PICK v \in vs : k = skip + Rank(vs, v)  BY <3>2
      <4>2. kalloc(k) = f[v]  BY <1>3, <4>1
      <4> QED  BY <3>0, <4>2
    <3> QED  BY <2>1, <3>1, <3>2
  <2>4. Taken(skip) \subseteq Taken(skip + n)  BY <2>2, TakenIs, Zenon
  <2>5. \A v \in vs : f[v] \in Taken(skip + n)
    <3> TAKE v \in vs
    <3>1. PICK k \in 0..(skip + n) - 1 : k = skip + Rank(vs, v)  BY <1>7
    <3>2. f[v] = kalloc(k)  BY <1>3, <3>1
    <3> QED  BY <3>2, TakenIs, Zenon
  <2> QED  BY <2>3, <2>4, <2>5
<1>13. f \in [VA -> Page \cup {None}]
  <2>1. \A v \in VA : f[v] \in Page \cup {None}  BY <1>4, <1>8
  <2>2. DOMAIN f = VA /\ f = [v \in VA |-> f[v]]  BY DEF f, Filled
  <2> QED  BY <2>1, <2>2
<1> QED  BY <1>4, <1>8, <1>9, <1>10, <1>11, <1>12, <1>13 DEF n, f

\* No page and one page.
LEMMA TakenFew == Taken(0) = {} /\ Taken(1) = {kalloc(0)}
<1>1. 0..0 - 1 = {} /\ 0..1 - 1 = {0}  OBVIOUS
<1> QED  BY <1>1, Zenon DEF Taken

\* The same when no other page is wanted.
LEMMA FilledAll ==
  ASSUME free \subseteq Page, NEW vs \in SUBSET VA, Enough(Cardinality(vs))
  PROVE  /\ \A v \in vs : Filled(vs, 0)[v] \in free
         /\ \A v, w \in vs : Filled(vs, 0)[v] = Filled(vs, 0)[w] => v = w
         /\ Taken(Cardinality(vs)) = {Filled(vs, 0)[v] : v \in vs}
<1>1. Cardinality(vs) \in Nat
  <2>1. IsFiniteSet(VA)  BY FS_Interval DEF VA
  <2>2. vs \in SUBSET VA  OBVIOUS
  <2>3. IsFiniteSet(vs)  BY ONLY <2>1, <2>2, FS_Subset
  <2> QED  BY <2>3, FS_CardinalityType
<1>2. Cardinality(vs) = 0 + Cardinality(vs) /\ 0 \in Nat  BY <1>1
<1>3. Enough(0 + Cardinality(vs))  BY <1>2
<1>4. /\ \A v \in vs : Filled(vs, 0)[v] \in free
      /\ \A v, w \in vs : Filled(vs, 0)[v] = Filled(vs, 0)[w] => v = w
      /\ Taken(0 + Cardinality(vs)) = Taken(0) \cup {Filled(vs, 0)[v] : v \in vs}
  BY ONLY free \subseteq Page, vs \in SUBSET VA, <1>2, <1>3, FilledFacts, Zenon
<1> DEFINE f == Filled(vs, 0)
           t == Taken(Cardinality(vs))
<1>5. t = {f[v] : v \in vs}  BY <1>2, <1>4, TakenFew
<1> QED  BY <1>4, <1>5
-----------------------------------------------------------------------------
(* Who owns a page. *)

\* When the pages of one slot change, new ones come off the free list and the others
\* go back to it, every page is still free or owned, once.
LEMMA OneSlot ==
  ASSUME NEW own, NEW own2, NEW s \in Slot, NEW f, NEW f2 \in SUBSET Page,
         Partition(own, f),
         \A p \in Slot : p # s => own2[p] = own[p],
         \A x \in Ref : own2[s][x] \in f \/ own2[s][x] = own[s][x] \/ own2[s][x] = None,
         \A x, y \in Ref : own2[s][x] = own2[s][y] /\ own2[s][x] # None => x = y,
         \A g \in Page : g \in f2 <=> /\ g \in f \/ \E x \in Ref : own[s][x] = g
                                      /\ \A x \in Ref : own2[s][x] # g
  PROVE  Partition(own2, f2)
<1>1. None \notin Page /\ f \subseteq Page  BY DEF None, Page, Partition
<1>2. ASSUME NEW p \in Slot, NEW q \in Slot, NEW x \in Ref, NEW y \in Ref,
             own2[p][x] = own2[q][y], own2[p][x] # None
      PROVE  p = q /\ x = y
  <2>1. CASE p = s /\ q = s  BY <1>2, <2>1
  <2>2. CASE p # s /\ q # s  BY <1>2, <2>2 DEF Partition
  <2>3. CASE p = s /\ q # s  BY <1>2, <2>3 DEF Partition
  <2>4. CASE p # s /\ q = s  BY <1>2, <2>4 DEF Partition
  <2> QED  BY <2>1, <2>2, <2>3, <2>4
<1>3. ASSUME NEW p \in Slot, NEW x \in Ref, own2[p][x] \in f2  PROVE FALSE
  <2>1. own2[p][x] \in Page /\ own2[p][x] # None  BY <1>1, <1>3
  <2>2. p # s  BY <1>3, <2>1
  <2>3. own[p][x] = own2[p][x]  BY <2>2
  <2>4. own[p][x] \in f \/ \E y \in Ref : own[s][y] = own[p][x]  BY <1>3, <2>1, <2>3
  <2> QED  BY <2>1, <2>2, <2>3, <2>4 DEF Partition
<1>4. ASSUME NEW g \in Page, g \notin f2  PROVE \E p \in Slot, x \in Ref : own2[p][x] = g
  <2>1. CASE \E x \in Ref : own2[s][x] = g  BY <2>1
  <2>2. CASE \A x \in Ref : own2[s][x] # g
    <3>1. g \notin f /\ \A x \in Ref : own[s][x] # g  BY <1>4, <2>2
    <3>2. PICK p \in Slot, x \in Ref : own[p][x] = g  BY <3>1 DEF Partition
    <3>3. p # s  BY <3>1, <3>2
    <3> QED  BY <3>2, <3>3
  <2> QED  BY <2>1, <2>2
<1> QED  BY <1>2, <1>3, <1>4 DEF Partition

\* p owns page g.
Has(p, g) == kpage[p] = g \/ stack[p] = g \/ (Lead(p) /\ \E v \in VA : map[p][v] = g)

\* The columns of owned, before and after a step.
LEMMA Columns ==
  /\ \A x \in Ref : x = -2 \/ x = -1 \/ x \in VA
  /\ -2 \in Ref /\ -1 \in Ref /\ -2 \notin VA /\ -1 \notin VA /\ VA \subseteq Ref /\ -2 # -1
  /\ \A p \in Slot : /\ owned[p][-2] = kpage[p] /\ owned[p][-1] = stack[p]
                     /\ \A v \in VA : owned[p][v] = IF Lead(p) THEN map[p][v] ELSE None
  /\ \A p \in Slot : /\ owned'[p][-2] = kpage'[p] /\ owned'[p][-1] = stack'[p]
                     /\ \A v \in VA : owned'[p][v] = IF Lead(p)' THEN map'[p][v] ELSE None
<1>1. /\ \A x \in Ref : x = -2 \/ x = -1 \/ x \in VA
      /\ -2 \in Ref /\ -1 \in Ref /\ -2 \notin VA /\ -1 \notin VA /\ VA \subseteq Ref /\ -2 # -1
  BY DEF Ref, VA
<1>2. \A v \in VA : v >= 0 /\ v # -2 /\ v # -1  BY DEF VA
<1>3. ASSUME NEW p \in Slot
      PROVE  /\ owned[p][-2] = kpage[p] /\ owned[p][-1] = stack[p]
             /\ \A v \in VA : owned[p][v] = IF Lead(p) THEN map[p][v] ELSE None
  BY <1>1, <1>2 DEF owned, Owned
<1>4. ASSUME NEW p \in Slot
      PROVE  /\ owned'[p][-2] = kpage'[p] /\ owned'[p][-1] = stack'[p]
             /\ \A v \in VA : owned'[p][v] = IF Lead(p)' THEN map'[p][v] ELSE None
  BY <1>1, <1>2 DEF owned, Owned
<1> QED  BY <1>1, <1>3, <1>4

\* The same for a step that changes what slot s owns.
LEMMA OwnStep ==
  ASSUME TypeOK, OwnInv, NEW s \in Slot, free' \in SUBSET Page,
         \A p \in Slot : p # s => /\ kpage'[p] = kpage[p] /\ stack'[p] = stack[p]
                                  /\ Lead(p)' <=> Lead(p)
                                  /\ Lead(p) => map'[p] = map[p],
         kpage'[s] \in free \/ kpage'[s] \in {None, kpage[s]},
         stack'[s] \in free \/ stack'[s] \in {None, stack[s]},
         kpage'[s] = stack'[s] => kpage'[s] = None,
         Lead(s)' => \A v \in VA : /\ \/ map'[s][v] \in free \/ map'[s][v] = None
                                      \/ Lead(s) /\ map'[s][v] = map[s][v]
                                   /\ map'[s][v] \in {kpage'[s], stack'[s]} => map'[s][v] = None,
         Lead(s)' => \A v, w \in VA : map'[s][v] = map'[s][w] /\ map'[s][v] # None => v = w,
         \A g \in Page : g \in free' <=> (g \in free \/ Has(s, g)) /\ ~Has(s, g)'
  PROVE  OwnInv'
<1>1. \A p \in Slot : p # s => owned'[p] = owned[p]
  <2> TAKE p \in Slot
  <2> HAVE p # s
  <2>1. owned[p] = Owned(p) /\ owned'[p] = Owned(p)'  BY DEF owned
  <2>2. CASE Lead(p)
    <3>1. Lead(p)' /\ map'[p] = map[p] /\ kpage'[p] = kpage[p] /\ stack'[p] = stack[p]  BY <2>2
    <3>2. Owned(p)' = Owned(p)  BY <2>2, <3>1 DEF Owned
    <3> QED  BY <2>1, <3>2
  <2>3. CASE ~Lead(p)
    <3>1. ~Lead(p)' /\ kpage'[p] = kpage[p] /\ stack'[p] = stack[p]  BY <2>3
    <3>2. Owned(p)' = Owned(p)  BY <2>3, <3>1 DEF Owned
    <3> QED  BY <2>1, <3>2
  <2> QED  BY <2>2, <2>3
<1>2. \A x \in Ref : owned'[s][x] \in free \/ owned'[s][x] = owned[s][x] \/ owned'[s][x] = None
  <2> TAKE x \in Ref
  <2>1. CASE x \in {-2, -1}  BY <2>1, Columns
  <2>2. CASE x \in VA  BY <2>2, Columns
  <2> QED  BY <2>1, <2>2, Columns
<1>3. \A x, y \in Ref : owned'[s][x] = owned'[s][y] /\ owned'[s][x] # None => x = y
  <2> TAKE x, y \in Ref
  <2>1. CASE x \in {-2, -1} /\ y \in {-2, -1}  BY <2>1, Columns
  <2>2. CASE x \in VA /\ y \in VA  BY <2>2, Columns
  <2>3. CASE x \in VA /\ y \in {-2, -1}  BY <2>3, Columns
  <2>4. CASE x \in {-2, -1} /\ y \in VA  BY <2>4, Columns
  <2> QED  BY <2>1, <2>2, <2>3, <2>4, Columns
<1>4. \A g \in Page : Has(s, g) <=> \E x \in Ref : owned[s][x] = g
  <2> TAKE g \in Page
  <2>0. g # None  BY DEF Page, None
  <2>1. Has(s, g) => \E x \in Ref : owned[s][x] = g  BY Columns DEF Has
  <2>2. ASSUME NEW x \in Ref, owned[s][x] = g  PROVE Has(s, g)
    <3>1. CASE x \in {-2, -1}  BY <2>2, <3>1, Columns DEF Has
    <3>2. CASE x \in VA  BY <2>0, <2>2, <3>2, Columns DEF Has
    <3> QED  BY <3>1, <3>2, Columns
  <2> QED  BY <2>1, <2>2
<1>5. \A g \in Page : Has(s, g)' <=> \E x \in Ref : owned'[s][x] = g
  <2> TAKE g \in Page
  <2>0. g # None  BY DEF Page, None
  <2>1. Has(s, g)' => \E x \in Ref : owned'[s][x] = g  BY Columns DEF Has
  <2>2. ASSUME NEW x \in Ref, owned'[s][x] = g  PROVE Has(s, g)'
    <3>1. CASE x \in {-2, -1}  BY <2>2, <3>1, Columns DEF Has
    <3>2. CASE x \in VA  BY <2>0, <2>2, <3>2, Columns DEF Has
    <3> QED  BY <3>1, <3>2, Columns
  <2> QED  BY <2>1, <2>2
<1>6. \A g \in Page : g \in free' <=> /\ g \in free \/ \E x \in Ref : owned[s][x] = g
                                      /\ \A x \in Ref : owned'[s][x] # g
  BY <1>4, <1>5
<1>7. Partition(owned, free)  BY DEF OwnInv
<1>8. Partition(owned', free')  BY ONLY <1>1, <1>2, <1>3, <1>6, <1>7, s \in Slot, free' \in SUBSET Page, OneSlot
<1> QED  BY <1>8 DEF OwnInv

\* What the owner of a page can rely on.
LEMMA OwnFacts ==
  ASSUME OwnInv, NEW p \in Slot
  PROVE  /\ kpage[p] \notin free /\ stack[p] \notin free
         /\ kpage[p] = stack[p] => kpage[p] = None
         /\ \A q \in Slot : kpage[p] # None /\ q # p => kpage[p] \notin {kpage[q], stack[q]}
         /\ \A q \in Slot : stack[p] # None /\ q # p => stack[p] \notin {kpage[q], stack[q]}
         /\ Lead(p) => \A v \in VA : map[p][v] \notin free
         /\ Lead(p) => \A v \in VA, q \in Slot :
              map[p][v] \in {kpage[q], stack[q]} => map[p][v] = None
         /\ Lead(p) => \A q \in Slot, v, w \in VA :
              Lead(q) /\ map[p][v] = map[q][w] /\ map[p][v] # None => p = q /\ v = w
<1>1. /\ \A q \in Slot, x \in Ref : owned[q][x] \notin free
      /\ \A q, r \in Slot, x, y \in Ref :
           owned[q][x] = owned[r][y] /\ owned[q][x] # None => q = r /\ x = y
  BY DEF OwnInv, Partition
<1>2. /\ -2 \in Ref /\ -1 \in Ref /\ -2 # -1 /\ -2 \notin VA /\ -1 \notin VA /\ VA \subseteq Ref
      /\ \A q \in Slot : owned[q][-2] = kpage[q] /\ owned[q][-1] = stack[q]
      /\ \A q \in Slot : Lead(q) => \A v \in VA : owned[q][v] = map[q][v]
  BY Columns
<1> QED  BY ONLY <1>1, <1>2, p \in Slot

\* A step that moves no page.
LEMMA OwnSame ==
  ASSUME TypeOK, OwnInv, UNCHANGED <<free, kpage, stack>>,
         \A p \in Slot : (Lead(p)' <=> Lead(p)) /\ (Lead(p) => map'[p] = map[p])
  PROVE  OwnInv'
<1>1. \A p \in Slot : Owned(p)' = Owned(p)
  <2> TAKE p \in Slot
  <2>1. CASE Lead(p)
    <3>1. Lead(p)' /\ map'[p] = map[p] /\ kpage'[p] = kpage[p] /\ stack'[p] = stack[p]  BY <2>1
    <3> QED  BY <2>1, <3>1 DEF Owned
  <2>2. CASE ~Lead(p)
    <3>1. ~Lead(p)' /\ kpage'[p] = kpage[p] /\ stack'[p] = stack[p]  BY <2>2
    <3> QED  BY <2>2, <3>1 DEF Owned
  <2> QED  BY <2>1, <2>2
<1>2. owned' = owned  BY <1>1 DEF owned
<1> QED  BY <1>2 DEF OwnInv
-----------------------------------------------------------------------------
(* Groups. *)

\* A call of a live process is about a leader that lives.
LEMMA Members ==
  ASSUME TypeOK, SlotInv
  PROVE  /\ \A p \in Slot : Leader(p) \in Slot
         /\ \A p \in Slot : state[p] = "LIVE" =>
              state[Leader(p)] = "LIVE" /\ father[Leader(p)] = None /\ Lead(Leader(p))
         /\ \A p \in Slot : pc[p] # "user" => state[p] = "LIVE"
         /\ \A p \in Slot : father[p] = None => Leader(p) = p
         /\ \A p \in Slot : father[p] # None => Leader(p) = father[p] /\ father[p] \in Slot
         /\ \A p \in Slot : np[p] # None => np[p] \in Slot /\ state[np[p]] = "USED" /\ state[p] = "LIVE"
BY DEF TypeOK, SlotInv, Leader, Lead

\* Nobody of a quiet group is in a call.
LEMMA QuietGroup ==
  ASSUME TypeOK, SlotInv, SizeInv, NEW L \in Slot, Quiet(L)
  PROVE  /\ \A p \in Slot : Leader(p) = L => pc[p] = "user" /\ np[p] = None
         /\ Lead(L) => Mapped(L) = Below(sz[L])
<1>1. \A p \in Slot : Leader(p) = L => pc[p] = "user"
  <2> SUFFICES ASSUME NEW p \in Slot, Leader(p) = L, pc[p] # "user"  PROVE FALSE  OBVIOUS
  <2>1. state[p] # "UNUSED"  BY Members
  <2> QED  BY <2>1 DEF Quiet, Group
<1>2. \A p \in Slot : Leader(p) = L => np[p] = None  BY <1>1 DEF SlotInv
<1>3. \A p \in Slot : Resizing(p) => Leader(p) # L  BY <1>1 DEF Resizing
<1> QED  BY <1>1, <1>2, <1>3 DEF SizeInv

\* The only member of a group has no threads.
LEMMA AloneGroup ==
  ASSUME TypeOK, SlotInv, NEW L \in Slot, Group(L) = {L}
  PROVE  /\ \A q \in Slot : father[q] # L
         /\ \A q \in Slot : Leader(q) = L => q = L
<1>1. ASSUME NEW q \in Slot, father[q] = L  PROVE FALSE
  <2>1. L # None  BY DEF Slot, None
  <2>2. state[q] # "UNUSED" /\ Leader(q) = L /\ father[L] = None
    BY <1>1, <2>1 DEF SlotInv, Leader
  <2>3. q = L  BY <2>2 DEF Group
  <2> QED  BY <1>1, <2>1, <2>2, <2>3
<1>2. ASSUME NEW q \in Slot, Leader(q) = L, q # L  PROVE FALSE
  BY <1>1, <1>2 DEF Leader
<1> QED  BY <1>1, <1>2

\* Zombies and threads lead nobody.
LEMMA NoFollowers ==
  ASSUME TypeOK, SlotInv, NEW p \in Slot, state[p] # "LIVE" \/ father[p] # None
  PROVE  \A r \in Slot : father[r] # p
<1>1. p # None /\ None \notin Slot  BY DEF Slot, None
<1>2. \A r \in Slot : father[r] # None => state[father[r]] = "LIVE" /\ father[father[r]] = None
  BY DEF SlotInv
<1> QED  BY <1>1, <1>2

\* A follower and its leader that a step leaves alone share as before.
LEMMA SharesStill ==
  ASSUME NEW q \in Slot, NEW L \in Slot, Shares(q, L),
         sz'[q] = sz[q], sz'[L] = sz[L], map'[q] = map[q], map'[L] = map[L],
         guard'[L] = guard[L], \A v \in VA : Unshared(L, v) => Unshared(L, v)'
  PROVE  Shares(q, L)'
BY DEF Shares
-----------------------------------------------------------------------------
(* Every step preserves the invariant. *)

\* The sizes of the tables.
LEMMA Bounds ==
  /\ 1 \in Slot /\ 0 \notin Slot /\ Slot \subseteq Nat
  /\ 1..4 \subseteq Page /\ 5..NPages \subseteq Page /\ Page \subseteq Nat /\ 0 \notin Page
  /\ \A g \in Page : g \in 5..NPages \/ g \in 1..4
  /\ 0..2 \subseteq VA /\ VA \subseteq Nat /\ VA \subseteq Ref /\ -2 \in Ref
  /\ 3 * PGSIZE \in Nat
BY DEF Slot, Page, VA, Ref

\* userinit establishes it.
LEMMA InitIInv == Init => IInv
<1> SUFFICES ASSUME Init PROVE IInv  OBVIOUS
<1> HIDE UserMemAssumption
<1> USE Bounds DEF initproc, None
<1>1. TypeOK
  <2>1. map \in [Slot -> [VA -> Page \cup {None}]]
    <3>1. ASSUME NEW p \in Slot, NEW v \in VA
          PROVE  (IF p = initproc /\ v < 3 THEN v + 2 ELSE None) \in Page \cup {None}
      <4>1. v \in Nat  OBVIOUS
      <4>2. v < 3 => v + 2 \in 1..4  BY <4>1
      <4> QED  BY <4>2
    <3> QED  BY <3>1 DEF Init
  <2>2. guard \in [Slot -> SUBSET VA]
    <3>1. 1 \in 0..2  OBVIOUS
    <3>2. {1} \in SUBSET VA  BY <3>1
    <3> QED  BY <3>2 DEF Init
  <2>3. sz \in [Slot -> Nat]
    <3>1. PICK a \in Nat : a = 3 * PGSIZE  OBVIOUS
    <3> QED  BY <3>1 DEF Init
  <2>4. free \subseteq Page /\ kpage \in [Slot -> Page \cup {None}]
    <3>1. 1 \in 1..4  OBVIOUS
    <3>2. 1 \in Page  BY <3>1
    <3> QED  BY <3>2 DEF Init
  <2> QED  BY <2>1, <2>2, <2>3, <2>4 DEF TypeOK, Init
<1>2. SlotInv  BY DEF SlotInv, Init
<1>3. CallInv  BY DEF CallInv, Init
<1>4. SizeInv
  <2>1. \A p \in Slot : ~Resizing(p) /\ pc[p] # "share"  BY DEF Resizing, Init
  <2>2. Mapped(initproc) = Below(sz[initproc])
    <3>1. Below(3 * PGSIZE) = {v \in VA : v < 3}  BY BelowPages
    <3>2. sz[initproc] = 3 * PGSIZE  BY DEF Init
    <3>3. \A v \in VA : map[initproc][v] # None <=> v < 3
      <4> TAKE v \in VA
      <4>1. v \in Nat /\ v + 2 # 0  OBVIOUS
      <4>2. map[initproc][v] = IF v < 3 THEN v + 2 ELSE None  BY DEF Init
      <4> QED  BY <4>1, <4>2
    <3> QED  BY <3>1, <3>2, <3>3 DEF Mapped
  <2>3. \A L \in Slot : Lead(L) => L = initproc  BY DEF Lead, Init
  <2> QED  BY <2>1, <2>2, <2>3 DEF SizeInv
<1>5. ShareInv  BY DEF ShareInv, Init
<1>8. GuardInv
  <2>1. \A p \in Slot : ~Resizing(p)  BY DEF Resizing, Init
  <2>2. Below(3 * PGSIZE) = {v \in VA : v < 3}  BY BelowPages
  <2>3. 1 \in 0..2 /\ 1 < 3  OBVIOUS
  <2>4. {1} \subseteq Below(3 * PGSIZE)  BY <2>2, <2>3
  <2> QED  BY <2>1, <2>4 DEF GuardInv, Lead, Init
<1>6. OwnInv
  <2>1. \A p \in Slot : Lead(p) <=> p = initproc  BY DEF Lead, Init
  <2>2. \A p \in Slot, x \in Ref :
          owned[p][x] = IF p = initproc THEN (IF x = -2 THEN 1 ELSE IF x \in 0..2 THEN x + 2 ELSE None)
                        ELSE None
    <3> TAKE p \in Slot, x \in Ref
    <3>1. CASE x \in {-2, -1}
      <4>1. x \notin 0..2 /\ -2 # -1  BY <3>1
      <4>2. kpage[p] = (IF p = initproc THEN 1 ELSE None) /\ stack[p] = None  BY DEF Init
      <4>3. owned[p][-2] = kpage[p] /\ owned[p][-1] = stack[p]  BY Columns
      <4> QED  BY ONLY <3>1, <4>1, <4>2, <4>3
    <3>2. CASE x \in VA
      <4>1. owned[p][x] = IF p = initproc THEN map[p][x] ELSE None  BY <2>1, <3>2, Columns
      <4>2. x \in Nat  BY <3>2
      <4>3. (x < 3 <=> x \in 0..2) /\ x # -2  BY <4>2
      <4>4. map[p][x] = IF p = initproc /\ x < 3 THEN x + 2 ELSE None  BY <3>2 DEF Init
      <4> QED  BY <4>1, <4>3, <4>4
    <3> QED  BY <3>1, <3>2, Columns
  <2>3. \A p \in Slot, x \in Ref : owned[p][x] # None =>
          /\ p = initproc /\ x \in {-2} \cup 0..2
          /\ owned[p][x] = IF x = -2 THEN 1 ELSE x + 2
    BY <2>2
  <2>4. free \subseteq Page /\ \A p \in Slot, x \in Ref : owned[p][x] \notin free
    <3>1. \A x \in {-2} \cup 0..2 : (IF x = -2 THEN 1 ELSE x + 2) \notin 5..NPages  OBVIOUS
    <3>2. None \notin 5..NPages  OBVIOUS
    <3>3. \A p \in Slot, x \in Ref : owned[p][x] \notin 5..NPages  BY ONLY <2>3, <3>1, <3>2
    <3> QED  BY <3>3 DEF Init
  <2>5. \A p, q \in Slot, x, y \in Ref :
          owned[p][x] = owned[q][y] /\ owned[p][x] # None => p = q /\ x = y
    <3>1. \A x, y \in {-2} \cup 0..2 :
            (IF x = -2 THEN 1 ELSE x + 2) = (IF y = -2 THEN 1 ELSE y + 2) => x = y
      OBVIOUS
    <3> QED  BY ONLY <2>3, <3>1
  <2>6. \A g \in Page : g \in free \/ \E p \in Slot, x \in Ref : owned[p][x] = g
    <3> SUFFICES ASSUME NEW g \in Page, g \notin free
                 PROVE  \E x \in Ref : owned[initproc][x] = g
      OBVIOUS
    <3>1. g \in 1..4  BY DEF Init
    <3>2. CASE g = 1
      <4>1. owned[initproc][-2] = 1  BY <2>2
      <4> QED  BY <2>3, <3>2, <4>1
    <3>3. CASE g \in 2..4
      <4>1. g - 2 \in 0..2 /\ g - 2 # -2 /\ (g - 2) + 2 = g  BY <3>3
      <4>2. owned[initproc][g - 2] = g  BY <2>2, <4>1
      <4> QED  BY <2>3, <4>1, <4>2
    <3> QED  BY <3>1, <3>2, <3>3
  <2> QED  BY <2>4, <2>5, <2>6 DEF OwnInv, Partition
<1>7. PanicOnlyOom  BY DEF PanicOnlyOom, Init
<1> QED  BY <1>1, <1>2, <1>3, <1>4, <1>5, <1>6, <1>7, <1>8 DEF IInv

HIDE UserMemAssumption

\* fork gives the child pages of its own.
LEMMA ForkStep ==
  ASSUME IInv, Risks = {}, NEW p \in Slot, Fork(p)
  PROVE  IInv'
<1>0. TypeOK /\ SlotInv /\ CallInv /\ SizeInv /\ GuardInv /\ ShareInv /\ OwnInv /\ PanicOnlyOom
  BY DEF IInv
<1>1. state[p] = "LIVE" /\ father[p] = None /\ Leader(p) = p /\ Quiet(p)
  <2>1. father[p] = None /\ Quiet(Leader(p))  BY DEF Fork, Careful
  <2> QED  BY <2>1 DEF Fork, Enter, Leader
<1>2. Mapped(p) = Below(sz[p])  BY <1>0, <1>1, QuietGroup DEF Lead
<1> DEFINE vs == Below(sz[p])
           m == Filled(vs, 1)
<1>3. PICK q \in Slot :
        /\ state[q] = "UNUSED"
        /\ state' = [state EXCEPT ![q] = "LIVE"]
        /\ kpage' = [kpage EXCEPT ![q] = kalloc(0)]
        /\ map' = [map EXCEPT ![q] = m]
        /\ guard' = [guard EXCEPT ![q] = guard[p]]
        /\ sz' = [sz EXCEPT ![q] = sz[p]]
        /\ free' = free \ Taken(1 + Cardinality(vs))
        /\ Enough(1 + Cardinality(vs))
        /\ UNCHANGED <<father, stack, pc, oldsz, newsz, np, panic>>
  BY <1>2 DEF Fork, Panic, Copied, frame
<1>4. vs \in SUBSET VA  BY DEF Below
<1>5. /\ m \in [VA -> Page \cup {None}]
      /\ \A v \in VA : v \notin vs => m[v] = None
      /\ \A v \in vs : m[v] \in free
      /\ \A v, w \in vs : m[v] = m[w] => v = w
      /\ \A v \in vs : m[v] # kalloc(0)
      /\ kalloc(0) \in free
      /\ free' = free \ ({kalloc(0)} \cup {m[v] : v \in vs})
  <2>1. free \subseteq Page /\ 0 \in 0..1 - 1 /\ 1 \in Nat  BY <1>0 DEF TypeOK
  <2>2. /\ m \in [VA -> Page \cup {None}]
        /\ \A v \in VA : v \notin vs => m[v] = None
        /\ \A v \in vs : m[v] \in free
        /\ \A v, w \in vs : m[v] = m[w] => v = w
        /\ \A v \in vs, j \in 0..1 - 1 : m[v] # kalloc(j)
        /\ Taken(1) \subseteq free
        /\ Taken(1 + Cardinality(vs)) = Taken(1) \cup {m[v] : v \in vs}
    BY ONLY <1>3, <1>4, <2>1, FilledFacts, Zenon
  <2> HIDE DEF vs, m
  <2> QED  BY <1>3, <2>1, <2>2, TakenFew
<1> HIDE DEF m
<1>6. free \subseteq Page /\ None \notin Page /\ None \notin free  BY <1>0, Bounds DEF TypeOK, None
<1>7. /\ q # p /\ kpage[q] = None /\ stack[q] = None /\ father[q] = None /\ pc[q] = "user"
      /\ \A r \in Slot : father[r] # q /\ np[r] # q
      /\ \A r \in Slot : pc[r] # "user" => Leader(r) # q
  <2>1. q # p /\ kpage[q] = None /\ stack[q] = None /\ father[q] = None /\ pc[q] = "user"
        /\ \A r \in Slot : father[r] # q /\ np[r] # q
    BY <1>0, <1>1, <1>3, Bounds DEF SlotInv, TypeOK, None
  <2> QED  BY <1>0, <1>3, <2>1, Members
<1>8. TypeOK'  BY <1>0, <1>3, <1>5 DEF TypeOK
<1>9. \A r \in Slot : Leader(r)' = Leader(r)  BY <1>3 DEF Leader
<1>10. SlotInv'  BY <1>0, <1>3, <1>6, <1>5, <1>7 DEF TypeOK, SlotInv
<1>11. CallInv'  BY <1>0, <1>3, <1>9 DEF CallInv
<1>12. SizeInv'
  <2>1. \A r \in Slot : r # q => Mapped(r)' = Mapped(r) /\ sz'[r] = sz[r] /\ (Lead(r)' <=> Lead(r))
    BY <1>0, <1>3 DEF TypeOK, Mapped, Lead
  <2>2. Mapped(q)' = Below(sz'[q])
    BY <1>0, <1>3, <1>4, <1>5, <1>6 DEF TypeOK, Mapped
  <2>3. \A r \in Slot : (Resizing(r)' <=> Resizing(r)) /\ Leader(r) \in Slot
    BY <1>0, <1>3, Members DEF Resizing
  <2>4. \A r \in Slot : Resizing(r) \/ pc[r] = "share" => Leader(r) # q  BY <1>7 DEF Resizing
  <2> QED  BY <1>0, <1>3, <1>9, <2>1, <2>2, <2>3, <2>4 DEF SizeInv
<1>16. GuardInv'
  <2>1. Lead(p)  BY <1>1 DEF Lead
  <2>2. \A r \in Slot : Resizing(r)' => Resizing(r) /\ Leader(r) \in Slot /\ Leader(r) # q
    BY <1>0, <1>3, <1>7, Members DEF Resizing
  <2> QED  BY <1>0, <1>3, <1>9, <2>1, <2>2 DEF TypeOK, GuardInv, Lead
<1>13. ShareInv'
  <2>1. \A L \in Slot, v \in VA : Unshared(L, v)' <=> Unshared(L, v)  BY <1>3, <1>9 DEF Unshared
  <2>2. ASSUME NEW r \in Slot, NEW L \in Slot, r # q, L # q, Shares(r, L)  PROVE Shares(r, L)'
    BY <1>0, <1>3, <2>1, <2>2, SharesStill DEF TypeOK
  <2>3. \A r \in Slot : father[r] # None => r # q /\ father[r] \in Slot /\ father[r] # q
    BY <1>0, <1>7 DEF TypeOK
  <2>4. \A r \in Slot : np[r] # None => np[r] \in Slot /\ np[r] # q /\ Leader(r) \in Slot /\ Leader(r) # q
    BY <1>0, <1>7, Members DEF SlotInv
  <2> QED  BY <1>0, <1>3, <1>9, <2>2, <2>3, <2>4 DEF ShareInv
<1>14. OwnInv'
  <2>1. free' \in SUBSET Page  BY <1>5, <1>6
  <2>2. \A r \in Slot : r # q => /\ kpage'[r] = kpage[r] /\ stack'[r] = stack[r]
                                 /\ Lead(r)' <=> Lead(r)
                                 /\ Lead(r) => map'[r] = map[r]
    BY <1>0, <1>3 DEF TypeOK, Lead
  <2>3. kpage'[q] = kalloc(0) /\ stack'[q] = None /\ map'[q] = m /\ ~Lead(q)
    BY <1>0, <1>3, <1>7 DEF TypeOK, Lead
  <2>4. \A v, w \in VA : m[v] = m[w] /\ m[v] # None => v = w  BY <1>5
  <2>5. \A g \in Page : ~Has(q, g)  BY <1>6, <1>7, <2>3 DEF Has
  <2>6. \A g \in Page : Has(q, g)' <=> g = kalloc(0) \/ \E v \in vs : m[v] = g
    BY <1>0, <1>3, <1>4, <1>5, <1>6, <1>7, <2>3 DEF Has, Lead, TypeOK
  <2>7. \A g \in Page : g \in free' <=> (g \in free \/ Has(q, g)) /\ ~Has(q, g)'
    BY <1>5, <2>5, <2>6
  <2>8. \A v \in VA : m[v] \in free \/ m[v] = None  BY <1>5
  <2>9. \A v \in VA : m[v] # None => m[v] # kalloc(0)  BY <1>5
  <2> QED  BY <1>0, <1>5, <1>6, <2>1, <2>2, <2>3, <2>4, <2>7, <2>8, <2>9, OwnStep
<1>15. PanicOnlyOom'
  <2>1. panic = ""  BY DEF Fork, Enter, At
  <2> QED  BY <1>3, <2>1 DEF PanicOnlyOom
<1> QED  BY <1>8, <1>10, <1>11, <1>12, <1>13, <1>14, <1>15, <1>16 DEF IInv

\* exec replaces the address space of a process without threads.
LEMMA ExecStep ==
  ASSUME IInv, Risks = {}, NEW p \in Slot, NEW size \in Image, Exec(p, size)
  PROVE  IInv'
<1>0. TypeOK /\ SlotInv /\ CallInv /\ SizeInv /\ GuardInv /\ ShareInv /\ OwnInv /\ PanicOnlyOom
  BY DEF IInv
<1> DEFINE top == PGROUNDUP(size) + 2
           vs == 0..top - 1
           m == Filled(vs, 0)
<1>1. state[p] = "LIVE" /\ father[p] = None /\ Leader(p) = p /\ Quiet(p) /\ Group(p) = {p}
      /\ pc[p] = "user" /\ panic = "" /\ Lead(p)
  <2>1. father[p] = None /\ Quiet(Leader(p)) /\ Group(Leader(p)) = {p}  BY DEF Exec, Careful
  <2> QED  BY <2>1 DEF Exec, Enter, At, Leader, Lead
<1>2. Mapped(p) = Below(sz[p]) /\ stack[p] = None
  BY <1>0, <1>1, QuietGroup DEF SlotInv
<1>3. /\ map' = [map EXCEPT ![p] = m]
      /\ guard' = [guard EXCEPT ![p] = {top - 2}]
      /\ sz' = [sz EXCEPT ![p] = top * PGSIZE]
      /\ free' = (free \ Taken(top)) \cup PagesOf(p, Below(sz[p]))
      /\ Enough(top) /\ top <= MaxPages
      /\ UNCHANGED <<state, father, kpage, stack, pc, oldsz, newsz, np, panic>>
  BY <1>2 DEF Exec, Panic, CanFree, frame
<1>4. top \in Nat /\ top >= 2
  <2>1. size \in Nat  BY UserMemAssumption
  <2>2. PGROUNDUP(size) \in Nat  BY <2>1, RoundUp
  <2> QED  BY <2>2
<1>5. vs \in SUBSET VA /\ top - 2 \in VA
  <2>1. MaxPages \in Nat  BY UserMemAssumption
  <2> QED  BY <1>3, <1>4, <2>1 DEF VA
<1>6. Cardinality(vs) = top /\ 0 + Cardinality(vs) = top
  <2> HIDE DEF top
  <2>1. 0 \in Int /\ top - 1 \in Int /\ ~(0 > top - 1)  BY <1>4
  <2>2. Cardinality(vs) = (top - 1) - 0 + 1  BY <2>1, FS_Interval
  <2> QED  BY <1>4, <2>2
<1>7. /\ top * PGSIZE \in Nat
      /\ Below(top * PGSIZE) = vs
      /\ top - 2 \in vs
  <2>1. top * PGSIZE \in Nat /\ Below(top * PGSIZE) = {v \in VA : v < top}  BY <1>4, BelowPages
  <2>2. \A v \in VA : v \in Nat  BY DEF VA
  <2> HIDE DEF top
  <2>3. \A v \in VA : v < top <=> v \in vs  BY <1>4, <2>2
  <2>4. top - 2 \in vs  BY <1>4
  <2> QED  BY <1>5, <2>1, <2>3, <2>4
<1>8. /\ m \in [VA -> Page \cup {None}]
      /\ \A v \in VA : v \notin vs => m[v] = None
      /\ \A v \in vs : m[v] \in free
      /\ \A v, w \in vs : m[v] = m[w] => v = w
      /\ Taken(top) = {m[v] : v \in vs}
  <2>1. free \subseteq Page /\ 0 \in Nat  BY <1>0 DEF TypeOK
  <2>2. Enough(0 + Cardinality(vs))  BY <1>3, <1>6
  <2> HIDE DEF vs, top
  <2>3. /\ m \in [VA -> Page \cup {None}]
        /\ \A v \in VA : v \notin vs => m[v] = None
        /\ \A v \in vs : m[v] \in free
        /\ \A v, w \in vs : m[v] = m[w] => v = w
        /\ Taken(0 + Cardinality(vs)) = Taken(0) \cup {m[v] : v \in vs}
    BY ONLY <1>5, <2>1, <2>2, FilledFacts, Zenon
  <2> HIDE DEF m
  <2> QED  BY <1>6, <2>3, TakenFew
<1> HIDE DEF m, vs, top
<1>9. free \subseteq Page /\ None \notin Page /\ None \notin free  BY <1>0, Bounds DEF TypeOK, None
<1>10. /\ \A r \in Slot : father[r] # p
       /\ \A r \in Slot : Leader(r) = p => r = p
       /\ \A r \in Slot : Leader(r) = p => pc[r] = "user" /\ np[r] = None
  BY <1>0, <1>1, AloneGroup, QuietGroup
<1>11. PagesOf(p, Below(sz[p])) = PagesOf(p, VA) /\ PagesOf(p, VA) \subseteq Page
  BY <1>0, <1>2 DEF PagesOf, Mapped, TypeOK
<1>12. TypeOK'  BY <1>0, <1>3, <1>5, <1>7, <1>8, <1>9, <1>11 DEF TypeOK
<1>13. \A r \in Slot : Leader(r)' = Leader(r) /\ (Lead(r)' <=> Lead(r)) /\ (Resizing(r)' <=> Resizing(r))
                       /\ Leader(r) \in Slot
  BY <1>0, <1>3, Members DEF Leader, Lead, Resizing
<1>14. SlotInv'  BY <1>0, <1>3 DEF TypeOK, SlotInv
<1>15. CallInv'  BY <1>0, <1>3, <1>13 DEF CallInv
<1>16. \A r \in Slot : Resizing(r) \/ pc[r] = "share" => Leader(r) # p  BY <1>10 DEF Resizing
<1>17. SizeInv'
  <2>1. \A r \in Slot : r # p => Mapped(r)' = Mapped(r) /\ sz'[r] = sz[r]
    BY <1>0, <1>3 DEF TypeOK, Mapped
  <2>2. Mapped(p)' = vs  BY <1>0, <1>3, <1>5, <1>8, <1>9 DEF TypeOK, Mapped
  <2>3. Mapped(p)' = Below(sz'[p])  BY <1>0, <1>3, <1>7, <2>2 DEF TypeOK
  <2> QED  BY <1>0, <1>3, <1>13, <1>16, <2>1, <2>3 DEF SizeInv
<1>18. GuardInv'
  <2>1. guard'[p] # {} /\ guard'[p] \subseteq Below(sz'[p])  BY <1>0, <1>3, <1>7 DEF TypeOK
  <2>2. \A r \in Slot : r # p => guard'[r] = guard[r] /\ sz'[r] = sz[r]  BY <1>0, <1>3 DEF TypeOK
  <2> QED  BY <1>0, <1>3, <1>13, <1>16, <2>1, <2>2 DEF GuardInv
<1>19. ShareInv'
  <2>1. \A L \in Slot, v \in VA : Unshared(L, v)' <=> Unshared(L, v)  BY <1>3, <1>13 DEF Unshared
  <2>2. ASSUME NEW r \in Slot, NEW L \in Slot, r # p, L # p, Shares(r, L)  PROVE Shares(r, L)'
    BY <1>0, <1>3, <2>1, <2>2, SharesStill DEF TypeOK
  <2>3. \A r \in Slot : father[r] # None => r # p /\ father[r] \in Slot /\ father[r] # p
    BY <1>0, <1>1, <1>10 DEF TypeOK
  <2>4. \A r \in Slot : np[r] # None => np[r] \in Slot /\ np[r] # p /\ Leader(r) \in Slot /\ Leader(r) # p
    BY <1>0, <1>1, <1>10, Members
  <2> QED  BY <1>0, <1>3, <1>13, <2>2, <2>3, <2>4 DEF ShareInv
<1>20. OwnInv'
  <2>1. free' \in SUBSET Page  BY <1>3, <1>9, <1>11
  <2>2. \A r \in Slot : r # p => /\ kpage'[r] = kpage[r] /\ stack'[r] = stack[r]
                                 /\ Lead(r)' <=> Lead(r)
                                 /\ Lead(r) => map'[r] = map[r]
    BY <1>0, <1>3, <1>13 DEF TypeOK
  <2>3. kpage'[p] = kpage[p] /\ stack'[p] = None /\ map'[p] = m /\ Lead(p)'
    BY <1>0, <1>1, <1>2, <1>3, <1>13 DEF TypeOK
  <2>4. /\ kpage[p] \notin free
        /\ \A v \in VA : map[p][v] \notin free /\ (map[p][v] = kpage[p] => map[p][v] = None)
    BY <1>0, <1>1, OwnFacts
  <2>5. \A v, w \in VA : m[v] = m[w] /\ m[v] # None => v = w  BY <1>8
  <2>6. \A v \in VA : (m[v] \in free \/ m[v] = None) /\ (m[v] # None => m[v] # kpage[p])
    BY <1>8, <2>4
  <2>7. \A g \in Page : Has(p, g) <=> g = kpage[p] \/ g \in PagesOf(p, VA)
    BY <1>1, <1>2, <1>9 DEF Has, PagesOf
  <2>8. \A g \in Page : Has(p, g)' <=> g = kpage[p] \/ g \in {m[v] : v \in vs}
    BY <1>5, <1>8, <1>9, <2>3 DEF Has
  <2>9. \A g \in Page : g \in PagesOf(p, VA) => g # kpage[p] /\ g \notin free
    BY <2>4 DEF PagesOf
  <2>10. \A g \in Page : g \in free' <=> (g \in free \/ Has(p, g)) /\ ~Has(p, g)'
    <3>1. \A v \in vs : m[v] \in free /\ m[v] # kpage[p]  BY <1>8, <2>4
    <3> QED  BY <1>3, <1>8, <1>11, <2>4, <2>7, <2>8, <2>9, <3>1
  <2>11. kpage'[p] = stack'[p] => kpage'[p] = None  BY <2>3
  <2> QED  BY <1>0, <2>1, <2>2, <2>3, <2>5, <2>6, <2>10, <2>11, OwnStep
<1>21. PanicOnlyOom'  BY <1>1, <1>3 DEF PanicOnlyOom
<1> QED  BY <1>12, <1>14, <1>15, <1>17, <1>18, <1>19, <1>20, <1>21 DEF IInv

\* exit keeps the address space for whoever reaps.
LEMMA ExitStep ==
  ASSUME IInv, Risks = {}, NEW p \in Slot, Exit(p)
  PROVE  IInv'
<1>0. TypeOK /\ SlotInv /\ CallInv /\ SizeInv /\ GuardInv /\ ShareInv /\ OwnInv /\ PanicOnlyOom
  BY DEF IInv
<1>1. /\ state[p] = "LIVE" /\ father[p] = None /\ Group(p) = {p} /\ pc[p] = "user"
      /\ state' = [state EXCEPT ![p] = "ZOMBIE"]
      /\ UNCHANGED <<free, father, kpage, map, guard, stack, sz, pc, oldsz, newsz, np, panic>>
  <2>1. father[p] = None  BY DEF Exit, Careful
  <2> QED  BY <2>1 DEF Exit, Careful, Enter, At, Leader, frame
<1>2. \A r \in Slot : father[r] # p  BY <1>0, <1>1, AloneGroup
<1>3. TypeOK'  BY <1>0, <1>1 DEF TypeOK
<1>4. \A r \in Slot : Leader(r)' = Leader(r) /\ (Lead(r)' <=> Lead(r)) /\ (Resizing(r)' <=> Resizing(r))
  BY <1>0, <1>1 DEF TypeOK, Leader, Lead, Resizing
<1>5. SlotInv'  BY <1>0, <1>1, <1>2 DEF TypeOK, SlotInv
<1>6. CallInv'  BY <1>0, <1>1, <1>4 DEF CallInv
<1>7. SizeInv' /\ GuardInv'  BY <1>0, <1>1, <1>4 DEF SizeInv, GuardInv, Mapped
<1>8. ShareInv'  BY <1>0, <1>1, <1>4 DEF ShareInv, Shares, Unshared
<1>9. OwnInv'  BY <1>0, <1>1, <1>4, OwnSame
<1>10. PanicOnlyOom'  BY <1>0, <1>1 DEF PanicOnlyOom
<1> QED  BY <1>3, <1>5, <1>6, <1>7, <1>8, <1>9, <1>10 DEF IInv

\* A zombie that leads nobody leaves no trace but its pages.
LEMMA ClearStep ==
  ASSUME IInv, NEW q \in Slot, state[q] = "ZOMBIE", \A r \in Slot : father[r] # q,
         Clear(q), UNCHANGED <<pc, oldsz, newsz, np, panic>>, free' \in SUBSET Page
  PROVE  TypeOK' /\ SlotInv' /\ CallInv' /\ SizeInv' /\ GuardInv' /\ ShareInv'
<1>0. TypeOK /\ SlotInv /\ CallInv /\ SizeInv /\ GuardInv /\ ShareInv /\ OwnInv /\ PanicOnlyOom
  BY DEF IInv
<1>1. /\ state' = [state EXCEPT ![q] = "UNUSED"]
      /\ father' = [father EXCEPT ![q] = None]
      /\ kpage' = [kpage EXCEPT ![q] = None]
      /\ map' = [map EXCEPT ![q] = NoMap]
      /\ guard' = [guard EXCEPT ![q] = {}]
      /\ stack' = [stack EXCEPT ![q] = None]
      /\ sz' = [sz EXCEPT ![q] = 0]
  BY DEF Clear
<1>2. TypeOK'  BY <1>0, <1>1 DEF TypeOK, NoMap
<1>3. /\ pc[q] = "user" /\ np[q] = None /\ \A r \in Slot : np[r] # q
      /\ \A r \in Slot : pc[r] # "user" => Leader(r) # q /\ r # q
  <2>1. pc[q] = "user" /\ np[q] = None /\ \A r \in Slot : np[r] # q
    BY <1>0, Bounds DEF SlotInv, TypeOK, None
  <2>2. \A r \in Slot : pc[r] # "user" => Leader(r) # q /\ r # q  BY <1>0, <2>1, Members
  <2> QED  BY <2>1, <2>2
<1>4. \A r \in Slot : r # q => Leader(r)' = Leader(r) /\ (Lead(r)' <=> Lead(r)) /\ sz'[r] = sz[r]
                               /\ map'[r] = map[r] /\ guard'[r] = guard[r] /\ father'[r] = father[r]
  BY <1>0, <1>1 DEF TypeOK, Leader, Lead
<1>5. ~Lead(q)' /\ father'[q] = None  BY <1>0, <1>1 DEF TypeOK, Lead
<1>6. \A r \in Slot : (Resizing(r)' <=> Resizing(r)) /\ (Resizing(r) \/ pc[r] = "share" => r # q /\ Leader(r) # q)
                      /\ Leader(r) \in Slot
  BY <1>0, <1>3, Members DEF Resizing
<1>7. SlotInv'  BY <1>0, <1>1, <1>3 DEF TypeOK, SlotInv
<1>8. CallInv'
  <2>1. \A r, t \in Slot : pc[r] # "user" /\ pc[t] # "user" /\ Leader(r)' = Leader(t)' => r = t
    BY <1>0, <1>3, <1>4 DEF CallInv
  <2>2. \A r, t \in Slot : pc[r] = "unshare" => father'[t] # Leader(r)'
    <3> SUFFICES ASSUME NEW r \in Slot, NEW t \in Slot, pc[r] = "unshare"
                 PROVE  father'[t] # Leader(r)'
      OBVIOUS
    <3>1. Leader(r)' = Leader(r) /\ Leader(r) # None  BY <1>3, <1>4, <1>6, Bounds DEF None
    <3>2. father[t] # Leader(r)  BY <1>0 DEF CallInv
    <3> QED  BY <1>4, <1>5, <3>1, <3>2
  <2> QED  BY <2>1, <2>2 DEF CallInv
<1>9. SizeInv'
  <2>1. \A r \in Slot : r # q => Mapped(r)' = Mapped(r)  BY <1>4 DEF Mapped
  <2>2. ASSUME NEW L \in Slot, Lead(L)', \A r \in Slot : Resizing(r)' => Leader(r)' # L
        PROVE  Mapped(L)' = Below(sz'[L])
    <3>1. L # q  BY <1>5, <2>2
    <3>2. \A r \in Slot : Resizing(r) => Leader(r) # L  BY <1>4, <1>6, <2>2
    <3> QED  BY <1>0, <1>4, <2>1, <2>2, <3>1, <3>2 DEF SizeInv
  <2>3. ASSUME NEW r \in Slot, Resizing(r)  PROVE (Mapped(Leader(r)) = Below(newsz[r]))'
    BY <1>0, <1>4, <1>6, <2>1, <2>3 DEF SizeInv
  <2>4. ASSUME NEW r \in Slot, pc[r] = "share"  PROVE (oldsz[r] = sz[Leader(r)])'
    BY <1>0, <1>4, <1>6, <2>4 DEF SizeInv
  <2> QED  BY <1>6, <2>2, <2>3, <2>4 DEF SizeInv
<1>10. GuardInv'  BY <1>0, <1>4, <1>5, <1>6 DEF GuardInv
<1>11. ShareInv'
  <2>1. \A L \in Slot, v \in VA : Unshared(L, v) => Unshared(L, v)'
    BY <1>3, <1>4 DEF Unshared
  <2>2. ASSUME NEW r \in Slot, NEW L \in Slot, r # q, L # q, Shares(r, L)  PROVE Shares(r, L)'
    BY <1>4, <2>1, <2>2, SharesStill
  <2>3. \A r \in Slot : father'[r] # None => r # q /\ father[r] \in Slot /\ father[r] # q
    BY <1>0, <1>4, <1>5 DEF TypeOK
  <2>4. \A r \in Slot : np[r] # None => np[r] \in Slot /\ np[r] # q /\ Leader(r) \in Slot /\ Leader(r) # q
                                        /\ r # q
    BY <1>0, <1>3, <1>6, Members
  <2> QED  BY <1>0, <1>4, <2>2, <2>3, <2>4 DEF ShareInv
<1> QED  BY <1>2, <1>7, <1>8, <1>9, <1>10, <1>11

\* wait gives everything a child had back.
LEMMA WaitStep ==
  ASSUME IInv, Risks = {}, NEW p \in Slot, NEW q \in Slot, Wait(p, q)
  PROVE  IInv'
<1>0. TypeOK /\ SlotInv /\ CallInv /\ SizeInv /\ GuardInv /\ ShareInv /\ OwnInv /\ PanicOnlyOom
  BY DEF IInv
<1>1. state[q] = "ZOMBIE" /\ father[q] = None /\ panic = "" /\ Lead(q)
  BY DEF Wait, Enter, At, Careful, Lead
<1>2. \A r \in Slot : father[r] # q  BY <1>0, <1>1, NoFollowers
<1>3. stack[q] = None /\ Mapped(q) = Below(sz[q])
  <2>1. \A r \in Slot : Resizing(r) => Leader(r) # q  BY <1>0, <1>1, Members DEF Resizing
  <2> QED  BY <1>0, <1>1, <2>1 DEF SlotInv, SizeInv
<1>4. /\ free' = free \cup {kpage[q]} \cup PagesOf(q, Below(sz[q]))
      /\ Clear(q) /\ UNCHANGED <<pc, oldsz, newsz, np, panic>>
  BY <1>3 DEF Wait, CanFree, Panic, FreedBy, frame
<1>5. /\ PagesOf(q, Below(sz[q])) = PagesOf(q, VA) /\ PagesOf(q, VA) \subseteq Page
      /\ kpage[q] \in Page /\ free \subseteq Page
  <2>1. kpage[q] \in Page /\ free \subseteq Page
    <3>1. kpage[q] # None  BY <1>0, <1>1 DEF SlotInv
    <3> QED  BY <1>0, <3>1 DEF TypeOK
  <2>2. PagesOf(q, Below(sz[q])) = PagesOf(q, VA) /\ PagesOf(q, VA) \subseteq Page
    BY <1>0, <1>3 DEF PagesOf, Mapped, TypeOK
  <2> QED  BY <2>1, <2>2
<1>6. free' \in SUBSET Page  BY <1>4, <1>5
<1>7. TypeOK' /\ SlotInv' /\ CallInv' /\ SizeInv' /\ GuardInv' /\ ShareInv'
  BY <1>1, <1>2, <1>4, <1>6, ClearStep
<1>8. OwnInv'
  <2>1. \A r \in Slot : r # q => /\ kpage'[r] = kpage[r] /\ stack'[r] = stack[r]
                                 /\ Lead(r)' <=> Lead(r)
                                 /\ Lead(r) => map'[r] = map[r]
    BY <1>0, <1>4 DEF TypeOK, Lead, Clear
  <2>2. kpage'[q] = None /\ stack'[q] = None /\ ~Lead(q)'  BY <1>0, <1>4 DEF TypeOK, Lead, Clear
  <2>3. None \notin Page  BY Bounds DEF None
  <2>4. \A g \in Page : ~Has(q, g)'  BY <2>2, <2>3 DEF Has
  <2>5. \A g \in Page : Has(q, g) <=> g = kpage[q] \/ g \in PagesOf(q, VA)
    BY <1>1, <1>3, <2>3 DEF Has, PagesOf
  <2>6. \A g \in Page : g \in free' <=> (g \in free \/ Has(q, g)) /\ ~Has(q, g)'
    BY <1>4, <1>5, <2>4, <2>5
  <2> QED  BY <1>0, <1>6, <2>1, <2>2, <2>6, OwnStep
<1>9. PanicOnlyOom'  BY <1>1, <1>4 DEF PanicOnlyOom
<1> QED  BY <1>7, <1>8, <1>9 DEF IInv

\* thread_join gives back the pages of the kernel, none of the group's.
LEMMA JoinStep ==
  ASSUME IInv, Risks = {}, NEW p \in Slot, NEW q \in Slot, Join(p, q)
  PROVE  IInv'
<1>0. TypeOK /\ SlotInv /\ CallInv /\ SizeInv /\ GuardInv /\ ShareInv /\ OwnInv /\ PanicOnlyOom
  BY DEF IInv
<1> DEFINE L == Leader(p)
<1>1. /\ state[q] = "ZOMBIE" /\ father[q] = L /\ panic = "" /\ state[p] = "LIVE" /\ Quiet(L)
      /\ L \in Slot /\ L # None /\ Lead(L) /\ ~Lead(q)
  <2>1. state[q] = "ZOMBIE" /\ father[q] = L /\ panic = "" /\ state[p] = "LIVE" /\ Quiet(L)
    BY DEF Join, Enter, At, Careful
  <2>2. None \notin Slot  BY Bounds DEF None
  <2>3. L \in Slot /\ Lead(L)  BY <1>0, <2>1, Members
  <2> QED  BY <2>1, <2>2, <2>3 DEF Lead
<1>2. \A r \in Slot : father[r] # q  BY <1>0, <1>1, NoFollowers
<1>3. stack[q] = None /\ Mapped(q) \subseteq Below(sz[q])
  <2>1. Mapped(L) = Below(sz[L])  BY <1>0, <1>1, QuietGroup
  <2>2. Shares(q, L)  BY <1>0, <1>1 DEF ShareInv
  <2>3. Mapped(q) \subseteq Mapped(L) /\ sz[q] = sz[L]  BY <2>2 DEF Shares, Mapped
  <2>4. stack[q] = None  BY <1>0, <1>1 DEF SlotInv
  <2> QED  BY <2>1, <2>3, <2>4
<1>4. /\ free' = free \cup {kpage[q]}
      /\ Clear(q) /\ UNCHANGED <<pc, oldsz, newsz, np, panic>>
  BY <1>3 DEF Join, CanFreeThread, Panic, FreedByThread, frame
<1>5. kpage[q] \in Page /\ free \subseteq Page
  <2>1. kpage[q] # None  BY <1>0, <1>1 DEF SlotInv
  <2> QED  BY <1>0, <2>1 DEF TypeOK
<1>6. free' \in SUBSET Page  BY <1>4, <1>5
<1>7. TypeOK' /\ SlotInv' /\ CallInv' /\ SizeInv' /\ GuardInv' /\ ShareInv'
  BY <1>1, <1>2, <1>4, <1>6, ClearStep
<1>8. OwnInv'
  <2>1. \A r \in Slot : r # q => /\ kpage'[r] = kpage[r] /\ stack'[r] = stack[r]
                                 /\ Lead(r)' <=> Lead(r)
                                 /\ Lead(r) => map'[r] = map[r]
    BY <1>0, <1>4 DEF TypeOK, Lead, Clear
  <2>2. kpage'[q] = None /\ stack'[q] = None /\ ~Lead(q)'  BY <1>0, <1>4 DEF TypeOK, Lead, Clear
  <2>3. None \notin Page  BY Bounds DEF None
  <2>4. \A g \in Page : ~Has(q, g)'  BY <2>2, <2>3 DEF Has
  <2>5. \A g \in Page : Has(q, g) <=> g = kpage[q]  BY <1>1, <1>3, <2>3 DEF Has
  <2>6. \A g \in Page : g \in free' <=> (g \in free \/ Has(q, g)) /\ ~Has(q, g)'
    BY <1>4, <1>5, <2>4, <2>5
  <2> QED  BY <1>0, <1>6, <2>1, <2>2, <2>6, OwnStep
<1>9. PanicOnlyOom'  BY <1>1, <1>4 DEF PanicOnlyOom
<1> QED  BY <1>7, <1>8, <1>9 DEF IInv

\* thread_exit gives the private stack back at once.
LEMMA ThreadExitStep ==
  ASSUME IInv, Risks = {}, NEW p \in Slot, ThreadExit(p)
  PROVE  IInv'
<1>0. TypeOK /\ SlotInv /\ CallInv /\ SizeInv /\ GuardInv /\ ShareInv /\ OwnInv /\ PanicOnlyOom
  BY DEF IInv
<1>1. /\ state[p] = "LIVE" /\ father[p] # None /\ pc[p] = "user" /\ panic = ""
      /\ stack' = [stack EXCEPT ![p] = None]
      /\ free' = free \cup ({stack[p]} \ {None})
      /\ state' = [state EXCEPT ![p] = "ZOMBIE"]
      /\ UNCHANGED <<father, kpage, map, guard, sz, pc, oldsz, newsz, np, panic>>
  BY DEF ThreadExit, Enter, At, Unstacked, frame
<1>2. \A r \in Slot : father[r] # p  BY <1>0, <1>1, NoFollowers
<1>3. free' \in SUBSET Page  BY <1>0, <1>1 DEF TypeOK
<1>4. TypeOK'  BY <1>0, <1>1, <1>3 DEF TypeOK
<1>5. \A r \in Slot : Leader(r)' = Leader(r) /\ (Lead(r)' <=> Lead(r)) /\ (Resizing(r)' <=> Resizing(r))
  BY <1>0, <1>1 DEF TypeOK, Leader, Lead, Resizing
<1>6. SlotInv'
  <2>1. \A r \in Slot : r # p => state'[r] = state[r] /\ stack'[r] = stack[r]  BY <1>0, <1>1 DEF TypeOK
  <2>2. state'[p] = "ZOMBIE" /\ stack'[p] = None  BY <1>0, <1>1 DEF TypeOK
  <2>3. \A r \in Slot : np[r] # None => np[r] \in Slot /\ np[r] # p  BY <1>0, <1>1, Members
  <2>4. \A r \in Slot : father[r] # None => father[r] \in Slot  BY <1>0 DEF TypeOK
  <2>5. \A r \in Slot : father[r] # None => state'[father[r]] = "LIVE" /\ father[father[r]] = None
    BY <1>0, <1>2, <2>1, <2>4 DEF SlotInv
  <2>6. \A r \in Slot : np[r] # None => state'[np[r]] = "USED"  BY <1>0, <2>1, <2>3 DEF SlotInv
  <2>7. \A r \in Slot : state'[r] = "USED" => r # p /\ \E c \in Slot : np[c] = r
    BY <1>0, <2>1, <2>2 DEF SlotInv
  <2>8. ASSUME NEW r \in Slot
        PROVE  /\ state'[r] = "UNUSED" => kpage[r] = None
               /\ state'[r] # "UNUSED" => kpage[r] # None
               /\ state'[r] \in {"UNUSED", "USED", "ZOMBIE"} => stack'[r] = None /\ pc[r] = "user"
               /\ state'[r] \in {"UNUSED", "USED"} => father[r] = None
               /\ father[r] = None => stack'[r] = None
    <3>1. CASE r = p
      <4>1. kpage[p] # None  BY <1>0, <1>1 DEF SlotInv
      <4> QED  BY <1>1, <2>2, <3>1, <4>1
    <3>2. CASE r # p  BY <1>0, <2>1, <3>2 DEF SlotInv
    <3> QED  BY <3>1, <3>2
  <2>9. \A r \in Slot : np[r] # None <=> pc[r] = "stack"  BY <1>0 DEF SlotInv
  <2>10. \A r, t \in Slot : np[r] = np[t] /\ np[r] # None => r = t  BY <1>0 DEF SlotInv
  <2>11. UNCHANGED <<father, kpage, pc, np>>  BY <1>1
  <2> QED  BY ONLY <2>5, <2>6, <2>7, <2>8, <2>9, <2>10, <2>11 DEF SlotInv
<1>7. CallInv'  BY <1>0, <1>1, <1>5 DEF CallInv
<1>8. SizeInv' /\ GuardInv'  BY <1>0, <1>1, <1>5 DEF SizeInv, GuardInv, Mapped
<1>9. ShareInv'
  <2>1. \A L, v : Unshared(L, v)' <=> Unshared(L, v)  BY <1>1, <1>5 DEF Unshared
  <2>2. \A r, L : Shares(r, L) => Shares(r, L)'  BY <1>1, <2>1 DEF Shares
  <2> QED  BY <1>0, <1>1, <1>5, <2>2 DEF ShareInv
<1>10. OwnInv'
  <2>1. \A r \in Slot : r # p => /\ kpage'[r] = kpage[r] /\ stack'[r] = stack[r]
                                 /\ Lead(r)' <=> Lead(r)
                                 /\ Lead(r) => map'[r] = map[r]
    BY <1>0, <1>1, <1>5 DEF TypeOK
  <2>2. kpage'[p] = kpage[p] /\ stack'[p] = None /\ ~Lead(p) /\ ~Lead(p)'
    BY <1>0, <1>1, <1>5 DEF TypeOK, Lead
  <2>3. None \notin Page  BY Bounds DEF None
  <2>4. kpage[p] \notin free /\ (kpage[p] = stack[p] => kpage[p] = None)  BY <1>0, OwnFacts
  <2>5. \A g \in Page : (Has(p, g) <=> g \in {kpage[p], stack[p]}) /\ (Has(p, g)' <=> g = kpage[p])
    BY <2>2, <2>3 DEF Has
  <2>6. \A g \in Page : g \in free' <=> (g \in free \/ Has(p, g)) /\ ~Has(p, g)'
    BY <1>1, <2>3, <2>4, <2>5
  <2>7. kpage'[p] = stack'[p] => kpage'[p] = None  BY <2>2
  <2> QED  BY <1>0, <1>3, <2>1, <2>2, <2>6, <2>7, OwnStep
<1>11. PanicOnlyOom'  BY <1>1 DEF PanicOnlyOom
<1> QED  BY <1>4, <1>6, <1>7, <1>8, <1>9, <1>10, <1>11 DEF IInv

\* A step that changes nothing of this, such as a panic.
LEMMA Unmoved ==
  ASSUME IInv, PanicOnlyOom',
         UNCHANGED <<free, state, father, kpage, map, guard, stack, sz, pc, oldsz, newsz, np>>
  PROVE  IInv'
<1>0. TypeOK /\ SlotInv /\ CallInv /\ SizeInv /\ GuardInv /\ ShareInv /\ OwnInv
  BY DEF IInv
<1>1. \A r \in Slot : Leader(r)' = Leader(r) /\ (Lead(r)' <=> Lead(r)) /\ (Resizing(r)' <=> Resizing(r))
  BY DEF Leader, Lead, Resizing
<1>2. TypeOK' /\ SlotInv'  BY <1>0 DEF TypeOK, SlotInv
<1>3. CallInv'  BY <1>0, <1>1 DEF CallInv
<1>4. SizeInv' /\ GuardInv'  BY <1>0, <1>1 DEF SizeInv, GuardInv, Mapped
<1>5. ShareInv'
  <2>1. \A L, v : Unshared(L, v)' <=> Unshared(L, v)  BY <1>1 DEF Unshared
  <2>2. \A r, L : Shares(r, L) => Shares(r, L)'  BY <2>1 DEF Shares
  <2> QED  BY <1>0, <1>1, <2>2 DEF ShareInv
<1>6. OwnInv'  BY <1>0, <1>1, OwnSame
<1> QED  BY <1>2, <1>3, <1>4, <1>5, <1>6 DEF IInv

\* thread_create's mapping of the leader's pages.
LEMMA ThreadMapStep ==
  ASSUME IInv, Risks = {}, NEW p \in Slot, ThreadMap(p)
  PROVE  IInv'
<1>0. TypeOK /\ SlotInv /\ CallInv /\ SizeInv /\ GuardInv /\ ShareInv /\ OwnInv /\ PanicOnlyOom
  BY DEF IInv
<1> DEFINE L == Leader(p)
           k == kalloc(0)
           m == [v \in VA |-> IF v \in Below(sz[L]) \ guard[L] THEN map[L][v] ELSE None]
<1>1. /\ state[p] = "LIVE" /\ pc[p] = "user" /\ panic = "" /\ Quiet(L)
      /\ L \in Slot /\ Lead(L) /\ state[L] = "LIVE" /\ father[L] = None
  <2>1. state[p] = "LIVE" /\ pc[p] = "user" /\ panic = "" /\ Quiet(L)
    BY DEF ThreadMap, Enter, At, Careful
  <2> QED  BY <1>0, <2>1, Members
<1>2. /\ Mapped(L) = Below(sz[L])
      /\ \A r \in Slot : Leader(r) = L => pc[r] = "user" /\ np[r] = None
  BY <1>0, <1>1, QuietGroup
<1>3. PICK q \in Slot :
        /\ state[q] = "UNUSED"
        /\ state' = [state EXCEPT ![q] = "USED"]
        /\ kpage' = [kpage EXCEPT ![q] = k]
        /\ map' = [map EXCEPT ![q] = m]
        /\ sz' = [sz EXCEPT ![q] = sz[L]]
        /\ np' = [np EXCEPT ![p] = q]
        /\ free' = free \ Taken(1)
        /\ pc' = [pc EXCEPT ![p] = "stack"]
        /\ Enough(1)
        /\ UNCHANGED <<father, guard, stack, oldsz, newsz, panic>>
  BY DEF ThreadMap
<1>4. /\ free \subseteq Page /\ None \notin Page /\ None \notin Slot /\ k \in free
      /\ free' = free \ {k}
  <2>1. free \subseteq Page /\ None \notin Page /\ None \notin Slot  BY <1>0, Bounds DEF TypeOK, None
  <2>2. Cardinality(free) \in Nat /\ Cardinality(free) >= 1  BY <1>3, <2>1, KallocFacts DEF Enough
  <2>3. 0 \in 0..Cardinality(free) - 1  BY <2>2
  <2>4. k \in free  BY <2>1, <2>3, KallocFacts
  <2> QED  BY <1>3, <2>1, <2>4, TakenFew
<1> HIDE DEF k
<1>5. /\ q # p /\ q # L /\ kpage[q] = None /\ stack[q] = None /\ father[q] = None /\ pc[q] = "user"
      /\ np[q] = None
      /\ \A r \in Slot : father[r] # q /\ np[r] # q
      /\ \A r \in Slot : pc[r] # "user" => Leader(r) # q
  <2>1. \A r \in Slot : father[r] # q  BY <1>0, <1>3, NoFollowers
  <2>2. q # p /\ q # L /\ kpage[q] = None /\ stack[q] = None /\ father[q] = None /\ pc[q] = "user"
    BY <1>0, <1>1, <1>3 DEF SlotInv
  <2>3. np[q] = None /\ \A r \in Slot : np[r] # q
    BY <1>0, <1>3, <1>4, <2>2, Members DEF SlotInv
  <2> QED  BY <1>0, <1>3, <2>1, <2>2, <2>3, Members
<1>6. /\ m \in [VA -> Page \cup {None}]
      /\ \A v \in VA : m[v] = IF v \in Below(sz[L]) \ guard[L] THEN map[L][v] ELSE None
  <2>1. \A v \in VA : map[L][v] \in Page \cup {None}
    <3>1. map[L] \in [VA -> Page \cup {None}]  BY <1>0, <1>1 DEF TypeOK
    <3> QED  BY <3>1
  <2> QED  BY <2>1
<1> HIDE DEF m
<1>7. TypeOK'  BY <1>0, <1>1, <1>3, <1>4, <1>6 DEF TypeOK
<1>8. \A r \in Slot : /\ Leader(r)' = Leader(r) /\ Leader(r) \in Slot /\ (Lead(r)' <=> Lead(r))
                      /\ Resizing(r)' <=> Resizing(r)
                      /\ pc'[r] \in {"share", "unshare"} \/ pc[r] \in {"share", "unshare"} => pc'[r] = pc[r]
                      /\ Resizing(r) \/ pc[r] = "share" => Leader(r) # q
  <2>1. \A r \in Slot : Leader(r)' = Leader(r) /\ Leader(r) \in Slot  BY <1>0, <1>3, Members DEF Leader
  <2>2. \A r \in Slot : Lead(r)' <=> Lead(r)  BY <1>0, <1>3 DEF TypeOK, Lead
  <2>3. \A r \in Slot : pc'[r] = IF r = p THEN "stack" ELSE pc[r]  BY <1>0, <1>3 DEF TypeOK
  <2> QED  BY <1>1, <1>5, <2>1, <2>2, <2>3 DEF Resizing
<1>9. SlotInv'
  <2>1. \A r \in Slot : r # q => state'[r] = state[r] /\ kpage'[r] = kpage[r]
    BY <1>0, <1>3 DEF TypeOK
  <2>2. state'[q] = "USED" /\ kpage'[q] = k /\ k # None  BY <1>0, <1>3, <1>4 DEF TypeOK
  <2>3. \A r \in Slot : r # p => np'[r] = np[r] /\ pc'[r] = pc[r]  BY <1>0, <1>3 DEF TypeOK
  <2>4. np'[p] = q /\ pc'[p] = "stack" /\ np[p] = None /\ q # None
    BY <1>0, <1>1, <1>2, <1>3, <1>4 DEF TypeOK
  <2>5. \A r \in Slot : father[r] # None => father[r] \in Slot /\ father[r] # q
    BY <1>0, <1>5 DEF TypeOK
  <2>6. \A r \in Slot : np[r] # None => np[r] \in Slot /\ np[r] # q  BY <1>0, <1>5, Members
  <2>7. ASSUME NEW r \in Slot
        PROVE  /\ state'[r] = "UNUSED" => kpage'[r] = None
               /\ state'[r] # "UNUSED" => kpage'[r] # None
               /\ state'[r] \in {"UNUSED", "USED", "ZOMBIE"} => stack[r] = None /\ pc'[r] = "user"
               /\ state'[r] \in {"UNUSED", "USED"} => father[r] = None
               /\ father[r] = None => stack[r] = None
    <3>1. CASE r = q  BY <1>5, <2>2, <2>3, <3>1
    <3>2. CASE r = p
      <4>1. kpage[p] # None /\ (father[p] = None => stack[p] = None)  BY <1>0, <1>1 DEF SlotInv
      <4>2. state'[p] = "LIVE" /\ kpage'[p] = kpage[p]  BY <1>1, <1>5, <2>1
      <4> QED  BY <3>2, <4>1, <4>2
    <3>3. CASE r # q /\ r # p  BY <1>0, <2>1, <2>3, <3>3 DEF SlotInv
    <3> QED  BY <3>1, <3>2, <3>3
  <2>8. \A r \in Slot : state'[r] = "USED" => \E c \in Slot : np'[c] = r
    <3> SUFFICES ASSUME NEW r \in Slot, state'[r] = "USED", r # q
                 PROVE  \E c \in Slot : np'[c] = r
      BY <2>4
    <3>1. PICK c \in Slot : np[c] = r  BY <1>0, <2>1 DEF SlotInv
    <3>2. c # p  BY <1>4, <2>4, <3>1
    <3> QED  BY <2>3, <3>1, <3>2
  <2>9. \A r \in Slot : father[r] # None => state'[father[r]] = "LIVE" /\ father[father[r]] = None
    BY <1>0, <2>1, <2>5 DEF SlotInv
  <2>10. \A r \in Slot : np'[r] # None <=> pc'[r] = "stack"  BY <1>0, <2>3, <2>4 DEF SlotInv
  <2>11. \A r \in Slot : np'[r] # None => state'[np'[r]] = "USED"
    BY <1>0, <2>1, <2>2, <2>3, <2>4, <2>6 DEF SlotInv
  <2>12. \A r, t \in Slot : np'[r] = np'[t] /\ np'[r] # None => r = t
    BY <1>0, <2>3, <2>4, <2>6 DEF SlotInv
  <2>13. UNCHANGED <<father, stack>>  BY <1>3
  <2> QED  BY ONLY <2>7, <2>8, <2>9, <2>10, <2>11, <2>12, <2>13 DEF SlotInv
<1>10. CallInv'
  <2>1. \A r \in Slot : r # p => pc'[r] = pc[r]  BY <1>0, <1>3 DEF TypeOK
  <2>2. \A r, t \in Slot : pc'[r] # "user" /\ pc'[t] # "user" /\ Leader(r) = Leader(t) => r = t
    BY <1>0, <1>2, <2>1 DEF CallInv
  <2>3. \A r, t \in Slot : pc'[r] = "unshare" => father[t] # Leader(r)  BY <1>0, <1>8 DEF CallInv
  <2>4. father' = father  BY <1>3
  <2> QED  BY <1>8, <2>2, <2>3, <2>4 DEF CallInv
<1>11. \A r \in Slot : r # q => map'[r] = map[r] /\ sz'[r] = sz[r] /\ guard'[r] = guard[r] /\ Mapped(r)' = Mapped(r)
  BY <1>0, <1>3 DEF TypeOK, Mapped
<1>12. ~Lead(q)  BY <1>3 DEF Lead
<1>13. SizeInv'
  <2>1. ASSUME NEW X \in Slot, Lead(X)', \A r \in Slot : Resizing(r)' => Leader(r)' # X
        PROVE  Mapped(X)' = Below(sz'[X])
    <3>1. X # q /\ Lead(X)  BY <1>8, <1>12, <2>1
    <3>2. \A r \in Slot : Resizing(r) => Leader(r) # X  BY <1>8, <2>1
    <3> QED  BY <1>0, <1>11, <3>1, <3>2 DEF SizeInv
  <2>2. ASSUME NEW r \in Slot, Resizing(r)  PROVE (Mapped(Leader(r)) = Below(newsz[r]))'
    BY <1>0, <1>3, <1>8, <1>11, <2>2 DEF SizeInv
  <2>3. ASSUME NEW r \in Slot, pc'[r] = "share"  PROVE (oldsz[r] = sz[Leader(r)])'
    BY <1>0, <1>3, <1>8, <1>11, <2>3 DEF SizeInv
  <2> QED  BY <1>8, <2>1, <2>2, <2>3 DEF SizeInv
<1>14. GuardInv'  BY <1>0, <1>3, <1>8, <1>11, <1>12 DEF GuardInv
<1>15. ShareInv'
  <2>1. \A X \in Slot, v \in VA : Unshared(X, v) => Unshared(X, v)'  BY <1>3, <1>8 DEF Unshared
  <2>2. ASSUME NEW r \in Slot, NEW X \in Slot, r # q, X # q, Shares(r, X)  PROVE Shares(r, X)'
    BY <1>11, <2>1, <2>2, SharesStill
  <2>3. Shares(q, L)'
    <3>1. map'[q] = m /\ sz'[q] = sz[L] /\ sz'[L] = sz[L] /\ map'[L] = map[L] /\ guard'[L] = guard[L]
      BY <1>0, <1>1, <1>3, <1>5, <1>11 DEF TypeOK
    <3>2. \A v \in VA : v \notin Below(sz[L]) => map[L][v] = None  BY <1>2 DEF Mapped
    <3>3. \A v \in VA : m[v] \in {None, map[L][v]}  BY <1>6
    <3>4. \A v \in VA \ guard[L] : m[v] = map[L][v]  BY <1>6, <3>2
    <3>5. \A v \in guard[L] : m[v] = None  BY <1>0, <1>1, <1>6 DEF TypeOK
    <3>6. L' = L  BY <1>1, <1>8
    <3> QED  BY <3>1, <3>3, <3>4, <3>5, <3>6 DEF Shares
  <2>4. \A r \in Slot : father[r] # None => r # q /\ father[r] \in Slot /\ father[r] # q
    BY <1>0, <1>5 DEF TypeOK
  <2>5. ASSUME NEW r \in Slot, np'[r] # None  PROVE (Shares(np[r], Leader(r)))'
    <3>1. CASE r = p
      <4>1. np'[p] = q /\ Leader(p)' = L  BY <1>0, <1>3, <1>8 DEF TypeOK
      <4> QED  BY <2>3, <3>1, <4>1
    <3>2. CASE r # p
      <4>1. np'[r] = np[r] /\ np[r] # None  BY <1>0, <1>3, <2>5, <3>2 DEF TypeOK
      <4>2. np[r] \in Slot /\ np[r] # q /\ Leader(r) # q /\ Leader(r) \in Slot /\ Leader(r)' = Leader(r)
        BY <1>0, <1>5, <1>8, <4>1, Members DEF SlotInv
      <4>3. Shares(np[r], Leader(r))  BY <1>0, <4>1 DEF ShareInv
      <4>4. Shares(np[r], Leader(r))'  BY <2>2, <4>1, <4>2, <4>3
      <4> QED  BY <4>4
    <3> QED  BY <3>1, <3>2
  <2> QED  BY <1>0, <1>3, <2>2, <2>4, <2>5 DEF ShareInv
<1>16. OwnInv'
  <2>1. free' \in SUBSET Page  BY <1>4
  <2>2. \A r \in Slot : r # q => /\ kpage'[r] = kpage[r] /\ stack'[r] = stack[r]
                                 /\ Lead(r)' <=> Lead(r)
                                 /\ Lead(r) => map'[r] = map[r]
    BY <1>0, <1>3, <1>8, <1>11 DEF TypeOK
  <2>3. kpage'[q] = k /\ stack'[q] = None /\ ~Lead(q)'  BY <1>0, <1>3, <1>5, <1>8, <1>12 DEF TypeOK
  <2>4. \A g \in Page : ~Has(q, g) /\ (Has(q, g)' <=> g = k)  BY <1>4, <1>5, <1>12, <2>3 DEF Has
  <2>5. \A g \in Page : g \in free' <=> (g \in free \/ Has(q, g)) /\ ~Has(q, g)'  BY <1>4, <2>4
  <2>6. kpage'[q] = stack'[q] => kpage'[q] = None  BY <2>3
  <2> QED  BY <1>0, <1>4, <2>1, <2>2, <2>3, <2>5, <2>6, OwnStep
<1>17. PanicOnlyOom'  BY <1>1, <1>3 DEF PanicOnlyOom
<1> QED  BY <1>7, <1>9, <1>10, <1>13, <1>14, <1>15, <1>16, <1>17 DEF IInv

\* thread_create's stack page makes np a thread of the group.
LEMMA ThreadStartStep ==
  ASSUME IInv, Risks = {}, NEW p \in Slot, ThreadStart(p)
  PROVE  IInv'
<1>0. TypeOK /\ SlotInv /\ CallInv /\ SizeInv /\ GuardInv /\ ShareInv /\ OwnInv /\ PanicOnlyOom
  BY DEF IInv
<1> DEFINE L == Leader(p)
           k == kalloc(0)
<1>1. PICK q \in Slot :
        /\ q = np[p] /\ pc[p] = "stack" /\ panic = ""
        /\ stack' = [stack EXCEPT ![q] = k]
        /\ free' = free \ Taken(1) /\ Enough(1)
        /\ father' = [father EXCEPT ![q] = L]
        /\ state' = [state EXCEPT ![q] = "LIVE"]
        /\ pc' = [pc EXCEPT ![p] = "user"]
        /\ np' = [np EXCEPT ![p] = None]
        /\ UNCHANGED <<kpage, map, guard, sz, oldsz, newsz, panic>>
  <2>1. pc[p] = "stack" /\ panic = ""  BY DEF ThreadStart, At
  <2>2. np[p] # None  BY <1>0, <2>1 DEF SlotInv
  <2>3. np[p] \in Slot  BY <1>0, <2>2, Members
  <2> QED  BY <2>1, <2>3 DEF ThreadStart
<1>2. /\ free \subseteq Page /\ None \notin Page /\ None \notin Slot /\ k \in free
      /\ free' = free \ {k}
  <2>1. free \subseteq Page /\ None \notin Page /\ None \notin Slot  BY <1>0, Bounds DEF TypeOK, None
  <2>2. Cardinality(free) \in Nat /\ Cardinality(free) >= 1  BY <1>1, <2>1, KallocFacts DEF Enough
  <2>3. 0 \in 0..Cardinality(free) - 1  BY <2>2
  <2>4. k \in free  BY <2>1, <2>3, KallocFacts
  <2> QED  BY <1>1, <2>1, <2>4, TakenFew
<1> HIDE DEF k
<1>3. /\ state[p] = "LIVE" /\ L \in Slot /\ Lead(L) /\ state[L] = "LIVE" /\ father[L] = None
      /\ L # None
  <2>1. state[p] = "LIVE"  BY <1>0, <1>1, Members
  <2> QED  BY <1>0, <1>2, <2>1, Members
<1>4. /\ state[q] = "USED" /\ q # p /\ q # L /\ kpage[q] # None /\ father[q] = None /\ pc[q] = "user"
      /\ stack[q] = None /\ np[q] = None
      /\ \A r \in Slot : father[r] # q /\ (np[r] = q => r = p)
      /\ \A r \in Slot : pc[r] # "user" => Leader(r) # q /\ r # q
  <2>1. state[q] = "USED"  BY <1>0, <1>1, <1>2 DEF SlotInv
  <2>2. q # p /\ q # L /\ kpage[q] # None /\ father[q] = None /\ pc[q] = "user" /\ stack[q] = None
    BY <1>0, <1>3, <2>1 DEF SlotInv
  <2>3. \A r \in Slot : father[r] # q  BY <1>0, <2>1, NoFollowers
  <2>4. np[q] = None  BY <1>0, <2>2 DEF SlotInv
  <2>5. \A r \in Slot : np[r] = q => r = p
    <3>1. \A r, t \in Slot : np[r] = np[t] /\ np[r] # None => r = t  BY <1>0 DEF SlotInv
    <3> QED  BY <1>1, <1>2, <3>1
  <2> QED  BY <1>0, <2>1, <2>2, <2>3, <2>4, <2>5, Members
<1>5. TypeOK'  BY <1>0, <1>1, <1>2, <1>3 DEF TypeOK
<1>6. /\ \A r \in Slot : Leader(r) \in Slot /\ (Lead(r)' <=> Lead(r))
      /\ \A r \in Slot : r # q => Leader(r)' = Leader(r) /\ father'[r] = father[r]
      /\ Leader(q)' = L /\ father'[q] = L
      /\ \A r \in Slot : r # p => pc'[r] = pc[r] /\ np'[r] = np[r]
      /\ pc'[p] = "user" /\ np'[p] = None
      /\ \A r \in Slot : Resizing(r)' <=> Resizing(r)
      /\ \A r \in Slot : pc'[r] = "share" <=> pc[r] = "share"
      /\ \A r \in Slot : Resizing(r) \/ pc[r] = "share" => r # q
  <2>1. \A r \in Slot : Leader(r) \in Slot  BY <1>0, Members
  <2>2. \A r \in Slot : Lead(r)' <=> Lead(r)  BY <1>0, <1>1, <1>3, <1>4 DEF TypeOK, Lead
  <2>3. \A r \in Slot : r # q => Leader(r)' = Leader(r) /\ father'[r] = father[r]
    BY <1>0, <1>1 DEF TypeOK, Leader
  <2>4. Leader(q)' = L /\ father'[q] = L  BY <1>0, <1>1, <1>3 DEF TypeOK, Leader
  <2>5. (\A r \in Slot : r # p => pc'[r] = pc[r] /\ np'[r] = np[r]) /\ pc'[p] = "user" /\ np'[p] = None
    BY <1>0, <1>1 DEF TypeOK
  <2> QED  BY <1>1, <1>4, <2>1, <2>2, <2>3, <2>4, <2>5 DEF Resizing
<1>7. SlotInv'
  <2>1. \A r \in Slot : r # q => state'[r] = state[r] /\ stack'[r] = stack[r]
    BY <1>0, <1>1 DEF TypeOK
  <2>2. state'[q] = "LIVE" /\ stack'[q] = k  BY <1>0, <1>1 DEF TypeOK
  <2>3. ASSUME NEW r \in Slot
        PROVE  /\ state'[r] = "UNUSED" => kpage[r] = None
               /\ state'[r] # "UNUSED" => kpage[r] # None
               /\ state'[r] \in {"UNUSED", "USED", "ZOMBIE"} => stack'[r] = None /\ pc'[r] = "user"
               /\ state'[r] \in {"UNUSED", "USED"} => father'[r] = None
               /\ father'[r] = None => stack'[r] = None
    <3>1. CASE r = q  BY <1>3, <1>4, <1>6, <2>2, <3>1
    <3>2. CASE r # q
      <4>1. state'[r] = state[r] /\ stack'[r] = stack[r] /\ father'[r] = father[r]  BY <1>6, <2>1, <3>2
      <4>2. pc'[r] \in {pc[r], "user"}  BY <1>6
      <4> QED  BY <1>0, <4>1, <4>2 DEF SlotInv
    <3> QED  BY <3>1, <3>2
  <2>4. \A r \in Slot : state'[r] = "USED" => \E c \in Slot : np'[c] = r
    <3> SUFFICES ASSUME NEW r \in Slot, state'[r] = "USED"  PROVE \E c \in Slot : np'[c] = r
      OBVIOUS
    <3>1. r # q /\ state[r] = "USED"  BY <2>1, <2>2
    <3>2. PICK c \in Slot : np[c] = r  BY <1>0, <3>1 DEF SlotInv
    <3>3. c # p  BY <1>1, <3>1, <3>2
    <3> QED  BY <1>6, <3>2, <3>3
  <2>5. \A r \in Slot : father'[r] # None => state'[father'[r]] = "LIVE" /\ father'[father'[r]] = None
    <3> SUFFICES ASSUME NEW r \in Slot, father'[r] # None
                 PROVE  state'[father'[r]] = "LIVE" /\ father'[father'[r]] = None
      OBVIOUS
    <3>1. CASE r = q  BY <1>3, <1>4, <1>6, <2>1, <3>1
    <3>2. CASE r # q
      <4>1. father'[r] = father[r] /\ father[r] \in Slot /\ father[r] # q
        BY <1>0, <1>4, <1>6, <3>2 DEF TypeOK
      <4>2. state[father[r]] = "LIVE" /\ father[father[r]] = None  BY <1>0, <1>2, <4>1 DEF SlotInv
      <4> QED  BY <1>6, <2>1, <4>1, <4>2
    <3> QED  BY <3>1, <3>2
  <2>6. \A r \in Slot : np'[r] # None <=> pc'[r] = "stack"  BY <1>0, <1>6 DEF SlotInv
  <2>7. \A r \in Slot : np'[r] # None => state'[np'[r]] = "USED"
    <3> SUFFICES ASSUME NEW r \in Slot, np'[r] # None  PROVE state'[np'[r]] = "USED"  OBVIOUS
    <3>1. r # p /\ np'[r] = np[r] /\ np[r] # None  BY <1>6
    <3>2. np[r] \in Slot /\ np[r] # q /\ state[np[r]] = "USED"  BY <1>0, <1>4, <3>1, Members
    <3> QED  BY <2>1, <3>1, <3>2
  <2>8. \A r, t \in Slot : np'[r] = np'[t] /\ np'[r] # None => r = t  BY <1>0, <1>6 DEF SlotInv
  <2>9. kpage' = kpage  BY <1>1
  <2> QED  BY ONLY <2>3, <2>4, <2>5, <2>6, <2>7, <2>8, <2>9 DEF SlotInv
<1>8. CallInv'
  <2>1. \A r, t \in Slot : pc'[r] # "user" /\ pc'[t] # "user" /\ Leader(r)' = Leader(t)' => r = t
    <3> SUFFICES ASSUME NEW r \in Slot, NEW t \in Slot, pc'[r] # "user", pc'[t] # "user",
                        Leader(r)' = Leader(t)'
                 PROVE  r = t
      OBVIOUS
    <3>1. pc[r] # "user" /\ pc[t] # "user"  BY <1>6
    <3>2. Leader(r) = Leader(t)  BY <1>4, <1>6, <3>1
    <3> QED  BY <1>0, <3>1, <3>2 DEF CallInv
  <2>2. \A r, t \in Slot : pc'[r] = "unshare" => father'[t] # Leader(r)'
    <3> SUFFICES ASSUME NEW r \in Slot, NEW t \in Slot, pc'[r] = "unshare"
                 PROVE  father'[t] # Leader(r)'
      OBVIOUS
    <3>1. pc[r] = "unshare" /\ r # p /\ r # q /\ Leader(r)' = Leader(r)  BY <1>4, <1>6
    <3>2. Leader(r) # L  BY <1>0, <1>1, <3>1 DEF CallInv
    <3>3. father[t] # Leader(r)  BY <1>0, <3>1 DEF CallInv
    <3> QED  BY <1>6, <3>1, <3>2, <3>3
  <2> QED  BY <2>1, <2>2 DEF CallInv
<1>9. UNCHANGED <<map, sz, oldsz, newsz, guard>> /\ \A r \in Slot : Mapped(r)' = Mapped(r)
  BY <1>1 DEF Mapped
<1>10. SizeInv'
  <2>1. ASSUME NEW X \in Slot, Lead(X)', \A r \in Slot : Resizing(r)' => Leader(r)' # X
        PROVE  Mapped(X)' = Below(sz'[X])
    <3>1. Lead(X)  BY <1>6, <2>1
    <3>2. \A r \in Slot : Resizing(r) => Leader(r) # X  BY <1>6, <2>1
    <3> QED  BY <1>0, <1>9, <3>1, <3>2 DEF SizeInv
  <2>2. ASSUME NEW r \in Slot, Resizing(r)  PROVE (Mapped(Leader(r)) = Below(newsz[r]))'
    BY <1>0, <1>6, <1>9, <2>2 DEF SizeInv
  <2>3. ASSUME NEW r \in Slot, pc[r] = "share"  PROVE (oldsz[r] = sz[Leader(r)])'
    BY <1>0, <1>6, <1>9, <2>3 DEF SizeInv
  <2> QED  BY <1>6, <2>1, <2>2, <2>3 DEF SizeInv
<1>11. GuardInv'  BY <1>0, <1>6, <1>9 DEF GuardInv
<1>12. ShareInv'
  <2>1. \A X \in Slot, v \in VA : Unshared(X, v) => Unshared(X, v)'  BY <1>6, <1>9 DEF Unshared
  <2>2. ASSUME NEW r \in Slot, NEW X \in Slot, Shares(r, X)  PROVE Shares(r, X)'
    BY <1>9, <2>1, <2>2, SharesStill
  <2>3. ASSUME NEW r \in Slot, father'[r] # None  PROVE (Shares(r, father[r]))'
    <3>1. CASE r = q
      <4>1. PICK X \in Slot : X = L  BY <1>3
      <4>2. Shares(q, X)  BY <1>0, <1>1, <1>2, <4>1 DEF ShareInv
      <4>3. Shares(q, X)'  BY <2>2, <4>2
      <4>4. father'[q] = X  BY <1>6, <4>1
      <4> QED  BY <3>1, <4>3, <4>4
    <3>2. CASE r # q
      <4>1. father'[r] = father[r] /\ father[r] \in Slot  BY <1>0, <1>6, <2>3, <3>2 DEF TypeOK
      <4>2. Shares(r, father[r])  BY <1>0, <2>3, <4>1 DEF ShareInv
      <4> QED  BY <2>2, <4>1, <4>2
    <3> QED  BY <3>1, <3>2
  <2>4. ASSUME NEW r \in Slot, np'[r] # None  PROVE (Shares(np[r], Leader(r)))'
    <3>1. r # p /\ np'[r] = np[r] /\ np[r] # None  BY <1>6, <2>4
    <3>2. np[r] \in Slot /\ Leader(r) \in Slot /\ r # q  BY <1>0, <1>4, <1>6, <3>1, Members
    <3>3. Shares(np[r], Leader(r))  BY <1>0, <3>1 DEF ShareInv
    <3>4. Leader(r)' = Leader(r)  BY <1>6, <3>2
    <3> QED  BY <2>2, <3>1, <3>2, <3>3, <3>4
  <2> QED  BY <2>3, <2>4 DEF ShareInv
<1>13. OwnInv'
  <2>1. free' \in SUBSET Page  BY <1>2
  <2>2. \A r \in Slot : r # q => /\ kpage'[r] = kpage[r] /\ stack'[r] = stack[r]
                                 /\ Lead(r)' <=> Lead(r)
                                 /\ Lead(r) => map'[r] = map[r]
    <3>1. \A r \in Slot : r # q => stack'[r] = stack[r]  BY <1>0, <1>1 DEF TypeOK
    <3> QED  BY <1>1, <1>6, <3>1
  <2>3. kpage'[q] = kpage[q] /\ stack'[q] = k /\ ~Lead(q) /\ ~Lead(q)'
    BY <1>0, <1>1, <1>4, <1>6 DEF TypeOK, Lead
  <2>4. kpage[q] \notin free  BY <1>0, OwnFacts
  <2>5. \A g \in Page : (Has(q, g) <=> g = kpage[q]) /\ (Has(q, g)' <=> g \in {kpage[q], k})
    BY <1>2, <1>4, <2>3 DEF Has
  <2>6. \A g \in Page : g \in free' <=> (g \in free \/ Has(q, g)) /\ ~Has(q, g)'  BY <1>2, <2>4, <2>5
  <2>7. kpage'[q] = stack'[q] => kpage'[q] = None  BY <1>2, <2>3, <2>4
  <2> QED  BY <1>0, <1>2, <2>1, <2>2, <2>3, <2>6, <2>7, OwnStep
<1>14. PanicOnlyOom'  BY <1>1 DEF PanicOnlyOom
<1> QED  BY <1>5, <1>7, <1>8, <1>10, <1>11, <1>12, <1>13, <1>14 DEF IInv

\* thread_create without a page for the stack: np has no guard page, so freeproc
\* panics, and there is no free page.
LEMMA ThreadFailStep ==
  ASSUME IInv, Risks = {}, NEW p \in Slot, ThreadFail(p)
  PROVE  IInv'
<1>0. TypeOK /\ SlotInv /\ GuardInv /\ ShareInv  BY DEF IInv
<1> DEFINE L == Leader(p)
           q == np[p]
<1>1. pc[p] = "stack" /\ ~Enough(1)  BY DEF ThreadFail, At
<1>2. q # None  BY <1>0, <1>1 DEF SlotInv
<1>3. state[p] = "LIVE" /\ L \in Slot /\ Lead(L)
  <2>1. state[p] = "LIVE"  BY <1>0, <1>1, Members
  <2> QED  BY <1>0, <2>1, Members
<1>4. Shares(q, L)  BY <1>0, <1>2 DEF ShareInv
<1>5. PICK g \in guard[L] : g \in Below(sz[L])  BY <1>0, <1>3 DEF GuardInv
<1>6. map[q][g] = None /\ sz[q] = sz[L]  BY <1>4 DEF Shares
<1>7. ~CanFree(q)  BY <1>5, <1>6 DEF CanFree, Mapped
<1>8. UNCHANGED <<free, state, father, kpage, map, guard, stack, sz, pc, oldsz, newsz, np>>
  BY <1>7 DEF ThreadFail, Panic, table, frame
<1>9. free = {}
  <2>1. free \subseteq Page  BY <1>0 DEF TypeOK
  <2>2. Cardinality(free) \in Nat /\ ~(Cardinality(free) >= 1)  BY <1>1, <2>1, KallocFacts DEF Enough
  <2>3. Cardinality(free) = 0  BY <2>2
  <2> QED  BY <2>1, <2>3, KallocFacts
<1>10. PanicOnlyOom'  BY <1>8, <1>9 DEF PanicOnlyOom
<1> QED  BY <1>8, <1>10, Unmoved

\* growproc's work on the leader's page table: it has a page at every address below
\* the new size.
LEMMA ResizeStep ==
  ASSUME IInv, NEW p \in Slot, NEW L \in Slot, L = Leader(p), NEW b \in Nat,
         NEW m \in [VA -> Page \cup {None}], NEW where \in {"share", "unshare"},
         state[p] = "LIVE", pc[p] = "user", Quiet(L),
         map' = [map EXCEPT ![L] = m], oldsz' = [oldsz EXCEPT ![p] = sz[L]],
         newsz' = [newsz EXCEPT ![p] = b], pc' = [pc EXCEPT ![p] = where],
         UNCHANGED <<state, father, kpage, guard, stack, sz, np>>, free' \in SUBSET Page,
         \A v \in VA : m[v] # None <=> v \in Below(b), guard[L] \subseteq Below(b),
         where = "unshare" => \A q \in Slot : father[q] # L,
         \A q \in Slot : father[q] = L => Shares(q, L)'
  PROVE  TypeOK' /\ SlotInv' /\ CallInv' /\ SizeInv' /\ GuardInv' /\ ShareInv'
<1>0. TypeOK /\ SlotInv /\ CallInv /\ SizeInv /\ GuardInv /\ ShareInv /\ OwnInv /\ PanicOnlyOom
  BY DEF IInv
<1>1. TypeOK'  BY <1>0 DEF TypeOK
<1>2. None \notin Slot /\ Lead(L) /\ state[L] = "LIVE" /\ father[L] = None
  BY <1>0, Members, Bounds DEF None
<1>3. \A r \in Slot : Leader(r) = L => pc[r] = "user" /\ np[r] = None  BY <1>0, QuietGroup
<1>4. \A r \in Slot : r # p => pc'[r] = pc[r] /\ oldsz'[r] = oldsz[r] /\ newsz'[r] = newsz[r]
  BY <1>0 DEF TypeOK
<1>5. pc'[p] = where /\ oldsz'[p] = sz[L] /\ newsz'[p] = b /\ np[p] = None
  BY <1>0, <1>3 DEF TypeOK
<1>6. \A r \in Slot : /\ Leader(r)' = Leader(r) /\ Leader(r) \in Slot /\ (Lead(r)' <=> Lead(r))
                      /\ Resizing(r) => r # p /\ Leader(r) # L
                      /\ Resizing(r)' <=> r = p \/ Resizing(r)
  <2>1. \A r \in Slot : Leader(r)' = Leader(r) /\ Leader(r) \in Slot /\ (Lead(r)' <=> Lead(r))
    BY <1>0, Members DEF Leader, Lead
  <2>2. \A r \in Slot : Resizing(r) => r # p /\ Leader(r) # L  BY <1>3 DEF Resizing
  <2>3. \A r \in Slot : Resizing(r)' <=> r = p \/ Resizing(r)  BY <1>4, <1>5 DEF Resizing
  <2> QED  BY <2>1, <2>2, <2>3
<1>7. SlotInv'
  <2>1. ASSUME NEW r \in Slot, state[r] \in {"UNUSED", "USED", "ZOMBIE"}  PROVE pc'[r] = "user"
    <3>1. r # p  BY <2>1
    <3> QED  BY <1>0, <1>4, <2>1, <3>1 DEF SlotInv
  <2>2. ASSUME NEW r \in Slot  PROVE np[r] # None <=> pc'[r] = "stack"
    <3>1. CASE r = p  BY <1>5, <3>1
    <3>2. CASE r # p  BY <1>0, <1>4, <3>2 DEF SlotInv
    <3> QED  BY <3>1, <3>2
  <2> QED  BY <1>0, <2>1, <2>2 DEF SlotInv
<1>8. CallInv'
  <2>1. ASSUME NEW r \in Slot, NEW t \in Slot, pc'[r] # "user", pc'[t] # "user", Leader(r)' = Leader(t)'
        PROVE  r = t
    <3>1. Leader(r) = Leader(t)  BY <1>6, <2>1
    <3>2. CASE r = p \/ t = p  BY <1>3, <1>4, <2>1, <3>1, <3>2
    <3>3. CASE r # p /\ t # p  BY <1>0, <1>4, <2>1, <3>1, <3>3 DEF CallInv
    <3> QED  BY <3>2, <3>3
  <2>2. ASSUME NEW r \in Slot, NEW t \in Slot, pc'[r] = "unshare"  PROVE father'[t] # Leader(r)'
    <3>1. CASE r = p  BY <1>5, <1>6, <2>2, <3>1
    <3>2. CASE r # p  BY <1>0, <1>4, <1>6, <2>2, <3>2 DEF CallInv
    <3> QED  BY <3>1, <3>2
  <2> QED  BY <2>1, <2>2 DEF CallInv
<1>9. \A r \in Slot : r # L => map'[r] = map[r] /\ Mapped(r)' = Mapped(r)
  BY <1>0 DEF TypeOK, Mapped
<1>10. map'[L] = m /\ Mapped(L)' = Below(b)
  <2>1. map'[L] = m  BY <1>0 DEF TypeOK
  <2>2. Mapped(L)' = {v \in VA : m[v] # None}  BY <2>1 DEF Mapped
  <2>3. Below(b) \subseteq VA  BY DEF Below
  <2> QED  BY <2>1, <2>2, <2>3
<1>11. SizeInv'
  <2>1. ASSUME NEW X \in Slot, Lead(X)', \A r \in Slot : Resizing(r)' => Leader(r)' # X
        PROVE  Mapped(X)' = Below(sz'[X])
    <3>1. X # L /\ Lead(X)  BY <1>6, <2>1
    <3>2. \A r \in Slot : Resizing(r) => Leader(r) # X  BY <1>6, <2>1
    <3> QED  BY <1>0, <1>9, <3>1, <3>2 DEF SizeInv
  <2>2. ASSUME NEW r \in Slot, Resizing(r)'  PROVE (Mapped(Leader(r)) = Below(newsz[r]))'
    <3>1. CASE r = p  BY <1>5, <1>6, <1>10, <3>1
    <3>2. CASE r # p
      <4>1. Resizing(r) /\ Leader(r) # L /\ Leader(r)' = Leader(r) /\ newsz'[r] = newsz[r]
        BY <1>4, <1>6, <2>2, <3>2
      <4> QED  BY <1>0, <1>6, <1>9, <4>1 DEF SizeInv
    <3> QED  BY <3>1, <3>2
  <2>3. ASSUME NEW r \in Slot, pc'[r] = "share"  PROVE (oldsz[r] = sz[Leader(r)])'
    <3>1. CASE r = p  BY <1>5, <1>6, <3>1
    <3>2. CASE r # p  BY <1>0, <1>4, <1>6, <2>3, <3>2 DEF SizeInv
    <3> QED  BY <3>1, <3>2
  <2> QED  BY <2>1, <2>2, <2>3 DEF SizeInv
<1>12. GuardInv'
  <2>1. ASSUME NEW r \in Slot, Resizing(r)'  PROVE (guard[Leader(r)] \subseteq Below(newsz[r]))'
    <3>1. CASE r = p  BY <1>5, <1>6, <3>1
    <3>2. CASE r # p  BY <1>0, <1>4, <1>6, <2>1, <3>2 DEF GuardInv
    <3> QED  BY <3>1, <3>2
  <2> QED  BY <1>0, <1>6, <2>1 DEF GuardInv
<1>13. ShareInv'
  <2>1. \A X \in Slot, v \in VA : Unshared(X, v) => Unshared(X, v)'
    <3>1. \A r \in Slot : pc[r] = "share" => r # p  OBVIOUS
    <3> QED  BY <1>4, <1>6, <3>1 DEF Unshared
  <2>2. ASSUME NEW r \in Slot, NEW X \in Slot, r # L, X # L, Shares(r, X)  PROVE Shares(r, X)'
    BY <1>9, <2>1, <2>2, SharesStill
  <2>3. ASSUME NEW r \in Slot, father[r] # None  PROVE (Shares(r, father[r]))'
    <3>1. father[r] \in Slot /\ r # L /\ Shares(r, father[r])  BY <1>0, <1>2, <2>3 DEF TypeOK, ShareInv
    <3>2. PICK X \in Slot : X = father[r]  BY <3>1
    <3>3. Shares(r, X)'
      <4>1. CASE X = L  BY <3>2, <4>1
      <4>2. CASE X # L  BY <2>2, <3>1, <3>2, <4>2
      <4> QED  BY <4>1, <4>2
    <3> QED  BY <3>2, <3>3
  <2>4. ASSUME NEW r \in Slot, np[r] # None  PROVE (Shares(np[r], Leader(r)))'
    <3>1. np[r] \in Slot /\ np[r] # L /\ Leader(r) # L /\ Shares(np[r], Leader(r))
      BY <1>0, <1>2, <1>3, <2>4, Members DEF ShareInv
    <3> QED  BY <1>6, <2>2, <3>1
  <2> QED  BY <2>3, <2>4 DEF ShareInv
<1> QED  BY <1>1, <1>7, <1>8, <1>11, <1>12, <1>13

\* A growing growproc: new pages for the leader.
LEMMA GrowMapStep ==
  ASSUME IInv, Risks = {}, NEW p \in Slot, NEW n \in Sbrk, GrowMap(p, n)
  PROVE  IInv'
<1>0. TypeOK /\ SlotInv /\ CallInv /\ SizeInv /\ GuardInv /\ ShareInv /\ OwnInv /\ PanicOnlyOom
  BY DEF IInv
<1>1. PICK L \in Slot : L = Leader(p)  BY <1>0, Members
<1>2. PICK a \in Nat : a = sz[L]  BY <1>0 DEF TypeOK
<1>3. PICK b \in Nat : b = a + n /\ a <= b
  <2>1. n \in Int /\ n > 0  BY UserMemAssumption DEF GrowMap
  <2> QED  BY <2>1
<1>4. /\ state[p] = "LIVE" /\ pc[p] = "user" /\ panic = "" /\ Quiet(L)
      /\ Lead(L) /\ state[L] = "LIVE" /\ father[L] = None /\ kpage[L] # None /\ stack[L] = None
  <2>1. state[p] = "LIVE" /\ pc[p] = "user" /\ panic = "" /\ Quiet(L)
    BY <1>1 DEF GrowMap, Enter, At, Careful
  <2>2. Lead(L) /\ state[L] = "LIVE" /\ father[L] = None  BY <1>0, <1>1, <2>1, Members
  <2>3. kpage[L] # None /\ stack[L] = None  BY <1>0, <2>2 DEF SlotInv
  <2> QED  BY <2>1, <2>2, <2>3
<1>5. /\ Mapped(L) = Below(a)
      /\ \A r \in Slot : Leader(r) = L => pc[r] = "user" /\ np[r] = None
  BY <1>0, <1>2, <1>4, QuietGroup
<1> DEFINE vs == NewPages(a, b)
           f == Filled(vs, 0)
           m == [v \in VA |-> IF v \in vs THEN f[v] ELSE map[L][v]]
<1>6. vs = Below(b) \ Below(a) /\ Below(a) \subseteq Below(b) /\ vs \in SUBSET VA
  BY <1>3, NewPagesAre, BelowMonotonic DEF NewPages
<1>7. /\ map' = [map EXCEPT ![L] = m]
      /\ free' = free \ Taken(Cardinality(vs))
      /\ oldsz' = [oldsz EXCEPT ![p] = sz[L]]
      /\ newsz' = [newsz EXCEPT ![p] = b]
      /\ pc' = [pc EXCEPT ![p] = "share"]
      /\ Enough(Cardinality(vs))
      /\ UNCHANGED <<state, father, kpage, guard, stack, sz, np, panic>>
  <2>1. vs \cap Mapped(L) = {}  BY <1>5, <1>6
  <2>2. vs = NewPages(sz[L], sz[L] + n) /\ b = sz[L] + n  BY <1>2, <1>3
  <2>3. /\ map' = [map EXCEPT ![L] = [v \in VA |-> IF v \in vs THEN f[v] ELSE map[L][v]]]
        /\ free' = free \ Taken(Cardinality(vs))
        /\ oldsz' = [oldsz EXCEPT ![p] = sz[L]]
        /\ newsz' = [newsz EXCEPT ![p] = sz[L] + n]
        /\ pc' = [pc EXCEPT ![p] = "share"]
        /\ Enough(Cardinality(vs))
        /\ UNCHANGED <<state, father, kpage, guard, stack, sz, np, panic>>
    <3> HIDE DEF vs
    <3> QED  BY <1>1, <1>4, <2>1, <2>2 DEF GrowMap, Panic
  <2> QED  BY <2>2, <2>3
<1>8. /\ \A v \in vs : f[v] \in free
      /\ \A v, w \in vs : f[v] = f[w] => v = w
      /\ free' = free \ {f[v] : v \in vs}
  <2>1. free \subseteq Page /\ Enough(Cardinality(vs)) /\ vs \in SUBSET VA
    BY <1>0, <1>6, <1>7 DEF TypeOK
  <2> HIDE DEF vs, m
  <2>2. /\ \A v \in vs : f[v] \in free
        /\ \A v, w \in vs : f[v] = f[w] => v = w
        /\ Taken(Cardinality(vs)) = {f[v] : v \in vs}
    BY ONLY <2>1, FilledAll
  <2> HIDE DEF f
  <2> QED  BY <1>7, <2>2
<1> HIDE DEF vs, f
<1>9. free \subseteq Page /\ None \notin Page /\ None \notin free /\ map[L] \in [VA -> Page \cup {None}]
  BY <1>0, Bounds DEF TypeOK, None
<1>10. /\ m \in [VA -> Page \cup {None}]
       /\ \A v \in VA : m[v] = IF v \in vs THEN f[v] ELSE map[L][v]
       /\ \A v \in VA : m[v] # None <=> v \in Below(b)
       /\ \A v \in vs : map[L][v] = None
  <2>1. \A v \in VA : (IF v \in vs THEN f[v] ELSE map[L][v]) \in Page \cup {None}  BY <1>8, <1>9
  <2>2. m \in [VA -> Page \cup {None}] /\ \A v \in VA : m[v] = IF v \in vs THEN f[v] ELSE map[L][v]
    BY <2>1
  <2>3. \A v \in VA : map[L][v] # None <=> v \in Below(a)  BY <1>5 DEF Mapped, Below
  <2> HIDE DEF m
  <2> QED  BY <1>6, <1>8, <1>9, <2>2, <2>3
<1> HIDE DEF m
<1>11. free' \in SUBSET Page  BY <1>8, <1>9
<1>12. guard[L] \subseteq Below(b)  BY <1>0, <1>2, <1>4, <1>6 DEF GuardInv
<1>13. map'[L] = m /\ \A r \in Slot : r # L => map'[r] = map[r]  BY <1>0, <1>7 DEF TypeOK
<1>14. ASSUME NEW q \in Slot, father[q] = L  PROVE Shares(q, L)'
  <2>1. L # None  BY Bounds DEF None
  <2>2. Shares(q, L) /\ q # L  BY <1>0, <1>4, <1>14, <2>1 DEF ShareInv
  <2>3. map'[q] = map[q] /\ sz'[q] = sz[q] /\ sz'[L] = sz[L] /\ guard'[L] = guard[L]
    BY <1>7, <1>13, <2>2
  <2>4. \A v \in VA : ~Unshared(L, v)  BY <1>5 DEF Unshared
  <2>5. \A v \in vs : Unshared(L, v)'
    <3>1. pc'[p] = "share" /\ oldsz'[p] = a /\ newsz'[p] = b  BY <1>0, <1>2, <1>7 DEF TypeOK
    <3>2. Leader(p)' = L  BY <1>1, <1>7 DEF Leader
    <3> QED  BY <3>1, <3>2 DEF Unshared, vs
  <2>6. \A v \in VA : map'[q][v] \in {None, map'[L][v]}
    <3> TAKE v \in VA
    <3>1. map[q][v] \in {None, map[L][v]}  BY <2>2 DEF Shares
    <3> QED  BY <1>10, <1>13, <2>3, <3>1
  <2>7. \A v \in VA \ guard[L] : Unshared(L, v)' \/ map'[q][v] = map'[L][v]
    <3> TAKE v \in VA \ guard[L]
    <3>1. map[q][v] = map[L][v]  BY <2>2, <2>4 DEF Shares
    <3> QED  BY <1>10, <1>13, <2>3, <2>5, <3>1
  <2>8. \A v \in guard[L] : map'[q][v] = None  BY <2>2, <2>3 DEF Shares
  <2>9. sz'[q] = sz'[L]  BY <2>2, <2>3 DEF Shares
  <2> QED  BY <2>3, <2>6, <2>7, <2>8, <2>9 DEF Shares
<1>15. TypeOK' /\ SlotInv' /\ CallInv' /\ SizeInv' /\ GuardInv' /\ ShareInv'
  <2>1. "share" \in {"share", "unshare"} /\ "share" # "unshare"  OBVIOUS
  <2>2. UNCHANGED <<state, father, kpage, guard, stack, sz, np>>  BY <1>7
  <2> QED  BY ONLY IInv, p \in Slot, L \in Slot, b \in Nat, <1>1, <1>4, <1>7, <1>10, <1>11, <1>12, <1>14,
                   <2>1, <2>2, ResizeStep
<1>16. OwnInv'
  <2>1. \A r \in Slot : r # L => /\ kpage'[r] = kpage[r] /\ stack'[r] = stack[r]
                                 /\ Lead(r)' <=> Lead(r)
                                 /\ Lead(r) => map'[r] = map[r]
    BY <1>7, <1>13 DEF Lead
  <2>2. kpage'[L] = kpage[L] /\ stack'[L] = None /\ Lead(L)'  BY <1>4, <1>7 DEF Lead
  <2>3. /\ kpage[L] \notin free
        /\ \A v \in VA : map[L][v] \notin free /\ (map[L][v] = kpage[L] => map[L][v] = None)
        /\ \A v, w \in VA : map[L][v] = map[L][w] /\ map[L][v] # None => v = w
    BY <1>0, <1>4, OwnFacts
  <2>4. \A v \in VA : m[v] \in free \/ m[v] = None \/ m[v] = map[L][v]  BY <1>8, <1>10
  <2>5. \A v \in VA : m[v] \in {kpage[L], None} => m[v] = None  BY <1>8, <1>10, <2>3
  <2>6. \A v, w \in VA : m[v] = m[w] /\ m[v] # None => v = w
    <3> TAKE v, w \in VA
    <3>1. CASE v \in vs /\ w \in vs  BY <1>8, <1>10, <3>1
    <3>2. CASE v \notin vs /\ w \notin vs  BY <1>10, <2>3, <3>2
    <3>3. CASE v \in vs /\ w \notin vs  BY <1>8, <1>10, <2>3, <3>3
    <3>4. CASE v \notin vs /\ w \in vs  BY <1>8, <1>10, <2>3, <3>4
    <3> QED  BY <3>1, <3>2, <3>3, <3>4
  <2>7. \A g \in Page : Has(L, g) <=> g = kpage[L] \/ \E v \in VA : map[L][v] = g
    BY <1>4, <1>9 DEF Has
  <2>8. \A g \in Page : Has(L, g)' <=> g = kpage[L] \/ \E v \in VA : m[v] = g
    BY <1>9, <1>13, <2>2 DEF Has
  <2>9. \A g \in Page : (\E v \in VA : m[v] = g) <=> (\E v \in VA : map[L][v] = g) \/ g \in {f[v] : v \in vs}
    <3> TAKE g \in Page
    <3>1. g # None  BY <1>9
    <3>2. ASSUME NEW v \in VA, m[v] = g
          PROVE  (\E w \in VA : map[L][w] = g) \/ g \in {f[w] : w \in vs}
      BY <1>10, <3>2
    <3>3. ASSUME NEW v \in VA, map[L][v] = g  PROVE m[v] = g  BY <1>10, <3>1, <3>3
    <3>4. ASSUME NEW v \in vs, f[v] = g  PROVE v \in VA /\ m[v] = g  BY <1>6, <1>10, <3>4
    <3> QED  BY <3>2, <3>3, <3>4
  <2>10. \A g \in Page : g \in free' <=> (g \in free \/ Has(L, g)) /\ ~Has(L, g)'
    BY <1>8, <2>3, <2>7, <2>8, <2>9
  <2>11. kpage'[L] = stack'[L] => kpage'[L] = None  BY <2>2
  <2>12. \A v \in VA : map'[L][v] = m[v]  BY <1>13
  <2> QED  BY <1>0, <1>4, <1>11, <2>1, <2>2, <2>4, <2>5, <2>6, <2>10, <2>11, <2>12, OwnStep
<1>17. PanicOnlyOom'  BY <1>4, <1>7 DEF PanicOnlyOom
<1> QED  BY <1>15, <1>16, <1>17 DEF IInv

\* A shrinking growproc: the leader, who has no threads, gives pages back, and
\* keeps its guard page.
LEMMA ShrinkStep ==
  ASSUME IInv, Risks = {}, NEW p \in Slot, NEW n \in Sbrk, Shrink(p, n)
  PROVE  IInv'
<1>0. TypeOK /\ SlotInv /\ CallInv /\ SizeInv /\ GuardInv /\ ShareInv /\ OwnInv /\ PanicOnlyOom
  BY DEF IInv
<1>1. PICK L \in Slot : L = Leader(p)  BY <1>0, Members
<1>2. PICK a \in Nat : a = sz[L]  BY <1>0 DEF TypeOK
<1>3. PICK b \in Nat : b = a + n /\ b <= a
  <2>1. n \in Int /\ n < 0 /\ a + n >= 0  BY <1>1, <1>2, UserMemAssumption DEF Shrink, NoWrap
  <2> QED  BY <2>1
<1>4. /\ state[p] = "LIVE" /\ pc[p] = "user" /\ panic = "" /\ Quiet(L) /\ Group(L) = {L}
      /\ \A g \in guard[L] : (g + 2) * PGSIZE <= b
      /\ Lead(L) /\ state[L] = "LIVE" /\ father[L] = None /\ kpage[L] # None /\ stack[L] = None
  <2>1. /\ state[p] = "LIVE" /\ pc[p] = "user" /\ panic = "" /\ Quiet(L) /\ Group(L) = {L}
        /\ \A g \in guard[L] : (g + 2) * PGSIZE <= b
    BY <1>1, <1>2, <1>3 DEF Shrink, Enter, At, Careful
  <2>2. Lead(L) /\ state[L] = "LIVE" /\ father[L] = None  BY <1>0, <1>1, <2>1, Members
  <2>3. kpage[L] # None /\ stack[L] = None  BY <1>0, <2>2 DEF SlotInv
  <2> QED  BY <2>1, <2>2, <2>3
<1>5. Mapped(L) = Below(a) /\ \A r \in Slot : father[r] # L
  BY <1>0, <1>2, <1>4, QuietGroup, AloneGroup
<1>6. Below(b) \subseteq Below(a) /\ Below(a) \subseteq VA  BY <1>3, BelowMonotonic DEF Below
<1>7. guard[L] \subseteq Below(b)
  <2> SUFFICES ASSUME NEW g \in guard[L]  PROVE g \in Below(b)  OBVIOUS
  <2>1. g \in VA /\ g \in Nat  BY <1>0, Bounds DEF TypeOK
  <2>2. PGSIZE \in Nat \ {0}  BY UserMemAssumption
  <2>3. PICK c \in Nat : c = g * PGSIZE  BY <2>1, <2>2
  <2>4. (g + 2) * PGSIZE <= b  BY <1>4
  <2>5. c < b  BY <2>1, <2>2, <2>3, <2>4, Z3
  <2>6. g < PGROUNDUP(b)  BY <2>1, <2>3, <2>5, RoundUp
  <2> QED  BY <2>1, <2>6 DEF Below
<1> DEFINE vs == Below(a) \ Below(b)
           m == [v \in VA |-> IF v \in vs THEN None ELSE map[L][v]]
<1>8. /\ map' = [map EXCEPT ![L] = m]
      /\ free' = free \cup PagesOf(L, vs)
      /\ oldsz' = [oldsz EXCEPT ![p] = sz[L]]
      /\ newsz' = [newsz EXCEPT ![p] = b]
      /\ guard' = [guard EXCEPT ![L] = guard[L] \ vs]
      /\ pc' = [pc EXCEPT ![p] = "unshare"]
      /\ UNCHANGED <<state, father, kpage, stack, sz, np, panic>>
  <2>1. vs \subseteq Mapped(L)  BY <1>5
  <2>2. vs = Released(sz[L], sz[L] + n) /\ b = sz[L] + n  BY <1>2, <1>3 DEF Released
  <2>3. m = Unmapped(L, vs)  BY DEF Unmapped
  <2> HIDE DEF vs, m
  <2> QED  BY <1>1, <2>1, <2>2, <2>3 DEF Shrink, Panic
<1>9. guard' = guard
  <2>1. guard[L] \ vs = guard[L]  BY <1>7
  <2> HIDE DEF vs
  <2> QED  BY <1>0, <1>8, <2>1 DEF TypeOK
<1>10. free \subseteq Page /\ None \notin Page /\ None \notin free /\ map[L] \in [VA -> Page \cup {None}]
  BY <1>0, Bounds DEF TypeOK, None
<1>11. /\ m \in [VA -> Page \cup {None}]
       /\ \A v \in VA : m[v] = IF v \in vs THEN None ELSE map[L][v]
       /\ \A v \in VA : m[v] # None <=> v \in Below(b)
  <2>1. \A v \in VA : (IF v \in vs THEN None ELSE map[L][v]) \in Page \cup {None}  BY <1>10
  <2>2. m \in [VA -> Page \cup {None}] /\ \A v \in VA : m[v] = IF v \in vs THEN None ELSE map[L][v]
    BY <2>1
  <2>3. \A v \in VA : map[L][v] # None <=> v \in Below(a)  BY <1>5 DEF Mapped, Below
  <2> HIDE DEF m
  <2> QED  BY <1>6, <2>2, <2>3
<1> HIDE DEF m
<1>12. free' \in SUBSET Page
  <2>1. PagesOf(L, vs) \subseteq Page  BY <1>6, <1>10 DEF PagesOf
  <2> QED  BY <1>8, <1>10, <2>1
<1>13. map'[L] = m /\ \A r \in Slot : r # L => map'[r] = map[r]  BY <1>0, <1>8 DEF TypeOK
<1>14. TypeOK' /\ SlotInv' /\ CallInv' /\ SizeInv' /\ GuardInv' /\ ShareInv'
  <2>1. "unshare" \in {"share", "unshare"}  OBVIOUS
  <2>2. UNCHANGED <<state, father, kpage, guard, stack, sz, np>>  BY <1>8, <1>9
  <2>3. \A q \in Slot : father[q] = L => Shares(q, L)'  BY <1>5
  <2> HIDE DEF vs
  <2> QED  BY ONLY IInv, p \in Slot, L \in Slot, b \in Nat, <1>1, <1>4, <1>5, <1>7, <1>8, <1>11, <1>12,
                   <2>1, <2>2, <2>3, ResizeStep
<1>15. OwnInv'
  <2>1. \A r \in Slot : r # L => /\ kpage'[r] = kpage[r] /\ stack'[r] = stack[r]
                                 /\ Lead(r)' <=> Lead(r)
                                 /\ Lead(r) => map'[r] = map[r]
    BY <1>8, <1>13 DEF Lead
  <2>2. kpage'[L] = kpage[L] /\ stack'[L] = None /\ Lead(L)'  BY <1>4, <1>8 DEF Lead
  <2>3. /\ kpage[L] \notin free
        /\ \A v \in VA : map[L][v] \notin free /\ (map[L][v] = kpage[L] => map[L][v] = None)
        /\ \A v, w \in VA : map[L][v] = map[L][w] /\ map[L][v] # None => v = w
    <3>1. OwnInv /\ Lead(L)  BY <1>0, <1>4
    <3> QED  BY ONLY <3>1, L \in Slot, OwnFacts
  <2>4. \A v \in VA : m[v] = None \/ m[v] = map[L][v]  BY <1>11
  <2>5. \A v \in VA : m[v] \in {kpage[L], None} => m[v] = None  BY <2>3, <2>4
  <2>6. \A v, w \in VA : m[v] = m[w] /\ m[v] # None => v = w  BY <2>3, <2>4
  <2>7. \A g \in Page : Has(L, g) <=> g = kpage[L] \/ \E v \in VA : map[L][v] = g
    BY <1>4, <1>10 DEF Has
  <2>8. \A g \in Page : Has(L, g)' <=> g = kpage[L] \/ \E v \in VA : m[v] = g
    BY <1>10, <1>13, <2>2 DEF Has
  <2>9. ASSUME NEW g \in Page
        PROVE  g \in free' <=> (g \in free \/ Has(L, g)) /\ ~Has(L, g)'
    <3>1. g # None  BY <1>10
    <3>2. g \in free' <=> g \in free \/ \E v \in vs : map[L][v] = g  BY <1>8, <3>1 DEF PagesOf
    <3>3. ASSUME NEW v \in vs, map[L][v] = g  PROVE Has(L, g) /\ ~Has(L, g)'
      <4>1. v \in VA /\ m[v] = None /\ g # kpage[L]  BY <1>6, <1>11, <2>3, <3>1, <3>3
      <4>2. \A w \in VA : m[w] # g  BY <2>3, <2>4, <3>1, <3>3, <4>1
      <4> QED  BY <2>7, <2>8, <3>3, <4>1, <4>2
    <3>4. ASSUME g \in free  PROVE ~Has(L, g)'  BY <2>3, <2>4, <2>8, <3>1, <3>4
    <3>5. ASSUME Has(L, g), ~Has(L, g)'  PROVE \E v \in vs : map[L][v] = g
      <4>1. g # kpage[L] /\ \A w \in VA : m[w] # g  BY <2>8, <3>5
      <4>2. PICK v \in VA : map[L][v] = g  BY <2>7, <3>5, <4>1
      <4>3. v \in vs  BY <1>11, <4>1, <4>2
      <4> QED  BY <4>2, <4>3
    <3> QED  BY <3>2, <3>3, <3>4, <3>5
  <2>10. kpage'[L] = stack'[L] => kpage'[L] = None  BY <2>2
  <2>11. \A v \in VA : map'[L][v] = m[v]  BY <1>13
  <2> QED  BY <1>0, <1>4, <1>12, <2>1, <2>2, <2>4, <2>5, <2>6, <2>9, <2>10, <2>11, OwnStep
<1>16. PanicOnlyOom'  BY <1>4, <1>8 DEF PanicOnlyOom
<1> QED  BY <1>14, <1>15, <1>16 DEF IInv

\* growproc maps the new pages in the threads.
LEMMA GrowShareStep ==
  ASSUME IInv, Risks = {}, NEW p \in Slot, GrowShare(p)
  PROVE  IInv'
<1>0. TypeOK /\ SlotInv /\ CallInv /\ SizeInv /\ GuardInv /\ ShareInv /\ OwnInv /\ PanicOnlyOom
  BY DEF IInv
<1>1. PICK L \in Slot : L = Leader(p)  BY <1>0, Members
<1>2. pc[p] = "share" /\ panic = ""  BY DEF GrowShare, At
<1>3. Lead(L) /\ father[L] = None /\ L # None
  <2>1. state[p] = "LIVE"  BY <1>0, <1>2, Members
  <2> QED  BY <1>0, <1>1, <2>1, Members, Bounds DEF None
<1> DEFINE vs == NewPages(oldsz[p], newsz[p])
<1>4. \A v \in guard[L] : v \notin vs
  <2>1. oldsz[p] \in Nat /\ newsz[p] \in Nat  BY <1>0 DEF TypeOK
  <2>2. vs = Below(newsz[p]) \ Below(oldsz[p])  BY <2>1, NewPagesAre
  <2>3. oldsz[p] = sz[L]  BY <1>0, <1>1, <1>2 DEF SizeInv
  <2>4. guard[L] \subseteq Below(sz[L])  BY <1>0, <1>3 DEF GuardInv
  <2> QED  BY <2>2, <2>3, <2>4
<1> HIDE DEF vs
<1>5. /\ \A r \in Slot : father[r] # L => map'[r] = map[r]
      /\ \A r \in Slot, v \in VA : father[r] = L =>
           map'[r][v] = IF v \in vs /\ map[r][v] = None THEN map[L][v] ELSE map[r][v]
      /\ map' \in [Slot -> [VA -> Page \cup {None}]]
  <2>1. \A r \in Slot : father[r] = L => kpage[r] # None
    <3> SUFFICES ASSUME NEW r \in Slot, father[r] = L  PROVE kpage[r] # None  OBVIOUS
    <3>1. state[r] # "UNUSED"  BY <1>0, <1>3 DEF SlotInv
    <3> QED  BY <1>0, <3>1 DEF SlotInv
  <2>2. map' = [r \in Slot |->
          IF father[r] = L /\ kpage[r] # None
          THEN [v \in VA |-> IF v \in vs /\ map[r][v] = None THEN map[L][v] ELSE map[r][v]]
          ELSE map[r]]
    BY <1>1 DEF GrowShare, Sharers, Threads, vs
  <2>3. \A r \in Slot : father[r] # L => map'[r] = map[r]  BY <2>2
  <2>4. \A r \in Slot : father[r] = L =>
          map'[r] = [v \in VA |-> IF v \in vs /\ map[r][v] = None THEN map[L][v] ELSE map[r][v]]
    BY <2>1, <2>2
  <2>5. \A r \in Slot, v \in VA : map[r][v] \in Page \cup {None}
    <3>1. \A r \in Slot : map[r] \in [VA -> Page \cup {None}]  BY <1>0 DEF TypeOK
    <3> QED  BY <3>1
  <2>6. \A r \in Slot : map'[r] \in [VA -> Page \cup {None}]
    <3> TAKE r \in Slot
    <3>1. CASE father[r] = L
      <4>1. \A v \in VA : (IF v \in vs /\ map[r][v] = None THEN map[L][v] ELSE map[r][v]) \in Page \cup {None}
        BY <2>5
      <4> QED  BY <2>4, <3>1, <4>1
    <3>2. CASE father[r] # L  BY <1>0, <2>3, <3>2 DEF TypeOK
    <3> QED  BY <3>1, <3>2
  <2>7. map' = [r \in Slot |-> map'[r]]  BY <2>2
  <2> QED  BY <2>3, <2>4, <2>6, <2>7
<1>6. /\ pc' = [pc EXCEPT ![p] = "setsz"]
      /\ UNCHANGED <<free, state, father, kpage, guard, stack, sz, oldsz, newsz, np, panic>>
  BY DEF GrowShare
<1>7. TypeOK'  BY <1>0, <1>5, <1>6 DEF TypeOK
<1>8. /\ \A r \in Slot : Leader(r)' = Leader(r) /\ Leader(r) \in Slot /\ (Lead(r)' <=> Lead(r))
      /\ \A r \in Slot : r # p => pc'[r] = pc[r]
      /\ pc'[p] = "setsz"
      /\ \A r \in Slot : Resizing(r)' <=> Resizing(r)
      /\ \A r \in Slot : pc[r] # "user" /\ r # p => Leader(r) # L
  <2>1. \A r \in Slot : Leader(r)' = Leader(r) /\ Leader(r) \in Slot /\ (Lead(r)' <=> Lead(r))
    BY <1>0, <1>6, Members DEF Leader, Lead
  <2>2. (\A r \in Slot : r # p => pc'[r] = pc[r]) /\ pc'[p] = "setsz"  BY <1>0, <1>6 DEF TypeOK
  <2>3. \A r \in Slot : Resizing(r)' <=> Resizing(r)  BY <1>2, <2>2 DEF Resizing
  <2>4. \A r \in Slot : pc[r] # "user" /\ r # p => Leader(r) # L  BY <1>0, <1>1, <1>2 DEF CallInv
  <2> QED  BY <2>1, <2>2, <2>3, <2>4
<1>9. SlotInv'
  <2>1. \A r \in Slot : pc'[r] = "user" <=> pc[r] = "user"  BY <1>2, <1>8
  <2>2. \A r \in Slot : pc'[r] = "stack" <=> pc[r] = "stack"  BY <1>2, <1>8
  <2> QED  BY <1>0, <1>6, <2>1, <2>2 DEF SlotInv
<1>10. CallInv'
  <2>1. \A r \in Slot : (pc'[r] = "user" <=> pc[r] = "user") /\ (pc'[r] = "unshare" => pc[r] = "unshare")
    BY <1>2, <1>8
  <2> QED  BY <1>0, <1>6, <1>8, <2>1 DEF CallInv
<1>11. \A r \in Slot : father[r] = None => map'[r] = map[r] /\ Mapped(r)' = Mapped(r)
  BY <1>3, <1>5 DEF Mapped
<1>12. SizeInv'
  <2>1. \A r \in Slot : Resizing(r) => father[Leader(r)] = None  BY <1>0, Members DEF Resizing
  <2>2. ASSUME NEW r \in Slot, Resizing(r)  PROVE (Mapped(Leader(r)) = Below(newsz[r]))'
    BY <1>0, <1>6, <1>8, <1>11, <2>1, <2>2 DEF SizeInv
  <2>3. ASSUME NEW r \in Slot, pc'[r] = "share"  PROVE (oldsz[r] = sz[Leader(r)])'
    BY <1>0, <1>6, <1>8, <2>3 DEF SizeInv
  <2>4. ASSUME NEW X \in Slot, Lead(X)', \A r \in Slot : Resizing(r)' => Leader(r)' # X
        PROVE  Mapped(X)' = Below(sz'[X])
    <3>1. Lead(X) /\ father[X] = None  BY <1>8, <2>4 DEF Lead
    <3>2. \A r \in Slot : Resizing(r) => Leader(r) # X  BY <1>8, <2>4
    <3> QED  BY <1>0, <1>6, <1>11, <3>1, <3>2 DEF SizeInv
  <2> QED  BY <1>8, <2>2, <2>3, <2>4 DEF SizeInv
<1>13. GuardInv'  BY <1>0, <1>6, <1>8 DEF GuardInv
<1>14. ShareInv'
  <2>1. \A X \in Slot, v \in VA : X # L => (Unshared(X, v) => Unshared(X, v)')
    BY <1>1, <1>6, <1>8 DEF Unshared
  <2>2. ASSUME NEW r \in Slot, NEW X \in Slot, Shares(r, X), X # L, father[r] # L, father[X] = None
        PROVE  Shares(r, X)'
    <3>1. map'[r] = map[r] /\ map'[X] = map[X]  BY <1>5, <1>11, <2>2
    <3> QED  BY <1>6, <2>1, <2>2, <3>1, SharesStill
  <2>3. ASSUME NEW r \in Slot, father[r] = L  PROVE Shares(r, L)'
    <3>1. Shares(r, L)  BY <1>0, <1>3, <2>3 DEF ShareInv
    <3>2. map'[L] = map[L]  BY <1>3, <1>11
    <3>3. \A v \in VA : map'[r][v] \in {None, map[L][v]}
      <4> TAKE v \in VA
      <4>1. map[r][v] \in {None, map[L][v]}  BY <3>1 DEF Shares
      <4> QED  BY <1>5, <2>3, <4>1
    <3>4. \A v \in VA \ guard[L] : map'[r][v] = map[L][v]
      <4> TAKE v \in VA \ guard[L]
      <4>1. Unshared(L, v) => v \in vs  BY <1>8 DEF Unshared, vs
      <4>2. map[r][v] \in {None, map[L][v]} /\ (Unshared(L, v) \/ map[r][v] = map[L][v])
        BY <3>1 DEF Shares
      <4> QED  BY <1>5, <2>3, <4>1, <4>2
    <3>5. \A v \in guard[L] : map'[r][v] = None
      <4> TAKE v \in guard[L]
      <4>1. v \in VA  BY <1>0 DEF TypeOK
      <4>2. map[r][v] = None  BY <3>1 DEF Shares
      <4> QED  BY <1>4, <1>5, <2>3, <4>1, <4>2
    <3> QED  BY <1>6, <3>1, <3>2, <3>3, <3>4, <3>5 DEF Shares
  <2>4. ASSUME NEW r \in Slot, father[r] # None  PROVE (Shares(r, father[r]))'
    <3>1. father[r] \in Slot /\ father[father[r]] = None /\ Shares(r, father[r])
      BY <1>0, <2>4 DEF TypeOK, SlotInv, ShareInv
    <3>2. PICK X \in Slot : X = father[r]  BY <3>1
    <3>3. Shares(r, X)'
      <4>1. CASE X = L  BY <2>3, <3>2, <4>1
      <4>2. CASE X # L  BY <2>2, <3>1, <3>2, <4>2
      <4> QED  BY <4>1, <4>2
    <3> QED  BY <1>6, <3>2, <3>3
  <2>5. ASSUME NEW r \in Slot, np[r] # None  PROVE (Shares(np[r], Leader(r)))'
    <3>1. pc[r] = "stack" /\ r # p  BY <1>0, <1>2, <2>5 DEF SlotInv
    <3>2. np[r] \in Slot /\ state[np[r]] = "USED" /\ state[r] = "LIVE"  BY <1>0, <2>5, Members
    <3>3. father[np[r]] = None  BY <1>0, <3>2 DEF SlotInv
    <3>4. Leader(r) # L /\ father[Leader(r)] = None  BY <1>0, <1>8, <3>1, <3>2, Members
    <3>5. Shares(np[r], Leader(r))  BY <1>0, <2>5 DEF ShareInv
    <3>6. PICK q \in Slot, X \in Slot : q = np[r] /\ X = Leader(r)  BY <1>8, <3>2
    <3>7. Shares(q, X)'  BY <1>3, <2>2, <3>3, <3>4, <3>5, <3>6
    <3> QED  BY <1>6, <1>8, <3>6, <3>7
  <2> QED  BY <1>6, <2>4, <2>5 DEF ShareInv
<1>15. OwnInv'
  <2>1. \A r \in Slot : Lead(r) => map'[r] = map[r]  BY <1>11 DEF Lead
  <2> QED  BY <1>0, <1>6, <1>8, <2>1, OwnSame
<1>16. PanicOnlyOom'  BY <1>2, <1>6 DEF PanicOnlyOom
<1> QED  BY <1>7, <1>9, <1>10, <1>12, <1>13, <1>14, <1>15, <1>16 DEF IInv

\* A shrinking growproc finds no thread to unmap the pages in.
LEMMA UnshareStep ==
  ASSUME IInv, Risks = {}, NEW p \in Slot, Unshare(p)
  PROVE  IInv'
<1>0. TypeOK /\ SlotInv /\ CallInv /\ SizeInv /\ GuardInv /\ ShareInv /\ OwnInv /\ PanicOnlyOom
  BY DEF IInv
<1>1. pc[p] = "unshare" /\ panic = ""  BY DEF Unshare, At
<1>2. Threads(Leader(p)) = {}  BY <1>0, <1>1 DEF CallInv, Threads
<1>3. /\ map' = map
      /\ pc' = [pc EXCEPT ![p] = "setsz"]
      /\ UNCHANGED <<free, state, father, kpage, guard, stack, sz, oldsz, newsz, np, panic>>
  <2>1. map' = [q \in Slot |-> map[q]]  BY <1>2 DEF Unshare
  <2>2. map = [q \in Slot |-> map[q]]  BY <1>0 DEF TypeOK
  <2> QED  BY <1>2, <2>1, <2>2 DEF Unshare
<1>4. TypeOK'  BY <1>0, <1>3 DEF TypeOK
<1>5. /\ \A r \in Slot : Leader(r)' = Leader(r) /\ (Lead(r)' <=> Lead(r)) /\ Mapped(r)' = Mapped(r)
      /\ \A r \in Slot : Resizing(r)' <=> Resizing(r)
      /\ \A r \in Slot : (pc'[r] = "user" <=> pc[r] = "user") /\ (pc'[r] = "unshare" => pc[r] = "unshare")
      /\ \A r \in Slot : (pc'[r] = "stack" <=> pc[r] = "stack") /\ (pc'[r] = "share" <=> pc[r] = "share")
      /\ \A r \in Slot : Leader(r) \in Slot
  <2>1. \A r \in Slot : Leader(r)' = Leader(r) /\ (Lead(r)' <=> Lead(r)) /\ Mapped(r)' = Mapped(r)
    BY <1>3 DEF Leader, Lead, Mapped
  <2>2. \A r \in Slot : pc'[r] = IF r = p THEN "setsz" ELSE pc[r]  BY <1>0, <1>3 DEF TypeOK
  <2> QED  BY <1>0, <1>1, <2>1, <2>2, Members DEF Resizing
<1>6. SlotInv'  BY <1>0, <1>3, <1>5 DEF SlotInv
<1>7. CallInv'  BY <1>0, <1>3, <1>5 DEF CallInv
<1>8. SizeInv'
  <2>1. ASSUME NEW r \in Slot, Resizing(r)  PROVE (Mapped(Leader(r)) = Below(newsz[r]))'
    BY <1>0, <1>3, <1>5, <2>1 DEF SizeInv
  <2>2. ASSUME NEW r \in Slot, pc[r] = "share"  PROVE (oldsz[r] = sz[Leader(r)])'
    BY <1>0, <1>3, <1>5, <2>2 DEF SizeInv
  <2>3. ASSUME NEW X \in Slot, Lead(X)', \A r \in Slot : Resizing(r)' => Leader(r)' # X
        PROVE  Mapped(X)' = Below(sz'[X])
    <3>1. Lead(X) /\ \A r \in Slot : Resizing(r) => Leader(r) # X  BY <1>5, <2>3
    <3> QED  BY <1>0, <1>3, <1>5, <3>1 DEF SizeInv
  <2> QED  BY <1>5, <2>1, <2>2, <2>3 DEF SizeInv
<1>9. GuardInv'  BY <1>0, <1>3, <1>5 DEF GuardInv
<1>10. ShareInv'
  <2>1. \A X, v : Unshared(X, v)' <=> Unshared(X, v)  BY <1>3, <1>5 DEF Unshared
  <2>2. \A r, X : Shares(r, X) => Shares(r, X)'  BY <1>3, <2>1 DEF Shares
  <2> QED  BY <1>0, <1>3, <1>5, <2>2 DEF ShareInv
<1>11. OwnInv'  BY <1>0, <1>3, <1>5, OwnSame
<1>12. PanicOnlyOom'  BY <1>1, <1>3 DEF PanicOnlyOom
<1> QED  BY <1>4, <1>6, <1>7, <1>8, <1>9, <1>10, <1>11, <1>12 DEF IInv

\* growproc gives the leader and its threads the new size.
LEMMA SetSzStep ==
  ASSUME IInv, Risks = {}, NEW p \in Slot, SetSz(p)
  PROVE  IInv'
<1>0. TypeOK /\ SlotInv /\ CallInv /\ SizeInv /\ GuardInv /\ ShareInv /\ OwnInv /\ PanicOnlyOom
  BY DEF IInv
<1>1. PICK L \in Slot : L = Leader(p)  BY <1>0, Members
<1>2. /\ pc[p] = "setsz" /\ panic = ""
      /\ sz' = [q \in Slot |-> IF q = L \/ father[q] = L THEN newsz[p] ELSE sz[q]]
      /\ pc' = [pc EXCEPT ![p] = "user"]
      /\ oldsz' = [oldsz EXCEPT ![p] = 0]
      /\ newsz' = [newsz EXCEPT ![p] = 0]
      /\ UNCHANGED <<free, state, father, kpage, map, guard, stack, np, panic>>
  BY <1>1 DEF SetSz, At
<1>3. Lead(L) /\ father[L] = None /\ L # None /\ state[L] = "LIVE"
  <2>1. state[p] = "LIVE"  BY <1>0, <1>2, Members
  <2> QED  BY <1>0, <1>1, <2>1, Members, Bounds DEF None
<1>4. newsz[p] \in Nat /\ 0 \in Nat  BY <1>0 DEF TypeOK
<1>5. TypeOK'  BY <1>0, <1>2, <1>4 DEF TypeOK
<1>6. /\ \A r \in Slot : Leader(r)' = Leader(r) /\ Leader(r) \in Slot /\ (Lead(r)' <=> Lead(r))
      /\ \A r \in Slot : Mapped(r)' = Mapped(r)
      /\ \A r \in Slot : r # p => pc'[r] = pc[r] /\ oldsz'[r] = oldsz[r] /\ newsz'[r] = newsz[r]
      /\ pc'[p] = "user"
      /\ \A r \in Slot : Resizing(r)' <=> Resizing(r) /\ r # p
      /\ \A r \in Slot : pc[r] # "user" /\ r # p => Leader(r) # L
      /\ Resizing(p)
  <2>1. \A r \in Slot : Leader(r)' = Leader(r) /\ Leader(r) \in Slot /\ (Lead(r)' <=> Lead(r))
    BY <1>0, <1>2, Members DEF Leader, Lead
  <2>2. \A r \in Slot : Mapped(r)' = Mapped(r)  BY <1>2 DEF Mapped
  <2>3. /\ \A r \in Slot : r # p => pc'[r] = pc[r] /\ oldsz'[r] = oldsz[r] /\ newsz'[r] = newsz[r]
        /\ pc'[p] = "user"
    BY <1>0, <1>2 DEF TypeOK
  <2>4. Resizing(p) /\ \A r \in Slot : Resizing(r)' <=> Resizing(r) /\ r # p  BY <1>2, <2>3 DEF Resizing
  <2>5. \A r \in Slot : pc[r] # "user" /\ r # p => Leader(r) # L  BY <1>0, <1>1, <1>2 DEF CallInv
  <2> QED  BY <2>1, <2>2, <2>3, <2>4, <2>5
<1>7. /\ \A r \in Slot : r # L /\ father[r] = None => sz'[r] = sz[r]
      /\ \A r \in Slot : r # L /\ father[r] # L => sz'[r] = sz[r]
      /\ \A r \in Slot : father[r] = L => sz'[r] = newsz[p]
      /\ sz'[L] = newsz[p]
  BY <1>2, <1>3
<1>8. SlotInv'
  <2>1. \A r \in Slot : pc[r] = "user" => pc'[r] = "user"  BY <1>6
  <2>2. \A r \in Slot : pc'[r] = "stack" <=> pc[r] = "stack"  BY <1>2, <1>6
  <2>3. SlotInv /\ UNCHANGED <<state, father, kpage, stack, np>>  BY <1>0, <1>2
  <2> QED  BY ONLY <2>1, <2>2, <2>3 DEF SlotInv
<1>9. CallInv'
  <2>1. \A r \in Slot : pc'[r] # "user" => pc'[r] = pc[r]  BY <1>6
  <2>2. \A r, t \in Slot : pc'[r] # "user" /\ pc'[t] # "user" /\ Leader(r) = Leader(t) => r = t
    BY <1>0, <2>1 DEF CallInv
  <2>3. \A r, t \in Slot : pc'[r] = "unshare" => father[t] # Leader(r)  BY <1>0, <2>1 DEF CallInv
  <2>4. father' = father /\ \A r \in Slot : Leader(r)' = Leader(r)  BY <1>2, <1>6
  <2> QED  BY ONLY <2>2, <2>3, <2>4 DEF CallInv
<1>10. SizeInv'
  <2>1. \A r \in Slot : Resizing(r) => father[Leader(r)] = None /\ pc[r] # "user"
    BY <1>0, Members DEF Resizing
  <2>2. ASSUME NEW r \in Slot, Resizing(r)'  PROVE (Mapped(Leader(r)) = Below(newsz[r]))'
    <3>1. Resizing(r) /\ r # p  BY <1>6, <2>2
    <3> QED  BY <1>0, <1>6, <3>1 DEF SizeInv
  <2>3. ASSUME NEW r \in Slot, pc'[r] = "share"  PROVE (oldsz[r] = sz[Leader(r)])'
    <3>1. r # p /\ pc[r] = "share"  BY <1>6, <2>3
    <3>2. Leader(r) # L /\ father[Leader(r)] = None  BY <1>6, <2>1, <3>1 DEF Resizing
    <3> QED  BY <1>0, <1>6, <1>7, <3>1, <3>2 DEF SizeInv
  <2>4. ASSUME NEW X \in Slot, Lead(X)', \A r \in Slot : Resizing(r)' => Leader(r)' # X
        PROVE  Mapped(X)' = Below(sz'[X])
    <3>1. CASE X = L  BY <1>0, <1>1, <1>6, <1>7, <3>1 DEF SizeInv
    <3>2. CASE X # L
      <4>1. Lead(X) /\ father[X] = None  BY <1>6, <2>4 DEF Lead
      <4>2. \A r \in Slot : Resizing(r) => Leader(r) # X  BY <1>1, <1>6, <2>4, <3>2
      <4> QED  BY <1>0, <1>6, <1>7, <3>2, <4>1, <4>2 DEF SizeInv
    <3> QED  BY <3>1, <3>2
  <2> QED  BY <2>2, <2>3, <2>4 DEF SizeInv
<1>11. GuardInv'
  <2>1. guard[L] \subseteq Below(newsz[p])  BY <1>0, <1>1, <1>6 DEF GuardInv
  <2>2. ASSUME NEW X \in Slot, Lead(X)  PROVE guard'[X] # {} /\ guard'[X] \subseteq Below(sz'[X])
    <3>1. CASE X = L  BY <1>0, <1>2, <1>3, <1>7, <2>1, <3>1 DEF GuardInv
    <3>2. CASE X # L  BY <1>0, <1>2, <1>7, <2>2, <3>2 DEF GuardInv, Lead
    <3> QED  BY <3>1, <3>2
  <2>3. ASSUME NEW r \in Slot, Resizing(r)'  PROVE (guard[Leader(r)] \subseteq Below(newsz[r]))'
    BY <1>0, <1>2, <1>6, <2>3 DEF GuardInv
  <2> QED  BY <1>6, <2>2, <2>3 DEF GuardInv
<1>12. ShareInv'
  <2>1. \A X \in Slot, v \in VA : Unshared(X, v) => Unshared(X, v)'
    <3>1. \A r \in Slot : pc[r] = "share" => r # p  BY <1>2
    <3> QED  BY <1>6, <3>1 DEF Unshared
  <2>2. ASSUME NEW r \in Slot, NEW X \in Slot, Shares(r, X), r # L, X # L, father[r] # L, father[X] = None
        PROVE  Shares(r, X)'
    BY <1>2, <1>7, <2>1, <2>2, SharesStill
  <2>3. ASSUME NEW r \in Slot, father[r] = L  PROVE Shares(r, L)'
    <3>1. Shares(r, L)  BY <1>0, <1>3, <2>3 DEF ShareInv
    <3>2. sz'[r] = sz'[L]  BY <1>7, <2>3
    <3> QED  BY <1>2, <2>1, <3>1, <3>2 DEF Shares
  <2>4. ASSUME NEW r \in Slot, father[r] # None  PROVE (Shares(r, father[r]))'
    <3>1. father[r] \in Slot /\ father[father[r]] = None /\ Shares(r, father[r]) /\ r # L
      BY <1>0, <1>3, <2>4 DEF TypeOK, SlotInv, ShareInv
    <3>2. PICK X \in Slot : X = father[r]  BY <3>1
    <3>3. Shares(r, X)'
      <4>1. CASE X = L  BY <2>3, <3>2, <4>1
      <4>2. CASE X # L  BY <2>2, <3>1, <3>2, <4>2
      <4> QED  BY <4>1, <4>2
    <3> QED  BY <1>2, <3>2, <3>3
  <2>5. ASSUME NEW r \in Slot, np[r] # None  PROVE (Shares(np[r], Leader(r)))'
    <3>1. pc[r] = "stack" /\ r # p  BY <1>0, <1>2, <2>5 DEF SlotInv
    <3>2. np[r] \in Slot /\ state[np[r]] = "USED" /\ state[r] = "LIVE"  BY <1>0, <2>5, Members
    <3>3. father[np[r]] = None /\ np[r] # L  BY <1>0, <1>3, <3>2 DEF SlotInv
    <3>4. Leader(r) # L /\ father[Leader(r)] = None  BY <1>0, <1>6, <3>1, <3>2, Members
    <3>5. Shares(np[r], Leader(r))  BY <1>0, <2>5 DEF ShareInv
    <3>6. PICK q \in Slot, X \in Slot : q = np[r] /\ X = Leader(r)  BY <1>6, <3>2
    <3>7. Shares(q, X)'  BY <1>3, <2>2, <3>3, <3>4, <3>5, <3>6
    <3> QED  BY <1>2, <1>6, <3>6, <3>7
  <2> QED  BY <1>2, <2>4, <2>5 DEF ShareInv
<1>13. OwnInv'  BY <1>0, <1>2, <1>6, OwnSame
<1>14. PanicOnlyOom'  BY <1>2 DEF PanicOnlyOom
<1> QED  BY <1>5, <1>8, <1>9, <1>10, <1>11, <1>12, <1>13, <1>14 DEF IInv
-----------------------------------------------------------------------------
(* The theorems. *)

\* Every step of careful programs preserves the invariant.
LEMMA StepIInv ==
  ASSUME IInv, Risks = {}, [Next]_vars
  PROVE  IInv'
<1>1. CASE Next
  <2>1. PICK p \in Slot :
          \/ Fork(p) \/ Exit(p)
          \/ \E size \in Image : Exec(p, size)
          \/ \E q \in Slot : Wait(p, q) \/ Join(p, q)
          \/ \E n \in Sbrk : GrowMap(p, n) \/ Shrink(p, n)
          \/ GrowShare(p) \/ Unshare(p) \/ SetSz(p)
          \/ ThreadMap(p) \/ ThreadStart(p) \/ ThreadFail(p) \/ ThreadExit(p)
    BY <1>1 DEF Next
  <2>2. CASE Fork(p)  BY <2>2, ForkStep
  <2>3. CASE Exit(p)  BY <2>3, ExitStep
  <2>4. ASSUME NEW size \in Image, Exec(p, size)  PROVE IInv'  BY <2>4, ExecStep
  <2>5. ASSUME NEW q \in Slot, Wait(p, q)  PROVE IInv'  BY <2>5, WaitStep
  <2>6. ASSUME NEW q \in Slot, Join(p, q)  PROVE IInv'  BY <2>6, JoinStep
  <2>7. ASSUME NEW n \in Sbrk, GrowMap(p, n)  PROVE IInv'  BY <2>7, GrowMapStep
  <2>8. ASSUME NEW n \in Sbrk, Shrink(p, n)  PROVE IInv'  BY <2>8, ShrinkStep
  <2>9. CASE GrowShare(p)  BY <2>9, GrowShareStep
  <2>10. CASE Unshare(p)  BY <2>10, UnshareStep
  <2>11. CASE SetSz(p)  BY <2>11, SetSzStep
  <2>12. CASE ThreadMap(p)  BY <2>12, ThreadMapStep
  <2>13. CASE ThreadStart(p)  BY <2>13, ThreadStartStep
  <2>14. CASE ThreadFail(p)  BY <2>14, ThreadFailStep
  <2>15. CASE ThreadExit(p)  BY <2>15, ThreadExitStep
  <2> QED  BY <2>1, <2>2, <2>3, <2>4, <2>5, <2>6, <2>7, <2>8, <2>9, <2>10, <2>11, <2>12, <2>13,
              <2>14, <2>15
<1>2. CASE UNCHANGED vars
  <2>1. UNCHANGED <<free, state, father, kpage, map, guard, stack, sz, pc, oldsz, newsz, np, panic>>
    BY <1>2 DEF vars, table, frame
  <2>2. PanicOnlyOom'  BY <2>1 DEF IInv, PanicOnlyOom
  <2> QED  BY <2>1, <2>2, Unmoved
<1> QED  BY <1>1, <1>2

\* What the sizes, page tables and page owners satisfy in every state, when programs
\* are careful.
THEOREM IInvHolds ==
  ASSUME Risks = {}
  PROVE  Spec => []IInv
<1>1. IInv /\ [Next]_vars => IInv'  BY StepIInv
<1> QED  BY <1>1, InitIInv, PTL DEF Spec

\* The pages a slot's page table refers to are its leader's, or its own.
LEMMA MappedOwned ==
  ASSUME IInv, NEW p \in Used
  PROVE  \E b \in Slot : /\ Lead(b)
                         /\ b = Leader(p) \/ state[p] = "USED"
                         /\ \A v \in VA : map[p][v] \in {None, map[b][v]}
<1>0. TypeOK /\ SlotInv /\ ShareInv  BY DEF IInv
<1>1. p \in Slot /\ state[p] # "UNUSED"  BY DEF Used
<1>2. CASE state[p] = "USED"
  <2>1. PICK c \in Slot : np[c] = p  BY <1>0, <1>1, <1>2 DEF SlotInv
  <2>2. p # None  BY <1>1, Bounds DEF None
  <2>3. state[c] = "LIVE" /\ Shares(p, Leader(c))  BY <1>0, <2>1, <2>2, Members DEF ShareInv
  <2>4. Leader(c) \in Slot /\ Lead(Leader(c))  BY <1>0, <2>3, Members
  <2> QED  BY <1>2, <2>3, <2>4 DEF Shares
<1>3. CASE state[p] # "USED" /\ father[p] # None
  <2>1. Leader(p) = father[p] /\ father[p] \in Slot  BY <1>0, <1>1, <1>3, Members
  <2>2. Lead(father[p])  BY <1>0, <1>1, <1>3 DEF SlotInv, Lead
  <2>3. Shares(p, father[p])  BY <1>0, <1>1, <1>3 DEF ShareInv
  <2> QED  BY <2>1, <2>2, <2>3 DEF Shares
<1>4. CASE state[p] # "USED" /\ father[p] = None
  <2>1. Leader(p) = p  BY <1>0, <1>1, <1>4, Members
  <2>2. Lead(p)  BY <1>0, <1>1, <1>4 DEF TypeOK, Lead
  <2> QED  BY <1>1, <2>1, <2>2
<1> QED  BY <1>2, <1>3, <1>4

\* No page table refers to a page on kmem.freelist.
THEOREM NoDanglingReference ==
  ASSUME Risks = {}
  PROVE  Spec => []NoDangling
<1>1. IInv => NoDangling
  <2> SUFFICES ASSUME IInv, NEW p \in Used
               PROVE  Private(p) \cap free = {} /\ PagesOf(p, VA) \cap free = {}
    BY DEF NoDangling
  <2>1. p \in Slot /\ OwnInv /\ TypeOK  BY DEF Used, IInv
  <2>2. None \notin free  BY <2>1, Bounds DEF TypeOK, None
  <2>3. Private(p) \cap free = {}  BY <2>1, OwnFacts DEF Private
  <2>4. PICK b \in Slot : Lead(b) /\ \A v \in VA : map[p][v] \in {None, map[b][v]}  BY MappedOwned
  <2>5. \A v \in VA : map[b][v] \notin free  BY <2>1, <2>4, OwnFacts
  <2> QED  BY <2>2, <2>3, <2>4, <2>5 DEF PagesOf
<1> QED  BY <1>1, IInvHolds, PTL

\* No page is lost.
THEOREM NoPageLost ==
  ASSUME Risks = {}
  PROVE  Spec => []NoLeak
<1>1. IInv => NoLeak
  <2> SUFFICES ASSUME IInv PROVE NoLeak  OBVIOUS
  <2>0. TypeOK /\ SlotInv /\ OwnInv  BY DEF IInv
  <2>1. None \notin Page  BY Bounds DEF None
  <2> DEFINE All == UNION {Private(p) \cup PagesOf(p, VA) : p \in Used}
  <2>2. ASSUME NEW g \in Page, g \notin free  PROVE g \in All
    <3>1. PICK p \in Slot, x \in Ref : owned[p][x] = g  BY <2>0, <2>2 DEF OwnInv, Partition
    <3>2. g # None  BY <2>1
    <3>3. kpage[p] = g \/ stack[p] = g \/ (Lead(p) /\ \E v \in VA : map[p][v] = g)
      <4>1. CASE x \in {-2, -1}  BY <3>1, <4>1, Columns
      <4>2. CASE x \in VA  BY <3>1, <3>2, <4>2, Columns
      <4> QED  BY <4>1, <4>2, Columns
    <3>4. state[p] # "UNUSED"  BY <2>0, <3>2, <3>3 DEF SlotInv, Lead
    <3>5. p \in Used  BY <3>4 DEF Used
    <3>6. g \in Private(p) \cup PagesOf(p, VA)  BY <3>2, <3>3 DEF Private, PagesOf
    <3> QED  BY <3>5, <3>6
  <2>3. free \subseteq Page  BY <2>0 DEF TypeOK
  <2>4. All \subseteq Page
    <3> SUFFICES ASSUME NEW p \in Used  PROVE Private(p) \subseteq Page /\ PagesOf(p, VA) \subseteq Page
      OBVIOUS
    <3>1. p \in Slot  BY DEF Used
    <3>2. kpage[p] \in Page \cup {None} /\ stack[p] \in Page \cup {None}  BY <2>0, <3>1 DEF TypeOK
    <3>3. map[p] \in [VA -> Page \cup {None}]  BY <2>0, <3>1 DEF TypeOK
    <3> QED  BY <3>2, <3>3 DEF Private, PagesOf
  <2> HIDE DEF All
  <2>5. Page = free \cup All  BY <2>2, <2>3, <2>4
  <2> QED  BY <2>5 DEF NoLeak, All
<1> QED  BY <1>1, IInvHolds, PTL

\* Address spaces are separate.
THEOREM SpacesSeparate ==
  ASSUME Risks = {}
  PROVE  Spec => []Isolation
<1>1. IInv => Isolation
  <2> SUFFICES ASSUME IInv, NEW p \in Used, NEW q \in Used
               PROVE  /\ \A v, w \in VA :
                           map[p][v] = map[q][w] /\ map[p][v] # None =>
                             v = w /\ (p = q \/ Leader(p) = Leader(q) \/ "USED" \in {state[p], state[q]})
                      /\ p # q => Private(p) \cap (Private(q) \cup PagesOf(q, VA)) = {}
    BY DEF Isolation
  <2>0. p \in Slot /\ q \in Slot /\ OwnInv  BY DEF Used, IInv
  <2>1. PICK b \in Slot : /\ Lead(b) /\ (b = Leader(p) \/ state[p] = "USED")
                          /\ \A v \in VA : map[p][v] \in {None, map[b][v]}
    BY MappedOwned
  <2>2. PICK c \in Slot : /\ Lead(c) /\ (c = Leader(q) \/ state[q] = "USED")
                          /\ \A v \in VA : map[q][v] \in {None, map[c][v]}
    BY MappedOwned
  <2>3. ASSUME NEW v \in VA, NEW w \in VA, map[p][v] = map[q][w], map[p][v] # None
        PROVE  v = w /\ (Leader(p) = Leader(q) \/ "USED" \in {state[p], state[q]})
    <3>1. map[b][v] = map[c][w] /\ map[b][v] # None  BY <2>1, <2>2, <2>3
    <3>2. b = c /\ v = w  BY <2>0, <2>1, <2>2, <3>1, OwnFacts
    <3> QED  BY <2>1, <2>2, <3>2
  <2>4. ASSUME p # q  PROVE Private(p) \cap Private(q) = {}
    BY <2>0, <2>4, OwnFacts DEF Private
  <2>5. Private(p) \cap PagesOf(q, VA) = {}
    <3>1. \A v \in VA : map[c][v] \in {kpage[p], stack[p]} => map[c][v] = None
      BY <2>0, <2>2, OwnFacts
    <3> QED  BY <2>2, <3>1 DEF Private, PagesOf
  <2> QED  BY <2>3, <2>4, <2>5
<1> QED  BY <1>1, IInvHolds, PTL

\* Between calls a thread sees its leader's memory.
THEOREM ThreadsShareMemory ==
  ASSUME Risks = {}
  PROVE  Spec => []SharedView
<1>1. IInv => SharedView
  <2> SUFFICES ASSUME IInv, NEW p \in Slot, father[p] # None, Quiet(father[p])
               PROVE  /\ sz[p] = sz[father[p]]
                      /\ \A v \in VA \ guard[father[p]] : map[p][v] = map[father[p]][v]
    BY DEF SharedView
  <2>0. TypeOK /\ SlotInv /\ SizeInv /\ ShareInv  BY DEF IInv
  <2>1. father[p] \in Slot /\ Shares(p, father[p])  BY <2>0 DEF TypeOK, ShareInv
  <2>2. \A r \in Slot : Leader(r) = father[p] => pc[r] = "user"  BY <2>0, <2>1, QuietGroup
  <2>3. \A v \in VA : ~Unshared(father[p], v)  BY <2>2 DEF Unshared
  <2> QED  BY <2>1, <2>3 DEF Shares
<1> QED  BY <1>1, IInvHolds, PTL

\* Careful programs make the kernel panic only in thread_create, out of memory.
THEOREM PanicsOnlyOutOfMemory ==
  ASSUME Risks = {}
  PROVE  Spec => []PanicOnlyOom
<1>1. IInv => PanicOnlyOom  BY DEF IInv
<1> QED  BY <1>1, IInvHolds, PTL
=============================================================================
