-------------------------- MODULE AllocatorProofs --------------------------
(***************************************************************************)
(* The kernel's three allocators implement the abstract heap, for every    *)
(* size of the heap and every set of layouts, and lose no memory.          *)
(***************************************************************************)
EXTENDS Bump, Allocators, SequenceTheorems, FiniteSetTheorems, WellFoundedInduction, TLAPS

-----------------------------------------------------------------------------
(* Bump: the allocator implements the abstract heap, for every size of the *)
(* heap and every set of layouts.                                          *)

BumpBlocks == [addr : Nat, size : Nat \ {0}, align : Nat \ {0}]

\* BelowNext with the blocks' types: enough to know a new block is apart from
\* the others, which all lie below next.
BumpInv == live \subseteq BumpBlocks /\ BelowNext

\* align_up: the next multiple.
LEMMA AlignUpIs ==
  ASSUME NEW n \in Nat, NEW a \in Nat \ {0}
  PROVE  AlignUp(n, a) \in Nat /\ n <= AlignUp(n, a) /\ AlignUp(n, a) % a = 0
<1> DEFINE x == n + a - 1
           q == x \div a
           m == x % a
<1>1. x \in Nat
  OBVIOUS
<1>2. AlignUp(n, a) = x - m
  BY DEF AlignUp
<1> HIDE DEF x
<1>3. q \in Nat /\ m \in 0 .. a - 1 /\ x = a * q + m
  BY <1>1, SMTT(30)
<1> HIDE DEF q, m
<1>4. AlignUp(n, a) = a * q /\ a * q \in Nat
  BY <1>2, <1>3, SMTT(30)
<1>5. (a * q) % a = 0
  BY <1>3, SMTT(30)
<1>6. n <= x - m
  BY <1>1, <1>3 DEF x
<1> QED
  BY <1>2, <1>4, <1>5, <1>6

\* What alloc hands out: an aligned block inside the heap, beyond every other.
LEMMA AllocBlock ==
  ASSUME BumpInv, NEW l \in Layouts, Alloc(l)
  PROVE  \E b \in BumpBlocks :
           /\ b.size = l.size /\ b.align = l.align
           /\ live' = live \cup {b} /\ b \notin live
           /\ next' = b.addr + b.size /\ next' <= HeapSize /\ next <= b.addr
           /\ b.addr % b.align = 0
           /\ allocations' = allocations + 1
<1> DEFINE start == AlignUp(next, l.align)
           b == [addr |-> start, size |-> l.size, align |-> l.align]
<1>1. l.size \in Nat \ {0} /\ l.align \in Nat \ {0} /\ next \in Nat
  BY BumpAssumption DEF BumpInv, BelowNext
<1>2. start \in Nat /\ next <= start /\ start % l.align = 0
  BY <1>1, AlignUpIs
<1>3. b \in BumpBlocks /\ b.addr = start /\ b.size = l.size /\ b.align = l.align
  BY <1>1, <1>2 DEF BumpBlocks
<1>4. /\ start + l.size <= HeapSize /\ next' = start + l.size
      /\ allocations' = allocations + 1 /\ live' = live \cup {b}
  BY DEF Alloc
<1>5. b \notin live
  <2>1. ASSUME b \in live PROVE b.addr + b.size <= next
    BY <2>1 DEF BumpInv, BelowNext
  <2> HIDE DEF b, start
  <2> QED
    BY <2>1, <1>1, <1>2, <1>3
<1> HIDE DEF b, start
<1> QED
  BY <1>1, <1>2, <1>3, <1>4, <1>5

\* BumpInv is kept by every operation.
LEMMA BumpStepInv == BumpInv /\ [BumpNext]_bumpvars => BumpInv'
<1> SUFFICES ASSUME BumpInv, [BumpNext]_bumpvars PROVE BumpInv'
  OBVIOUS
<1> USE BumpAssumption
<1>1. ASSUME NEW l \in Layouts, Alloc(l) PROVE BumpInv'
  <2>1. PICK b \in BumpBlocks :
           /\ live' = live \cup {b} /\ b \notin live
           /\ next' = b.addr + b.size /\ next' <= HeapSize /\ next <= b.addr
           /\ allocations' = allocations + 1
    BY <1>1, AllocBlock
  <2>2. IsFiniteSet(live') /\ Cardinality(live') = Cardinality(live) + 1
    BY <2>1, FS_AddElement DEF BumpInv, BelowNext
  <2>3. \A c \in live : c \in BumpBlocks /\ c.addr + c.size <= next /\ c.addr + c.size \in Nat
    BY DEF BumpInv, BelowNext, BumpBlocks
  <2>4. \A c \in live' : c.addr + c.size <= next'
    BY <2>1, <2>3 DEF BumpInv, BelowNext, BumpBlocks
  <2> QED
    BY <2>1, <2>2, <2>4 DEF BumpInv, BelowNext, BumpBlocks
<1>2. ASSUME NEW b \in live, Dealloc(b) PROVE BumpInv'
  <2>1. /\ live' = live \ {b} /\ allocations' = allocations - 1
        /\ next' = IF allocations' = 0 THEN 0 ELSE next
    BY <1>2 DEF Dealloc
  <2>2. IsFiniteSet(live') /\ Cardinality(live') = Cardinality(live) - 1
    BY <2>1, FS_RemoveElement DEF BumpInv, BelowNext
  <2>3. CASE allocations' = 0
    <3>1. live' = {}
      BY <2>1, <2>2, <2>3, FS_EmptySet DEF BumpInv, BelowNext
    <3> QED
      BY <2>1, <2>2, <2>3, <3>1 DEF BumpInv, BelowNext
  <2>4. CASE allocations' # 0
    BY <2>1, <2>2, <2>4 DEF BumpInv, BelowNext
  <2> QED
    BY <2>3, <2>4
<1>3. CASE UNCHANGED bumpvars
  BY <1>3 DEF bumpvars, BumpInv, BelowNext
<1> QED
  BY <1>1, <1>2, <1>3 DEF BumpNext

\* BumpInv holds of the empty heap.
LEMMA BumpInitInv == BumpInit => BumpInv
BY BumpAssumption, FS_EmptySet DEF BumpInit, BumpInv, BelowNext

\* BumpBlocks in use lie below next, and next is reset only when there are none
\* (bump.rs:42-43, 49-53).
THEOREM BelowNextAlways == BumpSpec => []BelowNext
<1>1. BumpInv => BelowNext
  BY DEF BumpInv
<1> QED
  BY <1>1, BumpInitInv, BumpStepInv, PTL DEF BumpSpec

\* The bump allocator hands out aligned blocks inside the heap that never
\* overlap, as a GlobalAlloc must (bump.rs:32-54).
THEOREM BumpImplementsHeap == BumpSpec => ImplementsHeap
<1>1. BumpInit => AbstractHeap!Init
  BY DEF BumpInit, AbstractHeap!Init
<1>2. BumpInv /\ [BumpNext]_bumpvars => [AbstractHeap!Next]_live
  <2> SUFFICES ASSUME BumpInv, [BumpNext]_bumpvars PROVE [AbstractHeap!Next]_live
    OBVIOUS
  <2>1. ASSUME NEW l \in Layouts, Alloc(l) PROVE AbstractHeap!Alloc
    <3>1. PICK b \in BumpBlocks :
             /\ live' = live \cup {b} /\ b \notin live
             /\ next' = b.addr + b.size /\ next' <= HeapSize /\ next <= b.addr
             /\ b.addr % b.align = 0
      BY <2>1, AllocBlock
    <3>2. \A c \in live : AbstractHeap!Disjoint(b, c)
      BY <3>1 DEF BumpInv, BelowNext, BumpBlocks, AbstractHeap!Disjoint
    <3>3. b \in live' \ live /\ b.addr + b.size <= HeapSize
      BY <3>1
    <3> QED
      BY <3>1, <3>2, <3>3 DEF AbstractHeap!Alloc
  <2>2. ASSUME NEW b \in live, Dealloc(b) PROVE AbstractHeap!Dealloc
    BY <2>2 DEF Dealloc, AbstractHeap!Dealloc
  <2>3. CASE UNCHANGED bumpvars
    BY <2>3 DEF bumpvars
  <2> QED
    BY <2>1, <2>2, <2>3 DEF BumpNext, AbstractHeap!Next
<1> QED
  BY <1>1, <1>2, BumpInitInv, BumpStepInv, PTL DEF BumpSpec, ImplementsHeap, AbstractHeap!Spec

-----------------------------------------------------------------------------
(* What the other two allocators need of numbers and lists.                *)

\* A set of numbers that is not empty has a least one.
LEMMA LeastOf ==
  ASSUME NEW S \in SUBSET Nat, S # {}
  PROVE  \E x \in S : \A y \in S : x <= y
<1> DEFINE R == {ss \in Nat \X Nat : ss[1] < ss[2]}
<1>1. IsWellFoundedOn(R, Nat)
  BY NatLessThanWellFounded DEF OpToRel
<1> HIDE DEF R
<1>2. PICK x \in S : \A y \in S : ~(<<y, x>> \in R)
  BY <1>1, WFMin, Zenon
<1>3. \A y \in S : ~(y < x)
  <2> TAKE y \in S
  <2>1. y \in Nat /\ x \in Nat /\ ~(<<y, x>> \in R)
    BY <1>2
  <2> QED
    BY <2>1 DEF R
<1>4. \A y \in S : x <= y
  BY <1>3
<1> QED
  BY <1>4

\* Whatever is aligned for c is aligned for a divisor of c.
LEMMA AlignedFor ==
  ASSUME NEW a \in Nat, NEW c \in Nat \ {0}, NEW d \in Nat \ {0}, a % c = 0, c % d = 0
  PROVE  a % d = 0
<1> DEFINE p == a \div c
           q == c \div d
<1>1. p \in Nat /\ a = c * p
  BY SMTT(30)
<1>2. q \in Nat /\ c = d * q
  BY SMTT(30)
<1> HIDE DEF p, q
<1>3. a = d * (q * p) /\ q * p \in Nat
  BY <1>1, <1>2, SMTT(30)
<1> DEFINE n == q * p
<1> HIDE DEF n
<1>4. a = d * n /\ n \in Nat
  BY <1>3 DEF n
<1>5. (d * n) % d = 0
  BY <1>4, SMTT(30)
<1> QED
  BY <1>4, <1>5

Elems(s) == {s[k] : k \in DOMAIN s}
Distinct(s) == \A k, m \in DOMAIN s : s[k] = s[m] => k = m

\* Taking the first off a list without repetitions.
LEMMA ElemsTail ==
  ASSUME NEW s \in Seq(Nat), s # <<>>, Distinct(s)
  PROVE  /\ Tail(s) \in Seq(Nat) /\ Distinct(Tail(s))
         /\ Head(s) \in Elems(s)
         /\ Elems(Tail(s)) = Elems(s) \ {Head(s)}
<1> DEFINE r == Tail(s)
           n == Len(s)
<1>1. /\ r \in Seq(Nat) /\ Len(r) = n - 1 /\ n \in Nat /\ n > 0
      /\ \A m \in 1 .. n - 1 : r[m] = s[m + 1]
      /\ Head(s) = s[1]
      /\ DOMAIN s = 1 .. n /\ DOMAIN r = 1 .. n - 1
  BY HeadTailProperties, LenProperties, EmptySeq
<1> HIDE DEF r, n
<1>2. Distinct(r)
  <2> SUFFICES ASSUME NEW k \in 1 .. n - 1, NEW m \in 1 .. n - 1, r[k] = r[m] PROVE k = m
    BY <1>1 DEF Distinct
  <2>1. k + 1 \in DOMAIN s /\ m + 1 \in DOMAIN s /\ s[k + 1] = s[m + 1]
    BY <1>1
  <2>2. k + 1 = m + 1
    BY <2>1 DEF Distinct
  <2> QED
    BY <1>1, <2>2
<1>3. Head(s) \in Elems(s)
  BY <1>1 DEF Elems
<1>4. ASSUME NEW x \in Elems(r) PROVE x \in Elems(s) \ {Head(s)}
  <2>1. PICK m \in 1 .. n - 1 : x = r[m]
    BY <1>1 DEF Elems
  <2>2. x = s[m + 1] /\ m + 1 \in DOMAIN s /\ 1 \in DOMAIN s /\ m + 1 # 1
    BY <1>1, <2>1
  <2>3. s[m + 1] # s[1]
    BY <2>2 DEF Distinct
  <2> QED
    BY <1>1, <2>2, <2>3, Zenon DEF Elems
<1>5. ASSUME NEW x \in Elems(s) \ {Head(s)} PROVE x \in Elems(r)
  <2>1. PICK m \in 1 .. n : x = s[m] /\ m # 1
    BY <1>1 DEF Elems
  <2>2. m - 1 \in 1 .. n - 1 /\ r[m - 1] = s[(m - 1) + 1] /\ (m - 1) + 1 = m
    BY <1>1, <2>1
  <2> QED
    BY <1>1, <2>1, <2>2, Zenon DEF Elems
<1> QED
  BY <1>1, <1>2, <1>3, <1>4, <1>5 DEF r

\* Putting one that is not there in front.
LEMMA ElemsCons ==
  ASSUME NEW S, NEW s \in Seq(S), NEW x \in S, x \notin Elems(s), Distinct(s)
  PROVE  /\ <<x>> \o s \in Seq(S) /\ Distinct(<<x>> \o s)
         /\ Elems(<<x>> \o s) = Elems(s) \cup {x}
<1> DEFINE t == <<x>>
           r == t \o s
           n == Len(s)
<1>1. t \in Seq(S) /\ Len(t) = 1 /\ t[1] = x
  OBVIOUS
<1>2. n \in Nat /\ DOMAIN s = 1 .. n
  BY LenProperties
<1> HIDE DEF t, n
<1>3. /\ r \in Seq(S) /\ Len(r) = n + 1
      /\ r[1] = x
      /\ \A m \in 2 .. n + 1 : r[m] = s[m - 1]
  <2>1. /\ r \in Seq(S) /\ Len(r) = Len(t) + Len(s)
        /\ \A m \in 1 .. Len(t) + Len(s) : r[m] = IF m <= Len(t) THEN t[m] ELSE s[m - Len(t)]
    BY <1>1, ConcatProperties, Zenon
  <2> HIDE DEF r
  <2> QED
    BY <1>1, <1>2, <2>1 DEF n
<1>4. DOMAIN r = 1 .. n + 1
  BY <1>3, LenProperties
<1> HIDE DEF r
<1>5. \A m \in 1 .. n : m + 1 \in 2 .. n + 1 /\ r[m + 1] = s[m]
  BY <1>2, <1>3
<1>6. \A m \in 1 .. n : s[m] # x
  BY <1>2 DEF Elems
<1>7. Distinct(r)
  <2> SUFFICES ASSUME NEW k \in 1 .. n + 1, NEW m \in 1 .. n + 1, r[k] = r[m], k # m PROVE FALSE
    BY <1>4 DEF Distinct
  <2>1. CASE k = 1
    BY <1>2, <1>3, <1>6, <2>1
  <2>2. CASE m = 1
    BY <1>2, <1>3, <1>6, <2>2
  <2>3. CASE k # 1 /\ m # 1
    <3>1. k - 1 \in 1 .. n /\ m - 1 \in 1 .. n /\ s[k - 1] = s[m - 1]
      BY <1>2, <1>3, <2>3
    <3> QED
      BY <1>2, <3>1 DEF Distinct
  <2> QED
    BY <2>1, <2>2, <2>3
<1>8. Elems(r) \subseteq Elems(s) \cup {x}
  <2> SUFFICES ASSUME NEW m \in 1 .. n + 1, r[m] # x PROVE r[m] \in Elems(s)
    BY <1>4 DEF Elems
  <2>1. m - 1 \in 1 .. n /\ r[m] = s[m - 1]
    BY <1>2, <1>3
  <2> QED
    BY <1>2, <2>1 DEF Elems
<1>9. Elems(s) \cup {x} \subseteq Elems(r)
  <2>1. 1 \in DOMAIN r /\ \A m \in 1 .. n : m + 1 \in DOMAIN r
    BY <1>2, <1>4
  <2>2. x \in Elems(r) /\ \A m \in 1 .. n : s[m] \in Elems(r)
    BY <1>3, <1>5, <2>1, Zenon DEF Elems
  <2> QED
    BY <1>2, <2>2, Zenon DEF Elems
<1> QED
  BY <1>3, <1>7, <1>8, <1>9 DEF r, t

\* A list without repetitions is as long as it has elements.
LEMMA DistinctCount ==
  ASSUME NEW s \in Seq(Nat), Distinct(s)
  PROVE  Cardinality(Elems(s)) = Len(s)
<1> DEFINE n == Len(s)
           S == Elems(s)
<1>1. n \in Nat /\ DOMAIN s = 1 .. n /\ s \in [1 .. n -> Nat]
  BY LenProperties
<1>2. s \in [1 .. n -> S]
  BY <1>1 DEF Elems
<1>3. s \in Bijection(1 .. n, S)
  BY <1>1, <1>2 DEF Bijection, Injection, Surjection, IsInjective, Distinct, Elems
<1>4. ExistsBijection(1 .. n, S)
  BY <1>3 DEF ExistsBijection
<1> HIDE DEF S, n
<1>5. Cardinality(S) = n
  BY <1>1, <1>4, FS_CountingElements
<1> QED
  BY <1>5 DEF S, n

\* Unlinking one region of a list without repetitions.
LEMMA ElemsUnlink ==
  ASSUME NEW S, NEW s \in Seq(S), NEW k \in DOMAIN s, Distinct(s)
  PROVE  /\ Unlink(s, k) \in Seq(S) /\ Distinct(Unlink(s, k))
         /\ Elems(Unlink(s, k)) = Elems(s) \ {s[k]}
<1> DEFINE r == Unlink(s, k)
           n == Len(s)
<1>1. n \in Nat /\ DOMAIN s = 1 .. n /\ s \in [1 .. n -> S] /\ n - 1 \in Nat
  BY LenProperties
<1> HIDE DEF n
<1>2. r = [j \in 1 .. n - 1 |-> IF j < k THEN s[j] ELSE s[j + 1]]
  BY DEF Unlink, n
<1> HIDE DEF r
<1> DEFINE At(j) == IF j < k THEN j ELSE j + 1
<1>3. \A j \in 1 .. n - 1 : At(j) \in 1 .. n /\ At(j) # k /\ r[j] = s[At(j)]
  BY <1>1, <1>2
<1>4. \A i, j \in 1 .. n - 1 : At(i) = At(j) => i = j
  BY <1>1
<1>5. ASSUME NEW m \in 1 .. n, m # k
      PROVE  \E j \in 1 .. n - 1 : m = At(j)
  <2>1. CASE m < k
    BY <1>1, <2>1
  <2>2. CASE m > k
    <3>1. m - 1 \in 1 .. n - 1 /\ m = At(m - 1)
      BY <1>1, <2>2
    <3> QED
      BY <3>1
  <2> QED
    BY <1>1, <1>5, <2>1, <2>2
<1> HIDE DEF At
<1>6. r \in [1 .. n - 1 -> S] /\ DOMAIN r = 1 .. n - 1
  BY <1>1, <1>2, <1>3
<1>7. r \in Seq(S)
  BY <1>1, <1>6, SeqDef, Zenon
<1>8. Distinct(r)
  <2> SUFFICES ASSUME NEW i \in 1 .. n - 1, NEW j \in 1 .. n - 1, r[i] = r[j] PROVE i = j
    BY <1>6 DEF Distinct
  <2>1. At(i) \in DOMAIN s /\ At(j) \in DOMAIN s /\ s[At(i)] = s[At(j)]
    BY <1>1, <1>3
  <2>2. At(i) = At(j)
    BY <2>1 DEF Distinct
  <2> QED
    BY <1>4, <2>2
<1>9. ASSUME NEW j \in 1 .. n - 1 PROVE r[j] \in Elems(s) \ {s[k]}
  <2>1. At(j) \in DOMAIN s /\ At(j) # k /\ r[j] = s[At(j)]
    BY <1>1, <1>3
  <2> QED
    BY <2>1 DEF Distinct, Elems
<1>10. ASSUME NEW m \in 1 .. n, s[m] # s[k] PROVE s[m] \in Elems(r)
  <2>1. m # k
    BY <1>10
  <2>2. PICK j \in 1 .. n - 1 : m = At(j)
    BY <1>5, <2>1
  <2>3. r[j] = s[m]
    BY <1>3, <2>2
  <2> QED
    BY <1>6, <2>3 DEF Elems
<1>11. Elems(r) = Elems(s) \ {s[k]}
  BY <1>1, <1>6, <1>9, <1>10, Zenon DEF Elems
<1> QED
  BY <1>7, <1>8, <1>11 DEF r

-----------------------------------------------------------------------------
(* FixedBlocks: no block is lost or handed out twice, and the allocator    *)
(* implements the abstract heap, also while reallocs are half done.        *)

\* A realloc changes the size of a block and keeps its alignment.
AskedSizes == {k.size : k \in BlockLayouts}
AskedAligns == {k.align : k \in BlockLayouts}

\* The class of a layout holds and aligns it.
LEMMA ClassFits ==
  ASSUME NEW l, l.size \in AskedSizes, l.align \in AskedAligns
  PROVE  /\ l.size \in Nat \ {0} /\ l.align \in Nat \ {0}
         /\ ListIndex(l) # 0 => /\ ListIndex(l) \in Classes /\ ListIndex(l) \in Nat
                                /\ ListIndex(l) >= l.size
                                /\ ListIndex(l) % l.align = 0
<1> DEFINE fit == {c \in Classes : c >= Larger(l.size, l.align)}
<1>1. l.size \in Nat \ {0} /\ l.align \in Nat \ {0}
  BY BlocksAssumption DEF AskedSizes, AskedAligns
<1>2. \A k \in DOMAIN BlockSizes : BlockSizes[k] \in Nat \ {0}
  BY BlocksAssumption, ElementOfSeq, LenProperties
<1>3. Classes \subseteq Nat \ {0}
  BY <1>2 DEF Classes
<1>4. \A c \in Classes : c >= l.align => c % l.align = 0
  BY BlocksAssumption DEF Classes, AskedAligns
<1>5. ASSUME ListIndex(l) # 0
      PROVE  ListIndex(l) \in fit
  <2>1. ListIndex(l) = IF fit = {} THEN 0 ELSE CHOOSE c \in fit : \A d \in fit : c <= d
    BY DEF ListIndex
  <2>2. fit \in SUBSET Nat /\ fit # {}
    BY <1>3, <1>5, <2>1, Zenon
  <2> HIDE DEF fit
  <2>3. \E c \in fit : \A d \in fit : c <= d
    BY <2>2, LeastOf
  <2> QED
    BY <2>1, <2>2, <2>3, Zenon
<1>6. ASSUME NEW c \in fit
      PROVE  c \in Classes /\ c \in Nat /\ c >= l.size /\ c >= l.align
  BY <1>1, <1>3 DEF Larger
<1> QED
  BY <1>1, <1>4, <1>5, <1>6

-----------------------------------------------------------------------------
BlocksType ==
  /\ lists \in [Classes -> Seq(Nat)]
  /\ taken \subseteq [addr : Nat, size : Nat \ {0}]
  /\ owned \subseteq [addr : Nat, size : AskedSizes, align : AskedAligns]

\* What the fallback heap gave out is disjoint, and lies on one list or under one
\* block, aligned for the class it has.
MemInv ==
  /\ BlocksType
  /\ \A t \in taken : t.addr + t.size <= BlockHeapSize
  /\ \A t, u \in taken : t = u \/ Apart(t, u)
  /\ \A c \in Classes : Distinct(lists[c])
  /\ \A c \in Classes : \A a \in Elems(lists[c]) :
       /\ [addr |-> a, size |-> c] \in taken
       /\ a % c = 0
       /\ \A b \in owned : b.addr # a
  /\ \A b \in owned : /\ Under(b) \in taken
                      /\ b.addr % b.align = 0
                      /\ ListIndex(b) # 0 => b.addr % ListIndex(b) = 0
  /\ \A b, c \in owned : b.addr = c.addr => b = c
  /\ \A t \in taken : \/ \E b \in owned : t = Under(b)
                      \/ t.size \in Classes /\ t.addr \in Elems(lists[t.size])

\* The old and the new block of a realloc are in use, and nobody else frees them.
MovingInv ==
  \A m \in moving :
    /\ m.old \in owned /\ m.new \in owned
    /\ \A n \in moving : m.new # n.old /\ (m.old = n.old => m = n)

BlocksInv == MemInv /\ MovingInv

\* Two blocks of the fallback heap at one address are the same one.
LEMMA OneAtAnAddress ==
  ASSUME BlocksType, NEW t \in taken, NEW u \in taken, t = u \/ Apart(t, u), t.addr = u.addr
  PROVE  t = u
<1>1. t.addr \in Nat /\ t.size \in Nat /\ t.size > 0 /\ u.addr \in Nat /\ u.size \in Nat /\ u.size > 0
  BY DEF BlocksType
<1> QED
  BY <1>1 DEF Apart

\* Classes are positive numbers.
LEMMA ClassNat == Classes \subseteq Nat \ {0}
<1>1. \A k \in DOMAIN BlockSizes : BlockSizes[k] \in Nat \ {0}
  BY BlocksAssumption, ElementOfSeq, LenProperties
<1> QED
  BY <1>1 DEF Classes

\* alloc, from a list or from the fallback heap, hands out a block at an address
\* no block in use has.
LEMMA Taken ==
  ASSUME MemInv, NEW l, l.size \in AskedSizes, l.align \in AskedAligns, NEW a \in Nat,
         Take(l, a), owned' = owned \cup {Block(l, a)}
  PROVE  MemInv' /\ \A b \in owned : b.addr # a
<1> DEFINE c == ListIndex(l)
           B == Block(l, a)
<1>1. BlocksType
  BY DEF MemInv
<1>2. /\ B.addr = a /\ B.size = l.size /\ B.align = l.align
      /\ B \in [addr : Nat, size : AskedSizes, align : AskedAligns]
  BY DEF Block
<1>3. ListIndex(B) = c
  BY <1>2 DEF ListIndex
<1>4. /\ l.size \in Nat \ {0} /\ l.align \in Nat \ {0}
      /\ c # 0 => c \in Classes /\ c \in Nat \ {0} /\ c >= l.size /\ c % l.align = 0
  BY ClassFits, ClassNat
<1>5. Under(B) = [addr |-> a, size |-> IF c # 0 THEN c ELSE l.size]
  BY <1>2, <1>3 DEF Under
<1> HIDE DEF c, B
<1>6. owned' = owned \cup {B}
  BY DEF B
<1>7. CASE c # 0 /\ lists[c] # <<>>
  <2> DEFINE s == lists[c]
  <2>1. /\ a = Head(s) /\ lists' = [lists EXCEPT ![c] = Tail(s)] /\ taken' = taken
    BY <1>7 DEF Take, c
  <2>2. c \in Classes /\ s \in Seq(Nat) /\ s # <<>> /\ Distinct(s)
    BY <1>1, <1>4, <1>7 DEF BlocksType, MemInv
  <2>3. /\ Tail(s) \in Seq(Nat) /\ Distinct(Tail(s)) /\ a \in Elems(s)
        /\ Elems(Tail(s)) = Elems(s) \ {a}
    BY <2>1, <2>2, ElemsTail
  <2>4. /\ lists' \in [Classes -> Seq(Nat)]
        /\ lists'[c] = Tail(s)
        /\ \A d \in Classes : d # c => lists'[d] = lists[d]
    BY <1>1, <2>1, <2>2, <2>3 DEF BlocksType
  <2>5. /\ [addr |-> a, size |-> c] \in taken /\ a % c = 0
        /\ \A b \in owned : b.addr # a
    BY <2>2, <2>3 DEF MemInv
  <2>6. a % l.align = 0
    BY <1>4, <1>7, <2>5, AlignedFor
  <2>7. Under(B) = [addr |-> a, size |-> c]
    BY <1>5, <1>7
  <2>8. \A d \in Classes : a \in Elems(lists[d]) => d = c
    <3> SUFFICES ASSUME NEW d \in Classes, a \in Elems(lists[d]) PROVE d = c
      OBVIOUS
    <3> DEFINE t == [addr |-> a, size |-> d]
               u == [addr |-> a, size |-> c]
    <3>1. t \in taken /\ u \in taken /\ t.addr = u.addr /\ t.size = d /\ u.size = c
      BY <2>5 DEF MemInv
    <3> HIDE DEF t, u
    <3>2. t = u \/ Apart(t, u)
      BY <3>1 DEF MemInv
    <3>3. t = u
      BY <1>1, <3>1, <3>2, OneAtAnAddress
    <3> QED
      BY <3>1, <3>3
  <2> HIDE DEF s
  <2>9. \A d \in Classes : /\ Distinct(lists'[d])
                           /\ Elems(lists'[d]) = Elems(lists[d]) \ {a}
    <3> TAKE d \in Classes
    <3>1. CASE d = c
      BY <2>3, <2>4, <3>1, Zenon DEF s
    <3>2. CASE d # c
      BY <2>4, <2>8, <3>2 DEF MemInv
    <3> QED
      BY <3>1, <3>2
  <2>10. BlocksType'
    BY <1>1, <1>2, <1>6, <2>1, <2>4 DEF BlocksType
  <2>11. \A d \in Classes : \A x \in Elems(lists'[d]) :
            [addr |-> x, size |-> d] \in taken' /\ x % d = 0 /\ \A b \in owned' : b.addr # x
    <3> SUFFICES ASSUME NEW d \in Classes, NEW x \in Elems(lists[d]), x # a
                 PROVE  [addr |-> x, size |-> d] \in taken /\ x % d = 0 /\ \A b \in owned' : b.addr # x
      BY <2>1, <2>9, Zenon
    <3>1. [addr |-> x, size |-> d] \in taken /\ x % d = 0 /\ \A b \in owned : b.addr # x
      BY DEF MemInv
    <3> QED
      BY <1>2, <1>6, <3>1
  <2>12. \A b \in owned' : /\ Under(b) \in taken'
                           /\ b.addr % b.align = 0
                           /\ ListIndex(b) # 0 => b.addr % ListIndex(b) = 0
    BY <1>2, <1>3, <1>6, <2>1, <2>5, <2>6, <2>7, SMTT(30) DEF MemInv
  <2>13. \A b, d \in owned' : b.addr = d.addr => b = d
    BY <1>2, <1>6, <2>5 DEF MemInv
  <2>14. \A t \in taken' : \/ \E b \in owned' : t = Under(b)
                           \/ t.size \in Classes /\ t.addr \in Elems(lists'[t.size])
    <3> SUFFICES ASSUME NEW t \in taken, ~ \E b \in owned' : t = Under(b)
                 PROVE  t.size \in Classes /\ t.addr \in Elems(lists'[t.size])
      BY <2>1
    <3>1. t.size \in Classes /\ t.addr \in Elems(lists[t.size])
      BY <1>6 DEF MemInv
    <3>2. t # Under(B)
      BY <1>6
    <3>3. t.addr # a
      <4> SUFFICES ASSUME t.addr = a PROVE FALSE
        OBVIOUS
      <4>1. Under(B) \in taken /\ Under(B).addr = a
        BY <2>5, <2>7
      <4> DEFINE u == Under(B)
      <4> HIDE DEF u
      <4>2. u \in taken /\ u.addr = t.addr /\ (t = u \/ Apart(t, u))
        BY <4>1 DEF MemInv, u
      <4> QED
        BY <1>1, <3>2, <4>2, OneAtAnAddress DEF u
    <3> QED
      BY <2>9, <3>1, <3>3
  <2> QED
    BY <2>1, <2>5, <2>9, <2>10, <2>11, <2>12, <2>13, <2>14 DEF MemInv
<1>8. CASE ~ (c # 0 /\ lists[c] # <<>>)
  <2> DEFINE size == IF c # 0 THEN c ELSE l.size
             align == IF c # 0 THEN c ELSE l.align
             N == [addr |-> a, size |-> size]
  <2>1. /\ a \in FreePlaces(size, align) /\ taken' = taken \cup {N} /\ lists' = lists
    BY <1>8 DEF Take, c
  <2>2. /\ size \in Nat \ {0} /\ align \in Nat \ {0} /\ align % l.align = 0
        /\ c # 0 => align = c
    BY <1>4
  <2>3. Under(B) = N
    BY <1>5
  <2> HIDE DEF size, align
  <2>4. N.addr = a /\ N.size = size /\ N \in [addr : Nat, size : Nat \ {0}]
    BY <2>2
  <2>5. a \in 0 .. BlockHeapSize - size /\ a % align = 0 /\ \A t \in taken : Apart(N, t)
    BY <2>1 DEF FreePlaces
  <2> HIDE DEF N
  <2>6. a + size <= BlockHeapSize
    BY <2>2, <2>5, BlocksAssumption
  <2>7. a % l.align = 0 /\ (c # 0 => a % c = 0)
    BY <1>4, <2>2, <2>5, AlignedFor, SMTT(30)
  <2>8. \A t \in taken : t.addr # a
    <3> SUFFICES ASSUME NEW t \in taken, t.addr = a PROVE FALSE
      OBVIOUS
    <3>1. t.addr \in Nat /\ t.size \in Nat /\ t.size > 0
      BY <1>1 DEF BlocksType
    <3> QED
      BY <2>2, <2>4, <2>5, <3>1 DEF Apart
  <2>9. \A b \in owned : b.addr # a
    <3> TAKE b \in owned
    <3>1. Under(b) \in taken /\ Under(b).addr = b.addr
      BY DEF MemInv, Under
    <3> QED
      BY <2>8, <3>1
  <2>10. \A d \in Classes : a \notin Elems(lists[d])
    <3> SUFFICES ASSUME NEW d \in Classes, a \in Elems(lists[d]) PROVE FALSE
      OBVIOUS
    <3>1. [addr |-> a, size |-> d] \in taken
      BY DEF MemInv
    <3> QED
      BY <2>8, <3>1
  <2>11. BlocksType'
    BY <1>1, <1>2, <1>6, <2>1, <2>4, SMTT(30) DEF BlocksType
  <2>12. \A t \in taken' : t.addr + t.size <= BlockHeapSize
    BY <2>1, <2>4, <2>6 DEF MemInv
  <2>13. \A t, u \in taken' : t = u \/ Apart(t, u)
    <3>1. \A t \in taken : Apart(t, N)
      BY <2>5 DEF Apart
    <3> QED
      BY <2>1, <2>5, <3>1 DEF MemInv
  <2>14. \A d \in Classes : \A x \in Elems(lists'[d]) :
            [addr |-> x, size |-> d] \in taken' /\ x % d = 0 /\ \A b \in owned' : b.addr # x
    <3> SUFFICES ASSUME NEW d \in Classes, NEW x \in Elems(lists[d])
                 PROVE  [addr |-> x, size |-> d] \in taken' /\ x % d = 0 /\ \A b \in owned' : b.addr # x
      BY <2>1, Zenon
    <3>1. [addr |-> x, size |-> d] \in taken /\ x % d = 0 /\ \A b \in owned : b.addr # x
      BY DEF MemInv
    <3>2. x # a
      BY <2>10
    <3> QED
      BY <1>2, <1>6, <2>1, <3>1, <3>2
  <2>15. \A b \in owned' : /\ Under(b) \in taken'
                           /\ b.addr % b.align = 0
                           /\ ListIndex(b) # 0 => b.addr % ListIndex(b) = 0
    BY <1>2, <1>3, <1>6, <2>1, <2>3, <2>7 DEF MemInv
  <2>16. \A b, d \in owned' : b.addr = d.addr => b = d
    BY <1>2, <1>6, <2>9 DEF MemInv
  <2>17. \A t \in taken' : \/ \E b \in owned' : t = Under(b)
                           \/ t.size \in Classes /\ t.addr \in Elems(lists'[t.size])
    BY <1>6, <2>1, <2>3 DEF MemInv
  <2>18. \A d \in Classes : Distinct(lists'[d])
    BY <2>1 DEF MemInv
  <2> QED
    BY <2>9, <2>11, <2>12, <2>13, <2>14, <2>15, <2>16, <2>17, <2>18 DEF MemInv
<1> QED
  BY <1>7, <1>8

\* dealloc puts the block back where it came from.
LEMMA Given ==
  ASSUME MemInv, NEW b \in owned, Give(b), owned' = owned \ {b}
  PROVE  MemInv'
<1> DEFINE c == ListIndex(b)
<1>1. BlocksType
  BY DEF MemInv
<1>2. b.addr \in Nat /\ b.size \in AskedSizes /\ b.align \in AskedAligns
  BY <1>1 DEF BlocksType
<1>3. /\ b.size \in Nat \ {0}
      /\ c # 0 => c \in Classes
  BY <1>2, ClassFits
<1>4. /\ Under(b) \in taken /\ (c # 0 => b.addr % c = 0)
      /\ \A x \in owned : x.addr = b.addr => x = b
      /\ \A d \in Classes : b.addr \notin Elems(lists[d])
  BY Zenon DEF MemInv
<1>5. Under(b) = [addr |-> b.addr, size |-> IF c # 0 THEN c ELSE b.size]
  BY DEF Under
<1>6. \A x \in owned : Under(x).addr = x.addr
  BY DEF Under
<1> HIDE DEF c
<1>7. CASE c # 0
  <2> DEFINE s == lists[c]
  <2>1. lists' = [lists EXCEPT ![c] = <<b.addr>> \o s] /\ taken' = taken
    BY <1>7 DEF Give, c
  <2>2. c \in Classes /\ s \in Seq(Nat) /\ Distinct(s) /\ b.addr \notin Elems(s)
    BY <1>1, <1>3, <1>4, <1>7 DEF BlocksType, MemInv
  <2>3. /\ <<b.addr>> \o s \in Seq(Nat) /\ Distinct(<<b.addr>> \o s)
        /\ Elems(<<b.addr>> \o s) = Elems(s) \cup {b.addr}
    BY <1>2, <2>2, ElemsCons
  <2>4. /\ lists' \in [Classes -> Seq(Nat)]
        /\ lists'[c] = <<b.addr>> \o s
        /\ \A d \in Classes : d # c => lists'[d] = lists[d]
    BY <1>1, <2>1, <2>2, <2>3 DEF BlocksType
  <2>5. \A d \in Classes : /\ Distinct(lists'[d])
                           /\ Elems(lists'[d]) = IF d = c THEN Elems(lists[d]) \cup {b.addr}
                                                          ELSE Elems(lists[d])
    BY <2>3, <2>4, Zenon DEF MemInv
  <2>6. Under(b) = [addr |-> b.addr, size |-> c]
    BY <1>5, <1>7
  <2> HIDE DEF s
  <2>7. BlocksType'
    BY <1>1, <2>1, <2>4 DEF BlocksType
  <2>8. \A d \in Classes : \A x \in Elems(lists'[d]) :
           [addr |-> x, size |-> d] \in taken' /\ x % d = 0 /\ \A e \in owned' : e.addr # x
    <3> SUFFICES ASSUME NEW d \in Classes, NEW x \in Elems(lists'[d])
                 PROVE  [addr |-> x, size |-> d] \in taken /\ x % d = 0 /\ \A e \in owned' : e.addr # x
      BY <2>1, Zenon
    <3>1. CASE x \in Elems(lists[d])
      BY <3>1 DEF MemInv
    <3>2. CASE d = c /\ x = b.addr
      BY <1>4, <1>7, <2>6, <3>2
    <3> QED
      BY <2>5, <3>1, <3>2, Zenon
  <2>9. \A e \in owned' : /\ Under(e) \in taken'
                          /\ e.addr % e.align = 0
                          /\ ListIndex(e) # 0 => e.addr % ListIndex(e) = 0
    BY <2>1 DEF MemInv
  <2>10. \A e, d \in owned' : e.addr = d.addr => e = d
    BY DEF MemInv
  <2>11. \A t \in taken' : \/ \E e \in owned' : t = Under(e)
                           \/ t.size \in Classes /\ t.addr \in Elems(lists'[t.size])
    <3> SUFFICES ASSUME NEW t \in taken, ~ \E e \in owned' : t = Under(e)
                 PROVE  t.size \in Classes /\ t.addr \in Elems(lists'[t.size])
      BY <2>1
    <3>1. CASE t = Under(b)
      <4>1. t.size = c /\ t.addr = b.addr
        BY <2>6, <3>1
      <4> QED
        BY <2>2, <2>5, <4>1, Zenon
    <3>2. CASE t # Under(b)
      <4>1. t.size \in Classes /\ t.addr \in Elems(lists[t.size])
        BY <3>2 DEF MemInv
      <4> QED
        BY <2>5, <4>1, Zenon
    <3> QED
      BY <3>1, <3>2
  <2> QED
    BY <2>1, <2>5, <2>7, <2>8, <2>9, <2>10, <2>11, Zenon DEF MemInv
<1>8. CASE c = 0
  <2>1. lists' = lists /\ taken' = taken \ {Under(b)}
    BY <1>5, <1>8 DEF Give, c
  <2>2. BlocksType'
    BY <1>1, <2>1 DEF BlocksType
  <2>3. \A d \in Classes : \A x \in Elems(lists'[d]) :
           [addr |-> x, size |-> d] \in taken' /\ x % d = 0 /\ \A e \in owned' : e.addr # x
    <3> SUFFICES ASSUME NEW d \in Classes, NEW x \in Elems(lists[d])
                 PROVE  [addr |-> x, size |-> d] \in taken' /\ x % d = 0 /\ \A e \in owned' : e.addr # x
      BY <2>1, Zenon
    <3>1. [addr |-> x, size |-> d] \in taken /\ x % d = 0 /\ \A e \in owned : e.addr # x
      BY DEF MemInv
    <3>2. [addr |-> x, size |-> d] # Under(b)
      BY <1>6, <3>1
    <3> QED
      BY <2>1, <3>1, <3>2
  <2>4. \A e \in owned' : /\ Under(e) \in taken'
                          /\ e.addr % e.align = 0
                          /\ ListIndex(e) # 0 => e.addr % ListIndex(e) = 0
    <3> TAKE e \in owned'
    <3>1. e \in owned /\ e # b /\ Under(e) \in taken /\ e.addr # b.addr
      BY <1>4 DEF MemInv
    <3>2. Under(e) # Under(b)
      BY <1>6, <3>1
    <3> QED
      BY <2>1, <3>1, <3>2 DEF MemInv
  <2>5. \A e, d \in owned' : e.addr = d.addr => e = d
    BY DEF MemInv
  <2>6. \A t \in taken' : \/ \E e \in owned' : t = Under(e)
                          \/ t.size \in Classes /\ t.addr \in Elems(lists'[t.size])
    BY <2>1 DEF MemInv
  <2>7. /\ \A t \in taken' : t.addr + t.size <= BlockHeapSize
        /\ \A t, u \in taken' : t = u \/ Apart(t, u)
        /\ \A d \in Classes : Distinct(lists'[d])
    BY <2>1 DEF MemInv
  <2> QED
    BY <2>2, <2>3, <2>4, <2>5, <2>6, <2>7 DEF MemInv
<1> QED
  BY <1>7, <1>8

\* Blocks in use are inside the heap, aligned, and apart.
OwnedOk ==
  \A b \in owned : /\ b.addr + b.size <= BlockHeapSize
                   /\ b.addr % b.align = 0
                   /\ \A c \in owned : c.addr # b.addr => Apart(b, c)

\* The blocks of the fallback heap under them see to that.
LEMMA OwnedApart == MemInv => OwnedOk
<1> SUFFICES ASSUME MemInv, NEW b \in owned
             PROVE  /\ b.addr + b.size <= BlockHeapSize
                    /\ b.addr % b.align = 0
                    /\ \A c \in owned : c.addr # b.addr => Apart(b, c)
  BY DEF OwnedOk
<1>1. ASSUME NEW x \in owned
      PROVE  /\ x.addr \in Nat /\ x.size \in Nat /\ Under(x) \in taken
             /\ Under(x).addr = x.addr /\ Under(x).size >= x.size /\ Under(x).size \in Nat
  <2>1. x.addr \in Nat /\ x.size \in AskedSizes /\ x.align \in AskedAligns
    BY DEF MemInv, BlocksType
  <2>2. /\ x.size \in Nat \ {0}
        /\ ListIndex(x) # 0 => ListIndex(x) \in Nat /\ ListIndex(x) >= x.size
    BY <2>1, ClassFits
  <2>3. Under(x) \in taken
    BY DEF MemInv
  <2> QED
    BY <2>1, <2>2, <2>3 DEF Under
<1>2. Under(b).addr + Under(b).size <= BlockHeapSize
  BY <1>1 DEF MemInv
<1>3. b.addr + b.size <= BlockHeapSize
  BY <1>1, <1>2, BlocksAssumption
<1>4. ASSUME NEW c \in owned, c.addr # b.addr
      PROVE  Apart(b, c)
  <2>1. Under(b) # Under(c)
    BY <1>1, <1>4
  <2>2. Apart(Under(b), Under(c))
    BY <1>1, <2>1 DEF MemInv
  <2> HIDE DEF Under
  <2> QED
    BY <1>1, <2>2 DEF Apart
<1> QED
  BY <1>3, <1>4 DEF MemInv

\* An empty heap satisfies the invariant.
LEMMA BlocksInitInv == BlocksInit => BlocksInv
<1> SUFFICES ASSUME BlocksInit PROVE BlocksInv
  OBVIOUS
<1>1. taken = {} /\ owned = {} /\ moving = {} /\ lists = [c \in Classes |-> <<>>]
  BY DEF BlocksInit
<1>2. \A c \in Classes : lists[c] = <<>>
  BY <1>1
<1>3. Elems(<<>>) = {} /\ Distinct(<<>>)
  BY DEF Elems, Distinct
<1>4. lists \in [Classes -> Seq(Nat)]
  BY <1>1, EmptySeq
<1> QED
  BY <1>1, <1>2, <1>3, <1>4 DEF BlocksInv, MemInv, MovingInv, BlocksType

\* A step keeps the invariant and is a step of the abstract heap, or none.
LEMMA BlocksStepInv ==
  BlocksInv /\ [BlocksNext]_blockvars => BlocksInv' /\ [BlockHeap!Next]_owned
<1> SUFFICES ASSUME BlocksInv, [BlocksNext]_blockvars
             PROVE  BlocksInv' /\ [BlockHeap!Next]_owned
  OBVIOUS
<1>1. MemInv /\ MovingInv
  BY DEF BlocksInv
<1>2. ASSUME NEW l, l.size \in AskedSizes, l.align \in AskedAligns, NEW a \in 0 .. BlockHeapSize,
             Take(l, a), owned' = owned \cup {Block(l, a)}
      PROVE  /\ MemInv' /\ BlockHeap!Next
             /\ Block(l, a) \in owned' \ owned
  <2>1. a \in Nat
    OBVIOUS
  <2>2. MemInv' /\ \A b \in owned : b.addr # a
    BY <1>1, <1>2, <2>1, Taken
  <2> DEFINE B == Block(l, a)
  <2>3. B.addr = a
    BY DEF Block
  <2> HIDE DEF B
  <2>4. owned' = owned \cup {B} /\ B \in owned' \ owned
    BY <1>2, <2>2, <2>3 DEF B
  <2>5. OwnedOk'
    BY <2>2, OwnedApart, PTL
  <2>6. BlockHeap!Alloc
    BY <2>2, <2>3, <2>4, <2>5 DEF BlockHeap!Alloc, BlockHeap!Disjoint, OwnedOk, Apart
  <2> QED
    BY <2>2, <2>4, <2>6 DEF BlockHeap!Next, B
<1>3. ASSUME NEW b \in owned, Give(b), owned' = owned \ {b}
      PROVE  MemInv' /\ BlockHeap!Next
  BY <1>1, <1>3, Given DEF BlockHeap!Next, BlockHeap!Dealloc
<1>4. ASSUME NEW l \in BlockLayouts, BlockAlloc(l)
      PROVE  BlocksInv' /\ BlockHeap!Next
  <2>1. PICK a \in 0 .. BlockHeapSize : Take(l, a) /\ owned' = owned \cup {Block(l, a)}
    BY <1>4 DEF BlockAlloc
  <2>2. moving' = moving
    BY <1>4 DEF BlockAlloc
  <2>3. l.size \in AskedSizes /\ l.align \in AskedAligns
    BY DEF AskedSizes, AskedAligns
  <2>4. MemInv' /\ BlockHeap!Next
    BY <1>2, <2>1, <2>3
  <2>5. MovingInv'
    BY <1>1, <2>1, <2>2 DEF MovingInv
  <2> QED
    BY <2>4, <2>5 DEF BlocksInv
<1>5. ASSUME NEW b \in owned, BlockDealloc(b)
      PROVE  BlocksInv' /\ BlockHeap!Next
  <2>1. Give(b) /\ owned' = owned \ {b} /\ moving' = moving /\ b \notin Busy
    BY <1>5 DEF BlockDealloc
  <2>2. MemInv' /\ BlockHeap!Next
    BY <1>3, <2>1
  <2>3. MovingInv'
    BY <1>1, <2>1 DEF MovingInv, Busy
  <2> QED
    BY <2>2, <2>3 DEF BlocksInv
<1>6. ASSUME NEW b \in owned, NEW k \in BlockLayouts, Realloc(b, k.size)
      PROVE  BlocksInv' /\ BlockHeap!Next
  <2> DEFINE l == [size |-> k.size, align |-> b.align]
  <2>1. PICK a \in 0 .. BlockHeapSize :
          /\ Take(l, a) /\ owned' = owned \cup {Block(l, a)}
          /\ moving' = moving \cup {[old |-> b, new |-> Block(l, a)]}
          /\ b \notin Busy
    BY <1>6 DEF Realloc
  <2>2. l.size \in AskedSizes /\ l.align \in AskedAligns
    BY <1>1 DEF MemInv, BlocksType, AskedSizes
  <2> HIDE DEF l
  <2> DEFINE B == Block(l, a)
  <2>3. MemInv' /\ BlockHeap!Next /\ B \in owned' \ owned
    BY <1>2, <2>1, <2>2
  <2> HIDE DEF B
  <2>4. moving' = moving \cup {[old |-> b, new |-> B]} /\ owned' = owned \cup {B}
    BY <2>1 DEF B
  <2>5. \A m \in moving : m.old # b /\ m.new # b
    BY <2>1 DEF Busy
  <2>6. MovingInv'
    BY <1>1, <2>3, <2>4, <2>5 DEF MovingInv
  <2> QED
    BY <2>3, <2>6 DEF BlocksInv
<1>7. ASSUME NEW m \in moving, ReallocDone(m)
      PROVE  BlocksInv' /\ BlockHeap!Next
  <2>1. Give(m.old) /\ owned' = owned \ {m.old} /\ moving' = moving \ {m} /\ m.old \in owned
    BY <1>1, <1>7 DEF ReallocDone, MovingInv
  <2>2. MemInv' /\ BlockHeap!Next
    BY <1>3, <2>1
  <2>3. MovingInv'
    BY <1>1, <2>1 DEF MovingInv
  <2> QED
    BY <2>2, <2>3 DEF BlocksInv
<1>8. CASE UNCHANGED blockvars
  BY <1>1, <1>8, Zenon DEF blockvars, BlocksInv, MemInv, MovingInv, BlocksType, Under
<1> QED
  BY <1>4, <1>5, <1>6, <1>7, <1>8 DEF BlocksNext

\* The invariant gives the statement about lists and blocks in use.
LEMMA OnceFromInv == BlocksInv => EveryBlockOnce
<1> SUFFICES ASSUME MemInv PROVE EveryBlockOnce
  BY DEF BlocksInv
<1> DEFINE Used == {Under(b) : b \in owned}
<1>1. \A t \in FreeBlocks : \E c \in Classes : \E a \in Elems(lists[c]) : t = [addr |-> a, size |-> c]
  BY DEF FreeBlocks, Elems
<1>2. \A c \in Classes : \A a \in Elems(lists[c]) : [addr |-> a, size |-> c] \in FreeBlocks
  BY DEF FreeBlocks, Elems
<1> HIDE DEF FreeBlocks
<1>3. \A b \in owned : Under(b).addr = b.addr /\ Under(b) \in taken
  BY DEF Under, MemInv
<1>4. FreeBlocks \cup Used \subseteq taken
  BY <1>1, <1>3 DEF MemInv
<1>5. taken \subseteq FreeBlocks \cup Used
  <2> SUFFICES ASSUME NEW t \in taken, t \notin Used PROVE t \in FreeBlocks
    OBVIOUS
  <2>1. t.size \in Classes /\ t.addr \in Elems(lists[t.size])
    BY DEF MemInv
  <2>2. t = [addr |-> t.addr, size |-> t.size]
    BY DEF MemInv, BlocksType
  <2> QED
    BY <1>2, <2>1, <2>2
<1>6. FreeBlocks \cap Used = {}
  <2> SUFFICES ASSUME NEW b \in owned, Under(b) \in FreeBlocks PROVE FALSE
    OBVIOUS
  <2>1. PICK c \in Classes : \E a \in Elems(lists[c]) : Under(b) = [addr |-> a, size |-> c]
    BY <1>1
  <2>2. PICK a \in Elems(lists[c]) : Under(b) = [addr |-> a, size |-> c]
    BY <2>1
  <2>3. b.addr = a
    BY <1>3, <2>2
  <2> QED
    BY <2>3, Zenon DEF MemInv
<1>7. \A b, c \in owned : Under(b) = Under(c) => b = c
  BY <1>3 DEF MemInv
<1>8. \A c \in Classes : Cardinality({lists[c][k] : k \in DOMAIN lists[c]}) = Len(lists[c])
  <2> TAKE c \in Classes
  <2>1. lists[c] \in Seq(Nat) /\ Distinct(lists[c])
    BY DEF MemInv, BlocksType
  <2>2. Cardinality(Elems(lists[c])) = Len(lists[c])
    BY <2>1, DistinctCount
  <2> QED
    BY <2>2 DEF Elems
<1> QED
  BY <1>4, <1>5, <1>6, <1>7, <1>8 DEF EveryBlockOnce

-----------------------------------------------------------------------------
(* LinkedList: regions, padded blocks and gaps share out the heap.         *)

\* What size_align answers: room for the block and for a node, in multiples of a
\* node's alignment, which is one of the block's too.
LEMMA SizeAlignIs ==
  ASSUME NEW l, l.size \in Nat \ {0}, l.align \in Nat \ {0},
         IF l.align > NodeAlign THEN l.align % NodeAlign = 0 ELSE NodeAlign % l.align = 0
  PROVE  LET sa == SizeAlign(l)
         IN /\ sa.size \in Nat /\ sa.size >= l.size /\ sa.size >= NodeSize /\ sa.size % NodeAlign = 0
            /\ sa.align \in Nat \ {0} /\ sa.align % NodeAlign = 0 /\ sa.align % l.align = 0
<1> DEFINE al == Larger(l.align, NodeAlign)
           up == AlignUp(l.size, al)
           sa == SizeAlign(l)
<1>1. al \in Nat \ {0} /\ al % NodeAlign = 0 /\ al % l.align = 0
  BY SMTT(30) DEF Larger, NodeAlign
<1>2. sa.size = Larger(up, NodeSize) /\ sa.align = al
  BY DEF SizeAlign
<1> HIDE DEF al, sa
<1>3. up \in Nat /\ l.size <= up /\ up % al = 0
  BY <1>1, AlignUpIs
<1> HIDE DEF up
<1>4. up % NodeAlign = 0
  BY <1>1, <1>3, AlignedFor DEF NodeAlign
<1>5. sa.size \in Nat /\ sa.size >= l.size /\ sa.size >= NodeSize /\ sa.size % NodeAlign = 0
  BY <1>2, <1>3, <1>4 DEF Larger, NodeSize, NodeAlign
<1> QED
  BY <1>1, <1>2, <1>5 DEF sa

-----------------------------------------------------------------------------
Span == [addr : Nat, size : Nat]
ListBlocks == UNION {[addr : Nat, size : {l.size}, align : {l.align}] : l \in ListLayouts}
Padded(b) == [addr |-> b.addr, size |-> SizeAlign(b).size]
Within(x, r) == r.addr <= x /\ x < r.addr + r.size

\* The regions on the list, the padded blocks and the gaps are disjoint and cover
\* the heap.
ListInv ==
  /\ free \in Seq(Span) /\ Distinct(free)
  /\ used \subseteq ListBlocks
  /\ gaps \subseteq Nat
  /\ \A r \in Elems(free) :
       r.addr % NodeAlign = 0 /\ r.size >= NodeSize /\ r.addr + r.size <= ListHeapSize
  /\ \A b \in used :
       /\ b.addr % NodeAlign = 0 /\ b.addr % b.align = 0
       /\ b.addr + Padded(b).size <= ListHeapSize
  /\ \A r, q \in Elems(free) : r = q \/ Apart(r, q)
  /\ \A b, c \in used : b = c \/ Apart(Padded(b), Padded(c))
  /\ \A r \in Elems(free), b \in used : Apart(r, Padded(b))
  /\ \A x \in gaps : /\ \A r \in Elems(free) : ~ Within(x, r)
                     /\ \A b \in used : ~ Within(x, Padded(b))
  /\ \A x \in 0 .. ListHeapSize - 1 :
       \/ x \in gaps
       \/ \E r \in Elems(free) : Within(x, r)
       \/ \E b \in used : Within(x, Padded(b))

\* Blocks in use, and the room they take.
LEMMA BlockFits ==
  ASSUME NEW b \in ListBlocks
  PROVE  /\ b.addr \in Nat /\ b.size \in Nat \ {0} /\ b.align \in Nat \ {0}
         /\ Padded(b) \in Span /\ Padded(b).addr = b.addr
         /\ Padded(b).size >= b.size /\ Padded(b).size >= NodeSize
         /\ Padded(b).size % NodeAlign = 0
         /\ Padded(b).size = SizeAlign(b).size
<1>1. PICK l \in ListLayouts : b \in [addr : Nat, size : {l.size}, align : {l.align}]
  BY DEF ListBlocks
<1>2. b.addr \in Nat /\ b.size = l.size /\ b.align = l.align
  BY <1>1
<1>3. /\ b.size \in Nat \ {0} /\ b.align \in Nat \ {0}
      /\ IF b.align > NodeAlign THEN b.align % NodeAlign = 0 ELSE NodeAlign % b.align = 0
  BY <1>2, ListAssumption
<1> DEFINE sa == SizeAlign(b)
<1>4. sa.size \in Nat /\ sa.size >= b.size /\ sa.size >= NodeSize /\ sa.size % NodeAlign = 0
  BY <1>3, SizeAlignIs
<1> HIDE DEF sa
<1>5. Padded(b) = [addr |-> b.addr, size |-> sa.size]
  BY DEF Padded, sa
<1> QED
  BY <1>2, <1>3, <1>4, <1>5 DEF Span, sa

\* The bytes of spans that are apart.
LEMMA ApartBytes ==
  ASSUME NEW r \in Span, NEW q \in Span, Apart(r, q), NEW x \in Nat
  PROVE  ~ (Within(x, r) /\ Within(x, q))
BY DEF Apart, Within, Span

\* A part of a span is apart from what the span is apart from.
LEMMA PartApart ==
  ASSUME NEW r \in Span, NEW q \in Span, NEW p \in Span, Apart(r, q),
         r.addr <= p.addr, p.addr + p.size <= r.addr + r.size
  PROVE  Apart(p, q) /\ Apart(q, p)
BY DEF Apart, Span

\* Each byte has exactly one owner.
LEMMA OneOwner == ListInv => RegionsHoldNodes /\ Partition
<1> SUFFICES ASSUME ListInv PROVE RegionsHoldNodes /\ Partition
  OBVIOUS
<1>1. \A k \in DOMAIN free : free[k] \in Elems(free)
  BY DEF Elems
<1>2. RegionsHoldNodes
  BY <1>1 DEF ListInv, RegionsHoldNodes
<1>3. Elems(free) \subseteq Span
  BY ElementOfSeq, LenProperties DEF ListInv, Elems
<1>4. \A b \in used : Padded(b) \in Span /\ Padded(b).addr = b.addr /\ Padded(b).size = SizeAlign(b).size
  BY BlockFits DEF ListInv
<1>5. ASSUME NEW r \in Span, NEW x \in Nat
      PROVE  x \in Bytes(r.addr, r.size) <=> Within(x, r)
  BY DEF Bytes, Within, Span
<1>6. ASSUME NEW x \in Bytes(0, ListHeapSize)
      PROVE  LET Owners == {<<"free", k>> : k \in {k \in DOMAIN free : x \in Bytes(free[k].addr, free[k].size)}}
                       \cup {<<"used", b>> : b \in {b \in used : x \in Bytes(b.addr, SizeAlign(b).size)}}
                       \cup {<<"gap", x>> : y \in {x} \cap gaps}
             IN \E o \in Owners : Owners = {o}
  <2> DEFINE F == {k \in DOMAIN free : x \in Bytes(free[k].addr, free[k].size)}
             U == {b \in used : x \in Bytes(b.addr, SizeAlign(b).size)}
             G == {x} \cap gaps
             Owners == {<<"free", k>> : k \in F} \cup {<<"used", b>> : b \in U} \cup {<<"gap", x>> : y \in G}
  <2>1. x \in Nat /\ x \in 0 .. ListHeapSize - 1
    BY ListAssumption DEF Bytes
  <2>2. \A k : k \in F <=> k \in DOMAIN free /\ Within(x, free[k])
    BY <1>1, <1>3, <1>5, <2>1
  <2>3. \A b : b \in U <=> b \in used /\ Within(x, Padded(b))
    BY <1>4, <1>5, <2>1
  <2> HIDE DEF F, U
  <2>4. \A j, k \in F : j = k
    <3> SUFFICES ASSUME NEW j \in F, NEW k \in F PROVE j = k
      OBVIOUS
    <3>1. ~ Apart(free[j], free[k])
      BY <1>1, <1>3, <2>1, <2>2, ApartBytes, SMTT(30)
    <3>2. free[j] = free[k]
      BY <1>1, <2>2, <3>1 DEF ListInv
    <3> QED
      BY <2>2, <3>2 DEF ListInv, Distinct
  <2>5. \A b, c \in U : b = c
    <3> SUFFICES ASSUME NEW b \in U, NEW c \in U PROVE b = c
      OBVIOUS
    <3>1. ~ Apart(Padded(b), Padded(c))
      BY <1>4, <2>1, <2>3, ApartBytes
    <3> QED
      BY <2>3, <3>1 DEF ListInv
  <2>6. \A k \in F, b \in U : FALSE
    <3> SUFFICES ASSUME NEW k \in F, NEW b \in U PROVE FALSE
      OBVIOUS
    <3>1. ~ Apart(free[k], Padded(b))
      BY <1>1, <1>3, <1>4, <2>1, <2>2, <2>3, ApartBytes
    <3> QED
      BY <1>1, <2>2, <2>3, <3>1 DEF ListInv
  <2>7. G # {} => F = {} /\ U = {}
    BY <1>1, <2>2, <2>3, Zenon DEF ListInv
  <2>8. G # {} \/ F # {} \/ U # {}
    <3>1. CASE x \in gaps
      BY <3>1
    <3>2. CASE \E r \in Elems(free) : Within(x, r)
      BY <2>2, <3>2 DEF Elems
    <3>3. CASE \E b \in used : Within(x, Padded(b))
      BY <2>3, <3>3
    <3> QED
      BY <2>1, <3>1, <3>2, <3>3 DEF ListInv
  <2> HIDE DEF G
  <2>9. CASE G # {}
    <3>1. Owners = {<<"gap", x>>}
      BY <2>7, <2>9
    <3> QED
      BY <3>1, Zenon DEF F, U, G
  <2>10. CASE F # {} /\ G = {}
    <3>1. PICK k \in F : F = {k}
      BY <2>4, <2>10
    <3>2. U = {}
      BY <2>6, <2>10
    <3>3. Owners = {<<"free", k>>}
      BY <2>10, <3>1, <3>2
    <3> QED
      BY <3>3, Zenon DEF F, U, G
  <2>11. CASE U # {} /\ G = {}
    <3>1. PICK b \in U : U = {b}
      BY <2>5, <2>11
    <3>2. F = {}
      BY <2>6, <2>11
    <3>3. Owners = {<<"used", b>>}
      BY <2>11, <3>1, <3>2
    <3> QED
      BY <3>3, Zenon DEF F, U, G
  <2> QED
    BY <2>8, <2>9, <2>10, <2>11, Zenon
<1>7. Partition
  BY <1>6 DEF Partition
<1> QED
  BY <1>2, <1>7

\* add_free_region puts a region that is not there in front.
LEMMA RegionAdded ==
  ASSUME NEW list \in Seq(Span), Distinct(list), NEW addr \in Nat, NEW size \in Nat,
         [addr |-> addr, size |-> size] \notin Elems(list)
  PROVE  LET new == AddFreeRegion(addr, size, list)
         IN /\ new \in Seq(Span) /\ Distinct(new)
            /\ Elems(new) = Elems(list) \cup {[addr |-> addr, size |-> size]}
<1> DEFINE r == [addr |-> addr, size |-> size]
<1>1. r \in Span
  BY DEF Span
<1>2. AddFreeRegion(addr, size, list) = <<r>> \o list
  BY DEF AddFreeRegion
<1> HIDE DEF r
<1>3. r \notin Elems(list)
  BY DEF r
<1>4. /\ <<r>> \o list \in Seq(Span) /\ Distinct(<<r>> \o list)
      /\ Elems(<<r>> \o list) = Elems(list) \cup {r}
  BY <1>1, <1>3, ElemsCons
<1> QED
  BY <1>2, <1>4 DEF r

\* alloc cuts the region it finds into a gap, a padded block and a region.
LEMMA ListAllocInv ==
  ASSUME ListInv, NEW l \in ListLayouts, ListAlloc(l)
  PROVE  ListInv' /\ \E b \in used' \ used : used' = used \cup {b}
<1> DEFINE sa == SizeAlign(l)
           k == FindRegion(sa)
           r == free[k]
           start == AlignUp(r.addr, sa.align)
           rest == Unlink(free, k)
           ex == Excess(r, sa)
           B == [addr |-> start, size |-> l.size, align |-> l.align]
           P == [addr |-> start, size |-> sa.size]
           N == [addr |-> start + sa.size, size |-> ex]
<1>1. free \in Seq(Span) /\ Distinct(free) /\ used \subseteq ListBlocks /\ gaps \subseteq Nat
  BY DEF ListInv
<1>2. Elems(free) \subseteq Span
  BY <1>1, ElementOfSeq, LenProperties DEF Elems
<1>3. /\ l.size \in Nat \ {0} /\ l.align \in Nat \ {0}
      /\ IF l.align > NodeAlign THEN l.align % NodeAlign = 0 ELSE NodeAlign % l.align = 0
  BY ListAssumption
<1>4. /\ sa.size \in Nat /\ sa.size >= l.size /\ sa.size >= NodeSize /\ sa.size % NodeAlign = 0
      /\ sa.align \in Nat \ {0} /\ sa.align % NodeAlign = 0 /\ sa.align % l.align = 0
  BY <1>3, SizeAlignIs
<1>5. SizeAlign(B).size = sa.size
  BY Zenon DEF SizeAlign
<1>6. /\ k # 0
      /\ free' = IF ex = 0 THEN rest ELSE AddFreeRegion(start + sa.size, ex, rest)
      /\ used' = used \cup {B}
      /\ gaps' = gaps \cup r.addr .. start - 1
  BY DEF ListAlloc
<1> HIDE DEF sa
<1>7. k \in DOMAIN free /\ Fits(r, sa)
  <2> DEFINE hits == {n \in DOMAIN free : Fits(free[n], sa)}
  <2>1. k = IF hits = {} THEN 0 ELSE CHOOSE n \in hits : \A m \in hits : n <= m
    BY DEF FindRegion
  <2>2. hits \in SUBSET Nat /\ hits # {}
    BY <1>1, <1>6, <2>1, LenProperties
  <2>3. \A n \in hits : n \in DOMAIN free /\ Fits(free[n], sa)
    OBVIOUS
  <2> HIDE DEF hits, k
  <2>4. \E n \in hits : \A m \in hits : n <= m
    BY <2>2, LeastOf
  <2>5. k \in hits
    BY <2>1, <2>2, <2>4, Zenon
  <2> QED
    BY <2>3, <2>5
<1> HIDE DEF k
<1>8. /\ rest \in Seq(Span) /\ Distinct(rest)
      /\ Elems(rest) = Elems(free) \ {r}
      /\ r \in Elems(free) /\ r \in Span
  BY <1>1, <1>2, <1>7, ElemsUnlink, ZenonT(30) DEF Elems
<1>9. /\ r.addr \in Nat /\ r.size \in Nat /\ r.addr % NodeAlign = 0
      /\ r.addr + r.size <= ListHeapSize
  BY <1>8 DEF ListInv, Span
<1>10. start + sa.size <= r.addr + r.size /\ (ex = 0 \/ ex >= NodeSize)
       /\ ex = r.addr + r.size - (start + sa.size)
  BY <1>7 DEF Fits, Excess
<1> HIDE DEF ex, rest, r
<1>11. start \in Nat /\ r.addr <= start /\ start % sa.align = 0
  BY <1>4, <1>9, AlignUpIs
<1> HIDE DEF start
<1>12. ex \in Nat /\ start + sa.size \in Nat
  BY <1>4, <1>9, <1>10, <1>11
<1>13. start % NodeAlign = 0 /\ start % l.align = 0
  BY <1>3, <1>4, <1>11, AlignedFor DEF NodeAlign
<1>14. (start + sa.size) % NodeAlign = 0
  <2>1. \A x, y \in Nat : x % 8 = 0 /\ y % 8 = 0 => (x + y) % 8 = 0
    OBVIOUS
  <2> QED
    BY <1>4, <1>11, <1>13, <2>1 DEF NodeAlign
<1>15. B \in ListBlocks /\ B.addr = start /\ B.size = l.size /\ B.align = l.align /\ Padded(B) = P
  BY <1>5, <1>11 DEF ListBlocks, Padded
<1>16. P \in Span /\ P.addr = start /\ P.size = sa.size
       /\ N \in Span /\ N.addr = start + sa.size /\ N.size = ex
  BY <1>4, <1>11, <1>12 DEF Span
<1> HIDE DEF P, N, B
<1>17. \A b \in used : Padded(b) \in Span /\ Padded(b).addr = b.addr /\ Padded(b).size > 0
  <2> TAKE b \in used
  <2>1. Padded(b) \in Span /\ Padded(b).addr = b.addr /\ Padded(b).size >= NodeSize
    BY <1>1, BlockFits
  <2> QED
    BY <2>1 DEF NodeSize, Span
<1>18. ASSUME NEW q \in Span, Apart(r, q)
       PROVE  Apart(P, q) /\ Apart(q, P) /\ Apart(N, q) /\ Apart(q, N)
  <2>1. r.addr <= P.addr /\ P.addr + P.size <= r.addr + r.size
    BY <1>10, <1>11, <1>16
  <2>2. r.addr <= N.addr /\ N.addr + N.size <= r.addr + r.size
    BY <1>4, <1>9, <1>10, <1>11, <1>12, <1>16
  <2> QED
    BY <1>8, <1>16, <1>18, <2>1, <2>2, PartApart
<1>19. Apart(P, N) /\ Apart(N, P)
  BY <1>4, <1>11, <1>12, <1>16 DEF Apart
<1>20. \A q \in Elems(free) : q # r => Apart(r, q)
  BY <1>8 DEF ListInv
<1>21. \A b \in used : Apart(r, Padded(b))
  BY <1>8 DEF ListInv
<1>22. B \notin used
  <2> SUFFICES ASSUME B \in used PROVE FALSE
    OBVIOUS
  <2>1. Apart(P, P)
    BY <1>15, <1>16, <1>18, <1>21
  <2> QED
    BY <1>4, <1>11, <1>16, <2>1 DEF Apart, NodeSize
<1>23. ex # 0 => N \notin Elems(rest)
  <2> SUFFICES ASSUME ex # 0, N \in Elems(rest) PROVE FALSE
    OBVIOUS
  <2>1. Apart(N, N)
    BY <1>8, <1>16, <1>18, <1>20
  <2> QED
    BY <1>12, <1>16, <2>1 DEF Apart
<1>24. /\ free' \in Seq(Span) /\ Distinct(free')
       /\ Elems(free') = IF ex = 0 THEN Elems(free) \ {r} ELSE (Elems(free) \ {r}) \cup {N}
  <2>1. CASE ex = 0
    BY <1>6, <1>8, <2>1
  <2>2. CASE ex # 0
    <3>1. free' = AddFreeRegion(start + sa.size, ex, rest)
      BY <1>6, <2>2
    <3>2. [addr |-> start + sa.size, size |-> ex] \notin Elems(rest)
      BY <1>23, <2>2 DEF N
    <3>3. /\ free' \in Seq(Span) /\ Distinct(free')
          /\ Elems(free') = Elems(rest) \cup {[addr |-> start + sa.size, size |-> ex]}
      BY <1>8, <1>12, <3>1, <3>2, RegionAdded
    <3> QED
      BY <1>8, <2>2, <3>3 DEF N
  <2> QED
    BY <2>1, <2>2
<1> DEFINE E == Elems(free)
           F == Elems(free')
<1>25. \A q \in F : (q \in E /\ q # r) \/ (q = N /\ ex # 0)
  BY <1>24
<1>26. /\ \A q \in E : q # r => q \in F
       /\ ex # 0 => N \in F
  BY <1>24
<1>27. F \subseteq Span
  BY <1>2, <1>16, <1>25
<1> HIDE DEF E, F
<1>28. used' \subseteq ListBlocks /\ gaps' \subseteq Nat
  <2>1. r.addr .. start - 1 \subseteq Nat
    BY <1>9, <1>11
  <2> QED
    BY <1>1, <1>6, <1>15, <2>1, Zenon
<1>29. \A q \in F : q.addr % NodeAlign = 0 /\ q.size >= NodeSize /\ q.addr + q.size <= ListHeapSize
  <2> TAKE q \in F
  <2>1. CASE q \in E
    BY <2>1 DEF ListInv, E
  <2>2. CASE q = N /\ ex # 0
    BY <1>4, <1>9, <1>10, <1>11, <1>14, <1>16, <2>2, ListAssumption
  <2> QED
    BY <1>25, <2>1, <2>2
<1>30. \A b \in used' : /\ b.addr % NodeAlign = 0 /\ b.addr % b.align = 0
                        /\ b.addr + Padded(b).size <= ListHeapSize
  <2> TAKE b \in used'
  <2>1. CASE b \in used
    BY <2>1 DEF ListInv
  <2>2. CASE b = B
    BY <1>4, <1>9, <1>10, <1>11, <1>13, <1>15, <1>16, <2>2, ListAssumption, SMTT(30)
  <2> QED
    BY <1>6, <2>1, <2>2
<1>31. \A p, q \in F : p = q \/ Apart(p, q)
  <2> SUFFICES ASSUME NEW p \in F, NEW q \in F, p # q PROVE Apart(p, q)
    OBVIOUS
  <2>1. CASE p \in E /\ q \in E
    BY <2>1 DEF ListInv, E
  <2>2. CASE p = N /\ q \in E /\ q # r
    BY <1>2, <1>18, <1>20, <2>2 DEF E
  <2>3. CASE q = N /\ p \in E /\ p # r
    BY <1>2, <1>18, <1>20, <2>3 DEF E
  <2> QED
    BY <1>25, <2>1, <2>2, <2>3
<1>32. \A b, c \in used' : b = c \/ Apart(Padded(b), Padded(c))
  <2> SUFFICES ASSUME NEW b \in used', NEW c \in used', b # c PROVE Apart(Padded(b), Padded(c))
    OBVIOUS
  <2>1. CASE b \in used /\ c \in used
    BY <2>1 DEF ListInv
  <2>2. CASE b = B /\ c \in used
    BY <1>15, <1>17, <1>18, <1>21, <2>2
  <2>3. CASE c = B /\ b \in used
    BY <1>15, <1>17, <1>18, <1>21, <2>3
  <2> QED
    BY <1>6, <2>1, <2>2, <2>3
<1>33. \A q \in F, b \in used' : Apart(q, Padded(b))
  <2> SUFFICES ASSUME NEW q \in F, NEW b \in used' PROVE Apart(q, Padded(b))
    OBVIOUS
  <2>1. CASE q \in E /\ b \in used
    BY <2>1 DEF ListInv, E
  <2>2. CASE q = N /\ b \in used
    BY <1>17, <1>18, <1>21, <2>2
  <2>3. CASE q \in E /\ q # r /\ b = B
    BY <1>2, <1>15, <1>18, <1>20, <2>3 DEF E
  <2>4. CASE q = N /\ b = B
    BY <1>15, <1>19, <2>4
  <2> QED
    BY <1>6, <1>25, <2>1, <2>2, <2>3, <2>4
<1>34. \A x \in gaps' : /\ \A q \in F : ~ Within(x, q)
                       /\ \A b \in used' : ~ Within(x, Padded(b))
  <2> SUFFICES ASSUME NEW x \in gaps'
               PROVE  /\ \A q \in F : ~ Within(x, q)
                      /\ \A b \in used' : ~ Within(x, Padded(b))
    OBVIOUS
  <2>1. x \in Nat
    BY <1>28
  <2>2. CASE x \in gaps
    <3>1. ~ Within(x, r) /\ (\A q \in E : ~ Within(x, q)) /\ \A b \in used : ~ Within(x, Padded(b))
      BY <1>8, <2>2 DEF ListInv, E
    <3>2. ~ Within(x, N) /\ ~ Within(x, P)
      BY <1>4, <1>9, <1>10, <1>11, <1>12, <1>16, <2>1, <3>1, SMTT(30) DEF Within
    <3> QED
      BY <1>6, <1>15, <1>25, <3>1, <3>2
  <2>3. CASE x \in r.addr .. start - 1
    <3>1. Within(x, r)
      BY <1>4, <1>9, <1>10, <1>11, <2>1, <2>3 DEF Within
    <3>2. ~ Within(x, N) /\ ~ Within(x, P)
      BY <1>4, <1>9, <1>11, <1>16, <2>1, <2>3, SMTT(30) DEF Within
    <3>3. \A q \in E : q # r => ~ Within(x, q)
      BY <1>2, <1>8, <1>20, <2>1, <3>1, ApartBytes, SMTT(30) DEF E
    <3>4. \A b \in used : ~ Within(x, Padded(b))
      BY <1>8, <1>17, <1>21, <2>1, <3>1, ApartBytes, SMTT(30)
    <3> QED
      BY <1>6, <1>15, <1>25, <3>2, <3>3, <3>4
  <2> QED
    BY <1>6, <2>2, <2>3
<1>35. \A x \in 0 .. ListHeapSize - 1 :
         \/ x \in gaps'
         \/ \E q \in F : Within(x, q)
         \/ \E b \in used' : Within(x, Padded(b))
  <2> SUFFICES ASSUME NEW x \in 0 .. ListHeapSize - 1
               PROVE  \/ x \in gaps'
                      \/ \E q \in F : Within(x, q)
                      \/ \E b \in used' : Within(x, Padded(b))
    OBVIOUS
  <2>1. x \in Nat
    BY ListAssumption
  <2>2. CASE x \in gaps
    BY <1>6, <2>2
  <2>3. CASE \E b \in used : Within(x, Padded(b))
    BY <1>6, <2>3
  <2>4. CASE \E q \in E : q # r /\ Within(x, q)
    BY <1>26, <2>4
  <2>5. CASE Within(x, r)
    <3>1. r.addr <= x /\ x < r.addr + r.size
      BY <2>5 DEF Within
    <3>2. CASE x < start
      BY <1>6, <1>9, <1>11, <2>1, <3>1, <3>2, SMTT(30)
    <3>3. CASE start <= x /\ x < start + sa.size
      <4>1. Within(x, P)
        BY <1>16, <3>3 DEF Within
      <4> QED
        BY <1>6, <1>15, <4>1
    <3>4. CASE start + sa.size <= x
      <4>1. ex # 0 /\ Within(x, N)
        BY <1>9, <1>10, <1>12, <1>16, <2>1, <3>1, <3>4, SMTT(30) DEF Within
      <4> QED
        BY <1>26, <4>1
    <3> QED
      BY <1>4, <1>11, <2>1, <3>2, <3>3, <3>4
  <2> QED
    BY <2>2, <2>3, <2>4, <2>5 DEF ListInv, E
<1>36. ListInv'
  BY <1>24, <1>28, <1>29, <1>30, <1>31, <1>32, <1>33, <1>34, <1>35, SMTT(30) DEF ListInv, F
<1> QED
  BY <1>6, <1>22, <1>36

\* dealloc: the padded block becomes a region.
LEMMA ListDeallocInv ==
  ASSUME ListInv, NEW b \in used, ListDealloc(b)
  PROVE  ListInv'
<1> DEFINE P == Padded(b)
           E == Elems(free)
           F == Elems(free')
<1>1. free \in Seq(Span) /\ Distinct(free) /\ used \subseteq ListBlocks /\ gaps \subseteq Nat
  BY DEF ListInv
<1>2. E \subseteq Span
  BY <1>1, ElementOfSeq, LenProperties, Zenon DEF Elems
<1>3. /\ b.addr \in Nat /\ P \in Span /\ P.addr = b.addr /\ P.size = SizeAlign(b).size
      /\ P.size >= NodeSize
  BY <1>1, BlockFits
<1>4. free' = AddFreeRegion(b.addr, P.size, free) /\ used' = used \ {b} /\ gaps' = gaps
  BY <1>3 DEF ListDealloc
<1>5. P = [addr |-> b.addr, size |-> P.size]
  BY DEF Padded
<1> HIDE DEF P
<1>6. P \notin E
  <2> SUFFICES ASSUME P \in E PROVE FALSE
    OBVIOUS
  <2>1. Apart(P, P)
    BY DEF ListInv, P
  <2> QED
    BY <1>3, <2>1 DEF Apart, Span, NodeSize
<1>7. free' \in Seq(Span) /\ Distinct(free') /\ F = E \cup {P}
  <2> DEFINE n == P.size
  <2>1. n \in Nat /\ P = [addr |-> b.addr, size |-> n] /\ free' = AddFreeRegion(b.addr, n, free)
    BY <1>3, <1>4, <1>5 DEF Span
  <2> HIDE DEF n
  <2>2. [addr |-> b.addr, size |-> n] \notin Elems(free)
    BY <1>6, <2>1
  <2> QED
    BY <1>1, <1>3, <2>1, <2>2, RegionAdded, SMTT(30)
<1> HIDE DEF E, F
<1>8. \A q \in F : q.addr % NodeAlign = 0 /\ q.size >= NodeSize /\ q.addr + q.size <= ListHeapSize
  BY <1>3, <1>7 DEF ListInv, E, P
<1>9. \A p, q \in F : p = q \/ Apart(p, q)
  <2>1. \A q \in E : Apart(q, P) /\ Apart(P, q)
    <3> TAKE q \in E
    <3>1. Apart(q, P)
      BY DEF ListInv, E, P
    <3> QED
      BY <3>1 DEF Apart
  <2> QED
    BY <1>7, <2>1 DEF ListInv, E
<1>10. \A q \in F, c \in used' : Apart(q, Padded(c))
  <2> SUFFICES ASSUME NEW q \in F, NEW c \in used' PROVE Apart(q, Padded(c))
    OBVIOUS
  <2>1. CASE q \in E
    BY <1>4, <2>1 DEF ListInv, E
  <2>2. CASE q = P
    BY <1>4, <2>2 DEF ListInv, P
  <2> QED
    BY <1>7, <2>1, <2>2
<1>11. \A x \in gaps : /\ \A q \in F : ~ Within(x, q)
                      /\ \A c \in used' : ~ Within(x, Padded(c))
  BY <1>4, <1>7 DEF ListInv, E, P
<1>12. \A x \in 0 .. ListHeapSize - 1 :
         \/ x \in gaps
         \/ \E q \in F : Within(x, q)
         \/ \E c \in used' : Within(x, Padded(c))
  <2> SUFFICES ASSUME NEW x \in 0 .. ListHeapSize - 1, x \notin gaps, ~ \E q \in F : Within(x, q)
               PROVE  \E c \in used' : Within(x, Padded(c))
    OBVIOUS
  <2>1. ~ Within(x, P) /\ ~ \E q \in E : Within(x, q)
    BY <1>7
  <2>2. PICK c \in used : Within(x, Padded(c))
    BY <2>1 DEF ListInv, E
  <2> QED
    BY <1>4, <2>1, <2>2 DEF P
<1>13. \A c \in used' : /\ c.addr % NodeAlign = 0 /\ c.addr % c.align = 0
                        /\ c.addr + Padded(c).size <= ListHeapSize
  BY <1>4 DEF ListInv
<1>14. \A c, d \in used' : c = d \/ Apart(Padded(c), Padded(d))
  BY <1>4 DEF ListInv
<1>15. used' \subseteq ListBlocks
  BY <1>1, <1>4
<1> QED
  BY <1>1, <1>4, <1>7, <1>8, <1>9, <1>10, <1>11, <1>12, <1>13, <1>14, <1>15, SMTT(30) DEF ListInv, F

\* A heap that is one region satisfies the invariant.
LEMMA ListInitInv == ListInit => ListInv
<1> SUFFICES ASSUME ListInit PROVE ListInv
  OBVIOUS
<1> DEFINE r == [addr |-> 0, size |-> ListHeapSize]
<1>1. free = AddFreeRegion(0, ListHeapSize, <<>>) /\ used = {} /\ gaps = {}
  BY DEF ListInit
<1>2. <<>> \in Seq(Span) /\ Distinct(<<>>) /\ Elems(<<>>) = {}
  BY EmptySeq DEF Distinct, Elems
<1>3. ListHeapSize \in Nat /\ ListHeapSize >= NodeSize
  BY ListAssumption
<1>4. free \in Seq(Span) /\ Distinct(free) /\ Elems(free) = {r}
  <2> DEFINE e == <<>>
  <2>1. e \in Seq(Span) /\ Distinct(e) /\ Elems(e) = {} /\ free = AddFreeRegion(0, ListHeapSize, e)
    BY <1>1, <1>2
  <2> HIDE DEF e
  <2>2. r \notin Elems(e) /\ 0 \in Nat
    BY <2>1
  <2>3. free \in Seq(Span) /\ Distinct(free) /\ Elems(free) = Elems(e) \cup {r}
    BY <1>3, <2>1, <2>2, RegionAdded, Zenon
  <2> QED
    BY <2>1, <2>3
<1>5. r.addr = 0 /\ r.size = ListHeapSize
  OBVIOUS
<1> HIDE DEF r
<1>6. \A x \in 0 .. ListHeapSize - 1 : Within(x, r)
  BY <1>3, <1>5 DEF Within
<1>7. r.addr % NodeAlign = 0 /\ r.addr + r.size <= ListHeapSize
  BY <1>3, <1>5 DEF NodeAlign
<1> QED
  BY <1>1, <1>3, <1>4, <1>5, <1>6, <1>7 DEF ListInv

\* Blocks in use are inside the heap, aligned, and apart.
UsedOk ==
  \A b \in used : /\ b.addr + b.size <= ListHeapSize
                  /\ b.addr % b.align = 0
                  /\ \A c \in used : c # b => Apart(b, c)

\* Their padding sees to that.
LEMMA UsedApart == ListInv => UsedOk
<1> SUFFICES ASSUME ListInv, NEW b \in used
             PROVE  /\ b.addr + b.size <= ListHeapSize
                    /\ b.addr % b.align = 0
                    /\ \A c \in used : c # b => Apart(b, c)
  BY DEF UsedOk
<1>1. \A c \in used : /\ c.addr \in Nat /\ c.size \in Nat /\ Padded(c).size \in Nat
                     /\ Padded(c).addr = c.addr /\ Padded(c).size >= c.size
  BY BlockFits DEF ListInv, Span
<1>2. b.addr + Padded(b).size <= ListHeapSize /\ b.addr % b.align = 0
  BY DEF ListInv
<1>3. b.addr + b.size <= ListHeapSize
  BY <1>1, <1>2, ListAssumption
<1>4. ASSUME NEW c \in used, c # b PROVE Apart(b, c)
  <2>1. Apart(Padded(b), Padded(c))
    BY <1>4 DEF ListInv
  <2> QED
    BY <1>1, <2>1 DEF Apart
<1> QED
  BY <1>2, <1>3, <1>4

\* A step keeps the invariant and is a step of the abstract heap, or none.
LEMMA ListStepInv ==
  ListInv /\ [ListNext]_listvars => ListInv' /\ [ListHeap!Next]_used
<1> SUFFICES ASSUME ListInv, [ListNext]_listvars PROVE ListInv' /\ [ListHeap!Next]_used
  OBVIOUS
<1>1. ASSUME NEW l \in ListLayouts, ListAlloc(l)
      PROVE  ListInv' /\ ListHeap!Next
  <2>1. ListInv' /\ \E b \in used' \ used : used' = used \cup {b}
    BY <1>1, ListAllocInv
  <2>2. PICK b \in used' \ used : used' = used \cup {b}
    BY <2>1
  <2>3. UsedOk'
    BY <2>1, UsedApart, PTL
  <2>4. ListHeap!Alloc
    BY <2>2, <2>3 DEF ListHeap!Alloc, ListHeap!Disjoint, UsedOk, Apart
  <2> QED
    BY <2>1, <2>4 DEF ListHeap!Next
<1>2. ASSUME NEW b \in used, ListDealloc(b)
      PROVE  ListInv' /\ ListHeap!Next
  <2>1. ListInv'
    BY <1>2, ListDeallocInv
  <2>2. ListHeap!Dealloc
    BY <1>2 DEF ListDealloc, ListHeap!Dealloc
  <2> QED
    BY <2>1, <2>2 DEF ListHeap!Next
<1>3. CASE UNCHANGED listvars
  BY <1>3, Zenon DEF listvars, ListInv
<1> QED
  BY <1>1, <1>2, <1>3 DEF ListNext

-----------------------------------------------------------------------------
\* LinkedListAllocator and FixedSizeBlockAllocator: no byte and no block is lost or
\* has two owners, whatever the heaps' sizes, the layouts asked for and the
\* classes, and the assertions of add_free_region never fail.
THEOREM NothingLost == ListSpec /\ BlocksSpec => []NoMemoryLost
<1>1. ListInit => ListInv
  BY ListInitInv
<1>2. ListInv /\ [ListNext]_listvars => ListInv'
  BY ListStepInv
<1>3. BlocksInit => BlocksInv
  BY BlocksInitInv
<1>4. BlocksInv /\ [BlocksNext]_blockvars => BlocksInv'
  BY BlocksStepInv
<1>5. ListInv /\ BlocksInv => NoMemoryLost
  BY OneOwner, OnceFromInv DEF NoMemoryLost
<1> QED
  BY <1>1, <1>2, <1>3, <1>4, <1>5, PTL DEF ListSpec, BlocksSpec

\* Both keep a GlobalAlloc's promises, FixedSizeBlockAllocator with any number of
\* reallocs half done.
THEOREM AllocatorsAreHeaps == ListSpec /\ BlocksSpec => AllocatorsImplementHeap
<1>1. ListInit => ListHeap!Init
  BY DEF ListInit, ListHeap!Init
<1>2. ListInit => ListInv
  BY ListInitInv
<1>3. ListInv /\ [ListNext]_listvars => ListInv' /\ [ListHeap!Next]_used
  BY ListStepInv
<1>4. BlocksInit => BlockHeap!Init
  BY DEF BlocksInit, BlockHeap!Init
<1>5. BlocksInit => BlocksInv
  BY BlocksInitInv
<1>6. BlocksInv /\ [BlocksNext]_blockvars => BlocksInv' /\ [BlockHeap!Next]_owned
  BY BlocksStepInv
<1> QED
  BY <1>1, <1>2, <1>3, <1>4, <1>5, <1>6, PTL
  DEF ListSpec, BlocksSpec, AllocatorsImplementHeap, ListImplementsHeap, BlocksImplementHeap,
      ListHeap!Spec, BlockHeap!Spec
=============================================================================
