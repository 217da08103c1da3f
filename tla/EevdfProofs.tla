---------------------------- MODULE EevdfProofs ----------------------------
(***************************************************************************)
(* EEVDF is a scheduler and always has an eligible thread to pick, for any *)
(* number of threads and any weights; and threads of one weight share the  *)
(* processor in turns.                                                     *)
(***************************************************************************)
EXTENDS EevdfShare, SequenceTheorems, WellFoundedInduction, TLAPS

-----------------------------------------------------------------------------
(* Sets of numbers.                                                        *)

\* A set of numbers with 0, closed under successor, has them all: induction on a
\* set, which stands for the property.
LEMMA SetInduction ==
  ASSUME NEW P, 0 \in P, \A k \in Nat : k \in P => k + 1 \in P
  PROVE  \A k \in Nat : k \in P
<1> SUFFICES ASSUME Nat \ P # {} PROVE FALSE
  OBVIOUS
<1> DEFINE T == Nat \ P
           R == {ss \in Nat \X Nat : ss[1] < ss[2]}
<1>1. IsWellFoundedOn(R, Nat)
  BY NatLessThanWellFounded DEF OpToRel
<1>2. T \subseteq Nat /\ T # {}
  OBVIOUS
<1> HIDE DEF T, R
<1>3. PICK x \in T : \A y \in T : ~(<<y, x>> \in R)
  BY <1>1, <1>2, WFMin
<1>4. \A y \in T : ~(y < x)
  BY <1>2, <1>3 DEF R
<1>5. x \in Nat /\ x # 0 /\ x - 1 \in Nat /\ x - 1 \notin T
  BY <1>2, <1>4 DEF T
<1> QED
  BY <1>2, <1>5 DEF T

\* A set of numbers that is not empty has a least one.
LEMMA MinExists ==
  ASSUME NEW S \in SUBSET Nat, S # {}
  PROVE  Min(S) \in S /\ \A y \in S : Min(S) <= y
<1> DEFINE R == {ss \in Nat \X Nat : ss[1] < ss[2]}
<1>1. IsWellFoundedOn(R, Nat)
  BY NatLessThanWellFounded DEF OpToRel
<1> HIDE DEF R
<1>2. PICK x \in S : \A y \in S : ~(<<y, x>> \in R)
  BY <1>1, WFMin
<1>3. \A y \in S : ~(y < x)
  <2> TAKE y \in S
  <2>1. y \in Nat /\ x \in Nat /\ ~(<<y, x>> \in R)
    BY <1>2
  <2> QED
    BY <2>1 DEF R
<1>4. \A y \in S : x <= y
  BY <1>3
<1> QED
  BY <1>4 DEF Min

\* It is the only one.
LEMMA MinIs ==
  ASSUME NEW S \in SUBSET Nat, NEW x \in S, \A y \in S : x <= y
  PROVE  Min(S) = x
<1>1. Min(S) \in S /\ Min(S) <= x
  BY MinExists
<1>2. Min(S) \in Nat /\ x \in Nat /\ x <= Min(S)
  BY <1>1
<1> QED
  BY <1>1, <1>2

\* max(a, 1).
LEMMA MaxOne ==
  ASSUME NEW a \in Nat
  PROVE  Max({a, 1}) = IF a >= 1 THEN a ELSE 1
<1> DEFINE x == IF a >= 1 THEN a ELSE 1
<1>1. x \in {a, 1} /\ \A y \in {a, 1} : x >= y
  OBVIOUS
<1>2. Max({a, 1}) \in {a, 1} /\ \A y \in {a, 1} : Max({a, 1}) >= y
  BY <1>1 DEF Max
<1> QED
  BY <1>2

\* A division of numbers.
LEMMA Quotient ==
  ASSUME NEW a \in Nat, NEW b \in Nat \ {0}
  PROVE  a \div b \in Nat
BY SMTT(30)

-----------------------------------------------------------------------------
(* The sum of the weights.                                                 *)

ThreadMeta == [vruntime : Nat, weight : Nat \ {0}, blocked : BOOLEAN]

\* s holds the sums of the weights of the threads up to each of the first k.
Sums(m, k, s) ==
  s = [i \in 0 .. k |->
         IF i = 0 THEN 0 ELSE s[i - 1] + IF m[i].blocked THEN 0 ELSE m[i].weight]

\* There are such sums, and they are numbers.
LEMMA SumsExist ==
  ASSUME NEW m \in Seq(ThreadMeta), NEW k \in 0 .. Len(m)
  PROVE  \E s \in [0 .. k -> Nat] : Sums(m, k, s)
<1> DEFINE P == {n \in Nat : n <= Len(m) => \E s \in [0 .. n -> Nat] : Sums(m, n, s)}
<1>1. 0 \in P
  <2> DEFINE s == [i \in 0 .. 0 |-> 0]
  <2>1. s \in [0 .. 0 -> Nat] /\ Sums(m, 0, s)
    BY DEF Sums
  <2> QED
    BY <2>1
<1>2. ASSUME NEW n \in Nat, n \in P PROVE n + 1 \in P
  <2> SUFFICES ASSUME n + 1 <= Len(m) PROVE \E s \in [0 .. n + 1 -> Nat] : Sums(m, n + 1, s)
    OBVIOUS
  <2>1. Len(m) \in Nat /\ m[n + 1] \in ThreadMeta
    BY LenProperties, ElementOfSeq
  <2>2. PICK s \in [0 .. n -> Nat] : Sums(m, n, s)
    BY <1>2, <2>1
  <2> DEFINE x == IF m[n + 1].blocked THEN 0 ELSE m[n + 1].weight
             r == [i \in 0 .. n + 1 |-> IF i = n + 1 THEN s[n] + x ELSE s[i]]
  <2>3. x \in Nat
    BY <2>1 DEF ThreadMeta
  <2>4. r \in [0 .. n + 1 -> Nat]
    BY <2>3
  <2>5. Sums(m, n + 1, r)
    BY <2>2, <2>3 DEF Sums
  <2> QED
    BY <2>4, <2>5
<1> HIDE DEF P
<1>3. \A n \in Nat : n \in P
  BY <1>1, <1>2, SetInduction
<1>4. k \in Nat /\ k <= Len(m)
  BY LenProperties
<1> QED
  BY <1>3, <1>4 DEF P

\* SumWeights is the last of them.
LEMMA SumOf ==
  ASSUME NEW m, \E s : Sums(m, Len(m), s)
  PROVE  \E s : Sums(m, Len(m), s) /\ SumWeights(m) = s[Len(m)]
BY DEF SumWeights, Sums

\* So it is a number.
LEMMA SumNat ==
  ASSUME NEW m \in Seq(ThreadMeta)
  PROVE  SumWeights(m) \in Nat
<1>1. Len(m) \in Nat /\ Len(m) \in 0 .. Len(m)
  BY LenProperties
<1>2. \E s \in [0 .. Len(m) -> Nat] : Sums(m, Len(m), s)
  BY <1>1, SumsExist
<1>3. PICK s : Sums(m, Len(m), s) /\ SumWeights(m) = s[Len(m)]
  BY <1>2, SumOf
<1> DEFINE P == {k \in Nat : k <= Len(m) => s[k] \in Nat}
<1>4. 0 \in P
  BY <1>1, <1>3 DEF Sums
<1>5. ASSUME NEW k \in Nat, k \in P PROVE k + 1 \in P
  <2> SUFFICES ASSUME k + 1 <= Len(m) PROVE s[k + 1] \in Nat
    OBVIOUS
  <2>1. m[k + 1] \in ThreadMeta
    BY <1>1, ElementOfSeq
  <2>2. s[k + 1] = s[k] + IF m[k + 1].blocked THEN 0 ELSE m[k + 1].weight
    BY <1>1, <1>3 DEF Sums
  <2> QED
    BY <1>1, <1>5, <2>1, <2>2 DEF ThreadMeta
<1> HIDE DEF P
<1>6. \A k \in Nat : k \in P
  BY <1>4, <1>5, SetInduction
<1> QED
  BY <1>1, <1>3, <1>6 DEF P

-----------------------------------------------------------------------------
(* What tick_prepare does to the threads, and which it picks.              *)

\* m and r are the same threads, whatever their vruntimes.
SameThreads(m, r) ==
  /\ Len(r) = Len(m)
  /\ \A i \in 1 .. Len(m) : r[i].blocked = m[i].blocked /\ r[i].weight = m[i].weight

\* The slice a thread is charged for is a number.
LEMMA SliceNat ==
  ASSUME NEW now \in Nat, lastSwitchTick \in Nat
  PROVE  TimeSlice(now) \in Nat
BY MaxOne DEF TimeSlice, SaturatingSub, MIN_TIME_SLICE

\* Charging changes the vruntime of the thread that ran and nothing else.
LEMMA Charged ==
  ASSUME NEW m \in Seq(ThreadMeta), NEW now \in Nat, lastSwitchTick \in Nat,
         current \in 0 .. Len(m)
  PROVE  Charge(m, now) \in Seq(ThreadMeta) /\ SameThreads(m, Charge(m, now))
<1>1. Len(m) \in Nat
  BY LenProperties
<1>2. CASE current = 0 \/ SumWeights(m) = 0
  BY <1>2 DEF Charge, SameThreads
<1>3. CASE current # 0 /\ SumWeights(m) # 0
  <2> DEFINE x == TimeSlice(now) * m[current].weight * Scale
             q == x \div SumWeights(m)
             v == m[current].vruntime + q
             e == [m[current] EXCEPT !.vruntime = v]
  <2>1. m[current] \in ThreadMeta
    BY <1>1, <1>3, ElementOfSeq
  <2>2. TimeSlice(now) \in Nat /\ m[current].weight \in Nat /\ m[current].vruntime \in Nat
    BY <2>1, SliceNat DEF ThreadMeta
  <2>3. TimeSlice(now) * m[current].weight \in Nat
    BY <2>2, SMTT(30)
  <2>4. x \in Nat
    BY <2>3 DEF Scale
  <2> HIDE DEF x
  <2>5. q \in Nat
    BY <1>3, <2>4, SumNat, Quotient
  <2> HIDE DEF q
  <2>6. v \in Nat
    BY <2>2, <2>5
  <2>7. Charge(m, now) = [m EXCEPT ![current] = e]
    BY <1>3 DEF Charge, x, q
  <2> HIDE DEF v
  <2>8. e \in ThreadMeta /\ e.blocked = m[current].blocked /\ e.weight = m[current].weight
    BY <2>1, <2>6 DEF ThreadMeta
  <2> HIDE DEF e
  <2>9. current \in 1 .. Len(m)
    BY <1>1, <1>3
  <2>10. /\ Charge(m, now) \in Seq(ThreadMeta)
         /\ Len(Charge(m, now)) = Len(m)
         /\ \A i \in 1 .. Len(m) : Charge(m, now)[i] = IF i = current THEN e ELSE m[i]
    BY <2>7, <2>8, <2>9, ExceptSeq
  <2> QED
    BY <2>8, <2>10 DEF SameThreads
<1> QED
  BY <1>2, <1>3

\* The same threads, with the same ones blocked.
LEMMA SameUnblocked ==
  ASSUME NEW m \in Seq(ThreadMeta), NEW r \in Seq(ThreadMeta), SameThreads(m, r)
  PROVE  DOMAIN r = DOMAIN m /\ Unblocked(r) = Unblocked(m)
<1>1. DOMAIN m = 1 .. Len(m) /\ DOMAIN r = 1 .. Len(m)
  BY LenProperties DEF SameThreads
<1> QED
  BY <1>1 DEF SameThreads, Unblocked

\* Over numbers, a measure has a least value.
LEMMA LeastOf ==
  ASSUME NEW S, S # {}, NEW f \in [S -> Nat]
  PROVE  \E x \in S : \A y \in S : f[x] <= f[y]
<1> DEFINE V == {f[x] : x \in S}
<1>1. V \in SUBSET Nat /\ V # {}
  OBVIOUS
<1> HIDE DEF V
<1>2. Min(V) \in V /\ \A y \in V : Min(V) <= y
  BY <1>1, MinExists
<1> QED
  BY <1>2 DEF V

\* The thread with the least vruntime is eligible.
LEMMA SomeEligible ==
  ASSUME NEW m \in Seq(ThreadMeta), Unblocked(m) # {}
  PROVE  Eligible(m) # {}
<1> DEFINE V == {m[i].vruntime : i \in Unblocked(m)}
<1>1. \A i \in Unblocked(m) : m[i].vruntime \in Nat
  <2> TAKE i \in Unblocked(m)
  <2>1. i \in 1 .. Len(m)
    BY LenProperties DEF Unblocked
  <2>2. m[i] \in ThreadMeta
    BY <2>1, ElementOfSeq
  <2> QED
    BY <2>2 DEF ThreadMeta
<1>2. V \in SUBSET Nat /\ V # {}
  BY <1>1
<1>3. MinVruntime(m) = Min(V)
  BY DEF MinVruntime
<1> HIDE DEF V
<1>4. Min(V) \in V
  BY <1>2, MinExists
<1>5. PICK i \in Unblocked(m) : m[i].vruntime = Min(V)
  BY <1>4 DEF V
<1>6. LagTolerance(m) \in Nat
  BY SumNat, MaxOne DEF LagTolerance
<1>7. m[i].vruntime <= MinVruntime(m) + LagTolerance(m)
  BY <1>1, <1>3, <1>5, <1>6
<1> QED
  BY <1>7 DEF Eligible

\* tick_prepare picks an eligible thread whenever one can run.
LEMMA PickIsEligible ==
  ASSUME NEW m \in Seq(ThreadMeta), NEW slice \in Nat, Unblocked(m) # {}
  PROVE  NextIdx(m, slice) \in Eligible(m)
<1> DEFINE sum == SumWeights(m)
           f == [i \in Eligible(m) |-> VirtualDeadline(m[i], slice, sum)]
           S == {i \in Eligible(m) : \A j \in Eligible(m) : f[i] <= f[j]}
<1>1. Eligible(m) \subseteq 1 .. Len(m) /\ Eligible(m) # {}
  BY SomeEligible, LenProperties DEF Eligible, Unblocked
<1>2. ASSUME NEW i \in Eligible(m) PROVE VirtualDeadline(m[i], slice, sum) \in Nat
  <2>1. m[i] \in ThreadMeta
    BY <1>1, ElementOfSeq
  <2>2. m[i].vruntime \in Nat /\ m[i].weight \in Nat \ {0}
    BY <2>1 DEF ThreadMeta
  <2>3. slice * sum \in Nat
    BY SumNat, SMTT(30)
  <2>4. slice * sum * Scale \in Nat
    BY <2>3 DEF Scale
  <2>5. (slice * sum * Scale) \div m[i].weight \in Nat
    BY <2>2, <2>4, Quotient
  <2> QED
    BY <2>2, <2>5 DEF VirtualDeadline
<1>3. f \in [Eligible(m) -> Nat]
  BY <1>2
<1>4. \A i \in Eligible(m) : f[i] = VirtualDeadline(m[i], slice, sum)
  OBVIOUS
<1>5. NextIdx(m, slice) = Min(S)
  BY <1>1 DEF NextIdx
<1> HIDE DEF f
<1>6. S # {}
  BY <1>1, <1>3, LeastOf
<1>7. S \in SUBSET Nat /\ S \subseteq Eligible(m)
  BY <1>1
<1> HIDE DEF S
<1>8. Min(S) \in S
  BY <1>6, <1>7, MinExists
<1> QED
  BY <1>5, <1>7, <1>8

-----------------------------------------------------------------------------
(* EEVDF is a scheduler.                                                   *)

TypeOK ==
  /\ metadata \in Seq(ThreadMeta)
  /\ Len(metadata) <= MaxThreads
  /\ current \in 0 .. Len(metadata)
  /\ minVruntime \in Nat
  /\ lastSwitchTick \in Nat
  /\ tick \in Nat

\* A call of tick_prepare with the threads as in m, which differ from metadata
\* at most in who is blocked.
LEMMA Prepared ==
  ASSUME TypeOK, NEW m \in Seq(ThreadMeta), Len(m) = Len(metadata),
         NEW now \in Nat, TickPrepare(m, now)
  PROVE  /\ metadata' \in Seq(ThreadMeta)
         /\ Len(metadata') = Len(metadata)
         /\ current' \in 0 .. Len(metadata')
         /\ minVruntime' \in Nat
         /\ lastSwitchTick' \in Nat
         /\ DOMAIN metadata' = DOMAIN metadata
         /\ Unblocked(metadata') = Unblocked(m)
         /\ Unblocked(m) = {} => current' = current
         /\ Unblocked(m) # {} =>
              current' \in Unblocked(m) /\ (current \in Eligible(metadata))'
<1> DEFINE charged == Charge(m, now)
           slice == TimeSlice(now)
<1>1. Len(m) \in Nat /\ current \in 0 .. Len(m) /\ lastSwitchTick \in Nat /\ minVruntime \in Nat
  BY LenProperties DEF TypeOK
<1>2. slice \in Nat
  BY <1>1, SliceNat
<1>3. charged \in Seq(ThreadMeta) /\ SameThreads(m, charged)
  BY <1>1, Charged
<1>4. Unblocked(charged) = Unblocked(m) /\ DOMAIN charged = DOMAIN m
  BY <1>3, SameUnblocked
<1>5. DOMAIN metadata = DOMAIN m
  BY LenProperties DEF TypeOK
<1>6. /\ metadata' = charged
      /\ minVruntime' = MinVruntime(charged)
      /\ Unblocked(charged) = {} => current' = current
      /\ Unblocked(charged) # {} => current' = NextIdx(charged, slice)
      /\ lastSwitchTick' \in {lastSwitchTick, now}
  BY DEF TickPrepare
<1>7. MinVruntime(charged) \in Nat
  <2>1. CASE Unblocked(charged) = {}
    BY <1>1, <2>1 DEF MinVruntime
  <2>2. CASE Unblocked(charged) # {}
    <3> DEFINE V == {charged[i].vruntime : i \in Unblocked(charged)}
    <3>1. \A i \in 1 .. Len(charged) : charged[i] \in ThreadMeta
      BY <1>3, ElementOfSeq
    <3>2. \A i \in Unblocked(charged) : charged[i].vruntime \in Nat
      BY <1>3, <3>1, LenProperties DEF Unblocked, ThreadMeta
    <3>3. V \in SUBSET Nat /\ V # {}
      BY <2>2, <3>2
    <3>4. MinVruntime(charged) = Min(V)
      BY <2>2 DEF MinVruntime
    <3> HIDE DEF V
    <3> QED
      BY <3>3, <3>4, MinExists
  <2> QED
    BY <2>1, <2>2
<1> HIDE DEF charged, slice
<1>8. Len(metadata') = Len(metadata)
  BY <1>3, <1>6 DEF SameThreads
<1>9. CASE Unblocked(m) = {}
  BY <1>1, <1>3, <1>4, <1>5, <1>6, <1>7, <1>8, <1>9
<1>10. CASE Unblocked(m) # {}
  <2>1. current' \in Eligible(charged)
    BY <1>2, <1>3, <1>4, <1>6, <1>10, PickIsEligible
  <2>2. (current \in Eligible(metadata))'
    BY <1>4, <1>6, <1>10, <2>1 DEF Eligible, Unblocked, MinVruntime, LagTolerance
  <2>3. current' \in Unblocked(m)
    BY <1>4, <2>1 DEF Eligible
  <2>4. current' \in 1 .. Len(m)
    BY <2>3, LenProperties DEF Unblocked
  <2> QED
    BY <1>1, <1>3, <1>4, <1>5, <1>6, <1>7, <1>8, <1>10, <2>2, <2>3, <2>4
<1> QED
  BY <1>9, <1>10

\* Blocking or unblocking a thread.
LEMMA Marked ==
  ASSUME NEW m \in Seq(ThreadMeta), NEW i \in DOMAIN m, NEW b \in BOOLEAN
  PROVE  LET r == [m EXCEPT ![i].blocked = b]
         IN  /\ r \in Seq(ThreadMeta)
             /\ Len(r) = Len(m)
             /\ DOMAIN r = DOMAIN m
             /\ Unblocked(r) = IF b THEN Unblocked(m) \ {i} ELSE Unblocked(m) \cup {i}
<1> DEFINE e == [m[i] EXCEPT !.blocked = b]
           r == [m EXCEPT ![i] = e]
<1>1. i \in 1 .. Len(m)
  BY LenProperties
<1>2. m[i] \in ThreadMeta
  BY <1>1, ElementOfSeq
<1>3. e \in ThreadMeta /\ e.blocked = b
  BY <1>2 DEF ThreadMeta
<1> HIDE DEF e
<1>4. /\ r \in Seq(ThreadMeta)
      /\ Len(r) = Len(m)
      /\ \A j \in 1 .. Len(m) : r[j] = IF j = i THEN e ELSE m[j]
  BY <1>1, <1>3, ExceptSeq
<1>5. DOMAIN m = 1 .. Len(m) /\ DOMAIN r = 1 .. Len(m)
  BY <1>4, LenProperties
<1> HIDE DEF r
<1>6. Unblocked(r) = IF b THEN Unblocked(m) \ {i} ELSE Unblocked(m) \cup {i}
  BY <1>1, <1>3, <1>4, <1>5 DEF Unblocked
<1>7. r = [m EXCEPT ![i].blocked = b]
  BY DEF r, e
<1> QED
  BY <1>4, <1>5, <1>6, <1>7

\* A new thread, last and not blocked.
LEMMA Joined ==
  ASSUME NEW m \in Seq(ThreadMeta), NEW e \in ThreadMeta, ~e.blocked
  PROVE  LET r == Append(m, e)
         IN  /\ r \in Seq(ThreadMeta)
             /\ Len(r) = Len(m) + 1
             /\ DOMAIN r = DOMAIN m \cup {Len(m) + 1}
             /\ Unblocked(r) = Unblocked(m) \cup {Len(m) + 1}
<1> DEFINE r == Append(m, e)
<1>1. /\ r \in Seq(ThreadMeta)
      /\ Len(r) = Len(m) + 1
      /\ \A i \in 1 .. Len(m) : r[i] = m[i]
      /\ r[Len(m) + 1] = e
  BY AppendProperties
<1> HIDE DEF r
<1>2. Len(m) \in Nat /\ DOMAIN m = 1 .. Len(m) /\ DOMAIN r = 1 .. Len(m) + 1
  BY <1>1, LenProperties
<1>3. Unblocked(r) = Unblocked(m) \cup {Len(m) + 1}
  BY <1>1, <1>2 DEF Unblocked
<1> QED
  BY <1>1, <1>2, <1>3 DEF r

\* Types hold at the start.
LEMMA EevdfInit == Init => TypeOK
BY EevdfAssumption, EmptySeq DEF Init, TypeOK

\* Each step keeps the types, maps to a step of the scheduler or to none, and
\* leaves an eligible thread running when it is a call of tick_prepare.
LEMMA EevdfStep ==
  ASSUME TypeOK, [Next]_vars
  PROVE  /\ TypeOK'
         /\ [Sched0!Next]_<<DOMAIN metadata, current, DOMAIN metadata \ Unblocked(metadata)>>
         /\ [Timer \/ Keyboard \/ Block =>
               (Unblocked(metadata) # {} => current \in Eligible(metadata))']_vars
<1> DEFINE n == Len(metadata)
           Threads == DOMAIN metadata
           Blocked == DOMAIN metadata \ Unblocked(metadata)
           Ok == (Unblocked(metadata) # {} => current \in Eligible(metadata))'
<1>1. n \in Nat /\ Threads = 1 .. n /\ Unblocked(metadata) \subseteq Threads
  BY LenProperties DEF TypeOK, Unblocked
<1>2. MaxThreads \in Nat
  BY EevdfAssumption
<1>3. ASSUME UNCHANGED vars PROVE TypeOK'
  BY <1>3 DEF TypeOK, vars
<1>4. ASSUME NEW w \in Weights \cup {DEFAULT_WEIGHT}, Spawn(w)
      PROVE  TypeOK' /\ Sched0!Spawn(n + 1)
  <2> DEFINE e == [vruntime |-> 0, weight |-> Max({w, 1}), blocked |-> FALSE]
  <2>1. w \in Nat
    BY EevdfAssumption DEF DEFAULT_WEIGHT
  <2>2. e \in ThreadMeta /\ ~e.blocked
    BY <2>1, MaxOne DEF ThreadMeta
  <2>3. metadata' = Append(metadata, e) /\ n < MaxThreads
        /\ UNCHANGED <<current, minVruntime, lastSwitchTick, tick>>
    BY <1>4 DEF Spawn
  <2> HIDE DEF e
  <2>4. /\ metadata' \in Seq(ThreadMeta)
        /\ Len(metadata') = n + 1
        /\ DOMAIN metadata' = Threads \cup {n + 1}
        /\ Unblocked(metadata') = Unblocked(metadata) \cup {n + 1}
    BY <2>2, <2>3, Joined DEF TypeOK
  <2>5. TypeOK'
    BY <1>1, <1>2, <2>3, <2>4 DEF TypeOK
  <2>6. n + 1 \in (1 .. MaxThreads) \ Threads
    BY <1>1, <1>2, <2>3
  <2>7. (DOMAIN metadata \ Unblocked(metadata))' = Blocked
    BY <1>1, <2>4 DEF Unblocked
  <2> QED
    BY <2>3, <2>4, <2>5, <2>6, <2>7 DEF Sched0!Spawn
<1>5. ASSUME NEW m \in Seq(ThreadMeta), Len(m) = n, NEW now \in Nat, TickPrepare(m, now),
             tick' \in Nat
      PROVE  /\ TypeOK'
             /\ DOMAIN metadata' = Threads
             /\ Unblocked(metadata)' = Unblocked(m)
             /\ Unblocked(m) = {} => current' = current
             /\ Unblocked(m) # {} => current' \in Unblocked(m)
             /\ Ok
  <2>1. Unblocked(metadata)' = Unblocked(metadata')
    BY DEF Unblocked
  <2>2. /\ metadata' \in Seq(ThreadMeta)
        /\ Len(metadata') = Len(metadata)
        /\ current' \in 0 .. Len(metadata')
        /\ minVruntime' \in Nat
        /\ lastSwitchTick' \in Nat
        /\ DOMAIN metadata' = DOMAIN metadata
        /\ Unblocked(metadata') = Unblocked(m)
        /\ Unblocked(m) = {} => current' = current
        /\ Unblocked(m) # {} =>
             current' \in Unblocked(m) /\ (current \in Eligible(metadata))'
    BY <1>5, Prepared
  <2>3. TypeOK'
    BY <1>5, <2>2 DEF TypeOK
  <2> QED
    BY <2>1, <2>2, <2>3
<1>6. ASSUME Timer \/ Keyboard PROVE TypeOK' /\ Sched0!Next /\ Ok
  <2>1. metadata \in Seq(ThreadMeta) /\ tick \in Nat
    BY DEF TypeOK
  <2>2. PICK now \in Nat : TickPrepare(metadata, now) /\ tick' \in Nat
    BY <1>6, <2>1 DEF Timer, Keyboard
  <2>3. /\ TypeOK'
        /\ DOMAIN metadata' = Threads
        /\ Unblocked(metadata)' = Unblocked(metadata)
        /\ Unblocked(metadata) = {} => current' = current
        /\ Unblocked(metadata) # {} => current' \in Unblocked(metadata)
        /\ Ok
    BY <1>5, <2>1, <2>2
  <2>4. Sched0!Tick
    BY <1>1, <2>3 DEF Sched0!Tick, Sched0!Pick
  <2> QED
    BY <2>3, <2>4 DEF Sched0!Next
<1>7. ASSUME Block PROVE TypeOK' /\ Sched0!Next /\ Ok
  <2> DEFINE m == [metadata EXCEPT ![current].blocked = TRUE]
  <2>1. /\ current \in Unblocked(metadata) /\ current \in Threads
        /\ TickPrepare(m, tick) /\ tick' \in Nat /\ tick \in Nat
        /\ metadata \in Seq(ThreadMeta)
    BY <1>1, <1>7 DEF Block, TypeOK
  <2>2. /\ m \in Seq(ThreadMeta)
        /\ Len(m) = n
        /\ Unblocked(m) = Unblocked(metadata) \ {current}
    BY <2>1, Marked
  <2> HIDE DEF m
  <2>3. /\ TypeOK'
        /\ DOMAIN metadata' = Threads
        /\ Unblocked(metadata)' = Unblocked(m)
        /\ Unblocked(m) = {} => current' = current
        /\ Unblocked(m) # {} => current' \in Unblocked(m)
        /\ Ok
    BY <1>5, <2>1, <2>2
  <2>4. current # 0
    BY <1>1, <2>1
  <2>5. (DOMAIN metadata \ Unblocked(metadata))' = Blocked \cup {current}
    BY <2>1, <2>2, <2>3
  <2>6. Sched0!BlockCurrent
    BY <1>1, <2>1, <2>2, <2>3, <2>4, <2>5 DEF Sched0!BlockCurrent, Sched0!Pick
  <2> QED
    BY <2>3, <2>6 DEF Sched0!Next
<1>8. ASSUME NEW i \in DOMAIN metadata, Unblock(i)
      PROVE  TypeOK' /\ Sched0!Unblock(i) /\ i \in 1 .. MaxThreads
  <2>1. /\ metadata \in Seq(ThreadMeta)
        /\ current \in Unblocked(metadata)
        /\ metadata' = [metadata EXCEPT ![i].blocked = FALSE]
        /\ UNCHANGED <<current, minVruntime, lastSwitchTick, tick>>
    BY <1>8 DEF Unblock, TypeOK
  <2>2. /\ metadata' \in Seq(ThreadMeta)
        /\ Len(metadata') = n
        /\ DOMAIN metadata' = Threads
        /\ Unblocked(metadata') = Unblocked(metadata) \cup {i}
    BY <2>1, Marked
  <2>3. Unblocked(metadata)' = Unblocked(metadata')
    BY DEF Unblocked
  <2>4. TypeOK'
    BY <2>1, <2>2 DEF TypeOK
  <2>5. i \in 1 .. MaxThreads
    BY <1>1, <1>2 DEF TypeOK
  <2>6. Sched0!Unblock(i)
    BY <1>1, <2>1, <2>2, <2>3 DEF Sched0!Unblock
  <2> QED
    BY <2>4, <2>5, <2>6
<1>9. \/ UNCHANGED vars \/ Timer \/ Keyboard \/ Block
      \/ \E w \in Weights \cup {DEFAULT_WEIGHT} : Spawn(w)
      \/ \E i \in DOMAIN metadata : Unblock(i)
  BY DEF Next
<1>10. TypeOK'
  BY <1>3, <1>4, <1>6, <1>7, <1>8, <1>9
<1>11. Sched0!Next \/ UNCHANGED <<DOMAIN metadata, current, DOMAIN metadata \ Unblocked(metadata)>>
  <2>1. CASE UNCHANGED vars
    BY <1>3, <2>1 DEF Unblocked, vars
  <2>2. ASSUME NEW w \in Weights \cup {DEFAULT_WEIGHT}, Spawn(w) PROVE Sched0!Next
    <3>1. n + 1 \in 1 .. MaxThreads
      BY <1>1, <1>2, <2>2 DEF Spawn
    <3> QED
      BY <1>4, <2>2, <3>1 DEF Sched0!Next
  <2>3. ASSUME NEW i \in DOMAIN metadata, Unblock(i) PROVE Sched0!Next
    BY <1>8, <2>3 DEF Sched0!Next
  <2> QED
    BY <1>6, <1>7, <1>9, <2>1, <2>2, <2>3
<1>12. Timer \/ Keyboard \/ Block => Ok
  BY <1>6, <1>7
<1> QED
  BY <1>10, <1>11, <1>12

\* Whatever the weights and vruntimes, a thread that is not blocked runs whenever
\* there is one: no early return of tick_prepare leaves the processor with a
\* blocked thread (eevdf.rs:89-177).
THEOREM EevdfIsScheduler == Spec => ImplementsScheduler
<1>1. Init => Sched0!Init
  BY EevdfAssumption DEF Init, Sched0!Init, Unblocked
<1>2. TypeOK /\ [Next]_vars =>
        [Sched0!Next]_<<DOMAIN metadata, current, DOMAIN metadata \ Unblocked(metadata)>>
  BY EevdfStep
<1>3. TypeOK /\ [Next]_vars => TypeOK'
  BY EevdfStep
<1> QED
  BY EevdfInit, <1>1, <1>2, <1>3, PTL DEF Spec, ImplementsScheduler, Sched0!Spec

\* The fallback of tick_prepare to a thread that is not eligible (eevdf.rs:129-135)
\* is never taken: the thread of least vruntime is always within the tolerance.
THEOREM AlwaysEligible == Spec => PicksEligible
<1>1. TypeOK /\ [Next]_vars => TypeOK'
  BY EevdfStep
<1>2. TypeOK /\ [Next]_vars =>
        [Timer \/ Keyboard \/ Block =>
           (Unblocked(metadata) # {} => current \in Eligible(metadata))']_vars
  BY EevdfStep
<1> QED
  BY EevdfInit, <1>1, <1>2, PTL DEF Spec, PicksEligible

-----------------------------------------------------------------------------
(* Threads of one weight take turns.                                       *)

\* n threads of weight w at the turn of the k-th: the ones before it have had the
\* slice of this round.
Round(n, w, v, k) ==
  [i \in 1 .. n |->
     [vruntime |-> IF i < k THEN v + Scale \div n ELSE v, weight |-> w, blocked |-> FALSE]]

\* The threads are a sequence, all of them free to run.
LEMMA RoundType ==
  ASSUME NEW n \in Nat \ {0}, NEW w \in Nat \ {0}, NEW v \in Nat, NEW k \in Nat
  PROVE  /\ Round(n, w, v, k) \in Seq(ThreadMeta)
         /\ Len(Round(n, w, v, k)) = n
         /\ DOMAIN Round(n, w, v, k) = 1 .. n
         /\ Unblocked(Round(n, w, v, k)) = 1 .. n
<1> DEFINE m == Round(n, w, v, k)
<1>1. Scale \div n \in Nat
  BY Quotient DEF Scale
<1>2. \A i \in 1 .. n : [vruntime |-> IF i < k THEN v + Scale \div n ELSE v,
                         weight |-> w, blocked |-> FALSE] \in ThreadMeta
  BY <1>1 DEF ThreadMeta
<1>3. m \in Seq(ThreadMeta) /\ Len(m) = n
  BY <1>2, IsASeq DEF Round
<1>4. DOMAIN m = 1 .. n /\ Unblocked(m) = 1 .. n
  BY DEF Round, Unblocked
<1> QED
  BY <1>3, <1>4

\* Multiplication, one more.
LEMMA OneMore ==
  ASSUME NEW k \in Nat, NEW w \in Nat
  PROVE  (k + 1) * w = k * w + w /\ k * w \in Nat
BY SMTT(30)

\* Their weights add up to n times the weight.
LEMMA RoundSum ==
  ASSUME NEW n \in Nat \ {0}, NEW w \in Nat \ {0}, NEW v \in Nat, NEW k \in Nat
  PROVE  SumWeights(Round(n, w, v, k)) = n * w
<1> DEFINE m == Round(n, w, v, k)
<1>1. m \in Seq(ThreadMeta) /\ Len(m) = n /\ n \in 0 .. Len(m)
  BY RoundType
<1>2. \A i \in 1 .. n : ~m[i].blocked /\ m[i].weight = w
  BY DEF Round
<1> HIDE DEF m
<1>3. \E s \in [0 .. Len(m) -> Nat] : Sums(m, Len(m), s)
  BY <1>1, SumsExist
<1>4. PICK s : Sums(m, Len(m), s) /\ SumWeights(m) = s[Len(m)]
  BY <1>3, SumOf
<1> DEFINE P == {j \in Nat : j <= n => s[j] = j * w}
<1>5. 0 \in P
  BY <1>1, <1>4 DEF Sums
<1>6. ASSUME NEW j \in Nat, j \in P PROVE j + 1 \in P
  <2> SUFFICES ASSUME j + 1 <= n PROVE s[j + 1] = (j + 1) * w
    OBVIOUS
  <2>1. s[j + 1] = s[j] + w
    BY <1>1, <1>2, <1>4 DEF Sums
  <2>2. s[j] = j * w
    BY <1>6
  <2> QED
    BY <2>1, <2>2, OneMore
<1> HIDE DEF P
<1>7. \A j \in Nat : j \in P
  BY <1>5, <1>6, SetInduction
<1>8. s[n] = n * w
  BY <1>7 DEF P
<1> QED
  BY <1>1, <1>4, <1>8 DEF m

\* What a quotient is.
LEMMA QuotientIs ==
  ASSUME NEW a \in Nat, NEW b \in Nat \ {0}
  PROVE  b * (a \div b) <= a /\ a < b * (a \div b) + b
BY SMTT(30)

\* It is the only number of which that holds.
LEMMA QuotientUnique ==
  ASSUME NEW a \in Nat, NEW b \in Nat \ {0}, NEW q \in Nat, b * q <= a, a < b * q + b
  PROVE  a \div b = q
<1>1. a \div b \in Nat
  BY Quotient
<1> DEFINE p == a \div b
<1>2. b * p <= a /\ a < b * p + b
  BY QuotientIs
<1> HIDE DEF p
<1>3. p \in Nat
  BY <1>1 DEF p
<1>4. ~(p < q)
  <2> SUFFICES ASSUME p + 1 <= q PROVE FALSE
    BY <1>3
  <2>1. b * (p + 1) <= b * q
    BY <1>3, SMTT(30)
  <2>2. b * (p + 1) = b * p + b
    BY <1>3, SMTT(30)
  <2> DEFINE x == b * p
             y == b * q
  <2>3. x \in Nat /\ y \in Nat
    BY <1>3, SMTT(30)
  <2> HIDE DEF x, y
  <2> QED
    BY <1>2, <2>1, <2>2, <2>3 DEF x, y
<1>5. ~(q < p)
  <2> SUFFICES ASSUME q + 1 <= p PROVE FALSE
    BY <1>3
  <2>1. b * (q + 1) <= b * p
    BY <1>3, SMTT(30)
  <2>2. b * (q + 1) = b * q + b
    BY SMTT(30)
  <2> DEFINE x == b * p
             y == b * q
  <2>3. x \in Nat /\ y \in Nat
    BY <1>3, SMTT(30)
  <2> HIDE DEF x, y
  <2> QED
    BY <1>2, <2>1, <2>2, <2>3 DEF x, y
<1> QED
  BY <1>3, <1>4, <1>5 DEF p

\* The weight cancels: a tick costs each of n threads the n-th part of the scale.
LEMMA EqualCharge ==
  ASSUME NEW n \in Nat \ {0}, NEW w \in Nat \ {0}
  PROVE  (1 * w * Scale) \div (n * w) = Scale \div n
<1> DEFINE q == Scale \div n
           a == w * 1024
           b == n * w
<1>1. q \in Nat /\ n * q <= 1024 /\ 1024 < n * q + n
  BY Quotient, QuotientIs DEF Scale
<1> HIDE DEF q
<1>2. a \in Nat /\ b \in Nat \ {0}
  BY SMTT(30)
<1>3. n * q \in Nat
  BY <1>1, SMTT(30)
<1>4. b * q = w * (n * q)
  BY <1>1, SMTT(30)
<1>5. w * (n * q) <= w * 1024
  BY <1>1, <1>3, SMTT(30)
<1>6. w * 1024 < w * (n * q + n)
  BY <1>1, <1>3, SMTT(30)
<1>7. w * (n * q + n) = w * (n * q) + b
  BY <1>1, <1>3, SMTT(30)
<1> HIDE DEF a, b
<1>8. b * q <= a /\ a < b * q + b
  BY <1>4, <1>5, <1>6, <1>7 DEF a
<1>9. a \div b = q
  BY <1>1, <1>2, <1>8, QuotientUnique
<1> QED
  BY <1>9 DEF a, b, q, Scale

\* A thread that pays.
LEMMA Paid ==
  ASSUME NEW a \in ThreadMeta, NEW u \in Nat, ~a.blocked
  PROVE  [a EXCEPT !.vruntime = u] = [vruntime |-> u, weight |-> a.weight, blocked |-> FALSE]
<1> DEFINE b == [a EXCEPT !.vruntime = u]
           c == [vruntime |-> u, weight |-> a.weight, blocked |-> FALSE]
<1>1. b \in ThreadMeta /\ c \in ThreadMeta
  BY DEF ThreadMeta
<1>2. b.vruntime = c.vruntime /\ b.weight = c.weight /\ b.blocked = c.blocked
  BY DEF ThreadMeta
<1> HIDE DEF b, c
<1>3. b = c
  BY <1>1, <1>2 DEF ThreadMeta
<1> QED
  BY <1>3 DEF b, c

\* The turn ends: the thread pays and joins the ones that have had their slice.
LEMMA TurnCharged ==
  ASSUME NEW n \in Nat \ {0}, NEW w \in Nat \ {0}, NEW v \in Nat, current \in 0 .. n,
         NEW now, TimeSlice(now) = 1
  PROVE  Charge(Round(n, w, v, current), now) = Round(n, w, v, current + 1)
<1> DEFINE m == Round(n, w, v, current)
           c == Scale \div n
<1>1. c \in Nat
  BY Quotient DEF Scale
<1>2. SumWeights(m) = n * w
  BY RoundSum
<1>3. n * w # 0
  BY SMTT(30)
<1>4. CASE current = 0
  <2>1. \A i \in 1 .. n : ~(i < current) /\ ~(i < current + 1)
    BY <1>4
  <2>2. Round(n, w, v, current) = Round(n, w, v, current + 1)
    BY <2>1 DEF Round
  <2> QED
    BY <1>4, <2>2 DEF Charge
<1>5. CASE current # 0
  <2>1. current \in 1 .. n /\ m[current].weight = w /\ m[current].vruntime = v
    BY <1>5 DEF Round
  <2>2. Charge(m, now) = [m EXCEPT ![current].vruntime = @ + (1 * w * Scale) \div (n * w)]
    BY <1>2, <1>3, <1>5, <2>1 DEF Charge
  <2>3. Charge(m, now) = [m EXCEPT ![current].vruntime = @ + c]
    BY <2>2, EqualCharge
  <2> HIDE DEF c
  <2>4. Round(n, w, v, current) =
          [i \in 1 .. n |-> [vruntime |-> IF i < current THEN v + c ELSE v,
                             weight |-> w, blocked |-> FALSE]]
    BY DEF Round, c
  <2>5. Round(n, w, v, current + 1) =
          [i \in 1 .. n |-> [vruntime |-> IF i < current + 1 THEN v + c ELSE v,
                             weight |-> w, blocked |-> FALSE]]
    BY DEF Round, c
  <2>6. [m EXCEPT ![current].vruntime = @ + c] =
          [i \in 1 .. n |-> [vruntime |-> IF i < current + 1 THEN v + c ELSE v,
                             weight |-> w, blocked |-> FALSE]]
    <3> DEFINE e == [vruntime |-> v + c, weight |-> w, blocked |-> FALSE]
    <3>1. [m EXCEPT ![current].vruntime = @ + c] =
            [i \in 1 .. n |-> IF i = current THEN [m[i] EXCEPT !.vruntime = @ + c] ELSE m[i]]
      BY <2>4
    <3>2. [m[current] EXCEPT !.vruntime = @ + c] = e
      <4> DEFINE a == m[current]
                 u == a.vruntime + c
      <4>1. u = v + c /\ u \in Nat
        BY <1>1, <2>1
      <4>2. a \in ThreadMeta /\ ~a.blocked /\ a.weight = w
        <5>1. current \in Nat /\ m \in Seq(ThreadMeta) /\ Len(m) = n
          BY <2>1, RoundType
        <5>2. ~m[current].blocked
          BY <2>1, <2>4
        <5> HIDE DEF m
        <5> QED
          BY <2>1, <5>1, <5>2, ElementOfSeq
      <4> HIDE DEF a, u
      <4>3. [a EXCEPT !.vruntime = u] = [vruntime |-> u, weight |-> a.weight, blocked |-> FALSE]
        BY <4>1, <4>2, Paid
      <4> QED
        BY <4>1, <4>2, <4>3 DEF a, u
    <3>3. ASSUME NEW i \in 1 .. n
          PROVE  (IF i = current THEN [m[i] EXCEPT !.vruntime = @ + c] ELSE m[i]) =
                   [vruntime |-> IF i < current + 1 THEN v + c ELSE v,
                    weight |-> w, blocked |-> FALSE]
      <4>1. i < current + 1 <=> i = current \/ i < current
        BY <2>1
      <4> QED
        BY <2>1, <2>4, <3>2, <4>1
    <3> QED
      BY <3>1, <3>3
  <2> QED
    BY <2>3, <2>5, <2>6
<1> QED
  BY <1>4, <1>5

\* When all have had their slice the next round begins.
LEMMA RoundOver ==
  ASSUME NEW n \in Nat \ {0}, NEW w, NEW v \in Nat
  PROVE  Round(n, w, v, n + 1) = Round(n, w, v + Scale \div n, 1)
<1> DEFINE c == Scale \div n
<1>1. \A i \in 1 .. n : i < n + 1 /\ ~(i < 1)
  OBVIOUS
<1> QED
  BY <1>1 DEF Round

\* While the slice is not 0, the k-th thread is picked at its turn.
LEMMA TurnPicked ==
  ASSUME NEW n \in Nat \ {0}, NEW w \in Nat \ {0}, NEW v \in Nat, NEW k \in 1 .. n,
         Scale \div n # 0
  PROVE  NextIdx(Round(n, w, v, k), 1) = k
<1> DEFINE m == Round(n, w, v, k)
           c == Scale \div n
           V == {m[i].vruntime : i \in Unblocked(m)}
           E == Eligible(m)
           sum == SumWeights(m)
           D == (1 * sum * Scale) \div w
           S == {i \in E : \A j \in E : m[i].vruntime + D <= m[j].vruntime + D}
<1>1. c \in Nat \ {0}
  BY Quotient DEF Scale
<1>2. m \in Seq(ThreadMeta) /\ Unblocked(m) = 1 .. n
  BY RoundType
<1>3. \A i \in 1 .. n : m[i].vruntime = (IF i < k THEN v + c ELSE v) /\ m[i].weight = w
  BY DEF Round
<1>4. sum \in Nat
  BY <1>2, SumNat
<1> HIDE DEF m, c, sum
<1>5. V \in SUBSET Nat /\ v \in V /\ \A x \in V : v <= x
  BY <1>1, <1>2, <1>3
<1> HIDE DEF V
<1>6. Min(V) = v
  BY <1>5, MinIs
<1>7. MinVruntime(m) = v
  BY <1>2, <1>6 DEF MinVruntime, V
<1>8. LagTolerance(m) \in Nat
  BY <1>4, MaxOne DEF LagTolerance, sum
<1>9. E \subseteq 1 .. n /\ k \in E
  BY <1>2, <1>3, <1>7, <1>8 DEF Eligible
<1>10. D \in Nat
  BY <1>4, Quotient DEF Scale
<1>11. \A i \in E : VirtualDeadline(m[i], 1, sum) = m[i].vruntime + D
  BY <1>3, <1>9 DEF VirtualDeadline
<1>12. NextIdx(m, 1) = Min(S)
  BY <1>9, <1>11 DEF NextIdx, sum
<1> HIDE DEF D, E
<1>13. S \in SUBSET Nat /\ k \in S /\ \A i \in S : k <= i
  <2>1. m[k].vruntime = v
    BY <1>3
  <2>2. \A i \in E : v <= m[i].vruntime /\ m[i].vruntime \in Nat
    BY <1>1, <1>3, <1>9
  <2>3. k \in S
    BY <1>9, <1>10, <2>1, <2>2
  <2>4. ASSUME NEW i \in S PROVE k <= i
    <3>1. i \in 1 .. n /\ m[i].vruntime + D <= v + D
      BY <1>9, <2>1
    <3>2. m[i].vruntime = IF i < k THEN v + c ELSE v
      BY <1>3, <3>1
    <3> QED
      BY <1>1, <1>10, <3>1, <3>2
  <2>5. 1 .. n \subseteq Nat
    OBVIOUS
  <2>6. S \subseteq E
    OBVIOUS
  <2> HIDE DEF S
  <2> QED
    BY <1>9, <2>3, <2>4, <2>5, <2>6
<1> HIDE DEF S
<1>14. Min(S) = k
  BY <1>13, MinIs
<1> QED
  BY <1>12, <1>14 DEF m

\* Turn k: the slice of a round goes from thread to thread, and a thread has been
\* passed over once for each turn since its own.
TurnInv(n, w, v) ==
  /\ current \in 0 .. n
  /\ metadata = Round(n, w, v, current)
  /\ waited \in [1 .. n -> Nat]
  /\ \A i \in 1 .. n :
       waited[i] <= IF i <= current THEN current - i
                    ELSE IF current = 0 THEN 0 ELSE n + current - i
  /\ tick \in Nat
  /\ lastSwitchTick = tick

EqualInv == \E n \in 1 .. MaxThreads, w \in Nat \ {0}, v \in Nat : TurnInv(n, w, v)

\* A tick or an interrupt ends a turn: the next thread runs, the first after the last.
LEMMA NextTurn ==
  ASSUME NEW n \in Nat \ {0}, NEW w \in Nat \ {0}, NEW v \in Nat, TurnInv(n, w, v),
         n <= Scale, TimerStep \/ KeyboardStep
  PROVE  \E u \in Nat : TurnInv(n, w, u)'
<1> DEFINE c == Scale \div n
<1>1. PICK now \in {tick, tick + 1} : TickPrepare(metadata, now) /\ tick' = now /\ PassOver
  BY DEF TimerStep, KeyboardStep, Timer, Keyboard
<1>2. now \in Nat /\ current \in 0 .. n
  BY <1>1 DEF TurnInv
<1>3. TimeSlice(now) = 1
  <2>1. SaturatingSub(now, lastSwitchTick) \in {0, 1}
    BY <1>1, <1>2 DEF TurnInv, SaturatingSub
  <2> QED
    BY <2>1, MaxOne DEF TimeSlice, MIN_TIME_SLICE
<1>4. c \in Nat \ {0}
  <2>1. c \in Nat /\ n * c <= 1024 /\ 1024 < n * c + n
    BY Quotient, QuotientIs DEF Scale
  <2> HIDE DEF c
  <2>2. CASE c = 0
    BY <2>1, <2>2 DEF Scale
  <2> QED
    BY <2>1, <2>2
<1>5. PICK k \in 1 .. n, u \in Nat :
        /\ k = IF current = n THEN 1 ELSE current + 1
        /\ u = IF current = n THEN v + c ELSE v
  <2>1. (IF current = n THEN 1 ELSE current + 1) \in 1 .. n
    BY <1>2
  <2>2. (IF current = n THEN v + c ELSE v) \in Nat
    BY <1>4
  <2> QED
    BY <2>1, <2>2
<1>6. Charge(metadata, now) = Round(n, w, u, k)
  <2>1. Charge(metadata, now) = Round(n, w, v, current + 1)
    BY <1>2, <1>3, TurnCharged DEF TurnInv
  <2>2. CASE current = n
    BY <1>5, <2>1, <2>2, RoundOver
  <2> QED
    BY <1>5, <2>1, <2>2
<1> HIDE DEF c
<1> DEFINE charged == Round(n, w, u, k)
<1>7. NextIdx(charged, 1) = k
  BY <1>4, <1>5, TurnPicked DEF c
<1>8. Unblocked(charged) = 1 .. n
  BY RoundType
<1> HIDE DEF charged
<1>9. metadata' = charged /\ current' = k /\ lastSwitchTick' = now
  <2>1. lastSwitchTick = tick /\ tick \in Nat
    BY DEF TurnInv
  <2>2. SaturatingSub(now, lastSwitchTick) < MIN_TIME_SLICE => now = lastSwitchTick
    BY <1>1, <2>1 DEF SaturatingSub, MIN_TIME_SLICE
  <2> QED
    BY <1>1, <1>3, <1>6, <1>7, <1>8, <2>2 DEF TickPrepare, charged
<1>10. waited' = [i \in 1 .. n |-> IF i = k THEN 0 ELSE waited[i] + 1]
  BY <1>1, <1>9 DEF PassOver, TurnInv
<1>11. \A i \in 1 .. n :
         waited[i] \in Nat /\ waited[i] <= IF i <= current THEN current - i
                                           ELSE IF current = 0 THEN 0 ELSE n + current - i
  BY DEF TurnInv
<1>12. waited' \in [1 .. n -> Nat]
  BY <1>10, <1>11
<1>13. ASSUME NEW i \in 1 .. n
       PROVE  waited'[i] <= IF i <= k THEN k - i ELSE n + k - i
  <2>1. waited'[i] = IF i = k THEN 0 ELSE waited[i] + 1
    BY <1>10
  <2>2. waited[i] \in Nat /\ waited[i] <= IF i <= current THEN current - i
                                          ELSE IF current = 0 THEN 0 ELSE n + current - i
    BY <1>11
  <2> QED
    BY <1>2, <1>5, <2>1, <2>2
<1>14. TurnInv(n, w, u)'
  <2>1. metadata' = Round(n, w, u, current')
    BY <1>9 DEF charged
  <2>2. \A i \in 1 .. n :
          waited'[i] <= IF i <= current' THEN current' - i
                        ELSE IF current' = 0 THEN 0 ELSE n + current' - i
    BY <1>9, <1>13
  <2> QED
    BY <1>1, <1>2, <1>9, <1>12, <2>1, <2>2 DEF TurnInv
<1> QED
  BY <1>5, <1>14

\* It holds before the first turn.
LEMMA EqualInit0 == EqualInit => EqualInv
<1> SUFFICES ASSUME NEW n \in 1 .. MaxThreads, NEW w \in Weights,
                    Spawned(n, [i \in 1 .. n |-> w])
             PROVE  EqualInv
  BY DEF EqualInit
<1> DEFINE x == Max({w, 1})
<1>1. n \in Nat \ {0} /\ w \in Nat
  BY EevdfAssumption
<1>2. x \in Nat \ {0}
  BY <1>1, MaxOne
<1>3. metadata = [i \in 1 .. n |-> [vruntime |-> 0, weight |-> x, blocked |-> FALSE]]
  BY DEF Spawned
<1>4. \A i \in 1 .. n : ~(i < 0)
  BY <1>1
<1> HIDE DEF x
<1>5. metadata = Round(n, x, 0, 0)
  BY <1>3, <1>4 DEF Round
<1>6. /\ waited = [i \in 1 .. n |-> 0]
      /\ current = 0 /\ tick = 0 /\ lastSwitchTick = 0
  BY DEF Spawned
<1>7. TurnInv(n, x, 0)
  BY <1>1, <1>5, <1>6 DEF TurnInv
<1> QED
  BY <1>2, <1>7 DEF EqualInv

\* Every interrupt keeps it, as long as there are at most Scale threads: with
\* more, a slice would be charged at 0 and the first thread would run for ever.
LEMMA EqualStep ==
  ASSUME MaxThreads <= Scale, EqualInv, [TimerStep \/ KeyboardStep]_shareVars
  PROVE  EqualInv'
<1>1. PICK n \in 1 .. MaxThreads, w \in Nat \ {0}, v \in Nat : TurnInv(n, w, v)
  BY DEF EqualInv
<1>2. n \in Nat \ {0} /\ n <= Scale
  BY EevdfAssumption DEF Scale
<1>3. CASE TimerStep \/ KeyboardStep
  <2>1. PICK u \in Nat : TurnInv(n, w, u)'
    BY <1>1, <1>2, <1>3, NextTurn
  <2> QED
    BY <2>1 DEF EqualInv
<1>4. CASE UNCHANGED shareVars
  <2>1. TurnInv(n, w, v)'
    BY <1>1, <1>4 DEF TurnInv, shareVars, vars
  <2> QED
    BY <2>1 DEF EqualInv
<1> QED
  BY <1>3, <1>4

\* Among threads of one weight, at most Scale of them, none is passed over more
\* often than there are other threads, whatever mix of timer and keyboard
\* interrupts calls tick_prepare (eevdf.rs:121-151).
THEOREM EqualShare ==
  ASSUME MaxThreads <= Scale
  PROVE  InterruptSpec => []BoundedWait
<1>1. EqualInv => BoundedWait
  <2> SUFFICES ASSUME NEW n \in 1 .. MaxThreads, NEW w \in Nat \ {0}, NEW v \in Nat,
                      TurnInv(n, w, v)
               PROVE  BoundedWait
    BY DEF EqualInv
  <2>1. n \in Nat \ {0}
    BY EevdfAssumption
  <2>2. Len(metadata) = n /\ DOMAIN waited = 1 .. n
    BY <2>1, RoundType DEF TurnInv
  <2>3. ASSUME NEW i \in 1 .. n PROVE waited[i] < n
    <3>1. waited[i] \in Nat /\ waited[i] <= IF i <= current THEN current - i
                                            ELSE IF current = 0 THEN 0 ELSE n + current - i
      BY DEF TurnInv
    <3>2. current \in 0 .. n
      BY DEF TurnInv
    <3> QED
      BY <2>1, <3>1, <3>2
  <2> QED
    BY <2>2, <2>3 DEF BoundedWait
<1>2. EqualInv /\ [TimerStep \/ KeyboardStep]_shareVars => EqualInv'
  BY EqualStep
<1> QED
  BY EqualInit0, <1>1, <1>2, PTL DEF InterruptSpec

\* Nor do their vruntimes drift apart by more than one slice (eevdf.rs:100-110).
THEOREM EqualSpread ==
  ASSUME MaxThreads <= Scale
  PROVE  InterruptSpec => []VruntimeSpread
<1>1. EqualInv => VruntimeSpread
  <2> SUFFICES ASSUME NEW n \in 1 .. MaxThreads, NEW w \in Nat \ {0}, NEW v \in Nat,
                      TurnInv(n, w, v)
               PROVE  VruntimeSpread
    BY DEF EqualInv
  <2>1. n \in Nat \ {0}
    BY EevdfAssumption
  <2> DEFINE c == Scale \div n
  <2>2. Len(metadata) = n /\ DOMAIN metadata = 1 .. n
    BY <2>1, RoundType DEF TurnInv
  <2>3. \A i \in 1 .. n : metadata[i].vruntime \in {v, v + c}
    BY DEF TurnInv, Round
  <2>4. c \in Nat
    BY <2>1, Quotient DEF Scale
  <2> HIDE DEF c
  <2>5. \A i, j \in 1 .. n : metadata[i].vruntime - metadata[j].vruntime <= c
    BY <2>3, <2>4
  <2> QED
    BY <2>2, <2>5 DEF VruntimeSpread, c
<1>2. EqualInv /\ [TimerStep \/ KeyboardStep]_shareVars => EqualInv'
  BY EqualStep
<1> QED
  BY EqualInit0, <1>1, <1>2, PTL DEF InterruptSpec
=============================================================================
