------------------------ MODULE FactorThreadsProofs ------------------------
(***************************************************************************)
(* For every number of threads and jobs: both queues are closable queues,  *)
(* every job is in one place, what main leaves unprinted is at most one    *)
(* job of each thread but one, and every job that main sees has been given *)
(* its prime factors.  For that, first, what factor, product, atoh and     *)
(* print_int128 compute for every number.                                  *)
(***************************************************************************)
EXTENDS FactorThreads, FiniteSetTheorems, SequenceTheorems, WellFoundedInduction, TLAPS

-----------------------------------------------------------------------------
(***************************************************************************)
(* Functions that are defined by themselves.                               *)
(***************************************************************************)
\* A set of numbers that is not empty has a least one.
LEMMA Least ==
  ASSUME NEW S \in SUBSET Nat, S # {}
  PROVE  \E n \in S : \A m \in S : ~(m < n)
<1>1. PICK n \in S : \A m \in S : <<m, n>> \notin OpToRel(<, Nat)
  BY NatLessThanWellFounded, WFMin
<1>2. \A m \in S : ~(m < n)
  BY <1>1 DEF OpToRel
<1> QED BY <1>2

\* What holds of each argument as soon as it holds of those of a lower rank holds of all.
LEMMA ByRank ==
  ASSUME NEW D, NEW rank \in [D -> Nat], NEW Good,
         \A d \in D : (\A e \in D : rank[e] < rank[d] => e \in Good) => d \in Good
  PROVE  \A d \in D : d \in Good
<1> DEFINE Ranks == {rank[d] : d \in {e \in D : e \notin Good}}
<1> SUFFICES ASSUME NEW bad \in D, bad \notin Good PROVE FALSE
  OBVIOUS
<1>1. Ranks \in SUBSET Nat /\ Ranks # {}
  OBVIOUS
<1>2. PICK n \in Ranks : \A m \in Ranks : ~(m < n)
  BY <1>1, Least
<1>3. PICK d \in D : d \notin Good /\ rank[d] = n
  OBVIOUS
<1>4. \A e \in D : rank[e] < rank[d] => e \in Good
  BY <1>2, <1>3
<1> QED BY <1>3, <1>4

\* A function that is defined by itself at an argument of a lower rank exists.
Solves(f, D, stop, base, op, next) ==
  f = [d \in D |-> IF d \in stop THEN base[d] ELSE op[<<d, f[next[d]]>>]]

SolvesUpto(f, n, D, rank, stop, base, op, next) ==
  \A d \in D : rank[d] <= n => f[d] = IF d \in stop THEN base[d] ELSE op[<<d, f[next[d]]>>]

LEMMA OneRankMore ==
  ASSUME NEW D, NEW V, NEW stop, NEW base \in [D -> V], NEW op \in [D \X V -> V],
         NEW next, NEW rank \in [D -> Nat],
         \A d \in D : d \notin stop => next[d] \in D /\ rank[next[d]] < rank[d],
         NEW g \in [D -> V], NEW n \in Int, SolvesUpto(g, n, D, rank, stop, base, op, next)
  PROVE  \E h \in [D -> V] : SolvesUpto(h, n + 1, D, rank, stop, base, op, next)
<1> DEFINE value(d) == IF d \in stop THEN base[d] ELSE op[<<d, g[next[d]]>>]
<1>1. \A d \in D : value(d) \in V
  OBVIOUS
<1> DEFINE h == [d \in D |-> value(d)]
<1>2. h \in [D -> V]
  BY <1>1
<1>3. ASSUME NEW d \in D, rank[d] <= n + 1
      PROVE  h[d] = IF d \in stop THEN base[d] ELSE op[<<d, h[next[d]]>>]
  <2>1. CASE d \in stop
    BY <2>1
  <2>2. CASE d \notin stop
    <3>1. next[d] \in D /\ rank[next[d]] \in Nat /\ rank[d] \in Nat /\ rank[next[d]] < rank[d]
      BY <2>2
    <3>2. rank[next[d]] <= n
      BY <1>3, <3>1
    <3>3. g[next[d]] = value(next[d])
      BY <3>1, <3>2 DEF SolvesUpto
    <3>4. h[next[d]] = g[next[d]]
      BY <3>1, <3>3
    <3> QED BY <2>2, <3>4
  <2> QED BY <2>1, <2>2
<1> HIDE DEF h
<1> QED BY <1>2, <1>3 DEF SolvesUpto

LEMMA Recursion ==
  ASSUME NEW D, NEW V, NEW stop, NEW base \in [D -> V], NEW op \in [D \X V -> V],
         NEW next, NEW rank \in [D -> Nat], NEW N \in Nat, \A d \in D : rank[d] <= N,
         \A d \in D : d \notin stop => next[d] \in D /\ rank[next[d]] < rank[d]
  PROVE  \E f \in [D -> V] : Solves(f, D, stop, base, op, next)
<1> DEFINE Upto(n) == \E f \in [D -> V] : SolvesUpto(f, n, D, rank, stop, base, op, next)
           Good == {n \in Nat : Upto(n)}
           id == [n \in Nat |-> n]
<1>1. ASSUME NEW n \in Int, Upto(n) PROVE Upto(n + 1)
  <2>1. PICK g \in [D -> V] : SolvesUpto(g, n, D, rank, stop, base, op, next)
    BY <1>1
  <2> HIDE DEF Upto
  <2>2. \E h \in [D -> V] : SolvesUpto(h, n + 1, D, rank, stop, base, op, next)
    BY <2>1, OneRankMore
  <2> QED BY <2>2 DEF Upto
<1>2. Upto(-1)
  BY DEF SolvesUpto
<1>3. \A n \in Nat : n \in Good
  <2> HIDE DEF Upto
  <2>1. id \in [Nat -> Nat]
    OBVIOUS
  <2>2. ASSUME NEW n \in Nat, \A m \in Nat : id[m] < id[n] => m \in Good PROVE n \in Good
    <3>1. CASE n = 0
      <4>1. Upto(-1 + 1)
        BY <1>1, <1>2
      <4> QED BY <3>1, <4>1
    <3>2. CASE n # 0
      <4>1. n - 1 \in Nat /\ id[n - 1] < id[n] /\ (n - 1) + 1 = n
        BY <3>2
      <4>2. Upto(n - 1)
        BY <2>2, <4>1
      <4>3. Upto((n - 1) + 1)
        BY <1>1, <4>1, <4>2
      <4> QED BY <4>1, <4>3
    <3> QED BY <3>1, <3>2
  <2> HIDE DEF Good, id
  <2> QED BY <2>1, <2>2, ByRank
<1>4. PICK f \in [D -> V] : SolvesUpto(f, N, D, rank, stop, base, op, next)
  BY <1>3
<1>5. Solves(f, D, stop, base, op, next)
  <2>1. \A d \in D : f[d] = IF d \in stop THEN base[d] ELSE op[<<d, f[next[d]]>>]
    BY <1>4 DEF SolvesUpto
  <2> QED BY <2>1 DEF Solves
<1> QED BY <1>5

-----------------------------------------------------------------------------
(***************************************************************************)
(* Folds over sequences: the library takes the last element off first.     *)
(***************************************************************************)
LEMMA MaxOf ==
  ASSUME NEW n \in Nat, NEW s \in SUBSET (1 .. n), s # {}
  PROVE  Max(s) \in s /\ \A y \in s : Max(s) >= y
<1> DEFINE Below == {n - x : x \in s}
<1>1. Below \in SUBSET Nat /\ Below # {}
  <2>1. \A x \in s : n - x \in Nat
    OBVIOUS
  <2> QED BY <2>1
<1>2. PICK b \in Below : \A c \in Below : ~(c < b)
  BY <1>1, Least
<1>3. PICK x \in s : b = n - x
  OBVIOUS
<1>4. \A y \in s : x >= y
  <2> SUFFICES ASSUME NEW y \in s PROVE x >= y
    OBVIOUS
  <2>1. n - y \in Below
    OBVIOUS
  <2>2. ~(n - y < n - x)
    BY <1>2, <1>3, <2>1
  <2> QED BY <2>2
<1>5. \E z \in s : \A y \in s : z >= y
  BY <1>4
<1> QED BY <1>5, Zenon DEF Max

\* What the fold of a prefix makes of the fold of the prefix before it.
FoldsBy(iter, n, base, step) ==
  /\ iter \in [SUBSET (1 .. n) -> Int]
  /\ \A s \in SUBSET (1 .. n) :
       iter[s] = IF s = {} THEN base ELSE step[<<iter[s \ {Max(s)}], Max(s)>>]

LEMMA PrefixFolds ==
  ASSUME NEW n \in Nat, NEW base \in Int, NEW step \in [Int \X (1 .. n) -> Int]
  PROVE  \E iter : FoldsBy(iter, n, base, step)
<1> DEFINE D == SUBSET (1 .. n)
           rank == [s \in D |-> IF s = {} THEN 0 ELSE Max(s)]
           next == [s \in D |-> s \ {Max(s)}]
           op == [p \in D \X Int |-> IF p[1] = {} THEN base ELSE step[<<p[2], Max(p[1])>>]]
           ground == [s \in D |-> base]
<1>1. \A s \in D : s # {} => Max(s) \in s /\ Max(s) \in 1 .. n
  BY MaxOf
<1>2. rank \in [D -> Nat] /\ \A s \in D : rank[s] <= n
  BY <1>1
<1>3. ASSUME NEW s \in D, s \notin {{}} PROVE next[s] \in D /\ rank[next[s]] < rank[s]
  <2>1. Max(s) \in s /\ Max(s) \in 1 .. n /\ \A y \in s : Max(s) >= y
    BY <1>3, MaxOf
  <2>2. next[s] = s \ {Max(s)} /\ next[s] \in D
    OBVIOUS
  <2>3. CASE next[s] = {}
    BY <1>3, <2>1, <2>2, <2>3
  <2>4. CASE next[s] # {}
    <3>1. Max(next[s]) \in next[s]
      BY <2>2, <2>4, <1>1
    <3>2. Max(next[s]) \in 1 .. n /\ Max(s) >= Max(next[s]) /\ Max(next[s]) # Max(s)
      BY <2>1, <2>2, <3>1
    <3> QED BY <1>3, <2>1, <2>2, <2>4, <3>2
  <2> QED BY <2>3, <2>4
<1>4. op \in [D \X Int -> Int] /\ ground \in [D -> Int]
  BY <1>1
<1> HIDE DEF op, rank, next, ground
<1>5. PICK f \in [D -> Int] : Solves(f, D, {{}}, ground, op, next)
  BY <1>2, <1>3, <1>4, Recursion
<1>6. ASSUME NEW s \in D
      PROVE  f[s] = IF s = {} THEN base ELSE step[<<f[s \ {Max(s)}], Max(s)>>]
  <2>1. f[s] = IF s = {} THEN ground[s] ELSE op[<<s, f[next[s]]>>]
    BY <1>5 DEF Solves
  <2>2. ground[s] = base /\ next[s] = s \ {Max(s)} /\ next[s] \in D
    BY DEF ground, next
  <2>3. f[next[s]] \in Int
    BY <2>2
  <2>4. s # {} => op[<<s, f[next[s]]>>] = step[<<f[next[s]], Max(s)>>]
    BY <2>3 DEF op
  <2> QED BY <2>1, <2>2, <2>4
<1>7. FoldsBy(f, n, base, step)
  BY <1>6 DEF FoldsBy
<1> QED BY <1>7

-----------------------------------------------------------------------------
(***************************************************************************)
(* product, atoh and print_int128.                                         *)
(***************************************************************************)
\* Induction up to a number.
LEMMA ByOne ==
  ASSUME NEW n \in Nat, NEW Good, 0 \in Good, \A k \in 1 .. n : k - 1 \in Good => k \in Good
  PROVE  \A k \in 0 .. n : k \in Good
<1> DEFINE D == 0 .. n  rank == [k \in D |-> k]
<1>1. rank \in [D -> Nat]
  OBVIOUS
<1>2. ASSUME NEW k \in D, \A j \in D : rank[j] < rank[k] => j \in Good
      PROVE  k \in Good
  <2>1. CASE k = 0
    BY <2>1
  <2>2. CASE k # 0
    <3>1. k \in 1 .. n /\ k - 1 \in 0 .. n /\ rank[k - 1] < rank[k]
      BY <2>2
    <3> QED BY <1>2, <3>1
  <2> QED BY <2>1, <2>2
<1> HIDE DEF D, rank
<1>3. \A k \in D : k \in Good
  BY <1>1, <1>2, ByRank
<1> QED BY <1>3 DEF D

\* The product of the first k elements.
ProductOf(iter, ys) ==
  iter = [s \in SUBSET DOMAIN ys |-> IF s = {} THEN 1 ELSE iter[s \ {Max(s)}] * ys[Max(s)]]

IsProducts(p, ys) ==
  /\ p \in [0 .. Len(ys) -> Int] /\ p[0] = 1
  /\ \A k \in 1 .. Len(ys) : p[k] = p[k - 1] * ys[k]

LEMMA Initial ==
  ASSUME NEW n \in Nat, NEW k \in 1 .. n
  PROVE  /\ 1 .. k \in SUBSET (1 .. n) /\ 1 .. k # {}
         /\ Max(1 .. k) = k /\ (1 .. k) \ {k} = 1 .. k - 1
<1>1. 1 .. k \in SUBSET (1 .. n) /\ k \in 1 .. k
  OBVIOUS
<1>2. Max(1 .. k) \in 1 .. k /\ \A y \in 1 .. k : Max(1 .. k) >= y
  BY <1>1, MaxOf
<1>3. Max(1 .. k) >= k
  BY <1>1, <1>2
<1> QED BY <1>1, <1>2, <1>3

LEMMA ProductSolved ==
  ASSUME NEW ys \in Seq(Int)
  PROVE  \E iter : ProductOf(iter, ys) /\ product(ys) = iter[DOMAIN ys]
<1> DEFINE n == Len(ys)  step == [p \in Int \X (1 .. n) |-> p[1] * ys[p[2]]]
<1>1. n \in Nat /\ DOMAIN ys = 1 .. n /\ \A k \in 1 .. n : ys[k] \in Int
  OBVIOUS
<1>2. step \in [Int \X (1 .. n) -> Int]
  BY <1>1
<1> HIDE DEF n, step
<1>3. PICK iter : FoldsBy(iter, n, 1, step)
  <2>1. n \in Nat /\ 1 \in Int
    BY <1>1
  <2> QED BY <1>2, <2>1, PrefixFolds, Zenon
<1>4. ASSUME NEW s \in SUBSET (1 .. n)
      PROVE  iter[s] = IF s = {} THEN 1 ELSE iter[s \ {Max(s)}] * ys[Max(s)]
  <2>1. CASE s # {}
    <3>1. Max(s) \in 1 .. n /\ s \ {Max(s)} \in SUBSET (1 .. n)
      BY <1>1, <2>1, MaxOf
    <3>2. iter[s \ {Max(s)}] \in Int
      BY <1>3, <3>1 DEF FoldsBy
    <3> QED BY <1>3, <2>1, <3>1, <3>2 DEF FoldsBy, step
  <2>2. CASE s = {}
    BY <1>3, <2>2 DEF FoldsBy
  <2> QED BY <2>1, <2>2
<1>5. ProductOf(iter, ys)
  BY <1>1, <1>3, <1>4 DEF ProductOf, FoldsBy
<1>6. product(ys) = (CHOOSE f : ProductOf(f, ys))[DOMAIN ys]
  BY Zenon DEF product, FoldLeft, MapThenFoldSet, ProductOf
<1>7. ProductOf(CHOOSE f : ProductOf(f, ys), ys)
  BY <1>5, Zenon
<1> QED BY <1>6, <1>7

LEMMA Products ==
  ASSUME NEW ys \in Seq(Int)
  PROVE  \E p : IsProducts(p, ys) /\ product(ys) = p[Len(ys)]
<1> DEFINE n == Len(ys)
<1>1. n \in Nat /\ DOMAIN ys = 1 .. n /\ \A k \in 1 .. n : ys[k] \in Int
  OBVIOUS
<1>2. PICK iter : ProductOf(iter, ys) /\ product(ys) = iter[DOMAIN ys]
  BY ProductSolved
<1> DEFINE p == [k \in 0 .. n |-> iter[1 .. k]]
           Good == {k \in Nat : p[k] \in Int}
<1>3. p[0] = 1
  <2>1. 1 .. 0 = {} /\ 1 .. 0 \in SUBSET DOMAIN ys
    OBVIOUS
  <2>2. iter[1 .. 0] = 1
    BY <1>2, <2>1 DEF ProductOf
  <2> QED BY <1>1, <2>2
<1>4. \A k \in 1 .. n : p[k] = p[k - 1] * ys[k]
  <2> SUFFICES ASSUME NEW k \in 1 .. n PROVE p[k] = p[k - 1] * ys[k]
    OBVIOUS
  <2>1. /\ 1 .. k \in SUBSET DOMAIN ys /\ 1 .. k # {} /\ Max(1 .. k) = k
        /\ (1 .. k) \ {k} = 1 .. k - 1
    BY <1>1, Initial
  <2>2. iter[1 .. k] = iter[1 .. k - 1] * ys[k]
    BY <1>2, <2>1 DEF ProductOf
  <2> QED BY <1>1, <2>2
<1> HIDE DEF p
<1>5. \A k \in 0 .. n : k \in Good
  <2>1. 0 \in Good
    BY <1>3
  <2>2. ASSUME NEW k \in 1 .. n, k - 1 \in Good PROVE k \in Good
    <3>1. p[k - 1] \in Int /\ ys[k] \in Int /\ k \in Nat
      BY <1>1, <2>2
    <3> QED BY <1>4, <3>1
  <2> HIDE DEF Good
  <2> QED BY <1>1, <2>1, <2>2, ByOne
<1>6. p \in [0 .. n -> Int]
  BY <1>5 DEF p
<1>7. IsProducts(p, ys)
  BY <1>3, <1>4, <1>6 DEF IsProducts
<1>8. p[n] = iter[DOMAIN ys]
  BY <1>1 DEF p
<1> QED BY <1>2, <1>7, <1>8

\* The products are determined by their recursion.
LEMMA ProductsEnd ==
  ASSUME NEW ys \in Seq(Int), NEW p, IsProducts(p, ys)
  PROVE  product(ys) = p[Len(ys)] /\ product(ys) \in Int
<1>1. PICK q : IsProducts(q, ys) /\ product(ys) = q[Len(ys)]
  BY Products
<1>2. Len(ys) \in Nat
  OBVIOUS
<1> DEFINE Good == {k \in Nat : p[k] = q[k]}
<1>3. 0 \in Good
  BY <1>1 DEF IsProducts
<1>4. ASSUME NEW k \in 1 .. Len(ys), k - 1 \in Good PROVE k \in Good
  <2>1. p[k] = p[k - 1] * ys[k] /\ q[k] = q[k - 1] * ys[k] /\ p[k - 1] = q[k - 1] /\ k \in Nat
    BY <1>1, <1>4 DEF IsProducts
  <2> QED BY <2>1
<1>5. \A k \in 0 .. Len(ys) : k \in Good
  <2> HIDE DEF Good
  <2> QED BY <1>2, <1>3, <1>4, ByOne
<1>6. p[Len(ys)] = q[Len(ys)] /\ q[Len(ys)] \in Int
  BY <1>1, <1>2, <1>5 DEF IsProducts
<1> QED BY <1>1, <1>6

LEMMA ProductOfOne ==
  ASSUME NEW x \in Nat
  PROVE  product(<<x>>) = x
<1> DEFINE p == [k \in 0 .. 1 |-> IF k = 0 THEN 1 ELSE x]
<1>1. <<x>> \in Seq(Int) /\ Len(<<x>>) = 1 /\ <<x>>[1] = x
  OBVIOUS
<1>2. IsProducts(p, <<x>>)
  BY <1>1 DEF IsProducts
<1> QED BY <1>1, <1>2, ProductsEnd

LEMMA ProductOfMore ==
  ASSUME NEW x \in Nat, NEW ys \in Seq(Nat)
  PROVE  product(<<x>> \o ys) = x * product(ys)
<1> DEFINE n == Len(ys)  more == <<x>> \o ys
<1>1. /\ n \in Nat /\ ys \in Seq(Int) /\ more \in Seq(Int) /\ Len(more) = n + 1 /\ more[1] = x
      /\ \A k \in 1 .. n : ys[k] \in Nat /\ more[k + 1] = ys[k]
  OBVIOUS
<1>2. PICK p : IsProducts(p, ys) /\ product(ys) = p[n]
  BY <1>1, Products
<1> DEFINE q == [k \in 0 .. n + 1 |-> IF k = 0 THEN 1 ELSE x * p[k - 1]]
<1>3. \A k \in 0 .. n : p[k] \in Int /\ x * p[k] \in Int
  BY <1>1, <1>2 DEF IsProducts
<1>4. q \in [0 .. n + 1 -> Int] /\ q[0] = 1
  BY <1>1, <1>3
<1>5. \A k \in 1 .. n + 1 : q[k] = q[k - 1] * more[k]
  <2> SUFFICES ASSUME NEW k \in 1 .. n + 1 PROVE q[k] = q[k - 1] * more[k]
    OBVIOUS
  <2>1. CASE k = 1
    <3>1. p[0] = 1
      BY <1>2 DEF IsProducts
    <3> QED BY <1>1, <2>1, <3>1
  <2>2. CASE k # 1
    <3>1. k - 1 \in 1 .. n /\ k - 1 - 1 \in 0 .. n /\ k - 1 + 1 = k
      BY <1>1, <2>2
    <3>2. p[k - 1] = p[k - 1 - 1] * ys[k - 1] /\ more[k] = ys[k - 1]
      BY <1>1, <1>2, <3>1 DEF IsProducts
    <3>3. p[k - 1 - 1] \in Int /\ ys[k - 1] \in Int
      BY <1>1, <1>3, <3>1
    <3>4. x * (p[k - 1 - 1] * ys[k - 1]) = (x * p[k - 1 - 1]) * ys[k - 1]
      BY <3>3
    <3>5. q[k] = x * p[k - 1] /\ q[k - 1] = x * p[k - 1 - 1]
      BY <1>1, <2>2, <3>1
    <3> QED BY <3>2, <3>4, <3>5
  <2> QED BY <2>1, <2>2
<1> HIDE DEF q
<1>6. IsProducts(q, more)
  BY <1>1, <1>4, <1>5 DEF IsProducts
<1>7. product(more) = q[n + 1]
  BY <1>1, <1>6, ProductsEnd
<1>8. q[n + 1] = x * p[n]
  BY <1>1 DEF q
<1> QED BY <1>2, <1>7, <1>8

\* One entry of two products.
LEMMA ShorterFactor ==
  ASSUME NEW p \in Int, NEW q \in Int, NEW y \in Int, NEW t \in Int,
         p > 0, -p <= q, q <= p, y > 0, -y <= t, t <= y
  PROVE  /\ p * y > 0 /\ -(p * y) <= q * t /\ q * t <= p * y
         /\ ((-p < q /\ q < p) \/ (-y < t /\ t < y)) => -(p * y) < q * t /\ q * t < p * y
<1>1. (p - q) * (y + t) >= 0 /\ (p + q) * (y - t) >= 0
      /\ (p - q) * (y - t) >= 0 /\ (p + q) * (y + t) >= 0 /\ p * y > 0
  BY SMTT(30)
<1> QED BY <1>1, SMTT(30)

\* A product of entries that are not longer, and of one that is shorter, is another one.
LEMMA Truncated ==
  ASSUME NEW ys \in Seq(Int), NEW ts \in Seq(Int), Len(ts) = Len(ys), NEW j \in 1 .. Len(ys),
         \A k \in 1 .. Len(ys) : ys[k] > 0 /\ -ys[k] <= ts[k] /\ ts[k] <= ys[k],
         -ys[j] < ts[j], ts[j] < ys[j]
  PROVE  product(ts) # product(ys)
<1> DEFINE n == Len(ys)
<1>1. n \in Nat /\ n = Len(ts) /\ \A k \in 1 .. n : ys[k] \in Int /\ ts[k] \in Int
  OBVIOUS
<1>2. PICK p : IsProducts(p, ys) /\ product(ys) = p[n]
  BY Products
<1>3. PICK q : IsProducts(q, ts) /\ product(ts) = q[n]
  BY Products
<1> DEFINE Shorter(k) == -p[k] < q[k] /\ q[k] < p[k]
           Good == {k \in Nat : p[k] > 0 /\ -p[k] <= q[k] /\ q[k] <= p[k] /\ (k >= j => Shorter(k))}
<1>4. \A k \in 0 .. n : p[k] \in Int /\ q[k] \in Int
  BY <1>1, <1>2, <1>3 DEF IsProducts
<1>5. 0 \in Good
  BY <1>2, <1>3 DEF IsProducts
<1>6. ASSUME NEW k \in 1 .. n, k - 1 \in Good PROVE k \in Good
  <2>1. p[k] = p[k - 1] * ys[k] /\ q[k] = q[k - 1] * ts[k]
    BY <1>1, <1>2, <1>3 DEF IsProducts
  <2>2. k - 1 \in 0 .. n /\ k \in Nat /\ j \in Nat
    BY <1>1
  <2>3. /\ p[k - 1] \in Int /\ q[k - 1] \in Int /\ ys[k] \in Int /\ ts[k] \in Int
        /\ p[k - 1] > 0 /\ -p[k - 1] <= q[k - 1] /\ q[k - 1] <= p[k - 1]
        /\ ys[k] > 0 /\ -ys[k] <= ts[k] /\ ts[k] <= ys[k]
    BY <1>1, <1>4, <1>6, <2>2
  <2>4. /\ p[k] > 0 /\ -p[k] <= q[k] /\ q[k] <= p[k]
        /\ Shorter(k - 1) \/ (-ys[k] < ts[k] /\ ts[k] < ys[k]) => Shorter(k)
    BY <2>1, <2>3, ShorterFactor
  <2>5. k >= j => k = j \/ k - 1 >= j
    BY <2>2
  <2> QED BY <1>6, <2>2, <2>4, <2>5
<1>7. \A k \in 0 .. n : k \in Good
  <2> HIDE DEF Good, n
  <2> QED BY <1>1, <1>5, <1>6, ByOne
<1>8. n \in 0 .. n /\ n >= j
  BY <1>1
<1>9. q[n] < p[n] /\ q[n] \in Int /\ p[n] \in Int
  BY <1>4, <1>7, <1>8
<1> QED BY <1>2, <1>3, <1>9

\* The value of the first k digits.
AtohOf(iter, ys) ==
  iter = [s \in SUBSET DOMAIN ys |-> IF s = {} THEN 0 ELSE 10 * iter[s \ {Max(s)}] + ys[Max(s)]]

IsValues(p, ys) ==
  /\ p \in [0 .. Len(ys) -> Nat] /\ p[0] = 0
  /\ \A k \in 1 .. Len(ys) : p[k] = 10 * p[k - 1] + ys[k]

LEMMA AtohSolved ==
  ASSUME NEW ys \in Seq(Nat)
  PROVE  \E iter : AtohOf(iter, ys) /\ atoh(ys) = iter[DOMAIN ys]
<1> DEFINE n == Len(ys)  step == [p \in Int \X (1 .. n) |-> 10 * p[1] + ys[p[2]]]
<1>1. n \in Nat /\ DOMAIN ys = 1 .. n /\ \A k \in 1 .. n : ys[k] \in Nat
  OBVIOUS
<1>2. step \in [Int \X (1 .. n) -> Int]
  BY <1>1
<1> HIDE DEF n, step
<1>3. PICK iter : FoldsBy(iter, n, 0, step)
  <2>1. n \in Nat /\ 0 \in Int
    BY <1>1
  <2> QED BY <1>2, <2>1, PrefixFolds, Zenon
<1>4. ASSUME NEW s \in SUBSET (1 .. n)
      PROVE  iter[s] = IF s = {} THEN 0 ELSE 10 * iter[s \ {Max(s)}] + ys[Max(s)]
  <2>1. CASE s # {}
    <3>1. Max(s) \in 1 .. n /\ s \ {Max(s)} \in SUBSET (1 .. n)
      BY <1>1, <2>1, MaxOf
    <3>2. iter[s \ {Max(s)}] \in Int
      BY <1>3, <3>1 DEF FoldsBy
    <3> QED BY <1>3, <2>1, <3>1, <3>2 DEF FoldsBy, step
  <2>2. CASE s = {}
    BY <1>3, <2>2 DEF FoldsBy
  <2> QED BY <2>1, <2>2
<1>5. AtohOf(iter, ys)
  BY <1>1, <1>3, <1>4 DEF AtohOf, FoldsBy
<1>6. atoh(ys) = (CHOOSE f : AtohOf(f, ys))[DOMAIN ys]
  BY Zenon DEF atoh, FoldLeft, MapThenFoldSet, AtohOf
<1>7. AtohOf(CHOOSE f : AtohOf(f, ys), ys)
  BY <1>5, Zenon
<1> QED BY <1>6, <1>7

LEMMA Values ==
  ASSUME NEW ys \in Seq(Nat)
  PROVE  \E p : IsValues(p, ys) /\ atoh(ys) = p[Len(ys)]
<1> DEFINE n == Len(ys)
<1>1. n \in Nat /\ DOMAIN ys = 1 .. n /\ \A k \in 1 .. n : ys[k] \in Nat
  OBVIOUS
<1>2. PICK iter : AtohOf(iter, ys) /\ atoh(ys) = iter[DOMAIN ys]
  BY AtohSolved
<1> DEFINE p == [k \in 0 .. n |-> iter[1 .. k]]
           Good == {k \in Nat : p[k] \in Nat}
<1>3. p[0] = 0
  <2>1. 1 .. 0 = {} /\ 1 .. 0 \in SUBSET DOMAIN ys
    OBVIOUS
  <2>2. iter[1 .. 0] = 0
    BY <1>2, <2>1 DEF AtohOf
  <2> QED BY <1>1, <2>2
<1>4. \A k \in 1 .. n : p[k] = 10 * p[k - 1] + ys[k]
  <2> SUFFICES ASSUME NEW k \in 1 .. n PROVE p[k] = 10 * p[k - 1] + ys[k]
    OBVIOUS
  <2>1. /\ 1 .. k \in SUBSET DOMAIN ys /\ 1 .. k # {} /\ Max(1 .. k) = k
        /\ (1 .. k) \ {k} = 1 .. k - 1
    BY <1>1, Initial
  <2>2. iter[1 .. k] = 10 * iter[1 .. k - 1] + ys[k]
    BY <1>2, <2>1 DEF AtohOf
  <2> QED BY <1>1, <2>2
<1> HIDE DEF p
<1>5. \A k \in 0 .. n : k \in Good
  <2>1. 0 \in Good
    BY <1>3
  <2>2. ASSUME NEW k \in 1 .. n, k - 1 \in Good PROVE k \in Good
    <3>1. p[k - 1] \in Nat /\ ys[k] \in Nat /\ k \in Nat
      BY <1>1, <2>2
    <3> QED BY <1>4, <3>1
  <2> HIDE DEF Good
  <2> QED BY <1>1, <2>1, <2>2, ByOne
<1>6. p \in [0 .. n -> Nat]
  BY <1>5 DEF p
<1>7. IsValues(p, ys)
  BY <1>3, <1>4, <1>6 DEF IsValues
<1>8. p[n] = iter[DOMAIN ys]
  BY <1>1 DEF p
<1> QED BY <1>2, <1>7, <1>8

\* The values are determined by their recursion.
LEMMA ValuesEnd ==
  ASSUME NEW ys \in Seq(Nat), NEW p, IsValues(p, ys)
  PROVE  atoh(ys) = p[Len(ys)] /\ atoh(ys) \in Nat
<1>1. PICK q : IsValues(q, ys) /\ atoh(ys) = q[Len(ys)]
  BY Values
<1>2. Len(ys) \in Nat
  OBVIOUS
<1> DEFINE Good == {k \in Nat : p[k] = q[k]}
<1>3. 0 \in Good
  BY <1>1 DEF IsValues
<1>4. ASSUME NEW k \in 1 .. Len(ys), k - 1 \in Good PROVE k \in Good
  <2>1. p[k] = 10 * p[k - 1] + ys[k] /\ q[k] = 10 * q[k - 1] + ys[k] /\ p[k - 1] = q[k - 1] /\ k \in Nat
    BY <1>1, <1>4 DEF IsValues
  <2> QED BY <2>1
<1>5. \A k \in 0 .. Len(ys) : k \in Good
  <2> HIDE DEF Good
  <2> QED BY <1>2, <1>3, <1>4, ByOne
<1>6. p[Len(ys)] = q[Len(ys)] /\ q[Len(ys)] \in Nat
  BY <1>1, <1>2, <1>5 DEF IsValues
<1> QED BY <1>1, <1>6

LEMMA AtohOfNone == atoh(<<>>) = 0
<1> DEFINE p == [k \in 0 .. 0 |-> 0]
<1>1. <<>> \in Seq(Nat) /\ Len(<<>>) = 0
  OBVIOUS
<1>2. IsValues(p, <<>>)
  BY <1>1 DEF IsValues
<1> QED BY <1>1, <1>2, ValuesEnd

LEMMA AtohOfMore ==
  ASSUME NEW ys \in Seq(Nat), NEW d \in Nat
  PROVE  atoh(Append(ys, d)) = 10 * atoh(ys) + d
<1> DEFINE n == Len(ys)  more == Append(ys, d)
<1>1. /\ n \in Nat /\ more \in Seq(Nat) /\ Len(more) = n + 1 /\ more[n + 1] = d
      /\ \A k \in 1 .. n : ys[k] \in Nat /\ more[k] = ys[k]
  OBVIOUS
<1>2. PICK p : IsValues(p, ys) /\ atoh(ys) = p[n]
  BY Values
<1> DEFINE q == [k \in 0 .. n + 1 |-> IF k = n + 1 THEN 10 * p[n] + d ELSE p[k]]
<1>3. \A k \in 0 .. n : p[k] \in Nat
  BY <1>1, <1>2 DEF IsValues
<1>4. q \in [0 .. n + 1 -> Nat] /\ q[0] = 0
  <2>1. p[n] \in Nat /\ p[0] = 0
    BY <1>1, <1>2, <1>3 DEF IsValues
  <2> QED BY <1>1, <1>3, <2>1
<1>5. \A k \in 1 .. n + 1 : q[k] = 10 * q[k - 1] + more[k]
  <2> SUFFICES ASSUME NEW k \in 1 .. n + 1 PROVE q[k] = 10 * q[k - 1] + more[k]
    OBVIOUS
  <2>1. CASE k = n + 1
    BY <1>1, <2>1
  <2>2. CASE k # n + 1
    <3>1. k \in 1 .. n /\ k - 1 \in 0 .. n
      BY <1>1, <2>2
    <3>2. p[k] = 10 * p[k - 1] + ys[k]
      BY <1>2, <3>1 DEF IsValues
    <3> QED BY <1>1, <3>1, <3>2
  <2> QED BY <2>1, <2>2
<1>6. q[n + 1] = 10 * p[n] + d
  BY <1>1
<1> HIDE DEF q, more
<1>7. IsValues(q, more)
  BY <1>1, <1>4, <1>5 DEF IsValues
<1>8. atoh(more) = q[n + 1]
  BY <1>1, <1>7, ValuesEnd
<1> QED BY <1>2, <1>6, <1>8 DEF more

\* The digits come out of the divisions backwards.
LowOf(low, xx) ==
  low = [x \in 0 .. xx |-> IF x = 0 THEN <<>> ELSE <<x % 10>> \o low[x \div 10]]

LEMMA Tenth ==
  ASSUME NEW x \in Nat \ {0}
  PROVE  /\ x % 10 \in 0 .. 9 /\ x \div 10 \in Nat /\ x \div 10 < x
         /\ x = 10 * (x \div 10) + (x % 10)
OBVIOUS

LEMMA LowSolved ==
  ASSUME NEW xx \in Nat
  PROVE  \E low \in [0 .. xx -> Seq(Nat)] : LowOf(low, xx)
<1> DEFINE D == 0 .. xx
           base == [x \in D |-> <<>>]
           op == [p \in D \X Seq(Nat) |-> <<p[1] % 10>> \o p[2]]
           next == [x \in D |-> x \div 10]
           rank == [x \in D |-> x]
<1>1. base \in [D -> Seq(Nat)] /\ rank \in [D -> Nat] /\ \A x \in D : rank[x] <= xx
  OBVIOUS
<1>2. op \in [D \X Seq(Nat) -> Seq(Nat)]
  <2>1. ASSUME NEW p \in D \X Seq(Nat) PROVE <<p[1] % 10>> \o p[2] \in Seq(Nat)
    <3>1. p[1] \in Nat /\ p[2] \in Seq(Nat)
      OBVIOUS
    <3>2. p[1] % 10 \in Nat
      BY <3>1
    <3> QED BY <3>1, <3>2
  <2> QED BY <2>1
<1>3. ASSUME NEW x \in D, x \notin {0} PROVE next[x] \in D /\ rank[next[x]] < rank[x]
  <2>1. x \in Nat \ {0} /\ next[x] = x \div 10 /\ rank[x] = x
    BY <1>3
  <2>2. next[x] \in Nat /\ next[x] < x
    BY <2>1, Tenth
  <2>3. next[x] \in D
    BY <2>2
  <2>4. rank[next[x]] = next[x]
    BY <2>3
  <2> QED BY <2>1, <2>2, <2>3, <2>4
<1> HIDE DEF D, base, op, next, rank
<1>4. PICK f \in [D -> Seq(Nat)] : Solves(f, D, {0}, base, op, next)
  BY <1>1, <1>2, <1>3, Recursion
<1>5. ASSUME NEW x \in D
      PROVE  f[x] = IF x = 0 THEN <<>> ELSE <<x % 10>> \o f[x \div 10]
  <2>1. f[x] = IF x = 0 THEN base[x] ELSE op[<<x, f[next[x]]>>]
    BY <1>4 DEF Solves
  <2>2. base[x] = <<>> /\ next[x] = x \div 10
    BY DEF base, next
  <2>3. CASE x # 0
    <3>1. f[next[x]] \in Seq(Nat)
      BY <1>3, <2>3
    <3>2. op[<<x, f[next[x]]>>] = <<x % 10>> \o f[next[x]]
      BY <3>1 DEF op
    <3> QED BY <2>1, <2>2, <2>3, <3>2
  <2> QED BY <2>1, <2>2, <2>3
<1>6. LowOf(f, xx)
  BY <1>5 DEF LowOf, D
<1> QED BY <1>6 DEF D

LEMMA ReversedMore ==
  ASSUME NEW ys \in Seq(Nat), NEW d \in Nat
  PROVE  /\ Reverse(ys) \in Seq(Nat)
         /\ Reverse(<<d>> \o ys) = Append(Reverse(ys), d)
<1> DEFINE n == Len(ys)  more == <<d>> \o ys
<1>1. /\ n \in Nat /\ more \in Seq(Nat) /\ Len(more) = n + 1 /\ more[1] = d
      /\ \A k \in 1 .. n : ys[k] \in Nat /\ more[k + 1] = ys[k]
  OBVIOUS
<1>2. Reverse(ys) = [k \in 1 .. n |-> ys[n - k + 1]]
  BY DEF Reverse
<1>3. Reverse(ys) \in Seq(Nat) /\ Len(Reverse(ys)) = n
  <2>1. \A k \in 1 .. n : n - k + 1 \in 1 .. n
    BY <1>1
  <2> QED BY <1>1, <1>2, <2>1
<1>4. Reverse(more) = [k \in 1 .. n + 1 |-> more[n + 1 - k + 1]]
  BY <1>1 DEF Reverse
<1>5. ASSUME NEW k \in 1 .. n + 1 PROVE Reverse(more)[k] = Append(Reverse(ys), d)[k]
  <2>1. CASE k = n + 1
    BY <1>1, <1>3, <1>4, <2>1
  <2>2. CASE k # n + 1
    <3>1. k \in 1 .. n /\ n - k + 1 \in 1 .. n /\ n + 1 - k + 1 = (n - k + 1) + 1
      BY <1>1, <2>2
    <3>2. Reverse(more)[k] = ys[n - k + 1]
      BY <1>1, <1>4, <3>1
    <3>3. Append(Reverse(ys), d)[k] = Reverse(ys)[k]
      BY <1>3, <3>1
    <3> QED BY <1>2, <3>1, <3>2, <3>3
  <2> QED BY <2>1, <2>2
<1>6. Append(Reverse(ys), d) \in Seq(Nat) /\ Len(Append(Reverse(ys), d)) = n + 1
  BY <1>1, <1>3
<1>7. Reverse(more) \in Seq(Nat) /\ Len(Reverse(more)) = n + 1
  <2>1. \A k \in 1 .. n + 1 : n + 1 - k + 1 \in 1 .. n + 1
    BY <1>1
  <2>2. \A k \in 1 .. n + 1 : more[n + 1 - k + 1] \in Nat
    BY <1>1, <2>1
  <2>3. Reverse(more) \in [1 .. n + 1 -> Nat]
    BY <1>4, <2>2
  <2>4. n + 1 \in Nat
    BY <1>1
  <2> HIDE DEF n, more
  <2> QED BY <2>3, <2>4
<1> HIDE DEF more
<1>8. Reverse(more) = Append(Reverse(ys), d)
  BY <1>5, <1>6, <1>7, SeqEqual
<1> QED BY <1>3, <1>8 DEF more

\* What is printed reads back as the number.
LEMMA PrintsAndReads ==
  ASSUME NEW xx \in Nat
  PROVE  atoh(print_int128(xx)) = xx
<1> DEFINE D == 0 .. xx
           low == CHOOSE f : LowOf(f, xx)
           Good == {x \in D : low[x] \in Seq(Nat) /\ atoh(Reverse(low[x])) = x}
           rank == [x \in D |-> x]
<1>1. print_int128(xx) = Reverse(low[xx])
  BY Zenon DEF print_int128, LowOf
<1>2. LowOf(low, xx)
  <2>1. \E f : LowOf(f, xx)
    BY LowSolved
  <2> QED BY <2>1, Zenon
<1> HIDE DEF low
<1>3. \A x \in D : low[x] = IF x = 0 THEN <<>> ELSE <<x % 10>> \o low[x \div 10]
  BY <1>2 DEF LowOf
<1>4. ASSUME NEW x \in D, \A y \in D : rank[y] < rank[x] => y \in Good PROVE x \in Good
  <2>1. CASE x = 0
    <3>1. low[0] = <<>> /\ <<>> \in Seq(Nat)
      <4>1. 0 \in D
        OBVIOUS
      <4> HIDE DEF D
      <4>2. low[0] = IF 0 = 0 THEN <<>> ELSE <<0 % 10>> \o low[0 \div 10]
        BY <1>3, <4>1
      <4> QED BY <4>2
    <3>2. Reverse(<<>>) = <<>>
      BY DEF Reverse
    <3> QED BY <2>1, <3>1, <3>2, AtohOfNone
  <2>2. CASE x # 0
    <3>1. /\ x % 10 \in Nat /\ x \div 10 \in Nat /\ x \div 10 < x
          /\ x = 10 * (x \div 10) + (x % 10)
      BY <2>2, Tenth
    <3>2. x \div 10 \in D
      BY <3>1
    <3>3. low[x \div 10] \in Seq(Nat) /\ atoh(Reverse(low[x \div 10])) = x \div 10
      BY <1>4, <3>1, <3>2
    <3>4. low[x] = <<x % 10>> \o low[x \div 10]
      BY <1>3, <2>2
    <3>5. low[x] \in Seq(Nat)
      BY <3>1, <3>3, <3>4
    <3>6. /\ Reverse(low[x \div 10]) \in Seq(Nat)
          /\ Reverse(low[x]) = Append(Reverse(low[x \div 10]), x % 10)
      BY <3>1, <3>3, <3>4, ReversedMore
    <3>7. atoh(Reverse(low[x])) = 10 * (x \div 10) + (x % 10)
      BY <3>1, <3>3, <3>6, AtohOfMore
    <3> QED BY <3>1, <3>5, <3>7
  <2> QED BY <2>1, <2>2
<1>5. rank \in [D -> Nat]
  OBVIOUS
<1>6. \A x \in D : x \in Good
  <2> HIDE DEF D, Good, rank
  <2> QED BY <1>4, <1>5, ByRank
<1>7. xx \in D
  OBVIOUS
<1> QED BY <1>1, <1>6, <1>7

-----------------------------------------------------------------------------
(***************************************************************************)
(* Division and roots.                                                     *)
(***************************************************************************)
Divides(d, x) == \E q \in Nat : x = d * q

LEMMA Division ==
  ASSUME NEW x \in Nat, NEW d \in Nat \ {0}
  PROVE  x \div d \in Nat /\ x % d \in 0 .. d - 1 /\ x = d * (x \div d) + (x % d)
OBVIOUS

LEMMA NoRest ==
  ASSUME NEW x \in Nat, NEW d \in Nat \ {0}
  PROVE  /\ x % d = 0 <=> Divides(d, x)
         /\ x % d = 0 => x = d * (x \div d)
<1>1. x \div d \in Nat /\ x % d \in 0 .. d - 1 /\ x = d * (x \div d) + (x % d)
  BY Division
<1>2. x % d = 0 => x = d * (x \div d)
  BY <1>1
<1>3. ASSUME NEW q \in Nat, x = d * q PROVE x % d = 0
  <2> DEFINE e == x \div d  r == x % d
  <2>1. e \in Nat /\ r \in Nat /\ r < d /\ d * q = d * e + r
    BY <1>1, <1>3
  <2> HIDE DEF e, r
  <2>2. CASE q > e
    <3>1. d * q >= d * (e + 1)
      BY <2>1, <2>2
    <3>2. d * (e + 1) = d * e + d
      BY <2>1
    <3> QED BY <2>1, <3>1, <3>2
  <2>3. CASE q <= e
    <3>1. d * q <= d * e
      BY <2>1, <2>3
    <3>2. d * q \in Nat /\ d * e \in Nat
      BY <2>1
    <3> QED BY <2>1, <3>1, <3>2 DEF r
  <2> QED BY <2>1, <2>2, <2>3
<1> QED BY <1>1, <1>2, <1>3 DEF Divides

LEMMA DividesMore ==
  ASSUME NEW d \in Nat, NEW x \in Nat, NEW y \in Nat, Divides(d, x)
  PROVE  Divides(d, x * y) /\ Divides(d, y * x)
<1>1. PICK q \in Nat : x = d * q
  BY DEF Divides
<1>2. q * y \in Nat /\ (d * q) * y = d * (q * y) /\ y * (d * q) = d * (q * y)
  OBVIOUS
<1> QED BY <1>1, <1>2 DEF Divides

LEMMA Root ==
  ASSUME NEW x \in Nat \ {0}
  PROVE  /\ isqrt(x) \in 1 .. x /\ isqrt(x) * isqrt(x) >= x
         /\ (isqrt(x) - 1) * (isqrt(x) - 1) < x
<1> DEFINE Large == {y \in Nat : y * y >= x}
<1>1. x \in Large
  OBVIOUS
<1>2. PICK r \in Large : \A y \in Large : ~(y < r)
  BY <1>1, Least
<1>3. r \in Nat /\ r * r >= x /\ r # 0
  OBVIOUS
<1>4. r <= x
  BY <1>1, <1>2, <1>3
<1>5. r - 1 \in Nat /\ r - 1 \notin Large
  BY <1>2, <1>3
<1>6. (r - 1) * (r - 1) \in Nat /\ (r - 1) * (r - 1) < x
  BY <1>5
<1> DEFINE Is(yy) == yy * yy >= x /\ (yy = 0 \/ (yy - 1) * (yy - 1) < x)
<1>7. r \in 0 .. x /\ Is(r)
  BY <1>3, <1>4, <1>6
<1>8. isqrt(x) \in 0 .. x /\ Is(isqrt(x))
  <2>1. isqrt(x) = CHOOSE yy \in 0 .. x : Is(yy)
    BY DEF isqrt
  <2> HIDE DEF Is
  <2> QED BY <1>7, <2>1
<1>9. isqrt(x) # 0
  <2> SUFFICES ASSUME isqrt(x) = 0 PROVE FALSE
    OBVIOUS
  <2>1. 0 * 0 >= x
    BY <1>8
  <2> QED BY <2>1
<1> QED BY <1>8, <1>9

\* No more than the root is a square that is no more than the number.
LEMMA BelowRoot ==
  ASSUME NEW x \in Nat \ {0}, NEW a \in Nat, a * a <= x
  PROVE  a <= isqrt(x)
<1> DEFINE r == isqrt(x)
<1>1. r \in Nat /\ r * r >= x
  BY Root
<1> HIDE DEF r
<1> SUFFICES ASSUME a >= r + 1 PROVE FALSE
  BY <1>1 DEF r
<1>2. a * a >= (r + 1) * (r + 1)
  BY <1>1
<1>3. (r + 1) * (r + 1) = r * r + 2 * r + 1
  BY <1>1
<1>4. r * r \in Nat /\ a * a \in Nat
  BY <1>1
<1> QED BY <1>1, <1>2, <1>3, <1>4

NoneBelow(x, k) == \A d \in 2 .. k - 1 : ~Divides(d, x)

\* A number without a divisor up to its root is prime.
LEMMA NoneToRoot ==
  ASSUME NEW x \in Nat, x > 1, NEW k \in Nat, k > isqrt(x), NoneBelow(x, k)
  PROVE  Prime(x)
<1> SUFFICES ASSUME NEW d \in 2 .. x - 1, x % d = 0 PROVE FALSE
  BY DEF Prime
<1>1. d \in Nat \ {0} /\ d > 1 /\ d < x
  OBVIOUS
<1>2. PICK q \in Nat : x = d * q
  BY <1>1, NoRest DEF Divides
<1>3. q > 1
  <2>1. q # 0 /\ q # 1
    BY <1>1, <1>2
  <2> QED BY <2>1
<1>4. isqrt(x) \in Nat
  BY Root
<1>5. CASE d <= q
  <2>1. d * d <= x
    BY <1>1, <1>2, <1>5
  <2>2. d < k
    BY <1>1, <1>4, <2>1, BelowRoot
  <2>3. Divides(d, x) /\ d \in 2 .. k - 1
    BY <1>1, <1>2, <2>2 DEF Divides
  <2> QED BY <2>3 DEF NoneBelow
<1>6. CASE q < d
  <2>1. q * q <= x /\ x = q * d
    BY <1>1, <1>2, <1>6
  <2>2. q < k
    BY <1>4, <2>1, BelowRoot
  <2>3. Divides(q, x) /\ q \in 2 .. k - 1
    BY <1>1, <1>3, <2>1, <2>2 DEF Divides
  <2> QED BY <2>3 DEF NoneBelow
<1> QED BY <1>1, <1>5, <1>6

\* The least divisor is prime.
LEMMA LeastDivisor ==
  ASSUME NEW x \in Nat, NEW k \in Nat, k > 1, Divides(k, x), NoneBelow(x, k)
  PROVE  Prime(k)
<1> SUFFICES ASSUME NEW d \in 2 .. k - 1, k % d = 0 PROVE FALSE
  BY DEF Prime
<1>1. d \in Nat \ {0}
  OBVIOUS
<1>2. Divides(d, k)
  BY <1>1, NoRest
<1>3. PICK q \in Nat : x = k * q
  BY DEF Divides
<1>4. Divides(d, x)
  BY <1>1, <1>2, <1>3, DividesMore
<1> QED BY <1>4 DEF NoneBelow

-----------------------------------------------------------------------------
(***************************************************************************)
(* Trial division.                                                         *)
(***************************************************************************)
OddArgs(xx) == (1 .. xx) \X (3 .. xx + 5)

OddOf(odd, xx) ==
  odd = [s \in OddArgs(xx) |->
           IF s[2] > isqrt(s[1]) THEN <<s[1]>>
           ELSE IF s[1] % s[2] = 0 THEN <<s[2]>> \o odd[<<s[1] \div s[2], 3>>]
           ELSE odd[<<s[1], s[2] + 2>>]]

\* The search goes on with a smaller number, or the next divisor.
Onwards(s) == IF s[1] % s[2] = 0 THEN <<s[1] \div s[2], 3>> ELSE <<s[1], s[2] + 2>>

OddRank(s, xx) == s[1] * (xx + 6) + (xx + 5 - s[2])

\* The next divisor is in range as long as the search goes on, and a divisor is none of the
\* number itself alone.
LEMMA OddGoesOn ==
  ASSUME NEW xx \in Nat, NEW x \in 1 .. xx, NEW k \in 3 .. xx + 5, k <= isqrt(x)
  PROVE  /\ k + 2 \in 3 .. xx + 5
         /\ x % k = 0 => /\ x \div k \in 2 .. x - 1 /\ x = k * (x \div k)
<1>1. isqrt(x) \in 1 .. x /\ (isqrt(x) - 1) * (isqrt(x) - 1) < x
  BY Root
<1>2. k + 2 \in 3 .. xx + 5
  BY <1>1
<1>3. ASSUME x % k = 0 PROVE x \div k \in 2 .. x - 1 /\ x = k * (x \div k)
  <2>1. PICK q : q = x \div k
    OBVIOUS
  <2>2. q \in Nat /\ x = k * q
    BY <1>3, <2>1, NoRest, Division
  <2>3. q # 0
    BY <2>2
  <2>4. q # 1
    <3> SUFFICES ASSUME q = 1 PROVE FALSE
      OBVIOUS
    <3>1. x = k /\ k \in Nat
      BY <2>2
    <3>2. isqrt(x) = k
      BY <1>1, <3>1
    <3>3. (k - 1) * (k - 1) < k
      BY <1>1, <3>1, <3>2
    <3>4. (k - 1) * (k - 1) >= 2 * (k - 1)
      OBVIOUS
    <3> QED BY <3>1, <3>3, <3>4
  <2>5. q < x
    <3>1. k * q >= 3 * q
      BY <2>2
    <3> QED BY <2>2, <2>3, <3>1
  <2> QED BY <2>1, <2>2, <2>3, <2>4, <2>5
<1> QED BY <1>2, <1>3

LEMMA OddDescends ==
  ASSUME NEW xx \in Nat \ {0}, NEW s \in OddArgs(xx), s[2] <= isqrt(s[1])
  PROVE  /\ Onwards(s) \in OddArgs(xx)
         /\ OddRank(Onwards(s), xx) < OddRank(s, xx)
<1> DEFINE x == s[1]  k == s[2]  m == xx + 6
<1>1. x \in 1 .. xx /\ k \in 3 .. xx + 5
  BY DEF OddArgs
<1> HIDE DEF x, k
<1>2. CASE x % k = 0
  <2>1. PICK q : q = x \div k
    OBVIOUS
  <2>2. q \in 2 .. x - 1
    BY <1>1, <1>2, <2>1, OddGoesOn DEF x, k
  <2>3. Onwards(s) = <<q, 3>>
    BY <1>2, <2>1 DEF Onwards, x, k
  <2>4. Onwards(s) \in OddArgs(xx)
    BY <1>1, <2>2, <2>3 DEF OddArgs
  <2>5. q * m <= (x - 1) * m
    BY <1>1, <2>2
  <2>6. (x - 1) * m = x * m - m
    BY <1>1
  <2>7. q * m \in Int /\ x * m \in Int
    BY <1>1, <2>2
  <2>8. q * m + (xx + 5 - 3) < x * m + (xx + 5 - k)
    BY <1>1, <2>5, <2>6, <2>7
  <2>9. OddRank(Onwards(s), xx) = q * m + (xx + 5 - 3) /\ OddRank(s, xx) = x * m + (xx + 5 - k)
    BY <2>3 DEF OddRank, x, k
  <2> QED BY <2>4, <2>8, <2>9
<1>3. CASE x % k # 0
  <2>1. Onwards(s) = <<x, k + 2>>
    BY <1>3 DEF Onwards, x, k
  <2>2. k + 2 \in 3 .. xx + 5
    BY <1>1, OddGoesOn DEF x, k
  <2>3. Onwards(s) \in OddArgs(xx)
    BY <1>1, <2>1, <2>2 DEF OddArgs
  <2>4. x * m \in Int
    BY <1>1
  <2>5. x * m + (xx + 5 - (k + 2)) < x * m + (xx + 5 - k)
    BY <1>1, <2>4
  <2>6. /\ OddRank(Onwards(s), xx) = x * m + (xx + 5 - (k + 2))
        /\ OddRank(s, xx) = x * m + (xx + 5 - k)
    BY <2>1 DEF OddRank, x, k
  <2> QED BY <2>3, <2>5, <2>6
<1> QED BY <1>2, <1>3

LEMMA OddRankType ==
  ASSUME NEW xx \in Nat \ {0}, NEW s \in OddArgs(xx)
  PROVE  OddRank(s, xx) \in Nat /\ OddRank(s, xx) <= xx * (xx + 6) + (xx + 5)
<1> DEFINE x == s[1]  k == s[2]  m == xx + 6
<1>1. x \in 1 .. xx /\ k \in 3 .. xx + 5
  BY DEF OddArgs
<1> HIDE DEF x, k
<1>2. x * m \in Nat /\ x * m <= xx * m
  BY <1>1
<1>3. xx * m \in Nat
  OBVIOUS
<1>4. x * m + (xx + 5 - k) \in Nat /\ x * m + (xx + 5 - k) <= xx * m + (xx + 5)
  BY <1>1, <1>2, <1>3
<1> QED BY <1>4 DEF OddRank, x, k

\* The odd part of factor is defined for every number.
LEMMA OddSolved ==
  ASSUME NEW xx \in Nat \ {0}
  PROVE  \E odd : OddOf(odd, xx)
<1> DEFINE D == OddArgs(xx)
           stop == {s \in D : s[2] > isqrt(s[1])}
           base == [s \in D |-> <<s[1]>>]
           op == [p \in D \X Seq(Nat) |-> IF p[1][1] % p[1][2] = 0 THEN <<p[1][2]>> \o p[2]
                                          ELSE p[2]]
           next == [s \in D |-> Onwards(s)]
           rank == [s \in D |-> OddRank(s, xx)]
           bound == xx * (xx + 6) + (xx + 5)
<1>1. \A s \in D : s[1] \in Nat /\ s[2] \in Nat
  BY DEF OddArgs
<1>2. base \in [D -> Seq(Nat)]
  BY <1>1
<1>3. op \in [D \X Seq(Nat) -> Seq(Nat)]
  <2>1. ASSUME NEW p \in D \X Seq(Nat)
        PROVE  (IF p[1][1] % p[1][2] = 0 THEN <<p[1][2]>> \o p[2] ELSE p[2]) \in Seq(Nat)
    <3>1. p[1] \in D /\ p[2] \in Seq(Nat)
      OBVIOUS
    <3>2. <<p[1][2]>> \o p[2] \in Seq(Nat)
      BY <1>1, <3>1
    <3> QED BY <3>1, <3>2
  <2> HIDE DEF D
  <2> QED BY <2>1
<1>4. rank \in [D -> Nat] /\ \A s \in D : rank[s] <= bound
  BY OddRankType
<1>5. bound \in Nat
  OBVIOUS
<1>6. ASSUME NEW s \in D, s \notin stop PROVE next[s] \in D /\ rank[next[s]] < rank[s]
  <2>1. isqrt(s[1]) \in Nat
    <3>1. s[1] \in Nat \ {0}
      BY DEF OddArgs
    <3>2. isqrt(s[1]) \in 1 .. s[1]
      BY <3>1, Root, Zenon
    <3> QED BY <3>1, <3>2
  <2>2. s[2] <= isqrt(s[1])
    BY <1>1, <1>6, <2>1
  <2>3. Onwards(s) \in D /\ OddRank(Onwards(s), xx) < OddRank(s, xx)
    BY <2>2, OddDescends
  <2> QED BY <2>3
<1> HIDE DEF D, base, op, next, rank, bound
<1>7. PICK f \in [D -> Seq(Nat)] : Solves(f, D, stop, base, op, next)
  BY <1>2, <1>3, <1>4, <1>5, <1>6, Recursion
<1>8. ASSUME NEW s \in D
      PROVE  f[s] = IF s[2] > isqrt(s[1]) THEN <<s[1]>>
                    ELSE IF s[1] % s[2] = 0 THEN <<s[2]>> \o f[<<s[1] \div s[2], 3>>]
                    ELSE f[<<s[1], s[2] + 2>>]
  <2>1. f[s] = IF s \in stop THEN base[s] ELSE op[<<s, f[next[s]]>>]
    BY <1>7 DEF Solves
  <2>2. base[s] = <<s[1]>> /\ next[s] = Onwards(s)
    BY DEF base, next
  <2>3. CASE s \in stop
    BY <2>1, <2>2, <2>3
  <2>4. CASE s \notin stop
    <3>1. f[next[s]] \in Seq(Nat)
      BY <1>6, <2>4
    <3>2. op[<<s, f[next[s]]>>] = IF s[1] % s[2] = 0 THEN <<s[2]>> \o f[next[s]] ELSE f[next[s]]
      BY <3>1 DEF op
    <3>3. ~(s[2] > isqrt(s[1]))
      BY <2>4
    <3> QED BY <2>1, <2>2, <2>4, <3>2, <3>3 DEF Onwards
  <2> QED BY <2>3, <2>4
<1>9. OddOf(f, xx)
  <2> HIDE DEF stop
  <2> QED BY <1>8 DEF OddOf, D
<1> QED BY <1>9

\* Prime factors of x, the smallest first.
PrimesOf(out, x) ==
  /\ out \in Seq(Nat) /\ Len(out) > 0 /\ product(out) = x
  /\ \A i \in 1 .. Len(out) : Prime(out[i]) /\ Divides(out[i], x)
  /\ \A i \in 1 .. Len(out) - 1 : out[i] <= out[i + 1]

\* Twos and a 1.
TwosOf(out, x) ==
  /\ out \in Seq(Nat) /\ Len(out) > 0 /\ product(out) = x
  /\ out[Len(out)] = 1 /\ \A i \in 1 .. Len(out) - 1 : out[i] = 2

LEMMA Consed ==
  ASSUME NEW y \in Nat, NEW ys \in Seq(Nat)
  PROVE  /\ <<y>> \o ys \in Seq(Nat) /\ Len(<<y>> \o ys) = Len(ys) + 1
         /\ (<<y>> \o ys)[1] = y
         /\ \A i \in 2 .. Len(ys) + 1 : i - 1 \in 1 .. Len(ys) /\ (<<y>> \o ys)[i] = ys[i - 1]
OBVIOUS

LEMMA OnePrime ==
  ASSUME NEW x \in Nat, Prime(x)
  PROVE  PrimesOf(<<x>>, x)
<1>1. Divides(x, x)
  <2>1. 1 \in Nat /\ x = x * 1
    OBVIOUS
  <2> QED BY <2>1 DEF Divides
<1>2. <<x>> \in Seq(Nat) /\ Len(<<x>>) = 1 /\ <<x>>[1] = x
  OBVIOUS
<1>3. product(<<x>>) = x
  BY ProductOfOne
<1> DEFINE out == <<x>>
<1> HIDE DEF out
<1> QED BY <1>1, <1>2, <1>3 DEF PrimesOf, out

\* The least divisor in front of the factors of what is left.
LEMMA MorePrimes ==
  ASSUME NEW x \in Nat \ {0}, NEW y \in Nat, NEW q \in Nat, NEW rest,
         Prime(y), x = y * q, NoneBelow(x, y), PrimesOf(rest, q)
  PROVE  PrimesOf(<<y>> \o rest, x)
<1> DEFINE out == <<y>> \o rest  n == Len(rest)
<1>1. rest \in Seq(Nat) /\ n \in Nat /\ n > 0 /\ product(rest) = q
  BY DEF PrimesOf
<1>2. /\ out \in Seq(Nat) /\ Len(out) = n + 1 /\ out[1] = y
      /\ \A i \in 2 .. n + 1 : i - 1 \in 1 .. n /\ out[i] = rest[i - 1]
  BY <1>1, Consed
<1>3. product(out) = x
  BY <1>1, ProductOfMore
<1>4. \A i \in 1 .. n : rest[i] \in Nat /\ Prime(rest[i]) /\ Divides(rest[i], q)
  BY <1>1 DEF PrimesOf
<1>5. \A i \in 1 .. n - 1 : rest[i] <= rest[i + 1]
  BY DEF PrimesOf
<1> HIDE DEF out, n
<1>6. Divides(y, x)
  BY DEF Divides
<1>7. ASSUME NEW i \in 1 .. n PROVE Divides(rest[i], x)
  BY <1>4, DividesMore
<1>8. ASSUME NEW i \in 1 .. n + 1 PROVE Prime(out[i]) /\ Divides(out[i], x)
  <2>1. CASE i = 1
    BY <1>2, <1>6, <2>1
  <2>2. CASE i # 1
    <3>1. i \in 2 .. n + 1
      BY <1>1, <2>2
    <3> QED BY <1>2, <1>4, <1>7, <3>1
  <2> QED BY <2>1, <2>2
<1>9. y <= rest[1]
  <2>1. 1 \in 1 .. n
    BY <1>1
  <2>2. rest[1] \in Nat /\ Divides(rest[1], x) /\ rest[1] > 1
    BY <1>4, <1>7, <2>1 DEF Prime
  <2>3. rest[1] \notin 2 .. y - 1
    BY <2>2 DEF NoneBelow
  <2> QED BY <2>2, <2>3
<1>10. ASSUME NEW i \in 1 .. n PROVE out[i] <= out[i + 1]
  <2>1. i + 1 \in 2 .. n + 1 /\ (i + 1) - 1 = i
    BY <1>1
  <2>2. out[i + 1] = rest[i]
    BY <1>2, <2>1
  <2>3. CASE i = 1
    BY <1>2, <1>9, <2>2, <2>3
  <2>4. CASE i # 1
    <3>1. i \in 2 .. n + 1 /\ i - 1 \in 1 .. n - 1 /\ (i - 1) + 1 = i
      BY <1>1, <2>4
    <3>2. out[i] = rest[i - 1]
      BY <1>2, <3>1
    <3>3. rest[i - 1] <= rest[(i - 1) + 1]
      BY <1>5, <3>1
    <3> QED BY <2>2, <3>1, <3>2, <3>3
  <2> QED BY <2>3, <2>4
<1>11. Len(out) > 0 /\ (n + 1) - 1 = n
  BY <1>1, <1>2
<1> QED BY <1>2, <1>3, <1>8, <1>10, <1>11 DEF PrimesOf, out

\* Another two in front of twos and a 1.
LEMMA MoreTwos ==
  ASSUME NEW x \in Nat, NEW q \in Nat, NEW rest, x = 2 * q, TwosOf(rest, q)
  PROVE  TwosOf(<<2>> \o rest, x)
<1> DEFINE out == <<2>> \o rest  n == Len(rest)
<1>0. 2 \in Nat
  OBVIOUS
<1>1. rest \in Seq(Nat) /\ n \in Nat /\ n > 0 /\ product(rest) = q
  BY DEF TwosOf
<1>2. /\ out \in Seq(Nat) /\ Len(out) = n + 1 /\ out[1] = 2
      /\ \A i \in 2 .. n + 1 : i - 1 \in 1 .. n /\ out[i] = rest[i - 1]
  BY <1>0, <1>1, Consed, Zenon
<1>3. product(out) = x
  <2>1. product(out) = 2 * product(rest)
    BY <1>0, <1>1, ProductOfMore, Zenon
  <2> QED BY <1>1, <2>1
<1>4. rest[n] = 1 /\ \A i \in 1 .. n - 1 : rest[i] = 2
  BY DEF TwosOf
<1> HIDE DEF out, n
<1>5. out[n + 1] = 1
  <2>1. n + 1 \in 2 .. n + 1 /\ (n + 1) - 1 = n
    BY <1>1
  <2> QED BY <1>2, <1>4, <2>1
<1>6. ASSUME NEW i \in 1 .. n PROVE out[i] = 2
  <2>1. CASE i = 1
    BY <1>2, <2>1
  <2>2. CASE i # 1
    <3>1. i \in 2 .. n + 1 /\ i - 1 \in 1 .. n - 1
      BY <1>1, <2>2
    <3> QED BY <1>2, <1>4, <3>1
  <2> QED BY <2>1, <2>2
<1>7. Len(out) > 0 /\ (n + 1) - 1 = n
  BY <1>1, <1>2
<1> QED BY <1>2, <1>3, <1>5, <1>6, <1>7 DEF TwosOf, out

\* A search from an odd divisor, when no smaller one divides the number.
Odd(k) == \E j \in Nat : k = 2 * j + 1

Searched(out, x) == IF x = 1 THEN out = <<1>> ELSE PrimesOf(out, x)

LEMMA OddSearch ==
  ASSUME NEW xx \in Nat \ {0}, NEW odd, OddOf(odd, xx)
  PROVE  \A s \in OddArgs(xx) : Odd(s[2]) /\ NoneBelow(s[1], s[2]) => Searched(odd[s], s[1])
<1> DEFINE D == OddArgs(xx)
           Good == {s \in D : Odd(s[2]) /\ NoneBelow(s[1], s[2]) => Searched(odd[s], s[1])}
           rank == [s \in D |-> OddRank(s, xx)]
<1>1. rank \in [D -> Nat]
  BY OddRankType
<1>2. ASSUME NEW s \in D, \A e \in D : rank[e] < rank[s] => e \in Good
      PROVE  s \in Good
  <2> DEFINE x == s[1]  k == s[2]
  <2>1. x \in 1 .. xx /\ k \in 3 .. xx + 5 /\ s = <<x, k>>
    BY DEF OddArgs
  <2>2. x \in Nat \ {0} /\ k \in Nat \ {0} /\ k > 1
    BY <2>1
  <2>3. odd[s] = IF k > isqrt(x) THEN <<x>>
                 ELSE IF x % k = 0 THEN <<k>> \o odd[<<x \div k, 3>>]
                 ELSE odd[<<x, k + 2>>]
    BY DEF OddOf
  <2>4. SUFFICES ASSUME Odd(k), NoneBelow(x, k) PROVE Searched(odd[s], x)
    OBVIOUS
  <2>5. k <= isqrt(x) => Onwards(s) \in D /\ rank[Onwards(s)] < rank[s]
    <3> SUFFICES ASSUME k <= isqrt(x) PROVE Onwards(s) \in D /\ rank[Onwards(s)] < rank[s]
      OBVIOUS
    <3>1. Onwards(s) \in D /\ OddRank(Onwards(s), xx) < OddRank(s, xx)
      BY OddDescends
    <3> QED BY <3>1
  <2>6. isqrt(x) \in Nat
    <3>1. isqrt(x) \in 1 .. x
      BY <2>2, Root, Zenon
    <3> QED BY <2>2, <3>1
  <2>7. k <= isqrt(x) => Onwards(s) \in Good
    BY <1>2, <2>5
  <2> HIDE DEF x, k, D, rank
  <2>8. CASE k > isqrt(x)
    <3>1. odd[s] = <<x>>
      BY <2>3, <2>8
    <3>2. CASE x = 1
      BY <3>1, <3>2 DEF Searched
    <3>3. CASE x # 1
      <4>1. x > 1 /\ x \in Nat
        BY <2>2, <3>3
      <4>2. Prime(x)
        BY <2>2, <2>4, <2>8, <4>1, NoneToRoot
      <4> QED BY <3>1, <3>3, <4>1, <4>2, OnePrime DEF Searched
    <3> QED BY <3>2, <3>3
  <2>9. CASE k <= isqrt(x) /\ x % k = 0
    <3> DEFINE q == x \div k
    <3>1. q \in 2 .. x - 1 /\ x = k * q
      BY <2>1, <2>9, OddGoesOn
    <3>2. Onwards(s) = <<q, 3>>
      BY <2>9 DEF Onwards, x, k
    <3>3. odd[s] = <<k>> \o odd[<<q, 3>>]
      BY <2>3, <2>6, <2>9, <2>2
    <3> HIDE DEF q
    <3>4. q \in Nat /\ q > 1
      BY <2>2, <3>1
    <3>5. Odd(3)
      <4>1. 1 \in Nat /\ 3 = 2 * 1 + 1
        OBVIOUS
      <4> QED BY <4>1 DEF Odd
    <3>6. NoneBelow(q, 3)
      <4> SUFFICES ASSUME NEW d \in 2 .. 3 - 1, Divides(d, q) PROVE FALSE
        BY DEF NoneBelow
      <4>1. d \in Nat /\ d = 2
        OBVIOUS
      <4>2. Divides(d, x)
        BY <2>2, <3>1, <3>4, <4>1, DividesMore
      <4>3. d \in 2 .. k - 1
        BY <2>1, <4>1
      <4> QED BY <2>4, <4>2, <4>3 DEF NoneBelow
    <3>7. Searched(odd[<<q, 3>>], q)
      BY <2>7, <2>9, <3>2, <3>5, <3>6
    <3>8. PrimesOf(odd[<<q, 3>>], q)
      BY <3>4, <3>7 DEF Searched
    <3>9. Prime(k)
      <4>1. Divides(k, x)
        BY <3>1, <3>4 DEF Divides
      <4> QED BY <2>2, <2>4, <4>1, LeastDivisor
    <3>10. PrimesOf(odd[s], x)
      BY <2>2, <2>4, <3>1, <3>3, <3>4, <3>8, <3>9, MorePrimes
    <3>11. x # 1
      BY <2>2, <3>1
    <3> QED BY <3>10, <3>11 DEF Searched
  <2>10. CASE k <= isqrt(x) /\ x % k # 0
    <3>1. Onwards(s) = <<x, k + 2>>
      BY <2>10 DEF Onwards, x, k
    <3>2. odd[s] = odd[<<x, k + 2>>]
      BY <2>2, <2>3, <2>6, <2>10
    <3>3. PICK j \in Nat : k = 2 * j + 1
      BY <2>4 DEF Odd
    <3>4. Odd(k + 2)
      <4>1. j + 1 \in Nat /\ k + 2 = 2 * (j + 1) + 1
        BY <3>3
      <4> QED BY <4>1 DEF Odd
    <3>5. NoneBelow(x, k + 2)
      <4> SUFFICES ASSUME NEW d \in 2 .. (k + 2) - 1, Divides(d, x) PROVE FALSE
        BY DEF NoneBelow
      <4>1. CASE d < k
        <5>1. d \in 2 .. k - 1
          BY <2>2, <4>1
        <5> QED BY <2>4, <5>1 DEF NoneBelow
      <4>2. CASE d = k
        BY <2>2, <2>10, <4>2, NoRest
      <4>3. CASE d > k
        <5>1. d = 2 * (j + 1) /\ d \in Nat
          BY <2>2, <3>3, <4>3
        <5>2. Divides(2, d)
          <6>1. j + 1 \in Nat
            OBVIOUS
          <6> QED BY <5>1, <6>1 DEF Divides
        <5>3. PICK e \in Nat : x = d * e
          BY DEF Divides
        <5>4. Divides(2, x)
          BY <5>1, <5>2, <5>3, DividesMore
        <5>5. 2 \in 2 .. k - 1
          BY <2>1
        <5> QED BY <2>4, <5>4, <5>5 DEF NoneBelow
      <4> QED BY <2>2, <4>1, <4>2, <4>3
    <3>6. Searched(odd[<<x, k + 2>>], x)
      BY <2>7, <2>10, <3>1, <3>4, <3>5
    <3> QED BY <3>2, <3>6
  <2> QED BY <2>2, <2>6, <2>8, <2>9, <2>10
<1> HIDE DEF D, Good, rank
<1>3. \A s \in D : s \in Good
  BY <1>1, <1>2, ByRank
<1> QED BY <1>3 DEF D, Good

\* The recursion of factor over the twos.
AnyOf(any, odd, xx) ==
  any = [x \in 1 .. xx |-> IF x % 2 = 0 THEN <<2>> \o any[x \div 2] ELSE odd[<<x, 3>>]]

LEMMA Half ==
  ASSUME NEW x \in Nat \ {0}, x % 2 = 0
  PROVE  x \div 2 \in Nat \ {0} /\ x \div 2 < x /\ x = 2 * (x \div 2)
OBVIOUS

LEMMA NotHalved ==
  ASSUME NEW x \in Nat \ {0}, x % 2 # 0
  PROVE  Odd(3) /\ NoneBelow(x, 3)
<1>1. Odd(3)
  <2>1. 1 \in Nat /\ 3 = 2 * 1 + 1
    OBVIOUS
  <2> QED BY <2>1 DEF Odd
<1>2. ASSUME NEW d \in 2 .. 3 - 1, Divides(d, x) PROVE FALSE
  <2>1. d = 2 /\ d \in Nat \ {0}
    OBVIOUS
  <2>2. x % d = 0
    BY <1>2, <2>1, NoRest
  <2> QED BY <2>1, <2>2
<1> QED BY <1>1, <1>2 DEF NoneBelow

\* What the search finds is a sequence of numbers.
LEMMA SearchedSeq ==
  ASSUME NEW x \in Nat, NEW out, Searched(out, x)
  PROVE  PrimesOf(out, x) \/ TwosOf(out, x)
<1>1. CASE x = 1
  <2>1. 1 \in Nat /\ out = <<1>>
    BY <1>1 DEF Searched
  <2>2. product(<<1>>) = 1
    BY <2>1, ProductOfOne, Zenon
  <2>3. <<1>> \in Seq(Nat) /\ Len(<<1>>) = 1 /\ <<1>>[1] = 1
    OBVIOUS
  <2> HIDE DEF TwosOf
  <2>4. TwosOf(out, x)
    <3>1. out \in Seq(Nat) /\ Len(out) = 1 /\ out[1] = 1 /\ product(out) = 1
      BY <2>1, <2>2, <2>3
    <3> QED BY <1>1, <3>1 DEF TwosOf
  <2> QED BY <2>4
<1>2. CASE x # 1
  BY <1>2 DEF Searched, PrimesOf
<1> QED BY <1>1, <1>2

\* So is the whole of it.
LEMMA AnySolved ==
  ASSUME NEW xx \in Nat \ {0}, NEW odd,
         \A x \in 1 .. xx : x % 2 # 0 => odd[<<x, 3>>] \in Seq(Nat)
  PROVE  \E any : AnyOf(any, odd, xx)
<1> DEFINE D == 1 .. xx
           stop == {x \in D : x % 2 # 0}
           base == [x \in D |-> IF x % 2 # 0 THEN odd[<<x, 3>>] ELSE <<>>]
           op == [p \in D \X Seq(Nat) |-> <<2>> \o p[2]]
           next == [x \in D |-> x \div 2]
           rank == [x \in D |-> x]
<1>1. base \in [D -> Seq(Nat)] /\ rank \in [D -> Nat] /\ \A x \in D : rank[x] <= xx
  <2>1. <<>> \in Seq(Nat)
    OBVIOUS
  <2>2. base \in [D -> Seq(Nat)]
    BY <2>1
  <2> QED BY <2>2
<1>2. op \in [D \X Seq(Nat) -> Seq(Nat)]
  <2>1. ASSUME NEW p \in D \X Seq(Nat) PROVE <<2>> \o p[2] \in Seq(Nat)
    <3>1. p[2] \in Seq(Nat) /\ 2 \in Nat
      OBVIOUS
    <3> QED BY <3>1
  <2> QED BY <2>1
<1>3. ASSUME NEW x \in D, x \notin stop PROVE next[x] \in D /\ rank[next[x]] < rank[x]
  <2>1. x \in Nat \ {0} /\ x % 2 = 0 /\ next[x] = x \div 2 /\ rank[x] = x
    BY <1>3
  <2>2. next[x] \in Nat \ {0} /\ next[x] < x
    BY <2>1, Half
  <2>3. next[x] \in D
    BY <2>2
  <2>4. rank[next[x]] = next[x]
    BY <2>3
  <2> QED BY <2>1, <2>2, <2>3, <2>4
<1> HIDE DEF D, base, op, next, rank, stop
<1>4. PICK f \in [D -> Seq(Nat)] : Solves(f, D, stop, base, op, next)
  <2>1. xx \in Nat
    OBVIOUS
  <2> QED BY <1>1, <1>2, <1>3, <2>1, Recursion
<1>5. ASSUME NEW x \in D
      PROVE  f[x] = IF x % 2 = 0 THEN <<2>> \o f[x \div 2] ELSE odd[<<x, 3>>]
  <2>1. f[x] = IF x \in stop THEN base[x] ELSE op[<<x, f[next[x]]>>]
    BY <1>4 DEF Solves
  <2>2. next[x] = x \div 2 /\ (x % 2 # 0 => base[x] = odd[<<x, 3>>])
    BY DEF base, next
  <2>3. CASE x % 2 # 0
    BY <2>1, <2>2, <2>3 DEF stop
  <2>4. CASE x % 2 = 0
    <3>1. x \notin stop
      BY <2>4 DEF stop
    <3>2. f[next[x]] \in Seq(Nat)
      BY <1>3, <3>1
    <3>3. op[<<x, f[next[x]]>>] = <<2>> \o f[next[x]]
      BY <3>2 DEF op
    <3> QED BY <2>1, <2>2, <2>4, <3>1, <3>3
  <2> QED BY <2>3, <2>4
<1>6. AnyOf(f, odd, xx)
  BY <1>5 DEF AnyOf, D
<1> QED BY <1>6

\* What factor pushes is the number's prime factors, or twos and a 1.
LEMMA Factored ==
  ASSUME NEW xx \in Nat \ {0}
  PROVE  PrimesOf(divisors(xx), xx) \/ TwosOf(divisors(xx), xx)
<1> DEFINE D == 1 .. xx
           odd == CHOOSE f : OddOf(f, xx)
           any == CHOOSE f : AnyOf(f, odd, xx)
           Good == {x \in D : PrimesOf(any[x], x) \/ TwosOf(any[x], x)}
           rank == [x \in D |-> x]
<1>1. divisors(xx) = any[xx]
  BY Zenon DEF divisors, OddOf, OddArgs, AnyOf
<1>2. OddOf(odd, xx)
  <2>1. \E f : OddOf(f, xx)
    BY OddSolved
  <2> QED BY <2>1, Zenon
<1> HIDE DEF odd
<1>3. ASSUME NEW x \in D, x % 2 # 0 PROVE Searched(odd[<<x, 3>>], x)
  <2>1. <<x, 3>> \in OddArgs(xx) /\ <<x, 3>>[1] = x /\ <<x, 3>>[2] = 3
    BY DEF OddArgs
  <2>2. Odd(3) /\ NoneBelow(x, 3)
    BY <1>3, NotHalved
  <2> DEFINE s == <<x, 3>>
  <2> HIDE DEF s
  <2>3. s \in OddArgs(xx) /\ Odd(s[2]) /\ NoneBelow(s[1], s[2])
    BY <2>1, <2>2 DEF s
  <2>4. Searched(odd[s], s[1])
    BY <1>2, <2>3, OddSearch
  <2> QED BY <2>1, <2>4 DEF s
<1>4. AnyOf(any, odd, xx)
  <2>1. ASSUME NEW x \in 1 .. xx, x % 2 # 0 PROVE odd[<<x, 3>>] \in Seq(Nat)
    <3>1. x \in Nat /\ Searched(odd[<<x, 3>>], x)
      BY <1>3, <2>1
    <3> QED BY <3>1, SearchedSeq DEF PrimesOf, TwosOf
  <2>2. \E f : AnyOf(f, odd, xx)
    BY <2>1, AnySolved
  <2> QED BY <2>2, Zenon
<1> HIDE DEF any
<1>5. ASSUME NEW x \in D, \A y \in D : rank[y] < rank[x] => y \in Good PROVE x \in Good
  <2>1. x \in Nat \ {0}
    OBVIOUS
  <2>2. any[x] = IF x % 2 = 0 THEN <<2>> \o any[x \div 2] ELSE odd[<<x, 3>>]
    BY <1>4 DEF AnyOf
  <2>3. CASE x % 2 # 0
    BY <1>3, <2>1, <2>2, <2>3, SearchedSeq
  <2>4. CASE x % 2 = 0
    <3> DEFINE q == x \div 2
    <3>1. q \in Nat \ {0} /\ q < x /\ x = 2 * q
      BY <2>1, <2>4, Half
    <3>2. any[x] = <<2>> \o any[q]
      BY <2>2, <2>4
    <3> HIDE DEF q
    <3>3. q \in D /\ rank[q] < rank[x]
      BY <2>1, <3>1
    <3>4. PrimesOf(any[q], q) \/ TwosOf(any[q], q)
      BY <1>5, <3>3
    <3>5. CASE TwosOf(any[q], q)
      <4>1. x \in Nat /\ q \in Nat
        BY <2>1, <3>1
      <4>2. TwosOf(<<2>> \o any[q], x)
        BY <3>1, <3>5, <4>1, MoreTwos, Zenon
      <4> QED BY <3>2, <4>2
    <3>6. CASE PrimesOf(any[q], q)
      <4>1. Prime(2) /\ NoneBelow(x, 2) /\ 2 \in Nat
        <5>1. 2 .. 2 - 1 = {}
          OBVIOUS
        <5> QED BY <5>1 DEF Prime, NoneBelow
      <4>2. PrimesOf(<<2>> \o any[q], x)
        BY <2>1, <3>1, <3>6, <4>1, MorePrimes, Zenon
      <4> QED BY <3>2, <4>2
    <3> QED BY <3>4, <3>5, <3>6
  <2> QED BY <2>3, <2>4
<1>6. rank \in [D -> Nat]
  OBVIOUS
<1>7. \A x \in D : x \in Good
  <2> HIDE DEF D, Good, rank
  <2> QED BY <1>5, <1>6, ByRank
<1>8. xx \in D
  OBVIOUS
<1> QED BY <1>1, <1>7, <1>8

\* It is a factorization: in ascending order, and a 1 behind a power of two.
LEMMA DivisorsAreRight ==
  ASSUME NEW xx \in Nat \ {0}
  PROVE  IsFactorization(divisors(xx), xx)
<1> DEFINE ys == divisors(xx)  n == Len(ys)
<1>1. PrimesOf(ys, xx) \/ TwosOf(ys, xx)
  BY Factored
<1> HIDE DEF ys, n
<1>2. CASE PrimesOf(ys, xx)
  <2>1. /\ ys \in Seq(Nat) /\ n \in Nat /\ n > 0 /\ DOMAIN ys = 1 .. n /\ product(ys) = xx
        /\ \A i \in 1 .. n : Prime(ys[i])
        /\ \A i \in 1 .. n - 1 : ys[i] <= ys[i + 1]
    BY <1>2 DEF PrimesOf, n
  <2>2. ys[n] # 1
    <3>1. n \in 1 .. n
      BY <2>1
    <3>2. ys[n] > 1
      BY <2>1, <3>1 DEF Prime
    <3> QED BY <3>2
  <2> QED BY <2>1, <2>2 DEF IsFactorization, n, ys
<1>3. CASE TwosOf(ys, xx)
  <2>1. /\ ys \in Seq(Nat) /\ n \in Nat /\ n > 0 /\ product(ys) = xx
        /\ ys[n] = 1 /\ \A i \in 1 .. n - 1 : ys[i] = 2
    BY <1>3 DEF TwosOf, n
  <2> DEFINE twos == SubSeq(ys, 1, n - 1)
  <2>2. /\ twos \in Seq(Nat) /\ Len(twos) = n - 1 /\ DOMAIN twos = 1 .. n - 1
        /\ \A i \in 1 .. n - 1 : twos[i] = 2
    BY <2>1
  <2> HIDE DEF twos
  <2>3. Prime(2)
    <3>1. 2 .. 2 - 1 = {}
      OBVIOUS
    <3> QED BY <3>1 DEF Prime
  <2>4. \A i \in DOMAIN twos : Prime(twos[i]) /\ twos[i] = 2
    BY <2>2, <2>3
  <2>5. \A i \in 1 .. Len(twos) - 1 : twos[i] <= twos[i + 1]
    <3> SUFFICES ASSUME NEW i \in 1 .. Len(twos) - 1 PROVE twos[i] <= twos[i + 1]
      OBVIOUS
    <3>1. i \in 1 .. n - 1 /\ i + 1 \in 1 .. n - 1
      BY <2>1, <2>2
    <3> QED BY <2>2, <3>1
  <2> QED BY <2>1, <2>4, <2>5 DEF IsFactorization, twos, n, ys
<1> QED BY <1>1, <1>2, <1>3 DEF ys

\* What the conversion keeps, and what it shortens.
LEMMA ShortKept ==
  ASSUME NEW y \in Nat, y < INT64_SIGN
  PROVE  int64(y) = y
<1>1. INT64_SIGN \in Nat
  BY FactoringAssumption
<1>2. (y + INT64_SIGN) % (2 * INT64_SIGN) = y + INT64_SIGN
  BY <1>1, SMTT(30)
<1> QED BY <1>1, <1>2 DEF int64

LEMMA LongShortened ==
  ASSUME NEW y \in Nat, y > INT64_SIGN
  PROVE  int64(y) \in Int /\ -y < int64(y) /\ int64(y) < y
<1>1. INT64_SIGN \in Nat /\ INT64_SIGN > 2
  BY FactoringAssumption
<1> DEFINE r == (y + INT64_SIGN) % (2 * INT64_SIGN)
<1>2. r \in 0 .. 2 * INT64_SIGN - 1
  BY <1>1
<1>3. int64(y) = r - INT64_SIGN
  BY DEF int64
<1> HIDE DEF r
<1> QED BY <1>1, <1>2, <1>3

LEMMA PrimeShortened ==
  ASSUME NEW y \in Nat, Prime(y), ~(y < INT64_SIGN)
  PROVE  y > INT64_SIGN
<1>1. INT64_SIGN \in Nat /\ INT64_SIGN > 2 /\ INT64_SIGN % 2 = 0
  BY FactoringAssumption
<1>2. y # INT64_SIGN
  <2>1. 2 \in 2 .. INT64_SIGN - 1
    BY <1>1
  <2> QED BY <1>1, <2>1 DEF Prime
<1> QED BY <1>1, <1>2

\* The factors that run_jobs2 stores in a job are the prime factors of its number, in ascending
\* order, and a 1 behind a power of two, if the entries of the vector are long enough for them;
\* if not, their product is not the number: main's check is passed by factorizations only.
THEOREM FactorIsRight ==
  ASSUME NEW xx \in Nat \ {0}, Fits(xx) \/ product(factor(xx)) = xx
  PROVE  IsFactorization(factor(xx), xx)
<1> DEFINE ys == divisors(xx)  n == Len(ys)  ts == factor(xx)
<1>1. PrimesOf(ys, xx) \/ TwosOf(ys, xx)
  BY Factored
<1>2. IsFactorization(ys, xx)
  BY DivisorsAreRight
<1>3. ts = [k \in DOMAIN ys |-> int64(ys[k])]
  BY DEF factor
<1> HIDE DEF ys, n, ts
<1>4. /\ ys \in Seq(Nat) /\ ys \in Seq(Int) /\ n \in Nat /\ DOMAIN ys = 1 .. n
      /\ \A k \in 1 .. n : ys[k] \in Nat
  <2>1. ys \in Seq(Nat)
    BY <1>1 DEF PrimesOf, TwosOf
  <2> QED BY <2>1 DEF n
<1>5. CASE \A k \in 1 .. n : ys[k] < INT64_SIGN
  <2>1. \A k \in 1 .. n : int64(ys[k]) = ys[k]
    BY <1>4, <1>5, ShortKept
  <2>2. ts = ys
    BY <1>3, <1>4, <2>1
  <2> QED BY <1>2, <2>2 DEF ts
<1>6. ASSUME NEW j \in 1 .. n, ~(ys[j] < INT64_SIGN) PROVE FALSE
  <2>1. INT64_SIGN \in Nat /\ INT64_SIGN > 2
    BY FactoringAssumption
  <2>2. PrimesOf(ys, xx)
    <3> SUFFICES ASSUME TwosOf(ys, xx) PROVE FALSE
      BY <1>1
    <3>1. ys[j] = 1 \/ ys[j] = 2
      <4>1. j = n \/ j \in 1 .. n - 1
        BY <1>4
      <4> QED BY <4>1 DEF TwosOf, n
    <3> QED BY <1>6, <2>1, <3>1
  <2>3. /\ product(ys) = xx
        /\ \A k \in 1 .. n : Prime(ys[k]) /\ Divides(ys[k], xx)
    BY <2>2 DEF PrimesOf, n
  <2>4. \A k \in 1 .. n : \/ int64(ys[k]) = ys[k]
                          \/ int64(ys[k]) \in Int /\ -ys[k] < int64(ys[k]) /\ int64(ys[k]) < ys[k]
    BY <1>4, <2>3, ShortKept, LongShortened, PrimeShortened
  <2>5. int64(ys[j]) \in Int /\ -ys[j] < int64(ys[j]) /\ int64(ys[j]) < ys[j]
    BY <1>4, <1>6, <2>3, LongShortened, PrimeShortened
  <2>6. ~Fits(xx)
    <3> DEFINE y == ys[j]
    <3>1. y \in Nat /\ Prime(y) /\ ~(y < INT64_SIGN) /\ Divides(y, xx)
      BY <1>4, <1>6, <2>3
    <3> HIDE DEF y
    <3>2. y > 1
      BY <3>1 DEF Prime
    <3>3. xx % y = 0 /\ xx = y * (xx \div y)
      BY <3>1, <3>2, NoRest
    <3>4. xx \div y \in Nat
      BY <3>1, <3>2, Division
    <3>5. y <= xx
      <4>1. xx \div y >= 1
        BY <3>1, <3>3, <3>4
      <4>2. y * (xx \div y) >= y
        BY <3>1, <3>4, <4>1
      <4> QED BY <3>3, <4>2
    <3>6. y \in 2 .. xx
      BY <3>1, <3>2, <3>5
    <3> QED BY <3>1, <3>3, <3>6 DEF Fits
  <2>7. product(ts) # product(ys)
    <3>1. ts \in Seq(Int) /\ Len(ts) = n /\ \A k \in 1 .. n : ts[k] = int64(ys[k])
      BY <1>3, <1>4, <2>4
    <3>2. \A k \in 1 .. n : ys[k] > 0 /\ -ys[k] <= ts[k] /\ ts[k] <= ys[k]
      <4>1. \A k \in 1 .. n : ys[k] \in Nat /\ ys[k] > 1
        BY <1>4, <2>3 DEF Prime
      <4> QED BY <2>4, <3>1, <4>1
    <3>3. -ys[j] < ts[j] /\ ts[j] < ys[j]
      BY <2>5, <3>1
    <3> QED BY <1>4, <3>1, <3>2, <3>3, Truncated DEF n
  <2> QED BY <2>3, <2>6, <2>7 DEF ts
<1> QED BY <1>5, <1>6

-----------------------------------------------------------------------------
\* What is proved of the linked list, for each of the two queues.
IP == INSTANCE ThreadQueueProofs WITH
        Threads <- Workers, Msg <- Jobs, MaxNodes <- Count,
        head <- ihead, tail <- itail, node <- inode, done <- idone,
        asleep <- iasleep, ret <- iret, fifo <- ififo

OP == INSTANCE ThreadQueueProofs WITH
        Threads <- {Main}, Msg <- Jobs \cup {0}, MaxNodes <- Count + NumThreads,
        head <- ohead, tail <- otail, node <- onode, done <- odone,
        asleep <- oasleep, ret <- oret, fifo <- ofifo

-----------------------------------------------------------------------------
(***************************************************************************)
(* The inductive invariant.                                                *)
(***************************************************************************)
MainLabels   == {"create", "submit", "results", "wake", "join", "exited"}
WorkerLabels == {"unborn", "get", "factor", "put", "set_o_done", "wake_othread", "ended", "joined"}

\* A sequence: of what, is said with the results below.
IsList(s) == \E S : s \in Seq(S)

TTypeOK ==
  /\ at \in [Workers \cup {Main} -> MainLabels \cup WorkerLabels]
  /\ at[Main] \in MainLabels /\ \A w \in Workers : at[w] \in WorkerLabels
  /\ ii \in Nat /\ IsList(printed)

\* Where main is in its loops.
MainPhase ==
  /\ at[Main] = "create" => ii <= NumThreads /\ \A w \in Workers : w > ii => at[w] = "unborn"
  /\ at[Main] = "submit" => ii <= Count
  /\ at[Main] = "join" => ii <= NumThreads /\ \A w \in 1 .. ii : at[w] = "joined"
  /\ at[Main] = "exited" => \A w \in Workers : at[w] = "joined"

\* Main may still put jobs on iqueue.
Submitting == at[Main] \in {"create", "submit"}

\* The threads that have put their null job.
Nulled == {w \in Workers : at[w] \in {"set_o_done", "wake_othread", "ended", "joined"}}

\* A thread has no job only after iqueue was closed and empty, which it stays.
Drained ==
  /\ idone => ~Submitting
  /\ \A w \in Workers :
       /\ at[w] = "factor" => iret[w] # 0
       /\ w \in Nulled \/ (at[w] = "put" /\ iret[w] = 0) => Len(ififo) = 0 /\ ~Submitting

\* The threads that have a job, and the qnodes of oqueue that have one.
Holding == {w \in Workers : at[w] \in {"factor", "put"} /\ iret[w] # 0}
Results == {a \in DOMAIN onode : onode[a].data # 0}

Begun == CASE at[Main] = "create" -> 0
           [] at[Main] = "submit" -> ii
           [] OTHER               -> Count

\* Each job that was put on iqueue is somewhere.
Counted ==
  Begun = Len(ififo) + Cardinality(Holding) + Cardinality(Results) + Len(printed)

\* Main has taken a null job.
Left == at[Main] \in {"wake", "join", "exited"}

\* A null job on oqueue, and the end of it, come from a thread that has put one.
NullPut == Left \/ odone \/ Results # DOMAIN onode => Nulled # {}

\* The results that main will not print: those behind a null job.
Behind ==
  {a \in Results :
     Left \/ \E j, k \in 1 .. Len(ofifo) : j < k /\ ofifo[k] = a /\ onode[ofifo[j]].data = 0}

\* Once one thread has put its null job, the others have at most one job each to put
\* behind it.
FewBehind == Nulled # {} => Cardinality(Behind) + Cardinality(Holding) < NumThreads

TInv == /\ IP!QInv /\ OP!QInv
        /\ TTypeOK /\ MainPhase /\ Drained /\ Counted /\ NullPut /\ FewBehind

-----------------------------------------------------------------------------
(***************************************************************************)
(* The two queues.                                                         *)
(***************************************************************************)
LEMMA ThreadsApart ==
  /\ NumThreads \in Nat \ {0} /\ Count \in Nat
  /\ Main \notin Workers /\ 0 \notin Jobs
BY FactorThreadsAssumption DEF Main, Workers, Jobs

\* The queues' own steps.
LEMMA ISteps ==
  /\ \A job : IQ!queue_put(job) => IP!queue_put(job)
  /\ \A w : /\ IQ!GetSleep(w) => IP!GetSleep(w)
            /\ IQ!GetNull(w)  => IP!GetNull(w)
            /\ IQ!GetNode(w)  => IP!GetNode(w)
            /\ IQ!SpuriousWakeUp(w) => IP!SpuriousWakeUp(w)
  /\ IQ!set_doneq => IP!set_doneq
  /\ IQ!wake_up => IP!wake_up
BY DEF IQ!queue_put, IQ!Linked, IQ!Addr, IQ!NULL, IQ!broadcast, IQ!GetSleep, IQ!GetNull, IQ!GetNode,
       IQ!SpuriousWakeUp, IQ!set_doneq, IQ!wake_up,
       IP!queue_put, IP!Linked, IP!Addr, IP!NULL, IP!broadcast, IP!GetSleep, IP!GetNull, IP!GetNode,
       IP!SpuriousWakeUp, IP!set_doneq, IP!wake_up

LEMMA OSteps ==
  /\ \A job : OQ!queue_put(job) => OP!queue_put(job)
  /\ \A w : /\ OQ!GetSleep(w) => OP!GetSleep(w)
            /\ OQ!GetNull(w)  => OP!GetNull(w)
            /\ OQ!GetNode(w)  => OP!GetNode(w)
            /\ OQ!SpuriousWakeUp(w) => OP!SpuriousWakeUp(w)
  /\ OQ!set_doneq => OP!set_doneq
  /\ OQ!wake_up => OP!wake_up
BY DEF OQ!queue_put, OQ!Linked, OQ!Addr, OQ!NULL, OQ!broadcast, OQ!GetSleep, OQ!GetNull, OQ!GetNode,
       OQ!SpuriousWakeUp, OQ!set_doneq, OQ!wake_up,
       OP!queue_put, OP!Linked, OP!Addr, OP!NULL, OP!broadcast, OP!GetSleep, OP!GetNull, OP!GetNode,
       OP!SpuriousWakeUp, OP!set_doneq, OP!wake_up

\* What the proofs use of the types.
LEMMA QueueTypes ==
  ASSUME IP!QInv, OP!QInv
  PROVE  /\ Len(ififo) \in Nat /\ Len(ofifo) \in Nat
         /\ iret \in [Workers -> Jobs \cup {0}] /\ oret \in [{Main} -> Jobs \cup {0}]
         /\ itail = 0 <=> Len(ififo) = 0
         /\ otail = 0 <=> Len(ofifo) = 0
         /\ DOMAIN inode = {ififo[k] : k \in 1 .. Len(ififo)}
         /\ DOMAIN onode = {ofifo[k] : k \in 1 .. Len(ofifo)}
         /\ \A j, k \in 1 .. Len(ofifo) : ofifo[j] = ofifo[k] => j = k
         /\ \A a \in DOMAIN inode : inode[a].data \in Jobs
         /\ \A a \in DOMAIN onode : onode[a].data \in Jobs \cup {0}
         /\ IsFiniteSet(DOMAIN inode) /\ IsFiniteSet(DOMAIN onode)
<1>1. Len(ififo) \in Nat /\ Len(ofifo) \in Nat
  BY DEF IP!QInv, IP!QTypeOK, OP!QInv, OP!QTypeOK
<1>2. /\ itail = 0 <=> Len(ififo) = 0
      /\ otail = 0 <=> Len(ofifo) = 0
  BY IP!QueueBasics, OP!QueueBasics DEF IP!NULL, OP!NULL
<1>3. iret \in [Workers -> Jobs \cup {0}] /\ oret \in [{Main} -> Jobs \cup {0}]
  BY DEF IP!QInv, IP!QTypeOK, OP!QInv, OP!QTypeOK, IP!NULL, OP!NULL
<1>4. /\ DOMAIN inode = {ififo[k] : k \in 1 .. Len(ififo)}
      /\ DOMAIN onode = {ofifo[k] : k \in 1 .. Len(ofifo)}
      /\ \A j, k \in 1 .. Len(ofifo) : ofifo[j] = ofifo[k] => j = k
  BY DEF IP!QInv, IP!QTypeOK, OP!QInv, OP!QTypeOK, OP!NoNodeTwice
<1>5. /\ \A a \in DOMAIN inode : inode[a].data \in Jobs
      /\ \A a \in DOMAIN onode : onode[a].data \in Jobs \cup {0}
  BY DEF IP!QInv, IP!QTypeOK, IP!Qnode, OP!QInv, OP!QTypeOK, OP!Qnode
<1>6. DOMAIN inode \subseteq 1 .. Count /\ DOMAIN onode \subseteq 1 .. Count + NumThreads
  BY <1>4, IP!QueueBasics, OP!QueueBasics DEF IP!Addr, OP!Addr
<1>7. IsFiniteSet(1 .. Count) /\ IsFiniteSet(1 .. Count + NumThreads)
  BY FS_Interval, ThreadsApart
<1>8. IsFiniteSet(DOMAIN inode) /\ IsFiniteSet(DOMAIN onode)
  BY <1>6, <1>7, FS_Subset
<1> QED BY <1>1, <1>2, <1>3, <1>4, <1>5, <1>8

LEMMA QueuesInit == Init => IP!QInv /\ OP!QInv
<1>1. IQ!Init => IP!Init
  BY DEF IQ!Init, IP!Init, IQ!NULL, IP!NULL
<1>2. OQ!Init => OP!Init
  BY DEF OQ!Init, OP!Init, OQ!NULL, OP!NULL
<1> QED BY <1>1, <1>2, IP!QInitInv, OP!QInitInv DEF Init

\* Every step of the program is a step on each of the queues, or none.
LEMMA QueueSteps == TInv /\ [Next]_vars => [IP!Next]_ivars /\ [OP!Next]_ovars
<1> SUFFICES ASSUME TInv, [Next]_vars PROVE [IP!Next]_ivars /\ [OP!Next]_ovars
  OBVIOUS
<1>1. [IP!Next]_ivars
  <2>1. CASE submit_job
    <3>1. ii + 1 \in Jobs
      BY <2>1, ThreadsApart DEF submit_job, TInv, TTypeOK, Jobs
    <3> QED BY <2>1, <3>1, ISteps DEF submit_job, IP!Next
  <2>2. ASSUME NEW w \in Workers, WorkerStep(w)
        PROVE  [IP!Next]_ivars
    BY <2>2, ISteps
    DEF WorkerStep, GetJob, Factor, PutResult, set_o_done, wake_othread, IP!Next, IP!queue_get
  <2>3. CASE SpuriousWakeUp
    BY <2>3, ISteps DEF SpuriousWakeUp, IP!Next
  <2>4. CASE set_i_done \/ wake_ithread
    BY <2>4, ISteps DEF set_i_done, wake_ithread, IP!Next
  <2>5. CASE CreateThread \/ AllCreated \/ get_result \/ JoinThread \/ Exit
    BY <2>5 DEF CreateThread, AllCreated, get_result, JoinThread, Exit
  <2>6. CASE UNCHANGED vars
    BY <2>6 DEF vars, ivars
  <2> QED BY <2>1, <2>2, <2>3, <2>4, <2>5, <2>6 DEF Next, MainStep
<1>2. [OP!Next]_ovars
  <2>1. ASSUME NEW w \in Workers, WorkerStep(w)
        PROVE  [OP!Next]_ovars
    <3>1. iret[w] \in Jobs \cup {0}
      BY QueueTypes DEF TInv
    <3> QED
      BY <2>1, <3>1, OSteps
      DEF WorkerStep, GetJob, Factor, PutResult, set_o_done, wake_othread, OP!Next
  <2>2. CASE get_result
    BY <2>2, OSteps DEF get_result, OP!Next, OP!queue_get
  <2>3. CASE SpuriousWakeUp
    BY <2>3, OSteps DEF SpuriousWakeUp, OP!Next
  <2>4. CASE CreateThread \/ AllCreated \/ submit_job \/ set_i_done \/ wake_ithread
             \/ JoinThread \/ Exit
    BY <2>4
    DEF CreateThread, AllCreated, submit_job, set_i_done, wake_ithread, JoinThread, Exit
  <2>5. CASE UNCHANGED vars
    BY <2>5 DEF vars, ovars
  <2> QED BY <2>1, <2>2, <2>3, <2>4, <2>5 DEF Next, MainStep
<1> QED BY <1>1, <1>2

LEMMA QueuesStep == TInv /\ [Next]_vars => IP!QInv' /\ OP!QInv'
<1> SUFFICES ASSUME TInv, [Next]_vars PROVE IP!QInv' /\ OP!QInv'
  OBVIOUS
<1>1. [IP!Next]_ivars /\ [OP!Next]_ovars /\ IP!QInv /\ OP!QInv
  BY QueueSteps DEF TInv
<1> QED BY <1>1, IP!QStepInv, OP!QStepInv DEF IP!vars, OP!vars, ivars, ovars

-----------------------------------------------------------------------------
(***************************************************************************)
(* Counting.                                                               *)
(***************************************************************************)
LEMMA CardMoves ==
  ASSUME NEW S, IsFiniteSet(S)
  PROVE  /\ Cardinality(S) \in Nat
         /\ \A x : /\ x \notin S => Cardinality(S \cup {x}) = Cardinality(S) + 1
                   /\ x \in S => Cardinality(S \ {x}) = Cardinality(S) - 1
         /\ \A T \in SUBSET S : /\ IsFiniteSet(T) /\ Cardinality(T) \in Nat
                                /\ Cardinality(T) <= Cardinality(S)
<1>1. Cardinality(S) \in Nat
  BY FS_CardinalityType
<1>2. \A x : x \notin S => Cardinality(S \cup {x}) = Cardinality(S) + 1
  BY FS_AddElement
<1>3. \A x : x \in S => Cardinality(S \ {x}) = Cardinality(S) - 1
  BY FS_RemoveElement
<1>4. ASSUME NEW T \in SUBSET S
      PROVE  /\ IsFiniteSet(T) /\ Cardinality(T) \in Nat
             /\ Cardinality(T) <= Cardinality(S)
  BY FS_Subset, FS_CardinalityType
<1> QED BY <1>1, <1>2, <1>3, <1>4

\* The sets of the invariant are finite.
LEMMA Finite ==
  ASSUME TInv
  PROVE  /\ IsFiniteSet(Holding) /\ IsFiniteSet(Results) /\ IsFiniteSet(Behind)
         /\ Cardinality(Holding) \in Nat /\ Cardinality(Results) \in Nat
         /\ Cardinality(Behind) \in Nat
         /\ IsFiniteSet(Workers) /\ Cardinality(Workers) = NumThreads
<1>1. IsFiniteSet(Workers) /\ Cardinality(Workers) = NumThreads
  BY FS_Interval, ThreadsApart DEF Workers
<1>2. IsFiniteSet(DOMAIN onode)
  BY QueueTypes DEF TInv
<1>3. IsFiniteSet(Holding) /\ Cardinality(Holding) \in Nat
  BY <1>1, CardMoves DEF Holding
<1>4. IsFiniteSet(Results) /\ Cardinality(Results) \in Nat
  BY <1>2, CardMoves DEF Results
<1>5. IsFiniteSet(Behind) /\ Cardinality(Behind) \in Nat
  BY <1>4, CardMoves DEF Behind
<1> QED BY <1>1, <1>3, <1>4, <1>5

-----------------------------------------------------------------------------
(***************************************************************************)
(* Each step keeps the invariant.                                          *)
(***************************************************************************)
Before == TInv /\ IP!QInv' /\ OP!QInv'

\* A step that leaves oqueue and the jobs in the threads' hands.
LEMMA Frame ==
  ASSUME Before, UNCHANGED <<onode, ofifo>>, Holding' = Holding, Nulled' = Nulled,
         Left' => Left, odone' => odone \/ Nulled # {}
  PROVE  Results' = Results /\ NullPut' /\ FewBehind'
<1>1. Results' = Results
  BY DEF Results
<1>2. NullPut'
  BY <1>1 DEF Before, TInv, NullPut
<1>3. Behind' \subseteq Behind
  <2>1. \A a : (\E j, k \in 1 .. Len(ofifo') : j < k /\ ofifo'[k] = a /\ onode'[ofifo'[j]].data = 0)
               => (\E j, k \in 1 .. Len(ofifo) : j < k /\ ofifo[k] = a /\ onode[ofifo[j]].data = 0)
    OBVIOUS
  <2> QED BY <1>1, <2>1 DEF Behind
<1>4. Cardinality(Behind') <= Cardinality(Behind) /\ Cardinality(Behind') \in Nat
  BY <1>3, Finite, CardMoves DEF Before
<1>5. Cardinality(Holding') = Cardinality(Holding) /\ Cardinality(Holding) \in Nat
      /\ Cardinality(Behind) \in Nat /\ NumThreads \in Nat
  BY Finite, ThreadsApart DEF Before
<1>6. FewBehind'
  <2>1. Nulled # {} => Cardinality(Behind) + Cardinality(Holding) < NumThreads
    BY DEF Before, TInv, FewBehind
  <2>2. Nulled # {} => Cardinality(Behind') + Cardinality(Holding') < NumThreads
    BY <1>4, <1>5, <2>1
  <2> QED BY <2>2 DEF FewBehind
<1> QED BY <1>1, <1>2, <1>6

\* What a count depends on.
LEMMA SameCount ==
  ASSUME Before, Begun' = Begun, Len(ififo') = Len(ififo), Holding' = Holding,
         Results' = Results, printed' = printed
  PROVE  Counted'
<1>1. Begun = Len(ififo) + Cardinality(Holding) + Cardinality(Results) + Len(printed)
  BY DEF Before, TInv, Counted
<1> QED BY <1>1 DEF Counted

\* Every label is one of the two kinds, and main is no thread.
LEMMA Labels ==
  ASSUME TTypeOK
  PROVE  /\ at \in [Workers \cup {Main} -> MainLabels \cup WorkerLabels]
         /\ at[Main] \in MainLabels /\ \A w \in Workers : at[w] \in WorkerLabels /\ w # Main
         /\ ii \in Nat /\ IsList(printed)
         /\ \A w \in Workers : w \in Nat /\ w >= 1 /\ w <= NumThreads
BY ThreadsApart DEF TTypeOK, Workers

LEMMA ListMore ==
  ASSUME NEW s, IsList(s), NEW e
  PROVE  /\ Len(s) \in Nat /\ DOMAIN s = 1 .. Len(s)
         /\ IsList(Append(s, e)) /\ Len(Append(s, e)) = Len(s) + 1
         /\ \A k \in 1 .. Len(s) : Append(s, e)[k] = s[k]
         /\ Append(s, e)[Len(s) + 1] = e
<1>1. PICK S : s \in Seq(S)
  BY DEF IsList
<1>2. s \in Seq(S \cup {e}) /\ e \in S \cup {e}
  BY <1>1
<1>3. Append(s, e) \in Seq(S \cup {e})
  BY <1>2
<1> QED BY <1>1, <1>2, <1>3 DEF IsList

\* Main at a label of its own: the threads' labels stay.
LEMMA MainMoves ==
  ASSUME TTypeOK, NEW label \in MainLabels, Goto(Main, label), ii' \in Nat, IsList(printed'), start' = start
  PROVE  /\ TTypeOK' /\ at'[Main] = label /\ \A w \in Workers : at'[w] = at[w]
         /\ Nulled' = Nulled
<1>1. /\ at' = [at EXCEPT ![Main] = label]
      /\ at'[Main] = label /\ \A w \in Workers : at'[w] = at[w]
  BY Labels DEF Goto
<1>2. at' \in [Workers \cup {Main} -> MainLabels \cup WorkerLabels]
  BY <1>1, Labels
<1>3. TTypeOK'
  <2>1. IsList(printed')
    OBVIOUS
  <2> QED BY <1>1, <1>2, <2>1, Labels DEF TTypeOK
<1> QED BY <1>1, <1>3 DEF Nulled

\* A thread at a label of its own: main and the others stay.
LEMMA WorkerMoves ==
  ASSUME TTypeOK, NEW w \in Workers, NEW label \in WorkerLabels, Goto(w, label), ii' \in Nat,
         IsList(printed'), start' = start
  PROVE  /\ TTypeOK' /\ at'[w] = label /\ at'[Main] = at[Main]
         /\ \A u \in Workers : u # w => at'[u] = at[u]
<1>1. /\ at' = [at EXCEPT ![w] = label]
      /\ at'[w] = label /\ at'[Main] = at[Main]
      /\ \A u \in Workers : u # w => at'[u] = at[u]
  BY Labels DEF Goto
<1>2. at' \in [Workers \cup {Main} -> MainLabels \cup WorkerLabels]
  BY <1>1, Labels
<1>3. \A u \in Workers : at'[u] \in WorkerLabels
  BY <1>1, Labels
<1>4. TTypeOK'
  <2>1. IsList(printed')
    OBVIOUS
  <2> QED BY <1>1, <1>2, <1>3, <2>1, Labels DEF TTypeOK
<1> QED BY <1>1, <1>4

\* The parts of the invariant that a step is shown to keep.
LEMMA Parts ==
  ASSUME Before
  PROVE  /\ IP!QInv /\ OP!QInv /\ IP!QInv' /\ OP!QInv'
         /\ TTypeOK /\ MainPhase /\ Drained /\ Counted /\ NullPut /\ FewBehind
         /\ (TTypeOK' /\ MainPhase' /\ Drained' /\ Counted' /\ NullPut' /\ FewBehind' => TInv')
BY DEF Before, TInv

LEMMA CreateThreadKeeps == ASSUME Before, CreateThread PROVE TInv'
<1> DEFINE w == ii + 1
<1>1. /\ at[Main] = "create" /\ ii < NumThreads /\ Goto(w, "get") /\ ii' = w
      /\ UNCHANGED <<ivars, ovars, start, results>>
  BY DEF CreateThread
<1>2. UNCHANGED <<inode, ififo, idone, iret, onode, ofifo, odone, printed, start>>
  BY <1>1 DEF ivars, ovars, results
<1>3. w \in Workers /\ w \in Nat /\ w > ii
  BY <1>1, Parts, Labels, ThreadsApart DEF Workers
<1>4. at[w] = "unborn" /\ \A u \in Workers : u > w => at[u] = "unborn"
  <2>1. \A u \in Workers : u > ii => at[u] = "unborn"
    BY <1>1, Parts DEF MainPhase
  <2>2. \A u \in Workers : u > w => u > ii
    BY Parts, Labels
  <2> QED BY <1>3, <2>1, <2>2
<1>5. /\ TTypeOK' /\ at'[w] = "get" /\ at'[Main] = "create"
      /\ \A u \in Workers : u # w => at'[u] = at[u]
  <2>1. "get" \in WorkerLabels /\ IsList(printed')
    BY <1>2, Parts, Labels DEF WorkerLabels
  <2>2. TTypeOK /\ ii' \in Nat /\ start' = start
    BY <1>1, <1>2, <1>3, Parts
  <2> HIDE DEF w
  <2> QED BY <1>1, <1>3, <2>1, <2>2, WorkerMoves
<1> HIDE DEF w
<1>6. Holding' = Holding /\ Nulled' = Nulled
  BY <1>2, <1>4, <1>5 DEF Holding, Nulled
<1>7. MainPhase'
  <2>1. \A u \in Workers : u > w => at'[u] = "unborn"
    <3>1. \A u \in Workers : u > w => u # w
      BY <1>3, Parts, Labels
    <3> QED BY <1>4, <1>5, <3>1
  <2>2. w <= NumThreads
    BY <1>3, Parts, Labels
  <2> QED BY <1>1, <1>5, <2>1, <2>2 DEF MainPhase
<1>8. Drained'
  BY <1>1, <1>2, <1>4, <1>5, <1>6, Parts DEF Drained, Submitting
<1>9. Results' = Results /\ NullPut' /\ FewBehind'
  BY <1>2, <1>5, <1>6, Frame DEF Left
<1>10. Counted'
  BY <1>1, <1>2, <1>5, <1>6, <1>9, SameCount DEF Begun
<1> QED BY <1>5, <1>7, <1>8, <1>9, <1>10, Parts

\* Main's steps that touch neither the list of a queue nor a job.
LEMMA MainControlKeeps ==
  ASSUME Before, AllCreated \/ set_i_done \/ wake_ithread \/ Exit
  PROVE  TInv'
<1>1. UNCHANGED <<inode, ififo, iret, onode, ofifo, odone, printed, start>>
  BY DEF AllCreated, set_i_done, wake_ithread, Exit, IQ!set_doneq, IQ!wake_up, ivars, ovars, results
<1>2. /\ at[Main] = "create" => Goto(Main, "submit") /\ ii' = 0 /\ idone' = idone
      /\ at[Main] = "submit" => Goto(Main, "results") /\ ii' = ii /\ ii = Count
      /\ at[Main] = "wake"   => Goto(Main, "join") /\ ii' = 0 /\ idone' = idone
      /\ at[Main] = "join"   => Goto(Main, "exited") /\ ii' = ii /\ ii = NumThreads /\ idone' = idone
      /\ at[Main] \in {"create", "submit", "wake", "join"}
  BY DEF AllCreated, set_i_done, wake_ithread, Exit, IQ!set_doneq, IQ!wake_up, ivars
<1>3. /\ TTypeOK' /\ \A w \in Workers : at'[w] = at[w]
      /\ Nulled' = Nulled
      /\ at[Main] = "create" => at'[Main] = "submit"
      /\ at[Main] = "submit" => at'[Main] = "results"
      /\ at[Main] = "wake"   => at'[Main] = "join"
      /\ at[Main] = "join"   => at'[Main] = "exited"
  <2>1. /\ TTypeOK /\ IsList(printed') /\ start' = start /\ ii' \in Nat
    BY <1>1, <1>2, Parts, Labels
  <2>2. {"submit", "results", "join", "exited"} \subseteq MainLabels
    BY DEF MainLabels
  <2> QED BY <1>2, <2>1, <2>2, MainMoves
<1>4. Holding' = Holding
  BY <1>1, <1>3 DEF Holding
<1>5. MainPhase'
  <2>1. at[Main] = "join" => \A w \in Workers : at[w] = "joined"
    BY <1>2, Parts DEF MainPhase, Workers
  <2>2. 0 <= Count /\ 0 <= NumThreads /\ 1 .. 0 = {}
    BY ThreadsApart
  <2> QED BY <1>2, <1>3, <2>1, <2>2 DEF MainPhase
<1>6. Drained'
  BY <1>1, <1>2, <1>3, Parts DEF Drained, Submitting
<1>7. Results' = Results /\ NullPut' /\ FewBehind'
  BY <1>1, <1>2, <1>3, <1>4, Frame DEF Left
<1>8. Counted'
  BY <1>1, <1>2, <1>3, <1>4, <1>7, SameCount DEF Begun
<1> QED BY <1>3, <1>5, <1>6, <1>7, <1>8, Parts

LEMMA JoinThreadKeeps == ASSUME Before, JoinThread PROVE TInv'
<1> DEFINE w == ii + 1
<1>1. /\ at[Main] = "join" /\ ii < NumThreads /\ at[w] = "ended" /\ Goto(w, "joined") /\ ii' = w
      /\ UNCHANGED <<ivars, ovars, start, results>>
  BY DEF JoinThread
<1>2. UNCHANGED <<inode, ififo, idone, iret, onode, ofifo, odone, printed, start>>
  BY <1>1 DEF ivars, ovars, results
<1>3. w \in Workers /\ w \in Nat /\ \A u \in 1 .. w : u \in 1 .. ii \/ u = w
  BY <1>1, Parts, Labels, ThreadsApart DEF Workers
<1>4. /\ TTypeOK' /\ at'[w] = "joined" /\ at'[Main] = "join"
      /\ \A u \in Workers : u # w => at'[u] = at[u]
  <2>1. "joined" \in WorkerLabels /\ IsList(printed')
    BY <1>2, Parts, Labels DEF WorkerLabels
  <2>2. TTypeOK /\ ii' \in Nat /\ start' = start
    BY <1>1, <1>2, <1>3, Parts
  <2> HIDE DEF w
  <2> QED BY <1>1, <1>3, <2>1, <2>2, WorkerMoves
<1> HIDE DEF w
<1>5. 1 .. w \subseteq Workers /\ w <= NumThreads
  <2>1. w <= NumThreads /\ NumThreads \in Nat /\ w \in Nat
    BY <1>3, Parts, Labels, ThreadsApart
  <2> QED BY <2>1 DEF Workers
<1>6. Holding' = Holding /\ Nulled' = Nulled
  BY <1>1, <1>2, <1>4 DEF Holding, Nulled
<1>7. MainPhase'
  <2>1. \A u \in 1 .. ii : at[u] = "joined"
    BY <1>1, Parts DEF MainPhase
  <2>2. \A u \in 1 .. w : at'[u] = "joined"
    BY <1>3, <1>4, <1>5, <2>1
  <2> QED BY <1>1, <1>4, <1>5, <2>2 DEF MainPhase
<1>8. Drained'
  BY <1>1, <1>2, <1>4, <1>6, Parts DEF Drained, Submitting
<1>9. Results' = Results /\ NullPut' /\ FewBehind'
  BY <1>1, <1>2, <1>4, <1>6, Frame DEF Left
<1>10. Counted'
  BY <1>1, <1>2, <1>4, <1>6, <1>9, SameCount DEF Begun
<1> QED BY <1>4, <1>7, <1>8, <1>9, <1>10, Parts

LEMMA submit_jobKeeps == ASSUME Before, submit_job PROVE TInv'
<1>1. /\ at[Main] = "submit" /\ ii < Count /\ ii' = ii + 1
      /\ UNCHANGED <<onode, ofifo, odone, at, start, printed>>
  BY DEF submit_job, ovars, results
<1>2. Len(ififo') = Len(ififo) + 1 /\ iret' = iret /\ idone' = idone
  <2>1. ii + 1 \in Jobs
    BY <1>1, Parts, Labels, ThreadsApart DEF Jobs
  <2>2. IP!queue_put(ii + 1) /\ IP!QInv
    BY ISteps, Parts DEF submit_job
  <2> QED BY <2>1, <2>2, IP!PutData
<1>3. Holding' = Holding /\ Nulled' = Nulled
  BY <1>1, <1>2 DEF Holding, Nulled
<1>4. TTypeOK'
  <2>1. IsList(printed') /\ ii' \in Nat
    BY <1>1, Parts, Labels
  <2> QED BY <1>1, <2>1, Parts DEF TTypeOK
<1>5. MainPhase'
  <2>1. ii' <= Count
    BY <1>1, Parts, Labels, ThreadsApart
  <2> QED BY <1>1, <2>1 DEF MainPhase
<1>6. Drained'
  BY <1>1, <1>2, <1>3, Parts DEF Drained, Submitting
<1>7. Results' = Results /\ NullPut' /\ FewBehind'
  BY <1>1, <1>2, <1>3, Frame DEF Left
<1>8. Counted'
  <2>1. Begun = ii /\ Begun' = ii + 1 /\ ii \in Nat
    BY <1>1, Parts, Labels DEF Begun
  <2>2. /\ Len(ififo) \in Nat /\ Cardinality(Holding) \in Nat /\ Cardinality(Results) \in Nat
        /\ Len(printed) \in Nat
    BY QueueTypes, Finite, Parts, Labels, LenProperties DEF Before
  <2>3. Begun = Len(ififo) + Cardinality(Holding) + Cardinality(Results) + Len(printed)
    BY Parts DEF Counted
  <2>4. Begun' = Len(ififo') + Cardinality(Holding) + Cardinality(Results) + Len(printed)
    BY <1>2, <2>1, <2>2, <2>3
  <2> QED BY <1>1, <1>3, <1>7, <2>4 DEF Counted
<1> QED BY <1>4, <1>5, <1>6, <1>7, <1>8, Parts

\* A thread that is not at its first or last label moves: main is where it was.
LEMMA MainPhaseKept ==
  ASSUME Before, at'[Main] = at[Main], ii' = ii,
         \A u \in Workers : /\ at[u] = "unborn" => at'[u] = "unborn"
                            /\ at[u] = "joined" => at'[u] = "joined"
  PROVE  MainPhase'
<1>1. ii <= NumThreads => \A u \in 1 .. ii : u \in Workers
  BY Parts, Labels, ThreadsApart DEF Workers
<1> QED BY <1>1, Parts DEF MainPhase

\* Steps after which nobody holds another job and no list has changed: a thread or main
\* sleeps or wakes up, one has made its factors, set done or woken main.
LEMMA QuietKeeps ==
  ASSUME Before,
         UNCHANGED <<inode, ififo, idone, iret, onode, ofifo, printed, start, ii>>,
         odone' => odone \/ Nulled # {},
         \/ UNCHANGED at
         \/ \E w \in Workers : at[w] = "factor" /\ Goto(w, "put")
         \/ \E w \in Workers : at[w] = "set_o_done" /\ Goto(w, "wake_othread")
         \/ \E w \in Workers : at[w] = "wake_othread" /\ Goto(w, "ended")
  PROVE  TInv'
<1>1. TTypeOK' /\ at'[Main] = at[Main]
  <2>1. CASE UNCHANGED at
    <3>1. IsList(printed') /\ ii' \in Nat
      BY Parts, Labels
    <3> QED BY <2>1, <3>1, Parts DEF TTypeOK
  <2>2. ASSUME NEW w \in Workers, NEW label \in WorkerLabels, Goto(w, label)
        PROVE  TTypeOK' /\ at'[Main] = at[Main]
    BY <2>2, Parts, Labels, WorkerMoves
  <2>3. {"put", "wake_othread", "ended"} \subseteq WorkerLabels
    BY DEF WorkerLabels
  <2> QED BY <2>1, <2>2, <2>3
<1>2. \A u \in Workers : \/ at'[u] = at[u]
                         \/ at[u] = "factor" /\ at'[u] = "put"
                         \/ at[u] = "set_o_done" /\ at'[u] = "wake_othread"
                         \/ at[u] = "wake_othread" /\ at'[u] = "ended"
  BY Parts, Labels DEF Goto
<1>3. Holding' = Holding /\ Nulled' = Nulled
  BY <1>2 DEF Holding, Nulled
<1>4. MainPhase'
  BY <1>1, <1>2, MainPhaseKept
<1>5. Drained'
  <2>1. \A w \in Workers : at'[w] = "put" /\ iret'[w] = 0 => at[w] = "put" /\ iret[w] = 0
    BY <1>2, Parts DEF Drained
  <2>2. \A w \in Workers : at'[w] = "factor" => at[w] = "factor"
    BY <1>2
  <2> QED BY <1>1, <1>3, <2>1, <2>2, Parts DEF Drained, Submitting
<1>6. Results' = Results /\ NullPut' /\ FewBehind'
  BY <1>1, <1>3, Frame DEF Left
<1>7. Counted'
  BY <1>1, <1>3, <1>6, SameCount DEF Begun
<1> QED BY <1>1, <1>4, <1>5, <1>6, <1>7, Parts

LEMMA QuietStepsKeep ==
  ASSUME Before,
         \/ \E w \in Workers : \/ Factor(w) \/ set_o_done(w) \/ wake_othread(w)
                               \/ GetJob(w) /\ IQ!GetSleep(w) /\ UNCHANGED at
         \/ get_result /\ OQ!GetSleep(Main) /\ UNCHANGED <<at, results>>
         \/ SpuriousWakeUp \/ UNCHANGED vars
  PROVE  TInv'
<1>1. CASE \E w \in Workers : Factor(w)
  BY <1>1, QuietKeeps DEF Factor, ivars, ovars
<1>2. ASSUME NEW w \in Workers, set_o_done(w) PROVE TInv'
  <2>1. Nulled # {}
    BY <1>2 DEF set_o_done, Nulled
  <2> QED BY <1>2, <2>1, QuietKeeps DEF set_o_done, OQ!set_doneq, ivars, results
<1>3. CASE \E w \in Workers : wake_othread(w)
  BY <1>3, QuietKeeps DEF wake_othread, OQ!wake_up, ivars, results
<1>4. CASE \E w \in Workers : GetJob(w) /\ IQ!GetSleep(w) /\ UNCHANGED at
  BY <1>4, QuietKeeps DEF GetJob, IQ!GetSleep, ovars, results
<1>5. CASE get_result /\ OQ!GetSleep(Main) /\ UNCHANGED <<at, results>>
  BY <1>5, QuietKeeps DEF get_result, OQ!GetSleep, ivars, results
<1>6. CASE SpuriousWakeUp
  BY <1>6, QuietKeeps DEF SpuriousWakeUp, IQ!SpuriousWakeUp, OQ!SpuriousWakeUp, ivars, ovars, results
<1>7. CASE UNCHANGED vars
  BY <1>7, QuietKeeps DEF vars
<1> QED BY <1>1, <1>2, <1>3, <1>4, <1>5, <1>6, <1>7

\* A result that goes away, or a job that passes from the threads to oqueue, leaves room
\* for the others.
LEMMA FewKept ==
  ASSUME Before, NEW S, Behind' \subseteq S, IsFiniteSet(S),
         Nulled' # {} => Cardinality(S) + Cardinality(Holding') < NumThreads,
         Cardinality(Holding') \in Nat
  PROVE  FewBehind'
<1>1. Cardinality(Behind') <= Cardinality(S) /\ Cardinality(Behind') \in Nat /\ Cardinality(S) \in Nat
  BY CardMoves
<1>2. Nulled' # {} => Cardinality(Behind') + Cardinality(Holding') < NumThreads
  BY <1>1, ThreadsApart
<1> QED BY <1>2 DEF FewBehind

LEMMA GetJobNullKeeps ==
  ASSUME Before, NEW w \in Workers, GetJob(w), IQ!GetNull(w), Goto(w, "put")
  PROVE  TInv'
<1>1. /\ at[w] = "get" /\ iret' = [iret EXCEPT ![w] = 0] /\ idone /\ itail = 0
      /\ UNCHANGED <<inode, ififo, idone, onode, ofifo, odone, printed, start, ii>>
  BY DEF GetJob, IQ!GetNull, IQ!NULL, ovars, results
<1>2. /\ iret'[w] = 0 /\ \A u \in Workers : u # w => iret'[u] = iret[u]
      /\ Len(ififo) = 0
  BY <1>1, QueueTypes, Parts
<1>3. /\ TTypeOK' /\ at'[w] = "put" /\ at'[Main] = at[Main]
      /\ \A u \in Workers : u # w => at'[u] = at[u]
  <2>1. "put" \in WorkerLabels /\ IsList(printed') /\ ii' \in Nat /\ start' = start
    BY <1>1, Parts, Labels DEF WorkerLabels
  <2> QED BY <2>1, Parts, WorkerMoves
<1>4. Holding' = Holding /\ Nulled' = Nulled
  BY <1>1, <1>2, <1>3 DEF Holding, Nulled
<1>5. MainPhase'
  BY <1>1, <1>3, MainPhaseKept
<1>6. Drained'
  BY <1>1, <1>2, <1>3, <1>4, Parts DEF Drained, Submitting
<1>7. Results' = Results /\ NullPut' /\ FewBehind'
  BY <1>1, <1>3, <1>4, Frame DEF Left
<1>8. Counted'
  BY <1>1, <1>3, <1>4, <1>7, SameCount DEF Begun
<1> QED BY <1>3, <1>5, <1>6, <1>7, <1>8, Parts

LEMMA GetJobNodeKeeps ==
  ASSUME Before, NEW w \in Workers, GetJob(w), IQ!GetNode(w), Goto(w, "factor")
  PROVE  TInv'
<1>1. /\ at[w] = "get"
      /\ UNCHANGED <<onode, ofifo, odone, printed, start, ii>>
  BY DEF GetJob, ovars, results
<1>2. /\ iret' = [iret EXCEPT ![w] = inode[itail].data] /\ inode[itail].data \in Jobs
      /\ Len(ififo) \in Nat /\ Len(ififo) > 0 /\ Len(ififo') = Len(ififo) - 1 /\ idone' = idone
  BY ISteps, IP!GetData, Parts
<1>3. /\ iret'[w] # 0 /\ \A u \in Workers : u # w => iret'[u] = iret[u]
  BY <1>2, QueueTypes, Parts, ThreadsApart
<1>4. /\ TTypeOK' /\ at'[w] = "factor" /\ at'[Main] = at[Main]
      /\ \A u \in Workers : u # w => at'[u] = at[u]
  <2>1. "factor" \in WorkerLabels /\ IsList(printed') /\ ii' \in Nat /\ start' = start
    BY <1>1, Parts, Labels DEF WorkerLabels
  <2> QED BY <2>1, Parts, WorkerMoves
<1>5. Holding' = Holding \cup {w} /\ w \notin Holding /\ Nulled' = Nulled
  BY <1>1, <1>3, <1>4 DEF Holding, Nulled
<1>6. MainPhase'
  BY <1>1, <1>4, MainPhaseKept
<1>7. \A u \in Workers : ~ (u \in Nulled \/ (at[u] = "put" /\ iret[u] = 0))
  BY <1>2, Parts DEF Drained
<1>8. Nulled = {}
  BY <1>7 DEF Nulled
<1>9. Drained'
  BY <1>1, <1>2, <1>3, <1>4, <1>5, <1>7, Parts DEF Drained, Submitting
<1>10. Results' = Results
  BY <1>1 DEF Results
<1>11. NullPut' /\ FewBehind'
  BY <1>1, <1>4, <1>5, <1>8, <1>10, Parts DEF NullPut, FewBehind, Left
<1>12. Counted'
  <2>1. Cardinality(Holding') = Cardinality(Holding) + 1
    BY <1>5, Finite, CardMoves DEF Before
  <2>2. /\ Len(ififo) \in Nat /\ Cardinality(Holding) \in Nat /\ Cardinality(Results) \in Nat
        /\ Len(printed) \in Nat
    BY QueueTypes, Finite, Parts, Labels, LenProperties DEF Before
  <2>3. Begun = Len(ififo) + Cardinality(Holding) + Cardinality(Results) + Len(printed)
    BY Parts DEF Counted
  <2>4. Begun = Len(ififo') + Cardinality(Holding') + Cardinality(Results) + Len(printed)
    BY <1>2, <2>1, <2>2, <2>3
  <2>5. Begun' = Begun
    BY <1>1, <1>4 DEF Begun
  <2> QED BY <1>1, <1>10, <2>4, <2>5 DEF Counted
<1> QED BY <1>4, <1>6, <1>9, <1>11, <1>12, Parts

\* What putting a job on oqueue does to the results.
LEMMA PutOnOqueue ==
  ASSUME Before, NEW job \in Jobs \cup {0}, OQ!queue_put(job), Left' => Left
  PROVE  \E a : /\ a \notin Results /\ a \in DOMAIN onode'
                /\ job # 0 => Results' = Results \cup {a}
                /\ job = 0 => Results' = Results
                /\ Results # DOMAIN onode => Results' # DOMAIN onode'
                /\ job # 0 /\ Results = DOMAIN onode => Results' = DOMAIN onode'
                /\ Behind' \subseteq Behind \cup {x \in {a} : job # 0}
                /\ ~Left /\ Results = DOMAIN onode => Behind' \subseteq {x \in {a} : job # 0}
                /\ odone' = odone
<1>1. PICK a \in OP!Addr \ DOMAIN onode :
        /\ DOMAIN onode' = DOMAIN onode \cup {a} /\ onode'[a].data = job
        /\ \A b \in DOMAIN onode : onode'[b].data = onode[b].data
        /\ ofifo'[Len(ofifo) + 1] = a
        /\ \A k \in 1 .. Len(ofifo) : ofifo'[k] = ofifo[k]
  BY OSteps, Parts, OP!PutData
<1>2. Len(ofifo') = Len(ofifo) + 1 /\ odone' = odone
  BY OSteps, Parts, OP!PutData
<1>3. a \notin Results /\ a \in DOMAIN onode'
  BY <1>1 DEF Results
<1>4. /\ job # 0 => Results' = Results \cup {a}
      /\ job = 0 => Results' = Results
  BY <1>1 DEF Results
<1>5. /\ Results # DOMAIN onode => Results' # DOMAIN onode'
      /\ job # 0 /\ Results = DOMAIN onode => Results' = DOMAIN onode'
  BY <1>1, <1>4 DEF Results
<1>6. ASSUME NEW x \in Results', x # a, ~Left
      PROVE  x \in Results /\ (x \in Behind' => x \in Behind /\ Results # DOMAIN onode)
  <2>1. x \in Results
    BY <1>1, <1>6 DEF Results
  <2>2. ASSUME x \in Behind'
        PROVE  \E j, k \in 1 .. Len(ofifo) : j < k /\ ofifo[k] = x /\ onode[ofifo[j]].data = 0
    <3>1. PICK j \in 1 .. Len(ofifo'), k \in 1 .. Len(ofifo') :
            j < k /\ ofifo'[k] = x /\ onode'[ofifo'[j]].data = 0
      BY <1>6, <2>2 DEF Behind
    <3>2. Len(ofifo) \in Nat
      BY QueueTypes, Parts
    <3>3. j \in 1 .. Len(ofifo) /\ k \in 1 .. Len(ofifo)
      BY <1>1, <1>2, <1>6, <3>1, <3>2
    <3>4. ofifo[j] \in DOMAIN onode
      BY <3>3, QueueTypes, Parts
    <3>5. ofifo[k] = x /\ onode[ofifo[j]].data = 0
      BY <1>1, <3>1, <3>3, <3>4
    <3> QED BY <3>1, <3>3, <3>5
  <2>3. ASSUME x \in Behind' PROVE Results # DOMAIN onode
    <3>1. PICK j \in 1 .. Len(ofifo), k \in 1 .. Len(ofifo) : onode[ofifo[j]].data = 0
      BY <2>2, <2>3
    <3>2. ofifo[j] \in DOMAIN onode
      BY <3>1, QueueTypes, Parts
    <3> QED BY <3>1, <3>2 DEF Results
  <2> QED BY <2>1, <2>2, <2>3 DEF Behind
<1>7. Behind' \subseteq Results'
  BY DEF Behind
<1>8. Left => Behind = Results
  BY DEF Behind
<1>9. Behind' \subseteq Behind \cup {x \in {a} : job # 0}
  <2>1. CASE Left
    BY <1>4, <1>7, <1>8, <2>1
  <2>2. CASE ~Left
    <3>1. job = 0 => a \notin Results'
      BY <1>3, <1>4
    <3> QED BY <1>6, <1>7, <2>2, <3>1
  <2> QED BY <2>1, <2>2
<1>10. ~Left /\ Results = DOMAIN onode => Behind' \subseteq {x \in {a} : job # 0}
  <2>1. job = 0 => a \notin Results'
    BY <1>3, <1>4
  <2> QED BY <1>6, <1>7, <2>1
<1> QED BY <1>2, <1>3, <1>4, <1>5, <1>9, <1>10

LEMMA PutJobKeeps ==
  ASSUME Before, NEW w \in Workers, PutResult(w), iret[w] # 0
  PROVE  TInv'
<1>1. /\ at[w] = "put" /\ OQ!queue_put(iret[w]) /\ Goto(w, "get")
      /\ UNCHANGED <<inode, ififo, idone, iret, printed, start, ii>>
  BY DEF PutResult, ivars, results
<1>2. iret[w] \in Jobs \cup {0}
  BY QueueTypes, Parts
<1>3. /\ TTypeOK' /\ at'[w] = "get" /\ at'[Main] = at[Main]
      /\ \A u \in Workers : u # w => at'[u] = at[u]
  <2>1. "get" \in WorkerLabels /\ IsList(printed') /\ ii' \in Nat /\ start' = start
    BY <1>1, Parts, Labels DEF WorkerLabels
  <2> QED BY <1>1, <2>1, Parts, WorkerMoves
<1>4. Holding' = Holding \ {w} /\ w \in Holding /\ Nulled' = Nulled
  BY <1>1, <1>3 DEF Holding, Nulled
<1>5. MainPhase'
  BY <1>1, <1>3, MainPhaseKept
<1>6. Drained'
  BY <1>1, <1>3, <1>4, Parts DEF Drained, Submitting
<1>7. PICK a : /\ a \notin Results /\ Results' = Results \cup {a}
               /\ Results = DOMAIN onode => Results' = DOMAIN onode'
               /\ Behind' \subseteq Behind \cup {a} /\ odone' = odone
  <2>1. Left' => Left
    BY <1>3 DEF Left
  <2> QED BY <1>1, <1>2, <2>1, PutOnOqueue
<1>8. NullPut'
  BY <1>3, <1>4, <1>7, Parts DEF NullPut, Left
<1>9. /\ Cardinality(Holding') = Cardinality(Holding) - 1
      /\ Cardinality(Results') = Cardinality(Results) + 1
      /\ Cardinality(Holding) \in Nat /\ Cardinality(Results) \in Nat
      /\ Cardinality(Behind) \in Nat
      /\ IsFiniteSet(Holding) /\ IsFiniteSet(Behind) /\ IsFiniteSet(Behind \cup {a})
      /\ Cardinality(Behind \cup {a}) \in Nat
      /\ Cardinality(Behind \cup {a}) <= Cardinality(Behind) + 1
  <2>1. /\ Cardinality(Holding) \in Nat /\ Cardinality(Results) \in Nat
        /\ Cardinality(Behind) \in Nat
        /\ IsFiniteSet(Holding) /\ IsFiniteSet(Behind) /\ IsFiniteSet(Results)
    BY Finite DEF Before
  <2>2. /\ Cardinality(Holding') = Cardinality(Holding) - 1
        /\ Cardinality(Results') = Cardinality(Results) + 1
    BY <1>4, <1>7, <2>1, CardMoves
  <2>3. /\ IsFiniteSet(Behind \cup {a}) /\ Cardinality(Behind \cup {a}) \in Nat
        /\ Cardinality(Behind \cup {a}) <= Cardinality(Behind) + 1
    <3>1. IsFiniteSet(Behind \cup {a})
      BY <2>1, FS_AddElement
    <3>2. Cardinality(Behind \cup {a}) \in Nat
      BY <3>1, CardMoves
    <3>3. CASE a \in Behind
      <4>1. Cardinality(Behind \cup {a}) = Cardinality(Behind)
        <5>1. Behind \cup {a} = Behind
          BY <3>3
        <5> QED BY <5>1
      <4> QED BY <2>1, <3>1, <4>1
    <3>4. CASE a \notin Behind
      <4>1. Cardinality(Behind \cup {a}) = Cardinality(Behind) + 1
        BY <2>1, <3>4, CardMoves
      <4> QED BY <2>1, <3>1, <3>2, <4>1
    <3> QED BY <3>1, <3>2, <3>3, <3>4
  <2> QED BY <2>1, <2>2, <2>3
<1>10. FewBehind'
  <2>1. Cardinality(Holding') \in Nat
    <3>1. IsFiniteSet(Holding')
      BY <1>4, <1>9, CardMoves
    <3> QED BY <3>1, CardMoves
  <2>2. Nulled' # {} => Cardinality(Behind) + Cardinality(Holding) < NumThreads
    BY <1>4, Parts DEF FewBehind
  <2>3. Nulled' # {} => Cardinality(Behind \cup {a}) + Cardinality(Holding') < NumThreads
    BY <1>9, <2>1, <2>2, ThreadsApart
  <2> QED BY <1>7, <1>9, <2>1, <2>3, FewKept
<1>11. Counted'
  <2>2. Len(ififo) \in Nat /\ Len(printed) \in Nat
    BY QueueTypes, Parts, Labels, LenProperties
  <2>3. Begun = Len(ififo) + Cardinality(Holding) + Cardinality(Results) + Len(printed)
    BY Parts DEF Counted
  <2>4. Begun = Len(ififo) + Cardinality(Holding') + Cardinality(Results') + Len(printed)
    BY <1>9, <2>2, <2>3
  <2>5. Begun' = Begun
    BY <1>1, <1>3 DEF Begun
  <2> QED BY <1>1, <2>4, <2>5 DEF Counted
<1> QED BY <1>3, <1>5, <1>6, <1>8, <1>10, <1>11, Parts

\* The null job a thread puts when it has drained iqueue.
LEMMA PutNullKeeps ==
  ASSUME Before, NEW w \in Workers, PutResult(w), iret[w] = 0
  PROVE  TInv'
<1>1. /\ at[w] = "put" /\ OQ!queue_put(0) /\ Goto(w, "set_o_done")
      /\ UNCHANGED <<inode, ififo, idone, iret, printed, start, ii>>
  BY DEF PutResult, ivars, results
<1>2. /\ TTypeOK' /\ at'[w] = "set_o_done" /\ at'[Main] = at[Main]
      /\ \A u \in Workers : u # w => at'[u] = at[u]
  <2>1. "set_o_done" \in WorkerLabels /\ IsList(printed') /\ ii' \in Nat /\ start' = start
    BY <1>1, Parts, Labels DEF WorkerLabels
  <2> QED BY <1>1, <2>1, Parts, WorkerMoves
<1>3. Holding' = Holding /\ w \notin Holding /\ Nulled' = Nulled \cup {w}
  BY <1>1, <1>2 DEF Holding, Nulled
<1>4. MainPhase'
  BY <1>1, <1>2, MainPhaseKept
<1>5. Drained'
  <2>1. Len(ififo) = 0 /\ ~Submitting
    BY <1>1, Parts DEF Drained
  <2> QED BY <1>1, <1>2, <1>3, <2>1, Parts DEF Drained, Submitting
<1>6. PICK a : /\ Results' = Results /\ Behind' \subseteq Behind
               /\ ~Left /\ Results = DOMAIN onode => Behind' = {}
  <2>1. Left' => Left
    BY <1>2 DEF Left
  <2> QED BY <1>1, <2>1, PutOnOqueue
<1>7. NullPut'
  BY <1>3 DEF NullPut
<1>8. FewBehind'
  <2>1. /\ IsFiniteSet(Behind) /\ Cardinality(Behind) \in Nat /\ Cardinality(Holding) \in Nat
        /\ IsFiniteSet(Workers) /\ Cardinality(Workers) = NumThreads
    BY Finite DEF Before
  <2>2. CASE Nulled # {}
    <3>1. Cardinality(Behind) + Cardinality(Holding') < NumThreads
      BY <1>3, <2>2, Parts DEF FewBehind
    <3> QED BY <1>3, <1>6, <2>1, <3>1, FewKept
  <2>3. CASE Nulled = {}
    <3>1. Behind' = {}
      BY <1>6, <2>3, Parts DEF NullPut
    <3>2. Holding' \subseteq Workers \ {w}
      BY <1>3 DEF Holding
    <3>3. Cardinality(Workers \ {w}) = NumThreads - 1 /\ IsFiniteSet(Workers \ {w})
      BY <2>1, CardMoves
    <3>4. Cardinality(Holding') <= NumThreads - 1 /\ Cardinality(Holding') \in Nat
      BY <3>2, <3>3, CardMoves
    <3>5. Cardinality({}) = 0 /\ IsFiniteSet({})
      BY FS_EmptySet
    <3>6. Cardinality({}) + Cardinality(Holding') < NumThreads
      BY <3>4, <3>5, ThreadsApart
    <3> QED BY <3>1, <3>4, <3>5, <3>6, FewKept
  <2> QED BY <2>2, <2>3
<1>9. Counted'
  BY <1>1, <1>2, <1>3, <1>6, SameCount DEF Begun
<1> QED BY <1>2, <1>4, <1>5, <1>7, <1>8, <1>9, Parts

\* What taking from oqueue does to the results.
LEMMA GetFromOqueue ==
  ASSUME Before, OQ!GetNode(Main), Left' => Left \/ oret'[Main] = 0
  PROVE  /\ oret'[Main] \in Jobs \cup {0} /\ odone' = odone
         /\ oret'[Main] = 0 => Results' = Results /\ Results # DOMAIN onode
         /\ oret'[Main] # 0 => Results' = Results \ {otail} /\ otail \in Results
         /\ Results' # DOMAIN onode' => Results # DOMAIN onode
         /\ Behind' \subseteq Behind
<1>1. /\ otail \in DOMAIN onode /\ DOMAIN onode' = DOMAIN onode \ {otail}
      /\ \A b \in DOMAIN onode' : onode'[b].data = onode[b].data
      /\ Len(ofifo) \in Nat /\ Len(ofifo) > 0 /\ otail = ofifo[1]
      /\ Len(ofifo') = Len(ofifo) - 1
      /\ \A k \in 1 .. Len(ofifo) - 1 : ofifo'[k] = ofifo[k + 1]
      /\ oret' = [oret EXCEPT ![Main] = onode[otail].data] /\ odone' = odone
      /\ onode[otail].data \in Jobs \cup {0}
  <2>1. Main \in {Main}
    OBVIOUS
  <2> QED BY <2>1, OSteps, OP!GetData, Parts
<1>2. oret'[Main] = onode[otail].data
  BY <1>1, QueueTypes, Parts
<1>3. /\ oret'[Main] = 0 => Results' = Results /\ Results # DOMAIN onode
      /\ oret'[Main] # 0 => Results' = Results \ {otail} /\ otail \in Results
      /\ Results' # DOMAIN onode' => Results # DOMAIN onode
      /\ Results' \subseteq Results
  BY <1>1, <1>2 DEF Results
<1>4. ASSUME NEW x \in Behind' PROVE x \in Behind
  <2>1. x \in Results /\ x \in DOMAIN onode' /\ x # otail
    BY <1>1, <1>3 DEF Behind, Results
  <2>2. CASE Left
    BY <2>1, <2>2 DEF Behind
  <2>3. CASE ~Left' /\ ~Left
    <3>1. PICK j \in 1 .. Len(ofifo'), k \in 1 .. Len(ofifo') :
            j < k /\ ofifo'[k] = x /\ onode'[ofifo'[j]].data = 0
      BY <2>3 DEF Behind
    <3>2. j + 1 \in 1 .. Len(ofifo) /\ k + 1 \in 1 .. Len(ofifo) /\ j + 1 < k + 1
          /\ j \in 1 .. Len(ofifo) - 1 /\ k \in 1 .. Len(ofifo) - 1
      BY <1>1, <3>1
    <3>3. ofifo'[j] = ofifo[j + 1] /\ ofifo'[k] = ofifo[k + 1]
      BY <1>1, <3>2
    <3>4. ofifo[j + 1] \in DOMAIN onode'
      <4>1. ofifo[j + 1] \in DOMAIN onode
        BY <3>2, QueueTypes, Parts
      <4>2. j + 1 # 1 /\ 1 \in 1 .. Len(ofifo)
        BY <1>1, <3>1
      <4>3. ofifo[j + 1] # ofifo[1]
        BY <3>2, <4>2, QueueTypes, Parts
      <4> QED BY <1>1, <4>1, <4>3
    <3>5. onode[ofifo[j + 1]].data = 0 /\ ofifo[k + 1] = x
      BY <1>1, <3>1, <3>3, <3>4
    <3> QED BY <2>1, <3>2, <3>5 DEF Behind
  <2>4. CASE Left' /\ ~Left
    <3>1. onode[ofifo[1]].data = 0
      BY <1>1, <1>2, <2>4
    <3>2. PICK k \in 1 .. Len(ofifo) : ofifo[k] = x
      BY <2>1, QueueTypes, Parts DEF Results
    <3>3. 1 \in 1 .. Len(ofifo) /\ 1 < k
      BY <1>1, <2>1, <3>2
    <3> QED BY <2>1, <3>1, <3>2, <3>3 DEF Behind
  <2> QED BY <2>2, <2>3, <2>4
<1> QED BY <1>1, <1>2, <1>3, <1>4

\* Main takes a null job, or is told that oqueue has ended, and leaves its loop.
LEMMA GetNullResultKeeps ==
  ASSUME Before, get_result, OQ!GetNull(Main) \/ OQ!GetNode(Main), oret'[Main] = 0,
         Goto(Main, "wake"), UNCHANGED results
  PROVE  TInv'
<1>1. /\ at[Main] = "results"
      /\ UNCHANGED <<inode, ififo, idone, iret, printed, start, ii>>
  BY DEF get_result, ivars, results
<1>2. /\ TTypeOK' /\ at'[Main] = "wake" /\ \A w \in Workers : at'[w] = at[w]
      /\ Nulled' = Nulled
  <2>1. "wake" \in MainLabels /\ IsList(printed') /\ ii' \in Nat /\ start' = start
    BY <1>1, Parts, Labels DEF MainLabels
  <2> QED BY <2>1, Parts, MainMoves
<1>3. Holding' = Holding
  BY <1>1, <1>2 DEF Holding
<1>4. Results' = Results /\ Nulled # {} /\ Behind' \subseteq Behind
  <2>1. CASE OQ!GetNull(Main)
    <3>1. otail = 0 /\ odone /\ onode' = onode /\ ofifo' = ofifo
      BY <2>1 DEF OQ!GetNull, OQ!NULL
    <3>2. DOMAIN onode = {}
      <4>1. Len(ofifo) = 0
        BY <3>1, QueueTypes, Parts
      <4>2. 1 .. 0 = {}
        OBVIOUS
      <4> QED BY <4>1, <4>2, QueueTypes, Parts
    <3>3. Results = {} /\ Results' = {}
      BY <3>1, <3>2 DEF Results
    <3> QED BY <3>1, <3>3, Parts DEF Behind, NullPut
  <2>2. CASE OQ!GetNode(Main)
    BY <2>2, GetFromOqueue, Parts DEF NullPut
  <2> QED BY <2>1, <2>2
<1>5. MainPhase'
  BY <1>2 DEF MainPhase
<1>6. Drained'
  BY <1>1, <1>2, Parts DEF Drained, Submitting
<1>7. NullPut'
  BY <1>2, <1>4 DEF NullPut
<1>8. FewBehind'
  <2>1. Nulled' # {} => Cardinality(Behind) + Cardinality(Holding') < NumThreads
    BY <1>2, <1>3, Parts DEF FewBehind
  <2>2. IsFiniteSet(Behind) /\ Cardinality(Holding) \in Nat
    BY Finite DEF Before
  <2> QED BY <1>3, <1>4, <2>1, <2>2, FewKept
<1>9. Counted'
  BY <1>1, <1>2, <1>3, <1>4, SameCount DEF Begun
<1> QED BY <1>2, <1>5, <1>6, <1>7, <1>8, <1>9, Parts

LEMMA GetJobResultKeeps ==
  ASSUME Before, get_result, OQ!GetNode(Main), oret'[Main] # 0, print_result(oret'[Main]),
         UNCHANGED at
  PROVE  TInv'
<1>1. /\ at[Main] = "results"
      /\ UNCHANGED <<inode, ififo, idone, iret, start, ii>>
      /\ \E result : printed' = Append(printed, result)
  BY DEF get_result, ivars, print_result
<1>2. /\ oret'[Main] \in Jobs /\ odone' = odone
      /\ Results' = Results \ {otail} /\ otail \in Results
      /\ Results' # DOMAIN onode' => Results # DOMAIN onode
      /\ Behind' \subseteq Behind
  <2>1. Left' => Left
    BY DEF Left
  <2> QED BY <2>1, GetFromOqueue
<1>3. Holding' = Holding /\ Nulled' = Nulled
  BY <1>1 DEF Holding, Nulled
<1>4. IsList(printed) /\ IsList(printed') /\ Len(printed') = Len(printed) + 1
      /\ Len(printed) \in Nat
  <2>1. IsList(printed)
    BY Parts, Labels
  <2> QED BY <1>1, <2>1, ListMore
<1>5. TTypeOK'
  <2>1. IsList(printed')
    BY <1>1, <1>4 DEF IsList
  <2> QED BY <1>1, <2>1, Parts DEF TTypeOK
<1>6. MainPhase'
  BY <1>1, MainPhaseKept
<1>7. Drained'
  BY <1>1, <1>3, Parts DEF Drained, Submitting
<1>8. NullPut'
  BY <1>2, <1>3, Parts DEF NullPut, Left
<1>9. /\ Cardinality(Results') = Cardinality(Results) - 1
      /\ Cardinality(Holding) \in Nat /\ Cardinality(Results) \in Nat /\ IsFiniteSet(Behind)
  BY <1>2, Finite, CardMoves DEF Before
<1>10. FewBehind'
  <2>1. Nulled' # {} => Cardinality(Behind) + Cardinality(Holding') < NumThreads
    BY <1>3, Parts DEF FewBehind
  <2> QED BY <1>2, <1>3, <1>9, <2>1, FewKept
<1>11. Counted'
  <2>1. Len(ififo) \in Nat
    BY QueueTypes, Parts
  <2>2. Begun = Len(ififo) + Cardinality(Holding) + Cardinality(Results) + Len(printed)
    BY Parts DEF Counted
  <2>3. Begun = Len(ififo) + Cardinality(Holding) + Cardinality(Results') + Len(printed')
    BY <1>4, <1>9, <2>1, <2>2
  <2>4. Begun' = Begun
    BY <1>1 DEF Begun
  <2> QED BY <1>1, <1>3, <2>3, <2>4 DEF Counted
<1> QED BY <1>5, <1>6, <1>7, <1>8, <1>10, <1>11, Parts

-----------------------------------------------------------------------------
(***************************************************************************)
(* Invariance, and what follows from it.                                   *)
(***************************************************************************)
LEMMA TInitInv == Init => TInv
<1> SUFFICES ASSUME Init PROVE TInv
  OBVIOUS
<1>1. IP!QInv /\ OP!QInv
  BY QueuesInit
<1>2. /\ at = [p \in Workers \cup {Main} |-> IF p = Main THEN "create" ELSE "unborn"]
      /\ ii = 0 /\ printed = <<>>
      /\ ififo = <<>> /\ ofifo = <<>> /\ onode = <<>> /\ ~idone /\ ~odone
  BY DEF Init, IQ!Init, OQ!Init
<1>3. TTypeOK
  <2>1. IsList(printed)
    <3>1. <<>> \in Seq({})
      OBVIOUS
    <3> QED BY <1>2, <3>1 DEF IsList
  <2>2. at \in [Workers \cup {Main} -> {"create", "unborn"}]
    BY <1>2
  <2>3. at[Main] = "create" /\ \A w \in Workers : at[w] = "unborn"
    BY <1>2, ThreadsApart
  <2>4. {"create", "unborn"} \subseteq MainLabels \cup WorkerLabels
        /\ "create" \in MainLabels /\ "unborn" \in WorkerLabels
    BY DEF MainLabels, WorkerLabels
  <2> QED BY <1>2, <2>1, <2>2, <2>3, <2>4 DEF TTypeOK
<1>4. at[Main] = "create" /\ \A w \in Workers : at[w] = "unborn"
  BY <1>2, ThreadsApart
<1>5. Holding = {} /\ Nulled = {}
  BY <1>4 DEF Holding, Nulled
<1>6. DOMAIN onode = {} /\ Results = {}
  BY <1>2 DEF Results
<1>7. MainPhase
  BY <1>2, <1>4, ThreadsApart DEF MainPhase
<1>8. Drained
  BY <1>2, <1>4, <1>5 DEF Drained
<1>9. NullPut /\ FewBehind
  BY <1>2, <1>4, <1>5, <1>6 DEF NullPut, Left, FewBehind
<1>10. Counted
  <2>1. Cardinality({}) = 0
    BY FS_EmptySet
  <2>2. Len(ififo) = 0 /\ Len(printed) = 0 /\ Begun = 0
    BY <1>2, <1>4 DEF Begun
  <2> QED BY <1>5, <1>6, <2>1, <2>2 DEF Counted
<1> QED BY <1>1, <1>3, <1>7, <1>8, <1>9, <1>10 DEF TInv

LEMMA TStepInv == TInv /\ [Next]_vars => TInv'
<1> SUFFICES ASSUME TInv, [Next]_vars PROVE TInv'
  OBVIOUS
<1>1. Before
  BY QueuesStep DEF Before
<1>2. CASE MainStep
  <2>1. CASE get_result
    <3>1. \/ OQ!GetSleep(Main) /\ UNCHANGED <<at, results>>
          \/ /\ OQ!GetNull(Main) \/ OQ!GetNode(Main)
             /\ \/ oret'[Main] = 0 /\ Goto(Main, "wake") /\ UNCHANGED results
                \/ oret'[Main] # 0 /\ print_result(oret'[Main]) /\ UNCHANGED at
      BY <2>1 DEF get_result
    <3>2. OQ!GetNull(Main) => oret'[Main] = 0
      <4>1. oret \in [{Main} -> Jobs \cup {0}]
        BY QueueTypes DEF TInv
      <4> QED BY <4>1 DEF OQ!GetNull, OQ!NULL
    <3> QED
      BY <1>1, <2>1, <3>1, <3>2, QuietStepsKeep, GetNullResultKeeps, GetJobResultKeeps
  <2> QED
    BY <1>1, <1>2, <2>1, CreateThreadKeeps, MainControlKeeps, JoinThreadKeeps, submit_jobKeeps
    DEF MainStep
<1>3. ASSUME NEW w \in Workers, WorkerStep(w) PROVE TInv'
  <2>1. CASE GetJob(w)
    <3>1. \/ IQ!GetSleep(w) /\ UNCHANGED at
          \/ IQ!GetNull(w) /\ Goto(w, "put")
          \/ IQ!GetNode(w) /\ Goto(w, "factor")
      BY <2>1 DEF GetJob
    <3> QED BY <1>1, <2>1, <3>1, QuietStepsKeep, GetJobNullKeeps, GetJobNodeKeeps
  <2>2. CASE PutResult(w)
    BY <1>1, <2>2, PutJobKeeps, PutNullKeeps
  <2> QED BY <1>1, <1>3, <2>1, <2>2, QuietStepsKeep DEF WorkerStep
<1> QED BY <1>1, <1>2, <1>3, QuietStepsKeep DEF Next

LEMMA TInvariance == Spec => []TInv
<1>1. Init => TInv  BY TInitInv
<1>2. TInv /\ [Next]_vars => TInv'  BY TStepInv
<1> QED BY <1>1, <1>2, PTL DEF Spec

\* queue.c under both of its uses in main.c: what the threads take from iqueue and what
\* main takes from oqueue are the jobs in the order in which they were put, each once, and
\* NULL comes only from an empty queue that is done.
THEOREM BothQueuesAreFifo == Spec => QueuesAreFifo
<1> DEFINE icontents == [k \in 1 .. Len(ififo) |-> inode[ififo[k]].data]
           ocontents == [k \in 1 .. Len(ofifo) |-> onode[ofifo[k]].data]
<1>1. Init => IQ!Fifo!Init /\ OQ!Fifo!Init
  <2>1. IQ!Init => IP!Init
    BY DEF IQ!Init, IP!Init, IQ!NULL, IP!NULL
  <2>2. OQ!Init => OP!Init
    BY DEF OQ!Init, OP!Init, OQ!NULL, OP!NULL
  <2>3. Init => IP!Fifo!Init /\ OP!Fifo!Init
    BY <2>1, <2>2, IP!QInitInv, OP!QInitInv DEF Init
  <2> QED
    BY <2>3 DEF IP!Fifo!Init, OP!Fifo!Init, IQ!Fifo!Init, OQ!Fifo!Init,
                IQ!NULL, IP!NULL, OQ!NULL, OP!NULL
<1>2. TInv /\ [Next]_vars =>
        /\ [IQ!Fifo!Next]_<<icontents, idone, iret>>
        /\ [OQ!Fifo!Next]_<<ocontents, odone, oret>>
  <2> SUFFICES ASSUME TInv, [Next]_vars
               PROVE  /\ [IQ!Fifo!Next]_<<icontents, idone, iret>>
                      /\ [OQ!Fifo!Next]_<<ocontents, odone, oret>>
    OBVIOUS
  <2>1. [IP!Next]_ivars /\ [OP!Next]_ovars /\ IP!QInv /\ OP!QInv
    BY QueueSteps DEF TInv
  <2>2. /\ [IP!Fifo!Next]_<<IP!contents, idone, iret>>
        /\ [OP!Fifo!Next]_<<OP!contents, odone, oret>>
    BY <2>1, IP!QStepInv, OP!QStepInv DEF IP!vars, OP!vars, ivars, ovars
  <2>3. [IQ!Fifo!Next]_<<icontents, idone, iret>>
    BY <2>2
    DEF IP!contents, IP!Fifo!Next, IP!Fifo!Put, IP!Fifo!Take, IP!Fifo!End, IP!Fifo!Close, IP!NULL,
        IQ!Fifo!Next, IQ!Fifo!Put, IQ!Fifo!Take, IQ!Fifo!End, IQ!Fifo!Close, IQ!NULL
  <2>4. [OQ!Fifo!Next]_<<ocontents, odone, oret>>
    BY <2>2
    DEF OP!contents, OP!Fifo!Next, OP!Fifo!Put, OP!Fifo!Take, OP!Fifo!End, OP!Fifo!Close, OP!NULL,
        OQ!Fifo!Next, OQ!Fifo!Put, OQ!Fifo!Take, OQ!Fifo!End, OQ!Fifo!Close, OQ!NULL
  <2> QED BY <2>3, <2>4
<1> QED
  BY <1>1, <1>2, TInvariance, PTL
  DEF Spec, QueuesAreFifo, IQ!FifoSpec, OQ!FifoSpec, IQ!Fifo!Spec, OQ!Fifo!Spec

\* main.c's loop of get_result and its comment on joining: however the threads interleave,
\* what is not printed at the end is at most one job of each thread but one, and every
\* job was taken from iqueue.
THEOREM FewJobsAreMissed == Spec => []MissesFewerThanThreads
<1>1. TInv => MissesFewerThanThreads
  <2> SUFFICES ASSUME TInv, at[Main] = "exited"
               PROVE  Count - Len(printed) < NumThreads /\ DOMAIN inode = {}
    BY DEF MissesFewerThanThreads
  <2>1. \A w \in Workers : at[w] = "joined"
    BY DEF TInv, MainPhase
  <2>2. Holding = {} /\ Nulled = Workers
    BY <2>1 DEF Holding, Nulled
  <2>3. 1 \in Workers /\ Nulled # {}
    BY <2>2, ThreadsApart DEF Workers
  <2>4. Behind = Results
    BY DEF Behind, Left
  <2>5. Len(ififo) = 0
    BY <2>2, <2>3 DEF TInv, Drained
  <2>6. DOMAIN inode = {}
    <3>1. 1 .. 0 = {}
      OBVIOUS
    <3> QED BY <2>5, <3>1, QueueTypes DEF TInv
  <2>7. Cardinality(Holding) = 0
    BY <2>2, FS_EmptySet
  <2>8. Cardinality(Results) + Cardinality(Holding) < NumThreads
    BY <2>3, <2>4 DEF TInv, FewBehind
  <2>9. Count = Len(ififo) + Cardinality(Holding) + Cardinality(Results) + Len(printed)
    BY DEF TInv, Counted, Begun
  <2>10. Cardinality(Results) \in Nat /\ Len(printed) \in Nat /\ Count \in Nat /\ NumThreads \in Nat
    BY Finite, LenProperties, ThreadsApart DEF TInv, TTypeOK
  <2> QED BY <2>5, <2>6, <2>7, <2>8, <2>9, <2>10
<1> QED BY <1>1, TInvariance, PTL

-----------------------------------------------------------------------------
(***************************************************************************)
(* Every job is in one place.                                              *)
(***************************************************************************)
OnIqueue(job)  == {a \in DOMAIN inode : inode[a].data = job}
OnOqueue(job)  == {a \in DOMAIN onode : onode[a].data = job}
InHands(job)   == {w \in Workers : at[w] \in {"factor", "put"} /\ iret[w] = job}
InPrinted(job) == {k \in DOMAIN printed : printed[k].job = job}

LEMMA FourPlaces ==
  ASSUME TInv, NEW job
  PROVE  /\ Places(job) = Cardinality(OnIqueue(job)) + Cardinality(OnOqueue(job))
                          + Cardinality(InHands(job)) + Cardinality(InPrinted(job))
         /\ IsFiniteSet(OnIqueue(job)) /\ IsFiniteSet(OnOqueue(job))
         /\ IsFiniteSet(InHands(job)) /\ IsFiniteSet(InPrinted(job))
         /\ Cardinality(OnIqueue(job)) \in Nat /\ Cardinality(OnOqueue(job)) \in Nat
         /\ Cardinality(InHands(job)) \in Nat /\ Cardinality(InPrinted(job)) \in Nat
<1>1. Places(job) = Cardinality(OnIqueue(job)) + Cardinality(OnOqueue(job))
                    + Cardinality(InHands(job)) + Cardinality(InPrinted(job))
  BY DEF Places, OnIqueue, OnOqueue, InHands, InPrinted
<1>2. IsFiniteSet(DOMAIN inode) /\ IsFiniteSet(DOMAIN onode) /\ IsFiniteSet(Workers)
  BY QueueTypes, Finite DEF TInv
<1>3. IsFiniteSet(DOMAIN printed)
  <2>1. DOMAIN printed = 1 .. Len(printed) /\ Len(printed) \in Nat
    BY LenProperties DEF TInv, TTypeOK
  <2> QED BY <2>1, FS_Interval
<1>4. /\ OnIqueue(job) \subseteq DOMAIN inode /\ OnOqueue(job) \subseteq DOMAIN onode
      /\ InHands(job) \subseteq Workers /\ InPrinted(job) \subseteq DOMAIN printed
  BY DEF OnIqueue, OnOqueue, InHands, InPrinted
<1>5. /\ IsFiniteSet(OnIqueue(job)) /\ IsFiniteSet(OnOqueue(job))
      /\ IsFiniteSet(InHands(job)) /\ IsFiniteSet(InPrinted(job))
  BY <1>2, <1>3, <1>4, FS_Subset
<1> QED BY <1>1, <1>5, FS_CardinalityType

LEMMA FourPlacesNext ==
  ASSUME NEW job
  PROVE  Places(job)' = Cardinality(OnIqueue(job)') + Cardinality(OnOqueue(job)')
                        + Cardinality(InHands(job)') + Cardinality(InPrinted(job)')
BY DEF Places, OnIqueue, OnOqueue, InHands, InPrinted

\* A step that moves no job.
LEMMA NothingMoves ==
  ASSUME Before, JobsConserved, UNCHANGED <<inode, onode, printed>>, Submitted' = Submitted,
         \A job \in Jobs : InHands(job)' = InHands(job)
  PROVE  JobsConserved'
<1> SUFFICES ASSUME NEW job \in Jobs
             PROVE  Places(job)' = IF job \in Submitted' THEN 1 ELSE 0
  BY DEF JobsConserved, Jobs
<1>1. OnIqueue(job)' = OnIqueue(job) /\ OnOqueue(job)' = OnOqueue(job)
      /\ InPrinted(job)' = InPrinted(job)
  BY DEF OnIqueue, OnOqueue, InPrinted
<1>2. Places(job)' = Places(job)
  BY <1>1, FourPlaces, FourPlacesNext DEF Before
<1> QED BY <1>2 DEF JobsConserved

LEMMA submit_jobConserves == ASSUME Before, JobsConserved, submit_job PROVE JobsConserved'
<1>1. /\ at[Main] = "submit" /\ ii < Count /\ ii' = ii + 1
      /\ UNCHANGED <<onode, at, printed>>
  BY DEF submit_job, ovars, results
<1>2. ii \in Nat /\ Count \in Nat /\ ii + 1 \in Jobs
  BY <1>1, Parts, Labels, ThreadsApart DEF Jobs
<1>3. IP!queue_put(ii + 1) /\ IP!QInv
  BY ISteps, Parts DEF submit_job
<1>4. iret' = iret
  BY <1>2, <1>3, IP!PutData
<1>5. PICK a : /\ a \notin DOMAIN inode /\ DOMAIN inode' = DOMAIN inode \cup {a}
               /\ inode'[a].data = ii + 1
               /\ \A b \in DOMAIN inode : inode'[b].data = inode[b].data
  BY <1>2, <1>3, IP!PutData
<1>6. Submitted = 1 .. ii /\ Submitted' = 1 .. ii + 1
  BY <1>1 DEF Submitted
<1> SUFFICES ASSUME NEW job \in Jobs
             PROVE  Places(job)' = IF job \in Submitted' THEN 1 ELSE 0
  BY DEF JobsConserved, Jobs
<1>7. OnOqueue(job)' = OnOqueue(job) /\ InPrinted(job)' = InPrinted(job) /\ InHands(job)' = InHands(job)
  BY <1>1, <1>4 DEF OnOqueue, InPrinted, InHands
<1>8. Places(job) = IF job \in Submitted THEN 1 ELSE 0
  BY DEF JobsConserved
<1>9. CASE job = ii + 1
  <2>1. OnIqueue(job)' = OnIqueue(job) \cup {a} /\ a \notin OnIqueue(job)
    BY <1>5, <1>9 DEF OnIqueue
  <2>2. Cardinality(OnIqueue(job)') = Cardinality(OnIqueue(job)) + 1
    BY <2>1, FourPlaces, CardMoves DEF Before
  <2>3. Places(job)' = Places(job) + 1
    BY <1>7, <2>2, FourPlaces, FourPlacesNext DEF Before
  <2>4. job \notin Submitted /\ job \in Submitted'
    BY <1>2, <1>6, <1>9
  <2> QED BY <1>8, <2>3, <2>4
<1>10. CASE job # ii + 1
  <2>1. OnIqueue(job)' = OnIqueue(job)
    BY <1>5, <1>10 DEF OnIqueue
  <2>2. Places(job)' = Places(job)
    BY <1>7, <2>1, FourPlaces, FourPlacesNext DEF Before
  <2>3. job \in Submitted <=> job \in Submitted'
    BY <1>2, <1>6, <1>10 DEF Jobs
  <2> QED BY <1>8, <2>2, <2>3
<1> QED BY <1>9, <1>10

LEMMA GetJobConserves ==
  ASSUME Before, JobsConserved, NEW w \in Workers, GetJob(w), IQ!GetNode(w), Goto(w, "factor")
  PROVE  JobsConserved'
<1>1. at[w] = "get" /\ UNCHANGED <<onode, printed, ii>>
  BY DEF GetJob, ovars, results
<1>2. /\ itail \in DOMAIN inode /\ DOMAIN inode' = DOMAIN inode \ {itail}
      /\ \A b \in DOMAIN inode' : inode'[b].data = inode[b].data
      /\ iret' = [iret EXCEPT ![w] = inode[itail].data] /\ inode[itail].data \in Jobs
  BY ISteps, IP!GetData, Parts
<1>3. iret'[w] = inode[itail].data /\ \A u \in Workers : u # w => iret'[u] = iret[u]
  BY <1>2, QueueTypes, Parts
<1>4. /\ at'[w] = "factor" /\ at'[Main] = at[Main]
      /\ \A u \in Workers : u # w => at'[u] = at[u]
  BY Parts, Labels DEF Goto
<1>5. Submitted' = Submitted
  BY <1>1, <1>4 DEF Submitted
<1> SUFFICES ASSUME NEW job \in Jobs
             PROVE  Places(job)' = IF job \in Submitted' THEN 1 ELSE 0
  BY DEF JobsConserved, Jobs
<1>6. OnOqueue(job)' = OnOqueue(job) /\ InPrinted(job)' = InPrinted(job)
  BY <1>1 DEF OnOqueue, InPrinted
<1>7. Places(job) = IF job \in Submitted THEN 1 ELSE 0
  BY DEF JobsConserved
<1>8. CASE job = inode[itail].data
  <2>1. OnIqueue(job)' = OnIqueue(job) \ {itail} /\ itail \in OnIqueue(job)
    BY <1>2, <1>8 DEF OnIqueue
  <2>2. InHands(job)' = InHands(job) \cup {w} /\ w \notin InHands(job)
    BY <1>1, <1>3, <1>4, <1>8 DEF InHands
  <2>3. /\ Cardinality(OnIqueue(job)') = Cardinality(OnIqueue(job)) - 1
        /\ Cardinality(InHands(job)') = Cardinality(InHands(job)) + 1
    BY <2>1, <2>2, FourPlaces, CardMoves DEF Before
  <2>4. Places(job)' = Places(job)
    BY <1>6, <2>3, FourPlaces, FourPlacesNext DEF Before
  <2> QED BY <1>5, <1>7, <2>4
<1>9. CASE job # inode[itail].data
  <2>1. OnIqueue(job)' = OnIqueue(job)
    BY <1>2, <1>9 DEF OnIqueue
  <2>2. InHands(job)' = InHands(job)
    BY <1>1, <1>3, <1>4, <1>9 DEF InHands
  <2>3. Places(job)' = Places(job)
    BY <1>6, <2>1, <2>2, FourPlaces, FourPlacesNext DEF Before
  <2> QED BY <1>5, <1>7, <2>3
<1> QED BY <1>8, <1>9

LEMMA PutResultConserves ==
  ASSUME Before, JobsConserved, NEW w \in Workers, PutResult(w) PROVE JobsConserved'
<1>1. /\ at[w] = "put" /\ OQ!queue_put(iret[w])
      /\ UNCHANGED <<inode, iret, printed, ii>>
  BY DEF PutResult, ivars, results
<1>2. iret[w] \in Jobs \cup {0}
  BY QueueTypes, Parts
<1>3. PICK a : /\ a \notin DOMAIN onode /\ DOMAIN onode' = DOMAIN onode \cup {a}
               /\ onode'[a].data = iret[w]
               /\ \A b \in DOMAIN onode : onode'[b].data = onode[b].data
  BY <1>1, <1>2, OSteps, OP!PutData, Parts
<1>4. /\ at'[w] \in {"get", "set_o_done"} /\ at'[Main] = at[Main]
      /\ \A u \in Workers : u # w => at'[u] = at[u]
  <2>1. at' = [at EXCEPT ![w] = IF iret[w] = 0 THEN "set_o_done" ELSE "get"]
    BY DEF PutResult, Goto
  <2> QED BY <2>1, Parts, Labels
<1>5. Submitted' = Submitted
  BY <1>1, <1>4 DEF Submitted
<1> SUFFICES ASSUME NEW job \in Jobs
             PROVE  Places(job)' = IF job \in Submitted' THEN 1 ELSE 0
  BY DEF JobsConserved, Jobs
<1>6. OnIqueue(job)' = OnIqueue(job) /\ InPrinted(job)' = InPrinted(job)
  BY <1>1 DEF OnIqueue, InPrinted
<1>7. Places(job) = IF job \in Submitted THEN 1 ELSE 0
  BY DEF JobsConserved
<1>8. CASE job = iret[w]
  <2>1. OnOqueue(job)' = OnOqueue(job) \cup {a} /\ a \notin OnOqueue(job)
    BY <1>3, <1>8 DEF OnOqueue
  <2>2. InHands(job)' = InHands(job) \ {w} /\ w \in InHands(job)
    BY <1>1, <1>4, <1>8 DEF InHands
  <2>3. /\ Cardinality(OnOqueue(job)') = Cardinality(OnOqueue(job)) + 1
        /\ Cardinality(InHands(job)') = Cardinality(InHands(job)) - 1
    BY <2>1, <2>2, FourPlaces, CardMoves DEF Before
  <2>4. Places(job)' = Places(job)
    BY <1>6, <2>3, FourPlaces, FourPlacesNext DEF Before
  <2> QED BY <1>5, <1>7, <2>4
<1>9. CASE job # iret[w]
  <2>1. OnOqueue(job)' = OnOqueue(job)
    BY <1>3, <1>9 DEF OnOqueue
  <2>2. InHands(job)' = InHands(job)
    BY <1>1, <1>4, <1>9 DEF InHands
  <2>3. Places(job)' = Places(job)
    BY <1>6, <2>1, <2>2, FourPlaces, FourPlacesNext DEF Before
  <2> QED BY <1>5, <1>7, <2>3
<1> QED BY <1>8, <1>9

\* Main takes a qnode from oqueue: a job that it prints, or a null job.
LEMMA get_resultConserves ==
  ASSUME Before, JobsConserved, get_result, OQ!GetNode(Main),
         \/ oret'[Main] = 0 /\ Goto(Main, "wake") /\ UNCHANGED results
         \/ oret'[Main] # 0 /\ print_result(oret'[Main]) /\ UNCHANGED at
  PROVE  JobsConserved'
<1>1. at[Main] = "results" /\ UNCHANGED <<inode, iret, ii>>
  BY DEF get_result, ivars
<1>2. /\ otail \in DOMAIN onode /\ DOMAIN onode' = DOMAIN onode \ {otail}
      /\ \A b \in DOMAIN onode' : onode'[b].data = onode[b].data
      /\ oret'[Main] = onode[otail].data
  <2>1. Main \in {Main}
    OBVIOUS
  <2>2. /\ otail \in DOMAIN onode /\ DOMAIN onode' = DOMAIN onode \ {otail}
        /\ \A b \in DOMAIN onode' : onode'[b].data = onode[b].data
        /\ oret' = [oret EXCEPT ![Main] = onode[otail].data]
    BY <2>1, OSteps, OP!GetData, Parts
  <2> QED BY <2>2, QueueTypes, Parts
<1>3. /\ at'[Main] \in {"results", "wake"} /\ \A w \in Workers : at'[w] = at[w]
  BY <1>1, Parts, Labels DEF Goto
<1>4. Submitted' = Submitted
  BY <1>1, <1>3 DEF Submitted
<1>5. IF onode[otail].data = 0 THEN printed' = printed
      ELSE \E result : printed' = Append(printed, result) /\ result.job = onode[otail].data
  BY <1>2 DEF results, print_result
<1> SUFFICES ASSUME NEW job \in Jobs
             PROVE  Places(job)' = IF job \in Submitted' THEN 1 ELSE 0
  BY DEF JobsConserved, Jobs
<1>6. OnIqueue(job)' = OnIqueue(job) /\ InHands(job)' = InHands(job)
  BY <1>1, <1>3 DEF OnIqueue, InHands
<1>7. Places(job) = IF job \in Submitted THEN 1 ELSE 0
  BY DEF JobsConserved
<1>8. job # 0
  BY ThreadsApart
<1>9. CASE job = onode[otail].data
  <2>1. OnOqueue(job)' = OnOqueue(job) \ {otail} /\ otail \in OnOqueue(job)
    BY <1>2, <1>9 DEF OnOqueue
  <2>2. /\ InPrinted(job)' = InPrinted(job) \cup {Len(printed) + 1}
        /\ Len(printed) + 1 \notin InPrinted(job)
    <3>1. PICK result : printed' = Append(printed, result) /\ result.job = job
      BY <1>5, <1>8, <1>9
    <3>2. /\ DOMAIN printed = 1 .. Len(printed) /\ Len(printed) \in Nat
          /\ DOMAIN printed' = 1 .. Len(printed) + 1
          /\ \A k \in 1 .. Len(printed) : printed'[k] = printed[k]
          /\ printed'[Len(printed) + 1].job = job
      BY <3>1, Parts, Labels, ListMore
    <3>3. /\ 1 .. Len(printed) + 1 = (1 .. Len(printed)) \cup {Len(printed) + 1}
          /\ Len(printed) + 1 \notin 1 .. Len(printed)
      BY <3>2
    <3> QED BY <3>2, <3>3 DEF InPrinted
  <2>3. /\ Cardinality(OnOqueue(job)') = Cardinality(OnOqueue(job)) - 1
        /\ Cardinality(InPrinted(job)') = Cardinality(InPrinted(job)) + 1
    BY <2>1, <2>2, FourPlaces, CardMoves DEF Before
  <2>4. Places(job)' = Places(job)
    BY <1>6, <2>3, FourPlaces, FourPlacesNext DEF Before
  <2> QED BY <1>4, <1>7, <2>4
<1>10. CASE job # onode[otail].data
  <2>1. OnOqueue(job)' = OnOqueue(job)
    BY <1>2, <1>10 DEF OnOqueue
  <2>2. InPrinted(job)' = InPrinted(job)
    <3>1. CASE printed' = printed
      BY <3>1 DEF InPrinted
    <3>2. CASE printed' # printed
      <4>1. PICK result : printed' = Append(printed, result) /\ result.job = onode[otail].data
        BY <1>5, <3>2
      <4>2. /\ DOMAIN printed = 1 .. Len(printed) /\ Len(printed) \in Nat
            /\ DOMAIN printed' = 1 .. Len(printed) + 1
            /\ \A k \in 1 .. Len(printed) : printed'[k] = printed[k]
            /\ printed'[Len(printed) + 1].job = onode[otail].data
        BY <4>1, Parts, Labels, ListMore
      <4>3. /\ 1 .. Len(printed) + 1 = (1 .. Len(printed)) \cup {Len(printed) + 1}
            /\ Len(printed) + 1 \notin 1 .. Len(printed)
        BY <4>2
      <4> QED BY <1>10, <4>2, <4>3 DEF InPrinted
    <3> QED BY <3>1, <3>2
  <2>3. Places(job)' = Places(job)
    BY <1>6, <2>1, <2>2, FourPlaces, FourPlacesNext DEF Before
  <2> QED BY <1>4, <1>7, <2>3
<1> QED BY <1>9, <1>10

\* The other steps move no job.
LEMMA OtherStepsConserve ==
  ASSUME Before, JobsConserved,
         \/ CreateThread \/ AllCreated \/ set_i_done \/ wake_ithread \/ JoinThread \/ Exit
         \/ get_result /\ OQ!GetSleep(Main) /\ UNCHANGED <<at, results>>
         \/ get_result /\ OQ!GetNull(Main) /\ Goto(Main, "wake") /\ UNCHANGED results
         \/ \E w \in Workers : \/ Factor(w) \/ set_o_done(w) \/ wake_othread(w)
                               \/ GetJob(w) /\ IQ!GetSleep(w) /\ UNCHANGED at
                               \/ GetJob(w) /\ IQ!GetNull(w) /\ Goto(w, "put")
         \/ SpuriousWakeUp \/ UNCHANGED vars
  PROVE  JobsConserved'
<1>1. UNCHANGED <<inode, onode, printed>>
  BY DEF CreateThread, AllCreated, set_i_done, wake_ithread, JoinThread, Exit, get_result, Factor,
         set_o_done, wake_othread, GetJob, SpuriousWakeUp, IQ!set_doneq, IQ!wake_up, IQ!GetSleep,
         IQ!GetNull, IQ!SpuriousWakeUp, OQ!set_doneq, OQ!wake_up, OQ!GetSleep, OQ!GetNull,
         OQ!SpuriousWakeUp, ivars, ovars, results, vars
<1>2. \A w \in Workers : \/ at'[w] = at[w] /\ iret'[w] = iret[w]
                         \/ at[w] = "factor" /\ at'[w] = "put" /\ iret'[w] = iret[w]
                         \/ at[w] \notin {"factor", "put"} /\ at'[w] \notin {"factor", "put"}
                         \/ at[w] = "get" /\ iret'[w] = 0
  <2>1. CASE CreateThread
    <3>1. ii + 1 \in Workers /\ at[ii + 1] = "unborn"
      <4>1. ii + 1 \in Workers /\ ii + 1 > ii
        BY <2>1, Parts, Labels, ThreadsApart DEF CreateThread, Workers
      <4> QED BY <2>1, <4>1, Parts DEF CreateThread, MainPhase
    <3> QED BY <2>1, <3>1, Parts, Labels DEF CreateThread, Goto, ivars
  <2>2. CASE JoinThread
    BY <2>2, Parts, Labels DEF JoinThread, Goto, ivars
  <2>3. CASE AllCreated \/ set_i_done \/ wake_ithread \/ Exit
    BY <2>3, Parts, Labels
    DEF AllCreated, set_i_done, wake_ithread, Exit, Goto, ivars, IQ!set_doneq, IQ!wake_up
  <2>4. CASE get_result /\ (at' = at \/ Goto(Main, "wake"))
    BY <2>4, Parts, Labels DEF get_result, Goto, ivars
  <2>5. ASSUME NEW w \in Workers, Factor(w) \/ set_o_done(w) \/ wake_othread(w)
        PROVE  \A u \in Workers : \/ at'[u] = at[u] /\ iret'[u] = iret[u]
                                  \/ at[u] = "factor" /\ at'[u] = "put" /\ iret'[u] = iret[u]
                                  \/ at[u] \notin {"factor", "put"} /\ at'[u] \notin {"factor", "put"}
    BY <2>5, Parts, Labels DEF Factor, set_o_done, wake_othread, Goto, ivars
  <2>6. ASSUME NEW w \in Workers, GetJob(w), IQ!GetNull(w), Goto(w, "put")
        PROVE  \A u \in Workers : \/ at'[u] = at[u] /\ iret'[u] = iret[u]
                                  \/ at[u] = "get" /\ iret'[u] = 0
    BY <2>6, Parts, Labels, QueueTypes DEF GetJob, IQ!GetNull, IQ!NULL, Goto
  <2>7. CASE \E w \in Workers : GetJob(w) /\ IQ!GetSleep(w) /\ UNCHANGED at
    BY <2>7 DEF IQ!GetSleep
  <2>8. CASE SpuriousWakeUp \/ UNCHANGED vars
    BY <2>8 DEF SpuriousWakeUp, IQ!SpuriousWakeUp, ivars, vars
  <2> QED BY <2>1, <2>2, <2>3, <2>4, <2>5, <2>6, <2>7, <2>8
<1>3. \A job \in Jobs : InHands(job)' = InHands(job)
  <2> SUFFICES ASSUME NEW job \in Jobs PROVE InHands(job)' = InHands(job)
    OBVIOUS
  <2>1. job # 0
    BY ThreadsApart
  <2> QED BY <1>2, <2>1 DEF InHands
<1>4. Submitted' = Submitted
  <2>1. CASE CreateThread
    BY <2>1, Parts, Labels, ThreadsApart DEF CreateThread, Goto, Submitted, Workers
  <2>2. CASE AllCreated
    <3>1. at[Main] = "create" /\ at'[Main] = "submit" /\ ii' = 0
      BY <2>2, Parts, Labels DEF AllCreated, Goto
    <3>2. 1 .. 0 = {}
      OBVIOUS
    <3> QED BY <3>1, <3>2 DEF Submitted
  <2>3. CASE set_i_done
    <3>1. at[Main] = "submit" /\ at'[Main] = "results" /\ ii = Count
      BY <2>3, Parts, Labels DEF set_i_done, Goto
    <3> QED BY <3>1 DEF Submitted, Jobs
  <2>4. CASE wake_ithread \/ Exit \/ (get_result /\ (at' = at \/ Goto(Main, "wake")))
    <3>1. at[Main] \in {"wake", "join", "results"} /\ at'[Main] \in {"join", "exited", "wake", "results"}
      BY <2>4, Parts, Labels DEF wake_ithread, Exit, get_result, Goto
    <3> QED BY <3>1 DEF Submitted
  <2>5. CASE JoinThread
    <3>1. at[Main] = "join" /\ at'[Main] = "join"
      <4>1. ii + 1 # Main
        BY Parts, Labels DEF Main
      <4> QED BY <2>5, <4>1, Parts, Labels DEF JoinThread, Goto
    <3> QED BY <3>1 DEF Submitted
  <2>6. ASSUME NEW w \in Workers,
               \/ Factor(w) \/ set_o_done(w) \/ wake_othread(w)
               \/ GetJob(w) /\ (at' = at \/ Goto(w, "put"))
        PROVE  Submitted' = Submitted
    <3>1. at'[Main] = at[Main] /\ ii' = ii
      BY <2>6, Parts, Labels DEF Factor, set_o_done, wake_othread, GetJob, Goto
    <3> QED BY <3>1 DEF Submitted
  <2>7. CASE SpuriousWakeUp \/ UNCHANGED vars
    BY <2>7 DEF SpuriousWakeUp, vars, Submitted
  <2> QED BY <2>1, <2>2, <2>3, <2>4, <2>5, <2>6, <2>7
<1> QED BY <1>1, <1>3, <1>4, NothingMoves

\* The pointers that main.c and factor.c pass through the two queues: a job that was
\* submitted is on one queue, in one thread's hands, or printed and freed, once.
THEOREM JobsAreConserved == Spec => []JobsConserved
<1>1. Init => JobsConserved
  <2> SUFFICES ASSUME Init, NEW job \in Jobs
               PROVE  Places(job) = IF job \in Submitted THEN 1 ELSE 0
    BY DEF JobsConserved
  <2>1. /\ inode = <<>> /\ onode = <<>> /\ printed = <<>> /\ at[Main] = "create"
        /\ \A w \in Workers : at[w] = "unborn"
    BY ThreadsApart DEF Init, IQ!Init, OQ!Init
  <2>2. OnIqueue(job) = {} /\ OnOqueue(job) = {} /\ InHands(job) = {} /\ InPrinted(job) = {}
    BY <2>1 DEF OnIqueue, OnOqueue, InHands, InPrinted
  <2>3. Cardinality({}) = 0
    BY FS_EmptySet
  <2>4. Places(job) = 0
    BY <2>2, <2>3, FourPlaces, TInitInv
  <2> QED BY <2>1, <2>4 DEF Submitted
<1>2. TInv /\ JobsConserved /\ [Next]_vars => JobsConserved'
  <2> SUFFICES ASSUME TInv, JobsConserved, [Next]_vars PROVE JobsConserved'
    OBVIOUS
  <2>1. Before
    BY QueuesStep DEF Before
  <2>2. CASE get_result
    <3>1. \/ OQ!GetSleep(Main) /\ UNCHANGED <<at, results>>
          \/ /\ OQ!GetNull(Main) \/ OQ!GetNode(Main)
             /\ \/ oret'[Main] = 0 /\ Goto(Main, "wake") /\ UNCHANGED results
                \/ oret'[Main] # 0 /\ print_result(oret'[Main]) /\ UNCHANGED at
      BY <2>2 DEF get_result
    <3>2. OQ!GetNull(Main) => oret'[Main] = 0
      <4>1. oret \in [{Main} -> Jobs \cup {0}]
        BY QueueTypes DEF TInv
      <4> QED BY <4>1 DEF OQ!GetNull, OQ!NULL
    <3> QED BY <2>1, <2>2, <3>1, <3>2, get_resultConserves, OtherStepsConserve
  <2>3. ASSUME NEW w \in Workers, WorkerStep(w) PROVE JobsConserved'
    <3>1. CASE GetJob(w)
      <4>1. \/ IQ!GetSleep(w) /\ UNCHANGED at
            \/ IQ!GetNull(w) /\ Goto(w, "put")
            \/ IQ!GetNode(w) /\ Goto(w, "factor")
        BY <3>1 DEF GetJob
      <4> QED BY <2>1, <3>1, <4>1, GetJobConserves, OtherStepsConserve
    <3>2. CASE PutResult(w)
      BY <2>1, <3>2, PutResultConserves
    <3> QED BY <2>1, <2>3, <3>1, <3>2, OtherStepsConserve DEF WorkerStep
  <2> QED BY <2>1, <2>2, <2>3, submit_jobConserves, OtherStepsConserve DEF Next, MainStep
<1> QED BY <1>1, <1>2, TInvariance, PTL DEF Spec

-----------------------------------------------------------------------------
(***************************************************************************)
(* The results.  A job is complete from the moment its thread goes to put  *)
(* it on oqueue until main frees it, which no other place sees, because    *)
(* the job is in no other place.                                           *)
(***************************************************************************)
Complete(job) == Right(factors[job], job)

\* Of a printed result, and those that main counts.
RightResult(result) ==
  Right(result.factors, result.job) /\ atoh(result.text) = number(result.job)

Counts(out) ==
  Cardinality({k \in DOMAIN out : IsFactorization(out[k].factors, number(out[k].job))})

ResInv ==
  /\ start \in Nat \ {0} /\ DOMAIN factors = Jobs
  /\ \A w \in Workers : at[w] = "put" /\ iret[w] # 0 => Complete(iret[w])
  /\ ResultsFactored

\* The three parts of ResultsFactored.
LEMMA ResParts ==
  ResultsFactored <=>
    /\ \A a \in DOMAIN onode : onode[a].data # 0 => Complete(onode[a].data)
    /\ \A k \in DOMAIN printed : RightResult(printed[k])
    /\ oks = Counts(printed)
BY Zenon DEF ResultsFactored, Complete, RightResult, Counts

LEMMA ResNext ==
  ASSUME start' = start,
         \A a \in DOMAIN onode' : onode'[a].data # 0 => Right(factors'[onode'[a].data], onode'[a].data),
         \A k \in DOMAIN printed' : RightResult(printed'[k]),
         oks' = Counts(printed')
  PROVE  ResultsFactored'
<1>1. Counts(printed)' = Counts(printed')
  BY DEF Counts, number
<1>2. ASSUME NEW k \in DOMAIN printed' PROVE RightResult(printed[k])'
  <2>1. RightResult(printed'[k])
    BY <1>2
  <2> QED BY <2>1 DEF RightResult, Right, number
<1>3. ASSUME NEW a \in DOMAIN onode', onode'[a].data # 0 PROVE Complete(onode[a].data)'
  <2>1. Right(factors'[onode'[a].data], onode'[a].data)
    BY <1>3
  <2> QED BY <2>1 DEF Complete, Right, number
<1>4. ResultsFactored' <=>
        /\ \A a \in DOMAIN onode' : onode'[a].data # 0 => Complete(onode[a].data)'
        /\ \A k \in DOMAIN printed' : RightResult(printed[k])'
        /\ oks' = Counts(printed)'
  BY Zenon DEF ResultsFactored, Complete, RightResult, Counts
<1> QED BY <1>1, <1>2, <1>3, <1>4

LEMMA ResInitInv == Init => ResInv
<1> SUFFICES ASSUME Init PROVE ResInv
  OBVIOUS
<1>1. /\ onode = <<>> /\ printed = <<>> /\ oks = 0 /\ DOMAIN factors = Jobs
      /\ \A w \in Workers : at[w] = "unborn"
  BY ThreadsApart DEF Init, OQ!Init
<1>2. start \in Nat \ {0}
  <2>1. PICK text \in Texts : start = atoh(text)
    BY DEF Init
  <2>2. text \in Seq(0 .. 9) /\ start > 0
    BY <2>1, FactorThreadsAssumption
  <2>3. text \in Seq(Nat)
    BY <2>2
  <2>4. atoh(text) \in Nat
    <3>1. \E p : IsValues(p, text)
      BY <2>3, Values
    <3> QED BY <2>3, <3>1, ValuesEnd
  <2> QED BY <2>1, <2>2, <2>4
<1>3. ResultsFactored
  <2>1. DOMAIN onode = {} /\ DOMAIN printed = {} /\ oks = 0
    BY <1>1
  <2>2. Counts(printed) = 0
    BY <2>1, FS_EmptySet DEF Counts
  <2> QED BY <2>1, <2>2, ResParts
<1> QED BY <1>1, <1>2, <1>3 DEF ResInv

\* Jobs have the numbers from start on.
LEMMA NumberOf ==
  ASSUME ResInv, NEW job \in Jobs
  PROVE  number(job) \in Nat \ {0}
BY ThreadsApart DEF ResInv, Jobs, number

LEMMA OneInAll ==
  ASSUME NEW i \in Nat, NEW o \in Nat, NEW h \in Nat, NEW p \in Nat,
         i + o + h + p <= 1, o >= 1
  PROVE  o = 1 /\ h = 0
OBVIOUS

\* A job on oqueue is on it once, and in no thread's hands.
LEMMA OnlyOnOqueue ==
  ASSUME Before, JobsConserved, NEW a \in DOMAIN onode, onode[a].data # 0
  PROVE  /\ \A b \in DOMAIN onode : onode[b].data = onode[a].data => b = a
         /\ \A w \in Workers : at[w] = "put" => iret[w] # onode[a].data
<1> DEFINE job == onode[a].data
<1>1. job \in Jobs
  BY QueueTypes, Parts
<1> HIDE DEF job
<1>2. Places(job) <= 1
  BY <1>1 DEF JobsConserved
<1>3. /\ Places(job) = Cardinality(OnIqueue(job)) + Cardinality(OnOqueue(job))
                       + Cardinality(InHands(job)) + Cardinality(InPrinted(job))
      /\ IsFiniteSet(OnOqueue(job)) /\ IsFiniteSet(InHands(job))
      /\ Cardinality(OnIqueue(job)) \in Nat /\ Cardinality(OnOqueue(job)) \in Nat
      /\ Cardinality(InHands(job)) \in Nat /\ Cardinality(InPrinted(job)) \in Nat
  BY FourPlaces DEF Before
<1>4. a \in OnOqueue(job)
  BY DEF OnOqueue, job
<1>5. Cardinality(OnOqueue(job) \ {a}) = Cardinality(OnOqueue(job)) - 1
      /\ IsFiniteSet(OnOqueue(job) \ {a}) /\ Cardinality(OnOqueue(job) \ {a}) \in Nat
  BY <1>3, <1>4, CardMoves
<1>6. Cardinality(OnOqueue(job) \ {a}) = 0 /\ Cardinality(InHands(job)) = 0
  <2>1. Cardinality(OnOqueue(job)) >= 1
    BY <1>3, <1>5
  <2>2. Cardinality(OnOqueue(job)) = 1 /\ Cardinality(InHands(job)) = 0
    BY <1>2, <1>3, <2>1, OneInAll
  <2> QED BY <1>5, <2>2
<1>7. OnOqueue(job) \ {a} = {} /\ InHands(job) = {}
  BY <1>3, <1>5, <1>6, FS_EmptySet
<1>8. ASSUME NEW b \in DOMAIN onode, onode[b].data = job PROVE b = a
  BY <1>7, <1>8 DEF OnOqueue
<1>9. ASSUME NEW w \in Workers, at[w] = "put" PROVE iret[w] # job
  BY <1>7, <1>9 DEF InHands
<1> QED BY <1>8, <1>9 DEF job

\* A step that leaves the results, and brings no thread with a job to "put".
LEMMA ResFrame ==
  ASSUME ResInv, UNCHANGED <<onode, start, results>>,
         \A w \in Workers : at'[w] = "put" /\ iret'[w] # 0 => at[w] = "put" /\ iret'[w] = iret[w]
  PROVE  ResInv'
<1>1. UNCHANGED <<factors, printed, oks>>
  BY DEF results
<1>2. \A job : Complete(job)' = Complete(job)
  BY <1>1 DEF number, Complete, Right
<1>3. ResultsFactored'
  <2>1. /\ \A a \in DOMAIN onode : onode[a].data # 0 => Complete(onode[a].data)
        /\ \A k \in DOMAIN printed : RightResult(printed[k])
        /\ oks = Counts(printed)
    BY ResParts DEF ResInv
  <2> QED BY <1>1, <2>1, ResNext DEF Complete
<1>4. ASSUME NEW w \in Workers', at'[w] = "put", iret'[w] # 0 PROVE Complete(iret[w])' /\ iret'[w] = iret[w]
  <2>1. w \in Workers
    BY DEF Workers
  <2> QED BY <1>2, <1>4, <2>1 DEF ResInv
<1> QED BY <1>1, <1>3, <1>4 DEF ResInv, Jobs

\* The job that factor is called for is complete after it, and no other one changes.
LEMMA FactorCompletes == ASSUME Before, ResInv, NEW w \in Workers, Factor(w) PROVE ResInv'
<1> DEFINE job == iret[w]
<1>1. /\ at[w] = "factor" /\ factors' = [factors EXCEPT ![job] = factor(number(job))]
      /\ Goto(w, "put") /\ UNCHANGED <<onode, iret, start, printed, oks>>
  BY DEF Factor, ivars, ovars
<1>2. job \in Jobs
  BY <1>1, QueueTypes, Parts DEF Drained
<1>3. \A other : Complete(other)' <=> Right(factors'[other], other)
  BY <1>1 DEF Complete, Right, number
<1> HIDE DEF job
<1>4. /\ DOMAIN factors' = Jobs /\ factors'[job] = factor(number(job))
      /\ \A other \in Jobs : other # job => factors'[other] = factors[other]
  BY <1>1, <1>2 DEF ResInv
<1>5. Right(factors'[job], job)
  BY <1>2, <1>4, NumberOf, FactorIsRight DEF Right
<1>6. ASSUME NEW other \in Jobs, Complete(other) \/ other = job
      PROVE  Right(factors'[other], other)
  BY <1>4, <1>5, <1>6 DEF Complete
<1>7. \A u \in Workers : u # w => at'[u] = at[u]
  BY <1>1, Parts, Labels DEF Goto
<1>8. ASSUME NEW u \in Workers, at'[u] = "put", iret[u] # 0
      PROVE  Right(factors'[iret[u]], iret[u])
  <2>1. iret[u] \in Jobs
    BY <1>8, QueueTypes, Parts
  <2>2. Complete(iret[u]) \/ iret[u] = job
    BY <1>7, <1>8 DEF ResInv, job
  <2> QED BY <1>6, <2>1, <2>2
<1>9. ASSUME NEW a \in DOMAIN onode, onode[a].data # 0
      PROVE  Right(factors'[onode[a].data], onode[a].data)
  <2>1. onode[a].data \in Jobs
    BY <1>9, QueueTypes, Parts
  <2>2. Complete(onode[a].data)
    BY <1>9, ResParts DEF ResInv
  <2> QED BY <1>6, <2>1, <2>2
<1>10. ResultsFactored'
  <2>1. oks = Counts(printed) /\ \A k \in DOMAIN printed : RightResult(printed[k])
    BY ResParts DEF ResInv
  <2> QED BY <1>1, <1>9, <2>1, ResNext
<1>11. \A u \in Workers' : at'[u] = "put" /\ iret'[u] # 0 => Complete(iret[u])'
  BY <1>1, <1>3, <1>8 DEF Workers
<1>12. start' \in Nat \ {0} /\ DOMAIN factors' = Jobs'
  BY <1>1, <1>4 DEF ResInv, Jobs
<1> QED BY <1>10, <1>11, <1>12 DEF ResInv

\* A complete job is put on oqueue.
LEMMA PutResultCompletes ==
  ASSUME Before, ResInv, NEW w \in Workers, PutResult(w) PROVE ResInv'
<1>1. /\ at[w] = "put" /\ OQ!queue_put(iret[w])
      /\ UNCHANGED <<iret, start, factors, printed, oks>>
  BY DEF PutResult, ivars, results
<1>2. iret[w] \in Jobs \cup {0}
  BY QueueTypes, Parts
<1>3. PICK a : /\ a \notin DOMAIN onode /\ DOMAIN onode' = DOMAIN onode \cup {a}
               /\ onode'[a].data = iret[w]
               /\ \A b \in DOMAIN onode : onode'[b].data = onode[b].data
  BY <1>1, <1>2, OSteps, OP!PutData, Parts
<1>4. /\ at'[w] \in {"get", "set_o_done"}
      /\ \A u \in Workers : u # w => at'[u] = at[u]
  <2>1. at' = [at EXCEPT ![w] = IF iret[w] = 0 THEN "set_o_done" ELSE "get"]
    BY DEF PutResult, Goto
  <2> QED BY <2>1, Parts, Labels
<1>5. \A job : Complete(job)' = Complete(job)
  BY <1>1 DEF number, Complete, Right
<1>6. ResultsFactored'
  <2>1. /\ \A b \in DOMAIN onode : onode[b].data # 0 => Complete(onode[b].data)
        /\ oks = Counts(printed)
        /\ \A k \in DOMAIN printed : RightResult(printed[k])
    BY ResParts DEF ResInv
  <2>2. ASSUME NEW b \in DOMAIN onode', onode'[b].data # 0
        PROVE  Right(factors[onode'[b].data], onode'[b].data)
    <3>1. CASE b = a
      BY <1>1, <1>3, <2>2, <3>1 DEF ResInv, Complete
    <3>2. CASE b # a
      BY <1>3, <2>1, <2>2, <3>2 DEF Complete
    <3> QED BY <3>1, <3>2
  <2> QED BY <1>1, <2>1, <2>2, ResNext
<1>7. \A u \in Workers : at'[u] = "put" /\ iret[u] # 0 => Complete(iret[u])
  BY <1>4 DEF ResInv
<1>8. \A u \in Workers' : at'[u] = "put" /\ iret'[u] # 0 => Complete(iret[u])'
  <2>1. \A u : iret'[u] = iret[u]
    BY <1>1
  <2> QED BY <1>5, <1>7, <2>1 DEF Workers
<1>9. start' \in Nat \ {0} /\ DOMAIN factors' = Jobs'
  BY <1>1 DEF ResInv, Jobs
<1> QED BY <1>6, <1>8, <1>9 DEF ResInv

\* Main takes a qnode from oqueue: a job that it checks, prints and frees, or a null job.
LEMMA get_resultCompletes ==
  ASSUME Before, JobsConserved, ResInv, get_result, OQ!GetNode(Main),
         oret'[Main] # 0, print_result(oret'[Main]), UNCHANGED at
  PROVE  ResInv'
<1> DEFINE job == onode[otail].data
<1>1. UNCHANGED <<iret, start>>
  BY DEF get_result, ivars
<1>2. /\ otail \in DOMAIN onode /\ DOMAIN onode' = DOMAIN onode \ {otail}
      /\ \A b \in DOMAIN onode' : onode'[b].data = onode[b].data
      /\ oret'[Main] = job
  <2>1. Main \in {Main}
    OBVIOUS
  <2>2. /\ otail \in DOMAIN onode /\ DOMAIN onode' = DOMAIN onode \ {otail}
        /\ \A b \in DOMAIN onode' : onode'[b].data = onode[b].data
        /\ oret' = [oret EXCEPT ![Main] = onode[otail].data]
    BY <2>1, OSteps, OP!GetData, Parts
  <2> QED BY <2>2, QueueTypes, Parts
<1>3. job # 0 /\ job \in Jobs
  BY <1>2, QueueTypes, Parts
<1>4. /\ \A b \in DOMAIN onode : onode[b].data = job => b = otail
      /\ \A w \in Workers : at[w] = "put" => iret[w] # job
  BY <1>2, <1>3, OnlyOnOqueue
<1>5. Complete(job)
  BY <1>2, <1>3, ResParts DEF ResInv
<1> HIDE DEF job
<1> DEFINE result == [job |-> job, text |-> print_int128(number(job)), factors |-> factors[job]]
<1>6. /\ printed' = Append(printed, result)
      /\ oks' = IF product(factors[job]) = number(job) THEN oks + 1 ELSE oks
      /\ factors' = [factors EXCEPT ![job] = <<>>]
  BY <1>2 DEF print_result
<1>7. \A other \in Jobs : other # job => factors'[other] = factors[other]
  BY <1>3, <1>6 DEF ResInv
<1>8. \A other : Complete(other)' <=> Right(factors'[other], other)
  BY <1>1 DEF Complete, Right, number
<1>9. oks = Counts(printed) /\ \A k \in DOMAIN printed : RightResult(printed[k])
  BY ResParts DEF ResInv
<1>10. RightResult(result)
  <2>1. number(job) \in Nat
    BY <1>3, NumberOf
  <2>2. atoh(result.text) = number(job)
    BY <2>1, PrintsAndReads
  <2> QED BY <1>5, <2>2 DEF RightResult, Complete
<1> DEFINE n == Len(printed)
<1>11. /\ DOMAIN printed = 1 .. n /\ n \in Nat
       /\ DOMAIN printed' = 1 .. n + 1
       /\ \A k \in 1 .. n : printed'[k] = printed[k]
       /\ printed'[n + 1] = result
  <2>1. IsList(printed)
    BY Parts, Labels
  <2> HIDE DEF result
  <2>2. /\ Len(printed) \in Nat /\ DOMAIN printed = 1 .. Len(printed)
        /\ IsList(printed') /\ Len(printed') = Len(printed) + 1
        /\ \A k \in 1 .. Len(printed) : printed'[k] = printed[k]
        /\ printed'[Len(printed) + 1] = result
    BY <1>6, <2>1, ListMore
  <2>3. DOMAIN printed' = 1 .. Len(printed')
    BY <2>2 DEF IsList
  <2> QED BY <2>2, <2>3
<1>12. ASSUME NEW k \in DOMAIN printed' PROVE RightResult(printed'[k])
  <2> HIDE DEF result
  <2>1. k = n + 1 \/ k \in 1 .. n
    BY <1>11
  <2> QED BY <1>9, <1>10, <1>11, <2>1
<1>counted. oks' = Counts(printed')
  <2> DEFINE Is(k, out) == IsFactorization(out[k].factors, number(out[k].job))
             Old == {k \in DOMAIN printed : Is(k, printed)}
             New == {k \in DOMAIN printed' : Is(k, printed')}
  <2>1. oks = Cardinality(Old) /\ Counts(printed') = Cardinality(New)
    BY <1>9, Zenon DEF Counts
  <2>2. IsFiniteSet(Old)
    <3>1. IsFiniteSet(1 .. n)
      BY <1>11, FS_Interval
    <3> QED BY <1>11, <3>1, FS_Subset
  <2>3. \A k \in 1 .. n : Is(k, printed') <=> Is(k, printed)
    BY <1>11
  <2>4. Is(n + 1, printed') <=> IsFactorization(factors[job], number(job))
    BY <1>11
  <2>5. IsFactorization(factors[job], number(job)) <=> product(factors[job]) = number(job)
    <3>1. IsFactorization(factors[job], number(job)) => product(factors[job]) = number(job)
      BY DEF IsFactorization
    <3> QED BY <1>5, <3>1 DEF Complete, Right
  <2> HIDE DEF Is
  <2>6. CASE product(factors[job]) = number(job)
    <3>1. New = Old \cup {n + 1} /\ n + 1 \notin Old
      BY <1>11, <2>3, <2>4, <2>5, <2>6
    <3> HIDE DEF New, Old
    <3>2. Cardinality(New) = Cardinality(Old) + 1
      BY <2>2, <3>1, FS_AddElement
    <3> QED BY <1>6, <2>1, <2>6, <3>2
  <2>7. CASE product(factors[job]) # number(job)
    <3>1. New = Old
      BY <1>11, <2>3, <2>4, <2>5, <2>7
    <3> HIDE DEF New, Old
    <3> QED BY <1>6, <2>1, <2>7, <3>1
  <2> QED BY <2>6, <2>7
<1>13. ASSUME NEW b \in DOMAIN onode', onode'[b].data # 0
       PROVE  Right(factors'[onode'[b].data], onode'[b].data)
  <2>1. b \in DOMAIN onode /\ b # otail /\ onode'[b].data = onode[b].data
    BY <1>2
  <2>2. onode[b].data \in Jobs /\ onode[b].data # job
    BY <1>4, <1>13, <2>1, QueueTypes, Parts
  <2>3. Complete(onode[b].data)
    BY <1>13, <2>1, ResParts DEF ResInv
  <2> QED BY <1>7, <2>1, <2>2, <2>3 DEF Complete
<1>14. ResultsFactored'
  BY <1>1, <1>12, <1>13, <1>counted, ResNext
<1>15. ASSUME NEW w \in Workers, at[w] = "put", iret[w] # 0
       PROVE  Right(factors'[iret[w]], iret[w])
  <2>1. iret[w] \in Jobs /\ iret[w] # job /\ Complete(iret[w])
    BY <1>4, <1>15, QueueTypes, Parts DEF ResInv
  <2> QED BY <1>7, <2>1 DEF Complete
<1>16. \A w \in Workers' : at'[w] = "put" /\ iret'[w] # 0 => Complete(iret[w])'
  BY <1>1, <1>8, <1>15 DEF Workers
<1>17. start' \in Nat \ {0} /\ DOMAIN factors' = Jobs'
  BY <1>1, <1>6 DEF ResInv, Jobs
<1> QED BY <1>14, <1>16, <1>17 DEF ResInv

\* The other steps leave the results, and none of them brings a thread to "put" with a job.
LEMMA OtherStepsComplete ==
  ASSUME Before, ResInv,
         \/ CreateThread \/ AllCreated \/ submit_job \/ set_i_done \/ wake_ithread \/ JoinThread \/ Exit
         \/ get_result /\ OQ!GetSleep(Main) /\ UNCHANGED <<at, results>>
         \/ \E w \in Workers : set_o_done(w) \/ wake_othread(w) \/ GetJob(w)
         \/ SpuriousWakeUp \/ UNCHANGED vars
  PROVE  ResInv'
<1>1. UNCHANGED <<onode, start, results>>
  BY DEF CreateThread, AllCreated, submit_job, set_i_done, wake_ithread, JoinThread, Exit, get_result,
         set_o_done, wake_othread, GetJob, SpuriousWakeUp, OQ!set_doneq, OQ!wake_up, OQ!GetSleep,
         OQ!SpuriousWakeUp, ovars, results, vars
<1>2. \A w \in Workers : \/ at'[w] = at[w] /\ iret'[w] = iret[w]
                         \/ at'[w] # "put"
                         \/ iret'[w] = 0
  <2>1. CASE CreateThread
    <3>1. ii + 1 \in Workers
      BY <2>1, Parts, Labels, ThreadsApart DEF CreateThread, Workers
    <3> QED BY <2>1, <3>1, Parts, Labels DEF CreateThread, Goto, ivars
  <2>2. CASE JoinThread
    BY <2>2, Parts, Labels DEF JoinThread, Goto, ivars
  <2>3. CASE AllCreated \/ set_i_done \/ wake_ithread \/ Exit
    BY <2>3, Parts, Labels
    DEF AllCreated, set_i_done, wake_ithread, Exit, Goto, ivars, IQ!set_doneq, IQ!wake_up
  <2>4. CASE submit_job
    BY <2>4 DEF submit_job, IQ!queue_put
  <2>5. CASE get_result /\ UNCHANGED at
    BY <2>5 DEF get_result, ivars
  <2>6. ASSUME NEW w \in Workers, set_o_done(w) \/ wake_othread(w)
        PROVE  \A u \in Workers : \/ at'[u] = at[u] /\ iret'[u] = iret[u]
                                  \/ at'[u] # "put"
    BY <2>6, Parts, Labels DEF set_o_done, wake_othread, Goto, ivars
  <2>7. ASSUME NEW w \in Workers, GetJob(w)
        PROVE  \A u \in Workers : \/ at'[u] = at[u] /\ iret'[u] = iret[u]
                                  \/ at'[u] # "put" \/ iret'[u] = 0
    <3>1. \/ IQ!GetSleep(w) /\ UNCHANGED at
          \/ IQ!GetNull(w) /\ Goto(w, "put")
          \/ IQ!GetNode(w) /\ Goto(w, "factor")
      BY <2>7 DEF GetJob
    <3>2. CASE IQ!GetSleep(w) /\ UNCHANGED at
      BY <3>2 DEF IQ!GetSleep
    <3>3. CASE IQ!GetNull(w) /\ Goto(w, "put")
      BY <3>3, Parts, Labels, QueueTypes DEF IQ!GetNull, IQ!NULL, Goto
    <3>4. CASE IQ!GetNode(w) /\ Goto(w, "factor")
      BY <3>4, Parts, Labels, QueueTypes DEF IQ!GetNode, Goto
    <3> QED BY <3>1, <3>2, <3>3, <3>4
  <2>8. CASE SpuriousWakeUp \/ UNCHANGED vars
    BY <2>8 DEF SpuriousWakeUp, IQ!SpuriousWakeUp, ivars, vars
  <2> QED BY <2>1, <2>2, <2>3, <2>4, <2>5, <2>6, <2>7, <2>8
<1> QED BY <1>1, <1>2, ResFrame

\* A null job: main leaves the loop and the results.
LEMMA NullLeaves ==
  ASSUME Before, ResInv, get_result, OQ!GetNull(Main) \/ OQ!GetNode(Main),
         Goto(Main, "wake"), UNCHANGED results
  PROVE  ResInv'
<1>1. UNCHANGED <<iret, start, factors, printed, oks>>
  BY DEF get_result, ivars, results
<1>2. \A w \in Workers : at'[w] = at[w]
  BY Parts, Labels DEF Goto
<1>3. \A b \in DOMAIN onode' : b \in DOMAIN onode /\ onode'[b].data = onode[b].data
  <2>1. CASE OQ!GetNull(Main)
    BY <2>1 DEF OQ!GetNull
  <2>2. CASE OQ!GetNode(Main)
    <3>1. Main \in {Main}
      OBVIOUS
    <3> QED BY <2>2, <3>1, OSteps, OP!GetData, Parts
  <2> QED BY <2>1, <2>2
<1>4. \A job : Complete(job)' = Complete(job)
  BY <1>1 DEF number, Complete, Right
<1>5. ResultsFactored'
  <2>1. /\ \A b \in DOMAIN onode : onode[b].data # 0 => Complete(onode[b].data)
        /\ oks = Counts(printed)
        /\ \A k \in DOMAIN printed : RightResult(printed[k])
    BY ResParts DEF ResInv
  <2>2. \A b \in DOMAIN onode' : onode'[b].data # 0 => Right(factors[onode'[b].data], onode'[b].data)
    BY <1>3, <2>1 DEF Complete
  <2> QED BY <1>1, <2>1, <2>2, ResNext
<1>6. \A u \in Workers' : at'[u] = "put" /\ iret'[u] # 0 => Complete(iret[u])'
  BY <1>1, <1>2, <1>4 DEF ResInv, Workers
<1>7. start' \in Nat \ {0} /\ DOMAIN factors' = Jobs'
  BY <1>1 DEF ResInv, Jobs
<1> QED BY <1>5, <1>6, <1>7 DEF ResInv

\* run_jobs2 gives every job its prime factors before main can take it from oqueue, if they
\* fit the vector; main's check of the product succeeds for exactly the results that are a
\* factorization, and what it prints is the number.
THEOREM ResultsAreFactored == Spec => []ResultsFactored
<1>1. TInv /\ JobsConserved /\ ResInv /\ [Next]_vars => ResInv'
  <2> SUFFICES ASSUME TInv, JobsConserved, ResInv, [Next]_vars PROVE ResInv'
    OBVIOUS
  <2>1. Before
    BY QueuesStep DEF Before
  <2>2. CASE get_result
    <3>1. \/ OQ!GetSleep(Main) /\ UNCHANGED <<at, results>>
          \/ /\ OQ!GetNull(Main) \/ OQ!GetNode(Main)
             /\ \/ oret'[Main] = 0 /\ Goto(Main, "wake") /\ UNCHANGED results
                \/ oret'[Main] # 0 /\ print_result(oret'[Main]) /\ UNCHANGED at
      BY <2>2 DEF get_result
    <3>2. OQ!GetNull(Main) => oret'[Main] = 0
      <4>1. oret \in [{Main} -> Jobs \cup {0}]
        BY QueueTypes DEF TInv
      <4> QED BY <4>1 DEF OQ!GetNull, OQ!NULL
    <3>3. CASE OQ!GetSleep(Main) /\ UNCHANGED <<at, results>>
      BY <2>1, <2>2, <3>3, OtherStepsComplete
    <3>4. CASE /\ OQ!GetNull(Main) \/ OQ!GetNode(Main)
               /\ oret'[Main] = 0 /\ Goto(Main, "wake") /\ UNCHANGED results
      BY <2>1, <2>2, <3>4, NullLeaves
    <3>5. CASE /\ OQ!GetNode(Main)
               /\ oret'[Main] # 0 /\ print_result(oret'[Main]) /\ UNCHANGED at
      BY <2>1, <2>2, <3>5, get_resultCompletes
    <3> QED BY <3>1, <3>2, <3>3, <3>4, <3>5
  <2>3. ASSUME NEW w \in Workers, WorkerStep(w) PROVE ResInv'
    <3>1. CASE Factor(w)
      BY <2>1, <3>1, FactorCompletes
    <3>2. CASE PutResult(w)
      BY <2>1, <3>2, PutResultCompletes
    <3>3. CASE GetJob(w) \/ set_o_done(w) \/ wake_othread(w)
      BY <2>1, <3>3, OtherStepsComplete
    <3> QED BY <2>3, <3>1, <3>2, <3>3 DEF WorkerStep
  <2> QED BY <2>1, <2>2, <2>3, OtherStepsComplete DEF Next, MainStep
<1>2. ResInv => ResultsFactored
  BY DEF ResInv
<1> QED BY <1>1, <1>2, ResInitInv, TInvariance, JobsAreConserved, PTL DEF Spec

=============================================================================
