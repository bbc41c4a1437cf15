----------------------------- MODULE Factoring -----------------------------
(***************************************************************************)
(* The arithmetic of hw08 (factor.c, int128.c, ivec.c): trial division,    *)
(* the vector that its divisors are pushed on, and the decimal digits that *)
(* a number is read from and printed with.  A number is an int128_t, a     *)
(* text the sequence of its digits, and numbers are below 2^127; but the   *)
(* entries of the vector are int64_t, and a divisor loses its upper half.  *)
(***************************************************************************)
EXTENDS Integers, SequencesExt

CONSTANT INT64_SIGN      \* 2^63: int64_t ends below it

ASSUME FactoringAssumption ==
  INT64_SIGN \in Nat /\ INT64_SIGN > 2 /\ INT64_SIGN % 2 = 0

\* The conversion of a number to an int64_t.
int64(x) == ((x + INT64_SIGN) % (2 * INT64_SIGN)) - INT64_SIGN

\* The square root, rounded up.
isqrt(xx) == CHOOSE yy \in 0 .. xx : yy * yy >= xx /\ (yy = 0 \/ (yy - 1) * (yy - 1) < xx)

\* A variant for the checks: round the root down, and stop before it.
divisors_early(xx) ==
  LET odd[s \in (1 .. xx) \X (3 .. xx + 5)] ==
        LET x == s[1]  ii == s[2] IN
        IF ii >= isqrt(x) THEN <<x>>
        ELSE IF x % ii = 0 THEN <<ii>> \o odd[<<x \div ii, 3>>]
        ELSE odd[<<x, ii + 2>>]
      any[x \in 1 .. xx] == IF x % 2 = 0 THEN <<2>> \o any[x \div 2] ELSE odd[<<x, 3>>]
  IN  any[xx]

\* The twos of xx, then the odd divisors, each search beginning at 3 again, then what is
\* left, which is 1 for a power of two: what ivec_push is called with.
divisors(xx) ==
  LET odd[s \in (1 .. xx) \X (3 .. xx + 5)] ==
        LET x == s[1]  ii == s[2] IN
        IF ii > isqrt(x) THEN <<x>>
        ELSE IF x % ii = 0 THEN <<ii>> \o odd[<<x \div ii, 3>>]
        ELSE odd[<<x, ii + 2>>]
      any[x \in 1 .. xx] == IF x % 2 = 0 THEN <<2>> \o any[x \div 2] ELSE odd[<<x, 3>>]
  IN  any[xx]

\* The vector: ivec_push takes an int64_t.
factor(xx) == LET ys == divisors(xx) IN [k \in DOMAIN ys |-> int64(ys[k])]

\* main multiplies the factors of each result.
product(ys) == FoldLeft(LAMBDA prod, y : prod * y, 1, ys)

atoh(text) == FoldLeft(LAMBDA yy, d : 10 * yy + d, 0, text)

\* The digits, the lowest first, and then reversed.
print_int128(xx) ==
  LET low[x \in 0 .. xx] == IF x = 0 THEN <<>> ELSE <<x % 10>> \o low[x \div 10]
  IN  Reverse(low[xx])

-----------------------------------------------------------------------------
Prime(n) == n > 1 /\ \A d \in 2 .. n - 1 : n % d # 0

\* ys are the prime factors of n in ascending order, and a 1 if n is a power of two.
IsFactorization(ys, n) ==
  LET end    == Len(ys)
      primes == IF end > 0 /\ ys[end] = 1 THEN SubSeq(ys, 1, end - 1) ELSE ys
  IN  /\ product(ys) = n
      /\ \A k \in DOMAIN primes : Prime(primes[k])
      /\ \A k \in 1 .. Len(primes) - 1 : primes[k] <= primes[k + 1]
      /\ primes # ys => \A k \in DOMAIN primes : primes[k] = 2

\* Each prime factor of n can be an entry of the vector.
Fits(n) == \A p \in 2 .. n : n % p = 0 /\ Prime(p) => p < INT64_SIGN

=============================================================================
