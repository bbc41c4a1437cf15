-------------------------- MODULE MCFactorThreads --------------------------
(***************************************************************************)
(* FactorThreads with two threads and three jobs, and a vector whose       *)
(* entries end below 32.  The numbers 63, 64, 65 have a factor twice, the  *)
(* 1 behind a power of two, and two divisors next to the root; of 73, 74,  *)
(* 75, the primes 73 and 37 do not fit.                                    *)
(***************************************************************************)
EXTENDS FactorThreads

MCTexts == {<<6, 3>>, <<7, 3>>}
=============================================================================
