--------------------------- MODULE MCWindowSearch ---------------------------
(* Instances of WindowSearch for model checking. *)
EXTENDS WindowSearch

Primes == (2 .. 4300) \ UNION { { d * k : k \in d .. 4300 \div d } : d \in 2 .. 65 }
Lengths == [n \in 0 .. 4300 |-> IF n < 1380 THEN 12 ELSE 16]

\* (A definition that a constant is given is evaluated at each use: one that
\* names another is not.)
MCPrime == Primes
MCNeed  == Lengths

\* 2^7 times a header's hash; 1327 begins a gap of 34.
MCBases == { 128 * h : h \in {8, 9, 10, 11, 12, 13, 14, 21, 31} }

\* For the test on limbs also one with a real pseudoprime (2047 = 23 * 89), and
\* one whose candidates have more limbs than there are.
MCLimbBases == { 128 * h : h \in {1, 8, 10, 15, 31, 32} }

Gmp            == [limbs |-> FALSE, width |-> 4, adx |-> TRUE]
Limbs(wd, adx) == [limbs |-> TRUE, width |-> wd, adx |-> adx]
Setting(h, q, s, a, g, d) ==
  [half |-> h, quarter |-> q, sieve |-> s, avx |-> a, gpu |-> g, split |-> d]
MCSettings == {
  Setting(FALSE, FALSE, "cached", TRUE, FALSE, 0), Setting(FALSE, FALSE, "fresh", FALSE, FALSE, 0),
  Setting(FALSE, FALSE, "cached", FALSE, TRUE, 0), Setting(FALSE, FALSE, "hybrid", TRUE, TRUE, 5),
  Setting(TRUE, FALSE, "cached", TRUE, FALSE, 0), Setting(TRUE, FALSE, "hybrid", FALSE, TRUE, 7),
  Setting(TRUE, TRUE, "hybrid", TRUE, FALSE, 5), Setting(TRUE, TRUE, "cached", FALSE, TRUE, 0) }

\* Composites without a small factor, one of which passes the Euler test.
Composites(b) == { n \in b .. b + 127 : n \notin MCPrime /\ \A p \in {2, 3, 5, 7} : n % p # 0 }

MCLimbSettings == {
  <<Setting(FALSE, FALSE, "cached", TRUE, FALSE, 0), Limbs(4, TRUE)>>,
  <<Setting(FALSE, FALSE, "fresh", FALSE, FALSE, 0), Limbs(4, FALSE)>>,
  <<Setting(FALSE, FALSE, "cached", TRUE, TRUE, 0), Limbs(3, TRUE)>>,
  <<Setting(FALSE, FALSE, "hybrid", FALSE, FALSE, 5), Limbs(5, FALSE)>> }

Input(b, s, cpu, x) ==
  [base |-> b, half |-> s.half, quarter |-> s.quarter, sieve |-> s.sieve, avx |-> s.avx,
   gpu |-> s.gpu, split |-> s.split, cpu |-> cpu, pseudo |-> x,
   faults |-> IF s.gpu /\ x = {} THEN IF cpu.limbs THEN 1 ELSE 2 ELSE 0]

MCInputs ==
  UNION { { Input(b, s, Gmp, x) : x \in {{}} \cup { {n} : n \in Composites(b) } } :
            b \in MCBases, s \in MCSettings } \cup
  { Input(b, s[1], s[2], {}) : b \in MCLimbBases, s \in MCLimbSettings }
=============================================================================
