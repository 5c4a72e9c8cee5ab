------------------------- MODULE MCOfferingLifecycle -------------------------
(* Small instances of OfferingLifecycle; each cfg picks what it needs.      *)
EXTENDS OfferingLifecycle, TLC
CONSTANTS alice, stageb, t1, t2, l1, l2, riskscan, p1, p2, k1, k2, x1, x2, a1, a2,
          r1, r2, q1, j1, j2
NoShortSpellings == {}
\* x1 is 5 ns and x2 500000000 ns past the same second; the id ends in ".5".
FiveNanoseconds == {[txn |-> x2, read |-> x1]}
\* No definition and no cfg tells the values of one of these sets apart.
Symmetry ==
    UNION {Permutations(Keys), Permutations(Assets), Permutations(Jobs),
           Permutations(Tools), Permutations(Payloads), Permutations(Records)}
=============================================================================
