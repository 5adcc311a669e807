---------------------------- MODULE MCOnboarding ----------------------------
EXTENDS Onboarding, TLC
CONSTANTS u1, f1, f2, r1, r2, w1, w2, c1, c2
OnbSym == Permutations({f1, f2}) \cup Permutations({r1, r2})
            \cup Permutations({w1, w2}) \cup Permutations({c1, c2})
=============================================================================
