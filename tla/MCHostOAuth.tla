---------------------------- MODULE MCHostOAuth -----------------------------
EXTENDS HostOAuth, TLC
CONSTANTS p1, u1, u2, b1, b2, c1, c2, q1, t1, t2, t3, a1, a2
OAuthSym == Permutations({u1, u2}) \cup Permutations({b1, b2})
              \cup Permutations({t1, t2, t3}) \cup Permutations({a1, a2})
=============================================================================
