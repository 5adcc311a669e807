---------------------------- MODULE MCBootstrap -----------------------------
EXTENDS Bootstrap, TLC
CONSTANTS p1, p2
PodSym == Permutations({p1, p2})
=============================================================================
