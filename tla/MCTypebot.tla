----------------------------- MODULE MCTypebot -----------------------------
EXTENDS Typebot, TLC

CONSTANTS w1, w2

MCWorkers == {w1, w2}

\* the goroutines are interchangeable
Symmetry == Permutations(MCWorkers)
=============================================================================
