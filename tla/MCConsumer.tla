----------------------------- MODULE MCConsumer -----------------------------
EXTENDS Consumer, TLC

\* Messages and workers are interchangeable where Malformed is empty.
Symmetry == Permutations(Messages) \cup Permutations(Workers)
=============================================================================
