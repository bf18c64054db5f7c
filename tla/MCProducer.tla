----------------------------- MODULE MCProducer -----------------------------
EXTENDS Producer, TLC

\* Publications are interchangeable where all or none of them are mandatory.
Symmetry == Permutations(Publications)
=============================================================================
