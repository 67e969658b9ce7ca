----------------------------- MODULE MCPreKeys -----------------------------
EXTENDS PreKeys, TLC

PreKeySymmetry == Permutations(Identity) \cup Permutations(Request)
============================================================================
