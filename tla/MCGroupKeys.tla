---------------------------- MODULE MCGroupKeys ----------------------------
(* Instances of GroupKeys.  The creator is not the lowest id, so an elected  *)
(* leader need not be an admin.                                              *)
EXTENDS GroupKeys, TLC

Two == {1, 2}
OnlyOne == {1}
NoOneElse == {}

\* Secrets are interchangeable.
Secrets == Permutations(Secret)
=============================================================================
