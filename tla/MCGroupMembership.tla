------------------------- MODULE MCGroupMembership -------------------------
(* Instances of GroupMembership. *)
EXTENDS GroupMembership, TLC

\* Request slots are interchangeable, and so are all users but the creator.
Sym == {p @@ q : p \in Permutations(Request), q \in Permutations(User \ {Creator})}
=============================================================================
