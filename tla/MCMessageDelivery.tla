------------------------- MODULE MCMessageDelivery -------------------------
(* Small instances of MessageDelivery. *)
EXTENDS MessageDelivery, TLC

CONSTANT d1

\* Plaintext group messages only.
Plain == [m \in Msg |-> {{}}]

\* A plaintext group message, and one encrypted for the first device.
Mixed == [m \in Msg |-> IF m = 1 THEN {{}} ELSE {{d1}}]

\* Handler tasks are interchangeable.
ConnSymmetry == Permutations(Conn)
=============================================================================
