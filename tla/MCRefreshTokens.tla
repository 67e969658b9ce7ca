-------------------------- MODULE MCRefreshTokens --------------------------
(* Small instances of RefreshTokens for TLC. *)
EXTENDS RefreshTokens, TLC

\* Requests are interchangeable, and so are families and new rows.
Sym == Permutations(Request) \cup Permutations(Family)
         \cup Permutations(Token \ Legacy)
=============================================================================
