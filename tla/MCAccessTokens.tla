--------------------------- MODULE MCAccessTokens ---------------------------
(***************************************************************************)
(* Three jobs of one user, one of which has a single trial.                *)
(***************************************************************************)
EXTENDS AccessTokens

OneOrTwo(j) == IF j = 1 THEN 1 ELSE 2
=============================================================================
