--------------------------- MODULE MCRefreshTokens ---------------------------
(* A few sessions of one user or of several: the ledger does not care which.  *)
EXTENDS RefreshTokens

=============================================================================
