----------------------------- MODULE MCUpstream -----------------------------
(* As many exchanges as there are connections, and a token refresh.         *)
EXTENDS Upstream
=============================================================================
