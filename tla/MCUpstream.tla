----------------------------- MODULE MCUpstream -----------------------------
(* Legs that race over one upstream, and the repairs they start.           *)
EXTENDS Upstream
=============================================================================
