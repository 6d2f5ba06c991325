-------------------------- MODULE MCCloudflareSync --------------------------
(* Small instances of CloudflareSync for TLC; the configurations give the  *)
(* constants, and the liveness they check rules out symmetry.              *)
EXTENDS CloudflareSync
=============================================================================
