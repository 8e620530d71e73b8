----------------------------- MODULE MCPairing -----------------------------
(* Pairing with three sessions and two scans.                              *)
EXTENDS Pairing
=============================================================================
