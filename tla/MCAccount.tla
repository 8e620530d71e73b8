------------------------------ MODULE MCAccount ------------------------------
(* Account for three identities, two restarts, two failures.               *)
EXTENDS Account
=============================================================================
