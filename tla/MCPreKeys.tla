----------------------------- MODULE MCPreKeys -----------------------------
(* PreKeys with two servers, and batches small enough to run out.          *)
EXTENDS PreKeys
CONSTANTS s1, s2

TwoServers == {s1, s2}
=============================================================================
