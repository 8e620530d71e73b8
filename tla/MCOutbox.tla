------------------------------ MODULE MCOutbox ------------------------------
(* Outbox for one message of a sender-key room, volatile or not, and one   *)
(* server.                                                                 *)
EXTENDS Outbox, TLC

CONSTANTS m1, s1

OneMsg == {m1}
OneServer == {s1}

OneOnOne == m1 :> s1
=============================================================================
