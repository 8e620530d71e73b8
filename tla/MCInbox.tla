------------------------------- MODULE MCInbox -------------------------------
(***************************************************************************)
(* Instances of Inbox for TLC.                                             *)
(***************************************************************************)
EXTENDS Inbox, TLC

CONSTANTS m1, m2, m3, r1, r2, u1, u2, x1, d1

ThreeMsgs == {m1, m2, m3}
OnlyM3 == {m3}
TwoRooms == {r1, r2}
OneUser == {u1}
TwoUsers == {u1, u2}
OneSync == {x1}
OneDeletion == {d1}

InTwoRooms == [m \in Msgs |-> IF m = m2 THEN r2 ELSE r1]
FromTwo == [m \in Msgs |-> IF m = m1 THEN u1 ELSE u2]
SyncOfFirst == [s \in Syncs |-> {m1}]
DeletesFirst == [d \in Deletions |-> m1]
SyncIsFirst == [s \in Syncs |-> r1]
=============================================================================
