---------------------------- MODULE MCRetryQueue ----------------------------
(***************************************************************************)
(* Instances of RetryQueue for TLC: messages of two rooms, the id_room in  *)
(* a queued body being the backend's number of the room.                   *)
(***************************************************************************)
EXTENDS RetryQueue, TLC

CONSTANTS m1, m2, m3

ThreeIds == {m1, m2, m3}
TwoRooms == (m1 :> 1) @@ (m2 :> 2) @@ (m3 :> 1)

BackendRooms == {1, 2}

(* Local ids of the same rooms on a server with id 1: chat.service hands   *)
(* removeMessagesByRoom these.                                             *)
LocalRooms == {1000000001, 1000000002}
=============================================================================
