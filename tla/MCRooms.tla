------------------------------ MODULE MCRooms ------------------------------
(* Rooms with a room we are in on the default server, and a room to be     *)
(* joined on a custom one, which knows us by another id.                   *)
EXTENDS Rooms, TLC
CONSTANTS r1, r2, s1, s2, u1, u2
OneEach == (r1 :> s1) @@ (r2 :> s2)
OtherIds == (s1 :> u1) @@ (s2 :> u2)
=============================================================================
