---------------------------- MODULE MCSenderKeys ----------------------------
(* SenderKeys for a user alone in a room, who may have had company before, *)
(* a second one who joins and whose calls fail, and a device that the      *)
(* first one links. The threshold and the limit of the code are larger.    *)
EXTENDS SenderKeys
CONSTANTS a, b

TwoUsers == {a, b}
OneUser == {a}
LinkedDevices == {<<a, 1>>, <<a, 2>>, <<b, 1>>}
MCRefetches == {<<b, 1>>}
MCShaky == {<<b, 1>>}
=============================================================================
