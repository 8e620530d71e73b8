----------------------------- MODULE MCDevices -----------------------------
(* Devices with the two users as model values.                             *)
EXTENDS Devices
=============================================================================
