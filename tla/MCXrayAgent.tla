---------------------------- MODULE MCXrayAgent ----------------------------
(* One device with the credential it is provisioned with and the one it    *)
(* rotates to, alone or next to a second device.                           *)
EXTENDS XrayAgent, TLC
CONSTANTS u1, u2, v1, d1, d2

MCDeviceOf == [u \in Uuids |-> IF u = v1 THEN d2 ELSE d1]
=============================================================================
