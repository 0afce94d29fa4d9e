---------------------------- MODULE MCUdpServer ------------------------------
(* Instances of the UDP relay: slots 1 to 3 of a table and descriptors 0 to 8,
   of which 2 listens, so that a slot's number is also a descriptor's. *)
EXTENDS UdpServer

BothRoles == {"SERVER", "CLIENT"}
TwoAndOne == <<2, 1>>
AnyFault == {"absent", "empty", "refused", "ends"}
==============================================================================
