---------------------------- MODULE MCUdpFraming -----------------------------
(* Datagrams: one longer than a read with its header, one empty, short ones
   of which two fit in a read. *)
EXTENDS UdpFraming

Four == <<5, 0, 2, 3>>
Two == <<2, 1>>
Below2 == -2
==============================================================================
