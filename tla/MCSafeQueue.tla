----------------------------- MODULE MCSafeQueue -----------------------------
(* The server's connection queue: the proxy thread and a second pusher, and
   the manager thread, which consumes and pushes back. *)
EXTENDS SafeQueue
==============================================================================
