-------------------------- MODULE MCPollDispatcher ---------------------------
(* A table with or without a listener and with room for two connections,
   among four descriptor numbers. *)
EXTENDS PollDispatcher

WithOrWithout == {3, NoFd}
==============================================================================
