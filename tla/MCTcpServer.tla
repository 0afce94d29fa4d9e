----------------------------- MODULE MCTcpServer -----------------------------
(* Instances of the relay: numbers 0 to 7, of which the server's listener is
   3 and the connections take what is free. *)
EXTENDS TcpServer, TLC

ServerOnly == {3}
BothRoles == {3, NoFd}
Below1 == -1
TwoOut == [proxy |-> 2, net |-> 1]
Leaves == Sides \X {"fin", "rst"}
AnyFault == Sides \X {"fin", "rst", "absent"}
Zeroed == {{}}
StaleOrNot == {{}, {"in", "out"}}
OneOut == [proxy |-> 1, net |-> 0]
EndsLost == {<<"proxy", "fin">>, <<"net", "rst">>, <<"net", "absent">>}
Symmetry == Permutations(Conns)
==============================================================================
