---------------------------- MODULE MCTlsFilter ------------------------------
(* Instances of the TLS filters: two users' numbers and two tunnels', flights
   and messages of two units.  The first request and response and one more
   request announce their lengths; the last response announces less than it
   has, as 'Content-Length:12' does to a filter that skips a character. *)
EXTENDS TlsFilter, TLC

SomeLengths == <<"net", 1, 1>> :> 2 @@ <<"proxy", 1, 1>> :> 2
               @@ <<"net", 2, 2>> :> 2 @@ <<"proxy", 2, 2>> :> 1
==============================================================================
