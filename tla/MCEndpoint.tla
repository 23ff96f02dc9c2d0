----------------------------- MODULE MCEndpoint -----------------------------
(* A small instance of Endpoint: two sinks, which may get the port ids of  *)
(* one that has gone, other ones, or one of each.                          *)
EXTENDS Endpoint

MCSinkPorts == {[FL |-> 3, FR |-> 4], [FL |-> 6, FR |-> 5], [FL |-> 4, FR |-> 7]}
MCOurPorts == [FL |-> 1, FR |-> 2]
=============================================================================
