--------------------------- MODULE MCMessageQueue ---------------------------
(***************************************************************************)
(* MessageQueue for TLC: a client with two requests, of which one may be   *)
(* the UNREGISTER of its shutdown, and a pipe that is read byte by byte.   *)
(***************************************************************************)
EXTENDS MessageQueue

CONSTANT c1

MCClients == {c1}
MCEndpoints == MCClients \cup {Server}

=============================================================================
