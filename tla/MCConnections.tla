--------------------------- MODULE MCConnections ---------------------------
(* Two callers, two streams, a server with one permit.                     *)
EXTENDS Connections
=============================================================================
