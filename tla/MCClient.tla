------------------------------ MODULE MCClient ------------------------------
(***************************************************************************)
(* A cluster of two servers and a client with room for two connections.    *)
(***************************************************************************)
EXTENDS ClientConnection

CONSTANTS e1, e2

\* Both servers, or only one of them.
MCEndpointLists == {<<e1, e2>>, <<e2>>}

=============================================================================
