------------------------------ MODULE MCRelay ------------------------------
(* One acceptor, two client threads and three addresses; the constants of   *)
(* the code are scaled down so that every limit is reached.                 *)
EXTENDS Relay
=============================================================================
