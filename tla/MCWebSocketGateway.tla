------------------------ MODULE MCWebSocketGateway ---------------------------
(***************************************************************************)
(* WebSocketGateway for TLC.                                               *)
(***************************************************************************)
EXTENDS WebSocketGateway

CONSTANTS c1, c2, alice, bob
=============================================================================
