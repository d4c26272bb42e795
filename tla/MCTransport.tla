---------------------------- MODULE MCTransport ----------------------------
(* The server sends two application packets, so that the order in its reply *)
(* queue matters, the client one.                                           *)
EXTENDS Transport, TLC

MCApp == "svr" :> 2 @@ "cli" :> 1
=============================================================================
