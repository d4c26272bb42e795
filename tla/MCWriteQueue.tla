---------------------------- MODULE MCWriteQueue ----------------------------
(* An instance of WriteQueue: each end sends one unit more than a window.     *)
EXTENDS WriteQueue

MCWindow == [svr |-> 3, cli |-> 6]
MCData == [svr |-> 7, cli |-> 4]
=============================================================================
