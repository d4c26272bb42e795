--------------------------- MODULE MCChannelFlow ---------------------------
(* An instance of ChannelFlow: the constant that a configuration file      *)
(* cannot write down.  More units than a window, so that buffers wrap and  *)
(* the sender depends on adjustments, on both streams.                     *)
EXTENDS ChannelFlow

MCData == [out |-> 7, err |-> 1]
=============================================================================
