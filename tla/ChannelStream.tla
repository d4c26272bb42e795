--------------------------- MODULE ChannelStream ---------------------------
(***************************************************************************)
(* What a channel promises about the data of one direction: two reliable   *)
(* streams, stdout and stderr, over one pool of Capacity units.  Units     *)
(* come out in the order in which they went in; the end of the data        *)
(* overtakes none of them; a stream whose reader has gone away takes the   *)
(* rest of its units with it.  Nothing is said here of whether the other   *)
(* one still goes on.  No packet, window, buffer or partial write is       *)
(* visible here: ChannelFlow implements this with those.                   *)
(***************************************************************************)
EXTENDS Integers, Sequences

CONSTANT Capacity       \* units that may be under way

Streams == {"out", "err"}

VARIABLES
    accepted,       \* accepted[s]: the units 1 .. accepted[s] went in
    ended,          \* the producer has no more
    delivered,      \* delivered[s]: the units that came out
    reader          \* reader[s]: "open", "broken" or "closed"

vars == <<accepted, ended, delivered, reader>>

UnderWay ==
    accepted["out"] + accepted["err"] - Len(delivered["out"]) - Len(delivered["err"])

Init ==
    /\ accepted = [s \in Streams |-> 0] /\ ended = FALSE
    /\ delivered = [s \in Streams |-> <<>>] /\ reader = [s \in Streams |-> "open"]

Accept(s) ==
    /\ ~ended
    /\ \E n \in 1..(Capacity - UnderWay) : accepted' = [accepted EXCEPT ![s] = @ + n]
    /\ UNCHANGED <<ended, delivered, reader>>

End ==
    /\ ~ended /\ ended' = TRUE
    /\ UNCHANGED <<accepted, delivered, reader>>

Deliver(s) ==
    /\ reader[s] = "open"
    /\ \E n \in 1..(accepted[s] - Len(delivered[s])) :
         delivered' = [delivered EXCEPT ![s] =
                         @ \o [i \in 1..n |-> Len(delivered[s]) + i]]
    /\ UNCHANGED <<accepted, ended, reader>>

Break(s) ==
    /\ reader[s] = "open" /\ reader' = [reader EXCEPT ![s] = "broken"]
    /\ UNCHANGED <<accepted, ended, delivered>>

\* The reader of stdout sees the end, after everything that can be delivered.
Finish ==
    /\ ended /\ reader["out"] = "open"
    /\ \A s \in Streams : reader[s] = "broken" \/ Len(delivered[s]) = accepted[s]
    /\ reader' = [reader EXCEPT !["out"] = "closed"]
    /\ UNCHANGED <<accepted, ended, delivered>>

Next ==
    \/ \E s \in Streams : Accept(s) \/ Deliver(s) \/ Break(s)
    \/ End \/ Finish

Spec == Init /\ [][Next]_vars
=============================================================================
