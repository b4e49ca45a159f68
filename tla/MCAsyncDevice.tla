---------------------------- MODULE MCAsyncDevice ----------------------------
(* AsyncDevice with the frames of its TLC runs.                               *)
EXTENDS AsyncDevice

\* A plain genuine frame: what the other frames are variations of.
Plain(c) == [kind |-> "Data", genuine |-> TRUE, fcnt |-> c, confirmed |-> FALSE,
             oversized |-> FALSE, fopts |-> NoCmd, frm |-> NoCmd, data |-> FALSE]
Foreign == [Plain(0) EXCEPT !.genuine = FALSE]
Oversized == [Plain(0) EXCEPT !.oversized = TRUE]
JoinAccepted(del) == [kind |-> "JoinAccept", genuine |-> TRUE, del |-> del]
Timing(del) == [cmd |-> "RXTimingSetupReq", del |-> del]

\* Every counter with data and a sticky answer to give, which moves the receive
\* windows or leaves them; frames that are not ours, too long or no frames at all;
\* join accepts with and without a delay.
AsyncFrames ==
    {[Plain(c) EXCEPT !.fopts = Timing(del), !.data = TRUE] : c \in Fcnt, del \in {1, 3}}
    \cup {Foreign, Oversized, Noise, JoinAccepted(0), JoinAccepted(2)}
=============================================================================
