----------------------------- MODULE MCNbDevice -----------------------------
(* NbDevice with the frames, clocks and data rates of its TLC runs.  The      *)
(* counters are small enough that sessions expire and the wire counter wraps. *)
EXTENDS NbDevice

\* A plain genuine frame: what the other frames are variations of.
Plain(c) == [kind |-> "Data", genuine |-> TRUE, fcnt |-> c, confirmed |-> FALSE,
             oversized |-> FALSE, fopts |-> NoCmd, frm |-> NoCmd, data |-> FALSE]
Foreign == [Plain(0) EXCEPT !.genuine = FALSE]
Oversized == [Plain(0) EXCEPT !.oversized = TRUE]
JoinAccepted(del) == [kind |-> "JoinAccept", genuine |-> TRUE, del |-> del]
ForeignJoinAccept == [kind |-> "JoinAccept", genuine |-> FALSE, del |-> 0]

Timing(del) == [cmd |-> "RXTimingSetupReq", del |-> del]
LinkADR(dr, valid) == [cmd |-> "LinkADRReq", dr |-> dr, valid |-> valid]
Cmd(name) == [cmd |-> name]

\* Every counter, with application data or with a sticky and a plain answer to
\* give; frames that are not ours, too long, or not frames at all.
CounterFrames ==
    {[Plain(c) EXCEPT !.data = TRUE] : c \in Fcnt}
    \cup {[Plain(c) EXCEPT !.fopts = Timing(1), !.frm = Cmd("DevStatusReq")]
            : c \in Fcnt}
    \cup {Foreign, Oversized, JoinAccepted(1), ForeignJoinAccept, Noise}

\* Commands that raise, keep, or fail to change the data rate.
AdrFrames ==
    {[Plain(c) EXCEPT !.fopts = LinkADR(dr, valid)]
        : c \in {0, 3, 6}, dr \in {0, 1, 3, KeepDR}, valid \in BOOLEAN}
    \cup {Foreign, Oversized, JoinAccepted(1)}

\* Commands and join accepts that move the receive windows.
TimingFrames ==
    {[Plain(c) EXCEPT !.fopts = Timing(del), !.confirmed = del = 1] : c \in Fcnt, del \in {0, 1, 3}}
    \cup {[Plain(c) EXCEPT !.fopts = Cmd(m)]
            : c \in Fcnt, m \in {"DlChannelReq", "NewChannelReq", "RXParamSetupReq"}}
    \cup {Foreign, Oversized, Noise, JoinAccepted(0), JoinAccepted(15)}

Early == -1
=============================================================================
