-------------------------- MODULE DownlinkFreshness --------------------------
(***************************************************************************)
(* The network's counter and the device's Session.fcnt_down over a link    *)
(* that loses, delays, reorders and duplicates frames at will.             *)
(***************************************************************************)
EXTENDS FrameCounter

Min2(a, b) == IF a <= b THEN a ELSE b

VARIABLES
    fcnt_down,   \* Session.fcnt_down: last accepted counter, or NoFcnt
    sent,        \* counters the network has used so far: 0 .. sent - 1
    deliveries   \* history: how often the frame with each counter was accepted

vars == <<fcnt_down, sent, deliveries>>

delivered == {c \in Fcnt : deliveries[c] > 0}

TypeOK ==
    /\ fcnt_down \in FcntOption
    /\ sent \in 0 .. FcntMod
    /\ deliveries \in [Fcnt -> Nat]

Init ==
    /\ fcnt_down = NoFcnt
    /\ sent = 0
    /\ deliveries = [c \in Fcnt |-> 0]

\* The network sends the frame with the next counter.
NetworkSend ==
    /\ sent < FcntMod
    /\ sent' = sent + 1
    /\ UNCHANGED <<fcnt_down, deliveries>>

\* Mutant: the counter of the accepted frame is not stored.
ReceiveForgets(c) ==
    /\ NextFcntDown(fcnt_down, c % WireMod) = c
    /\ deliveries' = [deliveries EXCEPT ![c] = @ + 1]
    /\ UNCHANGED <<fcnt_down, sent>>

\* A frame some time sent reaches the device, perhaps late and perhaps again.
\* validate_mic succeeds iff the counter it is given is the frame's own.
Receive(c) ==
    /\ NextFcntDown(fcnt_down, c % WireMod) = c
    /\ fcnt_down' = c
    /\ deliveries' = [deliveries EXCEPT ![c] = @ + 1]
    /\ UNCHANGED sent

Next == NetworkSend \/ \E c \in 0 .. sent - 1 : Receive(c)

Spec == Init /\ [][Next]_vars

-----------------------------------------------------------------------------

\* No replay: a frame is accepted at most once, and never after a later one
\* (next_fcnt_down and the assignment of fcnt_down in handle_rx), whatever the
\* link duplicates or reorders.
AcceptsOnlyAhead ==
    \A c \in Fcnt : Receive(c) =>
        /\ c \notin delivered
        /\ \A d \in delivered : d < c

\* AcceptsOnlyAhead as a property of every step.
NoReplay == [][AcceptsOnlyAhead]_vars

\* Every frame at most MAX_FCNT_GAP ahead of the last accepted one is rebuilt
\* to the counter the network used, across wraps of the low half, so a genuine
\* frame is never lost to the reconstruction.
InGapAccepted ==
    fcnt_down # NoFcnt =>
        \A c \in fcnt_down + 1 .. Min2(fcnt_down + MaxFcntGap, sent - 1) :
            NextFcntDown(fcnt_down, c % WireMod) = c

\* The inductive invariant behind NoReplay: nothing delivered is above the
\* last accepted counter.
DeliveredBelow == \A d \in delivered : fcnt_down # NoFcnt /\ d <= fcnt_down
=============================================================================
