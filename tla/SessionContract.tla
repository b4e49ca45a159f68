--------------------------- MODULE SessionContract ---------------------------
(***************************************************************************)
(* What a device promises about the frame counters of its session,         *)
(* whatever the radio, the network and the application do: an abstract     *)
(* specification that the device modules implement.                        *)
(*                                                                         *)
(* The uplink counter moves by one and only forward, the downlink counter  *)
(* moves forward by at most MAX_FCNT_GAP, and accepting a downlink ends an *)
(* exchange, so that it moves both at once.  Only a new session, or one    *)
(* the application saved and gives back (set_session), replaces them.      *)
(***************************************************************************)
EXTENDS FrameCounter

VARIABLES
    counters,   \* the counters of the session in use
    saved       \* the counters of a session the application keeps

vars == <<counters, saved>>

Counters == [up : Fcnt, down : FcntOption]
FreshCounters == [up |-> 0, down |-> NoFcnt]

TypeOK == counters \in Counters /\ saved \in Counters

Init == counters = FreshCounters /\ saved = FreshCounters

\* Counters a downlink may move the last accepted one to.
Ahead(down) ==
    IF down = NoFcnt THEN Fcnt \cap 0 .. WireMod - 1
    ELSE Fcnt \cap down + 1 .. down + MaxFcntGap

NewSession ==
    /\ counters' = FreshCounters
    /\ UNCHANGED saved

EndExchange ==
    /\ counters.up < FcntMod - 1
    /\ counters' = [counters EXCEPT !.up = @ + 1]
    /\ UNCHANGED saved

AcceptDownlink ==
    /\ \E c \in Ahead(counters.down) :
          counters' = [up |-> IF counters.up < FcntMod - 1
                              THEN counters.up + 1 ELSE counters.up,
                       down |-> c]
    /\ UNCHANGED saved

Save ==
    /\ saved' = counters
    /\ UNCHANGED counters

Restore ==
    /\ counters' = saved
    /\ UNCHANGED saved

Next == NewSession \/ EndExchange \/ AcceptDownlink \/ Save \/ Restore

Spec == Init /\ [][Next]_vars
=============================================================================
