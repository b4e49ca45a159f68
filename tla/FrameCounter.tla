---------------------------- MODULE FrameCounter ----------------------------
(***************************************************************************)
(* Downlink frame counters (lorawan-device/src/mac/session.rs).            *)
(*                                                                         *)
(* A downlink carries only the low half of the 32-bit counter the network  *)
(* gave it.  The device rebuilds the whole counter from the last one it    *)
(* accepted (next_fcnt_down) and then checks the MIC, which covers the     *)
(* whole counter: a frame is accepted exactly when the rebuilt counter is  *)
(* the one the network used.                                               *)
(***************************************************************************)
EXTENDS Integers

CONSTANTS
    WireMod,     \* counters the wire can tell apart (2^16)
    Epochs,      \* wraps of the wire counter in a session (2^16)
    MaxFcntGap   \* MAX_FCNT_GAP (2^14)

ASSUME FrameCounterAssumption ==
    /\ WireMod \in Nat \ {0}
    /\ Epochs \in Nat \ {0}
    /\ MaxFcntGap \in Nat /\ MaxFcntGap < WireMod

FcntMod == Epochs * WireMod      \* 2^32: the counter is a u32
Fcnt == 0 .. FcntMod - 1
NoFcnt == -1                     \* Rust's None
FcntOption == Fcnt \cup {NoFcnt}

\* Mutant: the wrap of the low half is missed.
ReconstructNoWrap(last, wire) == (last \div WireMod) * WireMod + wire

\* The counter above `last` that has the given low half; the high half wraps
\* at 2^32 as wrapping_add does.
Reconstruct(last, wire) ==
    LET high == (last \div WireMod) * WireMod
    IN  IF wire >= last % WireMod
        THEN high + wire
        ELSE ((high + WireMod) % FcntMod) + wire

\* Mutant: a replay of the last frame passes.
FreshOrEqual(last, fcnt) == fcnt - last \in 0 .. MaxFcntGap

\* checked_sub and the match on the gap.
Fresh(last, fcnt) == fcnt - last \in 1 .. MaxFcntGap

\* The counter to store for a frame with the given wire counter, or NoFcnt
\* when the frame must be dropped.
NextFcntDown(last, wire) ==
    IF last = NoFcnt THEN wire
    ELSE LET reconstructed == Reconstruct(last, wire)
         IN  IF Fresh(last, reconstructed) THEN reconstructed ELSE NoFcnt
=============================================================================
