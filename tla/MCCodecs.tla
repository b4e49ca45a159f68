------------------------------ MODULE MCCodecs ------------------------------
(* The four codecs of the project in one model: the fields of the MAC         *)
(* commands, the command stream, the frames, and the registers of the radio.  *)
(* A behaviour exercises one of them; the others stay as they start.          *)
EXTENDS CommandCodec, FrameCodec, ChipRegisters

CONSTANT Parts      \* the codecs considered

VARIABLE part       \* the codec of this behaviour

vars == <<part, fieldVars, streamVars, frameVars, chipVars>>

MCFlags == {{}, {"adr", "adr_ack_req", "ack", "f_pending"}, {"adr_ack_req"}, {"ack"}}

\* The edges of every amplifier's range and of the rows of its table.
MCPowers == {-20, -17, -9, -4, -1, 0, 1, 2, 5, 10, 11, 14, 15, 17, 18, 20, 22, 27}

\* The codecs that are not considered have one initial state.
Init ==
    /\ part \in Parts
    /\ FieldsInit /\ StreamInit /\ FrameInit /\ ChipInit
    /\ part # "stream" => set = "uplink_mac"
    /\ part # "chip" => <<model, tx_boost, quirk>> = <<"sx1276", FALSE, FALSE>>

Next ==
    /\ UNCHANGED part
    /\ \/ part = "fields" /\ FieldsNext /\ UNCHANGED <<streamVars, frameVars, chipVars>>
       \/ part = "stream" /\ StreamNext /\ UNCHANGED <<fieldVars, frameVars, chipVars>>
       \/ part = "frame" /\ FrameNext /\ UNCHANGED <<fieldVars, streamVars, chipVars>>
       \/ part = "chip" /\ ChipNext /\ UNCHANGED <<fieldVars, streamVars, frameVars>>

Spec == Init /\ [][Next]_vars
=============================================================================
