---------------------------- MODULE MCMacCommands ----------------------------
(* Instances of MacCommands for TLC: two banks of two 125 kHz channels and  *)
(* one of two 500 kHz channels.                                            *)
EXTENDS MacCommands

MCRegions == {"AS923_1", "US915"}

MCBiases == {<<0, 0>>, <<2, 2>>}

\* Every control with one channel of each bank, masks without a channel or
\* with one bank only; kept, supported and unsupported rates and powers.
MCLinkAdrReqs ==
    [ctl : 0 .. CtlAllOff, bits : {{1, 3}}, dr : {4}, pw : {15}]
    \cup [ctl : {0, CtlAllOff}, bits : {{}}, dr : {4}, pw : {15}]
    \cup [ctl : {0}, bits : {{0, 1}}, dr : {7, 15}, pw : {15}]
    \cup [ctl : {0}, bits : {{0, 1}}, dr : {15}, pw : {1, 14}]

MCRateRanges == {<<0, 5>>, <<3, 2>>, <<6, 15>>}

MCCfMasks == {{}, {0, 1, 2, 3, 5}}
=============================================================================
