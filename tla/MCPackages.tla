----------------------------- MODULE MCPackages -----------------------------
(* Instances of Packages for TLC.                                           *)
EXTENDS Packages

Setup(g, a, k, min, max) == [c |-> "McGroupSetupReq", group |-> g, addr |-> a,
                             key |-> k, min |-> min, max |-> max]

StatusAll == [c |-> "McGroupStatusReq", mask |-> Groups]

\* Two sessions of one group with the same address, all groups at once, and
\* more status requests than the answers have room for.
MCSetupMessages == {
    <<Setup(0, "a", "k1", 0, 2), StatusAll>>,
    <<Setup(0, "a", "k2", 0, 1), [c |-> "Malformed"], StatusAll>>,
    <<[c |-> "PackageVersionReq"], [c |-> "McClassCSessionReq"],
      [c |-> "McGroupDeleteReq", group |-> 0]>>,
    <<[c |-> "McClassBSessionReq"]>>,
    [i \in 1 .. 4 |-> Setup(i - 1, "a", "k1", 0, 2)],
    [i \in 1 .. 12 |-> StatusAll]}

MCCertMessages == {<<c>> : c \in {"DutJoinReq", "LinkCheckReq",
    "AdrOff", "Confirmed", "NoOverride"}}
    \cup {<<"TxFramesCtrlRfu", "RxAppCntReq">>, <<"AdrBitChangeRfu", "Malformed">>}

MCApiSessions == {<<1, Session("a", "k2", 0, 1)>>}

MCMcFrames == [port : {201}, addr : {"a"}, key : {"k1"}, fcnt : {0, 1, 2}]
              \cup [port : {201}, addr : {"a"}, key : {"k2"}, fcnt : {1, 4}]
=============================================================================
