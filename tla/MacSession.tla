----------------------------- MODULE MacSession -----------------------------
(***************************************************************************)
(* The MAC layer shared by both devices (lorawan-device/src/mac): the      *)
(* session (session.rs), the queue of pending MAC answers (uplink/mod.rs), *)
(* OTAA (otaa.rs) and the dispatch on the join state (mod.rs).             *)
(*                                                                         *)
(* The code is a library of synchronous methods on `&mut Mac`; here each   *)
(* method is an operator from a MAC to a record with the new MAC and the   *)
(* Response.  The default features are modelled: no certification handler, *)
(* no multicast.  The device modules turn these operators into actions.    *)
(***************************************************************************)
EXTENDS FrameCounter, FiniteSetsExt

CONSTANTS
    SupportedDR,     \* data rates for which region.get_datarate is Some
    DefaultDR,       \* region.get_default_datarate()
    AdrAckLimit,     \* ADR_ACK_LIMIT (64)
    AdrAckDelay,     \* ADR_ACK_DELAY (32)
    Second,          \* 1000 ms, in the model's time unit
    FixedPlan        \* region.has_fixed_channel_plan()

ASSUME MacSessionAssumption ==
    /\ SupportedDR \subseteq 0 .. 14
    /\ DefaultDR \in SupportedDR
    /\ AdrAckLimit \in Nat \ {0}
    /\ AdrAckDelay \in Nat \ {0}
    /\ Second \in Nat \ {0}
    /\ FixedPlan \in BOOLEAN

-----------------------------------------------------------------------------
(* State of the MAC.                                                       *)

DR == 0 .. 14            \* DR15 on the wire means "keep": KeepDR
KeepDR == 15

Sticky == {"DlChannelAns", "RXParamSetupAns", "RXTimingSetupAns"}
Answer == Sticky \cup {"DevStatusAns", "LinkADRAns", "NewChannelAns"}

\* A delay the network chose: del_to_delay_ms.
DelToDelayMs(del) == IF del \in 2 .. 15 THEN del * Second ELSE Second

RxDelays == {DelToDelayMs(del) : del \in 0 .. 15}

Session == [
    fcnt_up : Fcnt,            \* counter of the next uplink
    fcnt_down : FcntOption,    \* counter of the last accepted downlink
    adr_ack_cnt : Nat,         \* uplinks since then
    confirmed : BOOLEAN,       \* the uplink in flight asked for an ACK
    pending : SUBSET Answer,   \* Uplink.pending, the kinds of its answers
    ack : BOOLEAN]             \* Uplink.confirmed: an ACK is owed

NewSession == [
    fcnt_up |-> 0, fcnt_down |-> NoFcnt, adr_ack_cnt |-> 0,
    confirmed |-> FALSE, pending |-> {}, ack |-> FALSE]

Configuration == [
    data_rate : SupportedDR,
    rx1_delay : RxDelays,
    adr_enabled : BOOLEAN]

InitConfiguration == [
    data_rate |-> DefaultDR, rx1_delay |-> Second, adr_enabled |-> TRUE]

\* The session field is meaningful only in the joined state.
Mac == [
    state : {"Unjoined", "Otaa", "Joined"},
    session : Session,
    configuration : Configuration]

InitMac == [
    state |-> "Unjoined", session |-> NewSession,
    configuration |-> InitConfiguration]

\* What a MAC method returns: the MAC after it, its Response, and whether it
\* pushed application data on the downlink queue.
Reply(mac, resp, data) == [mac |-> mac, resp |-> resp, data |-> data]

-----------------------------------------------------------------------------
(* Downlink frames as the device sees them.                                *)

NoCmd == [cmd |-> "None"]

\* At most one MAC command per carrier (FOpts, port-0 FRMPayload); streams of
\* several are the subject of MacCommands.  `valid` is the region's verdict on
\* the parts of a command that are not modelled here.
MacCommand ==
    {NoCmd}
    \cup [cmd : {"DevStatusReq"}]
    \cup [cmd : {"LinkADRReq"}, dr : DR \cup {KeepDR}, valid : BOOLEAN]
    \cup [cmd : {"RXTimingSetupReq"}, del : 0 .. 15]
    \cup [cmd : {"DlChannelReq", "NewChannelReq", "RXParamSetupReq"}]

\* A data frame.  `genuine`: made with this session's keys.  `fcnt`: the whole
\* counter its sender used.
DataFrame == [
    kind : {"Data"}, genuine : BOOLEAN, fcnt : Fcnt, confirmed : BOOLEAN,
    oversized : BOOLEAN, fopts : MacCommand, frm : MacCommand,
    data : BOOLEAN]

JoinAccept == [kind : {"JoinAccept"}, genuine : BOOLEAN, del : 0 .. 15]

\* Anything neither parser takes.
Noise == [kind |-> "Noise"]

Frame == DataFrame \cup JoinAccept \cup {Noise}

-----------------------------------------------------------------------------
(* uplink/mod.rs                                                           *)

AddMacCommand(s, ans) == [s EXCEPT !.pending = @ \cup {ans}]

\* Mutant: the answers that must be repeated are dropped with the others.
ClearAllMacCommands(s, retain_acks) == [s EXCEPT !.pending = {}]

ClearMacCommands(s, retain_acks) ==
    [s EXCEPT !.pending = IF retain_acks THEN @ \cap Sticky ELSE {}]

-----------------------------------------------------------------------------
(* session.rs                                                              *)

LowerDR(dr) == {d \in SupportedDR : d < dr}

\* next_lower_datarate is Some
HasLowerDR(dr) == LowerDR(dr) # {}

NextLowerDatarate(dr) == Max(LowerDR(dr))

\* Mutant: the first backoff step comes ADR_ACK_DELAY too early.
BackoffAtLimit(cnt) == cnt >= AdrAckLimit /\ (cnt - AdrAckLimit) % AdrAckDelay = 0

\* Mutant: only the first backoff step is taken.
BackoffOnce(cnt) == cnt = AdrAckLimit + AdrAckDelay

\* The uplinks after which the data rate steps down.
BackoffDue(cnt) ==
    /\ cnt >= AdrAckLimit + AdrAckDelay
    /\ (cnt - AdrAckLimit) % AdrAckDelay = 0

Backoff(c, cnt) ==
    IF c.adr_enabled /\ BackoffDue(cnt) /\ HasLowerDR(c.data_rate)
    THEN [c EXCEPT !.data_rate = NextLowerDatarate(@)]
    ELSE c

\* Mutant: nobody looks whether the counter is used up.
FcntNeverUsedUp(s) == FALSE

FcntUsedUp(s) == s.fcnt_up = FcntMod - 1

\* Mutant: an unanswered unconfirmed uplink keeps its counter.
Rx2CompleteNoIncrement(mac) ==
    Reply(mac, IF mac.session.confirmed THEN "NoAck" ELSE "RxComplete", FALSE)

\* Session::rx2_complete.  adr_ack_cnt never exceeds fcnt_up, so that its
\* saturation at the top of u32 is never reached (see AdrAckCntBounded).
SessionRx2Complete(mac) ==
    LET s == mac.session
        c == mac.configuration
        cnt == IF c.adr_enabled THEN s.adr_ack_cnt + 1 ELSE s.adr_ack_cnt
    IN  IF FcntUsedUp(s) THEN Reply(mac, "SessionExpired", FALSE)
        ELSE Reply([mac EXCEPT !.session.fcnt_up = @ + 1,
                               !.session.adr_ack_cnt = cnt,
                               !.configuration = Backoff(c, cnt)],
                   IF s.confirmed THEN "NoAck" ELSE "RxComplete",
                   FALSE)

\* One command of handle_downlink_macs: the answer it queues and its effect on
\* the configuration.
HandleMacCommand(mac, m) ==
    CASE m.cmd = "DevStatusReq" ->
            [mac EXCEPT !.session = AddMacCommand(@, "DevStatusAns")]
      [] m.cmd = "DlChannelReq" /\ ~FixedPlan ->
            [mac EXCEPT !.session = AddMacCommand(@, "DlChannelAns")]
      [] m.cmd = "NewChannelReq" /\ ~FixedPlan ->
            [mac EXCEPT !.session = AddMacCommand(@, "NewChannelAns")]
      [] m.cmd = "RXParamSetupReq" ->
            [mac EXCEPT !.session = AddMacCommand(@, "RXParamSetupAns")]
      [] m.cmd = "RXTimingSetupReq" ->
            [mac EXCEPT !.session = AddMacCommand(@, "RXTimingSetupAns"),
                        !.configuration.rx1_delay = DelToDelayMs(m.del)]
      [] m.cmd = "LinkADRReq" ->
            [mac EXCEPT !.session = AddMacCommand(@, "LinkADRAns"),
                        !.configuration.data_rate =
                            IF m.valid /\ m.dr \in SupportedDR THEN m.dr ELSE @]
      [] OTHER -> mac

\* MAC commands may be in the FHDR or the FRMPayload.
HandleDownlinkMacs(mac, f) ==
    HandleMacCommand(HandleMacCommand(mac, f.fopts), f.frm)

\* Mutant: a downlink does not count as the end of the exchange.
AcceptNoIncrement(mac, f, fcnt, ignore_mac) ==
    Reply([mac EXCEPT !.session.fcnt_down = fcnt], "DownlinkReceived", f.data)

\* handle_rx from the valid MIC on.
Accept(mac, f, fcnt, ignore_mac) ==
    LET m1 == [mac EXCEPT !.session.fcnt_down = fcnt,
                          !.session.adr_ack_cnt = 0]
        m2 == IF ignore_mac THEN m1 ELSE HandleDownlinkMacs(m1, f)
        m3 == [m2 EXCEPT !.session.ack = @ \/ f.confirmed]
    IN  IF FcntUsedUp(m3.session) THEN Reply(m3, "SessionExpired", FALSE)
        ELSE Reply([m3 EXCEPT !.session.fcnt_up = @ + 1],
                   "DownlinkReceived", f.data)

\* Session::handle_rx.  ignore_mac is set for frames of the RXC window.
SessionHandleRx(mac, f, ignore_mac) ==
    IF f.kind # "Data" THEN Reply(mac, "NoUpdate", FALSE)
    ELSE IF f.oversized THEN SessionRx2Complete(mac)
    ELSE LET m == IF ignore_mac THEN mac
                  ELSE [mac EXCEPT !.session = ClearMacCommands(@, FALSE)]
             fcnt == NextFcntDown(mac.session.fcnt_down, f.fcnt % WireMod)
         IN  IF fcnt # NoFcnt /\ f.genuine /\ f.fcnt = fcnt
             THEN Accept(m, f, fcnt, ignore_mac)
             ELSE Reply(m, "NoUpdate", FALSE)

\* The uplink prepare_buffer builds ...
BuildUplink(mac, confirmed) ==
    LET s == mac.session
        c == mac.configuration
    IN  [fcnt |-> s.fcnt_up,
         ack |-> s.ack,
         adr_ack_req |-> /\ c.adr_enabled
                         /\ s.adr_ack_cnt >= AdrAckLimit
                         /\ HasLowerDR(c.data_rate),
         confirmed |-> confirmed,
         answers |-> s.pending]

\* ... and what it leaves behind.
PrepareBuffer(mac, confirmed) ==
    [mac EXCEPT !.session = ClearMacCommands(
        [@ EXCEPT !.ack = FALSE, !.confirmed = confirmed], TRUE)]

-----------------------------------------------------------------------------
(* mod.rs and otaa.rs: dispatch on the join state.                         *)

Joined(mac) == mac.state = "Joined"

\* The session, if any, is dropped with the old state.
JoinOtaa(mac) == [mac EXCEPT !.state = "Otaa", !.session = NewSession]

\* Mutant: the ADR count of the old session is carried over.
InstallKeepsAdrCount(mac, s) ==
    [mac EXCEPT !.state = "Joined",
                !.session = [s EXCEPT !.adr_ack_cnt = mac.session.adr_ack_cnt]]

\* join_abp and set_session
Install(mac, s) == [mac EXCEPT !.state = "Joined", !.session = s]

\* set_adr
SetAdr(mac, enabled) ==
    [mac EXCEPT !.configuration.adr_enabled = enabled,
                !.session.adr_ack_cnt = IF enabled THEN @ ELSE 0]

OtaaHandleRx(mac, f) ==
    IF f.kind = "JoinAccept" /\ f.genuine
    THEN Reply(Install([mac EXCEPT !.configuration.rx1_delay =
                            DelToDelayMs(f.del)], NewSession),
               "JoinSuccess", FALSE)
    ELSE Reply(mac, "NoUpdate", FALSE)

\* Mac::handle_rx, frames of the RX1 and RX2 windows
HandleRx(mac, f) ==
    CASE mac.state = "Joined"   -> SessionHandleRx(mac, f, FALSE)
      [] mac.state = "Otaa"     -> OtaaHandleRx(mac, f)
      [] mac.state = "Unjoined" -> Reply(mac, "NoUpdate", FALSE)

\* Mutant: a join without an answer reports nothing.
Rx2CompleteSilentJoin(mac) ==
    IF Joined(mac) THEN SessionRx2Complete(mac) ELSE Reply(mac, "NoUpdate", FALSE)

\* Mac::rx2_complete
Rx2Complete(mac) ==
    CASE mac.state = "Joined"   -> SessionRx2Complete(mac)
      [] mac.state = "Otaa"     -> Reply(mac, "NoJoinAccept", FALSE)
      [] mac.state = "Unjoined" -> Reply(mac, "NoUpdate", FALSE)

\* get_rx_delay
GetRxDelay(mac, frame, window) ==
    IF frame = "Join" THEN (IF window = 1 THEN 5 * Second ELSE 6 * Second)
    ELSE mac.configuration.rx1_delay + (IF window = 1 THEN 0 ELSE Second)
=============================================================================
