----------------------------- MODULE MacCommands -----------------------------
(***************************************************************************)
(* Streams of MAC commands and their effect on the channel plan, the       *)
(* configuration and the queue of answers: Session::handle_downlink_macs   *)
(* (mac/session.rs), the region's handlers (ChannelPlan), the queue        *)
(* (mac/uplink/mod.rs), the join (mac/otaa.rs) and the choice of the       *)
(* channel and the windows of the uplinks that follow (mac/mod.rs).        *)
(*                                                                         *)
(* The loop over a stream takes one step per command.  Its commands are    *)
(* chosen as it goes; what the loop peeks at, the kind of the next one, is *)
(* `peek`.  The frame counters and the receive windows' timing are the     *)
(* subject of NbDevice and AsyncDevice.                                    *)
(***************************************************************************)
EXTENDS ChannelPlan

CONSTANTS
    RegionsUsed,     \* the regions a device may be built for
    Biases,          \* <<subband, retries>> given to set_join_bias, <<0, 0>> for none
    LinkAdrReqs,     \* [ctl, bits, dr, pw] the network may send
    ChannelIndices,  \* indices in NewChannelReq and DlChannelReq
    RateRanges,      \* <<min, max>> in NewChannelReq
    AppRates,        \* data rates the application may set
    Delays,          \* RX1 delays in RxTimingSetupReq and the join accept
    Offsets,         \* RX1DROffset values in DLSettings
    Rx2Rates,        \* RX2DataRate values in DLSettings
    CfMasks,         \* masks in a type 1 CFList
    FoptsMaxLen,     \* bytes in the queue of answers (15 in the code)
    MaxCmds,         \* bound: commands in a behaviour
    MaxJoins,        \* bound: join attempts between two resets
    MaxLost          \* bound: attempts after which a join accept still comes

ASSUME MacCommandsAssumption ==
    /\ RegionsUsed \subseteq Region
    /\ Biases \subseteq (0 .. Banks) \X Nat
    /\ \A r \in RegionsUsed : NumJoin(r) <= NumDynamic
    /\ LinkAdrReqs \subseteq
        [ctl : 0 .. CtlAllOff, bits : SUBSET (0 .. 2 * BankSize - 1), dr : 0 .. 15, pw : 0 .. 15]
    /\ ChannelIndices \subseteq Nat
    /\ AppRates \subseteq 0 .. 15
    /\ Delays \subseteq 1 .. 15
    /\ Offsets \subseteq 0 .. 7
    /\ FoptsMaxLen \in Nat
    /\ Rx2Rates \subseteq 0 .. 15
    /\ CfMasks \subseteq SUBSET Channels
    /\ MaxCmds \in Nat
    /\ MaxJoins \in Nat
    /\ MaxLost \in Nat

VARIABLES
    region,     \* the region, fixed at construction
    plan,       \* the region's channel plan
    conf,       \* Mac.configuration
    state,      \* Mac.state
    pending,    \* Uplink.pending: how many answers of each kind
    loop,       \* handle_downlink_macs: its local variables while it runs
    fault,      \* the panic that ended the program, if any
    asked,      \* history: LinkADRReq commands of the last downlink
    eroded,     \* history: channels or rate changed since the mask was accepted
    maskHere    \* history: a mask was installed since the last join request

vars == <<region, plan, conf, state, pending, loop, fault, asked, eroded, maskHere>>

-----------------------------------------------------------------------------
(* uplink/mod.rs                                                           *)

\* Bytes of an answer, its CID included.
AnswerLen == [DevStatusAns |-> 3, LinkADRAns |-> 2, NewChannelAns |-> 2,
              DlChannelAns |-> 2, RXParamSetupAns |-> 2, RXTimingSetupAns |-> 1]

Answers == DOMAIN AnswerLen
Sticky == {"DlChannelAns", "RXParamSetupAns", "RXTimingSetupAns"}

NoAnswers == [a \in Answers |-> 0]

PendingLen(q) ==
    LET bytes(a) == q[a] * AnswerLen[a]
    IN  bytes("DevStatusAns") + bytes("LinkADRAns") + bytes("NewChannelAns")
        + bytes("DlChannelAns") + bytes("RXParamSetupAns") + bytes("RXTimingSetupAns")

\* Mutant: the CID is not counted.
RoomForPayload(q, a) == PendingLen(q) + AnswerLen[a] - 1 <= FoptsMaxLen

RoomFor(q, a) == PendingLen(q) + (AnswerLen[a] - 1) < FoptsMaxLen

AddMacCommand(q, a) == IF RoomFor(q, a) THEN [q EXCEPT ![a] = @ + 1] ELSE q

\* The answers are added one by one; the room only shrinks.
AddMacCommands(q, a, n) ==
    LET fit == (FoptsMaxLen - PendingLen(q)) \div AnswerLen[a]
    IN  [q EXCEPT ![a] = @ + IF n < fit THEN n ELSE fit]

RetainSticky(q) == [a \in Answers |-> IF a \in Sticky THEN q[a] ELSE 0]

-----------------------------------------------------------------------------
(* State.                                                                  *)

\* `left` is what remains of the bound.
NotRunning(left) == [running |-> FALSE, peek |-> "end", left |-> left, mask |-> {},
                     num_adrreq |-> 0, frm |-> FALSE]

\* What the loop sees of the next command.
Peeks == {"adr", "other", "end"}

Loop == [running : BOOLEAN, peek : Peeks, left : 0 .. MaxCmds, mask : SUBSET Channels,
         num_adrreq : Nat, frm : BOOLEAN]

Fault(what) ==
    /\ fault' = what
    /\ UNCHANGED <<region, plan, conf, state, pending, asked, eroded, maskHere, loop>>

Alive == fault = "none"
Idle == Alive /\ ~loop.running

Conf == [data_rate : 0 .. 15, tx_power : Int, rx1_delay : 1 .. 15, rx1_dr_offset : 0 .. 7,
         rx2_data_rate : 0 .. NumDatarates, rx2_frequency : Nat]

InitConf == [data_rate |-> DefaultDatarate, tx_power |-> NoPower, rx1_delay |-> 1,
             rx1_dr_offset |-> 0, rx2_data_rate |-> NumDatarates, rx2_frequency |-> NoFreq]

Init ==
    /\ region \in RegionsUsed
    /\ \E b \in Biases :
        /\ ~HasFixedChannelPlan(region) => b = <<0, 0>>
        /\ plan = NewPlan(region, b[1], b[2])
    /\ conf = InitConf
    /\ state = "Unjoined"
    /\ pending = NoAnswers
    /\ loop = NotRunning(MaxCmds)
    /\ fault = "none"
    /\ asked = 0
    /\ eroded = FALSE
    /\ maskHere = FALSE

-----------------------------------------------------------------------------
(* Joining.                                                                *)

\* Mac::join_otaa
JoinOtaa ==
    /\ Idle
    /\ plan.join.num_retries < MaxJoins
    /\ \E o \in SelectJoinChannel(region, plan, conf.data_rate) : plan' = o.plan
    /\ state' = "Otaa"
    /\ maskHere' = FALSE
    /\ UNCHANGED <<region, conf, pending, loop, fault, asked, eroded>>

\* Frequencies the network may name: none, a valid and an invalid one.
Freqs == {NoFreq, Rx2Frequency(region), RegionParameters(region).range[2] + 100}

\* Otaa::handle_rx up to the RX2 data rate; the CFList is of either type.
JoinAccepted(cfplan, installed, delay, offset, rx2) ==
    /\ plan' = cfplan
    /\ maskHere' = installed
    /\ eroded' = (eroded \/ cfplan # plan)
    /\ conf' = [conf EXCEPT
            !.rx1_delay = delay,
            !.rx1_dr_offset = IF Rx1DrOffsetValid(region, offset) THEN offset ELSE @,
            !.rx2_data_rate = IF Supported(region, rx2) THEN rx2 ELSE @]
    /\ state' = "Joined"
    /\ pending' = NoAnswers
    /\ asked' = 0
    /\ UNCHANGED <<region, loop, fault>>

\* The plans a CFList, or its absence, leaves behind.
CfLists ==
    {[plan |-> plan, installed |-> FALSE]}
    \cup (IF HasFixedChannelPlan(region)
          THEN {[plan |-> FixedCfList(region, plan, m), installed |-> TRUE] : m \in CfMasks}
          ELSE {[plan |-> DynamicCfList(region, plan, fs), installed |-> FALSE] :
                    fs \in [1 .. CfListLen -> Freqs]})

JoinAccept ==
    /\ Idle
    /\ state = "Otaa"
    /\ plan.join.num_retries <= MaxLost
    /\ \E cf \in CfLists, delay \in Delays, offset \in Offsets, rx2 \in Rx2Rates :
        IF IndexPanics(rx2)
        THEN Fault("join_rate")
        ELSE JoinAccepted(cf.plan, cf.installed, delay, offset, rx2)

-----------------------------------------------------------------------------
(* Uplinks.                                                                *)

\* Session::prepare_buffer and Mac::send; the draw of the channel ends.
Send ==
    /\ Idle
    /\ state = "Joined"
    /\ \E o \in SelectDataChannel(region, plan, conf.data_rate) : plan' = o.plan
    /\ pending' = RetainSticky(pending)
    /\ asked' = 0
    /\ UNCHANGED <<region, conf, state, loop, fault, eroded, maskHere>>

\* ... or goes on forever.
SendSpins ==
    /\ Idle
    /\ state = "Joined"
    /\ SelectDataChannel(region, plan, conf.data_rate) = {}
    /\ fault' = "spin"
    /\ UNCHANGED <<region, plan, conf, state, pending, loop, asked, eroded, maskHere>>

\* A change of the rate may leave a fixed plan without a channel for it.
ChangeRate(dr) ==
    /\ conf' = [conf EXCEPT !.data_rate = dr]
    /\ eroded' = (eroded \/ HasFixedChannelPlan(region))
    /\ UNCHANGED <<region, plan, state, pending, loop, fault, asked, maskHere>>

\* Device::set_datarate.  The ADR backoff of Session::rx2_complete is such a
\* change too, to the next lower supported rate.
SetDatarate ==
    /\ Idle
    /\ \E dr \in AppRates : Supported(region, dr) /\ ChangeRate(dr)

-----------------------------------------------------------------------------
(* handle_downlink_macs.                                                   *)

NextPeek(n) == IF n = 0 THEN {"end"} ELSE Peeks

\* A class A downlink with a valid MIC: the queue is cleared, the loop starts
\* with a copy of the mask.
Downlink ==
    /\ Idle
    /\ state = "Joined"
    /\ loop.left > 0
    /\ \E p \in Peeks, frm \in BOOLEAN :
        loop' = [loop EXCEPT !.running = TRUE, !.peek = p, !.mask = plan.mask, !.frm = frm]
    /\ pending' = NoAnswers
    /\ asked' = 0
    /\ UNCHANGED <<region, plan, conf, state, fault, eroded, maskHere>>

Handling(kind) == Alive /\ loop.running /\ loop.peek = kind /\ loop.left > 0

\* FOpts is done: the commands of a port 0 FRMPayload, if any, are next.
StreamEnds ==
    /\ Alive
    /\ loop.running
    /\ loop.peek = "end"
    /\ IF loop.frm
       THEN \E p \in NextPeek(loop.left) :
                loop' = [loop EXCEPT !.peek = p, !.frm = FALSE, !.mask = plan.mask,
                                     !.num_adrreq = 0]
       ELSE loop' = NotRunning(loop.left)
    /\ UNCHANGED <<region, plan, conf, state, pending, fault, asked, eroded, maskHere>>

\* The next command, when `adr` requests of the block were handled.
Advance(peek, mask, adr) ==
    loop' = [loop EXCEPT !.peek = peek, !.left = @ - 1, !.mask = mask, !.num_adrreq = adr]

\* Mutant: DR15 is looked up like the others.
RateAskedLiteral(current, dr) == dr

RateAsked(current, dr) == IF dr = 15 THEN current ELSE dr

PowerAsked(pw) == IF pw = 15 THEN conf.tx_power ELSE TxPowerAdjust(region, pw)
PowerOk(pw) == pw = 15 \/ TxPowerAdjust(region, pw) # NoPower

\* A request that others follow only changes the loop's mask.
LinkAdrContinues(mask) ==
    /\ Advance("adr", mask, loop.num_adrreq + 1)
    /\ asked' = asked + 1
    /\ UNCHANGED <<region, plan, conf, state, pending, fault, eroded, maskHere>>

\* Mutant: the count of the block's requests is not reset.
BlockEndsNoReset(peek, mask) == Advance(peek, mask, loop.num_adrreq + 1)

BlockEnds(peek, mask) == Advance(peek, mask, 0)

\* The last request of a block decides for all of it.
LinkAdrDecides(req, mask, peek) ==
    LET dr == RateAsked(conf.data_rate, req.dr)
        cm_ack == ChannelMaskValidate(region, plan, mask, dr)
        accepted == cm_ack /\ Supported(region, dr) /\ PowerOk(req.pw)
    IN  IF IndexPanics(dr)
        THEN Fault("rate")
        ELSE /\ conf' = IF accepted
                        THEN [conf EXCEPT !.data_rate = dr, !.tx_power = PowerAsked(req.pw)]
                        ELSE conf
             /\ plan' = IF accepted THEN ChannelMaskSet(region, plan, mask) ELSE plan
             /\ eroded' = (eroded /\ ~accepted)
             /\ maskHere' = (maskHere \/ accepted)
             /\ pending' = AddMacCommands(pending, "LinkADRAns", loop.num_adrreq + 1)
             /\ asked' = asked + 1
             /\ BlockEnds(peek, mask)
             /\ UNCHANGED <<region, state, fault>>

LinkADRReq ==
    /\ Handling("adr")
    /\ \E req \in LinkAdrReqs, peek \in NextPeek(loop.left - 1) :
        LET mask == ChannelMaskUpdate(region, loop.mask, req.ctl, req.bits)
        IN  CASE UpdatePanics(req.ctl) -> Fault("bank")
              [] ~UpdatePanics(req.ctl) /\ peek = "adr" -> LinkAdrContinues(mask)
              [] OTHER -> LinkAdrDecides(req, mask, peek)

\* The commands below are handled one by one.
Next1(peek) == Advance(peek, loop.mask, loop.num_adrreq)

\* Answered, with nothing else changed but what the handler says.
Answered(answer, peek) ==
    /\ pending' = AddMacCommand(pending, answer)
    /\ Next1(peek)
    /\ UNCHANGED <<region, state, asked, fault, maskHere>>

DevStatusReq ==
    /\ Handling("other")
    /\ \E peek \in NextPeek(loop.left - 1) : Answered("DevStatusAns", peek)
    /\ UNCHANGED <<plan, conf, eroded>>

\* LinkCheckAns, and the commands the device does not know.
IgnoredCommand ==
    /\ Handling("other")
    /\ \E peek \in NextPeek(loop.left - 1) : Next1(peek)
    /\ UNCHANGED <<region, plan, conf, state, pending, fault, asked, eroded, maskHere>>

DlChannelReq ==
    /\ Handling("other")
    /\ ~HasFixedChannelPlan(region)
    /\ \E i \in ChannelIndices, f \in Freqs, peek \in NextPeek(loop.left - 1) :
        /\ plan' = ChannelDlUpdate(region, plan, i, f).plan
        /\ Answered("DlChannelAns", peek)
    /\ UNCHANGED <<conf, eroded>>

NewChannelReq ==
    /\ Handling("other")
    /\ ~HasFixedChannelPlan(region)
    /\ \E i \in ChannelIndices, f \in Freqs, range \in RateRanges,
          peek \in NextPeek(loop.left - 1) :
        IF Writable(region, i) /\ i \notin Index
        THEN Fault("index")
        ELSE /\ plan' = HandleNewChannel(region, plan, i, f, range).plan
             /\ eroded' = (eroded \/ (Writable(region, i) /\ f = NoFreq))
             /\ Answered("NewChannelAns", peek)
             /\ UNCHANGED conf

\* Mutant: the frequency is taken without asking the region.
Rx2FrequencyAny(r, f) == TRUE

Rx2FrequencyAck(r, f) == FrequencyValid(r, f)

RXParamSetupReq ==
    /\ Handling("other")
    /\ \E f \in Freqs, offset \in Offsets, rx2 \in Rx2Rates, peek \in NextPeek(loop.left - 1) :
        LET dr == IF rx2 = 15 THEN conf.rx2_data_rate ELSE rx2
            dr_ok == rx2 = 15 \/ Supported(region, rx2)
        IN  /\ conf' = IF Rx2FrequencyAck(region, f) /\ dr_ok /\ Rx1DrOffsetValid(region, offset)
                       THEN [conf EXCEPT !.rx2_data_rate = dr, !.rx2_frequency = f,
                                         !.rx1_dr_offset = offset]
                       ELSE conf
            /\ Answered("RXParamSetupAns", peek)
    /\ UNCHANGED <<plan, eroded>>

RXTimingSetupReq ==
    /\ Handling("other")
    /\ \E delay \in Delays, peek \in NextPeek(loop.left - 1) :
        /\ conf' = [conf EXCEPT !.rx1_delay = delay]
        /\ Answered("RXTimingSetupAns", peek)
    /\ UNCHANGED <<plan, eroded>>

Halted == ~Alive /\ UNCHANGED vars

Next ==
    \/ JoinOtaa \/ JoinAccept
    \/ Send \/ SendSpins \/ SetDatarate
    \/ Downlink \/ StreamEnds
    \/ LinkADRReq \/ DevStatusReq \/ IgnoredCommand \/ DlChannelReq \/ NewChannelReq
    \/ RXParamSetupReq \/ RXTimingSetupReq
    \/ Halted

Spec == Init /\ [][Next]_vars

-----------------------------------------------------------------------------
(* Properties.                                                             *)

\* The variables keep their types; among them, the queue never outgrows FOpts,
\* so that the push and the extend of add_mac_command succeed together, and a
\* mask never names a channel the plan does not have.
TypeOK ==
    /\ region \in RegionsUsed
    /\ plan \in Plan
    /\ conf \in Conf
    /\ state \in {"Unjoined", "Otaa", "Joined"}
    /\ pending \in [Answers -> Nat]
    /\ PendingLen(pending) <= FoptsMaxLen
    /\ loop \in Loop
    /\ fault \in {"none", "bank", "index", "rate", "join_rate", "spin"}
    /\ asked \in 0 .. MaxCmds
    /\ eroded \in BOOLEAN
    /\ maskHere \in BOOLEAN

\* Every LinkADRReq of a downlink has its LinkADRAns, over any grouping into
\* blocks and both carriers, unless the queue has no room for one more.
AdrAnswered ==
    ~loop.running =>
        \/ pending["LinkADRAns"] = asked
        \/ /\ pending["LinkADRAns"] < asked
           /\ ~RoomFor(pending, "LinkADRAns")

\* The join channels of a dynamic plan outlive every NewChannelReq and every
\* CFList: get_random_in_range and a join request unwrap them.
JoinChannelsKept ==
    ~HasFixedChannelPlan(region) =>
        \A i \in 0 .. NumJoin(region) - 1 :
            plan.channels[i].freq = JoinFrequencies(region)[i + 1]

\* The draw of a channel for a data frame ends as long as nothing was taken
\* away since the network's mask was accepted: no channel deleted, no CFList
\* and, in a fixed plan, no change of the data rate.
DrawEnds == state = "Joined" /\ ~eroded => SelectDataChannel(region, plan, conf.data_rate) # {}

\* Once the network installed a mask in this session, by CFList or LinkADRReq,
\* every data frame goes out on a channel it enables, of the bandwidth of the
\* data rate, whatever join bias was set before.
MaskObeyed ==
    state = "Joined" /\ maskHere =>
        \A o \in SelectDataChannel(region, plan, conf.data_rate) :
            /\ o.ch \in plan.mask
            /\ HasFixedChannelPlan(region) =>
                (o.ch \in Wide <=> GetDatarate(region, o.dr).bw = 500)

\* The rotation of the join requests uses up the banks evenly, so the bank it
\* draws in always has a channel left, biased start or not.
JoinBalanced ==
    /\ \A a, b \in 0 .. Banks :
        Cardinality(plan.join.data \cap Bank(a)) <= Cardinality(plan.join.data \cap Bank(b)) + 1
    /\ GetNextChannel(plan.join) # {}

\* No index leaves its array and no fixed plan is asked to change a channel:
\* the panics left are bank 9 of ChMaskCntl 4, DR15 in a join accept, and the
\* draw that never ends.
OnlyKnownPanics == fault \in {"none", "bank", "join_rate", "spin"}

\* Whatever commands and join accepts arrive, the configuration can be used:
\* its rates exist, its RX2 frequency is valid, and both windows of the next
\* uplink get a data rate without a panic.
ConfigurationUsable ==
    LET w == RxWindows(region, conf.data_rate, conf.rx1_dr_offset, conf.rx2_data_rate)
    IN  /\ Supported(region, conf.data_rate)
        /\ conf.rx2_data_rate # NumDatarates => Supported(region, conf.rx2_data_rate)
        /\ conf.rx2_frequency # NoFreq => FrequencyValid(region, conf.rx2_frequency)
        /\ Rx1DrOffsetValid(region, conf.rx1_dr_offset)
        /\ Supported(region, w.rx1) /\ Supported(region, w.rx2)
=============================================================================
