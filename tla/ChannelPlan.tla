----------------------------- MODULE ChannelPlan -----------------------------
(***************************************************************************)
(* The channel plan of a region: region/dynamic_channel_plans/mod.rs,      *)
(* region/fixed_channel_plans/mod.rs and its join_channels.rs, over the    *)
(* ChannelMask of lorawan-encoding/src/types.rs.                           *)
(*                                                                         *)
(* A plan is a value and each method an operator from plans to plans.      *)
(* Random draws give a set of outcomes: a method that keeps drawing until  *)
(* the draw fits has the empty set of outcomes when nothing fits, and      *)
(* never returns.  The mask of N banks of eight channels is scaled: the    *)
(* code has BankSize = 8, Banks = 8.                                       *)
(***************************************************************************)
EXTENDS Regions, FiniteSets

CONSTANTS
    BankSize,     \* channels in a bank
    Banks,        \* banks of 125 kHz channels; one bank of 500 kHz follows
    CfListLen     \* frequencies in a type 0 CFList (5)

ASSUME ChannelPlanAssumption ==
    /\ BankSize \in Nat \ {0}
    /\ Banks \in Nat \ {0}
    /\ Banks % 2 = 0
    /\ Banks <= BankSize      \* bank i pairs with 500 kHz channel i
    /\ CfListLen \in Nat

Bank(i) == i * BankSize .. (i + 1) * BankSize - 1
Narrow == 0 .. Banks * BankSize - 1      \* 0 ..= 63
Wide == Bank(Banks)                      \* 64 ..= 71
Channels == Narrow \cup Wide
NumChannels == (Banks + 1) * BankSize
NumDynamic == 2 * BankSize               \* NUM_CHANNELS_DYNAMIC
Index == 0 .. NumDynamic - 1

NoChannel == -1
NoFreq == 0
NoDl == -1

-----------------------------------------------------------------------------
(* ChannelMask: the set of the enabled channels.                           *)

\* set_bank with a byte, the set of its bits.
SetBank(mask, bank, bits) ==
    (mask \ Bank(bank)) \cup {bank * BankSize + b : b \in bits}

Byte == 0 .. BankSize - 1
LowByte(bits) == bits \cap Byte
HighByte(bits) == {b \in Byte : b + BankSize \in bits}

-----------------------------------------------------------------------------
(* join_channels.rs.  `data` and `previous` are the AvailableChannels.     *)

JoinChannels == [
    max_retries : Nat, num_retries : Nat, subband : 0 .. Banks,
    data : SUBSET Channels, previous : Channels \cup {NoChannel},
    previous_channel : Channels]

NewJoinChannels(subband, max_retries) == [
    max_retries |-> max_retries, num_retries |-> 0, subband |-> subband,
    data |-> Channels, previous |-> NoChannel, previous_channel |-> 0]

HasBias(j) == j.subband # 0

HasBiasAndNotExhausted(j) ==
    HasBias(j) /\ j.num_retries < j.max_retries /\ j.num_retries # 0

ClearJoinBias(j) == [j EXCEPT !.subband = 0, !.max_retries = 0]

ResetJoin(j) == [j EXCEPT !.num_retries = 0, !.data = Channels, !.previous = NoChannel]

\* Mutant: the rotation skips the 500 kHz bank.
NextInBankNarrow(previous) == (previous + BankSize) % (Banks * BankSize)

NextInBank(previous) == (previous + BankSize) % NumChannels

\* AvailableChannels::get_next: the channels it may return.
Candidates(data, previous) ==
    LET next == NextInBank(previous)
    IN  CASE previous = NoChannel -> Narrow
          [] previous # NoChannel /\ next \in data -> {next}
          [] OTHER -> data \cap Bank(next \div BankSize)

GetNextAvailable(j) ==
    LET fresh == j.data = {}
        data == IF fresh THEN Channels ELSE j.data
        previous == IF fresh THEN NoChannel ELSE j.previous
    IN  {[ch |-> c, join |-> [j EXCEPT !.num_retries = @ + 1, !.data = data \ {c},
                                       !.previous = c]] :
            c \in Candidates(data, previous)}

\* Biased attempts; the last one starts the standard rotation.
GetNextPreferred(j) ==
    LET last == j.num_retries + 1 = j.max_retries
    IN  {[ch |-> c,
          join |-> [j EXCEPT !.num_retries = @ + 1, !.previous_channel = c,
                             !.data = IF last THEN @ \ {c} ELSE @,
                             !.previous = IF last THEN c ELSE @]] :
            c \in Bank(j.subband - 1)}

GetNextChannel(j) ==
    IF HasBias(j) /\ j.num_retries < j.max_retries
    THEN GetNextPreferred(j)
    ELSE GetNextAvailable(j)

\* Some of first_data_channel, whose condition is HasFirstDataChannel.
HasFirstDataChannel(j) == HasBias(j) /\ j.num_retries # 0

FirstDataChannel(j) ==
    LET sb == IF j.previous_channel \in Narrow
              THEN j.previous_channel \div BankSize
              ELSE j.previous_channel % BankSize
    IN  {[ch |-> c, join |-> ClearJoinBias(j)] : c \in Bank(sb)}

-----------------------------------------------------------------------------
(* Plans.  A fixed plan has no table of channels, a dynamic plan no join   *)
(* rotation; the unused field keeps its initial value.                     *)

Plan == [
    channels : [Index -> [freq : Int, dl : Int]],   \* NoFreq: no such channel
    mask : SUBSET Channels,
    join : JoinChannels]

NumJoin(r) == Len(JoinFrequencies(r))

Channel(freq) == [freq |-> freq, dl |-> NoDl]
NoneChannel == Channel(NoFreq)

InitChannels(r) ==
    [i \in Index |-> IF ~HasFixedChannelPlan(r) /\ i < NumJoin(r)
                     THEN Channel(JoinFrequencies(r)[i + 1]) ELSE NoneChannel]

NewPlan(r, subband, max_retries) == [
    channels |-> InitChannels(r), mask |-> Channels,
    join |-> NewJoinChannels(subband, max_retries)]

Exists(plan, i) == plan.channels[i].freq # NoFreq

\* Mutant: a new mask leaves the join rotation and its bias counting.
ChannelMaskSetOnly(r, plan, mask) == [plan EXCEPT !.mask = mask]

ChannelMaskSet(r, plan, mask) ==
    IF HasFixedChannelPlan(r)
    THEN [plan EXCEPT !.mask = mask, !.join = ResetJoin(@)]
    ELSE [plan EXCEPT !.mask = mask]

\* Mutant: the CFList starts at channel 0.
DynamicCfListAtZero(r, plan, freqs) ==
    [plan EXCEPT !.channels =
        [i \in Index |-> IF i < CfListLen THEN Channel(freqs[i + 1]) ELSE @[i]]]

\* process_join_accept, type 0: channels J to J + 4, 0 for an unused one.
DynamicCfList(r, plan, freqs) ==
    [plan EXCEPT !.channels =
        [i \in Index |-> IF i >= NumJoin(r) /\ i < NumJoin(r) + CfListLen
                         THEN Channel(freqs[i - NumJoin(r) + 1])
                         ELSE @[i]]]

FixedCfList(r, plan, mask) == ChannelMaskSet(r, plan, mask)

\* ChMaskCntl, scaled with the number of banks: 0 ..= 4 name pairs of banks.
CtlPair == 0 .. Banks \div 2
CtlBlocks == Banks \div 2 + 1     \* 5
CtlAllOn == Banks \div 2 + 2      \* 6
CtlAllOff == Banks \div 2 + 3     \* 7

\* Mutant: the bank is written without a bounds check.
UpdateUnchecked(ctl) == FALSE

\* set_bank beyond the last bank indexes past the array.
UpdatePanics(ctl) == ctl \in CtlPair /\ 2 * ctl + 1 > Banks

UpdatePair(mask, ctl, bits) ==
    SetBank(SetBank(mask, 2 * ctl, LowByte(bits)), 2 * ctl + 1, HighByte(bits))

Set125kChannels(enabled, bits) ==
    SetBank(IF enabled THEN Narrow ELSE {}, Banks, LowByte(bits))

FixedMaskUpdate(mask, ctl, bits) ==
    CASE ctl \in CtlPair -> UpdatePair(mask, ctl, bits)
      [] ctl = CtlBlocks ->
            (UNION {Bank(i) : i \in LowByte(bits) \cap 0 .. Banks - 1})
            \cup {Banks * BankSize + b : b \in LowByte(bits)}
      [] ctl = CtlAllOn -> Set125kChannels(TRUE, bits)
      [] ctl = CtlAllOff -> Set125kChannels(FALSE, bits)

\* ((ch_mask & (1 << i)) * 0xFF) as u8 keeps the bits from i upward.
DynamicMaskUpdate(mask, ctl, bits) ==
    CASE ctl \in CtlPair -> UpdatePair(mask, ctl, bits)
      [] ctl = CtlBlocks ->
            {c \in Channels : LET i == c \div BankSize
                              IN  i \in bits /\ c % BankSize >= i}
      [] ctl = CtlAllOn -> mask \cup Narrow
      [] ctl = CtlAllOff -> mask      \* RFU

ChannelMaskUpdate(r, mask, ctl, bits) ==
    IF HasFixedChannelPlan(r)
    THEN FixedMaskUpdate(mask, ctl, bits)
    ELSE DynamicMaskUpdate(mask, ctl, bits)

\* Mutant: a mask is valid as soon as it enables something.
MaskNonEmpty(r, plan, mask, dr) == mask # {}

\* channel_mask_validate; `dr` is NumDatarates for None.
ChannelMaskValidate(r, plan, mask, dr) ==
    IF ~HasFixedChannelPlan(r)
    THEN \E i \in Index : i \in mask /\ Exists(plan, i)
    ELSE /\ Supported(r, dr)
         /\ CASE GetDatarate(r, dr).bw = 500 -> Wide \cap mask # {}
              [] GetDatarate(r, dr).bw = 125 -> Cardinality(Narrow \cap mask) >= 2
              [] OTHER -> TRUE

-----------------------------------------------------------------------------
(* NewChannelReq and DlChannelReq.  Each returns the plan and two acks.    *)

Acks(plan, first, second) == [plan |-> plan, acks |-> <<first, second>>]

ChannelDlUpdate(r, plan, index, freq) ==
    LET ok == FrequencyValid(r, freq)
        dl == IF freq = plan.channels[index].freq THEN NoDl ELSE freq
    IN  IF index \in Index /\ index \in plan.mask /\ Exists(plan, index)
        THEN Acks([plan EXCEPT !.channels[index].dl = dl], ok, TRUE)
        ELSE Acks(plan, ok, FALSE)

\* Mutant: the index is not checked against the size of the plan.
WritableUnbounded(r, index) == index >= NumJoin(r)

Writable(r, index) == index \in Index /\ index >= NumJoin(r)

\* The table of rates has no entry for DR15.
RangeSupported(r, range) ==
    range[2] < NumDatarates /\ \A d \in range[1] .. range[2] : Supported(r, d)

\* `range` is <<min, max>>; DataRateRange::new refuses min > max.
HandleNewChannel(r, plan, index, freq, range) ==
    LET freq_valid == FrequencyValid(r, freq)
        dr_ok == range[1] <= range[2] /\ RangeSupported(r, range)
    IN  CASE ~Writable(r, index) -> Acks(plan, FALSE, FALSE)
          [] Writable(r, index) /\ freq = NoFreq ->
                Acks([plan EXCEPT !.channels[index] = NoneChannel, !.mask = @ \ {index}],
                     TRUE, TRUE)
          [] OTHER ->
                Acks(IF freq_valid /\ dr_ok
                     THEN [plan EXCEPT !.channels[index] = Channel(freq),
                                       !.mask = @ \cup {index}]
                     ELSE plan,
                     freq_valid, dr_ok)

-----------------------------------------------------------------------------
(* select_tx_channel: the outcomes for a join request and a data frame.    *)

Outcome(plan, ch, dr) == [plan |-> plan, ch |-> ch, dr |-> dr]

\* Fixed plans force the rate of the join channels.
JoinRate(ch) == IF ch \in Narrow THEN 0 ELSE 4

FromRotation(plan, draws) ==
    {Outcome([plan EXCEPT !.join = d.join], d.ch, JoinRate(d.ch)) : d \in draws}

\* get_random_in_range masks whole banks up to the last channel of the plan.
Drawable(plan) ==
    IF \E i \in Bank(1) : Exists(plan, i) THEN Index ELSE Bank(0)

SelectJoinChannel(r, plan, dr) ==
    IF HasFixedChannelPlan(r)
    THEN FromRotation(plan, GetNextChannel(plan.join))
    ELSE {Outcome(plan, i, dr) : i \in 0 .. NumJoin(r) - 1}

SelectFixedDataChannel(r, plan, dr) ==
    CASE HasBiasAndNotExhausted(plan.join) -> FromRotation(plan, GetNextChannel(plan.join))
      [] ~HasBiasAndNotExhausted(plan.join) /\ HasFirstDataChannel(plan.join) ->
            {Outcome([plan EXCEPT !.join = d.join], d.ch, dr) : d \in FirstDataChannel(plan.join)}
      [] OTHER ->
            {Outcome(plan, c, dr) :
                c \in plan.mask \cap (IF GetDatarate(r, dr).bw = 500 THEN Wide ELSE Narrow)}

SelectDataChannel(r, plan, dr) ==
    IF HasFixedChannelPlan(r)
    THEN SelectFixedDataChannel(r, plan, dr)
    ELSE {Outcome(plan, i, dr) : i \in {k \in Drawable(plan) \cap plan.mask : Exists(plan, k)}}
=============================================================================
