-------------------------- MODULE MacCommandsProofs --------------------------
(***************************************************************************)
(* Proofs about MacCommands, for every set of regions, every stream of     *)
(* commands and every size of the channel plan.                            *)
(*                                                                         *)
(* The inductive invariant adds to the properties what the loop over a     *)
(* stream and the rotation of the join channels keep: the requests counted *)
(* and not yet answered, the retries that a new mask cleared, the mask     *)
(* that was valid when it was accepted, and the round of the rotation.     *)
(***************************************************************************)
EXTENDS MacCommands, FiniteSetTheorems, TLAPS

-----------------------------------------------------------------------------
(* The inductive invariant.                                                *)

\* The requests of a block that is not over are counted and not yet answered.
AdrCounted ==
    /\ \/ pending["LinkADRAns"] + loop.num_adrreq = asked
       \/ /\ pending["LinkADRAns"] + loop.num_adrreq < asked
          /\ ~RoomFor(pending, "LinkADRAns")
    /\ loop.peek # "adr" => loop.num_adrreq = 0
    /\ ~loop.running => loop.num_adrreq = 0

\* The loop over a stream and the queue it fills.
Stream ==
    /\ pending \in [Answers -> Nat]
    /\ PendingLen(pending) <= FoptsMaxLen
    /\ loop \in Loop
    /\ asked \in Nat
    /\ asked + loop.left <= MaxCmds      \* every command uses up the bound
    /\ AdrCounted

\* Banks in the order of the rotation that started in bank `start`.
Turn(start, b) == IF start <= b THEN b - start ELSE b - start + Banks + 1

\* `rounds` full rounds, and one that has come to the bank of `previous`.
InRound(j, start, rounds, at) ==
    /\ j.previous \in Bank(at)
    /\ \A b \in 0 .. Banks :
        Cardinality(j.data \cap Bank(b)) =
            BankSize - rounds - (IF Turn(start, b) <= Turn(start, at) THEN 1 ELSE 0)

\* The rotation has not started, or the banks are used up in turn; the biased
\* attempts come before it starts.
Rotation(j) ==
    \/ j.data = Channels /\ j.previous = NoChannel
    \/ /\ ~(HasBias(j) /\ j.num_retries < j.max_retries)
       /\ \E start, at \in 0 .. Banks, rounds \in 0 .. BankSize - 1 :
            InRound(j, start, rounds, at)

PlanSound(r, p) ==
    /\ p \in Plan
    /\ Rotation(p.join)
    /\ ~HasFixedChannelPlan(r) =>
        \A i \in 0 .. NumJoin(r) - 1 : p.channels[i].freq = JoinFrequencies(r)[i + 1]

ConfSound(r, c) ==
    /\ c \in Conf
    /\ Supported(r, c.data_rate)
    /\ c.rx2_data_rate # NumDatarates => Supported(r, c.rx2_data_rate)
    /\ c.rx2_frequency # NoFreq => FrequencyValid(r, c.rx2_frequency)
    /\ Rx1DrOffsetValid(r, c.rx1_dr_offset)

\* The mask enables a channel for the data rate.
MaskServes(r, p, dr) ==
    IF HasFixedChannelPlan(r)
    THEN p.mask \cap (IF GetDatarate(r, dr).bw = 500 THEN Wide ELSE Narrow) # {}
    ELSE \E i \in Index : i \in p.mask /\ Exists(p, i)

\* A mask cleared the retries that the join bias goes by, and it served the
\* data rate when it was accepted.
Settings ==
    /\ region \in RegionsUsed
    /\ PlanSound(region, plan)
    /\ ConfSound(region, conf)
    /\ eroded \in BOOLEAN
    /\ maskHere \in BOOLEAN
    /\ maskHere /\ HasFixedChannelPlan(region) => plan.join.num_retries = 0
    /\ ~eroded => MaskServes(region, plan, conf.data_rate)

Control ==
    /\ state \in {"Unjoined", "Otaa", "Joined"}
    /\ OnlyKnownPanics

IInv == Stream /\ Settings /\ Control

-----------------------------------------------------------------------------
(* The banks of the channel mask.                                          *)

\* Multiplication by the size of a bank keeps the order.
LEMMA TimesMonotone ==
    ASSUME NEW a \in Nat, NEW b \in Nat, NEW c \in Nat, a <= b
    PROVE  a * c <= b * c /\ a * c \in Nat
  BY SMT

\* The sizes of the channel mask.
LEMMA BanksType == BankSize \in Nat \ {0} /\ Banks \in Nat \ {0} /\ Banks <= BankSize
  BY ChannelPlanAssumption

\* The constants of ChannelPlan, in linear form: W channels of 125 kHz.
LEMMA Layout ==
    /\ Banks * BankSize \in Nat
    /\ Banks * BankSize >= BankSize
    /\ (Banks + 1) * BankSize = Banks * BankSize + BankSize
    /\ Narrow = 0 .. Banks * BankSize - 1
    /\ Wide = Banks * BankSize .. Banks * BankSize + BankSize - 1
    /\ Channels = 0 .. Banks * BankSize + BankSize - 1
    /\ NumChannels = Banks * BankSize + BankSize
    /\ Narrow \cap Wide = {}
    /\ Narrow # {}
  <1>1. Banks * BankSize \in Nat /\ 1 * BankSize <= Banks * BankSize
    BY BanksType, TimesMonotone
  <1>2. (Banks + 1) * BankSize = Banks * BankSize + BankSize
    BY BanksType
  <1>3. Wide = Banks * BankSize .. Banks * BankSize + BankSize - 1
    <2> DEFINE X == (Banks + 1) * BankSize
    <2>1. Wide = Banks * BankSize .. X - 1
      BY DEF Wide, Bank
    <2>2. X = Banks * BankSize + BankSize
      BY <1>2
    <2> HIDE DEF X
    <2> QED
      BY <2>1, <2>2, <1>1, BanksType
  <1> DEFINE W == Banks * BankSize
  <1>4. W \in Nat /\ W >= BankSize
    BY <1>1, BanksType
  <1>5. Narrow = 0 .. W - 1 /\ Wide = W .. W + BankSize - 1 /\ NumChannels = W + BankSize
    BY <1>2, <1>3 DEF Narrow, NumChannels
  <1> HIDE DEF W
  <1>6. /\ Channels = 0 .. W + BankSize - 1
        /\ Narrow \cap Wide = {}
        /\ 0 \in Narrow
    BY <1>4, <1>5, BanksType DEF Channels
  <1> QED
    BY <1>1, <1>2, <1>4, <1>5, <1>6 DEF W

\* A bank is an interval of channels that is not empty.
LEMMA BankIsInterval ==
    ASSUME NEW i \in 0 .. Banks
    PROVE  /\ i * BankSize \in Nat
           /\ i * BankSize <= Banks * BankSize
           /\ Bank(i) = i * BankSize .. i * BankSize + BankSize - 1
           /\ Bank(i) \subseteq Channels
           /\ Bank(i) # {}
  <1>1. i * BankSize \in Nat /\ i * BankSize <= Banks * BankSize
    BY BanksType, TimesMonotone
  <1>2. (i + 1) * BankSize = i * BankSize + BankSize
    BY BanksType
  <1>3. Bank(i) = i * BankSize .. i * BankSize + BankSize - 1
    <2> DEFINE X == (i + 1) * BankSize
    <2>1. Bank(i) = i * BankSize .. X - 1
      BY DEF Bank
    <2>2. X = i * BankSize + BankSize
      BY <1>2
    <2> HIDE DEF X
    <2> QED
      BY <2>1, <2>2, <1>1, BanksType
  <1> DEFINE S == i * BankSize
             W == Banks * BankSize
  <1>4. S \in Nat /\ W \in Nat /\ S <= W /\ Bank(i) = S .. S + BankSize - 1
        /\ Channels = 0 .. W + BankSize - 1
    BY <1>1, <1>3, Layout
  <1> HIDE DEF S, W
  <1>5. Bank(i) \subseteq Channels /\ S \in Bank(i)
    BY <1>4, BanksType
  <1> QED
    BY <1>1, <1>3, <1>5

\* Two banks share no channel.
LEMMA BanksDisjoint ==
    ASSUME NEW i \in 0 .. Banks, NEW k \in 0 .. Banks, i # k
    PROVE  Bank(i) \cap Bank(k) = {}
  <1>1. \A a, b \in 0 .. Banks : a < b => Bank(a) \cap Bank(b) = {}
    <2> SUFFICES ASSUME NEW a \in 0 .. Banks, NEW b \in 0 .. Banks, a < b
                 PROVE  Bank(a) \cap Bank(b) = {}
      OBVIOUS
    <2>1. (a + 1) * BankSize <= b * BankSize
      BY BanksType, TimesMonotone
    <2>2. (a + 1) * BankSize = a * BankSize + BankSize
      BY BanksType
    <2> DEFINE A == a * BankSize
               B == b * BankSize
    <2>3. /\ A \in Nat /\ B \in Nat /\ A + BankSize <= B
          /\ Bank(a) = A .. A + BankSize - 1
          /\ Bank(b) = B .. B + BankSize - 1
      BY <2>1, <2>2, BankIsInterval
    <2> HIDE DEF A, B
    <2> QED
      BY <2>3, BanksType
  <1>2. CASE i < k
    BY <1>1, <1>2
  <1>3. CASE k < i
    BY <1>1, <1>3
  <1> QED
    BY <1>2, <1>3, BanksType

\* The bank of a channel, and its place in the bank.
LEMMA BankOf ==
    ASSUME NEW i \in 0 .. Banks, NEW o \in 0 .. BankSize - 1
    PROVE  (i * BankSize + o) \div BankSize = i
  BY BanksType

\* Every channel is in a bank.
LEMMA ChannelHasBank ==
    ASSUME NEW c \in Channels
    PROVE  \E i \in 0 .. Banks : c \in Bank(i)
  <1> DEFINE i == c \div BankSize
             W == Banks * BankSize
  <1>1. c \in Nat /\ c <= W + BankSize - 1 /\ W \in Nat
    BY Layout, BanksType
  <1>2. i \in Nat /\ i * BankSize <= c /\ c <= i * BankSize + BankSize - 1
    BY <1>1, BanksType
  <1>3. i <= Banks
    <2> SUFFICES ASSUME i > Banks PROVE FALSE
      BY <1>2, BanksType
    <2>1. (Banks + 1) * BankSize <= i * BankSize
      BY <1>2, BanksType, TimesMonotone
    <2>2. W + BankSize <= i * BankSize /\ i * BankSize \in Nat
      BY <2>1, Layout, <1>2, BanksType, TimesMonotone
    <2> HIDE DEF i, W
    <2> QED
      BY <1>1, <1>2, <2>2, BanksType
  <1>4. i \in 0 .. Banks
    BY <1>2, <1>3, BanksType
  <1> DEFINE S == i * BankSize
  <1>5. S \in Nat /\ S <= c /\ c <= S + BankSize - 1 /\ Bank(i) = S .. S + BankSize - 1
    BY <1>2, <1>4, BankIsInterval
  <1> HIDE DEF i, S
  <1>6. c \in Bank(i)
    BY <1>1, <1>5, BanksType
  <1> QED
    BY <1>4, <1>6

\* The table of a dynamic plan is made of the first two banks.
LEMMA IndexIsTwoBanks ==
    /\ Index = Bank(0) \cup Bank(1)
    /\ Index \subseteq Channels
    /\ Index = 0 .. 2 * BankSize - 1
  <1>1. Bank(0) = 0 .. BankSize - 1 /\ Bank(1) = BankSize .. 2 * BankSize - 1
    BY BanksType DEF Bank
  <1>2. Bank(0) \subseteq Channels /\ Bank(1) \subseteq Channels
    BY BanksType, BankIsInterval
  <1> QED
    BY <1>1, <1>2, BanksType DEF Index, NumDynamic

-----------------------------------------------------------------------------
(* The tables of the regions.                                              *)

\* What the proofs need of a region's data rates.
RatesUsable(r) ==
    /\ Supported(r, DefaultDatarate)
    /\ Supported(r, Rx2Datarate(r))
    /\ \A dr \in Nat : Supported(r, dr) => dr < NumDatarates
    /\ HasFixedChannelPlan(r) =>
        /\ GetDatarate(r, DefaultDatarate).bw = 125
        /\ \A dr \in Nat : Supported(r, dr) => GetDatarate(r, dr).bw \in {125, 500}

\* Each region's table, its default rate and the rate of its second window.
LEMMA RegionTables ==
    /\ Datarates("EU868") = EU868Rates /\ Rx2Datarate("EU868") = 0
    /\ Datarates("EU433") = EU433Rates /\ Rx2Datarate("EU433") = 0
    /\ Datarates("IN865") = IN865Rates /\ Rx2Datarate("IN865") = 2
    /\ Datarates("US915") = US915Rates /\ Rx2Datarate("US915") = 8
    /\ Datarates("AU915") = AU915Rates /\ Rx2Datarate("AU915") = 8
    /\ \A r \in AS923Regions : Datarates(r) = AS923Rates /\ Rx2Datarate(r) = 2
  BY SMT DEF Datarates, AS923Regions, Rx2Datarate, RegionParameters, Parameters,
             EU868Parameters, EU433Parameters, IN865Parameters, US915Parameters,
             AU915Parameters, AS923Parameters

\* The entries that the lookups above find.
LEMMA TableEntries ==
    /\ Len(EU868Rates) = 6 /\ EU868Rates[1] # NoRate
    /\ Len(EU433Rates) = 7 /\ EU433Rates[1] # NoRate
    /\ Len(IN865Rates) = 6 /\ IN865Rates[1] # NoRate /\ IN865Rates[3] # NoRate
    /\ Len(AS923Rates) = 7 /\ AS923Rates[1] # NoRate /\ AS923Rates[3] # NoRate
    /\ Len(US915Rates) = 14 /\ US915Rates[1] # NoRate /\ US915Rates[9] # NoRate
    /\ Len(AU915Rates) = 14 /\ AU915Rates[1] # NoRate /\ AU915Rates[9] # NoRate
  BY SMT DEF EU868Rates, EU433Rates, IN865Rates, AS923Rates, US915Rates, AU915Rates,
             Rate, NoRate

\* A fixed plan has rates of two bandwidths only, and starts at the narrow one.
LEMMA FixedBandwidths ==
    /\ US915Rates[1].bw = 125 /\ AU915Rates[1].bw = 125
    /\ \A i \in 0 .. 13 :
        /\ US915Rates[i + 1] # NoRate => US915Rates[i + 1].bw \in {125, 500}
        /\ AU915Rates[i + 1] # NoRate => AU915Rates[i + 1].bw \in {125, 500}
  BY SMT DEF US915Rates, AU915Rates, Rate, NoRate

\* Every region's rates are usable.
LEMMA RegionRates ==
    ASSUME NEW r \in Region
    PROVE  RatesUsable(r)
  <1> USE DEF RatesUsable, Supported, GetDatarate, NumDatarates, DefaultDatarate,
             HasFixedChannelPlan, FixedRegions, AS923Regions
  <1>1. CASE r \in FixedRegions
    <2>1. Len(Datarates(r)) = 14 /\ Rx2Datarate(r) = 8
      BY <1>1, RegionTables, TableEntries
    <2>2. Datarates(r)[1] # NoRate /\ Datarates(r)[9] # NoRate /\ Datarates(r)[1].bw = 125
      BY <1>1, RegionTables, TableEntries, FixedBandwidths
    <2>3. \A i \in 0 .. 13 :
            Datarates(r)[i + 1] # NoRate => Datarates(r)[i + 1].bw \in {125, 500}
      BY <1>1, RegionTables, FixedBandwidths
    <2>4. \A dr \in Nat : Supported(r, dr) => dr \in 0 .. 13
      BY <2>1, SMT
    <2>5. \A dr \in Nat : Supported(r, dr) => GetDatarate(r, dr).bw \in {125, 500}
      BY <2>1, <2>3, <2>4, SMT
    <2>6. GetDatarate(r, 0) = Datarates(r)[1] /\ GetDatarate(r, 8) = Datarates(r)[9]
      BY <2>1, SMT
    <2>7. Supported(r, 0) /\ Supported(r, Rx2Datarate(r)) /\ GetDatarate(r, 0).bw = 125
      <3> HIDE DEF GetDatarate
      <3> QED
        BY <2>1, <2>2, <2>6
    <2>8. \A dr \in Nat : Supported(r, dr) => dr < 15
      BY <2>4
    <2> QED
      BY <2>5, <2>7, <2>8, Zenon
  <1>2. CASE r \in AS923Regions \cup {"EU433", "EU868", "IN865"}
    <2>1. /\ Len(Datarates(r)) \in {6, 7}
          /\ Rx2Datarate(r) \in {0, 2}
          /\ Datarates(r)[1] # NoRate
          /\ Rx2Datarate(r) = 2 => Datarates(r)[3] # NoRate
      BY <1>2, RegionTables, TableEntries, SMT
    <2>2. ~HasFixedChannelPlan(r)
      BY <1>2
    <2> QED
      BY <2>1, <2>2, SMT
  <1> QED
    BY <1>1, <1>2 DEF Region

\* ... and of its frequencies and its largest RX1 offset.
ParametersUsable(r) ==
    /\ RegionParameters(r).range[1] \in Nat \ {0}
    /\ RegionParameters(r).range[2] \in Nat
    /\ Rx2Frequency(r) \in Nat
    /\ RegionParameters(r).max_offset \in Nat
    /\ NumJoin(r) \in Nat
    /\ ~HasFixedChannelPlan(r) => NumJoin(r) >= 1
    /\ \A i \in 1 .. NumJoin(r) : JoinFrequencies(r)[i] \in Nat \ {0}

\* Every region's frequencies are.
LEMMA RegionFrequencies ==
    ASSUME NEW r \in Region
    PROVE  ParametersUsable(r)
  <1> USE DEF ParametersUsable, HasFixedChannelPlan, FixedRegions, AS923Regions, Parameters,
             NumJoin, JoinFrequencies, Rx2Frequency
  <1>1. CASE r = "EU868"
    <2>1. RegionParameters(r) = EU868Parameters
      BY <1>1, SMTT(30) DEF RegionParameters
    <2> QED
      BY <1>1, <2>1, SMTT(30) DEF EU868Parameters
  <1>2. CASE r = "EU433"
    <2>1. RegionParameters(r) = EU433Parameters
      BY <1>2, SMTT(30) DEF RegionParameters
    <2> QED
      BY <1>2, <2>1, SMTT(30) DEF EU433Parameters
  <1>3. CASE r = "IN865"
    <2>1. RegionParameters(r) = IN865Parameters
      BY <1>3, SMTT(30) DEF RegionParameters
    <2> QED
      BY <1>3, <2>1, SMTT(30) DEF IN865Parameters
  <1>4. CASE r = "US915"
    <2>1. RegionParameters(r) = US915Parameters
      BY <1>4, SMTT(30) DEF RegionParameters
    <2> QED
      BY <1>4, <2>1, SMTT(30) DEF US915Parameters
  <1>5. CASE r = "AU915"
    <2>1. RegionParameters(r) = AU915Parameters
      BY <1>5, SMTT(30) DEF RegionParameters
    <2> QED
      BY <1>5, <2>1, SMTT(30) DEF AU915Parameters
  <1>6. CASE r \in AS923Regions
    <2>1. RegionParameters(r) = AS923Parameters(r)
      BY <1>6, SMTT(30) DEF RegionParameters
    <2> QED
      BY <1>6, <2>1, SMTT(30) DEF AS923Parameters, AS923RX2, AS923Offset
  <1> QED
    BY <1>1, <1>2, <1>3, <1>4, <1>5, <1>6 DEF Region

\* tx_power_adjust gives a power, or none.
LEMMA PowerType ==
    ASSUME NEW r \in Region, NEW pw \in Nat
    PROVE  TxPowerAdjust(r, pw) \in Int
  <1>1. CASE r = "EU868"
    BY <1>1, SMT DEF TxPowerAdjust, AS923Regions, EU868Power, NoPower
  <1>2. CASE r = "EU433"
    BY <1>2, SMT DEF TxPowerAdjust, AS923Regions, EU433Power, NoPower
  <1>3. CASE r = "IN865"
    BY <1>3, SMT DEF TxPowerAdjust, AS923Regions, INPower, NoPower
  <1>4. CASE r = "US915"
    BY <1>4, SMT DEF TxPowerAdjust, AS923Regions, USPower, NoPower
  <1>5. CASE r = "AU915"
    BY <1>5, SMT DEF TxPowerAdjust, AS923Regions, AUPower, NoPower
  <1>6. CASE r \in AS923Regions
    BY <1>6, SMT DEF TxPowerAdjust, AS923Regions, AS923Power, NoPower
  <1> QED
    BY <1>1, <1>2, <1>3, <1>4, <1>5, <1>6 DEF Region, FixedRegions

-----------------------------------------------------------------------------
(* The queue of answers.                                                   *)

Queue == [Answers -> Nat]

\* The answers of the queue and their lengths.
LEMMA AnswerKinds ==
    /\ Answers = {"DevStatusAns", "LinkADRAns", "NewChannelAns", "DlChannelAns",
                  "RXParamSetupAns", "RXTimingSetupAns"}
    /\ \A a \in Answers : AnswerLen[a] \in 1 .. 3
    /\ AnswerLen["LinkADRAns"] = 2
  BY DEF Answers, AnswerLen

\* The bytes of a queue, as a sum.
LEMMA QueueLen ==
    ASSUME NEW q \in Queue
    PROVE  /\ PendingLen(q) = 3 * q["DevStatusAns"] + 2 * q["LinkADRAns"]
                + 2 * q["NewChannelAns"] + 2 * q["DlChannelAns"]
                + 2 * q["RXParamSetupAns"] + q["RXTimingSetupAns"]
           /\ PendingLen(q) \in Nat
           /\ \A a \in Answers : q[a] \in Nat
  <1>1. \A a \in Answers : q[a] \in Nat
    BY DEF Queue
  <1>2. PendingLen(q) = q["DevStatusAns"] * 3 + q["LinkADRAns"] * 2
          + q["NewChannelAns"] * 2 + q["DlChannelAns"] * 2
          + q["RXParamSetupAns"] * 2 + q["RXTimingSetupAns"] * 1
    BY DEF PendingLen, AnswerLen
  <1> QED
    BY <1>1, <1>2, AnswerKinds

\* n more answers of one kind take n times their length.
LEMMA QueueGrows ==
    ASSUME NEW q \in Queue, NEW a \in Answers, NEW n \in Nat
    PROVE  /\ [q EXCEPT ![a] = @ + n] \in Queue
           /\ PendingLen([q EXCEPT ![a] = @ + n]) = PendingLen(q) + n * AnswerLen[a]
  <1> DEFINE p == [q EXCEPT ![a] = @ + n]
  <1>1. p \in Queue
    BY DEF Queue
  <1>2. \A b \in Answers : q[b] \in Nat /\ p[b] = IF b = a THEN q[b] + n ELSE q[b]
    BY DEF Queue
  <1> HIDE DEF p
  <1>3. PendingLen(p) = PendingLen(q) + n * AnswerLen[a]
    <2>1. /\ PendingLen(p) = 3 * p["DevStatusAns"] + 2 * p["LinkADRAns"]
                + 2 * p["NewChannelAns"] + 2 * p["DlChannelAns"]
                + 2 * p["RXParamSetupAns"] + p["RXTimingSetupAns"]
          /\ PendingLen(q) = 3 * q["DevStatusAns"] + 2 * q["LinkADRAns"]
                + 2 * q["NewChannelAns"] + 2 * q["DlChannelAns"]
                + 2 * q["RXParamSetupAns"] + q["RXTimingSetupAns"]
      BY <1>1, QueueLen
    <2> USE <1>2, <2>1, AnswerKinds DEF AnswerLen
    <2>2. CASE a = "DevStatusAns"
      BY <2>2
    <2>3. CASE a = "LinkADRAns"
      BY <2>3
    <2>4. CASE a = "NewChannelAns"
      BY <2>4
    <2>5. CASE a = "DlChannelAns"
      BY <2>5
    <2>6. CASE a = "RXParamSetupAns"
      BY <2>6
    <2>7. CASE a = "RXTimingSetupAns"
      BY <2>7
    <2> QED
      BY <2>2, <2>3, <2>4, <2>5, <2>6, <2>7
  <1> QED
    BY <1>1, <1>3 DEF p

\* add_mac_command keeps the queue within FOpts.
LEMMA AddOneFits ==
    ASSUME NEW q \in Queue, NEW a \in Answers, PendingLen(q) <= FoptsMaxLen
    PROVE  /\ AddMacCommand(q, a) \in Queue
           /\ PendingLen(AddMacCommand(q, a)) <= FoptsMaxLen
           /\ PendingLen(q) <= PendingLen(AddMacCommand(q, a))
           /\ \A b \in Answers \ {a} : AddMacCommand(q, a)[b] = q[b]
  <1>1. CASE RoomFor(q, a)
    <2>1. AddMacCommand(q, a) = [q EXCEPT ![a] = @ + 1]
      BY <1>1 DEF AddMacCommand
    <2>2. /\ AddMacCommand(q, a) \in Queue
          /\ PendingLen(AddMacCommand(q, a)) = PendingLen(q) + 1 * AnswerLen[a]
      BY ONLY ZenonT(60), <2>1, QueueGrows, a \in Answers, q \in Queue, 1 \in Nat
    <2>3. \A b \in Answers \ {a} : AddMacCommand(q, a)[b] = q[b]
      BY <2>1 DEF Queue
    <2> QED
      BY <1>1, <2>2, <2>3, QueueLen, AnswerKinds, MacCommandsAssumption DEF RoomFor
  <1>2. CASE ~RoomFor(q, a)
    BY <1>2, QueueLen DEF AddMacCommand
  <1> QED
    BY <1>1, <1>2

\* The answers to a block are all queued, or the queue is full.
LEMMA AddBlockFits ==
    ASSUME NEW q \in Queue, NEW n \in Nat, PendingLen(q) <= FoptsMaxLen,
           NEW p, p = AddMacCommands(q, "LinkADRAns", n)
    PROVE  /\ p \in Queue
           /\ PendingLen(p) <= FoptsMaxLen
           /\ PendingLen(q) <= PendingLen(p)
           /\ \/ p["LinkADRAns"] = q["LinkADRAns"] + n
              \/ /\ p["LinkADRAns"] < q["LinkADRAns"] + n
                 /\ ~RoomFor(p, "LinkADRAns")
  <1> DEFINE fit == (FoptsMaxLen - PendingLen(q)) \div 2
             m == IF n < fit THEN n ELSE fit
  <1>1. PendingLen(q) \in Nat /\ FoptsMaxLen \in Nat /\ q["LinkADRAns"] \in Nat
    BY QueueLen, AnswerKinds, MacCommandsAssumption
  <1>2. fit \in Nat /\ 2 * fit <= FoptsMaxLen - PendingLen(q)
        /\ FoptsMaxLen - PendingLen(q) <= 2 * fit + 1
    BY <1>1
  <1>3. p = [q EXCEPT !["LinkADRAns"] = @ + m]
    BY AnswerKinds DEF AddMacCommands
  <1> HIDE DEF fit
  <1>4. m \in Nat /\ m <= n /\ m <= fit /\ (m = n \/ m = fit)
    BY <1>2
  <1> HIDE DEF m
  <1>5. p \in Queue /\ PendingLen(p) = PendingLen(q) + m * 2
    BY <1>3, <1>4, QueueGrows, AnswerKinds
  <1>6. p["LinkADRAns"] = q["LinkADRAns"] + m
    BY <1>3, AnswerKinds DEF Queue
  <1> QED
    BY <1>1, <1>2, <1>4, <1>5, <1>6, AnswerKinds DEF RoomFor

\* retain_only_sticky leaves no LinkADRAns.
LEMMA RetainFits ==
    ASSUME NEW q \in Queue, PendingLen(q) <= FoptsMaxLen
    PROVE  /\ RetainSticky(q) \in Queue
           /\ PendingLen(RetainSticky(q)) <= FoptsMaxLen
           /\ RetainSticky(q)["LinkADRAns"] = 0
  <1>1. RetainSticky(q) \in Queue /\ \A a \in Answers : q[a] \in Nat
    BY DEF RetainSticky, Queue
  <1>2. \A a \in Answers : RetainSticky(q)[a] = IF a \in Sticky THEN q[a] ELSE 0
    BY DEF RetainSticky
  <1>3. RetainSticky(q)["LinkADRAns"] = 0
    BY <1>2, AnswerKinds DEF Sticky
  <1>4. PendingLen(RetainSticky(q)) <= PendingLen(q)
    BY SMTT(30), <1>1, <1>2, QueueLen, AnswerKinds DEF Sticky
  <1> QED
    BY <1>1, <1>3, <1>4, QueueLen, MacCommandsAssumption

\* An emptied queue.
LEMMA EmptyFits ==
    /\ NoAnswers \in Queue
    /\ PendingLen(NoAnswers) = 0
    /\ NoAnswers["LinkADRAns"] = 0
  <1>1. NoAnswers \in Queue /\ \A a \in Answers : NoAnswers[a] = 0
    BY DEF NoAnswers, Queue
  <1> QED
    BY <1>1, QueueLen, AnswerKinds

-----------------------------------------------------------------------------
(* The mask.                                                               *)

\* set_bank within the banks keeps to the channels of the plan.
LEMMA SetBankType ==
    ASSUME NEW mask \in SUBSET Channels, NEW b \in 0 .. Banks, NEW bits \in SUBSET Byte
    PROVE  SetBank(mask, b, bits) \in SUBSET Channels
  <1>1. \A o \in Byte : b * BankSize + o \in Bank(b)
    <2> DEFINE S == b * BankSize
    <2>1. S \in Nat /\ Bank(b) = S .. S + BankSize - 1
      BY BankIsInterval
    <2> HIDE DEF S
    <2>2. \A o \in Byte : S + o \in Bank(b)
      BY <2>1, BanksType DEF Byte
    <2> QED
      BY <2>2 DEF S
  <1>2. Bank(b) \subseteq Channels
    BY BankIsInterval
  <1> QED
    BY <1>1, <1>2 DEF SetBank

\* No update that does not panic enables a channel the plan does not have.
LEMMA MaskUpdateType ==
    ASSUME NEW r, NEW mask \in SUBSET Channels, NEW ctl \in 0 .. CtlAllOff, NEW bits,
           ~UpdatePanics(ctl)
    PROVE  ChannelMaskUpdate(r, mask, ctl, bits) \in SUBSET Channels
  <1>1. LowByte(bits) \in SUBSET Byte /\ HighByte(bits) \in SUBSET Byte
    BY DEF LowByte, HighByte
  <1>2. Narrow \subseteq Channels
    BY DEF Channels
  <1>3. Banks \div 2 \in Nat
    BY BanksType
  <1>4. CASE ctl \in CtlPair
    <2>1. 2 * ctl \in 0 .. Banks /\ 2 * ctl + 1 \in 0 .. Banks
      BY <1>3, <1>4, BanksType DEF UpdatePanics, CtlPair
    <2>2. UpdatePair(mask, ctl, bits) \in SUBSET Channels
      BY <1>1, <2>1, SetBankType DEF UpdatePair
    <2>3. ctl # CtlBlocks /\ ctl # CtlAllOn /\ ctl # CtlAllOff
      BY <1>3, <1>4 DEF CtlPair, CtlBlocks, CtlAllOn, CtlAllOff
    <2>4. /\ FixedMaskUpdate(mask, ctl, bits) = UpdatePair(mask, ctl, bits)
          /\ DynamicMaskUpdate(mask, ctl, bits) = UpdatePair(mask, ctl, bits)
      BY <1>4, <2>3 DEF FixedMaskUpdate, DynamicMaskUpdate
    <2> QED
      BY <2>2, <2>4 DEF ChannelMaskUpdate
  <1>5. CASE ctl = CtlBlocks
    <2>1. ctl \notin CtlPair
      BY <1>3, <1>5 DEF CtlPair, CtlBlocks
    <2>2. ctl # CtlAllOn /\ ctl # CtlAllOff
      BY <1>3, <1>5 DEF CtlBlocks, CtlAllOn, CtlAllOff
    <2>3. \A i \in 0 .. Banks - 1 : Bank(i) \subseteq Channels
      BY BankIsInterval, BanksType
    <2>4. SetBank({}, Banks, LowByte(bits)) \in SUBSET Channels
      BY <1>1, SetBankType, BanksType
    <2>5. FixedMaskUpdate(mask, ctl, bits) \in SUBSET Channels
      <3>1. FixedMaskUpdate(mask, ctl, bits) =
                (UNION {Bank(i) : i \in LowByte(bits) \cap 0 .. Banks - 1})
                \cup {Banks * BankSize + b : b \in LowByte(bits)}
        BY <1>5, <2>1, <2>2 DEF FixedMaskUpdate
      <3> SUFFICES ASSUME NEW c \in FixedMaskUpdate(mask, ctl, bits)
                   PROVE  c \in Channels
        OBVIOUS
      <3>2. CASE c \in UNION {Bank(i) : i \in LowByte(bits) \cap 0 .. Banks - 1}
        BY <2>3, <3>2, Zenon
      <3>3. CASE c \in {Banks * BankSize + b : b \in LowByte(bits)}
        BY <2>4, <3>3, Zenon DEF SetBank
      <3> QED
        BY <3>1, <3>2, <3>3, Zenon
    <2>6. DynamicMaskUpdate(mask, ctl, bits) \in SUBSET Channels
      BY <1>5, <2>1, <2>2 DEF DynamicMaskUpdate
    <2> QED
      BY <2>5, <2>6 DEF ChannelMaskUpdate
  <1>6. CASE ctl \in {CtlAllOn, CtlAllOff}
    <2>1. ctl \notin CtlPair /\ ctl # CtlBlocks /\ CtlAllOn # CtlAllOff
      BY <1>3, <1>6 DEF CtlPair, CtlBlocks, CtlAllOn, CtlAllOff
    <2>2. \A enabled \in BOOLEAN : Set125kChannels(enabled, bits) \in SUBSET Channels
      BY <1>1, <1>2, SetBankType, BanksType DEF Set125kChannels
    <2>3. FixedMaskUpdate(mask, ctl, bits) \in SUBSET Channels
      BY <1>6, <2>1, <2>2 DEF FixedMaskUpdate
    <2>4. DynamicMaskUpdate(mask, ctl, bits) \in SUBSET Channels
      BY <1>2, <1>6, <2>1 DEF DynamicMaskUpdate
    <2> QED
      BY <2>3, <2>4 DEF ChannelMaskUpdate
  <1> QED
    BY <1>3, <1>4, <1>5, <1>6 DEF CtlPair, CtlBlocks, CtlAllOn, CtlAllOff

-----------------------------------------------------------------------------
(* The rotation of the join channels.                                      *)

\* A channel number below the size of the plan is its own remainder.
LEMMA ModOfSmall ==
    ASSUME NEW m \in Nat, NEW a \in 0 .. m - 1
    PROVE  a % m = a
  OBVIOUS

\* The bank after `at`.
Following(at) == IF at = Banks THEN 0 ELSE at + 1

\* NextInBank goes to the same place of the following bank.
LEMMA NextInFollowing ==
    ASSUME NEW at \in 0 .. Banks, NEW previous \in Bank(at)
    PROVE  /\ Following(at) \in 0 .. Banks
           /\ NextInBank(previous) \in Bank(Following(at))
           /\ NextInBank(previous) \div BankSize = Following(at)
  <1> DEFINE S == at * BankSize
             o == previous - S
             n == Following(at)
             W == Banks * BankSize
  <1>1. n \in 0 .. Banks
    BY BanksType DEF Following
  <1>2. S \in Nat /\ S <= W /\ W \in Nat /\ Bank(at) = S .. S + BankSize - 1
        /\ NumChannels = W + BankSize
    BY BankIsInterval, Layout
  <1>3. o \in 0 .. BankSize - 1 /\ previous = S + o
    <2> HIDE DEF S, W
    <2> QED
      BY <1>2, BanksType
  <1>4. NextInBank(previous) = n * BankSize + o
    <2>1. CASE at = Banks
      <3>1. previous + BankSize = NumChannels + o /\ n = 0 /\ o < NumChannels
        BY <2>1, <1>2, <1>3, BanksType DEF Following
      <3> HIDE DEF o, W, S
      <3>2. (NumChannels + o) % NumChannels = o
        BY <1>2, <1>3, <3>1, BanksType
      <3> QED
        BY <3>1, <3>2, <1>3, BanksType DEF NextInBank
    <2>2. CASE at # Banks
      <3>1. n = at + 1 /\ n * BankSize = S + BankSize /\ n * BankSize <= W
        BY <2>2, <1>1, BanksType, BankIsInterval DEF Following
      <3> DEFINE N == n * BankSize
      <3>2. N = S + BankSize /\ N <= W
        BY <3>1
      <3> HIDE DEF o, W, S, n, N
      <3>3. previous + BankSize = N + o /\ N + o \in 0 .. NumChannels - 1
        BY <1>2, <1>3, <3>2, BanksType
      <3>4. NumChannels \in Nat
        BY <1>2, BanksType
      <3>5. (N + o) % NumChannels = N + o
        BY ONLY <3>3, <3>4, ModOfSmall
      <3> QED
        BY <3>3, <3>5 DEF NextInBank, N
    <2> QED
      BY <2>1, <2>2
  <1>5. (n * BankSize + o) \div BankSize = n
    <2> HIDE DEF n, o
    <2> QED
      BY <1>1, <1>3, BankOf
  <1>6. n * BankSize + o \in Bank(n)
    <2> DEFINE N == n * BankSize
    <2>1. N \in Nat /\ Bank(n) = N .. N + BankSize - 1
      BY <1>1, BankIsInterval
    <2> HIDE DEF N, o
    <2>2. N + o \in Bank(n)
      BY <1>3, <2>1, BanksType
    <2> QED
      BY <2>2 DEF N
  <1> QED
    BY <1>1, <1>4, <1>5, <1>6

\* A bank has BankSize channels.
LEMMA BankCount ==
    ASSUME NEW b \in 0 .. Banks
    PROVE  IsFiniteSet(Bank(b)) /\ Cardinality(Bank(b)) = BankSize
  <1> DEFINE S == b * BankSize
             T == S + BankSize - 1
  <1>1. S \in Nat /\ Bank(b) = S .. T
    BY BankIsInterval
  <1> HIDE DEF S
  <1>2. S \in Int /\ T \in Int /\ T - S + 1 = BankSize /\ S <= T
    BY <1>1, BanksType
  <1> HIDE DEF T
  <1>3. IsFiniteSet(S .. T) /\ Cardinality(S .. T) = IF S > T THEN 0 ELSE T - S + 1
    BY <1>2, FS_Interval
  <1> QED
    BY <1>1, <1>2, <1>3

\* What is left of a bank is finite; it is empty when it counts zero.
LEMMA BankPart ==
    ASSUME NEW data, NEW b \in 0 .. Banks
    PROVE  /\ IsFiniteSet(data \cap Bank(b))
           /\ Cardinality(data \cap Bank(b)) \in Nat
           /\ Cardinality(data \cap Bank(b)) = 0 <=> data \cap Bank(b) = {}
  <1>1. IsFiniteSet(data \cap Bank(b))
    BY BankCount, FS_Subset
  <1> QED
    BY <1>1, FS_CardinalityType, FS_EmptySet

\* A draw takes one channel out of its bank and leaves the others alone.
LEMMA CountAfterDraw ==
    ASSUME NEW data, NEW n \in 0 .. Banks, NEW c \in data \cap Bank(n), NEW b \in 0 .. Banks
    PROVE  Cardinality((data \ {c}) \cap Bank(b)) =
                Cardinality(data \cap Bank(b)) - (IF b = n THEN 1 ELSE 0)
  <1>1. CASE b = n
    <2>1. (data \ {c}) \cap Bank(b) = (data \cap Bank(b)) \ {c}
      OBVIOUS
    <2> QED
      BY <1>1, <2>1, BankPart, FS_RemoveElement
  <1>2. CASE b # n
    <2>1. c \notin Bank(b)
      BY <1>2, BanksDisjoint
    <2>2. (data \ {c}) \cap Bank(b) = data \cap Bank(b)
      BY <2>1
    <2> QED
      BY <1>2, <2>2, BankPart
  <1> QED
    BY <1>1, <1>2

\* The first draw starts a round in its bank.
LEMMA FirstRound ==
    ASSUME NEW j, NEW c \in Channels, j.data = Channels \ {c}, j.previous = c
    PROVE  \E start, at \in 0 .. Banks, rounds \in 0 .. BankSize - 1 :
                InRound(j, start, rounds, at)
  <1>1. PICK at \in 0 .. Banks : c \in Bank(at)
    BY ChannelHasBank
  <1>2. \A b \in 0 .. Banks : Channels \cap Bank(b) = Bank(b)
    BY BankIsInterval
  <1>3. \A b \in 0 .. Banks :
            Cardinality(j.data \cap Bank(b)) = BankSize - (IF b = at THEN 1 ELSE 0)
    BY <1>1, <1>2, BankCount, CountAfterDraw
  <1>4. \A b \in 0 .. Banks : Turn(at, b) <= Turn(at, at) <=> b = at
    BY <1>1, BanksType DEF Turn
  <1>5. InRound(j, at, 0, at)
    BY <1>1, <1>3, <1>4, BanksType DEF InRound
  <1> QED
    BY <1>1, <1>5, BanksType

\* While a channel is left, the following bank has one, and drawing it goes on
\* with the round or starts the next.
LEMMA RoundGoesOn ==
    ASSUME NEW j, j.data \in SUBSET Channels, j.data # {},
           NEW start \in 0 .. Banks, NEW at \in 0 .. Banks, NEW rounds \in 0 .. BankSize - 1,
           InRound(j, start, rounds, at)
    PROVE  /\ j.data \cap Bank(Following(at)) # {}
           /\ \A c \in j.data \cap Bank(Following(at)) : \A k :
                k.data = j.data \ {c} /\ k.previous = c =>
                    \E s, a \in 0 .. Banks, r \in 0 .. BankSize - 1 : InRound(k, s, r, a)
  <1> DEFINE n == Following(at)
             left(b) == Cardinality(j.data \cap Bank(b))
  <1>1. n \in 0 .. Banks
    BY BanksType DEF Following
  <1>2. \A b \in 0 .. Banks :
            /\ left(b) \in Nat
            /\ left(b) = BankSize - rounds - (IF Turn(start, b) <= Turn(start, at) THEN 1 ELSE 0)
    BY BankPart DEF InRound
  <1>3. \E b \in 0 .. Banks : left(b) # 0
    <2>1. PICK c \in j.data : TRUE
      OBVIOUS
    <2>2. PICK b \in 0 .. Banks : c \in Bank(b)
      BY <2>1, ChannelHasBank
    <2>3. j.data \cap Bank(b) # {}
      BY <2>1, <2>2
    <2> QED
      BY <2>3, BankPart
  <1>4. n # start =>
            /\ Turn(start, n) = Turn(start, at) + 1
            /\ \A b \in 0 .. Banks : Turn(start, b) <= Turn(start, n) <=>
                    (Turn(start, b) <= Turn(start, at) \/ b = n)
    BY <1>1, BanksType DEF Turn, Following
  <1>5. n = start =>
            \A b \in 0 .. Banks :
                /\ Turn(start, b) <= Turn(start, at)
                /\ Turn(start, b) <= Turn(start, n) <=> b = n
    BY <1>1, BanksType DEF Turn, Following
  <1> HIDE DEF left, n
  <1>6. left(n) # 0
    <2>1. CASE n = start
      BY <1>1, <1>2, <1>3, <1>5, <2>1
    <2>2. CASE n # start
      <3>1. ~(Turn(start, n) <= Turn(start, at))
        BY <1>1, <1>4, <2>2, BanksType DEF Turn
      <3> QED
        BY <1>1, <1>2, <3>1, BanksType
    <2> QED
      BY <2>1, <2>2
  <1>7. ASSUME NEW c \in j.data \cap Bank(n), NEW k, k.data = j.data \ {c}, k.previous = c
        PROVE  \E s, a \in 0 .. Banks, r \in 0 .. BankSize - 1 : InRound(k, s, r, a)
    <2>1. \A b \in 0 .. Banks :
            Cardinality(k.data \cap Bank(b)) = left(b) - (IF b = n THEN 1 ELSE 0)
      BY <1>1, <1>7, CountAfterDraw DEF left
    <2>2. CASE n = start
      <3>1. rounds + 1 \in 0 .. BankSize - 1
        BY <1>2, <1>3, <1>5, <2>2, BanksType
      <3>2. \A b \in 0 .. Banks :
                Cardinality(k.data \cap Bank(b)) =
                    BankSize - (rounds + 1)
                        - (IF Turn(start, b) <= Turn(start, n) THEN 1 ELSE 0)
        BY <1>2, <1>5, <2>1, <2>2, BanksType
      <3>3. InRound(k, start, rounds + 1, n)
        BY <1>7, <3>2 DEF InRound
      <3> QED
        BY <1>1, <3>1, <3>3
    <2>3. CASE n # start
      <3>1. ~(Turn(start, n) <= Turn(start, at))
        BY <1>1, <1>4, <2>3, BanksType DEF Turn
      <3>2. \A b \in 0 .. Banks :
                Cardinality(k.data \cap Bank(b)) =
                    BankSize - rounds - (IF Turn(start, b) <= Turn(start, n) THEN 1 ELSE 0)
        BY <1>1, <1>2, <1>4, <2>1, <2>3, <3>1, BanksType
      <3>3. InRound(k, start, rounds, n)
        BY <1>7, <3>2 DEF InRound
      <3> QED
        BY <1>1, <3>3
    <2> QED
      BY <2>2, <2>3
  <1>8. j.data \cap Bank(n) # {}
    BY <1>1, <1>6, BankPart DEF left
  <1> QED
    BY <1>7, <1>8 DEF n

-----------------------------------------------------------------------------
(* The draws.                                                              *)

DrawnWell(d) == d.join \in JoinChannels /\ Rotation(d.join)

\* A biased attempt always has a channel; the last one starts the rotation.
LEMMA PreferredDraws ==
    ASSUME NEW j \in JoinChannels, Rotation(j), HasBias(j), j.num_retries < j.max_retries
    PROVE  GetNextPreferred(j) # {} /\ \A d \in GetNextPreferred(j) : DrawnWell(d)
  <1>1. j.subband - 1 \in 0 .. Banks
    BY BanksType DEF HasBias, JoinChannels
  <1>2. Bank(j.subband - 1) # {} /\ Bank(j.subband - 1) \subseteq Channels
    BY <1>1, BankIsInterval
  <1>3. j.data = Channels /\ j.previous = NoChannel
    BY DEF Rotation
  <1> DEFINE last == j.num_retries + 1 = j.max_retries
             drawn(c) == [j EXCEPT !.num_retries = @ + 1, !.previous_channel = c,
                                   !.data = IF last THEN @ \ {c} ELSE @,
                                   !.previous = IF last THEN c ELSE @]
  <1>4. GetNextPreferred(j) = {[ch |-> c, join |-> drawn(c)] : c \in Bank(j.subband - 1)}
    BY DEF GetNextPreferred
  <1>5. ASSUME NEW c \in Channels
        PROVE  drawn(c) = [max_retries |-> j.max_retries, num_retries |-> j.num_retries + 1,
                           subband |-> j.subband,
                           data |-> IF last THEN Channels \ {c} ELSE Channels,
                           previous |-> IF last THEN c ELSE NoChannel,
                           previous_channel |-> c]
    <2>1. PICK k : k = drawn(c)
      OBVIOUS
    <2>2. k = [max_retries |-> j.max_retries, num_retries |-> j.num_retries + 1,
               subband |-> j.subband,
               data |-> IF last THEN Channels \ {c} ELSE Channels,
               previous |-> IF last THEN c ELSE NoChannel,
               previous_channel |-> c]
      BY <1>3, <2>1 DEF JoinChannels
    <2> QED
      BY <2>1, <2>2
  <1> HIDE DEF drawn
  <1>6. ASSUME NEW c \in Channels
        PROVE  drawn(c) \in JoinChannels /\ Rotation(drawn(c))
    <2>1. drawn(c) \in JoinChannels
      BY <1>5 DEF JoinChannels
    <2>2. CASE last
      <3>1. /\ drawn(c).data = Channels \ {c} /\ drawn(c).previous = c
            /\ ~(drawn(c).num_retries < drawn(c).max_retries)
        BY <1>5, <2>2 DEF JoinChannels
      <3> QED
        BY <2>1, <3>1, FirstRound DEF Rotation
    <2>3. CASE ~last
      BY <1>5, <2>1, <2>3 DEF Rotation
    <2> QED
      BY <2>2, <2>3
  <1>7. \A d \in GetNextPreferred(j) :
            \E c \in Bank(j.subband - 1) : d.join = drawn(c)
    BY <1>4
  <1>8. GetNextPreferred(j) # {}
    BY <1>2, <1>4
  <1> QED
    BY <1>2, <1>6, <1>7, <1>8 DEF DrawnWell

\* What a draw of the rotation makes of the channels that were left.
LEMMA AvailableDraws ==
    ASSUME NEW j \in JoinChannels, Rotation(j), ~(HasBias(j) /\ j.num_retries < j.max_retries)
    PROVE  GetNextAvailable(j) # {} /\ \A d \in GetNextAvailable(j) : DrawnWell(d)
  <1> DEFINE fresh == j.data = {}
             data == IF fresh THEN Channels ELSE j.data
             previous == IF fresh THEN NoChannel ELSE j.previous
             drawn(c) == [j EXCEPT !.num_retries = @ + 1, !.data = data \ {c}, !.previous = c]
  <1>1. GetNextAvailable(j) = {[ch |-> c, join |-> drawn(c)] : c \in Candidates(data, previous)}
    BY DEF GetNextAvailable
  <1>2. data \in SUBSET Channels
    BY DEF JoinChannels
  <1>3. \A c \in Channels : drawn(c).data = data \ {c} /\ drawn(c).previous = c
    BY DEF JoinChannels
  <1>4. ASSUME NEW c \in Channels
        PROVE  drawn(c) \in JoinChannels
    <2>1. PICK k : k = drawn(c)
      OBVIOUS
    <2>2. k = [max_retries |-> j.max_retries, num_retries |-> j.num_retries + 1,
               subband |-> j.subband, data |-> data \ {c}, previous |-> c,
               previous_channel |-> j.previous_channel]
      BY <2>1 DEF JoinChannels
    <2> HIDE DEF drawn
    <2> QED
      BY <1>2, <2>1, <2>2 DEF JoinChannels
  <1>5. \A c \in Channels : ~(HasBias(drawn(c)) /\ drawn(c).num_retries < drawn(c).max_retries)
    BY DEF JoinChannels, HasBias
  <1> HIDE DEF drawn
  <1>6. Candidates(data, previous) # {} /\ \A c \in Candidates(data, previous) :
            /\ c \in Channels
            /\ \E s, a \in 0 .. Banks, r \in 0 .. BankSize - 1 : InRound(drawn(c), s, r, a)
    <2>1. CASE previous = NoChannel
      <3>1. Candidates(data, previous) = Narrow
        BY <2>1 DEF Candidates
      <3>2. Narrow # {} /\ Narrow \subseteq Channels
        BY Layout DEF Channels
      <3>3. data = Channels
        <4>1. CASE fresh
          BY <4>1
        <4>2. CASE ~fresh
          <5>1. j.previous = NoChannel
            BY <2>1, <4>2
          <5>2. \A at \in 0 .. Banks : NoChannel \notin Bank(at)
            BY BankIsInterval, Layout DEF NoChannel
          <5> QED
            BY <4>2, <5>1, <5>2 DEF Rotation, InRound
        <4> QED
          BY <4>1, <4>2
      <3> QED
        BY <1>3, <3>1, <3>2, <3>3, FirstRound
    <2>2. CASE previous # NoChannel
      <3>1. ~fresh /\ data = j.data /\ previous = j.previous /\ j.previous # NoChannel
        BY <2>2
      <3>2. PICK start \in 0 .. Banks, at \in 0 .. Banks, rounds \in 0 .. BankSize - 1 :
                InRound(j, start, rounds, at)
        BY <3>1 DEF Rotation
      <3>3. j.previous \in Bank(at)
        BY <3>2 DEF InRound
      <3>4. /\ Following(at) \in 0 .. Banks
            /\ NextInBank(j.previous) \in Bank(Following(at))
            /\ NextInBank(j.previous) \div BankSize = Following(at)
        BY <3>3, NextInFollowing
      <3>5. /\ j.data \cap Bank(Following(at)) # {}
            /\ \A c \in j.data \cap Bank(Following(at)) : \A k :
                k.data = j.data \ {c} /\ k.previous = c =>
                    \E s, a \in 0 .. Banks, r \in 0 .. BankSize - 1 : InRound(k, s, r, a)
        BY <1>2, <3>1, <3>2, RoundGoesOn
      <3>6. /\ Candidates(data, previous) # {}
            /\ Candidates(data, previous) \subseteq j.data \cap Bank(Following(at))
        <4>1. CASE NextInBank(j.previous) \in j.data
          BY <3>1, <3>4, <4>1 DEF Candidates
        <4>2. CASE NextInBank(j.previous) \notin j.data
          BY <3>1, <3>4, <3>5, <4>2 DEF Candidates
        <4> QED
          BY <4>1, <4>2
      <3>7. \A c \in Candidates(data, previous) : c \in Channels
        BY <1>2, <3>1, <3>6
      <3> QED
        BY <1>3, <3>1, <3>5, <3>6, <3>7
    <2> QED
      BY <2>1, <2>2
  <1> HIDE DEF data, previous
  <1>7. ASSUME NEW d \in GetNextAvailable(j)
        PROVE  DrawnWell(d)
    <2>1. PICK c \in Candidates(data, previous) : d.join = drawn(c)
      BY <1>1
    <2>2. Rotation(drawn(c)) /\ drawn(c) \in JoinChannels
      BY <1>4, <1>5, <1>6 DEF Rotation
    <2> QED
      BY <2>1, <2>2 DEF DrawnWell
  <1> QED
    BY <1>1, <1>6, <1>7

\* JoinChannels::get_next_channel returns, and keeps the rotation.
LEMMA GetNextDraws ==
    ASSUME NEW j \in JoinChannels, Rotation(j)
    PROVE  GetNextChannel(j) # {} /\ \A d \in GetNextChannel(j) : DrawnWell(d)
  BY PreferredDraws, AvailableDraws DEF GetNextChannel

\* The first data channel ends the bias and leaves the rotation where it is.
LEMMA FirstDataDraws ==
    ASSUME NEW j \in JoinChannels, Rotation(j)
    PROVE  FirstDataChannel(j) # {} /\ \A d \in FirstDataChannel(j) : DrawnWell(d)
  <1> DEFINE sb == IF j.previous_channel \in Narrow
                   THEN j.previous_channel \div BankSize
                   ELSE j.previous_channel % BankSize
             S == sb * BankSize
  <1>1. sb \in Nat
    BY BanksType, Layout DEF JoinChannels
  <1>2. S \in Nat /\ S \in Bank(sb)
    <2> HIDE DEF sb
    <2>1. S \in Nat /\ (sb + 1) * BankSize = S + BankSize
      BY <1>1, BanksType
    <2> QED
      BY <2>1, BanksType DEF Bank
  <1>3. FirstDataChannel(j) = {[ch |-> c, join |-> ClearJoinBias(j)] : c \in Bank(sb)}
    BY DEF FirstDataChannel
  <1>4. ClearJoinBias(j) \in JoinChannels
    <2>1. PICK k : k = ClearJoinBias(j)
      OBVIOUS
    <2>2. k = [max_retries |-> 0, num_retries |-> j.num_retries, subband |-> 0,
               data |-> j.data, previous |-> j.previous,
               previous_channel |-> j.previous_channel]
      BY <2>1 DEF ClearJoinBias, JoinChannels
    <2> QED
      BY <2>1, <2>2, BanksType DEF JoinChannels
  <1>5. Rotation(ClearJoinBias(j))
    <2>1. /\ ClearJoinBias(j).data = j.data /\ ClearJoinBias(j).previous = j.previous
          /\ ~HasBias(ClearJoinBias(j))
      BY DEF ClearJoinBias, JoinChannels, HasBias
    <2> QED
      BY <2>1 DEF Rotation, InRound
  <1> HIDE DEF sb, S
  <1>6. \A d \in FirstDataChannel(j) : d.join = ClearJoinBias(j)
    BY <1>3
  <1>7. FirstDataChannel(j) # {}
    BY <1>2, <1>3
  <1> QED
    BY <1>4, <1>5, <1>6, <1>7 DEF DrawnWell

\* JoinChannels::reset goes back to the start of the rotation.
LEMMA ResetRotation ==
    ASSUME NEW j \in JoinChannels
    PROVE  ResetJoin(j) \in JoinChannels /\ Rotation(ResetJoin(j)) /\ ResetJoin(j).num_retries = 0
  BY DEF ResetJoin, JoinChannels, Rotation

-----------------------------------------------------------------------------
(* The stream and the queue.                                               *)

\* What the properties ask of the loop's variables and of the queue.
LEMMA StreamTypes ==
    ASSUME Stream
    PROVE  /\ pending \in Queue /\ pending["LinkADRAns"] \in Nat
           /\ PendingLen(pending) \in Nat /\ FoptsMaxLen \in Nat /\ MaxCmds \in Nat
           /\ loop.left \in 0 .. MaxCmds /\ loop.num_adrreq \in Nat
           /\ loop.mask \in SUBSET Channels /\ loop.peek \in Peeks
           /\ loop.running \in BOOLEAN /\ loop.frm \in BOOLEAN
  <1>1. pending \in Queue
    BY DEF Stream, Queue
  <1> QED
    BY <1>1, QueueLen, AnswerKinds, MacCommandsAssumption DEF Stream, Loop

\* The loop after one more command.
LEMMA AdvanceType ==
    ASSUME Stream, loop.left > 0, NEW peek \in Peeks, NEW mask \in SUBSET Channels,
           NEW adr \in Nat, Advance(peek, mask, adr)
    PROVE  /\ loop' \in Loop
           /\ loop'.left = loop.left - 1 /\ loop'.num_adrreq = adr
           /\ loop'.peek = peek /\ loop'.running = loop.running
  <1>1. loop' = [running |-> loop.running, peek |-> peek, left |-> loop.left - 1,
                 mask |-> mask, num_adrreq |-> adr, frm |-> loop.frm]
    BY DEF Advance, Stream, Loop
  <1> QED
    BY <1>1, StreamTypes DEF Loop

\* A command other than LinkADRReq leaves the count of the requests alone.
LEMMA OtherKeepsStream ==
    ASSUME Stream, Handling("other"), NEW peek \in NextPeek(loop.left - 1), Next1(peek),
           NEW q, q \in Queue, pending' = q, PendingLen(q) <= FoptsMaxLen,
           PendingLen(pending) <= PendingLen(q),
           q["LinkADRAns"] = pending["LinkADRAns"],
           asked' = asked
    PROVE  Stream'
  <1>1. peek \in Peeks
    BY DEF NextPeek, Peeks
  <1>2. loop.num_adrreq = 0 /\ loop.left > 0 /\ loop.peek = "other"
    BY DEF Handling, Stream, AdrCounted
  <1>3. /\ loop' \in Loop
        /\ loop'.left = loop.left - 1 /\ loop'.num_adrreq = 0
    BY <1>1, <1>2, StreamTypes, AdvanceType DEF Next1
  <1>4. pending' \in [Answers -> Nat] /\ PendingLen(pending') <= FoptsMaxLen
    BY DEF Queue
  <1>5. asked' \in Nat /\ asked' + loop'.left <= MaxCmds
    BY <1>3, StreamTypes DEF Stream
  <1>6. AdrCounted'
    BY <1>2, <1>3, StreamTypes, QueueLen, AnswerKinds DEF Stream, AdrCounted, RoomFor
  <1> QED
    BY <1>3, <1>4, <1>5, <1>6 DEF Stream

\* A command with an answer of its own.
LEMMA AnswerKeepsStream ==
    ASSUME Stream, Handling("other"), NEW peek \in NextPeek(loop.left - 1),
           NEW a \in Answers \ {"LinkADRAns"}, Answered(a, peek)
    PROVE  Stream'
  <1> DEFINE q == AddMacCommand(pending, a)
  <1>1. Next1(peek) /\ pending' = q /\ asked' = asked
    BY DEF Answered
  <1>2. /\ q \in Queue /\ PendingLen(q) <= FoptsMaxLen /\ PendingLen(pending) <= PendingLen(q)
        /\ q["LinkADRAns"] = pending["LinkADRAns"]
    BY StreamTypes, AddOneFits, AnswerKinds DEF Stream
  <1> HIDE DEF q
  <1> QED
    BY <1>1, <1>2, OtherKeepsStream

\* One more request: counted when the block goes on, answered with the whole
\* block when it ends.
LEMMA LinkAdrKeepsStream ==
    ASSUME Stream, LinkADRReq
    PROVE  Stream'
  <1>1. PICK req \in LinkAdrReqs, peek \in NextPeek(loop.left - 1) :
            LET mask == ChannelMaskUpdate(region, loop.mask, req.ctl, req.bits)
            IN  CASE UpdatePanics(req.ctl) -> Fault("bank")
                  [] ~UpdatePanics(req.ctl) /\ peek = "adr" -> LinkAdrContinues(mask)
                  [] OTHER -> LinkAdrDecides(req, mask, peek)
    BY DEF LinkADRReq
  <1> DEFINE mask == ChannelMaskUpdate(region, loop.mask, req.ctl, req.bits)
  <1>2. loop.running /\ loop.left > 0 /\ loop.peek = "adr" /\ peek \in Peeks
    BY DEF LinkADRReq, Handling, NextPeek, Peeks
  <1>3. UNCHANGED <<pending, loop, asked>> => Stream'
    BY DEF Stream, AdrCounted, RoomFor, PendingLen
  <1>4. CASE UpdatePanics(req.ctl)
    BY <1>1, <1>3, <1>4 DEF Fault
  <1>5. CASE ~UpdatePanics(req.ctl)
    <2>1. mask \in SUBSET Channels
      <3>1. req.ctl \in 0 .. CtlAllOff
        BY MacCommandsAssumption
      <3> QED
        BY <1>5, <3>1, StreamTypes, MaskUpdateType
    <2>2. IF peek = "adr" THEN LinkAdrContinues(mask) ELSE LinkAdrDecides(req, mask, peek)
      BY <1>1, <1>5
    <2> HIDE DEF mask
    <2>3. CASE peek = "adr"
      <3>1. LinkAdrContinues(mask)
        BY <2>2, <2>3
      <3>2. /\ loop' \in Loop
            /\ loop'.left = loop.left - 1 /\ loop'.num_adrreq = loop.num_adrreq + 1
            /\ loop'.peek = "adr" /\ loop'.running = loop.running
            /\ asked' = asked + 1 /\ pending' = pending
        <4>1. loop.num_adrreq + 1 \in Nat /\ "adr" \in Peeks
          BY StreamTypes DEF Peeks
        <4>2. Advance("adr", mask, loop.num_adrreq + 1)
          BY <3>1 DEF LinkAdrContinues
        <4>3. asked' = asked + 1 /\ pending' = pending
          BY <3>1 DEF LinkAdrContinues
        <4> QED
          BY <1>2, <2>1, <4>1, <4>2, <4>3, AdvanceType
      <3>3. AdrCounted'
        BY <1>2, <3>2, StreamTypes DEF Stream, AdrCounted, RoomFor, PendingLen
      <3> QED
        BY <3>2, <3>3, StreamTypes DEF Stream
    <2>4. CASE peek # "adr"
      <3>1. LinkAdrDecides(req, mask, peek)
        BY <2>2, <2>4
      <3>2. CASE IndexPanics(RateAsked(conf.data_rate, req.dr))
        BY <1>3, <3>1, <3>2 DEF LinkAdrDecides, Fault
      <3>3. CASE ~IndexPanics(RateAsked(conf.data_rate, req.dr))
        <4>1. /\ pending' = AddMacCommands(pending, "LinkADRAns", loop.num_adrreq + 1)
              /\ asked' = asked + 1
              /\ BlockEnds(peek, mask)
          BY <3>1, <3>3 DEF LinkAdrDecides
        <4>2. /\ loop' \in Loop
              /\ loop'.left = loop.left - 1 /\ loop'.num_adrreq = 0
          BY <1>2, <2>1, <4>1, StreamTypes, AdvanceType DEF BlockEnds
        <4>3. /\ pending' \in Queue
              /\ PendingLen(pending') <= FoptsMaxLen
              /\ PendingLen(pending) <= PendingLen(pending')
              /\ \/ pending'["LinkADRAns"] = pending["LinkADRAns"] + (loop.num_adrreq + 1)
                 \/ /\ pending'["LinkADRAns"] < pending["LinkADRAns"] + (loop.num_adrreq + 1)
                    /\ ~RoomFor(pending', "LinkADRAns")
          <5>1. loop.num_adrreq + 1 \in Nat /\ PendingLen(pending) <= FoptsMaxLen
            BY StreamTypes DEF Stream
          <5> QED
            BY <4>1, <5>1, StreamTypes, AddBlockFits
        <4>4. PendingLen(pending') \in Nat /\ pending'["LinkADRAns"] \in Nat
          BY <4>3, QueueLen, AnswerKinds
        <4>5. AdrCounted'
          <5>1. CASE pending["LinkADRAns"] + loop.num_adrreq = asked
            BY <4>1, <4>2, <4>3, <4>4, <5>1, StreamTypes DEF AdrCounted
          <5>2. CASE /\ pending["LinkADRAns"] + loop.num_adrreq < asked
                     /\ ~RoomFor(pending, "LinkADRAns")
            <6>1. ~RoomFor(pending', "LinkADRAns")
              BY <4>3, <4>4, <5>2, StreamTypes, AnswerKinds DEF RoomFor
            <6>2. pending'["LinkADRAns"] + loop'.num_adrreq < asked'
              BY <4>1, <4>2, <4>3, <4>4, <5>2, StreamTypes DEF Stream
            <6> QED
              BY <4>2, <6>1, <6>2 DEF AdrCounted
          <5> QED
            BY <5>1, <5>2 DEF Stream, AdrCounted
        <4> QED
          BY <4>1, <4>2, <4>3, <4>5, StreamTypes DEF Stream, Queue
      <3> QED
        BY <3>2, <3>3
    <2> QED
      BY <2>3, <2>4
  <1> QED
    BY <1>4, <1>5

\* Every step keeps the stream and the queue.
LEMMA StreamStep ==
    ASSUME Stream, plan.mask \in SUBSET Channels, [Next]_vars
    PROVE  Stream'
  <1>1. UNCHANGED <<pending, loop, asked>> => Stream'
    BY DEF Stream, AdrCounted, RoomFor, PendingLen
  <1>2. CASE JoinOtaa \/ SendSpins \/ SetDatarate \/ Halted
    BY <1>1, <1>2 DEF JoinOtaa, SendSpins, SetDatarate, ChangeRate, Halted, vars
  <1>3. ASSUME Idle, loop' = loop, pending' \in Queue, PendingLen(pending') <= FoptsMaxLen,
               pending'["LinkADRAns"] = 0, asked' = 0
        PROVE  Stream'
    <2>1. loop.num_adrreq = 0
      BY <1>3 DEF Idle, Stream, AdrCounted
    <2>2. AdrCounted'
      BY <1>3, <2>1 DEF AdrCounted
    <2> QED
      BY <1>3, <2>2, StreamTypes DEF Stream, Queue
  <1>4. CASE JoinAccept
    <2>1. PICK cf, delay, offset, rx2 :
            IF IndexPanics(rx2)
            THEN Fault("join_rate")
            ELSE JoinAccepted(cf.plan, cf.installed, delay, offset, rx2)
      BY <1>4 DEF JoinAccept
    <2>2. CASE IndexPanics(rx2)
      BY <1>1, <2>1, <2>2 DEF Fault
    <2>3. CASE ~IndexPanics(rx2)
      <3>1. pending' = NoAnswers /\ asked' = 0 /\ loop' = loop
        BY <2>1, <2>3 DEF JoinAccepted
      <3> QED
        BY <1>3, <1>4, <3>1, EmptyFits, MacCommandsAssumption DEF JoinAccept
    <2> QED
      BY <2>2, <2>3
  <1>5. CASE Send
    <2>1. pending' = RetainSticky(pending) /\ asked' = 0 /\ loop' = loop
      BY <1>5 DEF Send
    <2>2. PendingLen(pending) <= FoptsMaxLen
      BY DEF Stream
    <2> QED
      BY <1>3, <1>5, <2>1, <2>2, StreamTypes, RetainFits DEF Send
  <1>6. CASE Downlink
    <2>1. PICK p \in Peeks, frm \in BOOLEAN :
            loop' = [loop EXCEPT !.running = TRUE, !.peek = p, !.mask = plan.mask, !.frm = frm]
      BY <1>6 DEF Downlink
    <2>2. pending' = NoAnswers /\ asked' = 0 /\ loop.num_adrreq = 0
      BY <1>6 DEF Downlink, Idle, Stream, AdrCounted
    <2>3. loop' = [running |-> TRUE, peek |-> p, left |-> loop.left, mask |-> plan.mask,
                   num_adrreq |-> 0, frm |-> frm]
      BY <2>1, <2>2 DEF Stream, Loop
    <2>4. loop' \in Loop
      BY <2>3, StreamTypes DEF Loop
    <2>5. pending' \in Queue /\ PendingLen(pending') = 0 /\ pending'["LinkADRAns"] = 0
      BY <2>2, EmptyFits
    <2>6. AdrCounted'
      BY <2>2, <2>3, <2>5 DEF AdrCounted
    <2> QED
      BY <2>2, <2>3, <2>4, <2>5, <2>6, StreamTypes DEF Stream, Queue
  <1>7. CASE StreamEnds
    <2>1. loop.num_adrreq = 0 /\ UNCHANGED <<pending, asked>>
      BY <1>7 DEF StreamEnds, Stream, AdrCounted
    <2>2. loop' \in Loop /\ loop'.left = loop.left /\ loop'.num_adrreq = 0
      <3>1. CASE loop.frm
        <4>1. PICK p \in Peeks :
                loop' = [loop EXCEPT !.peek = p, !.frm = FALSE, !.mask = plan.mask,
                                     !.num_adrreq = 0]
          BY <1>7, <3>1 DEF StreamEnds, NextPeek, Peeks
        <4>2. loop' = [running |-> loop.running, peek |-> p, left |-> loop.left,
                       mask |-> plan.mask, num_adrreq |-> 0, frm |-> FALSE]
          BY <4>1 DEF Stream, Loop
        <4> QED
          BY <4>2, StreamTypes DEF Loop
      <3>2. CASE ~loop.frm
        <4>1. loop' = NotRunning(loop.left)
          BY <1>7, <3>2 DEF StreamEnds
        <4> QED
          BY <4>1, StreamTypes DEF NotRunning, Loop, Peeks
      <3> QED
        BY <3>1, <3>2
    <2>3. AdrCounted'
      BY <2>1, <2>2 DEF Stream, AdrCounted, RoomFor, PendingLen
    <2> QED
      BY <2>1, <2>2, <2>3 DEF Stream
  <1>8. CASE LinkADRReq
    BY <1>8, LinkAdrKeepsStream
  <1>9. CASE IgnoredCommand
    <2>1. PICK peek \in NextPeek(loop.left - 1) : Next1(peek)
      BY <1>9 DEF IgnoredCommand
    <2>2. Handling("other") /\ UNCHANGED <<pending, asked>>
      BY <1>9 DEF IgnoredCommand
    <2>3. PendingLen(pending) <= FoptsMaxLen
      BY DEF Stream
    <2> QED
      BY <2>1, <2>2, <2>3, StreamTypes, OtherKeepsStream
  <1>10. CASE DevStatusReq
    BY <1>10, AnswerKeepsStream, AnswerKinds DEF DevStatusReq
  <1>11. CASE DlChannelReq
    BY <1>11, AnswerKeepsStream, AnswerKinds DEF DlChannelReq
  <1>12. CASE NewChannelReq
    <2>1. PICK i, f, range, peek \in NextPeek(loop.left - 1) :
            Fault("index") \/ Answered("NewChannelAns", peek)
      BY <1>12 DEF NewChannelReq
    <2>2. CASE Fault("index")
      BY <1>1, <2>2 DEF Fault
    <2>3. CASE Answered("NewChannelAns", peek)
      BY <1>12, <2>3, AnswerKeepsStream, AnswerKinds DEF NewChannelReq
    <2> QED
      BY <2>1, <2>2, <2>3
  <1>13. CASE RXParamSetupReq
    BY <1>13, AnswerKeepsStream, AnswerKinds DEF RXParamSetupReq
  <1>14. CASE RXTimingSetupReq
    BY <1>14, AnswerKeepsStream, AnswerKinds DEF RXTimingSetupReq
  <1>15. CASE UNCHANGED vars
    BY <1>1, <1>15 DEF vars
  <1> QED
    BY <1>2, <1>4, <1>5, <1>6, <1>7, <1>8, <1>9, <1>10, <1>11, <1>12, <1>13, <1>14, <1>15
       DEF Next

-----------------------------------------------------------------------------
(* The plan and the configuration.                                         *)

\* A draw changes nothing of the plan but the rotation.
OnlyRotates(p, q) ==
    /\ q \in Plan
    /\ q.channels = p.channels
    /\ q.mask = p.mask
    /\ Rotation(q.join)

\* A draw of the rotation, put into the plan.
LEMMA RotationDraws ==
    ASSUME NEW p \in Plan, NEW draws, \A d \in draws : DrawnWell(d), NEW d \in draws
    PROVE  OnlyRotates(p, [p EXCEPT !.join = d.join])
  <1>1. d.join \in JoinChannels /\ Rotation(d.join)
    BY DEF DrawnWell
  <1> QED
    BY <1>1 DEF OnlyRotates, Plan

\* The channel of a join request.
LEMMA JoinDraws ==
    ASSUME NEW r, NEW p \in Plan, Rotation(p.join), NEW dr,
           NEW o \in SelectJoinChannel(r, p, dr)
    PROVE  OnlyRotates(p, o.plan)
  <1>1. p.join \in JoinChannels
    BY DEF Plan
  <1>2. CASE HasFixedChannelPlan(r)
    <2>1. PICK d \in GetNextChannel(p.join) : o.plan = [p EXCEPT !.join = d.join]
      BY <1>2 DEF SelectJoinChannel, FromRotation, Outcome
    <2> QED
      BY <1>1, <2>1, GetNextDraws, RotationDraws
  <1>3. CASE ~HasFixedChannelPlan(r)
    <2>1. o.plan = p
      BY <1>3 DEF SelectJoinChannel, Outcome
    <2> QED
      BY <2>1 DEF OnlyRotates
  <1> QED
    BY <1>2, <1>3

\* Without a retry that a bias goes by, a draw leaves a fixed plan as it is.
LEMMA DataDraws ==
    ASSUME NEW r, NEW p \in Plan, Rotation(p.join), NEW dr,
           NEW o \in SelectDataChannel(r, p, dr)
    PROVE  /\ OnlyRotates(p, o.plan)
           /\ p.join.num_retries = 0 => o.plan = p
  <1>1. p.join \in JoinChannels
    BY DEF Plan
  <1>2. OnlyRotates(p, p)
    BY DEF OnlyRotates
  <1>3. CASE ~HasFixedChannelPlan(r)
    <2>1. o.plan = p
      BY <1>3 DEF SelectDataChannel, Outcome
    <2> QED
      BY <1>2, <2>1
  <1>4. CASE HasFixedChannelPlan(r) /\ HasBiasAndNotExhausted(p.join)
    <2>1. o \in FromRotation(p, GetNextChannel(p.join))
      BY <1>4 DEF SelectDataChannel, SelectFixedDataChannel
    <2>2. PICK d \in GetNextChannel(p.join) : o.plan = [p EXCEPT !.join = d.join]
      BY <2>1 DEF FromRotation, Outcome
    <2>3. p.join.num_retries # 0
      BY <1>4 DEF HasBiasAndNotExhausted
    <2> QED
      BY <1>1, <2>2, <2>3, GetNextDraws, RotationDraws
  <1>5. CASE /\ HasFixedChannelPlan(r)
             /\ ~HasBiasAndNotExhausted(p.join) /\ HasFirstDataChannel(p.join)
    <2>1. PICK d \in FirstDataChannel(p.join) : o.plan = [p EXCEPT !.join = d.join]
      BY <1>5 DEF SelectDataChannel, SelectFixedDataChannel, Outcome
    <2>2. p.join.num_retries # 0
      BY <1>5 DEF HasFirstDataChannel
    <2> QED
      BY <1>1, <2>1, <2>2, FirstDataDraws, RotationDraws
  <1>6. CASE /\ HasFixedChannelPlan(r)
             /\ ~HasBiasAndNotExhausted(p.join) /\ ~HasFirstDataChannel(p.join)
    <2>1. o.plan = p
      BY <1>6 DEF SelectDataChannel, SelectFixedDataChannel, Outcome
    <2> QED
      BY <1>2, <2>1
  <1> QED
    BY <1>3, <1>4, <1>5, <1>6

\* A new mask restarts the join rotation of a fixed plan.
LEMMA MaskSetSound ==
    ASSUME NEW r, NEW p, PlanSound(r, p), NEW mask \in SUBSET Channels,
           NEW q, q = ChannelMaskSet(r, p, mask)
    PROVE  /\ PlanSound(r, q) /\ q.mask = mask /\ q.channels = p.channels
           /\ HasFixedChannelPlan(r) => q.join.num_retries = 0
  <1>1. p \in Plan /\ p.join \in JoinChannels
    BY DEF PlanSound, Plan
  <1>2. CASE HasFixedChannelPlan(r)
    <2>1. q = [channels |-> p.channels, mask |-> mask, join |-> ResetJoin(p.join)]
      BY <1>1, <1>2 DEF ChannelMaskSet, Plan
    <2>2. q \in Plan
      BY <1>1, <2>1, ResetRotation DEF Plan
    <2> QED
      BY <1>1, <1>2, <2>1, <2>2, ResetRotation DEF PlanSound
  <1>3. CASE ~HasFixedChannelPlan(r)
    <2>1. q = [p EXCEPT !.mask = mask]
      BY <1>3 DEF ChannelMaskSet
    <2>2. q \in Plan /\ q.channels = p.channels /\ q.join = p.join /\ q.mask = mask
      BY <1>1, <2>1 DEF Plan
    <2> QED
      BY <1>3, <2>2 DEF PlanSound
  <1> QED
    BY <1>2, <1>3

\* A mask that channel_mask_validate takes serves the data rate.
LEMMA ValidatedServes ==
    ASSUME NEW r \in Region, NEW p, NEW q, NEW mask \in SUBSET Channels, NEW dr \in Nat,
           ChannelMaskValidate(r, p, mask, dr), Supported(r, dr),
           q.mask = mask, q.channels = p.channels
    PROVE  MaskServes(r, q, dr)
  <1>1. CASE HasFixedChannelPlan(r)
    <2>1. GetDatarate(r, dr).bw \in {125, 500}
      BY <1>1, RegionRates DEF RatesUsable
    <2>2. CASE GetDatarate(r, dr).bw = 500
      BY <1>1, <2>2 DEF ChannelMaskValidate, MaskServes
    <2>3. CASE GetDatarate(r, dr).bw = 125
      <3>1. Cardinality(Narrow \cap mask) >= 2
        BY <1>1, <2>3 DEF ChannelMaskValidate
      <3>2. Narrow \cap mask # {}
        BY <3>1, FS_EmptySet
      <3> QED
        BY <1>1, <2>3, <3>2 DEF MaskServes
    <2> QED
      BY <2>1, <2>2, <2>3
  <1>2. CASE ~HasFixedChannelPlan(r)
    BY <1>2 DEF ChannelMaskValidate, MaskServes, Exists
  <1> QED
    BY <1>1, <1>2

\* The frequencies of a CFList or a command are integers.
LEMMA FreqsType ==
    ASSUME region \in Region
    PROVE  Freqs \subseteq Nat
  BY RegionFrequencies DEF Freqs, ParametersUsable, NoFreq

\* A CFList writes no join channel, and clears the retries when it is a mask.
LEMMA CfListSound ==
    ASSUME Settings, NEW cf \in CfLists
    PROVE  /\ PlanSound(region, cf.plan)
           /\ cf.installed \in BOOLEAN
           /\ cf.installed /\ HasFixedChannelPlan(region) => cf.plan.join.num_retries = 0
  <1>1. PlanSound(region, plan) /\ region \in Region
    BY MacCommandsAssumption DEF Settings
  <1>2. CASE cf = [plan |-> plan, installed |-> FALSE]
    BY <1>1, <1>2
  <1>3. CASE /\ HasFixedChannelPlan(region)
             /\ cf \in {[plan |-> FixedCfList(region, plan, m), installed |-> TRUE] : m \in CfMasks}
    <2>1. PICK m \in CfMasks : cf.plan = ChannelMaskSet(region, plan, m) /\ cf.installed = TRUE
      BY <1>3 DEF FixedCfList
    <2>2. m \in SUBSET Channels
      BY MacCommandsAssumption
    <2>3. /\ PlanSound(region, cf.plan)
          /\ HasFixedChannelPlan(region) => cf.plan.join.num_retries = 0
      BY ONLY <1>1, <2>1, <2>2, MaskSetSound
    <2> QED
      BY <2>1, <2>3
  <1>4. CASE /\ ~HasFixedChannelPlan(region)
             /\ cf \in {[plan |-> DynamicCfList(region, plan, fs), installed |-> FALSE] :
                            fs \in [1 .. CfListLen -> Freqs]}
    <2>1. PICK fs \in [1 .. CfListLen -> Freqs] :
            cf.plan = DynamicCfList(region, plan, fs) /\ cf.installed = FALSE
      BY <1>4
    <2> DEFINE J == NumJoin(region)
               chans == [i \in Index |-> IF i >= J /\ i < J + CfListLen
                                         THEN Channel(fs[i - J + 1]) ELSE plan.channels[i]]
    <2>2. plan \in Plan /\ plan.channels \in [Index -> [freq : Int, dl : Int]]
      BY <1>1 DEF PlanSound, Plan
    <2>3. cf.plan = [plan EXCEPT !.channels = chans]
      BY <2>1, <2>2 DEF DynamicCfList, Plan
    <2>4. J \in Nat /\ CfListLen \in Nat
      BY <1>1, RegionFrequencies, ChannelPlanAssumption DEF ParametersUsable
    <2>5. chans \in [Index -> [freq : Int, dl : Int]]
      <3> SUFFICES ASSUME NEW i \in Index
                   PROVE  (IF i >= J /\ i < J + CfListLen
                           THEN Channel(fs[i - J + 1]) ELSE plan.channels[i])
                              \in [freq : Int, dl : Int]
        OBVIOUS
      <3>1. i \in Nat
        BY IndexIsTwoBanks, BanksType
      <3>2. i >= J /\ i < J + CfListLen => i - J + 1 \in 1 .. CfListLen
        BY <2>4, <3>1
      <3>3. i >= J /\ i < J + CfListLen => fs[i - J + 1] \in Int
        BY <1>1, <3>2, FreqsType
      <3> QED
        BY <2>2, <3>3 DEF Channel, NoDl
    <2>6. \A i \in 0 .. J - 1 : chans[i].freq = plan.channels[i].freq
      <3>1. J <= NumDynamic
        BY MacCommandsAssumption DEF Settings
      <3>2. \A i \in 0 .. J - 1 : i \in Index /\ ~(i >= J)
        BY <2>4, <3>1, BanksType DEF Index, NumDynamic
      <3> QED
        BY <3>2
    <2> HIDE DEF chans
    <2>7. cf.plan \in Plan /\ cf.plan.channels = chans /\ cf.plan.join = plan.join
      BY <2>2, <2>3, <2>5 DEF Plan
    <2> QED
      BY <1>1, <1>4, <2>1, <2>6, <2>7 DEF PlanSound
  <1> QED
    BY <1>2, <1>3, <1>4 DEF CfLists

\* DlChannelReq only changes the downlink frequency of a channel.
LEMMA DlUpdateSound ==
    ASSUME Settings, NEW i \in Nat, NEW f \in Nat,
           NEW q, q = ChannelDlUpdate(region, plan, i, f).plan
    PROVE  /\ PlanSound(region, q) /\ q.mask = plan.mask /\ q.join = plan.join
           /\ \A k \in Index : Exists(q, k) <=> Exists(plan, k)
  <1>1. PlanSound(region, plan) /\ plan \in Plan
    BY DEF Settings, PlanSound
  <1>2. CASE q = plan
    BY <1>1, <1>2
  <1>3. CASE q # plan
    <2> DEFINE dl == IF f = plan.channels[i].freq THEN NoDl ELSE f
    <2>1. i \in Index /\ q = [plan EXCEPT !.channels[i].dl = dl]
      BY <1>3 DEF ChannelDlUpdate, Acks
    <2>2. dl \in Int
      BY DEF NoDl
    <2> HIDE DEF dl
    <2>3. q \in Plan /\ q.mask = plan.mask /\ q.join = plan.join
      BY SMTT(30), <1>1, <2>1, <2>2 DEF Plan
    <2>4. \A k \in Index : q.channels[k].freq = plan.channels[k].freq
      BY <1>1, <2>1, <2>2 DEF Plan
    <2>5. ~HasFixedChannelPlan(region) => \A k \in 0 .. NumJoin(region) - 1 : k \in Index
      <3>1. NumJoin(region) \in Nat /\ NumJoin(region) <= NumDynamic
        BY RegionFrequencies, MacCommandsAssumption DEF Settings, ParametersUsable
      <3> QED
        BY <3>1, BanksType DEF Index, NumDynamic
    <2> QED
      BY <1>1, <2>3, <2>4, <2>5 DEF PlanSound, Exists
  <1> QED
    BY <1>2, <1>3

\* NewChannelReq writes no join channel, and takes a channel away only with a
\* zero frequency.
LEMMA NewChannelSound ==
    ASSUME Settings, NEW i \in Nat, NEW f \in Nat, NEW range, ~HasFixedChannelPlan(region),
           NEW q, q = HandleNewChannel(region, plan, i, f, range).plan
    PROVE  /\ PlanSound(region, q) /\ q.join = plan.join
           /\ ~(Writable(region, i) /\ f = NoFreq) =>
                (MaskServes(region, plan, conf.data_rate) => MaskServes(region, q, conf.data_rate))
  <1>1. PlanSound(region, plan) /\ plan \in Plan
    BY DEF Settings, PlanSound
  <1>2. NumJoin(region) \in Nat /\ NumJoin(region) <= NumDynamic
    BY RegionFrequencies, MacCommandsAssumption DEF Settings, ParametersUsable
  <1>3. \A k \in 0 .. NumJoin(region) - 1 : k \in Index /\ ~(k >= NumJoin(region))
    BY <1>2, BanksType DEF Index, NumDynamic
  <1>4. CASE q = plan
    BY <1>1, <1>4
  <1>5. CASE Writable(region, i) /\ f = NoFreq
    <2>1. q = [plan EXCEPT !.channels[i] = NoneChannel, !.mask = @ \ {i}]
      BY <1>5 DEF HandleNewChannel, Acks
    <2>2. i \in Index /\ NoneChannel \in [freq : Int, dl : Int]
      BY <1>5 DEF Writable, NoneChannel, Channel, NoFreq, NoDl
    <2>3. q = [channels |-> [plan.channels EXCEPT ![i] = NoneChannel],
               mask |-> plan.mask \ {i}, join |-> plan.join]
      BY <1>1, <2>1 DEF Plan
    <2>4. q \in Plan
      BY <1>1, <2>2, <2>3 DEF Plan
    <2>5. \A k \in Index \ {i} : q.channels[k] = plan.channels[k]
      BY <1>1, <2>3 DEF Plan
    <2> QED
      BY <1>1, <1>3, <1>5, <2>2, <2>3, <2>4, <2>5 DEF PlanSound, Writable
  <1>6. CASE Writable(region, i) /\ f # NoFreq /\ q # plan
    <2>1. q = [plan EXCEPT !.channels[i] = Channel(f), !.mask = @ \cup {i}]
      BY <1>6 DEF HandleNewChannel, Acks
    <2>2. i \in Index /\ Channel(f) \in [freq : Int, dl : Int] /\ Channel(f).freq = f
      BY <1>6 DEF Writable, Channel, NoDl
    <2>3. q = [channels |-> [plan.channels EXCEPT ![i] = Channel(f)],
               mask |-> plan.mask \cup {i}, join |-> plan.join]
      BY <1>1, <2>1 DEF Plan
    <2>4. q \in Plan
      BY <1>1, <2>2, <2>3, IndexIsTwoBanks DEF Plan
    <2>5. \A k \in Index \ {i} : q.channels[k] = plan.channels[k]
      BY <1>1, <2>3 DEF Plan
    <2>6. i \in q.mask /\ Exists(q, i)
      BY <1>1, <1>6, <2>2, <2>3 DEF Exists, Plan
    <2>7. PlanSound(region, q)
      BY <1>1, <1>3, <1>6, <2>2, <2>3, <2>4, <2>5 DEF PlanSound, Writable
    <2>8. MaskServes(region, q, conf.data_rate)
      BY <2>2, <2>6 DEF MaskServes
    <2> QED
      BY <2>3, <2>7, <2>8
  <1> QED
    BY <1>4, <1>5, <1>6 DEF HandleNewChannel, Acks

\* The region, its tables and the rates in use.
LEMMA SettingsTypes ==
    ASSUME Settings
    PROVE  /\ region \in Region
           /\ plan \in Plan /\ plan.mask \in SUBSET Channels /\ Rotation(plan.join)
           /\ conf \in Conf
           /\ conf.data_rate \in 0 .. NumDatarates - 1
  <1>1. region \in Region /\ plan \in Plan /\ conf \in Conf /\ Supported(region, conf.data_rate)
    BY MacCommandsAssumption DEF Settings, PlanSound, ConfSound
  <1>2. plan.mask \in SUBSET Channels /\ Rotation(plan.join) /\ conf.data_rate \in 0 .. 15
    BY <1>1 DEF Settings, PlanSound, Plan, Conf
  <1>3. conf.data_rate < NumDatarates
    BY <1>1, <1>2, RegionRates DEF RatesUsable
  <1> QED
    BY <1>1, <1>2, <1>3 DEF NumDatarates

\* A plan that only rotates is as sound as before and serves the same rates.
LEMMA RotatedSound ==
    ASSUME Settings, NEW q, OnlyRotates(plan, q)
    PROVE  /\ PlanSound(region, q)
           /\ MaskServes(region, plan, conf.data_rate) => MaskServes(region, q, conf.data_rate)
  BY DEF Settings, OnlyRotates, PlanSound, MaskServes, Exists

\* The last request of a block installs a mask that serves the rate it asks for.
LEMMA LinkAdrKeepsSettings ==
    ASSUME Stream, Settings, LinkADRReq
    PROVE  Settings' /\ (fault' = fault \/ fault' = "bank")
  <1>1. PICK req \in LinkAdrReqs, peek \in NextPeek(loop.left - 1) :
            LET mask == ChannelMaskUpdate(region, loop.mask, req.ctl, req.bits)
            IN  CASE UpdatePanics(req.ctl) -> Fault("bank")
                  [] ~UpdatePanics(req.ctl) /\ peek = "adr" -> LinkAdrContinues(mask)
                  [] OTHER -> LinkAdrDecides(req, mask, peek)
    BY DEF LinkADRReq
  <1> DEFINE mask == ChannelMaskUpdate(region, loop.mask, req.ctl, req.bits)
             dr == RateAsked(conf.data_rate, req.dr)
             cm_ack == ChannelMaskValidate(region, plan, mask, dr)
             accepted == cm_ack /\ Supported(region, dr) /\ PowerOk(req.pw)
  <1>2. UNCHANGED <<region, plan, conf, eroded, maskHere>> => Settings'
    BY DEF Settings
  <1>3. CASE UpdatePanics(req.ctl)
    BY <1>1, <1>2, <1>3 DEF Fault
  <1>4. CASE ~UpdatePanics(req.ctl) /\ peek = "adr"
    BY <1>1, <1>2, <1>4 DEF LinkAdrContinues
  <1>5. CASE ~UpdatePanics(req.ctl) /\ peek # "adr"
    <2>1. req.ctl \in 0 .. CtlAllOff /\ req.dr \in 0 .. 15 /\ req.pw \in 0 .. 15
      BY MacCommandsAssumption
    <2>2. mask \in SUBSET Channels
      BY <1>5, <2>1, StreamTypes, MaskUpdateType
    <2>3. dr \in 0 .. NumDatarates - 1
      BY <2>1, SettingsTypes DEF RateAsked, NumDatarates
    <2>4. ~IndexPanics(dr)
      BY <2>3 DEF IndexPanics, NumDatarates
    <2>5. LinkAdrDecides(req, mask, peek)
      BY <1>1, <1>5
    <2>6. /\ conf' = IF accepted
                     THEN [conf EXCEPT !.data_rate = dr, !.tx_power = PowerAsked(req.pw)]
                     ELSE conf
          /\ plan' = IF accepted THEN ChannelMaskSet(region, plan, mask) ELSE plan
          /\ eroded' = (eroded /\ ~accepted)
          /\ maskHere' = (maskHere \/ accepted)
          /\ UNCHANGED <<region, state, fault>>
      BY <2>4, <2>5 DEF LinkAdrDecides
    <2> HIDE DEF mask, dr
    <2>7. CASE ~accepted
      <3>1. conf' = conf /\ plan' = plan
        BY <2>6, <2>7
      <3>2. eroded' = eroded /\ maskHere' = maskHere
        <4>1. eroded \in BOOLEAN /\ maskHere \in BOOLEAN
          BY DEF Settings
        <4> HIDE DEF accepted
        <4> QED
          BY <2>6, <2>7, <4>1
      <3> QED
        BY <1>2, <2>6, <3>1, <3>2
    <2>8. CASE accepted
      <3>1. /\ plan' = ChannelMaskSet(region, plan, mask)
            /\ conf' = [conf EXCEPT !.data_rate = dr, !.tx_power = PowerAsked(req.pw)]
        BY <2>6, <2>8
      <3>2. eroded' = FALSE /\ maskHere' = TRUE
        <4>1. eroded \in BOOLEAN /\ maskHere \in BOOLEAN
          BY DEF Settings
        <4> HIDE DEF accepted
        <4> QED
          BY <2>6, <2>8, <4>1
      <3>3. PlanSound(region, plan)
        BY DEF Settings
      <3>4. /\ PlanSound(region, plan')
            /\ plan'.mask = mask /\ plan'.channels = plan.channels
            /\ HasFixedChannelPlan(region) => plan'.join.num_retries = 0
        BY ONLY <2>2, <3>1, <3>3, MaskSetSound
      <3>5. Supported(region, dr) /\ ChannelMaskValidate(region, plan, mask, dr)
        BY <2>8
      <3>6. MaskServes(region, plan', dr)
        <4>1. dr \in Nat /\ region \in Region
          BY <2>3, SettingsTypes DEF NumDatarates
        <4> QED
          BY <2>2, <3>4, <3>5, <4>1, ValidatedServes
      <3>7. PowerAsked(req.pw) \in Int
        <4>1. conf.tx_power \in Int
          BY SettingsTypes DEF Conf
        <4>2. TxPowerAdjust(region, req.pw) \in Int
          BY <2>1, SettingsTypes, PowerType
        <4> QED
          BY <4>1, <4>2 DEF PowerAsked
      <3>8. conf' = [data_rate |-> dr, tx_power |-> PowerAsked(req.pw),
                     rx1_delay |-> conf.rx1_delay, rx1_dr_offset |-> conf.rx1_dr_offset,
                     rx2_data_rate |-> conf.rx2_data_rate, rx2_frequency |-> conf.rx2_frequency]
        BY <3>1, SettingsTypes DEF Conf
      <3>9. conf' \in Conf
        BY <2>3, <3>7, <3>8, SettingsTypes DEF Conf, NumDatarates
      <3>10. ConfSound(region, conf')
        BY <3>5, <3>8, <3>9 DEF Settings, ConfSound
      <3>11. conf'.data_rate = dr /\ region' = region
        BY <2>6, <3>8
      <3> HIDE DEF accepted
      <3> QED
        BY <2>6, <3>2, <3>4, <3>6, <3>10, <3>11 DEF Settings
    <2> QED
      BY <2>7, <2>8
  <1> QED
    BY <1>3, <1>4, <1>5

\* A join accept keeps the data rate, and takes only what the region has.
LEMMA JoinAcceptKeepsSettings ==
    ASSUME Settings, JoinAccept
    PROVE  Settings' /\ (fault' = fault \/ fault' = "join_rate")
  <1>1. PICK cf \in CfLists, delay \in Delays, offset \in Offsets, rx2 \in Rx2Rates :
            IF IndexPanics(rx2)
            THEN Fault("join_rate")
            ELSE JoinAccepted(cf.plan, cf.installed, delay, offset, rx2)
    BY DEF JoinAccept
  <1>2. CASE IndexPanics(rx2)
    <2>1. Fault("join_rate")
      BY <1>1, <1>2
    <2> QED
      BY <2>1 DEF Fault, Settings
  <1>3. CASE ~IndexPanics(rx2)
    <2>1. JoinAccepted(cf.plan, cf.installed, delay, offset, rx2)
      BY <1>1, <1>3
    <2>2. delay \in 1 .. 15 /\ offset \in 0 .. 7 /\ rx2 \in 0 .. 15
      BY MacCommandsAssumption
    <2> DEFINE off == IF Rx1DrOffsetValid(region, offset) THEN offset ELSE conf.rx1_dr_offset
               rate == IF Supported(region, rx2) THEN rx2 ELSE conf.rx2_data_rate
    <2>3. conf' = [data_rate |-> conf.data_rate, tx_power |-> conf.tx_power,
                   rx1_delay |-> delay, rx1_dr_offset |-> off,
                   rx2_data_rate |-> rate, rx2_frequency |-> conf.rx2_frequency]
      BY <2>1, SettingsTypes DEF JoinAccepted, Conf
    <2>4. off \in 0 .. 7 /\ Rx1DrOffsetValid(region, off)
      BY <2>2, SettingsTypes DEF Settings, ConfSound, Conf
    <2>5. rate \in 0 .. NumDatarates /\ (rate # NumDatarates => Supported(region, rate))
      BY <2>2, SettingsTypes DEF Settings, ConfSound, Conf, NumDatarates
    <2> HIDE DEF off, rate
    <2>6. conf' \in Conf
      BY <2>2, <2>3, <2>4, <2>5, SettingsTypes DEF Conf
    <2>7. ConfSound(region, conf')
      BY <2>3, <2>4, <2>5, <2>6 DEF Settings, ConfSound
    <2>8. /\ PlanSound(region, plan')
          /\ maskHere' \in BOOLEAN
          /\ maskHere' /\ HasFixedChannelPlan(region) => plan'.join.num_retries = 0
      BY <2>1, CfListSound DEF JoinAccepted
    <2>9. /\ eroded' = (eroded \/ cf.plan # plan)
          /\ plan' = cf.plan /\ region' = region /\ fault' = fault
      BY <2>1 DEF JoinAccepted
    <2>10. ~eroded' => ~eroded /\ plan' = plan
      BY <2>9
    <2>11. eroded' \in BOOLEAN
      BY <2>9
    <2>12. conf'.data_rate = conf.data_rate
      BY <2>3
    <2>13. ~eroded' => MaskServes(region, plan', conf'.data_rate)
      BY <2>10, <2>12 DEF Settings
    <2> QED
      BY <2>7, <2>8, <2>9, <2>11, <2>13 DEF Settings
  <1> QED
    BY <1>2, <1>3

\* Every step keeps the settings sound and reaches no panic but the known ones.
LEMMA SettingsStep ==
    ASSUME Stream, Settings, [Next]_vars
    PROVE  /\ Settings'
           /\ fault' = fault \/ fault' \in {"bank", "join_rate", "spin"}
  <1>1. UNCHANGED <<region, plan, conf, eroded, maskHere>> => Settings'
    BY DEF Settings
  <1>2. CASE SendSpins \/ Downlink \/ StreamEnds \/ DevStatusReq \/ IgnoredCommand \/ Halted
    BY <1>1, <1>2 DEF SendSpins, Downlink, StreamEnds, DevStatusReq, IgnoredCommand, Answered,
                      Halted, vars
  <1>3. CASE JoinOtaa
    <2>1. PICK o \in SelectJoinChannel(region, plan, conf.data_rate) : plan' = o.plan
      BY <1>3 DEF JoinOtaa
    <2>2. OnlyRotates(plan, plan')
      BY <2>1, SettingsTypes, JoinDraws
    <2>3. PlanSound(region, plan')
          /\ (MaskServes(region, plan, conf.data_rate) => MaskServes(region, plan', conf.data_rate))
      BY <2>2, RotatedSound
    <2> QED
      BY <1>3, <2>3 DEF JoinOtaa, Settings
  <1>4. CASE JoinAccept
    BY <1>4, JoinAcceptKeepsSettings
  <1>5. CASE Send
    <2>1. PICK o \in SelectDataChannel(region, plan, conf.data_rate) : plan' = o.plan
      BY <1>5 DEF Send
    <2>2. OnlyRotates(plan, plan') /\ (plan.join.num_retries = 0 => plan' = plan)
      BY <2>1, SettingsTypes, DataDraws
    <2>3. PlanSound(region, plan')
          /\ (MaskServes(region, plan, conf.data_rate) => MaskServes(region, plan', conf.data_rate))
      BY <2>2, RotatedSound
    <2> QED
      BY <1>5, <2>2, <2>3 DEF Send, Settings
  <1>6. CASE SetDatarate
    <2>1. PICK dr \in AppRates : Supported(region, dr) /\ ChangeRate(dr)
      BY <1>6 DEF SetDatarate
    <2>2. dr \in 0 .. 15
      BY MacCommandsAssumption
    <2>3. conf' = [conf EXCEPT !.data_rate = dr]
      BY <2>1 DEF ChangeRate
    <2>4. conf' \in Conf
      BY <2>2, <2>3, SettingsTypes DEF Conf
    <2>5. ConfSound(region, conf') /\ conf'.data_rate = dr
      BY <2>1, <2>3, <2>4, SettingsTypes DEF Settings, ConfSound, Conf
    <2>6. /\ UNCHANGED <<region, plan, maskHere, fault>>
          /\ eroded' = (eroded \/ HasFixedChannelPlan(region))
      BY <2>1 DEF ChangeRate
    <2>7. ~HasFixedChannelPlan(region) =>
            (MaskServes(region, plan, conf.data_rate) => MaskServes(region, plan, dr))
      BY DEF MaskServes
    <2>8. ~eroded' => MaskServes(region, plan, dr)
      BY <2>6, <2>7 DEF Settings
    <2>9. eroded' \in BOOLEAN
      BY <2>6 DEF HasFixedChannelPlan
    <2> QED
      BY <2>5, <2>6, <2>8, <2>9 DEF Settings
  <1>7. CASE LinkADRReq
    BY <1>7, LinkAdrKeepsSettings
  <1>8. CASE DlChannelReq
    <2>1. PICK i \in ChannelIndices, f \in Freqs :
            /\ plan' = ChannelDlUpdate(region, plan, i, f).plan
            /\ UNCHANGED <<region, fault, maskHere>>
      BY <1>8 DEF DlChannelReq, Answered
    <2>2. i \in Nat /\ f \in Nat
      BY SettingsTypes, FreqsType, MacCommandsAssumption
    <2>3. /\ PlanSound(region, plan') /\ plan'.mask = plan.mask /\ plan'.join = plan.join
          /\ \A k \in Index : Exists(plan', k) <=> Exists(plan, k)
      BY <2>1, <2>2, DlUpdateSound
    <2>4. MaskServes(region, plan, conf.data_rate) => MaskServes(region, plan', conf.data_rate)
      BY <2>3 DEF MaskServes
    <2>5. UNCHANGED <<conf, eroded>>
      BY <1>8 DEF DlChannelReq
    <2> QED
      BY <2>1, <2>3, <2>4, <2>5 DEF Settings
  <1>9. CASE NewChannelReq
    <2>1. PICK i \in ChannelIndices, f \in Freqs, range \in RateRanges,
               peek \in NextPeek(loop.left - 1) :
            IF Writable(region, i) /\ i \notin Index
            THEN Fault("index")
            ELSE /\ plan' = HandleNewChannel(region, plan, i, f, range).plan
                 /\ eroded' = (eroded \/ (Writable(region, i) /\ f = NoFreq))
                 /\ Answered("NewChannelAns", peek)
                 /\ UNCHANGED conf
      BY <1>9 DEF NewChannelReq
    <2>2. ~(Writable(region, i) /\ i \notin Index)
      BY DEF Writable
    <2>3. /\ plan' = HandleNewChannel(region, plan, i, f, range).plan
          /\ eroded' = (eroded \/ (Writable(region, i) /\ f = NoFreq))
          /\ UNCHANGED <<region, fault, maskHere, conf>>
      BY <2>1, <2>2 DEF Answered
    <2>4. i \in Nat /\ f \in Nat /\ ~HasFixedChannelPlan(region)
      BY <1>9, SettingsTypes, FreqsType, MacCommandsAssumption DEF NewChannelReq
    <2>5. /\ PlanSound(region, plan') /\ plan'.join = plan.join
          /\ ~(Writable(region, i) /\ f = NoFreq) =>
                (MaskServes(region, plan, conf.data_rate)
                    => MaskServes(region, plan', conf.data_rate))
      BY <2>3, <2>4, NewChannelSound
    <2>6. eroded' \in BOOLEAN
      BY <2>3 DEF Writable
    <2>7. ~eroded' => MaskServes(region, plan', conf.data_rate)
      BY <2>3, <2>5 DEF Settings
    <2> QED
      BY <2>3, <2>5, <2>6, <2>7 DEF Settings
  <1>10. CASE RXParamSetupReq
    <2>1. PICK f \in Freqs, offset \in Offsets, rx2 \in Rx2Rates :
            /\ conf' = IF /\ Rx2FrequencyAck(region, f)
                          /\ rx2 = 15 \/ Supported(region, rx2)
                          /\ Rx1DrOffsetValid(region, offset)
                       THEN [conf EXCEPT
                                !.rx2_data_rate = IF rx2 = 15 THEN conf.rx2_data_rate ELSE rx2,
                                !.rx2_frequency = f, !.rx1_dr_offset = offset]
                       ELSE conf
            /\ UNCHANGED <<region, fault, maskHere>>
      BY <1>10 DEF RXParamSetupReq, Answered
    <2>2. UNCHANGED <<plan, eroded>>
      BY <1>10 DEF RXParamSetupReq
    <2>3. f \in Nat /\ offset \in 0 .. 7 /\ rx2 \in 0 .. 15
      BY SettingsTypes, FreqsType, MacCommandsAssumption
    <2>4. CASE conf' = conf
      BY <1>1, <2>1, <2>2, <2>4
    <2>5. CASE conf' # conf
      <3> DEFINE rate == IF rx2 = 15 THEN conf.rx2_data_rate ELSE rx2
      <3>1. /\ FrequencyValid(region, f) /\ (rx2 = 15 \/ Supported(region, rx2))
            /\ Rx1DrOffsetValid(region, offset)
            /\ conf' = [conf EXCEPT !.rx2_data_rate = rate, !.rx2_frequency = f,
                                    !.rx1_dr_offset = offset]
        BY <2>1, <2>5 DEF Rx2FrequencyAck
      <3>2. /\ rate \in 0 .. NumDatarates
            /\ rate # NumDatarates => Supported(region, rate)
        BY <2>3, <3>1, SettingsTypes DEF Settings, ConfSound, Conf, NumDatarates
      <3> HIDE DEF rate
      <3>3. conf' = [data_rate |-> conf.data_rate, tx_power |-> conf.tx_power,
                     rx1_delay |-> conf.rx1_delay, rx1_dr_offset |-> offset,
                     rx2_data_rate |-> rate, rx2_frequency |-> f]
        BY <3>1, SettingsTypes DEF Conf
      <3>4. conf' \in Conf
        BY <2>3, <3>2, <3>3, SettingsTypes DEF Conf
      <3>5. ConfSound(region, conf')
        BY <3>1, <3>2, <3>3, <3>4 DEF Settings, ConfSound
      <3>6. conf'.data_rate = conf.data_rate
        BY <3>3
      <3> QED
        BY <2>1, <2>2, <3>5, <3>6 DEF Settings
    <2> QED
      BY <2>1, <2>4, <2>5
  <1>11. CASE RXTimingSetupReq
    <2>1. PICK delay \in Delays :
            conf' = [conf EXCEPT !.rx1_delay = delay] /\ UNCHANGED <<region, fault, maskHere>>
      BY <1>11 DEF RXTimingSetupReq, Answered
    <2>2. UNCHANGED <<plan, eroded>>
      BY <1>11 DEF RXTimingSetupReq
    <2>3. delay \in 1 .. 15
      BY MacCommandsAssumption
    <2>4. conf' \in Conf
      BY <2>1, <2>3, SettingsTypes DEF Conf
    <2>5. ConfSound(region, conf') /\ conf'.data_rate = conf.data_rate
      BY <2>1, <2>4, SettingsTypes DEF Settings, ConfSound, Conf
    <2> QED
      BY <2>1, <2>2, <2>5 DEF Settings
  <1>12. CASE UNCHANGED vars
    BY <1>1, <1>12 DEF vars
  <1> QED
    BY <1>2, <1>3, <1>4, <1>5, <1>6, <1>7, <1>8, <1>9, <1>10, <1>11, <1>12 DEF Next

-----------------------------------------------------------------------------
(* The invariant.                                                          *)

\* The plan of a new device is sound and serves the default data rate.
LEMMA InitPlanSound ==
    ASSUME NEW r \in RegionsUsed, NEW subband \in 0 .. Banks, NEW max_retries \in Nat,
           NEW p, p = NewPlan(r, subband, max_retries)
    PROVE  PlanSound(r, p) /\ MaskServes(r, p, DefaultDatarate) /\ p.join.num_retries = 0
  <1>1. r \in Region /\ NumJoin(r) \in Nat /\ NumJoin(r) <= NumDynamic
    BY RegionFrequencies, MacCommandsAssumption DEF ParametersUsable
  <1>2. \A i \in 1 .. NumJoin(r) : JoinFrequencies(r)[i] \in Nat \ {0}
    BY <1>1, RegionFrequencies DEF ParametersUsable
  <1>3. 0 \in Channels /\ 0 \in Narrow
    BY Layout, BanksType
  <1>4. NewJoinChannels(subband, max_retries) \in JoinChannels
    BY <1>3 DEF NewJoinChannels, JoinChannels
  <1>5. InitChannels(r) \in [Index -> [freq : Int, dl : Int]]
    <2> SUFFICES ASSUME NEW i \in Index
                 PROVE  (IF ~HasFixedChannelPlan(r) /\ i < NumJoin(r)
                         THEN Channel(JoinFrequencies(r)[i + 1]) ELSE NoneChannel)
                            \in [freq : Int, dl : Int]
      BY DEF InitChannels
    <2>1. i \in Nat
      BY IndexIsTwoBanks, BanksType
    <2>2. i < NumJoin(r) => JoinFrequencies(r)[i + 1] \in Int
      BY <1>1, <1>2, <2>1
    <2> QED
      BY <2>2 DEF NoneChannel, Channel, NoFreq, NoDl
  <1>6. p \in Plan
    BY <1>4, <1>5 DEF NewPlan, Plan
  <1>7. Rotation(p.join) /\ p.join.num_retries = 0 /\ p.mask = Channels
        /\ p.channels = InitChannels(r)
    BY DEF NewPlan, NewJoinChannels, Rotation
  <1>8. ~HasFixedChannelPlan(r) =>
            \A i \in 0 .. NumJoin(r) - 1 : p.channels[i].freq = JoinFrequencies(r)[i + 1]
    <2>1. \A i \in 0 .. NumJoin(r) - 1 : i \in Index /\ i < NumJoin(r)
      BY <1>1, BanksType DEF Index, NumDynamic
    <2> QED
      BY <1>7, <2>1 DEF InitChannels, Channel
  <1>9. MaskServes(r, p, DefaultDatarate)
    <2>1. CASE HasFixedChannelPlan(r)
      <3>1. GetDatarate(r, DefaultDatarate).bw = 125
        BY <1>1, <2>1, RegionRates DEF RatesUsable
      <3> QED
        BY <1>3, <1>7, <2>1, <3>1 DEF MaskServes
    <2>2. CASE ~HasFixedChannelPlan(r)
      <3>1. NumJoin(r) >= 1
        BY <1>1, <2>2, RegionFrequencies DEF ParametersUsable
      <3>2. p.channels[0].freq = JoinFrequencies(r)[1] /\ JoinFrequencies(r)[1] # NoFreq
        BY <1>1, <1>2, <1>8, <2>2, <3>1 DEF NoFreq
      <3>3. 0 \in Index
        BY IndexIsTwoBanks, BanksType
      <3> QED
        BY <1>3, <1>7, <2>2, <3>2, <3>3 DEF MaskServes, Exists
    <2> QED
      BY <2>1, <2>2
  <1> QED
    BY <1>6, <1>7, <1>8, <1>9 DEF PlanSound

\* The invariant holds at the start.
LEMMA InitInv == Init => IInv
  <1> SUFFICES ASSUME Init PROVE IInv
    OBVIOUS
  <1>1. Stream
    <2>1. loop \in Loop /\ loop.left = MaxCmds /\ loop.num_adrreq = 0
      BY MacCommandsAssumption DEF Init, NotRunning, Loop, Peeks
    <2>2. pending \in Queue /\ PendingLen(pending) = 0 /\ pending["LinkADRAns"] = 0
      BY EmptyFits DEF Init
    <2>3. asked = 0
      BY DEF Init
    <2> QED
      BY <2>1, <2>2, <2>3, MacCommandsAssumption DEF Stream, AdrCounted, Queue
  <1>2. Settings
    <2>1. PICK b \in Biases : plan = NewPlan(region, b[1], b[2])
      BY DEF Init
    <2>2. b[1] \in 0 .. Banks /\ b[2] \in Nat /\ region \in RegionsUsed
      BY MacCommandsAssumption DEF Init
    <2>3. /\ PlanSound(region, plan) /\ MaskServes(region, plan, DefaultDatarate)
          /\ plan.join.num_retries = 0
      BY <2>1, <2>2, InitPlanSound
    <2>4. conf \in Conf /\ conf.data_rate = DefaultDatarate
          /\ conf.rx2_data_rate = NumDatarates /\ conf.rx2_frequency = NoFreq
          /\ conf.rx1_dr_offset = 0
      BY DEF Init, InitConf, Conf, DefaultDatarate, NumDatarates, NoFreq, NoPower
    <2>5. region \in Region
      BY <2>2, MacCommandsAssumption
    <2>6. Supported(region, DefaultDatarate) /\ Rx1DrOffsetValid(region, 0)
      BY <2>5, RegionRates, RegionFrequencies DEF RatesUsable, ParametersUsable, Rx1DrOffsetValid
    <2>7. ConfSound(region, conf)
      BY <2>4, <2>6 DEF ConfSound
    <2>8. eroded \in BOOLEAN /\ maskHere \in BOOLEAN
      BY DEF Init
    <2> QED
      BY <2>2, <2>3, <2>4, <2>7, <2>8 DEF Settings
  <1>3. Control
    BY DEF Init, Control, OnlyKnownPanics
  <1> QED
    BY <1>1, <1>2, <1>3 DEF IInv

\* Every step keeps the state and the panics to the known ones.
LEMMA ControlStep ==
    ASSUME IInv, [Next]_vars
    PROVE  Control'
  <1>1. state' = state \/ state' \in {"Otaa", "Joined"}
    BY DEF Next, vars, JoinOtaa, JoinAccept, JoinAccepted, Fault, Send, SendSpins, SetDatarate,
           ChangeRate, Downlink, StreamEnds, LinkADRReq, LinkAdrContinues, LinkAdrDecides,
           DevStatusReq, IgnoredCommand, DlChannelReq, NewChannelReq, RXParamSetupReq,
           RXTimingSetupReq, Answered, Halted
  <1>2. fault' = fault \/ fault' \in {"bank", "join_rate", "spin"}
    BY SettingsStep DEF IInv
  <1> QED
    BY <1>1, <1>2 DEF IInv, Control, OnlyKnownPanics

\* Every step keeps the invariant.
LEMMA NextInv == IInv /\ [Next]_vars => IInv'
  <1> SUFFICES ASSUME IInv, [Next]_vars PROVE IInv'
    OBVIOUS
  <1>1. Stream'
    BY StreamStep, SettingsTypes DEF IInv
  <1>2. Settings'
    BY SettingsStep DEF IInv
  <1>3. Control'
    BY ControlStep
  <1> QED
    BY <1>1, <1>2, <1>3 DEF IInv

\* The invariant holds throughout.
LEMMA Invariant == Spec => []IInv
  BY InitInv, NextInv, PTL DEF Spec

-----------------------------------------------------------------------------
(* The properties.                                                         *)

\* The variables of MacCommands keep their types: the queue of answers never
\* outgrows FOpts and no LinkADRReq or CFList enables a channel that the plan
\* does not have.
THEOREM MacCommandsTypeOK == Spec => []TypeOK
  <1>1. IInv => TypeOK
    <2> SUFFICES ASSUME IInv PROVE TypeOK
      OBVIOUS
    <2>1. asked \in 0 .. MaxCmds
      BY StreamTypes DEF IInv, Stream
    <2>2. fault \in {"none", "bank", "index", "rate", "join_rate", "spin"}
      BY DEF IInv, Control, OnlyKnownPanics
    <2> QED
      BY <2>1, <2>2 DEF IInv, Stream, Settings, Control, PlanSound, ConfSound, TypeOK
  <1> QED
    BY <1>1, Invariant, PTL

\* Every LinkADRReq of a downlink is answered unless the queue is full, however
\* handle_downlink_macs meets them: in blocks, in both carriers, among others.
THEOREM MacCommandsAdrAnswered == Spec => []AdrAnswered
  <1>1. IInv => AdrAnswered
    <2> SUFFICES ASSUME IInv, ~loop.running
                 PROVE  \/ pending["LinkADRAns"] = asked
                        \/ /\ pending["LinkADRAns"] < asked
                           /\ ~RoomFor(pending, "LinkADRAns")
      BY DEF AdrAnswered
    <2>1. loop.num_adrreq = 0 /\ pending["LinkADRAns"] \in Nat
      BY StreamTypes DEF IInv, Stream, AdrCounted
    <2> QED
      BY <2>1 DEF IInv, Stream, AdrCounted
  <1> QED
    BY <1>1, Invariant, PTL

\* No NewChannelReq, DlChannelReq or CFList changes a join channel of a dynamic
\* plan.
THEOREM MacCommandsJoinChannelsKept == Spec => []JoinChannelsKept
  <1>1. IInv => JoinChannelsKept
    BY DEF IInv, Settings, PlanSound, JoinChannelsKept
  <1> QED
    BY <1>1, Invariant, PTL

\* The draw of a data channel ends while nothing was taken away since the mask
\* was accepted.
THEOREM MacCommandsDrawEnds == Spec => []DrawEnds
  <1>1. IInv => DrawEnds
    <2> SUFFICES ASSUME IInv, ~eroded
                 PROVE  SelectDataChannel(region, plan, conf.data_rate) # {}
      BY DEF DrawEnds
    <2>1. /\ MaskServes(region, plan, conf.data_rate)
          /\ plan.join \in JoinChannels /\ Rotation(plan.join)
      BY SettingsTypes DEF IInv, Settings, Plan
    <2>2. CASE ~HasFixedChannelPlan(region)
      <3>1. PICK i \in Index : i \in plan.mask /\ Exists(plan, i)
        BY <2>1, <2>2 DEF MaskServes
      <3>2. i \in Drawable(plan)
        BY <3>1, IndexIsTwoBanks DEF Drawable
      <3> QED
        BY <2>2, <3>1, <3>2 DEF SelectDataChannel
    <2>3. CASE HasFixedChannelPlan(region) /\ HasBiasAndNotExhausted(plan.join)
      <3>1. GetNextChannel(plan.join) # {}
        BY <2>1, GetNextDraws
      <3> QED
        BY <2>3, <3>1 DEF SelectDataChannel, SelectFixedDataChannel, FromRotation
    <2>4. CASE /\ HasFixedChannelPlan(region)
               /\ ~HasBiasAndNotExhausted(plan.join) /\ HasFirstDataChannel(plan.join)
      <3>1. FirstDataChannel(plan.join) # {}
        BY <2>1, FirstDataDraws
      <3> QED
        BY <2>4, <3>1 DEF SelectDataChannel, SelectFixedDataChannel
    <2>5. CASE /\ HasFixedChannelPlan(region)
               /\ ~HasBiasAndNotExhausted(plan.join) /\ ~HasFirstDataChannel(plan.join)
      BY <2>1, <2>5 DEF SelectDataChannel, SelectFixedDataChannel, MaskServes
    <2> QED
      BY <2>2, <2>3, <2>4, <2>5
  <1> QED
    BY <1>1, Invariant, PTL

\* Once a mask was installed in a session, every data frame goes out on a
\* channel it enables, of the bandwidth of the data rate.
THEOREM MacCommandsMaskObeyed == Spec => []MaskObeyed
  <1>1. IInv => MaskObeyed
    <2> SUFFICES ASSUME IInv, maskHere,
                        NEW o \in SelectDataChannel(region, plan, conf.data_rate)
                 PROVE  /\ o.ch \in plan.mask
                        /\ HasFixedChannelPlan(region) =>
                            (o.ch \in Wide <=> GetDatarate(region, o.dr).bw = 500)
      BY DEF MaskObeyed
    <2>1. CASE ~HasFixedChannelPlan(region)
      BY <2>1 DEF SelectDataChannel, Outcome
    <2>2. CASE HasFixedChannelPlan(region)
      <3>1. plan.join.num_retries = 0
        BY <2>2 DEF IInv, Settings
      <3>2. ~HasBiasAndNotExhausted(plan.join) /\ ~HasFirstDataChannel(plan.join)
        BY <3>1 DEF HasBiasAndNotExhausted, HasFirstDataChannel
      <3>3. /\ o.dr = conf.data_rate
            /\ o.ch \in plan.mask
            /\ o.ch \in IF GetDatarate(region, conf.data_rate).bw = 500 THEN Wide ELSE Narrow
        BY <2>2, <3>2 DEF SelectDataChannel, SelectFixedDataChannel, Outcome
      <3> QED
        BY ZenonT(60), <2>2, <3>3, Layout
    <2> QED
      BY <2>1, <2>2
  <1> QED
    BY <1>1, Invariant, PTL

\* The rotation of the join requests uses up the banks evenly and never draws
\* in an empty bank, whatever the bias, the resets and the data frames between.
THEOREM MacCommandsJoinBalanced == Spec => []JoinBalanced
  <1>1. IInv => JoinBalanced
    <2> SUFFICES ASSUME IInv PROVE JoinBalanced
      OBVIOUS
    <2>1. plan.join \in JoinChannels /\ Rotation(plan.join)
      BY SettingsTypes DEF IInv, Plan
    <2>2. GetNextChannel(plan.join) # {}
      BY <2>1, GetNextDraws
    <2>3. ASSUME NEW a \in 0 .. Banks, NEW b \in 0 .. Banks
          PROVE  Cardinality(plan.join.data \cap Bank(a))
                    <= Cardinality(plan.join.data \cap Bank(b)) + 1
      <3>1. CASE plan.join.data = Channels
        <4>1. plan.join.data \cap Bank(a) = Bank(a) /\ plan.join.data \cap Bank(b) = Bank(b)
          BY <3>1, BankIsInterval
        <4>2. Cardinality(Bank(a)) = BankSize /\ Cardinality(Bank(b)) = BankSize
          BY BankCount
        <4> QED
          BY <4>1, <4>2, BanksType
      <3>2. CASE \E start, at \in 0 .. Banks, rounds \in 0 .. BankSize - 1 :
                    InRound(plan.join, start, rounds, at)
        BY <3>2, BanksType DEF InRound
      <3> QED
        BY <2>1, <3>1, <3>2 DEF Rotation
    <2> QED
      BY <2>2, <2>3 DEF JoinBalanced
  <1> QED
    BY <1>1, Invariant, PTL

\* The only panics of the handlers are the three that are known.
THEOREM MacCommandsOnlyKnownPanics == Spec => []OnlyKnownPanics
  <1>1. IInv => OnlyKnownPanics
    BY DEF IInv, Control
  <1> QED
    BY <1>1, Invariant, PTL

\* Whatever commands and join accepts arrive, the configuration can be used for
\* the next uplink and both of its windows.
THEOREM MacCommandsConfigurationUsable == Spec => []ConfigurationUsable
  <1>1. IInv => ConfigurationUsable
    <2> SUFFICES ASSUME IInv PROVE ConfigurationUsable
      OBVIOUS
    <2>1. ConfSound(region, conf) /\ region \in Region
      BY SettingsTypes DEF IInv, Settings
    <2>2. \A dr : Supported(region, WindowRate(region, dr))
      BY <2>1, RegionRates DEF WindowRate, RatesUsable
    <2>3. LET w == RxWindows(region, conf.data_rate, conf.rx1_dr_offset, conf.rx2_data_rate)
          IN  Supported(region, w.rx1) /\ Supported(region, w.rx2)
      BY <2>2 DEF RxWindows
    <2> QED
      BY <2>1, <2>3 DEF ConfSound, ConfigurationUsable
  <1> QED
    BY <1>1, Invariant, PTL
=============================================================================
