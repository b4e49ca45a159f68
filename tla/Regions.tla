------------------------------- MODULE Regions -------------------------------
(***************************************************************************)
(* The regional parameters (lorawan-device/src/region): data-rate tables,  *)
(* frequencies, power steps and receive data rates of the nine regions,    *)
(* and what the MAC derives from them for a transmission (mac/mod.rs:      *)
(* rx_windows, build_rf_config).  Frequencies are in Hz, power in dBm.     *)
(***************************************************************************)
EXTENDS Integers, Sequences

FixedRegions == {"AU915", "US915"}
AS923Regions == {"AS923_1", "AS923_2", "AS923_3", "AS923_4"}
Region == FixedRegions \cup AS923Regions \cup {"EU433", "EU868", "IN865"}

HasFixedChannelPlan(r) == r \in FixedRegions

NoRate == [sf |-> 0, bw |-> 0, max |-> 0, dwell |-> 0]

Rate(sf, bw, max, dwell) == [sf |-> sf, bw |-> bw, max |-> max, dwell |-> dwell]

-----------------------------------------------------------------------------
(* DATARATES of each region: DR n is element n + 1; the slots after the    *)
(* last element are None, and there is no sixteenth slot.                  *)

EU868Rates == <<
    Rate(12, 125, 59, 59), Rate(11, 125, 59, 59), Rate(10, 125, 59, 59),
    Rate(9, 125, 123, 123), Rate(8, 125, 250, 250), Rate(7, 125, 250, 250)>>

IN865Rates == <<
    Rate(12, 125, 59, 59), Rate(11, 125, 59, 59), Rate(10, 125, 59, 59),
    Rate(9, 125, 123, 123), Rate(8, 125, 250, 250), Rate(7, 125, 250, 250)>>

EU433Rates == <<
    Rate(12, 125, 59, 0), Rate(11, 125, 59, 0), Rate(10, 125, 123, 19),
    Rate(9, 125, 123, 61), Rate(8, 125, 250, 133), Rate(7, 125, 250, 250),
    Rate(7, 250, 250, 250)>>

AS923Rates == <<
    Rate(12, 125, 59, 0), Rate(11, 125, 59, 0), Rate(10, 125, 123, 19),
    Rate(9, 125, 123, 61), Rate(8, 125, 250, 133), Rate(7, 125, 250, 250),
    Rate(7, 250, 250, 250)>>

US915Rates == <<
    Rate(10, 125, 19, 19), Rate(9, 125, 61, 61), Rate(8, 125, 133, 133),
    Rate(7, 125, 250, 250), Rate(8, 500, 250, 250), NoRate, NoRate, NoRate,
    Rate(12, 500, 61, 61), Rate(11, 500, 137, 137), Rate(10, 500, 250, 250),
    Rate(9, 500, 250, 250), Rate(8, 500, 250, 250), Rate(7, 500, 250, 250)>>

AU915Rates == <<
    Rate(12, 125, 59, 0), Rate(11, 125, 59, 0), Rate(10, 125, 59, 19),
    Rate(9, 125, 123, 61), Rate(8, 125, 250, 133), Rate(7, 125, 250, 250),
    Rate(8, 500, 250, 250), NoRate,
    Rate(12, 500, 61, 61), Rate(11, 500, 137, 137), Rate(10, 500, 250, 250),
    Rate(9, 500, 250, 250), Rate(8, 500, 250, 250), Rate(7, 500, 250, 250)>>

Datarates(r) ==
    CASE r = "EU868" -> EU868Rates
      [] r = "EU433" -> EU433Rates
      [] r = "IN865" -> IN865Rates
      [] r = "US915" -> US915Rates
      [] r = "AU915" -> AU915Rates
      [] r \in AS923Regions -> AS923Rates

NumDatarates == 15

\* get_datarate indexes an array of NUM_DATARATES entries.
IndexPanics(dr) == dr >= NumDatarates

GetDatarate(r, dr) ==
    IF dr < Len(Datarates(r)) THEN Datarates(r)[dr + 1] ELSE NoRate

Supported(r, dr) == GetDatarate(r, dr) # NoRate

DefaultDatarate == 0      \* RegionHandler::get_default_datarate

-----------------------------------------------------------------------------
(* Frequencies.                                                            *)

\* What a region file fixes: its band, RX2 frequency, largest RX1DROffset, the
\* frequencies of its join channels and the data rate of RX2.
Parameters(range, rx2, max_offset, join, rx2_rate) ==
    [range |-> range, rx2 |-> rx2, max_offset |-> max_offset, join |-> join,
     rx2_rate |-> rx2_rate]

EU868Parameters ==
    Parameters(<<863000000, 870000000>>, 869525000, 5,
               <<868100000, 868300000, 868500000>>, 0)

EU433Parameters ==
    Parameters(<<433050000, 434790000>>, 434665000, 5,
               <<433175000, 433375000, 433575000>>, 0)

IN865Parameters ==
    Parameters(<<865000000, 867000000>>, 866550000, 7,
               <<865062500, 865402500, 865985000>>, 2)

US915Parameters == Parameters(<<902000000, 928000000>>, 923300000, 3, <<>>, 8)

AU915Parameters == Parameters(<<915000000, 928000000>>, 923300000, 5, <<>>, 8)

AS923RX2 == [AS923_1 |-> 923200000, AS923_2 |-> 921400000,
             AS923_3 |-> 916500000, AS923_4 |-> 917300000]

AS923Offset == [AS923_1 |-> 0, AS923_2 |-> 1800000, AS923_3 |-> 6600000, AS923_4 |-> 5900000]

\* Mutant: the offset of the variant is forgotten.
AS923ParametersNoOffset(r) ==
    Parameters(IF r = "AS923_4" THEN <<917000000, 920000000>> ELSE <<915000000, 928000000>>,
               AS923RX2[r], 7, <<923200000, 923400000>>, 2)

AS923Parameters(r) ==
    Parameters(IF r = "AS923_4" THEN <<917000000, 920000000>> ELSE <<915000000, 928000000>>,
               AS923RX2[r], 7, <<923200000 - AS923Offset[r], 923400000 - AS923Offset[r]>>, 2)

RegionParameters(r) ==
    CASE r = "EU868" -> EU868Parameters
      [] r = "EU433" -> EU433Parameters
      [] r = "IN865" -> IN865Parameters
      [] r = "US915" -> US915Parameters
      [] r = "AU915" -> AU915Parameters
      [] r \in AS923Regions -> AS923Parameters(r)

FrequencyValid(r, f) ==
    RegionParameters(r).range[1] <= f /\ f <= RegionParameters(r).range[2]

Rx2Frequency(r) == RegionParameters(r).rx2
JoinFrequencies(r) == RegionParameters(r).join

\* UPLINK_CHANNEL_MAP and DOWNLINK_CHANNEL_MAP of the fixed plans.
USUplinkFrequency(ch) ==
    IF ch < 64 THEN 902300000 + 200000 * ch ELSE 903000000 + 1600000 * (ch - 64)

AUUplinkFrequency(ch) ==
    IF ch < 64 THEN 915200000 + 200000 * ch ELSE 915900000 + 1600000 * (ch - 64)

UplinkFrequency(r, ch) ==
    IF r = "US915" THEN USUplinkFrequency(ch) ELSE AUUplinkFrequency(ch)

USDownlinkFrequency(i) == 923300000 + 600000 * i
AUDownlinkFrequency(i) == 923300000 + 600000 * i

DownlinkFrequency(r, ch) ==
    IF r = "US915" THEN USDownlinkFrequency(ch % 8) ELSE AUDownlinkFrequency(ch % 8)

-----------------------------------------------------------------------------
(* Power.                                                                  *)

NoPower == -1

USPower(pw) == IF pw > 14 THEN NoPower ELSE IF 30 - 2 * pw < 21 THEN 30 - 2 * pw ELSE 21
AUPower(pw) == IF pw <= 14 THEN 30 - 2 * pw ELSE NoPower
INPower(pw) == IF pw <= 10 THEN 30 - 2 * pw ELSE NoPower
EU868Power(pw) == IF pw <= 7 THEN 16 - 2 * pw ELSE NoPower
EU433Power(pw) == IF pw <= 5 THEN 16 - 2 * pw ELSE NoPower
AS923Power(pw) == IF pw <= 7 THEN 16 - 2 * pw ELSE NoPower

TxPowerAdjust(r, pw) ==
    CASE r = "EU868" -> EU868Power(pw)
      [] r = "EU433" -> EU433Power(pw)
      [] r = "IN865" -> INPower(pw)
      [] r = "US915" -> USPower(pw)
      [] r = "AU915" -> AUPower(pw)
      [] r \in AS923Regions -> AS923Power(pw)

\* create_tx_config, then TxConfig::adjust_power, on an i8.
TxPower(r, max_power, antenna_gain) ==
    LET pw == TxPowerAdjust(r, 0) - antenna_gain
    IN  IF pw < max_power THEN pw ELSE max_power

-----------------------------------------------------------------------------
(* Receive windows.                                                        *)

Rx1DrOffsetValid(r, value) == value <= RegionParameters(r).max_offset

Clamp(x, lo, hi) == IF x < lo THEN lo ELSE IF x > hi THEN hi ELSE x

\* DR::offset_sub saturates.
OffsetSub(dr, offset) == IF dr < offset THEN 0 ELSE dr - offset

EU868RxRate(tx, offset) ==
    OffsetSub(CASE tx <= 7 -> tx [] tx \in {8, 10} -> 1 [] tx \in {9, 11} -> 2 [] OTHER -> 0,
              offset)

EU433RxRate(tx, offset) == OffsetSub(IF tx <= 7 THEN tx ELSE 0, offset)

AS923RxRate(tx, offset) ==
    CASE tx > 7 -> 0
      [] tx <= 7 /\ offset < 6 -> OffsetSub(tx, offset)
      [] tx <= 7 /\ offset >= 6 -> Clamp(tx + offset - 5, 0, 7)

IN865RxRate(tx, offset) ==
    CASE tx = 6 \/ tx > 7 -> 0
      [] tx \in 0 .. 5 \cup {7} /\ offset < 6 -> OffsetSub(tx, offset)
      [] tx = 5 /\ offset >= 6 -> IF offset = 6 THEN 5 ELSE 7
      [] tx = 7 /\ offset >= 6 -> 7
      [] tx \in 0 .. 4 /\ offset >= 6 -> Clamp(tx + offset - 5, 0, 7)

US915RxRate(tx, offset) ==
    CASE tx <= 4 -> Clamp(10 + tx - offset, 8, 13)
      [] tx \in 5 .. 6 -> Clamp(5 + tx - offset, 8, 11)
      [] OTHER -> 8

AU915RxRate(tx, offset) ==
    CASE tx <= 6 -> Clamp(8 + tx - offset, 8, 13)
      [] tx = 7 -> IF offset = 0 THEN 9 ELSE 8
      [] OTHER -> 8

Rx1Datarate(r, tx, offset) ==
    CASE r = "EU868" -> EU868RxRate(tx, offset)
      [] r = "EU433" -> EU433RxRate(tx, offset)
      [] r = "IN865" -> IN865RxRate(tx, offset)
      [] r = "US915" -> US915RxRate(tx, offset)
      [] r = "AU915" -> AU915RxRate(tx, offset)
      [] r \in AS923Regions -> AS923RxRate(tx, offset)

\* get_rx_datarate in the second window.
Rx2Datarate(r) == RegionParameters(r).rx2_rate

\* build_rf_config: a rate the region does not have falls back to RX2's.
WindowRate(r, dr) == IF Supported(r, dr) THEN dr ELSE Rx2Datarate(r)

\* rx_windows: the data rates of both windows of an uplink sent at `tx`.
\* `rx2` is configuration.rx2_data_rate, NumDatarates when it is None.
RxWindows(r, tx, offset, rx2) ==
    [rx1 |-> WindowRate(r, Rx1Datarate(r, tx, offset)),
     rx2 |-> WindowRate(r, IF rx2 = NumDatarates THEN Rx2Datarate(r) ELSE rx2)]

\* get_max_payload_length
MaxPayloadLength(r, dr, repeater, dwell) ==
    LET d == GetDatarate(r, dr)
        size == IF dwell THEN d.dwell ELSE d.max
    IN  IF repeater /\ size > 230 THEN 230 ELSE size
=============================================================================
