---------------------------- MODULE ChipRegisters ----------------------------
(* What the drivers of the SX1272, SX1276 (lora-phy/src/sx127x), of the       *)
(* SX1261, SX1262, STM32WL (lora-phy/src/sx126x) and of the LR1110            *)
(* (lora-phy/src/lr1110, with each of its amplifiers) write into the chip, as *)
(* bytes.  The SX127x packs several settings into one register, and every     *)
(* operation reads that register, masks its own bits and writes it back; the  *)
(* others take commands, with registers next to them for the errata of the    *)
(* SX126x.  The operations may be called in any order, so what has to be      *)
(* shown is that none of them disturbs what another one has set.              *)
(* lora-modulation/src/lib.rs gives the symbol time of a modulation, from     *)
(* which lora-phy/src/lorawan_radio.rs derives the length of a receive window.*)
(* Frequencies are in hertz, powers in dBm, times in milliseconds unless the  *)
(* name says otherwise.                                                       *)
EXTENDS Integers, Sequences, Bitwise

CONSTANTS
    Models,         \* the chips considered
    Factors,        \* spreading factors, 5..12
    Bandwidths,     \* bandwidths in hertz, from Hz
    Rates,          \* coding rate denominators, 5..8
    Frequencies,
    Powers,
    WindowsMs,      \* lengths of a receive window
    MaxSettings,    \* bound on the settings made in a behaviour
    None            \* nothing asked yet

VARIABLES
    model,          \* the chip
    tx_boost,       \* Config::tx_boost: the antenna is on PA_BOOST
    quirk,          \* Sx1276Data::sensitivity_quirk
    regs,           \* the registers of the chip
    asked,          \* the last setting of each kind that was accepted
    settings        \* settings made so far

chipVars == <<model, tx_boost, quirk, regs, asked, settings>>

Sx127x == {"sx1272", "sx1276"}
Sx126x == {"sx1261", "sx1262", "stm32wl"}
\* The LR1110 with Config::pa_selection Lp, Hp, Hf.
Lr1110 == {"lr1110lp", "lr1110hp", "lr1110hf"}

Least(x, y) == IF x < y THEN x ELSE y
Clamp(x, low, high) == IF x < low THEN low ELSE Least(x, high)
SetBits(byte, bits) == byte | bits
ClearBits(byte, bits) == byte & (255 - bits)
Has(byte, bit) == (byte \div bit) % 2 = 1
\* An i8 as the u8 it is sent as, and back.
AsU8(x) == x % 256
AsI8(x) == IF x > 127 THEN x - 256 ELSE x

-----------------------------------------------------------------------------
(* Symbol times and windows.                                                  *)

\* Bandwidth::hz, in the order of the enumeration.
Hz == <<7810, 10420, 15630, 20830, 31250, 41670, 62500, 125000, 250000, 500000>>

\* BaseBandModulationParams::new: both sides of the division are taken by a
\* tenth, which keeps the product within 32 bits and the quotient the same.
TSymUs(sf, bw) == (2^sf * 100000) \div (bw \div 10)
BaseLdro(sf, bw) == TSymUs(sf, bw) >= 16384

\* delay_in_symbols, and the length of a single window in symbols.
DelayInSymbols(sf, bw, ms) == ((ms * 1000) \div TSymUs(sf, bw)) % 2^16
WindowSymbols(sf, bw, ms) == 13 + DelayInSymbols(sf, bw, ms)

\* time_on_air_us: division of i32 rounds towards zero.
Quot(x, y) == IF x < 0 THEN -((-x) \div y) ELSE x \div y
PayloadBits(sf, explicit, len) == 8 * len - 4 * sf + 44 - (IF explicit THEN 0 ELSE 20)
BitsPerBlock(sf, bw) == 4 * (sf - 2 * (IF BaseLdro(sf, bw) THEN 1 ELSE 0))
PayloadSymbols(sf, bw, cr, explicit, len) ==
    LET blocks == Quot(PayloadBits(sf, explicit, len) - 1, BitsPerBlock(sf, bw)) + 1
    IN  8 + cr * (IF blocks > 0 THEN blocks ELSE 0)
TimeOnAirUs(sf, bw, cr, preamble, explicit, len) ==
    ((4 * preamble + 17 + 4 * PayloadSymbols(sf, bw, cr, explicit, len)) * TSymUs(sf, bw)) \div 4

-----------------------------------------------------------------------------
(* Modulation.                                                                *)

\* bandwidth_value, by position in Hz.
BandwidthValue(m, bw) ==
    LET i == CHOOSE i \in DOMAIN Hz : Hz[i] = bw
    IN  CASE m = "sx1276" -> i - 1
          [] m = "sx1272" -> i - 8
          [] OTHER -> <<0, 8, 1, 9, 2, 10, 3, 4, 5, 6>>[i]

\* The low data rate optimisation each driver chooses.
DriverLdro(m, sf, bw) ==
    IF m \in Sx127x THEN 1000 \div (bw \div 2^sf) > 16
    ELSE \/ bw = 125000 /\ sf \in {11, 12}
         \/ bw = 250000 /\ sf = 12

\* create_modulation_params accepts the combination.
Modulable(m, sf, bw, f) ==
    /\ m \in Sx127x => sf # 5
    /\ m = "sx1272" => bw \in {125000, 250000, 500000}
    /\ m \in Lr1110 => bw # 7810
    /\ bw \in {250000, 500000} => f >= 400000000

Modulation(m, sf, bw, cr, f) ==
    [sf |-> sf, bw |-> bw, cr |-> cr, f |-> f, ldro |-> DriverLdro(m, sf, bw)]

One(b) == IF b THEN 1 ELSE 0

\* The detection registers of both SX127x.
Detection(r, p) ==
    [r EXCEPT !.detect = SetBits(ClearBits(@, 7), IF p.sf = 6 THEN 5 ELSE 3),
              !.threshold = IF p.sf = 6 THEN 12 ELSE 10]

Sx1272Modulation(r, p) ==
    [Detection(r, p) EXCEPT
        !.config1 = (@ & 6) | ((BandwidthValue("sx1272", p.bw) * 64)
                               | (((p.cr - 4) * 8) | One(p.ldro))),
        !.config2 = (@ & 15) | (p.sf * 16)]

\* The errata of the SX1276: the 500 kHz optimisation of the version that needs
\* it, and the automatic IF, which bandwidths below 62.5 kHz leave as it is.
InBand(p) == p.bw = 500000 /\ (p.f \in 862000000..1020000000 \/ p.f \in 410000000..525000000)
Errata(r, p) ==
    [r EXCEPT
        !.highBw1 = IF ~quirk THEN @ ELSE IF InBand(p) THEN 2 ELSE 3,
        !.highBw2 = IF ~(quirk /\ InBand(p)) THEN @ ELSE IF p.f >= 862000000 THEN 100 ELSE 127,
        !.detect = IF p.bw = 500000 THEN SetBits(@, 128)
                   ELSE IF p.bw >= 62500 THEN ClearBits(@, 128) ELSE @,
        !.ifFreq = IF p.bw >= 62500 /\ p.bw # 500000 THEN 64 ELSE @]

Sx1276Modulation(r, p) ==
    LET banded == (r.config1 & 15) | (BandwidthValue("sx1276", p.bw) * 16)
    IN  Errata([Detection(r, p) EXCEPT
            !.config2 = (@ & 15) | (p.sf * 16),
            !.config1 = (banded & 241) | ((p.cr - 4) * 2),
            !.config3 = (@ & 243) | (IF p.ldro THEN 8 ELSE 0)], p)

\* The command of the LR1110 and the SX126x, and the erratum of the latter.
Lr1110Modulation(r, p) ==
    [r EXCEPT !.modulation = <<p.sf, BandwidthValue(model, p.bw), p.cr - 4, One(p.ldro)>>]
Sx126xModulation(r, p) ==
    [Lr1110Modulation(r, p) EXCEPT
        !.txModulation = IF p.bw = 500000 THEN ClearBits(@, 4) ELSE SetBits(@, 4)]

\* set_modulation_params with what create_modulation_params returned.
SetModulationParams(sf, bw, cr, f) ==
    LET p == Modulation(model, sf, bw, cr, f)
    IN  /\ Modulable(model, sf, bw, f)
        /\ regs' = CASE model = "sx1272" -> Sx1272Modulation(regs, p)
                     [] model = "sx1276" -> Sx1276Modulation(regs, p)
                     [] model \in Sx126x -> Sx126xModulation(regs, p)
                     [] model \in Lr1110 -> Lr1110Modulation(regs, p)
        /\ asked' = [asked EXCEPT !.mod = p]
        /\ UNCHANGED <<model, tx_boost, quirk>>

-----------------------------------------------------------------------------
(* Packets.                                                                   *)

\* create_packet_params, for the modulation in use: the header has to be
\* implicit at SF6 on the SX127x, the preamble is lengthened on the others.
Packetable(p) == model \in Sx127x /\ asked.mod.sf = 6 => p.implicit
Preamble(n) ==
    IF model \notin Sx127x /\ asked.mod.sf \in {5, 6} /\ n < 12 THEN 12 ELSE n

Sx1272Packet(r, p) ==
    [r EXCEPT !.config1 = (@ & 249) | ((One(p.implicit) * 4) | (One(p.crc) * 2))]
Sx1276Packet(r, p) ==
    [r EXCEPT !.config1 = IF p.implicit THEN SetBits(@, 1) ELSE ClearBits(@, 1),
              !.config2 = IF p.crc THEN SetBits(@, 4) ELSE ClearBits(@, 4)]

\* The registers that the SX127x sets for both variants.
Sx127xPacket(r, p) ==
    [r EXCEPT !.preamble = <<p.preamble \div 256, p.preamble % 256>>,
              !.length = IF p.implicit THEN p.length ELSE @,
              !.invertIq = SetBits(38, IF p.iq THEN 64 ELSE 1),
              !.invertIq2 = IF p.iq THEN 25 ELSE 29]

Lr1110Packet(r, p) ==
    [r EXCEPT !.packet = <<p.preamble \div 256, p.preamble % 256, One(p.implicit), p.length,
                           One(p.crc), One(p.iq)>>]
Sx126xPacket(r, p) ==
    [Lr1110Packet(r, p) EXCEPT
        !.iqPolarity = IF p.iq THEN ClearBits(@, 4) ELSE SetBits(@, 4)]

\* set_packet_params
SetPacketParams(n, implicit, length, crc, iq) ==
    LET p == [preamble |-> Preamble(n), implicit |-> implicit, length |-> length,
              crc |-> crc, iq |-> iq]
    IN  /\ asked.mod # None
        /\ Packetable(p)
        /\ regs' = CASE model = "sx1272" -> Sx127xPacket(Sx1272Packet(regs, p), p)
                     [] model = "sx1276" -> Sx127xPacket(Sx1276Packet(regs, p), p)
                     [] model \in Sx126x -> Sx126xPacket(regs, p)
                     [] model \in Lr1110 -> Lr1110Packet(regs, p)
        /\ asked' = [asked EXCEPT !.pkt = p]
        /\ UNCHANGED <<model, tx_boost, quirk>>

-----------------------------------------------------------------------------
(* Output power.                                                              *)

\* The power before it was corrected, which the comment describes: OutputPower
\* spills out of its four bits.
Sx1276BoostSpilling(r, txp) ==
    [r EXCEPT !.paConfig = SetBits(128, txp - 2),
              !.paDac = IF txp > 17 THEN 135 ELSE 132,
              !.ocp = SetBits(32, IF txp > 17 THEN 27 ELSE 11)]

\* Output on PA_BOOST, where the DAC shifts the range, and on RFO, where negative
\* powers need the lower maximum.
Sx1276Boost(r, txp) ==
    [r EXCEPT !.paConfig = SetBits(128, IF txp > 17 THEN txp - 5 ELSE txp - 2),
              !.paDac = IF txp > 17 THEN 135 ELSE 132,
              !.ocp = SetBits(32, IF txp > 17 THEN 27 ELSE 11)]

Sx1276Rfo(r, txp) ==
    [r EXCEPT !.paConfig = IF txp > 0 THEN SetBits(112, txp) ELSE txp + 4,
              !.paDac = 132,
              !.ocp = SetBits(32, 11)]

Sx1272Power(r, dbm) ==
    IF ~tx_boost THEN [r EXCEPT !.paConfig = (Clamp(dbm, -1, 14) + 1) & 15, !.paDac = 132]
    ELSE IF dbm > 17
    THEN [r EXCEPT !.paConfig = SetBits(128, (Clamp(dbm, 5, 20) - 5) & 15), !.paDac = 135]
    ELSE [r EXCEPT !.paConfig = SetBits(128, (Clamp(dbm, 2, 17) - 2) & 15), !.paDac = 132]

Row(max, duty, hp, at) == [max |-> max, duty |-> duty, hp |-> hp, at |-> at]
HighPowerRows == <<Row(17, 2, 3, 22), Row(20, 3, 5, 22), Row(22, 4, 7, 22)>>
\* SX1261_PA_TABLE, SX1262_PA_TABLE, STM32WL_HP_PA_TABLE
PaTable(m) ==
    CASE m = "sx1261" ->
            [min |-> -17, rows |-> <<Row(10, 1, 0, 13), Row(14, 4, 0, 14), Row(15, 6, 0, 14)>>]
      [] m = "sx1262" -> [min |-> -9, rows |-> <<Row(14, 2, 2, 22)>> \o HighPowerRows]
      [] m = "stm32wl" -> [min |-> -9, rows |-> <<Row(14, 2, 2, 14)>> \o HighPowerRows]

\* PaTable::lookup: the first row that reaches the clamped power.
Lookup(table, dbm) ==
    LET rows == table.rows
        txp  == Clamp(dbm, table.min, rows[Len(rows)].max)
        i    == CHOOSE i \in DOMAIN rows : rows[i].max >= txp
                                           /\ \A j \in 1..(i - 1) : rows[j].max < txp
    IN  [row |-> rows[i], tx |-> AsU8(rows[i].at - (rows[i].max - txp))]

Sx126xPower(r, dbm) ==
    LET l == Lookup(PaTable(model), dbm)
    IN  [r EXCEPT !.pa = <<l.row.duty, l.row.hp, One(model = "sx1261"), 1>>,
                  !.txParams = l.tx,
                  !.txClamp = IF model = "sx1261" THEN @ ELSE SetBits(@, 30)]

\* The tables of the LR1110, from the lowest power on: the power commanded, the
\* duty cycle and paHPSel.
LR11XX_PA_LP_LF_CFG_TABLE ==
    [min |-> -17,
     power |-> <<-15, -14, -13, -12, -11, -9, -8, -7, -6, -5, -4, -3, -2, -1, 0, 1, 2, 3, 3, 4,
                 7, 8, 9, 10, 12, 13, 14, 13, 13, 14, 14, 14, 14>>,
     duty |-> <<0, 0, 0, 0, 0, 0, 0, 0, 0, 0, 0, 0, 0, 0, 0, 0, 0, 0, 1, 1,
                0, 0, 0, 0, 0, 0, 0, 1, 2, 2, 3, 4, 7>>,
     hp |-> [i \in 1..33 |-> 0]]
LR11XX_PA_HP_LF_CFG_TABLE ==
    [min |-> -9,
     power |-> <<9, 10, 11, 12, 13, 13, 13, 17, 14, 12, 13, 13, 13, 15, 15, 14, 14, 17>>
               \o [i \in 1..14 |-> 22],
     duty |-> <<0, 0, 0, 0, 0, 1, 2, 2, 4, 0, 0, 1, 2, 0, 4, 2, 1, 4,
                0, 1, 2, 3, 0, 1, 4, 1, 2, 1, 3, 3, 4, 4>>,
     hp |-> <<0, 0, 0, 0, 0, 0, 0, 0, 0, 1, 1, 1, 1, 2, 1, 2, 3, 2,
              1, 1, 1, 1, 3, 3, 2, 4, 4, 6, 5, 7, 6, 7>>]
LR11XX_PA_HF_CFG_TABLE ==
    [min |-> -18,
     power |-> <<-18, -18, -17, -16, -15, -14, -14, -12, -10, -9, -8, -7, -6, -5, -4, -3, -2,
                 -1, 0, 1, 2, 4, 5, 6, 7, 8, 9, 10, 11, 12, 13, 13>>,
     duty |-> [i \in 1..32 |-> CASE i \in {17, 30} -> 3 [] i \in {20, 21, 32} -> 0 [] OTHER -> 4],
     hp |-> [i \in 1..32 |-> 0]]
PaCfg(m) ==
    CASE m = "lr1110lp" -> LR11XX_PA_LP_LF_CFG_TABLE
      [] m = "lr1110hp" -> LR11XX_PA_HP_LF_CFG_TABLE
      [] m = "lr1110hf" -> LR11XX_PA_HF_CFG_TABLE

\* The clamped request, as an index of the table.
Entry(dbm) == Clamp(dbm - PaCfg(model).min + 1, 1, Len(PaCfg(model).power))
\* The high power amplifier runs from the battery above 8 dBm.
Lr1110Power(r, dbm) ==
    LET c == PaCfg(model)
        i == Entry(dbm)
        vbat == model = "lr1110hp" /\ c.min + i - 1 > 8
    IN  [r EXCEPT !.pa = <<c.duty[i], c.hp[i], One(vbat)>>, !.txParams = AsU8(c.power[i])]

\* set_tx_power_and_ramp_time: 15 dBm of the low power amplifier of the SX1261,
\* and a high duty cycle of the LR1110's, are refused below 400 MHz.
LowBand == asked.mod # None /\ asked.mod.f < 400000000
SetTxPower(dbm) ==
    /\ ~(model = "sx1261" /\ dbm >= 15 /\ LowBand)
    /\ ~(model = "lr1110lp" /\ PaCfg(model).duty[Entry(dbm)] > 4 /\ LowBand)
    /\ regs' = CASE model = "sx1272" -> Sx1272Power(regs, dbm)
                 [] model = "sx1276" /\ tx_boost -> Sx1276Boost(regs, Clamp(dbm, 2, 20))
                 [] model = "sx1276" /\ ~tx_boost -> Sx1276Rfo(regs, Clamp(dbm, -4, 14))
                 [] model \in Sx126x -> Sx126xPower(regs, dbm)
                 [] model \in Lr1110 -> Lr1110Power(regs, dbm)
    /\ asked' = [asked EXCEPT !.power = dbm]
    /\ UNCHANGED <<model, tx_boost, quirk>>

-----------------------------------------------------------------------------
(* Receive windows and channels.                                              *)

\* Sx127x::set_lora_symbol_num_timeout: ten bits, two of them in config2.
Sx127xTimeout(r, n) ==
    LET val == Least(n, 1023)
    IN  [r EXCEPT !.config2 = ClearBits(@, 3) | ((val \div 256) & 3),
                  !.symbLsb = val % 256]

\* Sx126x::set_lora_symbol_num_timeout: a mantissa of five bits and a power of
\* four; the loop divides as often as it takes.
Scaled(n) ==
    LET start  == (Least(n, 248) + 1) \div 2
        steps[m \in 0..124] == IF m > 31 THEN steps[(m + 3) \div 4] + 1 ELSE 0
        mant[m \in 0..124] == IF m > 31 THEN mant[(m + 3) \div 4] ELSE m
    IN  [mant |-> mant[start], exp |-> steps[start]]
Sx126xTimeout(r, n) ==
    LET s == Scaled(n)
    IN  [r EXCEPT !.symbTimeout = (s.mant * 2^(2 * s.exp + 1)) % 256,
                  !.synchTimeout = IF n > 0 THEN (s.exp + s.mant * 8) % 256 ELSE @]

Lr1110Timeout(r, n) == [r EXCEPT !.symbTimeout = Least(n, 248)]

\* do_rx of a window of so many symbols, or without end (0).
DoRx(n) ==
    /\ asked.mod # None
    /\ regs' = CASE model \in Sx126x -> Sx126xTimeout(regs, n)
                 [] model \in Lr1110 -> Lr1110Timeout(regs, n)
                 [] OTHER -> Sx127xTimeout(regs, IF n = 0 THEN 0 ELSE IF n > 4 THEN n ELSE 4)
    /\ asked' = [asked EXCEPT !.rx = n]
    /\ UNCHANGED <<model, tx_boost, quirk>>

ReceiveWindow ==
    /\ asked.mod # None
    /\ \E ms \in WindowsMs : DoRx(WindowSymbols(asked.mod.sf, asked.mod.bw, ms))
ReceiveContinuously == DoRx(0)

\* freq_to_pll_step: f * 2^19 / 32 MHz is f * 256 / 15625, kept within 32 bits.
Sx127xSteps(f) == (f \div 15625) * 256 + ((f % 15625) * 256) \div 15625
\* convert_freq_in_hz_to_pll_step
Sx126xSteps(f) == (f \div 15625) * 2^14 + ((f % 15625) * 2^14 + 7812) \div 15625

Tuned(r, f) ==
    LET steps == CASE model \in Sx127x -> Sx127xSteps(f)
                   [] model \in Sx126x -> Sx126xSteps(f)
                   [] model \in Lr1110 -> f    \* in hertz
    IN  [r EXCEPT !.frf = [k \in 1..4 |-> (steps \div 256^(4 - k)) % 256]]

SetChannel(f) ==
    /\ regs' = Tuned(regs, f)
    /\ asked' = [asked EXCEPT !.f = f]
    /\ UNCHANGED <<model, tx_boost, quirk>>

\* calibrate_image, in units of 4 MHz; the SX127x calibrates of itself.  Only the
\* SX126x leaves the lowest frequencies without a band.
CalibrateImage(f) ==
    /\ model \notin Sx127x
    /\ regs' = [regs EXCEPT !.cal = CASE f > 900000000 -> <<225, 233>>
                                      [] f \in 850000001..900000000 -> <<215, 219>>
                                      [] f \in 770000001..850000000 -> <<193, 197>>
                                      [] f \in 460000001..770000000 -> <<117, 129>>
                                      [] OTHER -> IF model \in Sx126x /\ f <= 425000000
                                                  THEN <<0, 0>> ELSE <<107, 111>>]
    /\ asked' = [asked EXCEPT !.cal = f]
    /\ UNCHANGED <<model, tx_boost, quirk>>

\* LoRa::continuous_wave on the SX1276 (the SX1272 has none): a packet, the
\* modulation, the power and the channel, then PA_BOOST whatever the board has
\* connected, and the continuous bit.
ContinuousWave(sf, bw, cr, f, dbm) ==
    LET p    == Modulation(model, sf, bw, cr, f)
        pkt  == [preamble |-> 0, implicit |-> FALSE, length |-> 16, crc |-> FALSE, iq |-> FALSE]
        made == Sx1276Modulation(Sx127xPacket(Sx1276Packet(regs, pkt), pkt), p)
        loud == IF tx_boost THEN Sx1276Boost(made, Clamp(dbm, 2, 20))
                ELSE Sx1276Rfo(made, Clamp(dbm, -4, 14))
    IN  /\ model = "sx1276"
        /\ Modulable(model, sf, bw, f) /\ sf # 6
        /\ regs' = [Tuned(loud, f) EXCEPT !.paConfig = SetBits(@, 128),
                                         !.config2 = SetBits(@, 8)]
        /\ asked' = [asked EXCEPT !.mod = p, !.pkt = pkt, !.f = f, !.wave = TRUE,
                                 !.power = IF tx_boost THEN dbm ELSE None]
        /\ UNCHANGED <<model, tx_boost, quirk>>

-----------------------------------------------------------------------------
\* The registers after a reset, as the data sheets give them.
ResetRegs(m) ==
    IF m \in Sx127x
    THEN [config1 |-> IF m = "sx1276" THEN 114 ELSE 8, config2 |-> 112, config3 |-> 4,
          detect |-> 195, threshold |-> 10, symbLsb |-> 100, preamble |-> <<0, 8>>,
          length |-> 1, invertIq |-> 39, invertIq2 |-> 29, highBw1 |-> 3, highBw2 |-> 32,
          ifFreq |-> 32, paConfig |-> 79, paDac |-> 132, ocp |-> 43, frf |-> <<0, 108, 128, 0>>]
    ELSE [modulation |-> <<7, 4, 1, 0>>, txModulation |-> 1, packet |-> <<0, 8, 0, 255, 0, 0>>,
          iqPolarity |-> 13, pa |-> <<4, 7, 0, 1>>, txParams |-> 0, txClamp |-> 200,
          symbTimeout |-> 0, synchTimeout |-> 0, frf |-> <<0, 0, 0, 0>>, cal |-> <<0, 0>>]

ChipInit ==
    /\ model \in Models
    /\ tx_boost \in IF model \in Sx127x THEN BOOLEAN ELSE {FALSE}
    /\ quirk \in IF model = "sx1276" THEN BOOLEAN ELSE {FALSE}
    /\ regs = ResetRegs(model)
    /\ asked = [mod |-> None, pkt |-> None, power |-> None, rx |-> None, f |-> None, cal |-> None,
                wave |-> FALSE]
    /\ settings = 0

\* The bands for which the data sheets give calibration values, in megahertz.
Bands == {<<430, 440>>, <<470, 510>>, <<779, 787>>, <<863, 870>>, <<902, 928>>}

Setting ==
    \/ \E sf \in Factors, bw \in Bandwidths, cr \in Rates, f \in Frequencies :
            SetModulationParams(sf, bw, cr, f)
    \/ \E n \in {8, 300}, implicit, crc, iq \in BOOLEAN : SetPacketParams(n, implicit, 255, crc, iq)
    \/ \E dbm \in Powers : SetTxPower(dbm)
    \/ ReceiveWindow
    \/ ReceiveContinuously
    \/ \E f \in Frequencies : SetChannel(f)
    \/ \E b \in Bands : \E i \in {1, 2} : CalibrateImage(b[i] * 1000000)
    \/ \E sf \in Factors, bw \in Bandwidths, f \in Frequencies, dbm \in {0, 27} :
            ContinuousWave(sf, bw, 5, f, dbm)

ChipNext == settings < MaxSettings /\ settings' = settings + 1 /\ Setting

-----------------------------------------------------------------------------
(* What the chip makes of its registers, from the data sheets.                *)

Sx127xModulation(r) ==
    IF model = "sx1276"
    THEN [sf |-> r.config2 \div 16, bw |-> Hz[1 + r.config1 \div 16],
          cr |-> 4 + ((r.config1 \div 2) % 8), ldro |-> Has(r.config3, 8)]
    ELSE [sf |-> r.config2 \div 16, bw |-> Hz[8 + r.config1 \div 64],
          cr |-> 4 + ((r.config1 \div 8) % 8), ldro |-> Has(r.config1, 1)]

\* The modulation reads back as it was last set, with the errata that go with it.
ModulationReads ==
    LET p == asked.mod
        AsRead(d) == \A k \in {"sf", "bw", "cr", "ldro"} : d[k] = p[k]
    IN  p # None =>
        IF model \in Sx127x
        THEN /\ AsRead(Sx127xModulation(regs))
             /\ (regs.detect % 8 = 5) = (p.sf = 6)
             /\ model = "sx1276" /\ p.bw >= 62500 => Has(regs.detect, 128) = (p.bw = 500000)
             /\ quirk => (regs.highBw1 = 2) = InBand(p)
        ELSE /\ regs.modulation = <<p.sf, BandwidthValue(model, p.bw), p.cr - 4, One(p.ldro)>>
             /\ model \in Sx126x => Has(regs.txModulation, 4) = (p.bw # 500000)

\* So do the header, the CRC, the preamble and the polarity.
PacketReads ==
    LET p == asked.pkt
    IN  p # None =>
        IF model \in Sx127x
        THEN /\ Has(regs.config1, IF model = "sx1276" THEN 1 ELSE 4) = p.implicit
             /\ IF model = "sx1276" THEN Has(regs.config2, 4) = p.crc
                ELSE Has(regs.config1, 2) = p.crc
             /\ regs.preamble[1] * 256 + regs.preamble[2] = p.preamble
             /\ Has(regs.invertIq, 64) = p.iq
        ELSE /\ regs.packet[1] * 256 + regs.packet[2] = p.preamble
             /\ regs.packet[3] = One(p.implicit) /\ regs.packet[5] = One(p.crc)
             /\ model \in Sx126x => Has(regs.iqPolarity, 4) = ~p.iq

\* The power the amplifier delivers, in dBm.
Sx127xDelivers ==
    LET out == regs.paConfig % 16
    IN  IF Has(regs.paConfig, 128) THEN out + (IF regs.paDac = 135 THEN 5 ELSE 2)
        ELSE IF model = "sx1272" THEN out - 1
        ELSE IF (regs.paConfig \div 16) % 8 = 7 THEN out ELSE out - 4
Sx126xDelivers ==
    LET row == CHOOSE r \in {PaTable(model).rows[i] : i \in DOMAIN PaTable(model).rows} :
                    <<r.duty, r.hp>> = <<regs.pa[1], regs.pa[2]>>
    IN  row.max - (row.at - AsI8(regs.txParams))
\* The tables of the LR1110 are the vendor's calibration, so only their order is
\* known: what a request drives the amplifier with is not reached by a lower
\* one, in the same setting of the amplifier, and from the battery when needed.
Lr1110Drives(dbm) ==
    LET c == PaCfg(model)
    IN  /\ \A i \in DOMAIN c.power :
            <<c.duty[i], c.hp[i]>> = <<regs.pa[1], regs.pa[2]>> =>
                IF c.min + i - 1 <= dbm THEN c.power[i] <= AsI8(regs.txParams)
                ELSE c.power[i] >= AsI8(regs.txParams)
        /\ regs.pa[3] = One(model = "lr1110hp" /\ dbm > 8)
PowerRange ==
    CASE model = "sx1276" -> IF tx_boost THEN <<2, 20>> ELSE <<-4, 14>>
      [] model = "sx1272" -> IF tx_boost THEN <<2, 20>> ELSE <<-1, 14>>
      [] model \in {"sx1261", "lr1110lp"} -> <<-17, 15>>
      [] model = "lr1110hf" -> <<-18, 13>>
      [] OTHER -> <<-9, 22>>

\* The power that leaves the chip is the one asked for, brought into its range,
\* and the amplifier is the one that the board has connected.
PowerReads ==
    asked.power # None =>
        LET dbm == Clamp(asked.power, PowerRange[1], PowerRange[2])
        IN  IF model \in Sx127x
            THEN Sx127xDelivers = dbm /\ Has(regs.paConfig, 128) = tx_boost
            ELSE IF model \in Sx126x THEN Sx126xDelivers = dbm
            ELSE Lr1110Drives(dbm)

\* The window is as long as asked, up to the chip's limit, and rounded up by at
\* most seven symbols on the SX126x, whose two encodings agree.
WindowReads ==
    LET n == asked.rx
    IN  n # None =>
        IF model \in Sx127x
        THEN (regs.config2 % 4) * 256 + regs.symbLsb = IF n = 0 THEN 0 ELSE Clamp(n, 4, 1023)
        ELSE IF model \in Lr1110 THEN regs.symbTimeout = Least(n, 248)
        ELSE /\ regs.symbTimeout - Least(n, 248) \in 0..7
             /\ n > 0 => regs.symbTimeout =
                    (regs.synchTimeout \div 8) * 2^(2 * (regs.synchTimeout % 8) + 1)

\* The synthesiser is off by less than one step below on the SX127x, and by half
\* a step at most on the SX126x (a step is 15625/256 and 15625/2^14 hertz).
ChannelReads ==
    LET f     == asked.f
        frf   == regs.frf
        steps == ((frf[1] * 256 + frf[2]) * 256 + frf[3]) * 256 + frf[4]
    IN  f # None =>
        IF model \in Sx127x
        THEN (f - (steps \div 256) * 15625) - (((steps % 256) * 15625) \div 256) \in 0..62
        ELSE IF model \in Lr1110 THEN steps = f
        ELSE (steps % 2^14) - (((f % 15625) * 2^14) \div 15625) \in 0..1
             /\ steps \div 2^14 = f \div 15625

\* The image is calibrated for a range that holds the whole band of the channel.
ImageReads ==
    asked.cal # None =>
        \A b \in Bands : asked.cal \in (b[1] * 1000000)..(b[2] * 1000000) =>
            4 * regs.cal[1] <= b[1] /\ b[2] <= 4 * regs.cal[2]

\* The continuous bit of the SX1276 is set by continuous_wave and by nothing else.
WaveReads == model = "sx1276" => Has(regs.config2, 8) = asked.wave

(* The time on air against the formula of the data sheets, over the payloads  *)
(* of a frame: exact when there are payload bits left for whole blocks, and   *)
(* never below it (div_ceil rounds 0 and small negative numbers up to 1).     *)
BlocksOf(bits, per) == IF bits <= 0 THEN 0 ELSE (bits + per - 1) \div per
AirTimeBounded ==
    asked.mod # None =>
        LET sf == asked.mod.sf
            bw == asked.mod.bw
            cr == asked.mod.cr
        IN  \A explicit \in BOOLEAN, len \in {0, 1, 3, 51, 255} :
                LET bits  == PayloadBits(sf, explicit, len)
                    exact == 8 + cr * BlocksOf(bits, BitsPerBlock(sf, bw))
                    found == PayloadSymbols(sf, bw, cr, explicit, len)
                IN  /\ bits > 0 => found = exact
                    /\ found - exact \in {0, cr}
                    /\ TimeOnAirUs(sf, bw, cr, 8, explicit, len) >= TSymUs(sf, bw) * exact

\* Whatever the order in which modulation, packet, power, window, channel and band are
\* set, the chip reads every one of them back as it was last set: no operation
\* disturbs the bits of another, no value spills out of its field, and the
\* conversions stay within their rounding.
SettingsAccurate ==
    ModulationReads /\ PacketReads /\ PowerReads /\ WindowReads /\ ChannelReads /\ WaveReads
    /\ ImageReads /\ AirTimeBounded

\* BaseBandModulationParams::new says of the low data rate optimisation that it is
\* on when a symbol takes 16.38 ms or more; sender and receiver have to agree on it.
LdroAgrees == asked.mod # None => asked.mod.ldro = BaseLdro(asked.mod.sf, asked.mod.bw)
=============================================================================
