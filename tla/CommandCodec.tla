---------------------------- MODULE CommandCodec ----------------------------
(***************************************************************************)
(* The fields of the commands of lorawan-encoding: the creators that write *)
(* them and the payloads that read them.  The commands themselves and      *)
(* their streams are CommandStream's.  Bytes are 0..255; a number wider    *)
(* than a byte is the tuple of its bytes, the least significant first.     *)
(***************************************************************************)
EXTENDS CommandStream, Bitwise

CONSTANT
    MaxSetters      \* setter calls on one creator

VARIABLES
    cmd,            \* the command whose creator is in use
    data,           \* what creator.build() returns: the CID and the payload
    wrote,          \* the last accepted argument of each setter called
    calls           \* setters called so far

fieldVars == <<cmd, data, wrote, calls>>

Byte == 0..255
-----------------------------------------------------------------------------
(* Fields.  Creators index data, whose first byte is the CID; payloads     *)
(* index the payload alone.  Both from 0, as the code does.                *)

Bits(at, shift, width) == [at |-> at, n |-> 1, shift |-> shift, width |-> width]
Bytes(at, n)           == [at |-> at, n |-> n, shift |-> 0, width |-> 8]

Get(bytes, f) == IF f.n = 1 THEN (bytes[f.at + 1] \div 2^f.shift) % 2^f.width
                            ELSE SubSeq(bytes, f.at + 1, f.at + f.n)

\* A setter of field f: the arguments tried, and for those it accepts the
\* bits it stores, after clearing the field or without (clears).
Setter(f, tried, stores) ==
    [f |-> f, tried |-> tried, stores |-> stores, clears |-> TRUE]

Samples(f) == IF f.n = 1 THEN {0, 1, 2^f.width - 1, 2^f.width, 255} \cap Byte
              ELSE {[i \in 1..f.n |-> i], [i \in 1..f.n |-> 255]}

Plain(f)   == Setter(f, Samples(f), [v \in Samples(f) |-> v])
Flag(f)    == Setter(f, {0, 1}, [v \in {0, 1} |-> v])
Checked(f) == Setter(f, Samples(f), [v \in Samples(f) \cap 0..2^f.width - 1 |-> v])
Masked(f)  == Setter(f, Samples(f), [v \in Samples(f) |-> v % 2^f.width])
Ored(f)    == [Masked(f) EXCEPT !.clears = FALSE]

\* A mutant: a setter that overwrites the byte instead of its own bits.
StoreWhole(bytes, s, v) ==
    LET f == s.f
    IN  IF f.n = 1
          THEN [bytes EXCEPT ![f.at + 1] = s.stores[v] * 2^f.shift]
          ELSE [i \in DOMAIN bytes |-> IF i \in f.at + 1 .. f.at + f.n
                                         THEN s.stores[v][i - f.at] ELSE bytes[i]]

Store(bytes, s, v) ==
    LET f    == s.f
        old  == bytes[f.at + 1]
        kept == IF s.clears THEN old - Get(bytes, f) * 2^f.shift ELSE old
    IN  IF f.n = 1
          THEN [bytes EXCEPT ![f.at + 1] = kept | (s.stores[v] * 2^f.shift)]
          ELSE [i \in DOMAIN bytes |-> IF i \in f.at + 1 .. f.at + f.n
                                         THEN s.stores[v][i - f.at] ELSE bytes[i]]
-----------------------------------------------------------------------------
(* maccommandcreator.rs *)

LinkCheckAnsCreator == [margin |-> Plain(Bits(1, 0, 8)), gateway_count |-> Plain(Bits(2, 0, 8))]

LinkADRReqCreator == [data_rate    |-> Checked(Bits(1, 4, 4)),
                      tx_power     |-> Checked(Bits(1, 0, 4)),
                      channel_mask |-> Plain(Bytes(2, 2)),
                      redundancy   |-> Plain(Bits(4, 0, 8))]

LinkADRAnsCreator == [channel_mask_ack |-> Flag(Bits(1, 0, 1)),
                      data_rate_ack    |-> Flag(Bits(1, 1, 1)),
                      tx_power_ack     |-> Flag(Bits(1, 2, 1))]

DutyCycleReqCreator == [max_duty_cycle |-> Checked(Bits(1, 0, 4))]

RXParamSetupReqCreator == [dl_settings |-> Plain(Bits(1, 0, 8)), frequency |-> Plain(Bytes(2, 3))]

RXParamSetupAnsCreator == [channel_ack            |-> Flag(Bits(1, 0, 1)),
                           rx2_data_rate_ack      |-> Flag(Bits(1, 1, 1)),
                           rx1_data_rate_offset_ack |-> Flag(Bits(1, 2, 1))]

\* The margin is an i8 kept in six bits of two's complement.
DevStatusAnsCreator ==
    [battery |-> Plain(Bits(1, 0, 8)),
     margin  |-> Setter(Bits(2, 0, 8), {-33, -32, -1, 31, 32}, [v \in {-32, -1, 31} |-> v % 64])]

NewChannelReqCreator == [channel_index   |-> Plain(Bits(1, 0, 8)),
                         frequency       |-> Plain(Bytes(2, 3)),
                         data_rate_range |-> Plain(Bits(5, 0, 8))]

NewChannelAnsCreator == [channel_frequency_ack |-> Flag(Bits(1, 0, 1)),
                         data_rate_range_ack   |-> Flag(Bits(1, 1, 1))]

RXTimingSetupReqCreator == [delay |-> Checked(Bits(1, 0, 4))]

TXParamSetupReqCreator == [downlink_dwell_time |-> Flag(Bits(1, 5, 1)),
                           uplink_dwell_time   |-> Flag(Bits(1, 4, 1)),
                           max_eirp            |-> Checked(Bits(1, 0, 4))]

DlChannelReqCreator == [channel_index |-> Plain(Bits(1, 0, 8)), frequency |-> Plain(Bytes(2, 3))]

DlChannelAnsCreator == [channel_frequency_ack       |-> Flag(Bits(1, 0, 1)),
                        uplink_frequency_exists_ack |-> Flag(Bits(1, 1, 1))]

\* Nanoseconds are kept in units of 1/256 s: a whole second is accepted and
\* truncated to the u8 0.
NanoUnit == 3906250
DeviceTimeAnsCreator ==
    LET tried == {0, NanoUnit - 1, NanoUnit, 999999999, 1000000000, 1000000001}
    IN  [seconds      |-> Plain(Bytes(1, 4)),
         nano_seconds |-> Setter(Bits(5, 0, 8), tried,
                                 [v \in tried \cap 0..1000000000 |-> (v \div NanoUnit) % 256])]
-----------------------------------------------------------------------------
(* certification.rs and multicast/ *)

DutVersionsAnsCreator == [versions_raw |-> Plain(Bytes(1, 12))]
RxAppCntAnsCreator    == [rx_app_cnt |-> Plain(Bytes(1, 2))]

PackageVersionAnsCreator == [package_identifier |-> Plain(Bits(1, 0, 8)),
                             package_version    |-> Plain(Bits(2, 0, 8))]

McGroupDeleteReqCreator == [mc_group_id_header |-> Ored(Bits(1, 0, 2))]

McGroupDeleteAnsCreator == [mc_group_id_header |-> Masked(Bits(1, 0, 2)),
                            mc_group_undefined |-> Flag(Bits(1, 2, 1))]

McGroupSetupAnsCreator == [mc_group_id_header |-> Masked(Bits(1, 0, 2))]

\* The key is stored decrypted with the McKEKey and read back encrypted with
\* it; the two are inverse, so the field is kept in the clear here.
McGroupSetupReqCreator == [mc_group_id_header |-> Plain(Bits(1, 0, 8)),
                           mc_addr            |-> Plain(Bytes(2, 4)),
                           mc_key             |-> Plain(Bytes(6, 16)),
                           min_mc_fcount      |-> Plain(Bytes(22, 4)),
                           max_mc_fcount      |-> Plain(Bytes(26, 4))]

\* req_group adds one group to the mask.
McGroupStatusReqCreator ==
    [req_group_mask |-> Masked(Bits(1, 0, 4)),
     req_group      |-> [Setter(Bits(1, 0, 4), 0..4, [v \in 0..4 |-> 2^(v % 4)])
                            EXCEPT !.clears = FALSE]]

Creators ==
    [LinkCheckAns |-> LinkCheckAnsCreator, LinkADRReq |-> LinkADRReqCreator,
     LinkADRAns |-> LinkADRAnsCreator, DutyCycleReq |-> DutyCycleReqCreator,
     RXParamSetupReq |-> RXParamSetupReqCreator, RXParamSetupAns |-> RXParamSetupAnsCreator,
     DevStatusAns |-> DevStatusAnsCreator, NewChannelReq |-> NewChannelReqCreator,
     NewChannelAns |-> NewChannelAnsCreator, RXTimingSetupReq |-> RXTimingSetupReqCreator,
     TXParamSetupReq |-> TXParamSetupReqCreator, DlChannelReq |-> DlChannelReqCreator,
     DlChannelAns |-> DlChannelAnsCreator, DeviceTimeAns |-> DeviceTimeAnsCreator,
     DutVersionsAns |-> DutVersionsAnsCreator, RxAppCntAns |-> RxAppCntAnsCreator,
     PackageVersionAns |-> PackageVersionAnsCreator, McGroupSetupReq |-> McGroupSetupReqCreator,
     McGroupDeleteReq |-> McGroupDeleteReqCreator, McGroupDeleteAns |-> McGroupDeleteAnsCreator,
     McGroupSetupAns |-> McGroupSetupAnsCreator,
     McGroupStatusReq |-> McGroupStatusReqCreator]
-----------------------------------------------------------------------------

(* The payloads: what each accessor returns. *)

\* An accessor reads a field and converts it by as, a function of the raw bits.
Reader(f, as) == [f |-> f, as |-> as]
Raw(f)        == Reader(f, << >>)
Read(payload, r) == IF r.as = << >> THEN Get(payload, r.f) ELSE r.as[Get(payload, r.f)]

create_value_reader_fn(at) == Raw(Bits(at, 0, 8))
create_ack_fn(offset)      == Raw(Bits(0, offset, 1))

LinkCheckAnsPayload == [margin |-> create_value_reader_fn(0),
                        gateway_count |-> create_value_reader_fn(1)]

LinkADRReqPayload == [data_rate    |-> Raw(Bits(0, 4, 4)),
                      tx_power     |-> Raw(Bits(0, 0, 4)),
                      channel_mask |-> Raw(Bytes(1, 2)),
                      redundancy   |-> Raw(Bits(3, 0, 8))]

LinkADRAnsPayload == [channel_mask_ack |-> create_ack_fn(0),
                      data_rate_ack    |-> create_ack_fn(1),
                      tx_power_ack     |-> create_ack_fn(2)]

DutyCycleReqPayload == [max_duty_cycle |-> Raw(Bits(0, 0, 4))]

RXParamSetupReqPayload == [dl_settings |-> Raw(Bits(0, 0, 8)), frequency |-> Raw(Bytes(1, 3))]

RXParamSetupAnsPayload == [channel_ack              |-> create_ack_fn(0),
                           rx2_data_rate_ack        |-> create_ack_fn(1),
                           rx1_data_rate_offset_ack |-> create_ack_fn(2)]

DevStatusAnsPayload ==
    [battery |-> create_value_reader_fn(0),
     margin  |-> Reader(Bits(1, 0, 6), [b \in 0..63 |-> IF b < 32 THEN b ELSE b - 64])]

\* DataRateRange::new refuses a maximum below the minimum.
InvalidDataRateRange == -1
DataRateRange == [b \in Byte |-> IF b \div 16 < b % 16 THEN InvalidDataRateRange ELSE b]
NewChannelReqPayload == [channel_index   |-> create_value_reader_fn(0),
                         frequency       |-> Raw(Bytes(1, 3)),
                         data_rate_range |-> Reader(Bits(4, 0, 8), DataRateRange)]

NewChannelAnsPayload == [channel_frequency_ack |-> create_ack_fn(0),
                         data_rate_range_ack   |-> create_ack_fn(1)]

RXTimingSetupReqPayload == [delay |-> Raw(Bits(0, 0, 4))]

\* The EIRP is read in dBm.
MaxEirp == <<8, 10, 12, 13, 14, 16, 18, 20, 21, 24, 26, 27, 29, 30, 33, 36>>
TXParamSetupReqPayload ==
    [downlink_dwell_time |-> Raw(Bits(0, 5, 1)),
     uplink_dwell_time   |-> Raw(Bits(0, 4, 1)),
     max_eirp            |-> Reader(Bits(0, 0, 4), [i \in 0..15 |-> MaxEirp[i + 1]])]

DlChannelReqPayload == [channel_index |-> create_value_reader_fn(0), frequency |-> Raw(Bytes(1, 3))]

DlChannelAnsPayload == [channel_frequency_ack       |-> create_ack_fn(0),
                        uplink_frequency_exists_ack |-> create_ack_fn(1)]

\* seconds() takes the first byte for the most significant one, where
\* set_seconds wrote the least significant.
DeviceTimeAnsPayload ==
    [seconds      |-> Reader(Bytes(0, 4), [b \in Samples(Bytes(0, 4)) \cup {<<0, 0, 0, 0>>} |-> Reverse(b)]),
     nano_seconds |-> Reader(Bits(4, 0, 8), [u \in Byte |-> u * NanoUnit])]

DutVersionsAnsPayload == [versions_raw |-> Raw(Bytes(0, 12))]
RxAppCntAnsPayload    == [rx_app_cnt |-> Raw(Bytes(0, 2))]

PackageVersionAnsPayload == [package_identifier |-> Raw(Bits(0, 0, 8)),
                             package_version    |-> Raw(Bits(1, 0, 8))]
McGroupDeleteReqPayload  == [mc_group_id_header |-> Raw(Bits(0, 0, 2))]
McGroupDeleteAnsPayload  == [mc_group_id_header |-> Raw(Bits(0, 0, 2)),
                             mc_group_undefined |-> Raw(Bits(0, 2, 1))]
McGroupSetupAnsPayload   == [mc_group_id_header |-> Raw(Bits(0, 0, 2))]
McGroupSetupReqPayload   == [mc_group_id_header |-> Raw(Bits(0, 0, 2)),
                             mc_addr            |-> Raw(Bytes(1, 4)),
                             mc_key             |-> Raw(Bytes(5, 16)),
                             min_mc_fcount      |-> Raw(Bytes(21, 4)),
                             max_mc_fcount      |-> Raw(Bytes(25, 4))]
McGroupStatusReqPayload  == [req_group_mask |-> Raw(Bits(0, 0, 4))]

Payloads ==
    [LinkCheckAns |-> LinkCheckAnsPayload, LinkADRReq |-> LinkADRReqPayload,
     LinkADRAns |-> LinkADRAnsPayload, DutyCycleReq |-> DutyCycleReqPayload,
     RXParamSetupReq |-> RXParamSetupReqPayload, RXParamSetupAns |-> RXParamSetupAnsPayload,
     DevStatusAns |-> DevStatusAnsPayload, NewChannelReq |-> NewChannelReqPayload,
     NewChannelAns |-> NewChannelAnsPayload, RXTimingSetupReq |-> RXTimingSetupReqPayload,
     TXParamSetupReq |-> TXParamSetupReqPayload, DlChannelReq |-> DlChannelReqPayload,
     DlChannelAns |-> DlChannelAnsPayload, DeviceTimeAns |-> DeviceTimeAnsPayload,
     DutVersionsAns |-> DutVersionsAnsPayload, RxAppCntAns |-> RxAppCntAnsPayload,
     PackageVersionAns |-> PackageVersionAnsPayload, McGroupSetupReq |-> McGroupSetupReqPayload,
     McGroupDeleteReq |-> McGroupDeleteReqPayload, McGroupDeleteAns |-> McGroupDeleteAnsPayload,
     McGroupSetupAns |-> McGroupSetupAnsPayload, McGroupStatusReq |-> McGroupStatusReqPayload]

\* ack(): the whole octet is compared, except by DlChannelAns.
Ack(c, payload) ==
    CASE c \in {"LinkADRAns", "RXParamSetupAns"} -> payload[1] = 7
      [] c = "NewChannelAns"                     -> payload[1] = 3
      [] c = "DlChannelAns"                      -> payload[1] % 4 = 3
-----------------------------------------------------------------------------

\* The payloads of variable length.
NbTotalGroups == Raw(Bits(0, 4, 3))
AnsGroupMask  == Raw(Bits(0, 0, 4))
ItemIterator(payload) ==
    [k \in 1..(Len(payload) - 1) \div 5 |-> SubSeq(payload, 5 * k - 3, 5 * k + 1)]
-----------------------------------------------------------------------------
(* A creator in use. *)

NoCommand == "none"
CidOf(c) == (CHOOSE n \in DOMAIN CommandSets : c \in DOMAIN CommandSets[n])
TableEntry(c) == CommandSets[CidOf(c)][c]
Zero(r) == IF r.f.n = 1 THEN 0 ELSE [i \in 1..r.f.n |-> 0]

FieldsInit == cmd = NoCommand /\ data = << >> /\ wrote = << >> /\ calls = 0

New(c) ==
    /\ cmd = NoCommand
    /\ cmd' = c
    /\ data' = [i \in 1..1 + TableEntry(c)[2] |-> IF i = 1 THEN TableEntry(c)[1] ELSE 0]
    /\ wrote' = [n \in DOMAIN Payloads[c] |-> Zero(Payloads[c][n])]
    /\ UNCHANGED calls

Set(name, v) ==
    LET s == Creators[cmd][name]
    IN  /\ calls < MaxSetters
        /\ calls' = calls + 1
        /\ UNCHANGED cmd
        /\ IF v \in DOMAIN s.stores
             THEN /\ data' = Store(data, s, v)
                  /\ wrote' = IF name = "req_group"
                                THEN [wrote EXCEPT !.req_group_mask = @ | 2^(v % 4)]
                                ELSE [wrote EXCEPT ![name] = v]
             ELSE UNCHANGED <<data, wrote>>

\* The creators of variable length: the answer to McGroupStatusReq, and the
\* echo of the certification.
VariableCreators == [McGroupStatusAns  |-> [octets |-> <<0>>, wrote |-> [total |-> 0, items |-> << >>]],
                     EchoIncPayloadAns |-> [octets |-> << >>, wrote |-> [payload |-> << >>]]]

NewVariable(c) ==
    /\ cmd = NoCommand
    /\ cmd' = c
    /\ data' = <<TableEntry(c)[1]>> \o VariableCreators[c].octets
    /\ wrote' = VariableCreators[c].wrote
    /\ UNCHANGED calls

Call(c) == /\ cmd = c /\ calls < MaxSetters
           /\ calls' = calls + 1
           /\ UNCHANGED cmd

\* nb_total_groups keeps the four bits of the mask, push adds one to them.
\* The device pushes a group once (the creator does not look).
SetTotal(total) ==
    /\ Call("McGroupStatusAns")
    /\ data' = [data EXCEPT ![2] = (@ % 16) | ((total % 8) * 16)]
    /\ wrote' = [wrote EXCEPT !.total = total]

PushGroup(id, addr) ==
    /\ Call("McGroupStatusAns")
    /\ \A i \in DOMAIN wrote.items : wrote.items[i][1] # id
    /\ data' = [data EXCEPT ![2] = @ | 2^id] \o <<id>> \o addr
    /\ wrote' = [wrote EXCEPT !.items = Append(@, <<id>> \o addr)]

\* payload: every octet is incremented; a later call replaces an earlier one.
EchoPayload(octets) ==
    /\ Call("EchoIncPayloadAns")
    /\ data' = <<data[1]>> \o [i \in DOMAIN octets |-> (octets[i] + 1) % 256]
    /\ wrote' = [payload |-> octets]

FieldsNext ==
    \/ \E c \in DOMAIN Creators : New(c)
    \/ \E c \in DOMAIN VariableCreators : NewVariable(c)
    \/ \E total \in {0, 1, 4, 7, 8, 255} : SetTotal(total)
    \/ \E id \in 0..3, addr \in Samples(Bytes(0, 4)) : PushGroup(id, addr)
    \/ \E octets \in {<<255>>, <<0, 255>>, <<8, 8, 8>>} : EchoPayload(octets)
    \/ /\ cmd \in DOMAIN Creators
       /\ \E name \in DOMAIN Creators[cmd] : \E v \in Creators[cmd][name].tried : Set(name, v)
-----------------------------------------------------------------------------
\* What an accessor owes for the last argument its setter accepted: that
\* argument, cut to the accessor's width or converted to its unit.
Means(c, name, v) ==
    LET w == Payloads[c][name].f
    IN  CASE name = "max_eirp"        -> MaxEirp[v + 1]
          [] name = "nano_seconds"    -> (v \div NanoUnit) * NanoUnit
          [] name = "data_rate_range" -> DataRateRange[v]
          [] OTHER                    -> IF w.n = 1 /\ v >= 0 THEN v % 2^w.width ELSE v

\* The three cases the code gets wrong: seconds that read differently from the
\* other end, a whole second of nanoseconds, which is accepted and stored as
\* none, and a second group id, which is ORed into the first.
Lost(c, name) == \/ name = "seconds" /\ wrote[name] # Reverse(wrote[name])
                 \/ name = "nano_seconds" /\ wrote[name] = 1000000000
                 \/ c = "McGroupDeleteReq" /\ calls > 1

\* A creator of fixed length: each accessor of the payload returns what its own
\* setter last accepted, unless the field is Lost, and ack() holds exactly when
\* every flag was set.
FieldsRead ==
    LET payload == Tail(data)
    IN  /\ \A name \in DOMAIN wrote :
             ~Lost(cmd, name) =>
               Read(payload, Payloads[cmd][name]) = Means(cmd, name, wrote[name])
        /\ cmd \in {"LinkADRAns", "RXParamSetupAns", "NewChannelAns", "DlChannelAns"} =>
             (Ack(cmd, payload) <=> \A name \in DOMAIN wrote : wrote[name] = 1)

\* The status answer: the parser finds its end where the creator ended it,
\* whatever follows, and takes nothing less for it; the status octet says which
\* groups were pushed, the items are theirs, in order, and the total is read.
StatusRead ==
    LET payload == Tail(data)
        mask    == Read(payload, AnsGroupMask)
        next    == <<0, 7, 1>>
    IN  /\ ParseOne(UplinkRemoteSetup, data \o next) = Command(data[1], payload)
        /\ \A k \in 1..Len(data) - 1 :
             ParseOne(UplinkRemoteSetup, SubSeq(data, 1, k)) = Truncated(data[1])
        /\ ItemIterator(payload) = wrote.items
        /\ {id \in 0..3 : (mask \div 2^id) % 2 = 1} =
             {wrote.items[i][1] : i \in DOMAIN wrote.items}
        /\ Read(payload, NbTotalGroups) = wrote.total % 8

\* The echo: what the parser takes is the request's octets, each plus one.
EchoRead ==
    wrote.payload # << >> =>
      LET res == ParseOne(UplinkDUTCommand, data)
      IN  /\ res.ok
          /\ wrote.payload = [i \in DOMAIN res.payload |-> (res.payload[i] + 255) % 256]

\* Whatever the order in which a creator's setters are called, with arguments
\* in range and out of it, what they wrote is what the payload's accessors read,
\* undisturbed by the fields that share its octets, and an answer of variable
\* length ends for the parser where it ended for its creator; except where a
\* field is Lost.
ReadBack ==
    /\ cmd \in DOMAIN Creators    => FieldsRead
    /\ cmd = "McGroupStatusAns"   => StatusRead
    /\ cmd = "EchoIncPayloadAns"  => EchoRead
=============================================================================
