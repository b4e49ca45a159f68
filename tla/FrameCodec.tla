----------------------------- MODULE FrameCodec -----------------------------
(***************************************************************************)
(* PHYPayloads from creator.rs to parser.rs.  A frame is the sequence of   *)
(* its octets; an octet is a cell: the field it belongs to, a number (its  *)
(* value where the parser looks at it, else its place in the field), the   *)
(* set of key stream octets it was XORed with, and for an octet of a MIC   *)
(* or of an encrypted block what that was computed from.  AES and CMAC are *)
(* ideal: equal outputs mean equal keys and equal inputs.                  *)
(***************************************************************************)
EXTENDS Integers, SequencesExt

CONSTANTS
    FOptsLens,      \* lengths of FOpts that are tried, one too long included
    FrmLens,        \* lengths of FRMPayload
    FcntHighs,      \* high halves of frame counters
    Flags           \* sets of the FCtrl flags asked for

ASSUME FrameAssumption ==
    /\ FOptsLens \subseteq Nat /\ FrmLens \subseteq Nat /\ FcntHighs \subseteq Nat
    /\ Flags \subseteq SUBSET {"adr", "adr_ack_req", "ack", "f_pending"}

VARIABLES
    built,          \* the frame description given to build_into
    wire,           \* the octets received
    damage,         \* what happened to them in the air
    args,           \* what the receiver assumes: frame counter, keys
    got             \* what it made of them

frameVars == <<built, wire, damage, args, got>>

Cell(field, i)  == [field |-> field, i |-> i, ks |-> {}, of |-> << >>]
Field(field, n) == [k \in 1..n |-> Cell(field, k)]
Value(field, v) == << Cell(field, v) >>

MHDR_LEN == 1
MIC_LEN  == 4
JOIN_REQUEST_LEN == 23
JOIN_ACCEPT_LEN  == 17
JOIN_ACCEPT_WITH_CFLIST_LEN == 33
-----------------------------------------------------------------------------
(* Cryptography *)

\* The MIC of the octets before it; of says which key and B0 block it binds.
Mic(b0, key, octets) ==
    [k \in 1..MIC_LEN |-> [Cell("mic", k) EXCEPT !.of = <<key, b0, octets>>]]

\* generate_helper_block: the direction bit of the MHDR, the address and the
\* whole 32-bit counter.
HelperBlock(octets, fcnt) == <<(octets[1].i \div 32) % 2, SubSeq(octets, 2, 5), fcnt>>

CalculateDataMic(octets, key, fcnt) == Mic(HelperBlock(octets, fcnt), key, octets)
CalculateMic(octets, key)           == Mic(<< >>, key, octets)

\* XOR with the key stream: block counters start at 1, 16 octets a block.
\* Octets first + 1 to last are changed; twice the same stream is none.
EncryptFrmDataPayload(octets, first, last, fcnt, key) ==
    [p \in DOMAIN octets |->
        IF p \in first + 1 .. last
          THEN LET n == p - first - 1
                   s == <<key, HelperBlock(octets, fcnt), 1 + n \div 16, n % 16>>
               IN  [octets[p] EXCEPT !.ks = (@ \ {s}) \cup ({s} \ @)]
          ELSE octets[p]]

\* decrypt_block and encrypt_block on whole blocks of 16 after the MHDR.
\* Encrypting undoes decrypting under the same key of the same whole block.
BlockOf(octets, p) == LET b == (p - 2) \div 16 IN SubSeq(octets, 16 * b + 2, 16 * b + 17)
InBlock(octets, p) == p > 1 /\ 16 * ((p - 2) \div 16) + 17 <= Len(octets)

DecryptBlocks(octets, key) ==
    [p \in DOMAIN octets |->
        IF InBlock(octets, p)
          THEN [Cell("aes", (p - 2) % 16) EXCEPT !.of = <<key, BlockOf(octets, p)>>]
          ELSE octets[p]]

EncryptBlocks(octets, key) ==
    [p \in DOMAIN octets |->
        IF ~InBlock(octets, p) THEN octets[p]
        ELSE LET b == BlockOf(octets, p)
                 j == (p - 2) % 16
             IN  IF \A k \in 1..16 : /\ b[k].field = "aes" /\ b[k].i = k - 1
                                     /\ b[k].of = b[1].of /\ b[k].of[1] = key
                   THEN b[j + 1].of[2][j + 1]
                   ELSE [Cell("garbled", j) EXCEPT !.of = <<key, b>>]]
-----------------------------------------------------------------------------
(* creator.rs *)

UplinkTypes    == {"UnconfirmedUp", "ConfirmedUp"}
ConfirmedTypes == {"ConfirmedUp", "ConfirmedDown"}
DataFrameTypes == [UnconfirmedUp |-> 64, UnconfirmedDown |-> 96,
                   ConfirmedUp |-> 128, ConfirmedDown |-> 160]

IsUplink(t) == t \in UplinkTypes
Mhdr(f)     == DataFrameTypes[f.frame_type]
When(flag, bit) == IF flag THEN bit ELSE 0

FCtrlByte(f) ==
    f.f_opts + When("adr" \in f.flags, 128)
             + When("adr_ack_req" \in f.flags /\ IsUplink(f.frame_type), 64)
             + When("ack" \in f.flags, 32)
             + When("f_pending" \in f.flags /\ ~IsUplink(f.frame_type), 16)

\* Payload::None, Payload::Data on a port and Payload::MacCommands.
FPort(f) == CASE f.payload = "None"        -> << >>
              [] f.payload = "Data"        -> Value("f_port", 1)
              [] f.payload = "MacCommands" -> Value("f_port", 0)
FrmLen(f) == IF f.payload = "None" THEN 0 ELSE f.frm

DataFrameError(f) ==
    IF f.f_opts > 15 THEN "FOptsTooLong"
    ELSE IF f.payload = "Data" /\ ~f.app_key THEN "MissingKey"
    ELSE IF f.payload = "MacCommands" /\ f.f_opts > 0 THEN "FOptsWithFPortZero"
    ELSE "none"

BuildDataFrame(f) ==
    LET head == Value("mhdr", Mhdr(f)) \o Field("dev_addr", 4) \o Value("fctrl", FCtrlByte(f))
                  \o Value("fcnt", f.fcnt[2]) \o Value("fcnt1", 0)
                  \o Field("f_opts", f.f_opts) \o FPort(f)
        end  == Len(head) + FrmLen(f)
        out  == EncryptFrmDataPayload(head \o Field("frm", FrmLen(f)), Len(head), end, f.fcnt,
                                      IF f.payload = "Data" THEN "AppSKey" ELSE "NwkSKey")
    IN  out \o CalculateDataMic(out, "NwkSKey", f.fcnt)

BuildJoinRequest(f) ==
    LET out == Value("mhdr", 0) \o Field("join_eui", 8) \o Field("dev_eui", 8)
                 \o Field("dev_nonce", 2)
    IN  out \o CalculateMic(out, "AppKey")

CfListCells(kind) ==
    CASE kind = "None"    -> << >>
      [] kind = "Dynamic" -> Field("freqs", 15) \o Value("cf_type", 0)
      [] kind = "Fixed"   -> Field("mask", 9) \o [k \in 1..6 |-> Cell("zero", 0)]
                               \o Value("cf_type", 1)

BuildJoinAccept(f) ==
    LET out == Value("mhdr", 32) \o Field("join_nonce", 3) \o Field("net_id", 3)
                 \o Field("dev_addr", 4) \o Value("dl_settings", 82)
                 \o Value("rx_delay", f.rx_delay % 16) \o CfListCells(f.c_f_list)
    IN  DecryptBlocks(out \o CalculateMic(out, "AppKey"), "AppKey")
-----------------------------------------------------------------------------
(* parser.rs *)

Err(e) == [ok |-> FALSE, err |-> e]

\* Layout::validate: where the parts of a data frame begin and end.
Layout(octets) ==
    LET mhdr  == octets[1].i
        fhdr  == 7 + (octets[6].i % 16)
        micAt == Len(octets) - MIC_LEN
        after == MHDR_LEN + fhdr
    IN  IF Len(octets) < MHDR_LEN + 7 + MIC_LEN THEN Err("TooShort")
        ELSE IF mhdr % 4 # 0 THEN Err("UnsupportedMajorVersion")
        ELSE IF mhdr \div 32 \notin 2..5 THEN Err("NotADataFrame")
        ELSE IF after > micAt THEN Err("TruncatedFhdr")
        ELSE [ok |-> TRUE, fhdr |-> fhdr, port |-> after < micAt,
              start |-> IF after < micAt THEN after + 1 ELSE after, end |-> micAt]

FrameTypeOf(mhdr) == CHOOSE t \in DOMAIN DataFrameTypes : DataFrameTypes[t] = 32 * (mhdr \div 32)

ExtractMic(octets)  == SubSeq(octets, Len(octets) - MIC_LEN + 1, Len(octets))
WithoutMic(octets)  == SubSeq(octets, 1, Len(octets) - MIC_LEN)

\* A mutant: the receiver deciphers with the counter it read off the frame.
FullFcntLow(octets, fcnt) == <<0, octets[7].i>>

\* The high half of the receiver's counter over the half on the wire.
FullFcnt(octets, fcnt) == <<fcnt[1], octets[7].i>>

\* The accessors of FCtrl, Fhdr and frm_payload on a deciphered frame.
DataView(octets, l) ==
    LET t    == FrameTypeOf(octets[1].i)
        ctrl == octets[6].i
        bit(b) == (ctrl \div b) % 2 = 1
        port == octets[8 + (l.fhdr - 7) + 1].i
    IN  [ok |-> TRUE, frame_type |-> t, dev_addr |-> SubSeq(octets, 2, 5),
         flags |-> {x \in {"adr"} : bit(128)} \cup {x \in {"adr_ack_req"} : IsUplink(t) /\ bit(64)}
                     \cup {x \in {"ack"} : bit(32)}
                     \cup {x \in {"f_pending"} : ~IsUplink(t) /\ bit(16)},
         fcnt |-> octets[7].i,
         f_opts |-> SubSeq(octets, 9, 1 + l.fhdr),
         payload |-> IF ~l.port THEN "None" ELSE IF port = 0 THEN "MacCommands" ELSE "Data",
         frm |-> SubSeq(octets, l.start + 1, l.end)]

\* check_mic_and_decrypt_in_place of a data frame.
ReceiveData(octets, a) ==
    LET l     == Layout(octets)
        app   == l.port /\ octets[2 + l.fhdr].i # 0
        plain == EncryptFrmDataPayload(octets, l.start, l.end, FullFcnt(octets, a.fcnt),
                                       IF app THEN "AppSKey" ELSE "NwkSKey")
    IN  IF ~l.ok THEN l
        ELSE IF ExtractMic(octets) # CalculateDataMic(WithoutMic(octets), "NwkSKey", a.fcnt)
          THEN Err("InvalidMic")
        ELSE IF l.start < l.end /\ app /\ ~a.app_key THEN Err("MissingKey")
        ELSE DataView(IF l.start < l.end THEN plain ELSE octets, l)

JoinRequestView(octets) ==
    [ok |-> TRUE, join_eui |-> SubSeq(octets, 2, 9), dev_eui |-> SubSeq(octets, 10, 17),
     dev_nonce |-> SubSeq(octets, 18, 19)]

ReceiveJoinRequest(octets) ==
    IF Len(octets) # JOIN_REQUEST_LEN THEN Err("InvalidLength")
    ELSE IF ExtractMic(octets) # CalculateMic(WithoutMic(octets), "AppKey") THEN Err("InvalidMic")
    ELSE JoinRequestView(octets)

CfListView(octets) ==
    IF Len(octets) = JOIN_ACCEPT_LEN THEN << >>
    ELSE IF octets[29].i = 0 THEN SubSeq(octets, 14, 28)
    ELSE IF octets[29].i = 1 THEN SubSeq(octets, 14, 22)
    ELSE << >>

\* The session keys bind the nonces and the network of this join.
DeriveSessionKey(octets, first) == <<first, SubSeq(octets, 2, 4), SubSeq(octets, 5, 7), "dev_nonce">>

JoinAcceptView(octets) ==
    [ok |-> TRUE, dev_addr |-> SubSeq(octets, 8, 11), dl_settings |-> octets[12].i,
     rx_delay |-> octets[13].i % 16, c_f_list |-> CfListView(octets),
     nwkskey |-> DeriveSessionKey(octets, 1), appskey |-> DeriveSessionKey(octets, 2)]

ReceiveJoinAccept(octets) ==
    LET plain == EncryptBlocks(octets, "AppKey")
    IN  IF Len(octets) \notin {JOIN_ACCEPT_LEN, JOIN_ACCEPT_WITH_CFLIST_LEN} THEN Err("InvalidLength")
        ELSE IF ExtractMic(plain) # CalculateMic(WithoutMic(plain), "AppKey") THEN Err("InvalidMic")
        ELSE JoinAcceptView(plain)

\* parse and check_mic_and_decrypt: the MHDR decides.
Parse(octets, a) ==
    IF octets = << >> THEN Err("TooShort")
    ELSE IF octets[1].i % 4 # 0 THEN Err("UnsupportedMajorVersion")
    ELSE CASE octets[1].i \div 32 = 0      -> ReceiveJoinRequest(octets)
           [] octets[1].i \div 32 = 1      -> ReceiveJoinAccept(octets)
           [] octets[1].i \div 32 \in 2..5 -> ReceiveData(octets, a)
           [] OTHER                        -> Err("UnsupportedMessageType")
-----------------------------------------------------------------------------
NoFrame  == [kind |-> "none"]
NoResult == Err("none")
FrameInit == /\ built = NoFrame /\ wire = << >> /\ damage = "none"
             /\ args = << >> /\ got = NoResult

BuildData ==
    \E t \in DOMAIN DataFrameTypes, fl \in Flags, h \in FcntHighs, o \in FOptsLens,
       p \in {"None", "Data", "MacCommands"}, n \in FrmLens, k \in BOOLEAN :
      LET f == [kind |-> "data", frame_type |-> t, flags |-> fl, fcnt |-> <<h, 1>>, f_opts |-> o,
                payload |-> p, frm |-> n, app_key |-> k]
      IN  /\ built = NoFrame
          /\ built' = f
          /\ wire' = IF DataFrameError(f) = "none" THEN BuildDataFrame(f) ELSE << >>
          /\ UNCHANGED <<damage, args, got>>

BuildJoin ==
    /\ built = NoFrame
    /\ \/ LET f == [kind |-> "join_request"]
          IN  built' = f /\ wire' = BuildJoinRequest(f)
       \/ \E c \in {"None", "Dynamic", "Fixed"}, d \in {1, 31} :
            LET f == [kind |-> "join_accept", c_f_list |-> c, rx_delay |-> d]
            IN  built' = f /\ wire' = BuildJoinAccept(f)
    /\ UNCHANGED <<damage, args, got>>

\* Octets are lost, added or altered between the two radios.
Damage ==
    /\ wire # << >> /\ damage = "none" /\ args = << >>
    /\ \/ damage' = "cut"   /\ \E k \in {1, MIC_LEN, Len(wire) - 5} : wire' = SubSeq(wire, 1, Len(wire) - k)
       \/ damage' = "added" /\ wire' = Append(wire, Cell("noise", 0))
       \/ damage' = "altered"
          /\ \E p \in {1, 2, 6, 7, 9, Len(wire) - MIC_LEN, Len(wire)} \cap DOMAIN wire :
               \E d \in {1, 32} : wire' = [wire EXCEPT ![p].i = (@ + d) % 256]
    /\ UNCHANGED <<built, args, got>>

ReceiveFrame ==
    /\ wire # << >> /\ args = << >>
    /\ \E h \in FcntHighs, k \in BOOLEAN :
         /\ args' = [fcnt |-> <<h, 1>>, app_key |-> k]
         /\ got' = Parse(wire, args')
    /\ UNCHANGED <<built, wire, damage>>

FrameNext == BuildData \/ BuildJoin \/ Damage \/ ReceiveFrame

FrameSpec == FrameInit /\ [][FrameNext]_frameVars
-----------------------------------------------------------------------------
\* The flags that exist in the frame's direction.
Meaningful(f) == f.flags \ (IF IsUplink(f.frame_type) THEN {"f_pending"} ELSE {"adr_ack_req"})

SentView(f) ==
    CASE f.kind = "data" ->
           [ok |-> TRUE, frame_type |-> f.frame_type, dev_addr |-> Field("dev_addr", 4),
            flags |-> Meaningful(f), fcnt |-> f.fcnt[2], f_opts |-> Field("f_opts", f.f_opts),
            payload |-> f.payload, frm |-> Field("frm", FrmLen(f))]
      [] f.kind = "join_request" ->
           [ok |-> TRUE, join_eui |-> Field("join_eui", 8), dev_eui |-> Field("dev_eui", 8),
            dev_nonce |-> Field("dev_nonce", 2)]
      [] f.kind = "join_accept" ->
           [ok |-> TRUE, dev_addr |-> Field("dev_addr", 4), dl_settings |-> 82,
            rx_delay |-> f.rx_delay % 16,
            c_f_list |-> CASE f.c_f_list = "None"    -> << >>
                           [] f.c_f_list = "Dynamic" -> Field("freqs", 15)
                           [] f.c_f_list = "Fixed"   -> Field("mask", 9),
            nwkskey |-> <<1, Field("join_nonce", 3), Field("net_id", 3), "dev_nonce">>,
            appskey |-> <<2, Field("join_nonce", 3), Field("net_id", 3), "dev_nonce">>]

\* A frame the receiver accepts says exactly what was given to build_into:
\* type, address, flags, FOpts, port and the payload in the clear, whatever
\* its lengths and the high half of its counter; it is accepted only
\* undamaged and under the counter it was built for, and then it always is,
\* unless the key of its port is missing.
FrameAuthentic ==
    /\ got.ok => /\ damage = "none"
                 /\ built.kind = "data" => args.fcnt = built.fcnt
                 /\ got = SentView(built)
    /\ (args # << >> /\ damage = "none" /\ ~got.ok) =>
          \/ built.kind = "data" /\ args.fcnt # built.fcnt
          \/ got.err = "MissingKey" /\ ~args.app_key
=============================================================================
