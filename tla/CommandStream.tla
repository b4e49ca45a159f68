---------------------------- MODULE CommandStream ----------------------------
(***************************************************************************)
(* Streams of MAC commands: what build_mac_commands joins, what arrives of *)
(* it, and what the MacCommands iterator yields; the command sets that the *)
(* CommandHandler macro derives; and the queue of pending answers as       *)
(* uplink/serde.rs stores it.                                              *)
(***************************************************************************)
EXTENDS Integers, FiniteSets, SequencesExt

CONSTANTS
    MaxCommands,    \* commands in one stream
    BufferLen,      \* the buffer given to build_mac_commands
    StatusBytes     \* status octets of McGroupStatusAns that are tried

VARIABLES
    set,            \* the command set of the stream
    pushed,         \* the commands given to build_mac_commands
    stream,         \* the bytes that arrive
    iter,           \* MacCommands: the data left and the errored flag
    results         \* what the iterator has yielded

streamVars == <<set, pushed, stream, iter, results>>
-----------------------------------------------------------------------------
(* The command sets that CommandHandler derives: <<cid, length>> of each   *)
(* command.  Rest takes what follows; Status depends on the status octet.  *)

Rest   == -1
Status == -2

DownlinkMacCommand ==
    [LinkCheckAns |-> <<2, 2>>, LinkADRReq |-> <<3, 4>>, DutyCycleReq |-> <<4, 1>>,
     RXParamSetupReq |-> <<5, 4>>, DevStatusReq |-> <<6, 0>>, NewChannelReq |-> <<7, 5>>,
     RXTimingSetupReq |-> <<8, 1>>, TXParamSetupReq |-> <<9, 1>>, DlChannelReq |-> <<10, 4>>,
     DeviceTimeAns |-> <<13, 5>>]

UplinkMacCommand ==
    [LinkCheckReq |-> <<2, 0>>, LinkADRAns |-> <<3, 1>>, DutyCycleAns |-> <<4, 0>>,
     RXParamSetupAns |-> <<5, 1>>, DevStatusAns |-> <<6, 2>>, NewChannelAns |-> <<7, 1>>,
     RXTimingSetupAns |-> <<8, 0>>, TXParamSetupAns |-> <<9, 0>>, DlChannelAns |-> <<10, 1>>,
     DeviceTimeReq |-> <<13, 0>>]

DownlinkDUTCommand ==
    [DutResetReq |-> <<1, 0>>, DutJoinReq |-> <<2, 0>>, AdrBitChangeReq |-> <<4, 1>>,
     TxPeriodicityChangeReq |-> <<6, 1>>, TxFramesCtrlReq |-> <<7, Rest>>,
     EchoIncPayloadReq |-> <<8, Rest>>, RxAppCntReq |-> <<9, 0>>, LinkCheckReq |-> <<32, 0>>,
     DutVersionsReq |-> <<127, 0>>]

UplinkDUTCommand ==
    [EchoIncPayloadAns |-> <<8, Rest>>, RxAppCntAns |-> <<9, 2>>, DutVersionsAns |-> <<127, 12>>]

DownlinkRemoteSetup ==
    [PackageVersionReq |-> <<0, 0>>, McGroupStatusReq |-> <<1, 1>>, McGroupSetupReq |-> <<2, 29>>,
     McGroupDeleteReq |-> <<3, 1>>, McClassCSessionReq |-> <<4, 10>>,
     McClassBSessionReq |-> <<5, 10>>]

UplinkRemoteSetup ==
    [PackageVersionAns |-> <<0, 2>>, McGroupStatusAns |-> <<1, Status>>,
     McGroupSetupAns |-> <<2, 1>>, McGroupDeleteAns |-> <<3, 1>>,
     McClassCSessionAns |-> <<4, 4>>, McClassBSessionAns |-> <<5, 4>>]

CommandSets == [downlink_mac |-> DownlinkMacCommand, uplink_mac |-> UplinkMacCommand,
                downlink_dut |-> DownlinkDUTCommand, uplink_dut |-> UplinkDUTCommand,
                downlink_multicast |-> DownlinkRemoteSetup, uplink_multicast |-> UplinkRemoteSetup]

\* McGroupStatusAnsPayload::len: the status octet and five octets a group.
BitsSet(b) == Cardinality({i \in 0..3 : (b \div 2^i) % 2 = 1})
StatusLen(status) == 1 + 5 * BitsSet(status)

\* parse_one on non-empty bytes: the command, or the error.
Truncated(cid)  == [ok |-> FALSE, err |-> "Truncated", cid |-> cid]
UnknownCid(cid) == [ok |-> FALSE, err |-> "UnknownCid", cid |-> cid]
Command(cid, payload) == [ok |-> TRUE, cid |-> cid, payload |-> payload]

LenMac(entry, rest) ==
    CASE entry[2] = Rest   -> IF rest = << >> THEN 1 ELSE Len(rest)
      [] entry[2] = Status -> IF rest = << >> THEN 1 ELSE StatusLen(rest[1])
      [] OTHER             -> entry[2]

\* A mutant: truncation is not reported, the command takes what is there.
ParseOneLenient(table, bytes) ==
    LET cid   == bytes[1]
        rest  == Tail(bytes)
        names == {n \in DOMAIN table : table[n][1] = cid}
    IN  IF names = {} THEN UnknownCid(cid)
        ELSE LET len == LenMac(table[CHOOSE n \in names : TRUE], rest)
             IN  Command(cid, SubSeq(rest, 1, IF len > Len(rest) THEN Len(rest) ELSE len))

ParseOne(table, bytes) ==
    LET cid   == bytes[1]
        rest  == Tail(bytes)
        names == {n \in DOMAIN table : table[n][1] = cid}
    IN  IF names = {} THEN UnknownCid(cid)
        ELSE LET len == LenMac(table[CHOOSE n \in names : TRUE], rest)
             IN  IF Len(rest) < len THEN Truncated(cid) ELSE Command(cid, SubSeq(rest, 1, len))

\* MacCommands::next.
Iterator(bytes) == [data |-> bytes, errored |-> FALSE]
Exhausted(it)   == it.errored \/ it.data = << >>
Advance(it, res) ==
    IF res.ok THEN [it EXCEPT !.data = SubSeq(@, 2 + Len(res.payload), Len(@))]
              ELSE [it EXCEPT !.errored = TRUE]

\* build_mac_commands into a buffer; mac_commands_len.
Encode(c) == <<c.cid>> \o c.payload
BuildMacCommands(cmds) == FlattenSeq([i \in DOMAIN cmds |-> Encode(cmds[i])])

\* Uplink's Serialize and Deserialize: the queue padded to the FOpts limit.
FOPTS_MAX_LEN == 15
Serialize(pending) ==
    [pending_len  |-> Len(pending),
     pending_data |-> [i \in 1..FOPTS_MAX_LEN |-> IF i <= Len(pending) THEN pending[i] ELSE 0]]
Restorable(saved)  == saved.pending_len <= FOPTS_MAX_LEN
Deserialize(saved) == SubSeq(saved.pending_data, 1, saved.pending_len)
-----------------------------------------------------------------------------
(* A stream on its way from a creator to a parser. *)

\* Payload octets are themselves CIDs of the sets, so that a reader which
\* loses the framing goes on with commands that were never sent.
PayloadByte == 3
PayloadsOf(entry) ==
    CASE entry[2] = Rest   -> {[i \in 1..n |-> PayloadByte] : n \in 0..2}
      [] entry[2] = Status -> {[i \in 1..StatusLen(b) |-> IF i = 1 THEN b ELSE PayloadByte] :
                                 b \in StatusBytes}
      [] OTHER             -> {[i \in 1..entry[2] |-> PayloadByte]}

NotSent == [data |-> << >>, errored |-> FALSE]
StreamInit == /\ set \in DOMAIN CommandSets
              /\ pushed = << >> /\ stream = << >> /\ iter = NotSent /\ results = << >>

Push(name) ==
    /\ stream = << >> /\ results = << >>
    /\ Len(pushed) < MaxCommands
    /\ \E p \in PayloadsOf(CommandSets[set][name]) :
           pushed' = Append(pushed, Command(CommandSets[set][name][1], p))
    /\ UNCHANGED <<set, stream, iter, results>>

Whole == BuildMacCommands(pushed)

\* The stream is sent whole, loses octets of its last command, or is followed
\* by an octet that is no CID.  An uplink queue may be saved and restored.
Send(bytes) ==
    /\ pushed # << >> /\ stream = << >>
    /\ Len(Whole) <= BufferLen
    /\ stream' = bytes
    /\ iter' = Iterator(bytes)
    /\ UNCHANGED <<set, pushed, results>>

SendWhole   == Send(Whole)
SendCut     == /\ pushed # << >>
               /\ \E k \in 1..Len(Encode(Last(pushed))) :
                      k < Len(Whole) /\ Send(SubSeq(Whole, 1, Len(Whole) - k))
SendGarbled == Send(Append(Whole, 255))
SendRestored == /\ set = "uplink_mac" /\ Len(Whole) <= FOPTS_MAX_LEN
                /\ Restorable(Serialize(Whole))
                /\ Send(Deserialize(Serialize(Whole)))

NextCommand ==
    /\ ~Exhausted(iter)
    /\ LET res == ParseOne(CommandSets[set], iter.data)
       IN  iter' = Advance(iter, res) /\ results' = Append(results, res)
    /\ UNCHANGED <<set, pushed, stream>>

StreamNext ==
    \/ \E name \in DOMAIN CommandSets[set] : Push(name)
    \/ SendWhole \/ SendCut \/ SendGarbled \/ SendRestored
    \/ NextCommand

StreamSpec == StreamInit /\ [][StreamNext]_streamVars
-----------------------------------------------------------------------------
\* Commands 1..i occupy the first Upto(i) octets of what was built.
Upto(i) == Len(BuildMacCommands(SubSeq(pushed, 1, i)))
TakesRest(c) == \E n \in DOMAIN CommandSets[set] : CommandSets[set][n] = <<c.cid, Rest>>

\* The iterator never loses the framing: it yields the commands that were
\* sent, in order and unchanged, up to the first that is not all there; a
\* command without a length swallows the commands behind it; and it yields
\* one error at most, as its last item, when octets are missing or unknown.
StreamParsed ==
    /\ \A i \in DOMAIN results :
         /\ results[i].ok =>
              /\ i <= Len(pushed)
              /\ results[i].cid = pushed[i].cid
              /\ IF TakesRest(pushed[i])
                   THEN /\ Upto(i - 1) + 1 + Len(results[i].payload) = Len(stream)
                        /\ i = Len(results)
                   ELSE results[i] = pushed[i]
         /\ ~results[i].ok =>
              /\ i = Len(results)
              /\ IF results[i].err = "UnknownCid" THEN results[i].cid = 255
                 ELSE Upto(i) > Len(stream) \/ (TakesRest(pushed[i]) /\ pushed[i].payload = << >>)
    /\ (stream # << >> /\ Exhausted(iter)) =>
         \A i \in DOMAIN pushed :
           Upto(i) <= Len(stream) =>
             \/ i \in DOMAIN results
             \/ \E j \in 1..i : TakesRest(pushed[j])
=============================================================================
