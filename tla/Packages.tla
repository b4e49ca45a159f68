------------------------------ MODULE Packages ------------------------------
(* The application packages of the async device: remote multicast setup,    *)
(* multicast sessions and the certification protocol, in the two receive    *)
(* windows of an exchange, between them and while listening in class C.      *)
(*                                                                          *)
(* Unicast frames are authentic and fresh here: which ones the session      *)
(* accepts, their MAC commands and their acknowledgements belong to         *)
(* FrameCounter and MacSession. Kept is everything the packages do with an  *)
(* accepted frame, the answers they put on the air and the uplink counter.  *)
(* Counters are scaled: McFrames carries 32-bit counts of which the air     *)
(* shows count % WireModulus, MaxFcntUp stands for 0xFFFF_FFFF.             *)
EXTENDS Integers, FiniteSets, SequencesExt

CONSTANTS
    SetupMessages,  \* payloads of the setup port: sequences of commands
    CertMessages,   \* payloads of port 224: sequences of DUT commands
    ApiSessions,    \* <<group, session>> the application may install
    SetupPorts,     \* ports the application may choose for the setup
    McFrames,       \* frames to the multicast ports: address, key, 32-bit count
    WireModulus,    \* values of the FCnt field on the air
    MaxFcntUp,      \* the last uplink counter of a session
    QueueLen,       \* capacity D of the downlink queue
    MaxPending,     \* capacity in bytes of the pending setup answers
    Faults          \* whether radio calls fail or futures are dropped

ASSUME PackagesAssumption ==
    /\ WireModulus \in Nat \ {0} /\ MaxFcntUp \in Nat
    /\ QueueLen \in Nat /\ MaxPending \in Nat /\ Faults \in BOOLEAN
    /\ \A f \in McFrames : f.fcnt \in Nat /\ f.port \in 201 .. 205
    /\ \A s \in SetupMessages : s \in Seq({s[i] : i \in DOMAIN s})

VARIABLES
    mac,    \* the parts of Mac, Session and Configuration used here
    task,   \* where the future of send or rxc_listen stands
    air,    \* history: the last uplink, what excuses repeating its counter
    heard   \* history: counts accepted in each multicast session

vars == <<mac, task, air, heard>>

-----------------------------------------------------------------------------
(* Multicast sessions.                                                      *)

Groups == 0 .. 3

NoSession == [addr |-> "none"]

Session(addr, key, min, max) ==
    [addr |-> addr, key |-> key, fcnt_down |-> min, max_fcnt_down |-> max]

\* The sessions with slot g set to s.
PutSession(sessions, g, s) == [h \in Groups |-> IF h = g THEN s ELSE sessions[h]]

\* A session whose counter has moved to fcnt.
Counted(s, fcnt) == Session(s.addr, s.key, fcnt, s.max_fcnt_down)

DefaultMcPortRange == 201 .. 205

RemoteMulticastSetupPort == 200

CertificationPort == 224

AppPort == 1

NewMac ==
    [fcnt_up |-> 0, confirmed |-> FALSE, override_confirmed |-> "none",
     adr_enabled |-> TRUE, link_check |-> FALSE, ke_key |-> FALSE,
     sessions |-> [g \in Groups |-> NoSession], pending_uplinks |-> <<>>,
     cert_uplink |-> "none", remote_setup_port |-> RemoteMulticastSetupPort,
     class_c |-> FALSE, downlink |-> 0]

\* heapless::Vec::push with its error ignored
Push(m) == [m EXCEPT !.downlink = IF @ < QueueLen THEN @ + 1 ELSE @]

Result(m, r) == [mac |-> m, r |-> r]

\* The sessions with the address of a frame; only the first is looked at.
Matching(m, addr) == {g \in Groups : m.sessions[g].addr = addr}

MatchingSession(m, addr) ==
    CHOOSE g \in Matching(m, addr) : \A h \in Matching(m, addr) : g <= h

\* The MIC was computed over the 32-bit count, the device takes the FCnt field.
ValidateMic(s, f) == s.key = f.key /\ f.fcnt % WireModulus = f.fcnt

AcceptableAny(s, fcnt) == TRUE

Acceptable(s, fcnt) == fcnt > s.fcnt_down \/ fcnt = 0

McAccepts(m, f) ==
    /\ Matching(m, f.addr) # {}
    /\ LET s == m.sessions[MatchingSession(m, f.addr)]
       IN ValidateMic(s, f) /\ Acceptable(s, f.fcnt % WireModulus)

McHandleRx(m, f) ==
    IF ~McAccepts(m, f) THEN Result(m, "NoUpdate")
    ELSE LET g == MatchingSession(m, f.addr)
             s == Counted(m.sessions[g], f.fcnt % WireModulus)
             n == [m EXCEPT !.sessions = PutSession(@, g, s)]
         IN IF s.fcnt_down = s.max_fcnt_down
            THEN Result(n, "McSessionExpired")
            ELSE Result(Push(n), "McDownlinkReceived")

-----------------------------------------------------------------------------
(* Remote multicast setup. A command is [c |-> name, ...]; an answer keeps  *)
(* the name of its request and, for a status, the groups it lists.          *)

Answer(c, groups) == [c |-> c, groups |-> groups]

AnswerLen(a) ==
    CASE a.c = "PackageVersionReq" -> 3
      [] a.c = "McGroupStatusReq" -> 2 + 5 * Cardinality(a.groups)
      [] OTHER -> 2

PendingLen(answers) == FoldLeft(LAMBDA n, a : n + AnswerLen(a), 0, answers)

Active(sessions) == {g \in Groups : sessions[g] # NoSession}

Answerable == {"McGroupSetupReq", "PackageVersionReq", "McGroupDeleteReq",
               "McGroupStatusReq"}

\* The sessions and the answers of the package after one command.
SetupCommand(package, cmd) ==
    LET sessions == package.sessions
        Reply(after, groups) ==
            [sessions |-> after,
             pending_uplinks |-> Append(package.pending_uplinks, Answer(cmd.c, groups))]
    IN CASE cmd.c = "McGroupSetupReq" ->
               Reply(PutSession(sessions, cmd.group,
                                Session(cmd.addr, cmd.key, cmd.min, cmd.max)), {})
         [] cmd.c = "PackageVersionReq" -> Reply(sessions, {})
         [] cmd.c = "McGroupDeleteReq" ->
               Reply(PutSession(sessions, cmd.group, NoSession),
                     Active(sessions) \cap {cmd.group})
         [] cmd.c = "McGroupStatusReq" -> Reply(sessions, Active(sessions) \cap cmd.mask)
         [] OTHER -> package

\* A command that does not parse ends the loop; answers beyond the capacity
\* of the buffer are an unwrap of an error.
WellFormed(cmds) ==
    IF \E i \in DOMAIN cmds : cmds[i].c = "Malformed"
    THEN SubSeq(cmds, 1, SelectInSeq(cmds, LAMBDA c : c.c = "Malformed") - 1)
    ELSE cmds

\* The package after each number of commands.
SetupRun(m, cmds) ==
    LET run[i \in 0 .. Len(cmds)] ==
            IF i = 0 THEN [sessions |-> m.sessions, pending_uplinks |-> m.pending_uplinks]
            ELSE SetupCommand(run[i - 1], cmds[i])
    IN run

HandleSetupMessage(m, cmds) ==
    LET ok == WellFormed(cmds)
        package == SetupRun(m, ok)[Len(ok)]
        n == [m EXCEPT !.sessions = package.sessions,
                       !.pending_uplinks = package.pending_uplinks]
        new == \E i \in DOMAIN ok : ok[i].c = "McGroupSetupReq"
        response ==
            IF n.pending_uplinks = <<>> THEN "NoUpdate"
            ELSE IF new THEN "McGroupSetupTransmitRequest" ELSE "McTransmitRequest"
    IN IF ~m.ke_key THEN Result(m, "NoUpdate")
       ELSE Result(n, IF PendingLen(n.pending_uplinks) > MaxPending THEN "panic"
                      ELSE response)

-----------------------------------------------------------------------------
(* Certification. Reserved arguments are skipped, the first command with an *)
(* effect ends the loop.                                                    *)

Silent == {"AdrBitChangeRfu", "TxFramesCtrlRfu", "TxPeriodicityRfu"}

DutEffect(cmds) ==
    LET live == SelectSeq(cmds, LAMBDA c : c \notin Silent)
    IN IF live = <<>> THEN "Malformed" ELSE live[1]

\* handle_message and the dispatch of its response in Session::handle_rx; the
\* changes to the configuration fall through to the queue of the application.
HandleCertification(m, cmds) ==
    LET c == DutEffect(cmds)
    IN CASE c \in {"DutJoinReq", "DutResetReq", "TxPeriodicityChangeReq"} ->
               Result(m, "DeviceHandler")
         [] c = "LinkCheckReq" -> Result(m, "LinkCheckReq")
         [] c \in {"DutVersionsReq", "EchoIncPayloadReq", "RxAppCntReq"} ->
               Result([m EXCEPT !.cert_uplink = c], "UplinkPrepared")
         [] c \in {"AdrOn", "AdrOff"} ->
               Result(Push([m EXCEPT !.adr_enabled = c = "AdrOn"]),
                      "DownlinkReceived")
         [] c \in {"Confirmed", "Unconfirmed"} ->
               Result(Push([m EXCEPT !.override_confirmed = c]),
                      "DownlinkReceived")
         [] c = "NoOverride" -> Result(Push(m), "DownlinkReceived")
         [] OTHER -> Result(m, "NoUpdate")

-----------------------------------------------------------------------------
(* The session around the packages.                                         *)

\* The port of an accepted frame, the certification port first.
HandlePort(m, f) ==
    CASE f.port = CertificationPort -> HandleCertification(m, f.cmds)
      [] f.port # CertificationPort /\ f.port = m.remote_setup_port ->
            HandleSetupMessage(m, f.cmds)
      [] OTHER -> Result(Push(m), "DownlinkReceived")

\* Session::handle_rx: the multicast ports come before the unicast counters.
HandleRx(m, f) ==
    CASE f.port \in DefaultMcPortRange -> McHandleRx(m, f)
      [] f.port \notin DefaultMcPortRange /\ m.fcnt_up = MaxFcntUp ->
            Result(m, "SessionExpired")
      [] OTHER -> HandlePort([m EXCEPT !.fcnt_up = @ + 1], f)

Rx2Complete(m) ==
    IF m.fcnt_up = MaxFcntUp THEN Result(m, "SessionExpired")
    ELSE Result([m EXCEPT !.fcnt_up = @ + 1],
                IF m.confirmed THEN "NoAck" ELSE "RxComplete")

\* An uplink takes the counter as it stands; queued MAC commands leave with it.
PrepareBuffer(m, confirmed) ==
    [m EXCEPT !.link_check = FALSE,
              !.confirmed = CASE m.override_confirmed = "none" -> confirmed
                              [] OTHER -> m.override_confirmed = "Confirmed"]

CertificationSetupSend(m) == PrepareBuffer(m, FALSE)

MulticastSetupSendKeeping(m) == PrepareBuffer(m, FALSE)

MulticastSetupSend(m) == [PrepareBuffer(m, FALSE) EXCEPT !.pending_uplinks = <<>>]

-----------------------------------------------------------------------------
(* The futures. task.at is the await point of send or rxc_listen, airing    *)
(* the uplink handed to the radio there and kept the response between       *)
(* windows. A class C device that is idle listens.                          *)

Task(at, airing, kept) == [at |-> at, airing |-> airing, kept |-> kept]

Idle == Task("idle", "none", "none")

Panic == Task("panic", "none", "none")

Window == [bw1 |-> "rx1", bw2 |-> "rx2"]

SendResponse == {"SessionExpired", "DownlinkReceived", "NoAck", "RxComplete",
                 "McNewSession", "McSessionExpired", "McDownlinkReceived"}

ListenResponse == SendResponse \ {"NoAck", "RxComplete"}

\* The history of an uplink on the air.
Airs(m, payload, request) ==
    air' = [last |-> m.fcnt_up, payload |-> payload, request |-> request,
            reused |-> m.fcnt_up = air.last, explained |-> air.excuse # "none",
            excuse |-> IF m.fcnt_up = MaxFcntUp THEN "expired" ELSE "none"]

Excused(why) == air' = [air EXCEPT !.excuse = why, !.payload = <<>>,
                                   !.request = <<>>]

\* What the caller of handle_mac_response does with response r, "none" if the
\* frame was of no use to it.
Resolve(at, m, r) ==
    CASE at \in {"bw1", "bw2"} ->
            /\ mac' = m
            /\ task' = CASE r = "none" -> Task(at, "none", task.kept)
                         [] r # "none" /\ task.kept = "McNewSession" ->
                               Task(Window[at], "none", "none")
                         [] OTHER -> Task(at, "none", r)
      [] at = "rx1" /\ r = "none" ->
            mac' = m /\ task' = Task("bw2", "none", "none")
      [] at = "rx2" /\ r = "none" ->
            mac' = Rx2Complete(m).mac /\ task' = Idle
      [] OTHER ->
            /\ mac' = m
            /\ task' = IF r \in {"none"} \cup (IF at = "idle" THEN ListenResponse
                                               ELSE SendResponse)
                       THEN Idle ELSE Panic

Multicast == {"McNewSession", "McSessionExpired", "McDownlinkReceived"}

\* handle_mac_response when it needs no transmission.
DirectOutcome(m, r) ==
    CASE r = "NoUpdate" -> Result(m, "none")
      [] r = "LinkCheckReq" -> Rx2Complete([m EXCEPT !.link_check = TRUE])
      [] OTHER -> Result(m, r)

\* A certification answer completes its exchange, a multicast one does not.
CertCompleteWithout(m) == Result(m, "RxComplete")

CertComplete(m) == Rx2Complete(m)

McComplete(m, airing) ==
    Result(m, IF airing = "mcNew" THEN "McNewSession" ELSE "none")

-----------------------------------------------------------------------------
Init ==
    /\ mac = NewMac
    /\ task = Idle
    /\ air = [last |-> -1, payload |-> <<>>, request |-> <<>>,
              reused |-> FALSE, explained |-> FALSE, excuse |-> "none"]
    /\ heard = [g \in Groups |-> <<>>]

AtRest == task = Idle

SetMulticastKeKey ==
    /\ AtRest /\ ~mac.ke_key
    /\ mac' = [mac EXCEPT !.ke_key = TRUE]
    /\ UNCHANGED <<task, air, heard>>

SetMulticastSession(g, s) ==
    /\ AtRest
    /\ mac' = [mac EXCEPT !.sessions = PutSession(@, g, s)]
    /\ heard' = [heard EXCEPT ![g] = <<>>]
    /\ UNCHANGED <<task, air>>

SetRemoteSetupPort(p) ==
    /\ AtRest
    /\ mac' = [mac EXCEPT !.remote_setup_port = p]
    /\ UNCHANGED <<task, air, heard>>

EnableClassC(on) ==
    /\ AtRest
    /\ mac' = [mac EXCEPT !.class_c = on]
    /\ UNCHANGED <<task, air, heard>>

TakeDownlink ==
    /\ AtRest /\ mac.downlink > 0
    /\ mac' = [mac EXCEPT !.downlink = @ - 1]
    /\ UNCHANGED <<task, air, heard>>

Send(confirmed) ==
    /\ AtRest
    /\ mac' = PrepareBuffer(mac, confirmed)
    /\ task' = Task("tx", "data", "none")
    /\ Airs(mac, <<>>, <<>>)
    /\ UNCHANGED heard

TxDone ==
    /\ task.at = "tx"
    /\ task' = Task("bw1", "none", "none")
    /\ UNCHANGED <<mac, air, heard>>

\* The timer ends the wait before a window, in class C with what was kept.
WindowOpens ==
    /\ task.at \in DOMAIN Window /\ task.airing = "none"
    /\ task' = Task(Window[task.at], "none", "none")
    /\ UNCHANGED <<mac, air, heard>>

RxTimeout ==
    /\ task.at \in {"rx1", "rx2"} /\ task.airing = "none"
    /\ Resolve(task.at, mac, "none")
    /\ UNCHANGED <<air, heard>>

Listening ==
    /\ task.airing = "none"
    /\ \/ task.at \in {"rx1", "rx2"}
       \/ mac.class_c /\ task.at \in {"idle", "bw1", "bw2"}

\* The history of what was heard, reset with the session and by frame 0.
Hears(f, m) ==
    heard' = [g \in Groups |->
        CASE f.port \in DefaultMcPortRange /\ McAccepts(mac, f)
             /\ g = MatchingSession(mac, f.addr) ->
                  IF f.fcnt = 0 THEN <<0>> ELSE Append(heard[g], f.fcnt)
          [] f.port \notin DefaultMcPortRange /\ m.sessions[g] # mac.sessions[g] ->
                  <<>>
          [] OTHER -> heard[g]]

\* A frame arrives: handle_rx or handle_rxc, then handle_mac_response up to its
\* first await.
Receive(f) ==
    LET h == HandleRx(mac, f)
        o == DirectOutcome(h.mac, h.r)
    IN /\ Listening
       /\ Hears(f, h.mac)
       /\ CASE h.r = "panic" ->
                  mac' = h.mac /\ task' = Panic /\ UNCHANGED air
            [] h.r = "UplinkPrepared" ->
                  /\ mac' = CertificationSetupSend(h.mac)
                  /\ task' = [task EXCEPT !.airing = "cert"]
                  /\ Airs(h.mac, <<>>, <<>>)
            [] h.r \in {"McTransmitRequest", "McGroupSetupTransmitRequest"} ->
                  /\ mac' = MulticastSetupSend(h.mac)
                  /\ task' = [task EXCEPT !.airing =
                         IF h.r = "McTransmitRequest" THEN "mc" ELSE "mcNew"]
                  /\ Airs(h.mac, h.mac.pending_uplinks, f.cmds)
            [] OTHER ->
                  /\ Resolve(task.at, o.mac, o.r)
                  /\ CASE task.at \in {"rx1", "rx2"} /\ o.r \in Multicast ->
                             Excused("multicast")
                       [] h.r = "SessionExpired" -> Excused("expired")
                       [] OTHER -> UNCHANGED air

\* The radio has sent the answer of a package.
AnswerSent ==
    /\ task.airing \in {"cert", "mc", "mcNew"}
    /\ LET o == IF task.airing = "cert" THEN CertComplete(mac)
                ELSE McComplete(mac, task.airing)
       IN Resolve(task.at, o.mac, o.r)
    /\ IF task.airing = "cert" THEN UNCHANGED air ELSE Excused("multicast")
    /\ UNCHANGED heard

\* The radio reports an error, or the application drops the future.
Fail ==
    /\ Faults
    /\ task.at \notin {"idle", "panic"} \/ task.airing # "none"
    /\ task' = Idle
    /\ Excused("aborted")
    /\ UNCHANGED <<mac, heard>>

\* What the network sends to this device and its groups.
Unicast(port, cmds) ==
    [port |-> port, cmds |-> cmds, addr |-> "device", key |-> "nwkskey",
     fcnt |-> 1]

ReceiveApp == Receive(Unicast(AppPort, <<>>))

ReceiveSetup == \E s \in SetupMessages :
                    Receive(Unicast(mac.remote_setup_port, s))

ReceiveCertification == \E c \in CertMessages :
                            Receive(Unicast(CertificationPort, c))

ReceiveMulticast == \E f \in McFrames : Receive(f)

Next ==
    \/ SetMulticastKeKey
    \/ \E a \in ApiSessions : SetMulticastSession(a[1], a[2])
    \/ \E p \in SetupPorts : SetRemoteSetupPort(p)
    \/ \E on \in BOOLEAN : EnableClassC(on)
    \/ TakeDownlink
    \/ \E confirmed \in BOOLEAN : Send(confirmed)
    \/ TxDone
    \/ WindowOpens
    \/ RxTimeout
    \/ ReceiveApp
    \/ ReceiveSetup
    \/ ReceiveCertification
    \/ ReceiveMulticast
    \/ AnswerSent
    \/ Fail

Spec == Init /\ [][Next]_vars

-----------------------------------------------------------------------------
\* Within one multicast session, and since the last frame 0, no count is
\* accepted twice or out of order, whatever windows the frames arrive in and
\* whatever setup messages come between them (Multicast::handle_rx).
McFresh ==
    \A g \in Groups : \A i, j \in DOMAIN heard[g] :
        i < j => heard[g][i] < heard[g][j]

\* The commands that owe an answer, among each number of commands.
Asked(cmds) ==
    LET asked[i \in 0 .. Len(cmds)] ==
            IF i = 0 THEN <<>>
            ELSE IF cmds[i].c \in Answerable THEN Append(asked[i - 1], cmds[i])
            ELSE asked[i - 1]
    IN asked

\* A multicast answer on the air holds one answer for each command of the setup
\* message that caused it, in order, and nothing left from an earlier one whose
\* transmission failed; a closing status answer lists the sessions there are
\* (Multicast::handle_setup_message and setup_send).
AnswersMatchRequest ==
    task.airing \in {"mc", "mcNew"} =>
        LET ok == WellFormed(air.request)
            asked == Asked(ok)[Len(ok)]
            n == Len(asked)
        IN /\ Len(air.payload) = n
           /\ \A i \in 1 .. n : air.payload[i].c = asked[i].c
           /\ asked[n].c = "McGroupStatusReq" =>
                  air.payload[n].groups = Active(mac.sessions) \cap asked[n].mask

\* No two uplinks share a counter, certification answers included, unless a
\* multicast frame or answer took the place of the increment, the exchange was
\* cut short or the counters had run out (Mac::certification_setup_send,
\* Device::handle_mac_response).
CounterReuseExplained == air.reused => air.explained

\* "Until we handle NbTrans, there is no case where we should not increment
\* FCntUp" (Session::rx2_complete): every uplink has a counter of its own.
UplinkCounterFresh == air.reused => air.last = MaxFcntUp
=============================================================================
