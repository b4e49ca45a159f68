----------------------------- MODULE AsyncDevice -----------------------------
(***************************************************************************)
(* The asynchronous device (lorawan-device/src/async_device/mod.rs), with  *)
(* the default feature class-c.  join, send and rxc_listen are futures     *)
(* that borrow the device, so at most one of them is under way and no      *)
(* other method runs meanwhile; they give way only where they await the    *)
(* radio or the timer.  `fut` is the future under way and the await it     *)
(* stands at.                                                              *)
(*                                                                         *)
(* The radio may fail at every await, and the application may drop the     *)
(* future there (a timeout around send, say): both end the call without    *)
(* another step of it.  The link may deliver any frame in any window.      *)
(***************************************************************************)
EXTENDS MacSession

CONSTANTS
    Frames,        \* downlink frames the link may deliver (a subset of Frame)
    TxMs,          \* delays PhyRxTx::tx may return
    Lead,          \* get_rx_window_lead_time_ms()
    D,             \* capacity of the downlink queue
    Api            \* optional calls the application makes

ASSUME AsyncDeviceAssumption ==
    /\ Frames \subseteq Frame
    /\ TxMs \subseteq Nat
    /\ Lead \in 0 .. Second
    /\ D \in Nat
    /\ Api \subseteq {"abp", "class_c", "session", "set_adr", "set_datarate",
                      "reboot"}

VARIABLES
    fut,         \* the future under way
    mac,         \* Device.mac
    class_c,     \* Device.class_c
    downlink,    \* number of entries of Device.downlink
    saved,       \* the session the application last took with get_session
    hist         \* history: what has happened in the session so far

vars == <<fut, mac, class_c, downlink, saved, hist>>

Responses == {"NoAck", "SessionExpired", "DownlinkReceived", "NoJoinAccept",
              "JoinSuccess", "NoUpdate", "RxComplete"}

\* at: Tx = radio.tx; Arm = setup_rx or low_power before a window; Rxc = the
\* timer or an RXC frame; Sleep = the timer alone; Setup = setup_rx; Rx =
\* rx_single; Complete = window_complete.  start: the delay the timer is set
\* to; rx1: the one it was set to for RX1.  resp: what handle_mac_response returned for the window.
Future == [
    call : {"Ready", "Join", "Send", "Listen"},
    at : {"Tx", "Arm", "Rxc", "Sleep", "Setup", "Rx", "Complete", "Panicked"},
    win : {1, 2}, ms : Nat, start : Nat, rx1 : Nat,
    resp : Responses \cup {"None"}]

\* No future: the application may call any method.
Ready == [call |-> "Ready", at |-> "Tx", win |-> 1, ms |-> 0, start |-> 0,
          rx1 |-> 0, resp |-> "None"]

\* lastUp: counter of the last uplink handed to the radio; aborted: its
\* exchange ended in an error or was dropped before the counter moved; expired:
\* SessionExpired was returned; current: no uplink since `saved` was taken;
\* owed: sticky answers to the last downlink accepted in RX1 or RX2; cleared: a
\* data frame was dropped there since.
Hist == [
    lastUp : FcntOption, aborted : BOOLEAN, expired : BOOLEAN,
    current : BOOLEAN, owed : SUBSET Sticky, cleared : BOOLEAN]

InitHist == [
    lastUp |-> NoFcnt, aborted |-> FALSE, expired |-> FALSE,
    current |-> FALSE, owed |-> {}, cleared |-> FALSE]

TypeOK ==
    /\ fut \in Future
    /\ mac \in Mac
    /\ class_c \in BOOLEAN
    /\ downlink \in 0 .. D
    /\ saved \in Session
    /\ hist \in Hist

Init ==
    /\ fut = Ready
    /\ mac = InitMac
    /\ class_c = FALSE
    /\ downlink = 0
    /\ saved = NewSession
    /\ hist = InitHist

-----------------------------------------------------------------------------
(* join and send up to the end of the transmission.                        *)

\* JoinMode::OTAA
Join ==
    /\ fut.call = "Ready"
    /\ fut' = [Ready EXCEPT !.call = "Join"]
    /\ mac' = JoinOtaa(mac)
    /\ UNCHANGED <<class_c, downlink, saved, hist>>

\* From here on the uplink counts as having been on the air.
Send(confirmed) ==
    /\ fut.call = "Ready"
    /\ Joined(mac)
    /\ fut' = [Ready EXCEPT !.call = "Send"]
    /\ mac' = PrepareBuffer(mac, confirmed)
    /\ hist' = [hist EXCEPT !.lastUp = mac.session.fcnt_up, !.aborted = FALSE,
                            !.current = FALSE]
    /\ UNCHANGED <<class_c, downlink, saved>>

FrameOf(call) == IF call = "Join" THEN "Join" ELSE "Data"

\* rx1_start_delay and rx2_start_delay
StartDelay(win, ms) == GetRxDelay(mac, FrameOf(fut.call), win) + ms - Lead

\* between_windows is called.
ArmWindow(win, ms) ==
    fut' = [fut EXCEPT !.at = "Arm", !.win = win, !.ms = ms,
                       !.start = StartDelay(win, ms), !.resp = "None",
                       !.rx1 = IF win = 1 THEN StartDelay(win, ms) ELSE @]

TxDone ==
    /\ fut.call \in {"Join", "Send"} /\ fut.at = "Tx"
    /\ \E ms \in TxMs : ArmWindow(1, ms)
    /\ UNCHANGED <<mac, class_c, downlink, saved, hist>>

-----------------------------------------------------------------------------
(* between_windows.                                                        *)

Armed ==
    /\ fut.at = "Arm"
    /\ fut' = [fut EXCEPT !.at = IF class_c THEN "Rxc" ELSE "Sleep"]
    /\ UNCHANGED <<mac, class_c, downlink, saved, hist>>

\* An error of rx_continuous is ignored: the radio no longer listens.
RxcError ==
    /\ fut.call # "Listen" /\ fut.at = "Rxc"
    /\ fut' = [fut EXCEPT !.at = "Sleep"]
    /\ UNCHANGED <<mac, class_c, downlink, saved, hist>>

\* Whatever the RXC window received is not the answer to the call.
TimerFires ==
    /\ fut.call # "Listen" /\ fut.at \in {"Rxc", "Sleep"}
    /\ fut' = [fut EXCEPT !.at = "Setup"]
    /\ UNCHANGED <<mac, class_c, downlink, saved, hist>>

-----------------------------------------------------------------------------
(* Frames.                                                                 *)

Push(data) == downlink' = IF data /\ downlink < D THEN downlink + 1 ELSE downlink

\* A frame of this session was accepted, a data frame was dropped.
Accepted(f, r) ==
    /\ r.resp \in {"DownlinkReceived", "SessionExpired"}
    /\ ~f.oversized
Dropped(f, r) == Joined(mac) /\ f.kind = "Data" /\ r.resp = "NoUpdate"

\* What a frame f, answered with r, adds to the history.
Heard(f, r, ignore_mac) ==
    LET h == [hist EXCEPT !.expired = @ \/ r.resp = "SessionExpired"]
    IN  IF r.resp = "JoinSuccess" THEN InitHist
        ELSE IF Accepted(f, r) /\ ignore_mac THEN h
        ELSE IF Accepted(f, r)
        THEN [h EXCEPT !.cleared = FALSE,
                       !.owed = r.mac.session.pending \cap Sticky]
        ELSE [h EXCEPT !.cleared = @ \/ (Dropped(f, r) /\ ~ignore_mac)]

\* The responses each conversion of mac/mod.rs takes; it panics on the others.
Convertible(call) ==
    CASE call = "Send"   -> {"SessionExpired", "DownlinkReceived", "NoAck",
                             "RxComplete"}
      [] call = "Join"   -> {"NoJoinAccept", "JoinSuccess"}
      [] call = "Listen" -> {"SessionExpired", "DownlinkReceived"}

\* The call returns.
Return(resp) ==
    fut' = IF resp \in Convertible(fut.call) THEN Ready
           ELSE [fut EXCEPT !.at = "Panicked"]

\* Mutant: MAC commands are taken from the RXC window as well.
HandleRxcWithMac(f) == SessionHandleRx(mac, f, FALSE)

\* Mac::handle_rxc of a joined device
HandleRxc(f) == SessionHandleRx(mac, f, TRUE)

\* An RXC frame before a window, or while rxc_listen waits for one.
RxcFrame(f) ==
    LET r == HandleRxc(f)
    IN  /\ fut.at = "Rxc"
        /\ Joined(mac)
        /\ mac' = r.mac
        /\ IF fut.call = "Listen" /\ r.resp # "NoUpdate"
           THEN Return(r.resp) ELSE UNCHANGED fut
        /\ Push(r.data)
        /\ hist' = Heard(f, r, TRUE)
        /\ UNCHANGED <<class_c, saved>>

\* handle_rxc fails with NotJoined, and the call with it.
RxcNotJoined ==
    /\ fut.at = "Rxc"
    /\ ~Joined(mac)
    /\ fut' = Ready
    /\ UNCHANGED <<mac, class_c, downlink, saved, hist>>

\* setup_rx for RX1 or RX2
SetupDone ==
    /\ fut.at = "Setup"
    /\ fut' = [fut EXCEPT !.at = "Rx"]
    /\ UNCHANGED <<mac, class_c, downlink, saved, hist>>

\* RxStatus::Rx.  The first frame ends the window, valid or not.
RxFrame(f) ==
    LET r == HandleRx(mac, f)
    IN  /\ fut.at = "Rx"
        /\ mac' = r.mac
        /\ fut' = [fut EXCEPT !.at = "Complete",
                       !.resp = IF r.resp = "NoUpdate" THEN "None" ELSE r.resp]
        /\ Push(r.data)
        /\ hist' = Heard(f, r, FALSE)
        /\ UNCHANGED <<class_c, saved>>

RxTimeout ==
    /\ fut.at = "Rx"
    /\ fut' = [fut EXCEPT !.at = "Complete", !.resp = "None"]
    /\ UNCHANGED <<mac, class_c, downlink, saved, hist>>

\* The window gave a response ...
Answered ==
    /\ fut.at = "Complete" /\ fut.resp # "None"
    /\ Return(fut.resp)
    /\ UNCHANGED <<mac, class_c, downlink, saved, hist>>

\* Mutant: the device waits for RX1 once more.
Rx1EmptyRepeats ==
    /\ fut.at = "Complete" /\ fut.resp = "None" /\ fut.win = 1
    /\ ArmWindow(1, fut.ms)
    /\ UNCHANGED <<mac, class_c, downlink, saved, hist>>

\* ... or not, and RX2 is next ...
Rx1Empty ==
    /\ fut.at = "Complete" /\ fut.resp = "None" /\ fut.win = 1
    /\ ArmWindow(2, fut.ms)
    /\ UNCHANGED <<mac, class_c, downlink, saved, hist>>

\* ... or was RX2.
Rx2Empty ==
    LET r == Rx2Complete(mac)
    IN  /\ fut.at = "Complete" /\ fut.resp = "None" /\ fut.win = 2
        /\ mac' = r.mac
        /\ Return(r.resp)
        /\ hist' = [hist EXCEPT !.expired = @ \/ r.resp = "SessionExpired"]
        /\ UNCHANGED <<class_c, downlink, saved>>

\* The radio fails, or the application drops the future, at any await.
Abort ==
    /\ fut.call # "Ready" /\ fut.at # "Panicked"
    /\ fut' = Ready
    /\ hist' = [hist EXCEPT !.aborted =
                    \/ hist.aborted
                    \/ fut.call = "Send" /\ hist.lastUp = mac.session.fcnt_up]
    /\ UNCHANGED <<mac, class_c, downlink, saved>>

-----------------------------------------------------------------------------
(* The methods that do not wait, and rxc_listen.                           *)

RxcListen ==
    /\ "class_c" \in Api
    /\ fut' = [Ready EXCEPT !.call = "Listen", !.at = "Rxc"]
    /\ UNCHANGED <<mac, class_c, downlink, saved, hist>>

\* enable_class_c and disable_class_c
SetClassC ==
    /\ "class_c" \in Api
    /\ class_c' = ~class_c
    /\ UNCHANGED <<fut, mac, downlink, saved, hist>>

\* JoinMode::ABP
JoinAbp ==
    /\ "abp" \in Api
    /\ mac' = Install(mac, NewSession)
    /\ hist' = InitHist
    /\ UNCHANGED <<fut, class_c, downlink, saved>>

GetSession ==
    /\ "session" \in Api
    /\ Joined(mac)
    /\ saved' = mac.session
    /\ hist' = [hist EXCEPT !.current = TRUE]
    /\ UNCHANGED <<fut, mac, class_c, downlink>>

SetAdrEnabled ==
    /\ "set_adr" \in Api
    /\ \E enabled \in BOOLEAN : mac' = SetAdr(mac, enabled)
    /\ UNCHANGED <<fut, class_c, downlink, saved, hist>>

\* With a data rate the region has; any other makes the next uplink panic.
SetDatarate ==
    /\ "set_datarate" \in Api
    /\ \E dr \in SupportedDR : mac' = [mac EXCEPT !.configuration.data_rate = dr]
    /\ UNCHANGED <<fut, class_c, downlink, saved, hist>>

TakeDownlink ==
    /\ downlink > 0
    /\ downlink' = downlink - 1
    /\ UNCHANGED <<fut, mac, class_c, saved, hist>>

\* Power is lost, or a watchdog ends a panic: Device::new_with_session, with
\* the session the application saved or with none.  Counters used after an
\* outdated snapshot was taken are not held against it.
Reboot ==
    /\ "reboot" \in Api \/ fut.at = "Panicked"
    /\ fut' = Ready
    /\ class_c' = FALSE
    /\ downlink' = 0
    /\ UNCHANGED saved
    /\ \/ mac' = InitMac /\ UNCHANGED hist
       \/ /\ "session" \in Api
          /\ mac' = Install(InitMac, saved)
          /\ hist' = [(IF hist.current THEN hist ELSE InitHist)
                      EXCEPT !.owed = saved.pending \cap Sticky,
                             !.cleared = FALSE]

-----------------------------------------------------------------------------

\* The steps of join and send that come of themselves.
Progress == \/ TxDone \/ Armed \/ TimerFires \/ SetupDone \/ RxTimeout
            \/ Answered \/ Rx1Empty \/ Rx2Empty

Call == RxcListen \/ SetClassC \/ JoinAbp \/ GetSession \/ SetAdrEnabled
        \/ SetDatarate \/ TakeDownlink

Next ==
    \/ Join
    \/ \E confirmed \in BOOLEAN : Send(confirmed)
    \/ Progress
    \/ RxcError
    \/ \E f \in Frames : RxcFrame(f) \/ RxFrame(f)
    \/ RxcNotJoined
    \/ Abort
    \/ fut.call = "Ready" /\ Call
    \/ Reboot

Spec == Init /\ [][Next]_vars

\* The radio ends what it is asked to do, the timer fires, and the executor
\* polls the future.  select prefers the radio to the timer, but a frame takes
\* far longer to arrive than to handle: the timer is not starved.
FairSpec == Spec /\ WF_vars(Progress)

-----------------------------------------------------------------------------
(* Properties.                                                             *)

\* The counter the next uplink takes has not been handed to the radio in this
\* session, whatever class C frames, oversized frames, new sessions and
\* restored snapshots came before, unless the last exchange was aborted or
\* SessionExpired was returned (handle_rx, handle_rxc and rx2_complete keep
\* fcnt_up in step with send and rxc_listen).
UplinkCounterUnused ==
    fut.call = "Ready" /\ Joined(mac) /\ ~hist.expired /\ ~hist.aborted =>
        hist.lastUp < mac.session.fcnt_up

\* A sticky answer stays queued through uplinks, aborted calls, class C frames
\* (handle_rx with ignore_mac) and restarts from a snapshot, until a data frame
\* arrives in RX1 or RX2.
StickyQueued ==
    Joined(mac) /\ ~hist.cleared => hist.owed \subseteq mac.session.pending

\* RX2 opens exactly one second after RX1 did: rx_downlink computes both starts
\* from the MAC, the second one only when RX1 is over, and nothing that arrives
\* in between may move it.
Rx2FollowsRx1 ==
    fut.call \in {"Join", "Send"} /\ fut.win = 2 => fut.start = fut.rx1 + Second

\* join and send never get a response their result type cannot express: the
\* conversions in mac/mod.rs do not panic for them.
ExchangeAnswers == fut.at = "Panicked" => fut.call = "Listen"

\* join and send come to an end, however many frames class C receives.
ExchangeCompletes ==
    (fut.call \in {"Join", "Send"}) ~>
        (fut.call \notin {"Join", "Send"} \/ fut.at = "Panicked")

\* The counters obey the contract of SessionContract.
Counters(s) == [up |-> s.fcnt_up, down |-> s.fcnt_down]

Contract == INSTANCE SessionContract WITH
    counters <- Counters(mac.session), saved <- Counters(saved)

\* Every step of the device is a step the contract allows on the counters of
\* the session in use and of the saved one, or leaves them alone.
ImplementsContract == Contract!Spec
=============================================================================
