------------------------------ MODULE NbDevice ------------------------------
(***************************************************************************)
(* The non-blocking device (lorawan-device/src/nb_device): an event-driven *)
(* state machine around the MAC, with its radio, its client (which owns    *)
(* the timer and the application) and the network as environment.          *)
(*                                                                         *)
(* The radio is any implementation of PhyRxTx.  Every call to it may fail; *)
(* an uplink is on the air when TxRequest answers Txing or TxDone, and not *)
(* when it answers anything else.  The link may deliver any frame, genuine *)
(* or not, fresh, stale or repeated, in any open window.  The client keeps *)
(* one timer, set to the last TimeoutRequest, and fires it at most once,   *)
(* again only when the radio refused what the timeout asked of it.  Times  *)
(* wrap like u32 in a build without overflow checks.                       *)
(***************************************************************************)
EXTENDS MacSession

CONSTANTS
    Frames,        \* downlink frames the link may deliver (a subset of Frame)
    TxTimes,       \* timestamps TxDone may carry
    TsMod,         \* 2^32: timestamps are u32 milliseconds
    RxOffset,      \* get_rx_window_offset_ms()
    RxDurations,   \* values of get_rx_window_duration_ms()
    D,             \* capacity of the downlink queue
    Api            \* optional calls the application makes

ASSUME NbDeviceAssumption ==
    /\ Frames \subseteq Frame
    /\ TsMod \in Nat \ {0}
    /\ TxTimes \subseteq 0 .. TsMod - 1
    /\ RxOffset \in Int
    /\ RxDurations \subseteq Nat
    /\ D \in Nat
    /\ Api \subseteq {"abp", "session", "set_adr", "set_datarate", "reboot"}

VARIABLES
    device,      \* Device.state with the fields of its variant
    mac,         \* Shared.mac
    downlink,    \* number of entries of Shared.downlink
    timer,       \* the client's timer: its deadline, or NoTimer
    saved,       \* the session the application last took with get_session
    hist         \* history: what has happened in the session so far

vars == <<device, mac, downlink, timer, saved, hist>>

NoTimer == -1
Ts == 0 .. TsMod - 1
Wrap(t) == t % TsMod

\* st: the variant; frame: Frame; win and at: Rx::_1(at) or Rx::_2(at).
Device == [
    st : {"Idle", "SendingData", "WaitingForRxWindow", "WaitingForRx",
          "Panicked"},
    frame : {"Join", "Data"}, win : {1, 2}, at : Ts]

Idle == [st |-> "Idle", frame |-> "Data", win |-> 1, at |-> 0]

\* lastUp: counter of the last data uplink on the air; expired: SessionExpired
\* was returned; current: `saved` was taken while idle and nothing was sent
\* since; owed: sticky answers to the last accepted downlink; cleared: a data
\* frame was dropped since then; asked: uplinks since then with ADRACKReq;
\* txEnd: the end of the last transmission.
Hist == [
    lastUp : FcntOption, expired : BOOLEAN, current : BOOLEAN,
    owed : SUBSET Sticky, cleared : BOOLEAN, asked : Nat, txEnd : Ts]

InitHist == [
    lastUp |-> NoFcnt, expired |-> FALSE, current |-> FALSE, owed |-> {},
    cleared |-> FALSE, asked |-> 0, txEnd |-> 0]

NewSessionHist(h) == [InitHist EXCEPT !.txEnd = h.txEnd]

TypeOK ==
    /\ device \in Device
    /\ mac \in Mac
    /\ downlink \in 0 .. D
    /\ timer \in Ts \cup {NoTimer}
    /\ saved \in Session
    /\ hist \in Hist

Init ==
    /\ device = Idle
    /\ mac = InitMac
    /\ downlink = 0
    /\ timer = NoTimer
    /\ saved = NewSession
    /\ hist = InitHist

-----------------------------------------------------------------------------
(* Transmission: Idle and SendingData.                                     *)

\* data_rxwindow1_timeout, after the MAC became m
WaitForRxWindow1(frame, m, ts) ==
    LET t1 == Wrap(GetRxDelay(m, frame, 1) + ts + RxOffset)
    IN  /\ device' = [st |-> "WaitingForRxWindow", frame |-> frame,
                      win |-> 1, at |-> t1]
        /\ timer' = t1

\* The radio takes the TxRequest: at once (TxDone) or later (Txing).
\* h: the history with this transmission in it.
TxAccepted(frame, m, h) ==
    \/ /\ device' = [Idle EXCEPT !.st = "SendingData", !.frame = frame]
       /\ hist' = h
       /\ UNCHANGED timer
    \/ \E ts \in TxTimes :
       /\ WaitForRxWindow1(frame, m, ts)
       /\ hist' = [h EXCEPT !.txEnd = ts]

\* The radio answers the TxRequest with an error, or with anything else.
TxRefused == UNCHANGED <<device, timer, hist>>

\* Event::Join while idle
Join ==
    LET m == JoinOtaa(mac)
    IN  /\ device.st = "Idle"
        /\ mac' = m
        /\ TxAccepted("Join", m, hist) \/ TxRefused
        /\ UNCHANGED <<downlink, saved>>

\* What an uplink on the air adds to the history.
Transmitted(h, up) ==
    [h EXCEPT !.lastUp = up.fcnt, !.current = FALSE,
              !.asked = IF up.adr_ack_req /\ up.fcnt # h.lastUp
                        THEN @ + 1 ELSE @]

\* Event::SendDataRequest while idle.  A refused frame has already consumed
\* the answers and the acknowledgement it carried.
Send(confirmed) ==
    LET m == PrepareBuffer(mac, confirmed)
    IN  /\ device.st = "Idle"
        /\ Joined(mac)
        /\ mac' = m
        /\ \/ TxAccepted("Data", m,
                         Transmitted(hist, BuildUplink(mac, confirmed)))
           \/ TxRefused
        /\ UNCHANGED <<downlink, saved>>

\* Event::RadioEvent while sending: the radio reports the end of it ...
TxComplete ==
    /\ device.st = "SendingData"
    /\ \E ts \in TxTimes :
       /\ WaitForRxWindow1(device.frame, mac, ts)
       /\ hist' = [hist EXCEPT !.txEnd = ts]
    /\ UNCHANGED <<mac, downlink, saved>>

\* ... or anything else, which panics.
TxUnexpected ==
    /\ device.st = "SendingData"
    /\ device' = [Idle EXCEPT !.st = "Panicked"]
    /\ UNCHANGED <<mac, downlink, timer, saved, hist>>

-----------------------------------------------------------------------------
(* Reception: WaitingForRxWindow and WaitingForRx.                         *)

TimeBetweenWindows(frame) ==
    GetRxDelay(mac, frame, 2) - GetRxDelay(mac, frame, 1)

\* Mutant: RX1 stays open for the radio's whole duration.
CloseAfterDuration(frame, win, duration) == duration

\* How long the window stays open.
OpenFor(frame, win, duration) ==
    IF win = 1 /\ TimeBetweenWindows(frame) <= duration
    THEN TimeBetweenWindows(frame) ELSE duration

\* TimeoutFired while waiting for a window, and the radio takes the RxRequest.
OpenWindow ==
    /\ device.st = "WaitingForRxWindow"
    /\ timer # NoTimer
    /\ device' = [device EXCEPT !.st = "WaitingForRx"]
    /\ \E duration \in RxDurations :
          timer' = Wrap(device.at + OpenFor(device.frame, device.win, duration))
    /\ UNCHANGED <<mac, downlink, saved, hist>>

\* Mutant: RX2 is scheduled from the close of RX1.
Window2FromClose(d) == Wrap(timer + TimeBetweenWindows(d.frame))

Window2At(d) == Wrap(d.at + TimeBetweenWindows(d.frame))

\* Mutant: the state machine returns to RX1.
CloseWindow1Repeats ==
    /\ device.st = "WaitingForRx" /\ device.win = 1
    /\ timer # NoTimer
    /\ device' = [device EXCEPT !.st = "WaitingForRxWindow"]
    /\ UNCHANGED <<mac, downlink, timer, saved, hist>>

\* TimeoutFired in RX1, and the radio takes the CancelRx
CloseWindow1 ==
    /\ device.st = "WaitingForRx" /\ device.win = 1
    /\ timer # NoTimer
    /\ device' = [device EXCEPT !.st = "WaitingForRxWindow", !.win = 2,
                                !.at = Window2At(device)]
    /\ timer' = Window2At(device)
    /\ UNCHANGED <<mac, downlink, saved, hist>>

\* TimeoutFired in RX2, and the radio takes the CancelRx
CloseWindow2 ==
    LET r == Rx2Complete(mac)
    IN  /\ device.st = "WaitingForRx" /\ device.win = 2
        /\ timer # NoTimer
        /\ device' = Idle
        /\ mac' = r.mac
        /\ timer' = NoTimer
        /\ hist' = [hist EXCEPT !.expired = @ \/ r.resp = "SessionExpired"]
        /\ UNCHANGED <<downlink, saved>>

\* TimeoutFired elsewhere is tolerated: a timer whose window ended early.
StaleTimeout ==
    /\ device.st \in {"Idle", "SendingData"}
    /\ timer # NoTimer
    /\ timer' = NoTimer
    /\ UNCHANGED <<device, mac, downlink, saved, hist>>

TimeoutFired == OpenWindow \/ CloseWindow1 \/ CloseWindow2 \/ StaleTimeout

\* What a frame f, answered with r, adds to the history.
Heard(h, f, r) ==
    IF r.resp = "JoinSuccess" THEN NewSessionHist(h)
    ELSE IF ~Joined(mac) \/ f.kind # "Data" THEN h
    ELSE IF f.oversized \/ r.resp = "NoUpdate"
    THEN [h EXCEPT !.expired = @ \/ r.resp = "SessionExpired",
                   !.cleared = @ \/ ~f.oversized]
    ELSE [h EXCEPT !.expired = @ \/ r.resp = "SessionExpired",
                   !.owed = r.mac.session.pending \cap Sticky,
                   !.cleared = FALSE, !.asked = 0]

\* Event::RadioEvent in an open window: RxDone with a frame that fits the
\* buffer.  The downlink queue drops what it has no room for.
Receive(f) ==
    LET r == HandleRx(mac, f)
    IN  /\ device.st = "WaitingForRx"
        /\ mac' = r.mac
        /\ device' = IF r.resp = "NoUpdate" THEN device ELSE Idle
        /\ downlink' = IF r.data /\ downlink < D THEN downlink + 1 ELSE downlink
        /\ hist' = Heard(hist, f, r)
        /\ UNCHANGED <<timer, saved>>

-----------------------------------------------------------------------------
(* Calls of the application that no state refuses.                         *)

\* Device::join with JoinMode::ABP
JoinAbp ==
    /\ "abp" \in Api
    /\ mac' = Install(mac, NewSession)
    /\ hist' = NewSessionHist(hist)
    /\ UNCHANGED <<device, downlink, timer, saved>>

GetSession ==
    /\ "session" \in Api
    /\ Joined(mac)
    /\ saved' = mac.session
    /\ hist' = [hist EXCEPT !.current = device.st = "Idle"]
    /\ UNCHANGED <<device, mac, downlink, timer>>

\* Counters used after an outdated snapshot was taken are not held against it.
SetSession ==
    /\ "session" \in Api
    /\ mac' = Install(mac, saved)
    /\ hist' = [(IF hist.current THEN hist ELSE NewSessionHist(hist))
                EXCEPT !.owed = saved.pending \cap Sticky,
                       !.cleared = FALSE, !.asked = saved.adr_ack_cnt]
    /\ UNCHANGED <<device, downlink, timer, saved>>

SetAdrEnabled ==
    /\ "set_adr" \in Api
    /\ \E enabled \in BOOLEAN : mac' = SetAdr(mac, enabled)
    /\ UNCHANGED <<device, downlink, timer, saved, hist>>

\* With a data rate the region has; any other makes the next uplink panic.
SetDatarate ==
    /\ "set_datarate" \in Api
    /\ \E dr \in SupportedDR : mac' = [mac EXCEPT !.configuration.data_rate = dr]
    /\ UNCHANGED <<device, downlink, timer, saved, hist>>

TakeDownlink ==
    /\ downlink > 0
    /\ downlink' = downlink - 1
    /\ UNCHANGED <<device, mac, timer, saved, hist>>

\* Power is lost, or a watchdog ends a panic: Device::new.  What the
\* application saved survives.
Reboot ==
    /\ "reboot" \in Api \/ device.st = "Panicked"
    /\ device' = Idle
    /\ mac' = InitMac
    /\ downlink' = 0
    /\ timer' = NoTimer
    /\ UNCHANGED <<saved, hist>>

-----------------------------------------------------------------------------

\* Every other event, and every event for which the radio returns an error,
\* returns an error or NoUpdate and leaves the state as it is: a stuttering
\* step.  A panicked device takes no call.
Event ==
    \/ Join
    \/ \E confirmed \in BOOLEAN : Send(confirmed)
    \/ TxComplete
    \/ TxUnexpected
    \/ TimeoutFired
    \/ \E f \in Frames : Receive(f)

Call == JoinAbp \/ GetSession \/ SetSession \/ SetAdrEnabled \/ SetDatarate
        \/ TakeDownlink

Next ==
    \/ Event
    \/ device.st # "Panicked" /\ Call
    \/ Reboot

Spec == Init /\ [][Next]_vars

\* The client fires the timers it was asked for, again after a radio error,
\* and the radio reports the end of a transmission it began.
FairSpec == Spec /\ WF_vars(TimeoutFired) /\ WF_vars(TxComplete)

-----------------------------------------------------------------------------
(* Properties.                                                             *)

\* The counter the next uplink takes has not been on the air in this session,
\* whatever radio errors, restored snapshots, new sessions in mid-exchange or
\* oversized frames came before, until SessionExpired was returned
\* (rx2_complete, handle_rx and prepare_buffer keep fcnt_up in step with the
\* state machine of nb_device).
UplinkCounterUnused ==
    device.st = "Idle" /\ Joined(mac) /\ ~hist.expired =>
        hist.lastUp < mac.session.fcnt_up

\* adr_ack_cnt counts uplinks of this session, so it stays at or below fcnt_up
\* and its saturating_add in rx2_complete never saturates.
AdrAckCntBounded == mac.session.adr_ack_cnt <= mac.session.fcnt_up

\* A sticky answer stays queued (clear_mac_commands(true) in prepare_buffer)
\* through uplinks, refused transmissions, empty windows and snapshots until a
\* data frame arrives in a window.
StickyQueued ==
    Joined(mac) /\ ~hist.cleared => hist.owed \subseteq mac.session.pending

\* Backoff works: after ADR_ACK_LIMIT + k * ADR_ACK_DELAY unanswered uplinks
\* rx2_complete has lowered the data rate at least k times, down to the lowest
\* one the region has.
AdrBackoffReached ==
    \A k \in 1 .. Cardinality(SupportedDR) - 1 :
        mac.session.adr_ack_cnt >= AdrAckLimit + k * AdrAckDelay =>
            Cardinality(LowerDR(mac.configuration.data_rate))
                <= Cardinality(SupportedDR) - 1 - k

\* Backoff is not premature: rx2_complete lowers the data rate only after the
\* network was asked for a downlink (ADRACKReq, prepare_buffer) in at least
\* ADR_ACK_DELAY uplinks of this session, none of them answered.
AskedBeforeBackoff ==
    [][mac.session.adr_ack_cnt < mac'.session.adr_ack_cnt
       /\ mac.configuration.data_rate # mac'.configuration.data_rate
       => hist.asked >= AdrAckDelay]_vars

\* Both windows open at the delay the MAC holds, counted from the end of the
\* transmission and across a wrap of the clock, and the timer that opens them
\* is set (data_rxwindow1_timeout and WaitingForRx::handle_event).
WindowSchedule ==
    device.st \in {"WaitingForRxWindow", "WaitingForRx"} =>
        /\ device.at = Wrap(hist.txEnd + RxOffset
                            + GetRxDelay(mac, device.frame, device.win))
        /\ device.st = "WaitingForRxWindow" => timer = device.at

\* RX1 is closed no later than RX2 must open ("RxWindow1 one must timeout
\* before RxWindow2", WaitingForRxWindow::handle_event), however long the
\* radio would keep it open.
Rx1ClosesForRx2 ==
    device.st = "WaitingForRx" /\ device.win = 1 =>
        timer # NoTimer /\ Wrap(timer - device.at) <= Second

\* An exchange ends: whatever arrives in the windows, a device that began to
\* send is idle again, or panicked.
ExchangeCompletes ==
    (device.st \notin {"Idle", "Panicked"}) ~>
        (device.st \in {"Idle", "Panicked"})

\* The counters obey the contract of SessionContract.
Counters(s) == [up |-> s.fcnt_up, down |-> s.fcnt_down]

Contract == INSTANCE SessionContract WITH
    counters <- Counters(mac.session), saved <- Counters(saved)

\* Every step of the device is a step the contract allows on the counters of
\* the session in use and of the saved one, or leaves them alone.
ImplementsContract == Contract!Spec
=============================================================================
