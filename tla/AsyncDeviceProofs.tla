-------------------------- MODULE AsyncDeviceProofs --------------------------
(* Theorems about AsyncDevice, for every region, radio, link, application    *)
(* and counter width.  As for the non-blocking device the invariants are     *)
(* proved inductive one action at a time from the lemmas of MacSessionProofs;*)
(* here an exchange may also be dropped at any await, and the RXC window     *)
(* hears frames while it is under way.                                       *)
EXTENDS AsyncDevice, MacSessionProofs

-----------------------------------------------------------------------------
(* The inductive invariant.                                                *)

\* The future and the MAC belong together: send runs on a joined MAC, join on
\* one that waits for a join accept, and a window that gave a response is the
\* last thing that happens to the call.
FutureInStep ==
    /\ fut.call = "Ready" => fut = Ready
    /\ fut.call = "Listen" => fut.at \in {"Rxc", "Panicked"} /\ fut.resp = "None"
    /\ fut.call = "Send" => /\ Joined(mac)
                            /\ fut.resp \in Convertible("Send") \cup {"None"}
    /\ fut.call = "Join" => \/ fut.resp = "None" /\ mac.state = "Otaa"
                            \/ fut.resp = "JoinSuccess"
    /\ fut.resp # "None" => fut.at = "Complete"
    /\ fut.at = "Tx" => fut.win = 1

\* send has not counted its uplink yet.
UplinkInFlight == fut.call = "Send" /\ fut.resp = "None"

\* In every state fcnt_up is at least the counter last handed to the radio ...
UplinkInStep ==
    Joined(mac) /\ ~hist.expired => hist.lastUp <= mac.session.fcnt_up

\* ... and past it, unless the uplink is in flight or was given up.
CounterMoved ==
    Joined(mac) /\ ~hist.expired /\ ~hist.aborted /\ ~UplinkInFlight =>
        hist.lastUp < mac.session.fcnt_up

\* A snapshot nothing was sent after is as good as the session itself.
SnapshotInStep ==
    hist.current /\ ~hist.expired =>
        /\ hist.lastUp <= saved.fcnt_up
        /\ ~hist.aborted => hist.lastUp < saved.fcnt_up

CountersInStep == UplinkInStep /\ CounterMoved /\ SnapshotInStep

\* Until RX1 gave a response the delays are the ones RX1 was armed with.
Rx1InStep ==
    /\ fut.call \in {"Join", "Send"} /\ fut.at # "Tx"
    /\ fut.win = 1 /\ fut.resp = "None"
    => fut.rx1 = StartDelay(1, fut.ms)

WindowsInStep == Rx1InStep /\ Rx2FollowsRx1

IInv ==
    /\ TypeOK /\ FutureInStep /\ CountersInStep /\ StickyQueued
    /\ WindowsInStep /\ ExchangeAnswers

\* The facts about fields that every step needs.
LEMMA FieldTypes ==
    ASSUME TypeOK
    PROVE  /\ fut \in Future /\ mac \in Mac /\ hist \in Hist /\ saved \in Session
           /\ mac.session \in Session /\ mac.session.fcnt_up \in Nat
           /\ saved.fcnt_up \in Nat
           /\ hist.lastUp \in Int /\ hist.lastUp >= -1
           /\ hist.expired \in BOOLEAN /\ hist.current \in BOOLEAN
           /\ hist.cleared \in BOOLEAN /\ hist.aborted \in BOOLEAN
           /\ hist.owed \subseteq Sticky
BY FcntModNat DEF TypeOK, Mac, Session, Hist, Fcnt, FcntOption, NoFcnt

LEMMA ReadyTypes ==
    /\ Ready \in Future /\ Ready.call = "Ready" /\ Ready.at = "Tx"
    /\ Ready.win = 1 /\ Ready.resp = "None"
BY DEF Ready, Future

LEMMA InitHistType ==
    /\ InitHist \in Hist /\ InitHist.lastUp = -1 /\ InitHist.owed = {}
    /\ InitHist.current = FALSE /\ InitHist.aborted = FALSE
    /\ InitHist.expired = FALSE /\ InitHist.cleared = FALSE
BY DEF InitHist, Hist, FcntOption, NoFcnt

\* The timer is never set to a negative delay.
LEMMA StartDelayType ==
    ASSUME TypeOK, NEW win \in {1, 2}, NEW ms \in Nat
    PROVE  StartDelay(win, ms) \in Nat
<1>1. FrameOf(fut.call) \in {"Join", "Data"}
  BY DEF FrameOf
<1>2. /\ GetRxDelay(mac, FrameOf(fut.call), win) \in Nat
      /\ GetRxDelay(mac, FrameOf(fut.call), win) >= Second
  BY <1>1, RxDelayType DEF TypeOK
<1>3. Lead \in Nat /\ Lead <= Second /\ Second \in Nat
  BY AsyncDeviceAssumption, MacSessionAssumption
<1>4. QED
  BY <1>2, <1>3 DEF StartDelay

\* An idle device: nothing is left to show about the future.
LEMMA ReadyInStep ==
    ASSUME fut' = Ready
    PROVE  FutureInStep' /\ WindowsInStep' /\ ExchangeAnswers' /\ fut' \in Future
           /\ ~UplinkInFlight'
BY ReadyTypes
DEF FutureInStep, WindowsInStep, Rx1InStep, Rx2FollowsRx1, ExchangeAnswers,
    UplinkInFlight

LEMMA InitIInv == Init => IInv
<1> SUFFICES ASSUME Init PROVE IInv
  OBVIOUS
<1>1. TypeOK
  <2>1. 0 \in 0 .. D
    BY AsyncDeviceAssumption
  <2>2. QED
    BY <2>1, InitTypes, InitHistType, ReadyTypes DEF Init, TypeOK
<1>2. mac.state = "Unjoined" /\ fut = Ready /\ hist = InitHist
  BY DEF Init, InitMac
<1>3. CountersInStep /\ StickyQueued
  BY <1>2, InitHistType
  DEF CountersInStep, UplinkInStep, CounterMoved, SnapshotInStep, StickyQueued, Joined
<1>4. FutureInStep /\ WindowsInStep /\ ExchangeAnswers
  BY <1>2, ReadyTypes
  DEF FutureInStep, WindowsInStep, Rx1InStep, Rx2FollowsRx1, ExchangeAnswers
<1>5. QED
  BY <1>1, <1>3, <1>4 DEF IInv

-----------------------------------------------------------------------------
(* Steps of the future alone.                                              *)

\* The MAC, the snapshot and the history stay; the uplink stays in flight.
LEMMA QuietInStep ==
    ASSUME CountersInStep, StickyQueued, mac' = mac, saved' = saved, hist' = hist,
           Joined(mac) /\ UplinkInFlight => UplinkInFlight'
    PROVE  CountersInStep' /\ StickyQueued'
BY DEF CountersInStep, UplinkInStep, CounterMoved, SnapshotInStep, StickyQueued, Joined

\* TxDone and Rx1Empty: RX1 is armed, and RX2 one second later.
LEMMA ArmIInv ==
    ASSUME IInv, TxDone \/ Rx1Empty
    PROVE  IInv'
<1>1. /\ TypeOK /\ FutureInStep /\ CountersInStep /\ StickyQueued /\ WindowsInStep
      /\ fut \in Future /\ mac \in Mac
  BY DEF IInv, TypeOK
<1>2. mac' = mac /\ saved' = saved /\ hist' = hist
      /\ class_c' = class_c /\ downlink' = downlink
  BY DEF TxDone, Rx1Empty
<1>3. fut.call \in {"Join", "Send"} /\ fut.resp = "None" /\ fut.win = 1
  BY <1>1, ReadyTypes DEF FutureInStep, TxDone, Rx1Empty, Future
<1>4. /\ mac.state = "Otaa" \/ Joined(mac)
      /\ fut.call = "Join" => mac.state = "Otaa"
      /\ fut.call = "Send" => Joined(mac)
  BY <1>1, <1>3 DEF FutureInStep
<1>5. SUFFICES ASSUME NEW win \in {1, 2}, NEW ms \in Nat, ArmWindow(win, ms),
                      win = 2 => ms = fut.ms /\ fut.at # "Tx"
               PROVE  IInv'
  <2>1. CASE TxDone
    <3>1. PICK ms \in TxMs : ArmWindow(1, ms)
      BY <2>1 DEF TxDone
    <3>2. ms \in Nat
      BY AsyncDeviceAssumption
    <3>3. QED
      BY <1>5, <3>1, <3>2
  <2>2. CASE Rx1Empty
    BY <1>1, <1>5, <2>2 DEF Rx1Empty, Future
  <2>3. QED
    BY <2>1, <2>2
<1> DEFINE start == StartDelay(win, ms)
           rx1 == IF win = 1 THEN start ELSE fut.rx1
<1>6. start \in Nat
  BY <1>1, <1>5, StartDelayType
<1>7. fut' = [fut EXCEPT !.at = "Arm", !.win = win, !.ms = ms, !.start = start,
                         !.resp = "None", !.rx1 = rx1]
  BY <1>5 DEF ArmWindow
<1> HIDE DEF start
<1>a. rx1 \in Nat
  BY <1>1, <1>6 DEF Future
<1>b. (win = 1 => rx1 = start) /\ (win = 2 => rx1 = fut.rx1)
  BY <1>5
<1> HIDE DEF rx1
<1>8. /\ fut' \in Future /\ fut'.call = fut.call /\ fut'.at = "Arm"
      /\ fut'.resp = "None" /\ fut'.win = win /\ fut'.start = start /\ fut'.ms = ms
      /\ win = 1 => fut'.rx1 = start
      /\ win = 2 => fut'.rx1 = fut.rx1
  BY <1>1, <1>5, <1>6, <1>7, <1>a, <1>b DEF Future
<1>9. TypeOK'
  BY <1>1, <1>2, <1>8 DEF TypeOK
<1>10. FutureInStep' /\ ExchangeAnswers'
  BY <1>2, <1>3, <1>4, <1>8 DEF FutureInStep, ExchangeAnswers, Joined
<1>11. CountersInStep' /\ StickyQueued'
  BY <1>1, <1>2, <1>3, <1>8, QuietInStep DEF UplinkInFlight
<1>12. Rx1InStep'
  <2>1. fut'.win = 1 => fut'.rx1 = StartDelay(1, ms)
    BY <1>5, <1>8 DEF start
  <2>2. QED
    BY <1>2, <1>8, <2>1 DEF Rx1InStep, StartDelay
<1>13. Rx2FollowsRx1'
  <2>1. CASE win = 2
    <3> DEFINE d1 == GetRxDelay(mac, FrameOf(fut.call), 1)
               d2 == GetRxDelay(mac, FrameOf(fut.call), 2)
    <3>1. FrameOf(fut.call) \in {"Join", "Data"}
      BY DEF FrameOf
    <3>2. d1 \in Nat /\ d2 \in Nat /\ d2 - d1 = Second
      BY <1>1, <3>1, RxDelayType
    <3>3. fut.rx1 = d1 + ms - Lead
      BY <1>1, <1>3, <1>5, <2>1 DEF WindowsInStep, Rx1InStep, StartDelay
    <3>4. start = d2 + ms - Lead
      BY <2>1 DEF start, StartDelay
    <3>5. Lead \in Int /\ Second \in Int
      BY AsyncDeviceAssumption, MacSessionAssumption
    <3> HIDE DEF d1, d2
    <3>6. start = fut.rx1 + Second
      BY <1>5, <3>2, <3>3, <3>4, <3>5
    <3>7. QED
      BY <1>8, <2>1, <3>6 DEF Rx2FollowsRx1
  <2>2. CASE win = 1
    BY <1>8, <2>2 DEF Rx2FollowsRx1
  <2>3. QED
    BY <2>1, <2>2
<1>14. QED
  BY <1>9, <1>10, <1>11, <1>12, <1>13 DEF IInv, WindowsInStep

\* The future moves on to its next await.
LEMMA WaitIInv ==
    ASSUME IInv, Armed \/ RxcError \/ TimerFires \/ SetupDone \/ RxTimeout
    PROVE  IInv'
<1>1. /\ TypeOK /\ FutureInStep /\ CountersInStep /\ StickyQueued /\ WindowsInStep
      /\ fut \in Future
  BY DEF IInv, TypeOK
<1>2. mac' = mac /\ saved' = saved /\ hist' = hist
      /\ class_c' = class_c /\ downlink' = downlink
  BY DEF Armed, RxcError, TimerFires, SetupDone, RxTimeout
<1>3. fut.at \in {"Arm", "Rxc", "Sleep", "Setup", "Rx"}
      /\ (fut.at = "Rxc" => fut.call # "Listen")
  BY DEF Armed, RxcError, TimerFires, SetupDone, RxTimeout
<1>4. fut.call \in {"Join", "Send"} /\ fut.resp = "None"
  BY <1>1, <1>3, ReadyTypes DEF FutureInStep, Future
<1>5. \E at \in {"Rxc", "Sleep", "Setup", "Rx", "Complete"} :
          fut' = [fut EXCEPT !.at = at, !.resp = "None"]
  <2>1. \A at : [fut EXCEPT !.at = at, !.resp = "None"] = [fut EXCEPT !.at = at]
    BY <1>1, <1>4 DEF Future
  <2>2. QED
    BY <2>1 DEF Armed, RxcError, TimerFires, SetupDone, RxTimeout
<1>6. /\ fut' \in Future /\ fut'.call = fut.call /\ fut'.resp = "None"
      /\ fut'.win = fut.win /\ fut'.start = fut.start /\ fut'.rx1 = fut.rx1
      /\ fut'.ms = fut.ms /\ fut'.at \notin {"Tx", "Panicked"}
  BY <1>1, <1>5 DEF Future
<1>7. TypeOK'
  BY <1>1, <1>2, <1>6 DEF TypeOK
<1>8. FutureInStep' /\ ExchangeAnswers'
  BY <1>1, <1>2, <1>4, <1>6 DEF FutureInStep, ExchangeAnswers, Joined
<1>9. CountersInStep' /\ StickyQueued'
  BY <1>1, <1>2, <1>4, <1>6, QuietInStep DEF UplinkInFlight
<1>10. WindowsInStep'
  BY <1>1, <1>2, <1>3, <1>4, <1>6
  DEF WindowsInStep, Rx1InStep, Rx2FollowsRx1, StartDelay
<1>11. QED
  BY <1>7, <1>8, <1>9, <1>10 DEF IInv

\* The response of a window, or an error of the RXC window, ends the call.
LEMMA ReturnIInv ==
    ASSUME IInv, Answered \/ RxcNotJoined
    PROVE  IInv'
<1>1. /\ TypeOK /\ FutureInStep /\ CountersInStep /\ StickyQueued /\ WindowsInStep
      /\ fut \in Future
  BY DEF IInv, TypeOK
<1>2. mac' = mac /\ saved' = saved /\ hist' = hist
      /\ class_c' = class_c /\ downlink' = downlink
  BY DEF Answered, RxcNotJoined
<1>3. fut' = Ready /\ ~(Joined(mac) /\ UplinkInFlight)
  <2>1. CASE Answered
    <3>1. fut.call \in {"Join", "Send"} /\ fut.resp # "None"
      BY <1>1, <2>1, ReadyTypes DEF FutureInStep, Answered, Future
    <3>2. fut.resp \in Convertible(fut.call)
      BY <1>1, <3>1 DEF FutureInStep, Convertible
    <3>3. QED
      BY <2>1, <3>1, <3>2 DEF Answered, Return, UplinkInFlight
  <2>2. CASE RxcNotJoined
    BY <2>2 DEF RxcNotJoined
  <2>3. QED
    BY <2>1, <2>2
<1>4. CountersInStep' /\ StickyQueued'
  BY <1>1, <1>2, <1>3, QuietInStep
<1>5. QED
  BY <1>1, <1>2, <1>3, <1>4, ReadyInStep DEF IInv, TypeOK

-----------------------------------------------------------------------------
(* join and send.                                                          *)

\* Join: the session is gone, so that only the snapshot matters.
LEMMA JoinIInv ==
    ASSUME IInv, Join
    PROVE  IInv'
<1>1. TypeOK /\ CountersInStep /\ mac \in Mac
  BY DEF IInv, TypeOK
<1>2. mac' \in Mac /\ mac'.state = "Otaa"
  BY <1>1, JoinOtaaEffect DEF Join
<1>3. /\ fut' = [Ready EXCEPT !.call = "Join"]
      /\ class_c' = class_c /\ downlink' = downlink /\ saved' = saved /\ hist' = hist
  BY DEF Join
<1>4. /\ fut' \in Future /\ fut'.call = "Join" /\ fut'.at = "Tx" /\ fut'.win = 1
      /\ fut'.resp = "None"
  BY <1>3 DEF Ready, Future
<1>5. TypeOK'
  BY <1>1, <1>2, <1>3, <1>4 DEF TypeOK
<1>6. FutureInStep' /\ ExchangeAnswers' /\ WindowsInStep'
  BY <1>2, <1>4
  DEF FutureInStep, ExchangeAnswers, WindowsInStep, Rx1InStep, Rx2FollowsRx1
<1>7. CountersInStep' /\ StickyQueued'
  BY <1>1, <1>2, <1>3
  DEF CountersInStep, UplinkInStep, CounterMoved, SnapshotInStep, StickyQueued, Joined
<1>8. QED
  BY <1>5, <1>6, <1>7 DEF IInv

\* Send: the counter is on the air; the sticky answers stay.
LEMMA SendIInv ==
    ASSUME IInv, NEW confirmed \in BOOLEAN, Send(confirmed)
    PROVE  IInv'
<1>1. TypeOK /\ CountersInStep /\ StickyQueued /\ mac \in Mac /\ hist \in Hist
      /\ Joined(mac)
  BY DEF IInv, TypeOK, Send
<1>2. /\ mac' \in Mac /\ mac'.state = mac.state
      /\ SameButQueue(mac.session, mac'.session)
      /\ mac.session.pending \cap Sticky \subseteq mac'.session.pending
  BY <1>1, PrepareBufferEffect DEF Send
<1>3. /\ fut' = [Ready EXCEPT !.call = "Send"]
      /\ class_c' = class_c /\ downlink' = downlink /\ saved' = saved
      /\ hist' = [hist EXCEPT !.lastUp = mac.session.fcnt_up, !.aborted = FALSE,
                              !.current = FALSE]
  BY DEF Send
<1>4. /\ fut' \in Future /\ fut'.call = "Send" /\ fut'.at = "Tx" /\ fut'.win = 1
      /\ fut'.resp = "None"
  BY <1>3 DEF Ready, Future
<1>5. /\ hist' \in Hist /\ hist'.lastUp = mac.session.fcnt_up
      /\ hist'.current = FALSE /\ hist'.owed = hist.owed
      /\ hist'.cleared = hist.cleared
  <2>1. mac.session.fcnt_up \in FcntOption
    BY <1>1 DEF Mac, Session, FcntOption
  <2>2. QED
    BY <1>1, <1>3, <2>1 DEF Hist
<1>6. TypeOK'
  BY <1>1, <1>2, <1>3, <1>4, <1>5 DEF TypeOK
<1>7. FutureInStep' /\ ExchangeAnswers' /\ WindowsInStep'
  BY <1>1, <1>2, <1>4
  DEF FutureInStep, ExchangeAnswers, WindowsInStep, Rx1InStep, Rx2FollowsRx1, Joined
<1>8. CountersInStep'
  <2>1. mac'.session.fcnt_up = mac.session.fcnt_up /\ mac.session.fcnt_up \in Nat
    BY <1>1, <1>2, FieldTypes DEF SameButQueue
  <2>2. QED
    BY <1>4, <1>5, <2>1
    DEF CountersInStep, UplinkInStep, CounterMoved, SnapshotInStep, UplinkInFlight
<1>9. StickyQueued'
  <2>1. ~hist.cleared => hist.owed \subseteq mac.session.pending \cap Sticky
    BY <1>1, FieldTypes DEF StickyQueued
  <2>2. QED
    BY <1>2, <1>5, <2>1 DEF StickyQueued
<1>10. QED
  BY <1>6, <1>7, <1>8, <1>9 DEF IInv

-----------------------------------------------------------------------------
(* Frames and the end of RX2.                                              *)

\* How the session moves, seen from the counters: the uplink is counted, the
\* session expires, or nothing happens and the uplink stays in flight.
LEMMA SessionMoves ==
    ASSUME TypeOK, CountersInStep, mac' \in Mac, hist' \in Hist, saved' = saved,
           mac'.state = mac.state, hist'.lastUp = hist.lastUp,
           hist'.current = hist.current, hist'.aborted = hist.aborted,
           \/ hist'.expired
           \/ /\ hist'.expired = hist.expired
              /\ mac'.session.fcnt_up = mac.session.fcnt_up + 1
           \/ /\ hist'.expired = hist.expired
              /\ mac'.session.fcnt_up = mac.session.fcnt_up
              /\ UplinkInFlight => UplinkInFlight'
    PROVE  CountersInStep'
<1>1. mac'.session.fcnt_up \in Nat /\ hist'.expired \in BOOLEAN
  BY FcntModNat DEF Mac, Session, Hist, Fcnt
<1>2. UplinkInStep'
  BY <1>1, FieldTypes DEF CountersInStep, UplinkInStep, Joined
<1>3. CounterMoved'
  BY <1>1, FieldTypes DEF CountersInStep, UplinkInStep, CounterMoved, Joined
<1>4. SnapshotInStep'
  BY <1>1, FieldTypes DEF CountersInStep, SnapshotInStep
<1>5. QED
  BY <1>2, <1>3, <1>4 DEF CountersInStep

\* What a frame in any window of a joined device does to the history, the
\* counters and the queue of answers.
FrameEffect(r) ==
    /\ hist' \in Hist /\ hist'.lastUp = hist.lastUp
    /\ hist'.current = hist.current /\ hist'.aborted = hist.aborted
    /\ \/ hist'.expired
       \/ /\ hist'.expired = hist.expired
          /\ mac'.session.fcnt_up = mac.session.fcnt_up + 1
       \/ /\ hist'.expired = hist.expired /\ r.resp = "NoUpdate"
          /\ mac'.session.fcnt_up = mac.session.fcnt_up
    /\ StickyQueued'
    /\ r.resp \in {"NoUpdate", "SessionExpired", "NoAck", "RxComplete",
                   "DownlinkReceived"}

LEMMA FrameHeard ==
    ASSUME TypeOK, StickyQueued, Joined(mac), NEW f \in Frames,
           NEW ignore_mac \in BOOLEAN, NEW r,
           r = SessionHandleRx(mac, f, ignore_mac), mac' = r.mac,
           hist' = Heard(f, r, ignore_mac)
    PROVE  FrameEffect(r)
<1>1. mac \in Mac /\ hist \in Hist /\ f \in Frame /\ hist.expired \in BOOLEAN
      /\ hist.cleared \in BOOLEAN
  BY AsyncDeviceAssumption, FieldTypes DEF TypeOK
<1>2. /\ r.mac \in Mac /\ r.mac.state = mac.state
      /\ ignore_mac => r.mac.session.pending = mac.session.pending
      /\ \/ DroppedBy(mac, f, r) /\ (f.kind = "Data" => ~f.oversized)
         \/ f.kind = "Data" /\ f.oversized /\ r = SessionRx2Complete(mac)
         \/ f.kind = "Data" /\ ~f.oversized /\ AcceptedBy(mac, r)
  BY <1>1, SessionHandleRxEffect
<1> DEFINE h == [hist EXCEPT !.expired = @ \/ r.resp = "SessionExpired"]
<1>3. /\ h \in Hist /\ h.expired = (hist.expired \/ r.resp = "SessionExpired")
      /\ h.lastUp = hist.lastUp /\ h.current = hist.current
      /\ h.aborted = hist.aborted /\ h.owed = hist.owed /\ h.cleared = hist.cleared
  BY <1>1 DEF Hist
<1>4. hist' = IF r.resp = "JoinSuccess" THEN InitHist
              ELSE IF Accepted(f, r) /\ ignore_mac THEN h
              ELSE IF Accepted(f, r)
              THEN [h EXCEPT !.cleared = FALSE,
                             !.owed = r.mac.session.pending \cap Sticky]
              ELSE [h EXCEPT !.cleared = @ \/ (Dropped(f, r) /\ ~ignore_mac)]
  BY DEF Heard
<1> HIDE DEF h
<1>5. CASE DroppedBy(mac, f, r)
  <2>1. /\ r.resp = "NoUpdate" /\ SameButQueue(mac.session, r.mac.session)
        /\ f.kind # "Data" => r.mac = mac
    BY <1>5 DEF DroppedBy
  <2>2. hist' = [h EXCEPT !.cleared = @ \/ (f.kind = "Data" /\ ~ignore_mac)]
    BY <1>4, <2>1 DEF Accepted, Dropped
  <2>3. /\ hist' \in Hist /\ hist'.expired = h.expired
        /\ hist'.lastUp = h.lastUp /\ hist'.current = h.current
        /\ hist'.aborted = h.aborted /\ hist'.owed = h.owed
        /\ hist'.cleared = (h.cleared \/ (f.kind = "Data" /\ ~ignore_mac))
    BY <1>3, <2>2 DEF Hist
  <2>4. StickyQueued'
    BY <1>2, <1>3, <2>1, <2>3 DEF StickyQueued, Joined
  <2>5. hist'.expired = hist.expired
    BY <1>1, <1>3, <2>1, <2>3
  <2>6. QED
    BY <1>3, <2>1, <2>3, <2>4, <2>5 DEF FrameEffect, SameButQueue
<1>6. CASE f.kind = "Data" /\ f.oversized /\ r = SessionRx2Complete(mac)
  <2>1. /\ r.mac.session.pending = mac.session.pending
        /\ r.resp \in {"SessionExpired", "NoAck", "RxComplete"}
        /\ \/ r.resp = "SessionExpired"
           \/ r.mac.session.fcnt_up = mac.session.fcnt_up + 1
    BY <1>1, <1>6, FcntModNat, SessionRx2CompleteEffect
  <2>2. hist' = [h EXCEPT !.cleared = @ \/ FALSE]
    BY <1>4, <1>6, <2>1 DEF Accepted, Dropped
  <2>3. /\ hist' \in Hist /\ hist'.expired = h.expired
        /\ hist'.lastUp = h.lastUp /\ hist'.current = h.current
        /\ hist'.aborted = h.aborted /\ hist'.owed = h.owed
        /\ hist'.cleared = h.cleared
    BY <1>3, <2>2 DEF Hist
  <2>4. StickyQueued'
    BY <1>2, <1>3, <2>1, <2>3 DEF StickyQueued, Joined
  <2>5. \/ hist'.expired
        \/ /\ hist'.expired = hist.expired
           /\ mac'.session.fcnt_up = mac.session.fcnt_up + 1
    BY <1>1, <1>3, <2>1, <2>3
  <2>6. QED
    BY <1>3, <2>1, <2>3, <2>4, <2>5 DEF FrameEffect
<1>7. CASE f.kind = "Data" /\ ~f.oversized /\ AcceptedBy(mac, r)
  <2>1. /\ r.resp \in {"SessionExpired", "DownlinkReceived"}
        /\ \/ r.resp = "SessionExpired"
           \/ r.mac.session.fcnt_up = mac.session.fcnt_up + 1
    BY <1>7 DEF AcceptedBy
  <2>2. Accepted(f, r)
    BY <1>7, <2>1 DEF Accepted
  <2>3. hist' = IF ignore_mac THEN h
                ELSE [h EXCEPT !.cleared = FALSE,
                               !.owed = r.mac.session.pending \cap Sticky]
    BY <1>4, <2>1, <2>2
  <2>4. /\ hist' \in Hist /\ hist'.expired = h.expired
        /\ hist'.lastUp = h.lastUp /\ hist'.current = h.current
        /\ hist'.aborted = h.aborted
        /\ \/ ignore_mac /\ hist'.owed = h.owed /\ hist'.cleared = h.cleared
           \/ hist'.owed = r.mac.session.pending \cap Sticky
    BY <1>3, <2>3 DEF Hist
  <2>5. StickyQueued'
    BY <1>2, <1>3, <2>4 DEF StickyQueued, Joined
  <2>6. \/ hist'.expired
        \/ /\ hist'.expired = hist.expired
           /\ mac'.session.fcnt_up = mac.session.fcnt_up + 1
    BY <1>1, <1>3, <2>1, <2>4
  <2>7. QED
    BY <1>3, <2>1, <2>4, <2>5, <2>6 DEF FrameEffect
<1>8. QED
  BY <1>2, <1>5, <1>6, <1>7

LEMMA PushType ==
    ASSUME downlink \in 0 .. D, NEW data, Push(data)
    PROVE  downlink' \in 0 .. D
BY AsyncDeviceAssumption DEF Push

\* The RXC window: the answers queued and the windows to come stay as they are.
LEMMA RxcFrameIInv ==
    ASSUME IInv, NEW f \in Frames, RxcFrame(f)
    PROVE  IInv'
<1> DEFINE r == HandleRxc(f)
<1>1. /\ TypeOK /\ FutureInStep /\ CountersInStep /\ StickyQueued /\ WindowsInStep
      /\ ExchangeAnswers /\ fut \in Future /\ mac \in Mac /\ f \in Frame
  BY AsyncDeviceAssumption DEF IInv, TypeOK
<1>2. /\ fut.at = "Rxc" /\ Joined(mac) /\ mac' = r.mac
      /\ IF fut.call = "Listen" /\ r.resp # "NoUpdate" THEN Return(r.resp)
         ELSE fut' = fut
      /\ Push(r.data) /\ hist' = Heard(f, r, TRUE)
      /\ class_c' = class_c /\ saved' = saved
  BY DEF RxcFrame
<1>3. r = SessionHandleRx(mac, f, TRUE)
  BY DEF HandleRxc
<1> HIDE DEF r
<1>4. /\ r.mac \in Mac /\ r.mac.state = mac.state
      /\ r.mac.configuration.rx1_delay = mac.configuration.rx1_delay
  BY <1>1, <1>3, SessionHandleRxEffect
<1>5. FrameEffect(r)
  BY <1>1, <1>2, <1>3, FrameHeard
<1>6. \/ fut' = fut
      \/ /\ fut.call = "Listen"
         /\ fut' = Ready \/ fut' = [fut EXCEPT !.at = "Panicked"]
  BY <1>2 DEF Return
<1>7. fut' \in Future
  BY <1>1, <1>6, ReadyTypes DEF Future
<1>8. TypeOK'
  BY <1>1, <1>2, <1>4, <1>5, <1>7, PushType DEF TypeOK, FrameEffect
<1>9. UplinkInFlight' = UplinkInFlight
  BY <1>1, <1>6, ReadyTypes DEF UplinkInFlight, Future
<1>10. CountersInStep'
  BY <1>1, <1>2, <1>4, <1>5, <1>9, SessionMoves DEF FrameEffect
<1>11. FutureInStep' /\ ExchangeAnswers' /\ WindowsInStep'
  <2>1. CASE fut' = fut
    <3>1. FutureInStep'
      BY <1>1, <1>2, <1>4, <2>1 DEF FutureInStep, Joined
    <3>2. WindowsInStep' /\ ExchangeAnswers'
      BY <1>1, <1>2, <1>4, <2>1
      DEF WindowsInStep, Rx1InStep, Rx2FollowsRx1, StartDelay, GetRxDelay,
          ExchangeAnswers
    <3>3. QED
      BY <3>1, <3>2
  <2>2. CASE fut' = Ready
    BY <2>2, ReadyInStep
  <2>3. CASE fut.call = "Listen" /\ fut' = [fut EXCEPT !.at = "Panicked"]
    <3>1. fut'.call = "Listen" /\ fut'.at = "Panicked" /\ fut'.resp = "None"
      BY <1>1, <2>3 DEF Future, FutureInStep
    <3>2. QED
      BY <3>1
      DEF FutureInStep, WindowsInStep, Rx1InStep, Rx2FollowsRx1, ExchangeAnswers
  <2>4. QED
    BY <1>6, <2>1, <2>2, <2>3
<1>12. QED
  BY <1>5, <1>8, <1>10, <1>11 DEF IInv, FrameEffect

\* A frame in RX1 or RX2: a response ends the call, none leaves the windows.
LEMMA RxFrameIInv ==
    ASSUME IInv, NEW f \in Frames, RxFrame(f)
    PROVE  IInv'
<1> DEFINE r == HandleRx(mac, f)
           resp == IF r.resp = "NoUpdate" THEN "None" ELSE r.resp
<1>1. /\ TypeOK /\ FutureInStep /\ CountersInStep /\ StickyQueued /\ WindowsInStep
      /\ fut \in Future /\ mac \in Mac /\ f \in Frame
  BY AsyncDeviceAssumption DEF IInv, TypeOK
<1>2. /\ fut.at = "Rx" /\ mac' = r.mac
      /\ fut' = [fut EXCEPT !.at = "Complete", !.resp = resp]
      /\ Push(r.data) /\ hist' = Heard(f, r, FALSE)
      /\ class_c' = class_c /\ saved' = saved
  BY DEF RxFrame
<1>3. /\ fut.call \in {"Join", "Send"} /\ fut.resp = "None"
      /\ fut.call = "Join" => mac.state = "Otaa"
      /\ fut.call = "Send" => Joined(mac)
  BY <1>1, <1>2, ReadyTypes DEF FutureInStep, Future
<1>4. resp \in Responses \cup {"None"} =>
          /\ fut' \in Future /\ fut'.call = fut.call /\ fut'.at = "Complete"
          /\ fut'.resp = resp /\ fut'.win = fut.win /\ fut'.start = fut.start
          /\ fut'.rx1 = fut.rx1 /\ fut'.ms = fut.ms
  <2> HIDE DEF resp
  <2>1. QED
    BY <1>1, <1>2 DEF Future
<1>5. CASE fut.call = "Send"
  <2>1. r = SessionHandleRx(mac, f, FALSE)
    BY <1>3, <1>5 DEF HandleRx, Joined
  <2> HIDE DEF r
  <2>2. /\ r.mac \in Mac /\ r.mac.state = mac.state
        /\ r.resp = "NoUpdate" => r.mac.configuration = mac.configuration
    BY <1>1, <2>1, SessionHandleRxEffect
  <2>3. FrameEffect(r)
    BY <1>1, <1>2, <1>3, <1>5, <2>1, FrameHeard
  <2>4. resp \in Convertible("Send") \cup {"None"} /\ resp \in Responses \cup {"None"}
        /\ (resp = "None" <=> r.resp = "NoUpdate")
    BY <2>3 DEF FrameEffect, Convertible, Responses
  <2> HIDE DEF resp
  <2>5. TypeOK'
    BY <1>1, <1>2, <1>4, <2>2, <2>3, <2>4, PushType DEF TypeOK, FrameEffect
  <2>6. r.resp = "NoUpdate" => UplinkInFlight'
    BY <1>4, <1>5, <2>4 DEF UplinkInFlight
  <2>7. CountersInStep'
    BY <1>1, <1>2, <2>2, <2>3, <2>6, SessionMoves DEF FrameEffect
  <2>8. FutureInStep' /\ ExchangeAnswers'
    BY <1>2, <1>3, <1>4, <1>5, <2>2, <2>4 DEF FutureInStep, ExchangeAnswers, Joined
  <2>9. WindowsInStep'
    <3>1. Rx2FollowsRx1'
      BY <1>1, <1>4, <2>4 DEF WindowsInStep, Rx2FollowsRx1
    <3>2. CASE r.resp = "NoUpdate"
      BY <1>1, <1>2, <1>3, <1>4, <2>2, <2>4, <3>1, <3>2
      DEF WindowsInStep, Rx1InStep, StartDelay, GetRxDelay
    <3>3. CASE r.resp # "NoUpdate"
      BY <1>4, <2>4, <3>1, <3>3 DEF WindowsInStep, Rx1InStep
    <3>4. QED
      BY <3>2, <3>3
  <2>10. QED
    BY <2>3, <2>5, <2>7, <2>8, <2>9 DEF IInv, FrameEffect
<1>6. CASE fut.call = "Join"
  <2>1. r = OtaaHandleRx(mac, f) /\ mac.state = "Otaa"
    BY <1>3, <1>6 DEF HandleRx
  <2> HIDE DEF r
  <2>2. /\ r.mac \in Mac /\ r.data = FALSE
        /\ \/ r.resp = "NoUpdate" /\ r.mac = mac
           \/ /\ r.resp = "JoinSuccess" /\ r.mac.state = "Joined"
              /\ r.mac.session = NewSession
    BY <1>1, <2>1, OtaaHandleRxEffect
  <2>3. resp \in {"None", "JoinSuccess"} /\ resp \in Responses \cup {"None"}
        /\ (resp = "None" <=> r.resp = "NoUpdate")
    BY <2>2 DEF Responses
  <2> HIDE DEF resp
  <2>4. downlink' \in 0 .. D
    BY <1>1, <1>2, PushType DEF TypeOK
  <2>5. Rx2FollowsRx1'
    BY <1>1, <1>4, <2>3 DEF WindowsInStep, Rx2FollowsRx1
  <2>6. ExchangeAnswers'
    BY <1>4, <2>3 DEF ExchangeAnswers
  <2>7. CASE r.resp = "NoUpdate" /\ r.mac = mac
    <3>1. mac' = mac /\ hist' = hist
      <4>1. hist' = [[hist EXCEPT !.expired = @ \/ FALSE] EXCEPT !.cleared = @ \/ FALSE]
        BY <1>2, <2>1, <2>7 DEF Heard, Accepted, Dropped, Joined
      <4>2. (hist.expired \/ FALSE) = hist.expired /\ (hist.cleared \/ FALSE) = hist.cleared
        BY <1>1, FieldTypes
      <4>3. hist' = [hist EXCEPT !.expired = hist.expired, !.cleared = hist.cleared]
        BY <1>1, <4>1, <4>2 DEF TypeOK, Hist
      <4>4. QED
        BY <1>1, <1>2, <2>7, <4>3 DEF TypeOK, Hist
    <3>2. TypeOK'
      BY <1>1, <1>2, <1>4, <2>3, <2>4, <3>1 DEF TypeOK
    <3>3. FutureInStep'
      BY <1>4, <1>6, <2>1, <2>3, <2>7, <3>1 DEF FutureInStep
    <3>4. Rx1InStep'
      BY <1>1, <1>2, <1>3, <1>4, <2>3, <3>1 DEF WindowsInStep, Rx1InStep, StartDelay
    <3>5. CountersInStep' /\ StickyQueued'
      BY <1>1, <1>2, <1>6, <3>1, QuietInStep DEF UplinkInFlight
    <3>6. QED
      BY <2>5, <2>6, <3>2, <3>3, <3>4, <3>5 DEF IInv, WindowsInStep
  <2>8. CASE r.resp = "JoinSuccess" /\ r.mac.state = "Joined"
             /\ r.mac.session = NewSession
    <3>1. hist' = InitHist
      BY <1>2, <2>8 DEF Heard
    <3>2. TypeOK'
      BY <1>1, <1>2, <1>4, <2>2, <2>3, <2>4, <3>1, InitHistType DEF TypeOK
    <3>3. fut'.resp = "JoinSuccess"
      BY <1>4, <2>3, <2>8
    <3>4. FutureInStep' /\ Rx1InStep'
      BY <1>4, <1>6, <2>3, <3>3 DEF FutureInStep, Rx1InStep
    <3>5. CountersInStep' /\ StickyQueued'
      <4>1. mac'.session.fcnt_up = 0 /\ hist'.lastUp = -1 /\ hist'.current = FALSE
            /\ hist'.owed = {}
        BY <1>2, <2>8, <3>1, InitHistType, NewSessionFields
      <4>2. QED
        BY <4>1
        DEF CountersInStep, UplinkInStep, CounterMoved, SnapshotInStep, StickyQueued
    <3>6. QED
      BY <2>5, <2>6, <3>2, <3>4, <3>5 DEF IInv, WindowsInStep
  <2>9. QED
    BY <2>2, <2>7, <2>8
<1>7. QED
  BY <1>3, <1>5, <1>6

\* RX2 was empty: the uplink is counted, or the join has failed.
LEMMA Rx2EmptyIInv ==
    ASSUME IInv, Rx2Empty
    PROVE  IInv'
<1> DEFINE r == Rx2Complete(mac)
<1>1. /\ TypeOK /\ FutureInStep /\ CountersInStep /\ StickyQueued
      /\ fut \in Future /\ mac \in Mac /\ hist \in Hist /\ hist.expired \in BOOLEAN
  BY FieldTypes DEF IInv, TypeOK
<1>2. /\ fut.at = "Complete" /\ fut.resp = "None" /\ mac' = r.mac
      /\ fut' = IF r.resp \in Convertible(fut.call) THEN Ready
                ELSE [fut EXCEPT !.at = "Panicked"]
      /\ hist' = [hist EXCEPT !.expired = @ \/ r.resp = "SessionExpired"]
      /\ class_c' = class_c /\ downlink' = downlink /\ saved' = saved
  BY DEF Rx2Empty, Return
<1>3. /\ fut.call \in {"Join", "Send"}
      /\ fut.call = "Join" => mac.state = "Otaa"
      /\ fut.call = "Send" => Joined(mac)
  BY <1>1, <1>2, ReadyTypes DEF FutureInStep, Future
<1>4. /\ hist' \in Hist
      /\ hist'.expired = (hist.expired \/ r.resp = "SessionExpired")
      /\ hist'.lastUp = hist.lastUp /\ hist'.current = hist.current
      /\ hist'.aborted = hist.aborted /\ hist'.owed = hist.owed
      /\ hist'.cleared = hist.cleared
  <2> HIDE DEF r
  <2>1. QED
    BY <1>1, <1>2 DEF Hist
<1>5. CASE fut.call = "Send"
  <2>1. r = SessionRx2Complete(mac)
    BY <1>3, <1>5 DEF Rx2Complete, Joined
  <2> HIDE DEF r
  <2>2. /\ r.mac \in Mac /\ r.mac.state = mac.state
        /\ r.mac.session.pending = mac.session.pending
        /\ r.resp \in {"SessionExpired", "NoAck", "RxComplete"}
        /\ \/ r.resp = "SessionExpired"
           \/ r.mac.session.fcnt_up = mac.session.fcnt_up + 1
    BY <1>1, <2>1, FcntModNat, SessionRx2CompleteEffect
  <2>3. fut' = Ready
    BY <1>2, <1>5, <2>2 DEF Convertible
  <2>4. TypeOK'
    BY <1>1, <1>2, <1>4, <2>2, <2>3, ReadyTypes DEF TypeOK
  <2>5. \/ hist'.expired
        \/ /\ hist'.expired = hist.expired
           /\ mac'.session.fcnt_up = mac.session.fcnt_up + 1
    BY <1>1, <1>2, <1>4, <2>2
  <2>6. CountersInStep'
    BY <1>1, <1>2, <1>4, <2>2, <2>5, SessionMoves
  <2>7. StickyQueued'
    BY <1>1, <1>2, <1>4, <2>2 DEF StickyQueued, Joined
  <2>8. QED
    BY <2>3, <2>4, <2>6, <2>7, ReadyInStep DEF IInv
<1>6. CASE fut.call = "Join"
  <2>1. r = Reply(mac, "NoJoinAccept", FALSE)
    BY <1>3, <1>6 DEF Rx2Complete
  <2>2. r.mac = mac /\ r.resp = "NoJoinAccept"
    BY <2>1 DEF Reply
  <2> HIDE DEF r
  <2>3. fut' = Ready
    BY <1>2, <1>6, <2>2 DEF Convertible
  <2>4. mac' = mac /\ ~Joined(mac) /\ hist'.expired = hist.expired
    BY <1>1, <1>2, <1>3, <1>4, <1>6, <2>2 DEF Joined
  <2>5. TypeOK'
    BY <1>1, <1>2, <1>4, <2>3, <2>4, ReadyTypes DEF TypeOK
  <2>6. CountersInStep' /\ StickyQueued'
    BY <1>1, <1>2, <1>4, <2>4
    DEF CountersInStep, UplinkInStep, CounterMoved, SnapshotInStep, StickyQueued, Joined
  <2>7. QED
    BY <2>3, <2>5, <2>6, ReadyInStep DEF IInv
<1>7. QED
  BY <1>3, <1>5, <1>6

-----------------------------------------------------------------------------
(* Dropped futures, calls and restarts.                                    *)

\* A call given up: its counter is on record if it has not been counted.
LEMMA AbortIInv ==
    ASSUME IInv, Abort
    PROVE  IInv'
<1>1. /\ TypeOK /\ CountersInStep /\ StickyQueued /\ hist \in Hist
  BY DEF IInv, TypeOK
<1> DEFINE a == \/ hist.aborted
                \/ fut.call = "Send" /\ hist.lastUp = mac.session.fcnt_up
<1>2. /\ fut' = Ready /\ mac' = mac /\ saved' = saved
      /\ class_c' = class_c /\ downlink' = downlink
      /\ hist' = [hist EXCEPT !.aborted = a]
  BY DEF Abort
<1>3. a \in BOOLEAN /\ (a <=> \/ hist.aborted
                              \/ fut.call = "Send" /\ hist.lastUp = mac.session.fcnt_up)
  BY <1>1, FieldTypes
<1> HIDE DEF a
<1>4. /\ hist' \in Hist /\ hist'.aborted = a /\ hist'.lastUp = hist.lastUp
      /\ hist'.current = hist.current /\ hist'.expired = hist.expired
      /\ hist'.owed = hist.owed /\ hist'.cleared = hist.cleared
  BY <1>1, <1>2, <1>3 DEF Hist
<1>5. TypeOK'
  BY <1>1, <1>2, <1>4, ReadyTypes DEF TypeOK
<1>6. CountersInStep' /\ StickyQueued'
  BY <1>1, <1>2, <1>3, <1>4, FieldTypes
  DEF CountersInStep, UplinkInStep, CounterMoved, SnapshotInStep, StickyQueued,
      UplinkInFlight, Joined
<1>7. QED
  BY <1>2, <1>5, <1>6, ReadyInStep DEF IInv

\* While no future is under way the window and conversion parts are idle.
LEMMA IdleFuture ==
    ASSUME FutureInStep, fut.call = "Ready", fut' = fut
    PROVE  FutureInStep' /\ WindowsInStep' /\ ExchangeAnswers' /\ fut' \in Future
           /\ ~UplinkInFlight /\ ~UplinkInFlight'
<1>1. fut = Ready /\ fut' = Ready
  BY DEF FutureInStep
<1>2. QED
  BY <1>1, ReadyInStep, ReadyTypes DEF UplinkInFlight

\* A new session, or a snapshot of the one in use.
LEMMA SessionCallsIInv ==
    ASSUME IInv, fut.call = "Ready", JoinAbp \/ GetSession
    PROVE  IInv'
<1>1. /\ TypeOK /\ FutureInStep /\ CountersInStep /\ StickyQueued
      /\ mac \in Mac /\ hist \in Hist
  BY DEF IInv, TypeOK
<1>2. fut' = fut
  BY DEF JoinAbp, GetSession
<1>3. CASE JoinAbp
  <2>1. mac' \in Mac /\ mac'.state = "Joined" /\ mac'.session = NewSession
    BY <1>1, <1>3, InstallEffect, NewSessionFields DEF JoinAbp
  <2>2. hist' = InitHist /\ saved' = saved
    BY <1>3 DEF JoinAbp
  <2>3. TypeOK'
    BY <1>1, <1>3, <2>1, <2>2, InitHistType DEF JoinAbp, TypeOK
  <2>4. mac'.session.fcnt_up = 0 /\ hist'.lastUp = -1 /\ hist'.current = FALSE
        /\ hist'.owed = {}
    BY <2>1, <2>2, InitHistType, NewSessionFields
  <2>5. CountersInStep' /\ StickyQueued'
    BY <2>4
    DEF CountersInStep, UplinkInStep, CounterMoved, SnapshotInStep, StickyQueued
  <2>6. QED
    BY <1>1, <1>2, <2>3, <2>5, IdleFuture DEF IInv
<1>4. CASE GetSession
  <2>1. /\ hist' \in Hist /\ hist'.current = TRUE /\ hist'.lastUp = hist.lastUp
        /\ hist'.expired = hist.expired /\ hist'.aborted = hist.aborted
        /\ hist'.owed = hist.owed /\ hist'.cleared = hist.cleared
    BY <1>1, <1>4 DEF GetSession, Hist
  <2>2. saved' = mac.session /\ mac' = mac /\ Joined(mac) /\ ~UplinkInFlight
    BY <1>4 DEF GetSession, UplinkInFlight
  <2>3. TypeOK'
    BY <1>1, <1>4, <2>1, <2>2, FieldTypes DEF GetSession, TypeOK
  <2>4. CountersInStep' /\ StickyQueued'
    BY <1>1, <1>2, <2>1, <2>2
    DEF CountersInStep, UplinkInStep, CounterMoved, SnapshotInStep, StickyQueued,
        Joined, UplinkInFlight
  <2>5. QED
    BY <1>1, <1>2, <2>3, <2>4, IdleFuture DEF IInv
<1>5. QED
  BY <1>3, <1>4

\* Calls that leave the counters and the answers alone.
LEMMA OtherCallsIInv ==
    ASSUME IInv, fut.call = "Ready",
           RxcListen \/ SetClassC \/ SetAdrEnabled \/ SetDatarate \/ TakeDownlink
    PROVE  IInv'
<1>1. /\ TypeOK /\ FutureInStep /\ CountersInStep /\ StickyQueued /\ mac \in Mac
      /\ fut = Ready
  BY DEF IInv, TypeOK, FutureInStep
<1>2. CASE RxcListen
  <2>1. /\ fut' = [Ready EXCEPT !.call = "Listen", !.at = "Rxc"] /\ mac' = mac
        /\ class_c' = class_c /\ downlink' = downlink /\ saved' = saved
        /\ hist' = hist
    BY <1>2 DEF RxcListen
  <2>2. /\ fut' \in Future /\ fut'.call = "Listen" /\ fut'.at = "Rxc"
        /\ fut'.resp = "None"
    BY <2>1 DEF Ready, Future
  <2>3. FutureInStep' /\ WindowsInStep' /\ ExchangeAnswers'
    BY <2>2 DEF FutureInStep, WindowsInStep, Rx1InStep, Rx2FollowsRx1, ExchangeAnswers
  <2>4. CountersInStep' /\ StickyQueued'
    BY <1>1, <2>1, QuietInStep DEF UplinkInFlight
  <2>5. QED
    BY <1>1, <2>1, <2>2, <2>3, <2>4 DEF IInv, TypeOK
<1>3. CASE SetClassC \/ TakeDownlink
  <2>1. fut' = fut /\ mac' = mac /\ saved' = saved /\ hist' = hist
    BY <1>3 DEF SetClassC, TakeDownlink
  <2>2. class_c' \in BOOLEAN /\ downlink' \in 0 .. D
    <3>1. class_c' \in BOOLEAN
      BY <1>1, <1>3 DEF SetClassC, TakeDownlink, TypeOK
    <3>2. downlink' \in 0 .. D
      BY <1>1, <1>3, AsyncDeviceAssumption DEF SetClassC, TakeDownlink, TypeOK
    <3>3. QED
      BY <3>1, <3>2
  <2>3. CountersInStep' /\ StickyQueued'
    BY <1>1, <2>1, QuietInStep DEF UplinkInFlight
  <2>4. QED
    BY <1>1, <2>1, <2>2, <2>3, IdleFuture DEF IInv, TypeOK
<1>4. ASSUME mac' \in Mac, mac'.state = mac.state,
             mac'.session.fcnt_up = mac.session.fcnt_up,
             mac'.session.pending = mac.session.pending,
             UNCHANGED <<fut, class_c, downlink, saved, hist>>
      PROVE  IInv'
  <2>1. CountersInStep' /\ StickyQueued'
    BY <1>1, <1>4
    DEF CountersInStep, UplinkInStep, CounterMoved, SnapshotInStep, StickyQueued,
        Joined, UplinkInFlight
  <2>2. QED
    BY <1>1, <1>4, <2>1, IdleFuture DEF IInv, TypeOK
<1>5. CASE SetAdrEnabled
  <2>1. PICK enabled \in BOOLEAN : mac' = SetAdr(mac, enabled)
    BY <1>5 DEF SetAdrEnabled
  <2>2. /\ mac' \in Mac /\ mac'.state = mac.state
        /\ mac'.session.fcnt_up = mac.session.fcnt_up
        /\ mac'.session.pending = mac.session.pending
    BY <1>1, <2>1, SetAdrEffect
  <2>3. QED
    BY <1>4, <1>5, <2>2 DEF SetAdrEnabled
<1>6. CASE SetDatarate
  <2>1. PICK dr \in SupportedDR : mac' = [mac EXCEPT !.configuration.data_rate = dr]
    BY <1>6 DEF SetDatarate
  <2> DEFINE c == [mac.configuration EXCEPT !.data_rate = dr]
  <2>2. c \in Configuration
    BY <1>1 DEF Mac, Configuration
  <2>3. mac' = [mac EXCEPT !.configuration = c]
    BY <1>1, <2>1 DEF Mac
  <2> HIDE DEF c
  <2>4. mac' \in Mac /\ mac'.state = mac.state /\ mac'.session = mac.session
    BY <1>1, <2>2, <2>3 DEF Mac
  <2>5. QED
    BY <1>4, <1>6, <2>4 DEF SetDatarate
<1>7. QED
  BY <1>2, <1>3, <1>5, <1>6

\* A restart, with the saved session or without one.
LEMMA RebootIInv ==
    ASSUME IInv, Reboot
    PROVE  IInv'
<1>1. TypeOK /\ CountersInStep /\ hist \in Hist /\ saved \in Session
  BY DEF IInv, TypeOK
<1>2. fut' = Ready /\ class_c' = FALSE /\ downlink' = 0 /\ saved' = saved
  BY DEF Reboot
<1>3. class_c' \in BOOLEAN /\ downlink' \in 0 .. D
  <2>1. 0 \in 0 .. D
    BY AsyncDeviceAssumption
  <2>2. QED
    BY <1>2, <2>1
<1>4. CASE mac' = InitMac /\ hist' = hist
  <2>1. mac' \in Mac /\ mac'.state = "Unjoined"
    BY <1>4, InitTypes DEF InitMac
  <2>2. TypeOK'
    BY <1>1, <1>2, <1>3, <1>4, <2>1, ReadyTypes DEF TypeOK
  <2>3. CountersInStep' /\ StickyQueued'
    BY <1>1, <1>2, <1>4, <2>1
    DEF CountersInStep, UplinkInStep, CounterMoved, SnapshotInStep, StickyQueued, Joined
  <2>4. QED
    BY <1>2, <2>2, <2>3, ReadyInStep DEF IInv
<1>5. CASE /\ mac' = Install(InitMac, saved)
           /\ hist' = [(IF hist.current THEN hist ELSE InitHist)
                       EXCEPT !.owed = saved.pending \cap Sticky, !.cleared = FALSE]
  <2> DEFINE h == IF hist.current THEN hist ELSE InitHist
  <2>1. mac' \in Mac /\ mac'.state = "Joined" /\ mac'.session = saved
    BY <1>1, <1>5, InitTypes, InstallEffect
  <2>2. h \in Hist /\ saved.fcnt_up \in Nat
        /\ (~h.expired => h.lastUp <= saved.fcnt_up)
        /\ (~h.expired /\ ~h.aborted => h.lastUp < saved.fcnt_up)
    <3>1. CASE hist.current
      BY <1>1, <3>1, FieldTypes DEF CountersInStep, SnapshotInStep
    <3>2. CASE ~hist.current
      <4>1. h \in Hist /\ h.lastUp = -1 /\ saved.fcnt_up \in Nat
        BY <1>1, <3>2, InitHistType, FieldTypes
      <4> HIDE DEF h
      <4>2. QED
        BY <4>1
    <3>3. QED
      BY <3>1, <3>2
  <2>3. hist' = [h EXCEPT !.owed = saved.pending \cap Sticky, !.cleared = FALSE]
    BY <1>5
  <2> HIDE DEF h
  <2>4. /\ hist' \in Hist /\ hist'.lastUp = h.lastUp /\ hist'.expired = h.expired
        /\ hist'.aborted = h.aborted /\ hist'.owed = saved.pending \cap Sticky
    BY <2>2, <2>3 DEF Hist
  <2>5. TypeOK'
    BY <1>1, <1>2, <1>3, <2>1, <2>4, ReadyTypes DEF TypeOK
  <2>6. CountersInStep' /\ StickyQueued'
    BY <1>2, <2>1, <2>2, <2>4
    DEF CountersInStep, UplinkInStep, CounterMoved, SnapshotInStep, StickyQueued
  <2>7. QED
    BY <1>2, <2>5, <2>6, ReadyInStep DEF IInv
<1>6. QED
  BY <1>4, <1>5 DEF Reboot

LEMMA StepIInv == IInv /\ [Next]_vars => IInv'
<1> SUFFICES ASSUME IInv, [Next]_vars PROVE IInv'
  OBVIOUS
<1>1. CASE Join
  BY <1>1, JoinIInv
<1>2. ASSUME NEW confirmed \in BOOLEAN, Send(confirmed) PROVE IInv'
  BY <1>2, SendIInv
<1>3. CASE Progress \/ RxcError
  BY <1>3, ArmIInv, WaitIInv, ReturnIInv, Rx2EmptyIInv DEF Progress
<1>4. ASSUME NEW f \in Frames, RxcFrame(f) \/ RxFrame(f) PROVE IInv'
  BY <1>4, RxcFrameIInv, RxFrameIInv
<1>5. CASE RxcNotJoined
  BY <1>5, ReturnIInv
<1>6. CASE Abort
  BY <1>6, AbortIInv
<1>7. CASE fut.call = "Ready" /\ Call
  BY <1>7, SessionCallsIInv, OtherCallsIInv DEF Call
<1>8. CASE Reboot
  BY <1>8, RebootIInv
<1>9. CASE UNCHANGED vars
  BY <1>9
  DEF vars, IInv, TypeOK, FutureInStep, CountersInStep, UplinkInStep, CounterMoved,
      SnapshotInStep, StickyQueued, WindowsInStep, Rx1InStep, Rx2FollowsRx1,
      ExchangeAnswers, UplinkInFlight, Joined, StartDelay
<1>10. QED
  BY <1>1, <1>2, <1>3, <1>4, <1>5, <1>6, <1>7, <1>8, <1>9 DEF Next

LEMMA Invariance == Spec => []IInv
BY InitIInv, StepIInv, PTL DEF Spec

-----------------------------------------------------------------------------
(* The theorems.                                                           *)

\* Every field stays in its type: fcnt_up never overflows, the downlink queue
\* never exceeds its capacity and no window is armed with a negative delay.
THEOREM AsyncDeviceTypeOK == Spec => []TypeOK
BY Invariance, PTL DEF IInv

\* No uplink counter is used twice in a session that has not expired, unless
\* the application gave up the exchange that used it: with class C, restored
\* sessions and restarts at any await.
THEOREM AsyncDeviceUplinkCounterUnused == Spec => []UplinkCounterUnused
<1>1. IInv => UplinkCounterUnused
  BY DEF IInv, CountersInStep, CounterMoved, UplinkInFlight, UplinkCounterUnused
<1>2. QED
  BY <1>1, Invariance, PTL

\* Sticky answers survive everything but a data frame in RX1 or RX2.
THEOREM AsyncDeviceStickyQueued == Spec => []StickyQueued
BY Invariance, PTL DEF IInv

\* RX2 opens one second after RX1, whatever the RXC window hears in between.
THEOREM AsyncDeviceRx2FollowsRx1 == Spec => []Rx2FollowsRx1
BY Invariance, PTL DEF IInv, WindowsInStep

\* Neither join nor send panics on the response of a window.
THEOREM AsyncDeviceExchangeAnswers == Spec => []ExchangeAnswers
BY Invariance, PTL DEF IInv

-----------------------------------------------------------------------------
(* AsyncDevice implements SessionContract.                                 *)

ContractStep == [Contract!Next]_(Contract!vars)

\* One lemma per kind of step of the contract, in terms of the device.
LEMMA MapsToStutter ==
    ASSUME mac'.session.fcnt_up = mac.session.fcnt_up,
           mac'.session.fcnt_down = mac.session.fcnt_down, saved' = saved
    PROVE  ContractStep
BY DEF ContractStep, Contract!vars, Counters

LEMMA MapsToNewSession ==
    ASSUME mac'.session = NewSession, saved' = saved
    PROVE  ContractStep
<1>1. Counters(mac'.session) = Contract!FreshCounters
  BY NewSessionFields DEF Counters, Contract!FreshCounters, NoFcnt, Contract!NoFcnt
<1>2. Contract!NewSession
  BY <1>1 DEF Contract!NewSession, Counters
<1>3. QED
  BY <1>2 DEF ContractStep, Contract!Next

LEMMA MapsToEndExchange ==
    ASSUME mac.session.fcnt_up < FcntMod - 1,
           mac'.session.fcnt_up = mac.session.fcnt_up + 1,
           mac'.session.fcnt_down = mac.session.fcnt_down, saved' = saved
    PROVE  ContractStep
<1>1. Contract!FcntMod = FcntMod
  BY DEF FcntMod, Contract!FcntMod
<1>2. Contract!EndExchange
  BY <1>1 DEF Contract!EndExchange, Counters
<1>3. QED
  BY <1>2 DEF ContractStep, Contract!Next

LEMMA MapsToAccept ==
    ASSUME NEW r, AcceptedBy(mac, r), mac' = r.mac, saved' = saved, FcntMod \in Nat
    PROVE  ContractStep
<1> DEFINE s == mac.session
           t == mac'.session
<1>1. Contract!FcntMod = FcntMod /\ Contract!Fcnt = Fcnt /\ Contract!NoFcnt = NoFcnt
  BY DEF FcntMod, Contract!FcntMod, Fcnt, Contract!Fcnt, NoFcnt, Contract!NoFcnt
<1>2. MovesAhead(s.fcnt_down, t.fcnt_down)
  BY DEF AcceptedBy
<1>3. t.fcnt_down \in Contract!Ahead(s.fcnt_down)
  BY <1>1, <1>2 DEF MovesAhead, Contract!Ahead
<1>4. t.fcnt_up = IF s.fcnt_up < FcntMod - 1 THEN s.fcnt_up + 1 ELSE s.fcnt_up
  BY DEF AcceptedBy
<1>5. Contract!AcceptDownlink
  BY <1>1, <1>3, <1>4 DEF Contract!AcceptDownlink, Counters
<1>6. QED
  BY <1>5 DEF ContractStep, Contract!Next

LEMMA MapsToSave ==
    ASSUME mac' = mac, saved' = mac.session
    PROVE  ContractStep
<1>1. Contract!Save
  BY DEF Contract!Save, Counters
<1>2. QED
  BY <1>1 DEF ContractStep, Contract!Next

LEMMA MapsToRestore ==
    ASSUME mac'.session = saved, saved' = saved
    PROVE  ContractStep
<1>1. Contract!Restore
  BY DEF Contract!Restore, Counters
<1>2. QED
  BY <1>1 DEF ContractStep, Contract!Next

\* An exchange without a frame ends, or the session has expired.
LEMMA CompletionMaps ==
    ASSUME mac \in Mac, mac' = SessionRx2Complete(mac).mac, saved' = saved
    PROVE  ContractStep
<1>1. /\ mac'.session.fcnt_down = mac.session.fcnt_down
      /\ \/ mac' = mac
         \/ /\ mac.session.fcnt_up < FcntMod - 1
            /\ mac'.session.fcnt_up = mac.session.fcnt_up + 1
  BY FcntModNat, SessionRx2CompleteEffect
<1>2. CASE mac' = mac
  BY <1>2, MapsToStutter
<1>3. CASE mac' # mac
  BY <1>1, <1>3, MapsToEndExchange
<1>4. QED
  BY <1>2, <1>3

\* A frame in one of the windows of a joined device.
LEMMA FrameMaps ==
    ASSUME mac \in Mac, NEW f \in Frame, NEW ignore_mac \in BOOLEAN, NEW r,
           r = SessionHandleRx(mac, f, ignore_mac), mac' = r.mac, saved' = saved
    PROVE  ContractStep
<1>1. \/ DroppedBy(mac, f, r)
      \/ r = SessionRx2Complete(mac)
      \/ AcceptedBy(mac, r)
  BY SessionHandleRxEffect
<1>2. CASE DroppedBy(mac, f, r)
  BY <1>2, MapsToStutter DEF DroppedBy, SameButQueue
<1>3. CASE r = SessionRx2Complete(mac)
  BY <1>3, CompletionMaps
<1>4. CASE AcceptedBy(mac, r)
  BY <1>4, FcntModNat, MapsToAccept
<1>5. QED
  BY <1>1, <1>2, <1>3, <1>4

LEMMA RxFrameMaps ==
    ASSUME TypeOK, NEW f \in Frames, RxFrame(f)
    PROVE  ContractStep
<1> DEFINE r == HandleRx(mac, f)
<1>1. mac \in Mac /\ f \in Frame
  BY AsyncDeviceAssumption DEF TypeOK
<1>2. mac' = r.mac /\ saved' = saved
  BY DEF RxFrame
<1>3. \/ mac.state = "Joined" /\ r = SessionHandleRx(mac, f, FALSE)
      \/ r = OtaaHandleRx(mac, f)
      \/ r = Reply(mac, "NoUpdate", FALSE)
  BY <1>1 DEF HandleRx, Mac
<1> HIDE DEF r
<1>4. CASE r = SessionHandleRx(mac, f, FALSE)
  BY <1>1, <1>2, <1>4, FrameMaps
<1>5. CASE r = OtaaHandleRx(mac, f)
  BY <1>1, <1>2, <1>5, OtaaHandleRxEffect, MapsToStutter, MapsToNewSession
<1>6. CASE r = Reply(mac, "NoUpdate", FALSE)
  BY <1>2, <1>6, MapsToStutter DEF Reply
<1>7. QED
  BY <1>3, <1>4, <1>5, <1>6

LEMMA StepMaps == TypeOK /\ [Next]_vars => ContractStep
<1> SUFFICES ASSUME TypeOK, [Next]_vars PROVE ContractStep
  OBVIOUS
<1>1. mac \in Mac /\ saved \in Session
  BY DEF TypeOK
<1>2. CASE Join
  BY <1>1, <1>2, JoinOtaaEffect, MapsToNewSession DEF Join
<1>3. ASSUME NEW confirmed \in BOOLEAN, Send(confirmed) PROVE ContractStep
  <2>1. mac' = PrepareBuffer(mac, confirmed) /\ saved' = saved
    BY <1>3 DEF Send
  <2>2. SameButQueue(mac.session, mac'.session)
    BY <1>1, <2>1, PrepareBufferEffect
  <2>3. QED
    BY <2>1, <2>2, MapsToStutter DEF SameButQueue
<1>4. CASE \/ TxDone \/ Armed \/ TimerFires \/ SetupDone \/ RxTimeout \/ Answered
           \/ Rx1Empty \/ RxcError \/ RxcNotJoined \/ Abort
  BY <1>4, MapsToStutter
  DEF TxDone, Armed, TimerFires, SetupDone, RxTimeout, Answered, Rx1Empty, RxcError,
      RxcNotJoined, Abort
<1>5. CASE Rx2Empty
  <2>1. mac' = Rx2Complete(mac).mac /\ saved' = saved
    BY <1>5 DEF Rx2Empty
  <2>2. CASE mac.state = "Joined"
    <3>1. mac' = SessionRx2Complete(mac).mac
      BY <2>1, <2>2 DEF Rx2Complete
    <3>2. QED
      BY <1>1, <2>1, <3>1, CompletionMaps
  <2>3. CASE mac.state # "Joined"
    <3>1. mac' = mac
      BY <1>1, <2>1, <2>3 DEF Rx2Complete, Reply, Mac
    <3>2. QED
      BY <2>1, <3>1, MapsToStutter
  <2>4. QED
    BY <2>2, <2>3
<1>6. ASSUME NEW f \in Frames, RxcFrame(f) PROVE ContractStep
  <2>1. f \in Frame
    BY AsyncDeviceAssumption
  <2>2. mac' = HandleRxc(f).mac /\ saved' = saved
    BY <1>6 DEF RxcFrame
  <2>3. QED
    BY <1>1, <2>1, <2>2, FrameMaps DEF HandleRxc
<1>7. ASSUME NEW f \in Frames, RxFrame(f) PROVE ContractStep
  BY <1>7, RxFrameMaps
<1>8. CASE JoinAbp
  BY <1>1, <1>8, NewSessionFields, InstallEffect, MapsToNewSession DEF JoinAbp
<1>9. CASE GetSession
  BY <1>9, MapsToSave DEF GetSession
<1>10. CASE SetAdrEnabled
  BY <1>1, <1>10, SetAdrEffect, MapsToStutter DEF SetAdrEnabled
<1>11. CASE SetDatarate
  BY <1>1, <1>11, MapsToStutter DEF SetDatarate, Mac
<1>12. CASE RxcListen \/ SetClassC \/ TakeDownlink
  BY <1>12, MapsToStutter DEF RxcListen, SetClassC, TakeDownlink
<1>13. CASE Reboot
  <2>1. CASE mac' = InitMac
    <3>1. mac'.session = NewSession
      BY <2>1 DEF InitMac
    <3>2. QED
      BY <1>13, <3>1, MapsToNewSession DEF Reboot
  <2>2. CASE mac' = Install(InitMac, saved)
    BY <1>1, <1>13, <2>2, InitTypes, InstallEffect, MapsToRestore DEF Reboot
  <2>3. QED
    BY <1>13, <2>1, <2>2 DEF Reboot
<1>14. CASE UNCHANGED vars
  BY <1>14, MapsToStutter DEF vars
<1>15. QED
  BY <1>2, <1>3, <1>4, <1>5, <1>6, <1>7, <1>8, <1>9, <1>10, <1>11, <1>12, <1>13,
     <1>14 DEF Next, Progress, Call

LEMMA InitMaps == Init => Contract!Init
BY NewSessionFields
DEF Init, InitMac, Contract!Init, Contract!FreshCounters, Counters, NoFcnt,
    Contract!NoFcnt

\* The asynchronous device implements the contract on its frame counters.
THEOREM AsyncDeviceImplementsContract == Spec => ImplementsContract
<1>1. Init => Contract!Init
  BY InitMaps
<1>2. TypeOK /\ [Next]_vars => [Contract!Next]_(Contract!vars)
  BY StepMaps DEF ContractStep
<1>3. QED
  BY <1>1, <1>2, AsyncDeviceTypeOK, PTL DEF Spec, ImplementsContract, Contract!Spec
=============================================================================
