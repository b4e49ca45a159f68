--------------------------- MODULE NbDeviceProofs ---------------------------
(* Theorems about NbDevice, for every region, radio, link, application and   *)
(* counter width.  The invariants are proved inductive one action at a time, *)
(* each action from the lemma of MacSessionProofs about the method it calls. *)
EXTENDS NbDevice, MacSessionProofs, FiniteSetTheorems

LEMMA WrapType ==
    ASSUME NEW t \in Int
    PROVE  Wrap(t) \in Ts
BY NbDeviceAssumption, SMT DEF Wrap, Ts

LEMMA HistTypes ==
    ASSUME NEW h \in Hist
    PROVE  InitHist \in Hist /\ NewSessionHist(h) \in Hist
           /\ NewSessionHist(h).lastUp = NoFcnt
           /\ NewSessionHist(h).current = FALSE
           /\ NewSessionHist(h).owed = {}
           /\ NewSessionHist(h).expired = FALSE
<1>1. 0 \in Ts
  BY NbDeviceAssumption DEF Ts
<1>2. InitHist \in Hist
  BY <1>1 DEF InitHist, Hist, FcntOption
<1>3. QED
  BY <1>2 DEF NewSessionHist, InitHist, Hist, FcntOption

\* A step to WaitingForRxWindow keeps the types of the device and the timer.
LEMMA WaitForRxWindow1Type ==
    ASSUME NEW m \in Mac, NEW frame \in {"Join", "Data"}, NEW ts \in TxTimes,
           WaitForRxWindow1(frame, m, ts)
    PROVE  device' \in Device /\ device'.st = "WaitingForRxWindow" /\ timer' \in Ts
<1> DEFINE t1 == Wrap(GetRxDelay(m, frame, 1) + ts + RxOffset)
<1>1. GetRxDelay(m, frame, 1) \in Nat
  BY RxDelayType
<1>2. t1 \in Ts
  BY <1>1, NbDeviceAssumption, WrapType
<1>3. device' = [st |-> "WaitingForRxWindow", frame |-> frame, win |-> 1, at |-> t1]
      /\ timer' = t1
  BY DEF WaitForRxWindow1
<1> HIDE DEF t1
<1>4. QED
  BY <1>2, <1>3 DEF Device

LEMMA IdleType == Idle \in Device
BY NbDeviceAssumption DEF Idle, Device, Ts

\* The radio took the TxRequest: types, and the history is h but for txEnd.
LEMMA TxAcceptedType ==
    ASSUME TypeOK, NEW m \in Mac, NEW frame \in {"Join", "Data"}, NEW h \in Hist,
           TxAccepted(frame, m, h)
    PROVE  /\ device' \in Device /\ device'.st # "Idle"
           /\ timer' \in Ts \cup {NoTimer}
           /\ hist' \in Hist
           /\ \E ts \in Ts : hist' = [h EXCEPT !.txEnd = ts]
<1>1. CASE /\ device' = [Idle EXCEPT !.st = "SendingData", !.frame = frame]
           /\ hist' = h
           /\ UNCHANGED timer
  <2>1. h = [h EXCEPT !.txEnd = h.txEnd] /\ h.txEnd \in Ts
    BY DEF Hist
  <2>2. device' \in Device /\ device'.st # "Idle"
    BY <1>1, IdleType DEF Device, Idle
  <2>3. QED
    BY <1>1, <2>1, <2>2 DEF TypeOK
<1>2. ASSUME NEW ts \in TxTimes, WaitForRxWindow1(frame, m, ts),
             hist' = [h EXCEPT !.txEnd = ts]
      PROVE  /\ device' \in Device /\ device'.st # "Idle"
             /\ timer' \in Ts \cup {NoTimer}
             /\ hist' \in Hist
             /\ \E t \in Ts : hist' = [h EXCEPT !.txEnd = t]
  <2>1. ts \in Ts
    BY NbDeviceAssumption DEF Ts
  <2>2. hist' \in Hist
    BY <1>2, <2>1 DEF Hist
  <2>3. QED
    BY <1>2, <2>1, <2>2, WaitForRxWindow1Type
<1>3. QED
  BY <1>1, <1>2 DEF TxAccepted

-----------------------------------------------------------------------------
(* The inductive invariant.                                                *)

\* While an exchange is in flight fcnt_up still is, at least, the counter it
\* uses: UplinkCounterUnused alone says nothing of the states in between.
UplinkInStep ==
    Joined(mac) /\ ~hist.expired => hist.lastUp <= mac.session.fcnt_up

\* A snapshot nothing was sent after is as good as the session itself.
SnapshotInStep ==
    hist.current /\ ~hist.expired => hist.lastUp < saved.fcnt_up

SavedAdrBounded == saved.adr_ack_cnt <= saved.fcnt_up

InStep ==
    /\ UplinkInStep /\ UplinkCounterUnused /\ SnapshotInStep
    /\ AdrAckCntBounded /\ SavedAdrBounded
    /\ StickyQueued

IInv == TypeOK /\ InStep

\* The facts about fields that every step needs.
LEMMA FieldTypes ==
    ASSUME TypeOK
    PROVE  /\ mac.session \in Session /\ mac.session.fcnt_up \in Nat
           /\ mac.session.adr_ack_cnt \in Nat
           /\ saved.fcnt_up \in Nat /\ saved.adr_ack_cnt \in Nat
           /\ hist.lastUp \in Int /\ hist.lastUp >= -1
           /\ hist.expired \in BOOLEAN /\ hist.current \in BOOLEAN
           /\ hist.cleared \in BOOLEAN
           /\ hist.owed \subseteq Sticky
BY FcntModNat DEF TypeOK, Mac, Session, Hist, Fcnt, FcntOption, NoFcnt

LEMMA InitIInv == Init => IInv
<1> SUFFICES ASSUME Init PROVE IInv
  OBVIOUS
<1>1. TypeOK
  <2>1. InitHist \in Hist
    BY NbDeviceAssumption DEF InitHist, Hist, FcntOption, Ts
  <2>2. QED
    BY <2>1, InitTypes, IdleType, NbDeviceAssumption DEF Init, TypeOK
<1>2. mac.state = "Unjoined" /\ mac.session = NewSession
  BY DEF Init, InitMac
<1>3. InStep
  BY <1>2, NewSessionFields
  DEF Init, InStep, UplinkInStep, UplinkCounterUnused, SnapshotInStep, InitHist,
      AdrAckCntBounded, SavedAdrBounded, StickyQueued, Joined
<1>4. QED
  BY <1>1, <1>3 DEF IInv

\* Join: the session is gone, so that only the snapshot matters.
LEMMA JoinIInv == IInv /\ Join => IInv'
<1> SUFFICES ASSUME IInv, Join PROVE IInv'
  OBVIOUS
<1> DEFINE m == JoinOtaa(mac)
<1>1. TypeOK /\ mac \in Mac
  BY DEF IInv, TypeOK
<1>2. m \in Mac /\ m.state = "Otaa" /\ m.session = NewSession
  BY <1>1, JoinOtaaEffect
<1> HIDE DEF m
<1>3. mac' = m /\ (TxAccepted("Join", m, hist) \/ TxRefused)
      /\ UNCHANGED <<downlink, saved>>
  BY DEF Join, m
<1>4. /\ device' \in Device /\ timer' \in Ts \cup {NoTimer} /\ hist' \in Hist
      /\ \E ts \in Ts : hist' = [hist EXCEPT !.txEnd = ts]
  <2>1. CASE TxAccepted("Join", m, hist)
    <3>1. hist \in Hist /\ "Join" \in {"Join", "Data"}
      BY <1>1 DEF TypeOK
    <3>2. QED
      BY <1>1, <1>2, <2>1, <3>1, TxAcceptedType
  <2>2. CASE TxRefused
    BY <1>1, <2>2 DEF TxRefused, TypeOK, Hist
  <2>3. QED
    BY <1>3, <2>1, <2>2
<1>5. TypeOK'
  BY <1>1, <1>2, <1>3, <1>4 DEF TypeOK
<1>6. hist'.current = hist.current /\ hist'.expired = hist.expired
      /\ hist'.lastUp = hist.lastUp
  BY <1>1, <1>4 DEF TypeOK, Hist
<1>7. InStep'
  BY <1>2, <1>3, <1>6, NewSessionFields
  DEF IInv, InStep, UplinkInStep, UplinkCounterUnused, SnapshotInStep,
      AdrAckCntBounded, SavedAdrBounded, StickyQueued, Joined
<1>8. QED
  BY <1>5, <1>7 DEF IInv

\* What a data uplink on the air adds to the history.
LEMMA TransmittedEffect ==
    ASSUME TypeOK, NEW confirmed \in BOOLEAN
    PROVE  LET h == Transmitted(hist, BuildUplink(mac, confirmed))
           IN  /\ h \in Hist /\ h.lastUp = mac.session.fcnt_up /\ h.current = FALSE
               /\ h.expired = hist.expired /\ h.owed = hist.owed
               /\ h.cleared = hist.cleared
<1> DEFINE up == BuildUplink(mac, confirmed)
           h == Transmitted(hist, up)
           a == IF up.adr_ack_req /\ up.fcnt # hist.lastUp
                THEN hist.asked + 1 ELSE hist.asked
<1>1. hist \in Hist /\ mac.session.fcnt_up \in FcntOption
  BY DEF TypeOK, Mac, Session, FcntOption
<1>2. up.fcnt = mac.session.fcnt_up
  BY DEF BuildUplink
<1>3. a \in Nat
  BY <1>1 DEF Hist
<1>4. h = [hist EXCEPT !.lastUp = mac.session.fcnt_up, !.current = FALSE,
                       !.asked = a]
  BY <1>2 DEF Transmitted
<1> HIDE DEF a, h
<1>5. /\ h \in Hist /\ h.lastUp = mac.session.fcnt_up /\ h.current = FALSE
      /\ h.expired = hist.expired /\ h.owed = hist.owed /\ h.cleared = hist.cleared
  BY <1>1, <1>3, <1>4 DEF Hist
<1>6. QED
  BY <1>5 DEF h

\* Send: the counter is on the air or it is not; the sticky answers stay.
LEMMA SendIInv ==
    ASSUME IInv, NEW confirmed \in BOOLEAN, Send(confirmed)
    PROVE  IInv'
<1> DEFINE m == PrepareBuffer(mac, confirmed)
           up == BuildUplink(mac, confirmed)
           h == Transmitted(hist, up)
<1>1. TypeOK /\ mac \in Mac /\ hist \in Hist
  BY DEF IInv, TypeOK
<1>2. /\ m \in Mac /\ m.state = mac.state
      /\ SameButQueue(mac.session, m.session)
      /\ mac.session.pending \cap Sticky \subseteq m.session.pending
  BY <1>1, PrepareBufferEffect
<1>4. /\ h \in Hist /\ h.lastUp = mac.session.fcnt_up /\ h.current = FALSE
      /\ h.expired = hist.expired /\ h.owed = hist.owed /\ h.cleared = hist.cleared
  BY <1>1, TransmittedEffect
<1>5. /\ mac' = m /\ (TxAccepted("Data", m, h) \/ TxRefused)
      /\ UNCHANGED <<downlink, saved>>
      /\ device.st = "Idle" /\ Joined(mac)
  BY DEF Send
<1> HIDE DEF m, h
<1>6. SUFFICES ASSUME device' \in Device, timer' \in Ts \cup {NoTimer}, hist' \in Hist,
                      \/ /\ device'.st # "Idle" /\ hist'.lastUp = mac.session.fcnt_up
                         /\ hist'.current = FALSE
                      \/ /\ device' = device /\ hist'.lastUp = hist.lastUp
                         /\ hist'.current = hist.current,
                      hist'.expired = hist.expired, hist'.owed = hist.owed,
                      hist'.cleared = hist.cleared
               PROVE  IInv'
  <2>1. CASE TxAccepted("Data", m, h)
    <3>1. "Data" \in {"Join", "Data"}
      OBVIOUS
    <3>2. /\ device' \in Device /\ device'.st # "Idle"
          /\ timer' \in Ts \cup {NoTimer} /\ hist' \in Hist
          /\ \E ts \in Ts : hist' = [h EXCEPT !.txEnd = ts]
      BY <1>1, <1>2, <1>4, <2>1, <3>1, TxAcceptedType
    <3>3. /\ hist'.lastUp = h.lastUp /\ hist'.current = h.current
          /\ hist'.expired = h.expired /\ hist'.owed = h.owed
          /\ hist'.cleared = h.cleared
      BY <1>4, <3>2 DEF Hist
    <3>4. QED
      BY <1>4, <1>6, <3>2, <3>3
  <2>2. CASE TxRefused
    BY <1>1, <1>6, <2>2 DEF TxRefused, TypeOK
  <2>3. QED
    BY <1>5, <2>1, <2>2
<1>7. TypeOK'
  BY <1>1, <1>2, <1>5, <1>6 DEF TypeOK
<1>8. mac'.session.fcnt_up = mac.session.fcnt_up
      /\ mac'.session.adr_ack_cnt = mac.session.adr_ack_cnt
  BY <1>2, <1>5 DEF SameButQueue
<1>9. UplinkInStep' /\ UplinkCounterUnused'
  BY <1>1, <1>2, <1>5, <1>6, <1>8, FieldTypes
  DEF IInv, InStep, UplinkInStep, UplinkCounterUnused, Joined
<1>10. SnapshotInStep' /\ AdrAckCntBounded' /\ SavedAdrBounded'
  BY <1>5, <1>6, <1>8
  DEF IInv, InStep, SnapshotInStep, AdrAckCntBounded, SavedAdrBounded
<1>11. StickyQueued'
  <2>1. ~hist.cleared => hist.owed \subseteq mac.session.pending \cap Sticky
    BY <1>1, <1>5, FieldTypes DEF IInv, InStep, StickyQueued
  <2>2. QED
    BY <1>2, <1>5, <1>6, <2>1 DEF StickyQueued
<1>12. QED
  BY <1>7, <1>9, <1>10, <1>11 DEF IInv, InStep

\* Steps that leave the MAC, the snapshot and the history of the counters alone.
LEMMA QuietInStep ==
    ASSUME InStep, mac' = mac, saved' = saved,
           \/ hist' = hist
           \/ hist \in Hist /\ \E ts \in TxTimes : hist' = [hist EXCEPT !.txEnd = ts],
           device'.st = "Idle" => device.st = "Idle"
    PROVE  InStep'
<1>1. /\ hist'.lastUp = hist.lastUp /\ hist'.expired = hist.expired
      /\ hist'.current = hist.current /\ hist'.owed = hist.owed
      /\ hist'.cleared = hist.cleared
  BY DEF Hist
<1>2. QED
  BY <1>1
  DEF InStep, UplinkInStep, UplinkCounterUnused, SnapshotInStep,
      AdrAckCntBounded, SavedAdrBounded, StickyQueued, Joined

LEMMA SendingIInv == IInv /\ (TxComplete \/ TxUnexpected) => IInv'
<1> SUFFICES ASSUME IInv, TxComplete \/ TxUnexpected PROVE IInv'
  OBVIOUS
<1>1. TypeOK /\ mac \in Mac /\ hist \in Hist /\ InStep
      /\ device.frame \in {"Join", "Data"}
  BY DEF IInv, TypeOK, Device
<1>2. CASE TxComplete
  <2>1. PICK ts \in TxTimes : /\ WaitForRxWindow1(device.frame, mac, ts)
                              /\ hist' = [hist EXCEPT !.txEnd = ts]
    BY <1>2 DEF TxComplete
  <2>2. device' \in Device /\ device'.st = "WaitingForRxWindow" /\ timer' \in Ts
    BY <1>1, <2>1, WaitForRxWindow1Type
  <2>3. ts \in Ts
    BY NbDeviceAssumption DEF Ts
  <2>4. hist' \in Hist
    BY <1>1, <2>1, <2>3 DEF Hist
  <2>5. TypeOK'
    BY <1>1, <1>2, <2>2, <2>4 DEF TypeOK, TxComplete
  <2>6. InStep'
    BY <1>1, <1>2, <2>1, <2>2, QuietInStep DEF TxComplete
  <2>7. QED
    BY <2>5, <2>6 DEF IInv
<1>3. CASE TxUnexpected
  <2>1. device' \in Device /\ device'.st # "Idle"
    BY <1>3, IdleType DEF TxUnexpected, Device, Idle
  <2>2. QED
    BY <1>1, <1>3, <2>1, QuietInStep DEF TxUnexpected, TypeOK, IInv
<1>4. QED
  BY <1>2, <1>3

\* A window opens, RX1 closes or a stale timer fires: only times change.
LEMMA WindowIInv == IInv /\ (OpenWindow \/ CloseWindow1 \/ StaleTimeout) => IInv'
<1> SUFFICES ASSUME IInv, OpenWindow \/ CloseWindow1 \/ StaleTimeout PROVE IInv'
  OBVIOUS
<1>1. TypeOK /\ InStep /\ mac \in Mac
  BY DEF IInv, TypeOK
<1>2. device \in Device /\ device.at \in Int /\ device.frame \in {"Join", "Data"}
      /\ device.win \in {1, 2}
  BY <1>1, NbDeviceAssumption DEF TypeOK, Device, Ts
<1>3. TimeBetweenWindows(device.frame) = Second /\ Second \in Nat
  BY <1>1, <1>2, RxDelayType, MacSessionAssumption DEF TimeBetweenWindows
<1>4. CASE OpenWindow
  <2>1. PICK duration \in RxDurations :
            timer' = Wrap(device.at + OpenFor(device.frame, device.win, duration))
    BY <1>4 DEF OpenWindow
  <2>2. OpenFor(device.frame, device.win, duration) \in Int
    BY <1>3, NbDeviceAssumption DEF OpenFor
  <2>3. timer' \in Ts
    BY <1>2, <2>1, <2>2, WrapType
  <2>4. device' \in Device /\ device'.st # "Idle"
    BY <1>2, <1>4 DEF OpenWindow, Device
  <2>5. QED
    BY <1>1, <1>4, <2>3, <2>4, QuietInStep DEF OpenWindow, TypeOK, IInv
<1>5. CASE CloseWindow1
  <2>1. Window2At(device) \in Ts
    BY <1>2, <1>3, WrapType DEF Window2At
  <2>2. device' \in Device /\ device'.st # "Idle" /\ timer' \in Ts
    BY <1>2, <1>5, <2>1 DEF CloseWindow1, Device
  <2>3. QED
    BY <1>1, <1>5, <2>2, QuietInStep DEF CloseWindow1, TypeOK, IInv
<1>6. CASE StaleTimeout
  BY <1>1, <1>6, QuietInStep DEF StaleTimeout, TypeOK, IInv
<1>7. QED
  BY <1>4, <1>5, <1>6

\* How an end of an exchange moves the session, seen from the invariant.
LEMMA EndInStep ==
    ASSUME IInv, mac' \in Mac, hist' \in Hist, saved' = saved, device'.st = "Idle",
           mac'.state = mac.state,
           hist'.lastUp = hist.lastUp, hist'.current = hist.current,
           \/ hist'.expired
           \/ /\ hist'.expired = hist.expired
              /\ mac'.session.fcnt_up = mac.session.fcnt_up + 1,
           \/ /\ mac'.session.fcnt_up = mac.session.fcnt_up
              /\ mac'.session.adr_ack_cnt = mac.session.adr_ack_cnt
           \/ /\ mac'.session.fcnt_up = mac.session.fcnt_up + 1
              /\ mac'.session.adr_ack_cnt <= mac.session.adr_ack_cnt + 1
           \/ mac'.session.adr_ack_cnt = 0,
           StickyQueued'
    PROVE  InStep'
<1>1. TypeOK /\ InStep
  BY DEF IInv
<1>2. mac'.session.fcnt_up \in Nat /\ mac'.session.adr_ack_cnt \in Nat
      /\ hist'.expired \in BOOLEAN
  BY FcntModNat DEF Mac, Session, Hist, Fcnt
<1>3. UplinkInStep' /\ UplinkCounterUnused'
  BY <1>1, <1>2, FieldTypes DEF InStep, UplinkInStep, UplinkCounterUnused, Joined
<1>4. SnapshotInStep'
  BY <1>1, <1>2, FieldTypes DEF InStep, SnapshotInStep
<1>5. AdrAckCntBounded' /\ SavedAdrBounded'
  BY <1>1, <1>2, FieldTypes DEF InStep, AdrAckCntBounded, SavedAdrBounded
<1>6. QED
  BY <1>3, <1>4, <1>5 DEF InStep

\* RX2 closes empty: the session counts the uplink, if there is a session.
LEMMA CloseWindow2IInv == IInv /\ CloseWindow2 => IInv'
<1> SUFFICES ASSUME IInv, CloseWindow2 PROVE IInv'
  OBVIOUS
<1> DEFINE r == Rx2Complete(mac)
<1>1. TypeOK /\ InStep /\ mac \in Mac /\ hist \in Hist
  BY DEF IInv, TypeOK
<1>2. /\ device' = Idle /\ mac' = r.mac /\ timer' = NoTimer
      /\ hist' = [hist EXCEPT !.expired = @ \/ r.resp = "SessionExpired"]
      /\ UNCHANGED <<downlink, saved>>
  BY DEF CloseWindow2
<1>3. device'.st = "Idle" /\ device' \in Device
  BY <1>2, IdleType DEF Idle
<1> HIDE DEF r
<1>4. /\ hist' \in Hist
      /\ hist'.expired = (hist.expired \/ r.resp = "SessionExpired")
      /\ hist'.lastUp = hist.lastUp /\ hist'.current = hist.current
      /\ hist'.owed = hist.owed /\ hist'.cleared = hist.cleared
  BY <1>1, <1>2 DEF Hist
<1>5. CASE mac.state = "Joined"
  <2>1. r = SessionRx2Complete(mac)
    BY <1>5 DEF r, Rx2Complete
  <2>2. /\ r.mac \in Mac /\ r.mac.state = mac.state
        /\ r.mac.session.pending = mac.session.pending
        /\ \/ r.resp = "SessionExpired" /\ r.mac = mac
           \/ /\ r.mac.session.fcnt_up = mac.session.fcnt_up + 1
              /\ r.mac.session.adr_ack_cnt <= mac.session.adr_ack_cnt + 1
    BY <1>1, <2>1, FcntModNat, SessionRx2CompleteEffect
  <2>3. TypeOK'
    BY <1>1, <1>2, <1>3, <1>4, <2>2 DEF TypeOK
  <2>4. StickyQueued'
    BY <1>1, <1>2, <1>4, <2>2 DEF InStep, StickyQueued, Joined
  <2>5. \/ hist'.expired
        \/ /\ hist'.expired = hist.expired
           /\ mac'.session.fcnt_up = mac.session.fcnt_up + 1
    BY <1>1, <1>2, <1>4, <2>2, FieldTypes
  <2>6. InStep'
    BY <1>2, <1>3, <1>4, <2>2, <2>4, <2>5, EndInStep
  <2>7. QED
    BY <2>3, <2>6 DEF IInv
<1>6. CASE mac.state # "Joined"
  <2>1. mac.state \in {"Otaa", "Unjoined"}
    BY <1>1, <1>6 DEF Mac
  <2>2. r.mac = mac /\ r.resp # "SessionExpired"
    BY <2>1 DEF r, Rx2Complete, Reply
  <2>3. mac' = mac /\ hist'.expired = hist.expired
    BY <1>1, <1>2, <1>4, <2>2 DEF Hist
  <2>4. TypeOK'
    BY <1>1, <1>2, <1>3, <1>4, <2>3 DEF TypeOK
  <2>5. InStep'
    BY <1>1, <1>2, <1>4, <1>6, <2>3
    DEF InStep, UplinkInStep, UplinkCounterUnused, SnapshotInStep,
        AdrAckCntBounded, SavedAdrBounded, StickyQueued, Joined
  <2>6. QED
    BY <2>4, <2>5 DEF IInv
<1>7. QED
  BY <1>5, <1>6

\* A frame in a window, while joined: dropped, oversized or accepted.
LEMMA ReceiveJoinedIInv ==
    ASSUME IInv, NEW f \in Frames, Receive(f), mac.state = "Joined"
    PROVE  IInv'
<1> DEFINE r == HandleRx(mac, f)
<1>1. TypeOK /\ InStep /\ mac \in Mac /\ hist \in Hist /\ f \in Frame
  BY NbDeviceAssumption DEF IInv, TypeOK
<1>2. r = SessionHandleRx(mac, f, FALSE)
  BY DEF HandleRx
<1>4. /\ mac' = r.mac /\ device' = IF r.resp = "NoUpdate" THEN device ELSE Idle
      /\ downlink' = IF r.data /\ downlink < D THEN downlink + 1 ELSE downlink
      /\ hist' = Heard(hist, f, r) /\ UNCHANGED <<timer, saved>>
      /\ device.st = "WaitingForRx"
  BY DEF Receive
<1> HIDE DEF r
<1>3. /\ r.mac \in Mac /\ r.mac.state = mac.state /\ r.data \in BOOLEAN
      /\ \/ DroppedBy(mac, f, r) /\ (f.kind = "Data" => ~f.oversized)
         \/ f.kind = "Data" /\ f.oversized /\ r = SessionRx2Complete(mac)
         \/ f.kind = "Data" /\ ~f.oversized /\ AcceptedBy(mac, r)
  BY <1>1, <1>2, SessionHandleRxEffect
<1>5. device' \in Device /\ downlink' \in 0 .. D
  BY <1>1, <1>4, IdleType, NbDeviceAssumption DEF TypeOK
<1>6. hist' \in Hist => TypeOK'
  BY <1>1, <1>3, <1>4, <1>5 DEF TypeOK
<1>7. CASE DroppedBy(mac, f, r) /\ (f.kind = "Data" => ~f.oversized)
  <2>1. r.resp = "NoUpdate" /\ device' = device
    BY <1>4, <1>7 DEF DroppedBy
  <2>2. hist' = IF f.kind # "Data" THEN hist
                ELSE [hist EXCEPT !.expired = @ \/ FALSE, !.cleared = TRUE]
    <3>1. CASE f.kind # "Data"
      BY <1>4, <2>1, <3>1 DEF Heard
    <3>2. CASE f.kind = "Data"
      BY <1>1, <1>4, <1>7, <2>1, <3>2 DEF Heard, Joined, Hist
    <3>3. QED
      BY <3>1, <3>2
  <2>3. /\ hist' \in Hist /\ hist'.expired = hist.expired
        /\ hist'.lastUp = hist.lastUp /\ hist'.current = hist.current
        /\ hist'.owed = hist.owed
        /\ f.kind = "Data" => hist'.cleared
        /\ f.kind # "Data" => hist'.cleared = hist.cleared
    BY <1>1, <2>2 DEF Hist
  <2>4. /\ SameButQueue(mac.session, r.mac.session)
        /\ f.kind # "Data" => r.mac = mac
    BY <1>7 DEF DroppedBy
  <2>5. StickyQueued'
    BY <1>1, <1>3, <1>4, <2>3, <2>4 DEF InStep, StickyQueued, Joined
  <2>6. InStep'
    BY <1>1, <1>3, <1>4, <2>1, <2>3, <2>4, <2>5
    DEF InStep, UplinkInStep, UplinkCounterUnused, SnapshotInStep,
        AdrAckCntBounded, SavedAdrBounded, Joined, SameButQueue
  <2>7. QED
    BY <1>6, <2>3, <2>6 DEF IInv
<1>8. CASE f.kind = "Data" /\ f.oversized /\ r = SessionRx2Complete(mac)
  <2>1. /\ r.mac.session.pending = mac.session.pending
        /\ r.resp # "NoUpdate" /\ r.resp # "JoinSuccess"
        /\ \/ r.resp = "SessionExpired" /\ r.mac = mac
           \/ /\ r.mac.session.fcnt_up = mac.session.fcnt_up + 1
              /\ r.mac.session.adr_ack_cnt <= mac.session.adr_ack_cnt + 1
    BY <1>1, <1>8, FcntModNat, SessionRx2CompleteEffect
  <2>2. hist' = [hist EXCEPT !.expired = @ \/ r.resp = "SessionExpired",
                             !.cleared = @ \/ ~f.oversized]
    BY <1>4, <1>8, <2>1 DEF Heard, Joined
  <2>3. /\ hist' \in Hist
        /\ hist'.expired = (hist.expired \/ r.resp = "SessionExpired")
        /\ hist'.lastUp = hist.lastUp /\ hist'.current = hist.current
        /\ hist'.owed = hist.owed /\ hist'.cleared = hist.cleared
    BY <1>1, <1>8, <2>2 DEF Hist
  <2>4. device'.st = "Idle"
    BY <1>4, <2>1 DEF Idle
  <2>5. StickyQueued'
    BY <1>1, <1>3, <1>4, <2>1, <2>3 DEF InStep, StickyQueued, Joined
  <2>6. \/ hist'.expired
        \/ /\ hist'.expired = hist.expired
           /\ mac'.session.fcnt_up = mac.session.fcnt_up + 1
    BY <1>1, <1>4, <2>1, <2>3, FieldTypes
  <2>7. InStep'
    BY <1>3, <1>4, <2>1, <2>3, <2>4, <2>5, <2>6, EndInStep
  <2>8. QED
    BY <1>6, <2>3, <2>7 DEF IInv
<1>9. CASE f.kind = "Data" /\ ~f.oversized /\ AcceptedBy(mac, r)
  <2>1. /\ r.mac.session.adr_ack_cnt = 0
        /\ \/ r.resp = "SessionExpired"
           \/ /\ r.resp = "DownlinkReceived"
              /\ r.mac.session.fcnt_up = mac.session.fcnt_up + 1
    BY <1>9 DEF AcceptedBy
  <2>2. hist' = [hist EXCEPT !.expired = @ \/ r.resp = "SessionExpired",
                             !.owed = r.mac.session.pending \cap Sticky,
                             !.cleared = FALSE, !.asked = 0]
    BY <1>4, <1>9, <2>1 DEF Heard, Joined
  <2>3. /\ hist' \in Hist
        /\ hist'.expired = (hist.expired \/ r.resp = "SessionExpired")
        /\ hist'.lastUp = hist.lastUp /\ hist'.current = hist.current
        /\ hist'.owed = r.mac.session.pending \cap Sticky
    BY <1>1, <2>2 DEF Hist
  <2>4. device'.st = "Idle"
    BY <1>4, <2>1 DEF Idle
  <2>5. StickyQueued'
    BY <1>4, <2>3 DEF StickyQueued
  <2>6. \/ hist'.expired
        \/ /\ hist'.expired = hist.expired
           /\ mac'.session.fcnt_up = mac.session.fcnt_up + 1
    BY <1>1, <1>4, <2>1, <2>3, FieldTypes
  <2>7. InStep'
    BY <1>3, <1>4, <2>1, <2>3, <2>4, <2>5, <2>6, EndInStep
  <2>8. QED
    BY <1>6, <2>3, <2>7 DEF IInv
<1>10. QED
  BY <1>3, <1>7, <1>8, <1>9

\* A frame in a window, while not joined: at most a new session.
LEMMA ReceiveUnjoinedIInv ==
    ASSUME IInv, NEW f \in Frames, Receive(f), mac.state # "Joined"
    PROVE  IInv'
<1> DEFINE r == HandleRx(mac, f)
<1>1. TypeOK /\ InStep /\ mac \in Mac /\ hist \in Hist /\ f \in Frame
  BY NbDeviceAssumption DEF IInv, TypeOK
<1>2. /\ mac' = r.mac /\ device' = IF r.resp = "NoUpdate" THEN device ELSE Idle
      /\ downlink' = IF r.data /\ downlink < D THEN downlink + 1 ELSE downlink
      /\ hist' = Heard(hist, f, r) /\ UNCHANGED <<timer, saved>>
  BY DEF Receive
<1>3. \/ mac.state = "Otaa" /\ r = OtaaHandleRx(mac, f)
      \/ r = Reply(mac, "NoUpdate", FALSE)
  BY <1>1 DEF HandleRx, Mac
<1> HIDE DEF r
<1>4. /\ r.mac \in Mac /\ r.data = FALSE
      /\ \/ r.resp = "NoUpdate" /\ r.mac = mac
         \/ /\ r.resp = "JoinSuccess" /\ r.mac.state = "Joined"
            /\ r.mac.session = NewSession
  <2>1. CASE r = OtaaHandleRx(mac, f)
    BY <1>1, <2>1, OtaaHandleRxEffect
  <2>2. CASE r = Reply(mac, "NoUpdate", FALSE)
    BY <1>1, <2>2 DEF Reply
  <2>3. QED
    BY <1>3, <2>1, <2>2
<1>5. device' \in Device /\ downlink' = downlink
  BY <1>1, <1>2, <1>4, IdleType DEF TypeOK
<1>6. CASE r.resp = "NoUpdate" /\ r.mac = mac
  <2>1. hist' = hist /\ mac' = mac /\ device' = device
    BY <1>2, <1>6 DEF Heard, Joined
  <2>2. QED
    BY <1>1, <1>2, <1>5, <2>1, QuietInStep DEF TypeOK, IInv
<1>7. CASE r.resp = "JoinSuccess" /\ r.mac.state = "Joined" /\ r.mac.session = NewSession
  <2>1. hist' = NewSessionHist(hist)
    BY <1>2, <1>7 DEF Heard
  <2>2. /\ hist' \in Hist /\ hist'.lastUp = -1 /\ hist'.current = FALSE
        /\ hist'.owed = {}
    BY <1>1, <2>1, HistTypes DEF NoFcnt
  <2>3. TypeOK'
    BY <1>1, <1>2, <1>4, <1>5, <2>2 DEF TypeOK
  <2>4. InStep'
    BY <1>1, <1>2, <1>7, <2>2, NewSessionFields
    DEF InStep, UplinkInStep, UplinkCounterUnused, SnapshotInStep,
        AdrAckCntBounded, SavedAdrBounded, StickyQueued, Joined
  <2>5. QED
    BY <2>3, <2>4 DEF IInv
<1>8. QED
  BY <1>4, <1>6, <1>7

\* A new session, a snapshot and its return.
LEMMA SessionCallsIInv == IInv /\ (JoinAbp \/ GetSession \/ SetSession) => IInv'
<1> SUFFICES ASSUME IInv, JoinAbp \/ GetSession \/ SetSession PROVE IInv'
  OBVIOUS
<1>1. TypeOK /\ InStep /\ mac \in Mac /\ hist \in Hist /\ saved \in Session
  BY DEF IInv, TypeOK
<1>2. CASE JoinAbp
  <2>1. mac' \in Mac /\ mac'.state = "Joined" /\ mac'.session = NewSession
    BY <1>1, <1>2, InstallEffect, NewSessionFields DEF JoinAbp
  <2>2. /\ hist' \in Hist /\ hist'.lastUp = -1 /\ hist'.current = FALSE
        /\ hist'.owed = {}
    BY <1>1, <1>2, HistTypes DEF JoinAbp, NoFcnt
  <2>3. TypeOK'
    BY <1>1, <1>2, <2>1, <2>2 DEF JoinAbp, TypeOK
  <2>4. InStep'
    BY <1>1, <1>2, <2>1, <2>2, NewSessionFields
    DEF JoinAbp, InStep, UplinkInStep, UplinkCounterUnused, SnapshotInStep,
        AdrAckCntBounded, SavedAdrBounded, StickyQueued, Joined
  <2>5. QED
    BY <2>3, <2>4 DEF IInv
<1>3. CASE GetSession
  <2>1. /\ hist' \in Hist /\ hist'.current = (device.st = "Idle")
        /\ hist'.lastUp = hist.lastUp /\ hist'.expired = hist.expired
        /\ hist'.owed = hist.owed /\ hist'.cleared = hist.cleared
    BY <1>1, <1>3 DEF GetSession, Hist
  <2>2. saved' = mac.session /\ mac' = mac /\ device' = device /\ Joined(mac)
    BY <1>3 DEF GetSession
  <2>3. TypeOK'
    BY <1>1, <1>3, <2>1, <2>2, FieldTypes DEF GetSession, TypeOK
  <2>4. InStep'
    BY <1>1, <2>1, <2>2
    DEF InStep, UplinkInStep, UplinkCounterUnused, SnapshotInStep,
        AdrAckCntBounded, SavedAdrBounded, StickyQueued, Joined
  <2>5. QED
    BY <2>3, <2>4 DEF IInv
<1>4. CASE SetSession
  <2> DEFINE h == IF hist.current THEN hist ELSE NewSessionHist(hist)
  <2>1. mac' \in Mac /\ mac'.state = "Joined" /\ mac'.session = saved
    BY <1>1, <1>4, InstallEffect DEF SetSession
  <2>2. h \in Hist /\ (~h.expired => h.lastUp < saved.fcnt_up)
        /\ (h.current /\ ~h.expired => h.lastUp < saved.fcnt_up)
    <3>1. CASE hist.current
      BY <1>1, <3>1 DEF InStep, SnapshotInStep
    <3>2. CASE ~hist.current
      <4>1. h = NewSessionHist(hist)
        BY <3>2
      <4>2. h \in Hist /\ h.lastUp = -1
        BY <1>1, <4>1, HistTypes DEF NoFcnt
      <4>3. saved.fcnt_up \in Nat
        BY <1>1, FieldTypes
      <4> HIDE DEF h
      <4>4. QED
        BY <4>2, <4>3
    <3>3. QED
      BY <3>1, <3>2
  <2>3. hist' = [h EXCEPT !.owed = saved.pending \cap Sticky, !.cleared = FALSE,
                          !.asked = saved.adr_ack_cnt]
        /\ UNCHANGED <<device, downlink, timer, saved>>
    BY <1>4 DEF SetSession
  <2> HIDE DEF h
  <2>4. /\ hist' \in Hist /\ hist'.lastUp = h.lastUp /\ hist'.expired = h.expired
        /\ hist'.current = h.current /\ hist'.owed = saved.pending \cap Sticky
    BY <1>1, <2>2, <2>3 DEF Hist, Session
  <2>5. TypeOK'
    BY <1>1, <2>1, <2>3, <2>4 DEF TypeOK
  <2>6. hist'.lastUp \in Int /\ saved.fcnt_up \in Int
    BY <1>1, <2>4, FcntModNat DEF Hist, FcntOption, NoFcnt, Session, Fcnt
  <2>7. InStep'
    BY <1>1, <2>1, <2>2, <2>3, <2>4, <2>6
    DEF InStep, UplinkInStep, UplinkCounterUnused, SnapshotInStep,
        AdrAckCntBounded, SavedAdrBounded, StickyQueued, Joined
  <2>8. QED
    BY <2>5, <2>7 DEF IInv
<1>5. QED
  BY <1>2, <1>3, <1>4

\* Calls that do not touch the counters, and a restart.
LEMMA OtherCallsIInv ==
    IInv /\ (SetAdrEnabled \/ SetDatarate \/ TakeDownlink \/ Reboot) => IInv'
<1> SUFFICES ASSUME IInv, SetAdrEnabled \/ SetDatarate \/ TakeDownlink \/ Reboot
             PROVE  IInv'
  OBVIOUS
<1>1. TypeOK /\ InStep /\ mac \in Mac
  BY DEF IInv, TypeOK
<1>2. CASE SetAdrEnabled
  <2>1. PICK enabled \in BOOLEAN : mac' = SetAdr(mac, enabled)
    BY <1>2 DEF SetAdrEnabled
  <2>2. /\ mac' \in Mac /\ mac'.state = mac.state
        /\ mac'.session.fcnt_up = mac.session.fcnt_up
        /\ mac'.session.pending = mac.session.pending
        /\ \/ mac'.session.adr_ack_cnt = mac.session.adr_ack_cnt
           \/ mac'.session.adr_ack_cnt = 0
    BY <1>1, <2>1, SetAdrEffect
  <2>3. TypeOK'
    BY <1>1, <1>2, <2>2 DEF SetAdrEnabled, TypeOK
  <2>4. InStep'
    BY <1>1, <1>2, <2>2, FieldTypes
    DEF SetAdrEnabled, InStep, UplinkInStep, UplinkCounterUnused, SnapshotInStep,
        AdrAckCntBounded, SavedAdrBounded, StickyQueued, Joined
  <2>5. QED
    BY <2>3, <2>4 DEF IInv
<1>3. CASE SetDatarate
  <2>1. PICK dr \in SupportedDR : mac' = [mac EXCEPT !.configuration.data_rate = dr]
    BY <1>3 DEF SetDatarate
  <2> DEFINE c == [mac.configuration EXCEPT !.data_rate = dr]
  <2>2. c \in Configuration
    BY <1>1 DEF Mac, Configuration
  <2>3. mac' = [mac EXCEPT !.configuration = c]
    BY <1>1, <2>1 DEF Mac
  <2> HIDE DEF c
  <2>4. mac' \in Mac /\ mac'.state = mac.state /\ mac'.session = mac.session
    BY <1>1, <2>2, <2>3 DEF Mac
  <2>5. TypeOK'
    BY <1>1, <1>3, <2>4 DEF SetDatarate, TypeOK
  <2>6. InStep'
    BY <1>1, <1>3, <2>4
    DEF SetDatarate, InStep, UplinkInStep, UplinkCounterUnused, SnapshotInStep,
        AdrAckCntBounded, SavedAdrBounded, StickyQueued, Joined
  <2>7. QED
    BY <2>5, <2>6 DEF IInv
<1>4. CASE TakeDownlink
  <2>1. downlink' \in 0 .. D
    BY <1>1, <1>4, NbDeviceAssumption DEF TakeDownlink, TypeOK
  <2>2. QED
    BY <1>1, <1>4, <2>1, QuietInStep DEF TakeDownlink, TypeOK, IInv
<1>5. CASE Reboot
  <2>1. mac' = InitMac /\ device' = Idle /\ downlink' = 0 /\ timer' = NoTimer
        /\ saved' = saved /\ hist' = hist
    BY <1>5 DEF Reboot
  <2>2. TypeOK'
    BY <1>1, <2>1, InitTypes, IdleType, NbDeviceAssumption DEF TypeOK
  <2>3. mac'.state = "Unjoined" /\ mac'.session = NewSession
    BY <2>1 DEF InitMac
  <2>4. InStep'
    BY <1>1, <2>1, <2>3, NewSessionFields
    DEF InStep, UplinkInStep, UplinkCounterUnused, SnapshotInStep,
        AdrAckCntBounded, SavedAdrBounded, StickyQueued, Joined
  <2>5. QED
    BY <2>2, <2>4 DEF IInv
<1>6. QED
  BY <1>2, <1>3, <1>4, <1>5

LEMMA StepIInv == IInv /\ [Next]_vars => IInv'
<1> SUFFICES ASSUME IInv, [Next]_vars PROVE IInv'
  OBVIOUS
<1>1. CASE Join
  BY <1>1, JoinIInv
<1>2. ASSUME NEW confirmed \in BOOLEAN, Send(confirmed) PROVE IInv'
  BY <1>2, SendIInv
<1>3. CASE TxComplete \/ TxUnexpected
  BY <1>3, SendingIInv
<1>4. CASE TimeoutFired
  BY <1>4, WindowIInv, CloseWindow2IInv DEF TimeoutFired
<1>5. ASSUME NEW f \in Frames, Receive(f) PROVE IInv'
  BY <1>5, ReceiveJoinedIInv, ReceiveUnjoinedIInv
<1>6. CASE Call
  BY <1>6, SessionCallsIInv, OtherCallsIInv DEF Call
<1>7. CASE Reboot
  BY <1>7, OtherCallsIInv
<1>8. CASE UNCHANGED vars
  BY <1>8
  DEF vars, IInv, TypeOK, InStep, UplinkInStep, UplinkCounterUnused, SnapshotInStep,
      AdrAckCntBounded, SavedAdrBounded, StickyQueued, Joined
<1>9. QED
  BY <1>1, <1>2, <1>3, <1>4, <1>5, <1>6, <1>7, <1>8 DEF Next, Event

LEMMA Invariance == Spec => []IInv
BY InitIInv, StepIInv, PTL DEF Spec

-----------------------------------------------------------------------------
(* The theorems.                                                           *)

\* Every field stays in its type: in particular fcnt_up never overflows, the
\* downlink queue never exceeds its capacity, and the data rate always is one
\* the region supports.
THEOREM NbDeviceTypeOK == Spec => []TypeOK
BY Invariance, PTL DEF IInv

\* No uplink counter is used twice in a session before it expires, for every
\* width of the counter, every radio and every application.
THEOREM NbDeviceUplinkCounterUnused == Spec => []UplinkCounterUnused
BY Invariance, PTL DEF IInv, InStep

\* adr_ack_cnt never exceeds fcnt_up, so it cannot overflow before fcnt_up does.
THEOREM NbDeviceAdrAckCntBounded == Spec => []AdrAckCntBounded
BY Invariance, PTL DEF IInv, InStep

\* Sticky answers survive everything but the arrival of a data frame.
THEOREM NbDeviceStickyQueued == Spec => []StickyQueued
BY Invariance, PTL DEF IInv, InStep

-----------------------------------------------------------------------------
(* The receive windows.                                                    *)

\* Wrapping a time before something is added to it changes nothing.
LEMMA WrapSum ==
    ASSUME NEW a \in Int, NEW b \in Int
    PROVE  Wrap(Wrap(a) + b) = Wrap(a + b)
<1> DEFINE q == a \div TsMod
           r == a % TsMod
           q1 == (r + b) \div TsMod
           r1 == (r + b) % TsMod
<1>1. TsMod \in Nat \ {0}
  BY NbDeviceAssumption
<1>2. q \in Int /\ r \in 0 .. TsMod - 1 /\ a = (q * TsMod) + r
  BY <1>1, IntDivMod
<1>3. q1 \in Int /\ r1 \in 0 .. TsMod - 1 /\ r + b = (q1 * TsMod) + r1
  <2>1. r + b \in Int
    BY <1>2
  <2> HIDE DEF r
  <2>2. QED
    BY <1>1, <2>1, IntDivMod
<1>4. Wrap(a) = r /\ Wrap(r + b) = r1
  BY DEF Wrap
<1> HIDE DEF q, r, q1, r1
<1>5. a + b = ((q + q1) * TsMod) + r1
  <2>1. (q + q1) * TsMod = (q * TsMod) + (q1 * TsMod)
    BY <1>1, <1>2, <1>3, SMT
  <2>2. q * TsMod \in Int /\ q1 * TsMod \in Int
    BY <1>1, <1>2, <1>3, SMT
  <2>3. QED
    BY <1>2, <1>3, <2>1, <2>2
<1>6. (((q + q1) * TsMod) + r1) % TsMod = r1
  BY <1>1, <1>2, <1>3, ModOfSum
<1>7. QED
  BY <1>4, <1>5, <1>6 DEF Wrap

\* A short time after another one is told apart from it by their difference.
LEMMA WrapDifference ==
    ASSUME NEW a \in Int, NEW d \in Nat
    PROVE  Wrap(Wrap(a + d) - a) <= d
<1>1. Wrap(Wrap(a + d) + (-a)) = Wrap((a + d) + (-a))
  BY WrapSum
<1>2. Wrap(a + d) \in Int
  BY WrapType, NbDeviceAssumption DEF Ts
<1>3. Wrap(a + d) + (-a) = Wrap(a + d) - a /\ (a + d) + (-a) = d
  BY <1>2
<1>4. Wrap(d) <= d
  <2>1. TsMod \in Nat \ {0}
    BY NbDeviceAssumption
  <2>2. d \div TsMod \in Nat /\ d % TsMod \in 0 .. TsMod - 1
        /\ d = ((d \div TsMod) * TsMod) + (d % TsMod)
    BY <2>1, DivMod
  <2>3. (d \div TsMod) * TsMod \in Nat
    BY <2>1, <2>2, SMT
  <2>4. QED
    BY <2>2, <2>3 DEF Wrap
<1>5. QED
  BY <1>1, <1>3, <1>4

\* Both window properties: each needs the types, and RX2 needs RX1's time.
TimingInv == WindowSchedule /\ Rx1ClosesForRx2

\* Steps that leave the machine, its timer and the delays alone.
LEMMA QuietTiming ==
    ASSUME TimingInv, device' = device, timer' = timer,
           hist'.txEnd = hist.txEnd,
           mac'.configuration.rx1_delay = mac.configuration.rx1_delay
    PROVE  TimingInv'
BY DEF TimingInv, WindowSchedule, Rx1ClosesForRx2, GetRxDelay

\* Steps to a state with no window.
LEMMA NoWindowTiming ==
    ASSUME device'.st \notin {"WaitingForRxWindow", "WaitingForRx"}
    PROVE  TimingInv'
BY DEF TimingInv, WindowSchedule, Rx1ClosesForRx2

\* The end of a transmission at ts schedules RX1.
LEMMA TxEndTiming ==
    ASSUME NEW frame \in {"Join", "Data"}, NEW ts \in TxTimes, mac' \in Mac,
           WaitForRxWindow1(frame, mac', ts), hist'.txEnd = ts
    PROVE  TimingInv'
<1> DEFINE delay == GetRxDelay(mac', frame, 1)
<1>1. delay \in Nat
  BY RxDelayType
<1>2. ts \in Int /\ RxOffset \in Int
  BY NbDeviceAssumption
<1> HIDE DEF delay
<1>3. delay + ts + RxOffset = ts + RxOffset + delay
  BY <1>1, <1>2
<1>4. device' = [st |-> "WaitingForRxWindow", frame |-> frame, win |-> 1,
                 at |-> Wrap(ts + RxOffset + delay)]
      /\ timer' = Wrap(ts + RxOffset + delay)
  BY <1>3 DEF WaitForRxWindow1, delay
<1>5. QED
  BY <1>4 DEF TimingInv, WindowSchedule, Rx1ClosesForRx2, delay

\* Whoever hands the frame to the radio: the transmission is scheduled, or
\* there is no window yet, or nothing happened.
LEMMA TransmitTiming ==
    ASSUME IInv, TimingInv, device.st = "Idle", mac' \in Mac,
           NEW frame \in {"Join", "Data"}, NEW h \in Hist,
           TxAccepted(frame, mac', h) \/ TxRefused
    PROVE  TimingInv'
<1>1. CASE TxRefused
  BY <1>1, NoWindowTiming DEF TxRefused
<1>2. CASE device' = [Idle EXCEPT !.st = "SendingData", !.frame = frame]
  BY <1>2, NoWindowTiming DEF Idle
<1>3. ASSUME NEW ts \in TxTimes, WaitForRxWindow1(frame, mac', ts),
             hist' = [h EXCEPT !.txEnd = ts]
      PROVE  TimingInv'
  <2>1. hist'.txEnd = ts
    BY <1>3 DEF Hist
  <2>2. QED
    BY <1>3, <2>1, TxEndTiming
<1>4. QED
  BY <1>1, <1>2, <1>3 DEF TxAccepted

\* A window opens: it closes in time.
LEMMA OpenWindowTiming == IInv /\ TimingInv /\ OpenWindow => TimingInv'
<1> SUFFICES ASSUME IInv, TimingInv, OpenWindow PROVE TimingInv'
  OBVIOUS
<1>1. TypeOK /\ mac \in Mac /\ device \in Device
  BY DEF IInv, TypeOK
<1>2. device.at \in Int /\ device.frame \in {"Join", "Data"} /\ device.win \in {1, 2}
  BY <1>1, NbDeviceAssumption DEF Device, Ts
<1>3. TimeBetweenWindows(device.frame) = Second /\ Second \in Nat
  BY <1>1, <1>2, RxDelayType, MacSessionAssumption DEF TimeBetweenWindows
<1>4. PICK duration \in RxDurations :
          timer' = Wrap(device.at + OpenFor(device.frame, device.win, duration))
  BY DEF OpenWindow
<1> DEFINE d == OpenFor(device.frame, device.win, duration)
<1>5. d \in Nat /\ (device.win = 1 => d <= Second)
  BY <1>3, NbDeviceAssumption DEF OpenFor
<1> HIDE DEF d
<1>6. timer' = Wrap(device.at + d)
  BY <1>4 DEF d
<1>7. timer' # NoTimer /\ timer' \in Int
  BY <1>2, <1>5, <1>6, WrapType, NbDeviceAssumption DEF NoTimer, Ts
<1>8. Wrap(timer' - device.at) <= d /\ Wrap(timer' - device.at) \in Int
  <2>1. Wrap(Wrap(device.at + d) - device.at) <= d
    BY <1>2, <1>5, WrapDifference
  <2>2. Wrap(timer' - device.at) \in Ts
    BY <1>2, <1>7, WrapType
  <2>3. Wrap(timer' - device.at) <= d
    BY <1>6, <2>1
  <2>4. QED
    BY <2>2, <2>3, NbDeviceAssumption DEF Ts
<1>9. device'.win = device.win /\ device'.at = device.at /\ device'.st = "WaitingForRx"
      /\ device'.frame = device.frame /\ mac' = mac /\ hist' = hist
      /\ device.st = "WaitingForRxWindow"
  BY <1>1 DEF OpenWindow, Device
<1>10. Rx1ClosesForRx2'
  <2>1. device'.win = 1 => Wrap(timer' - device'.at) <= Second
    BY <1>3, <1>5, <1>8, <1>9
  <2>2. QED
    BY <1>7, <2>1 DEF Rx1ClosesForRx2, NoTimer, Wrap
<1>11. WindowSchedule'
  BY <1>9 DEF TimingInv, WindowSchedule
<1>12. QED
  BY <1>10, <1>11 DEF TimingInv

\* RX1 closes: RX2 is one second after RX1, wrap or no wrap.
LEMMA CloseWindow1Timing == IInv /\ TimingInv /\ CloseWindow1 => TimingInv'
<1> SUFFICES ASSUME IInv, TimingInv, CloseWindow1 PROVE TimingInv'
  OBVIOUS
<1>1. TypeOK /\ mac \in Mac /\ device \in Device
  BY DEF IInv, TypeOK
<1>2. device.frame \in {"Join", "Data"} /\ device.win = 1 /\ hist.txEnd \in Int
  BY <1>1, NbDeviceAssumption DEF CloseWindow1, Device, TypeOK, Hist, Ts
<1> DEFINE d1 == GetRxDelay(mac, device.frame, 1)
           d2 == GetRxDelay(mac, device.frame, 2)
           x == hist.txEnd + RxOffset
<1>3. d1 \in Nat /\ d2 \in Nat /\ d2 - d1 = Second /\ x \in Int /\ Second \in Int
  BY <1>1, <1>2, RxDelayType, NbDeviceAssumption, MacSessionAssumption
<1>4. device.at = Wrap(x + d1)
  BY <1>2 DEF TimingInv, WindowSchedule, CloseWindow1
<1>5. Window2At(device) = Wrap(device.at + Second)
  BY <1>3 DEF Window2At, TimeBetweenWindows
<1> HIDE DEF d1, d2, x
<1>6. x + d1 \in Int /\ (x + d1) + Second = x + d2
  BY <1>3
<1>7. Window2At(device) = Wrap(x + d2)
  BY <1>3, <1>4, <1>5, <1>6, WrapSum
<1>8. /\ device'.st = "WaitingForRxWindow" /\ device'.win = 2
      /\ device'.at = Window2At(device) /\ device'.frame = device.frame
      /\ timer' = Window2At(device) /\ mac' = mac /\ hist' = hist
  BY <1>1 DEF CloseWindow1, Device
<1>9. QED
  BY <1>7, <1>8 DEF TimingInv, WindowSchedule, Rx1ClosesForRx2, d2, x

\* A frame the MAC drops does not move the windows.
LEMMA ReceiveTiming ==
    ASSUME IInv, TimingInv, NEW f \in Frames, Receive(f)
    PROVE  TimingInv'
<1> DEFINE r == HandleRx(mac, f)
<1>1. mac \in Mac /\ hist \in Hist /\ f \in Frame
  BY NbDeviceAssumption DEF IInv, TypeOK
<1>2. /\ mac' = r.mac /\ device' = IF r.resp = "NoUpdate" THEN device ELSE Idle
      /\ hist' = Heard(hist, f, r) /\ timer' = timer
  BY DEF Receive
<1>3. r.resp = "NoUpdate" => r.mac.configuration = mac.configuration
  <2> HIDE DEF r
  <2>1. ASSUME r = SessionHandleRx(mac, f, FALSE), r.resp = "NoUpdate"
        PROVE  r.mac.configuration = mac.configuration
    BY <1>1, <2>1, SessionHandleRxEffect
  <2>2. ASSUME r = OtaaHandleRx(mac, f), r.resp = "NoUpdate"
        PROVE  r.mac.configuration = mac.configuration
    BY <2>2 DEF OtaaHandleRx, Reply
  <2>3. \/ r = SessionHandleRx(mac, f, FALSE) \/ r = OtaaHandleRx(mac, f)
        \/ r = Reply(mac, "NoUpdate", FALSE)
    <3>1. mac.state \in {"Unjoined", "Otaa", "Joined"}
      BY <1>1 DEF Mac
    <3>2. CASE mac.state = "Joined"
      BY <3>2 DEF HandleRx, r
    <3>3. CASE mac.state = "Otaa"
      BY <3>3 DEF HandleRx, r
    <3>4. CASE mac.state = "Unjoined"
      BY <3>4 DEF HandleRx, r
    <3>5. QED
      BY <3>1, <3>2, <3>3, <3>4
  <2>4. CASE r = Reply(mac, "NoUpdate", FALSE)
    BY <2>4 DEF Reply
  <2>5. QED
    BY <2>1, <2>2, <2>3, <2>4
<1> HIDE DEF r
<1>4. CASE r.resp = "NoUpdate"
  <2>1. hist'.txEnd = hist.txEnd
    BY <1>1, <1>2, <1>4 DEF Heard, Hist
  <2>2. QED
    BY <1>2, <1>3, <1>4, <2>1, QuietTiming
<1>5. CASE r.resp # "NoUpdate"
  BY <1>2, <1>5, NoWindowTiming DEF Idle
<1>6. QED
  BY <1>4, <1>5

\* Steps that keep the machine, or leave no window behind, apart from Receive.
LEMMA CallTiming ==
    ASSUME IInv, TimingInv, Call
    PROVE  TimingInv'
<1>1. mac \in Mac /\ hist \in Hist
  BY DEF IInv, TypeOK
<1>2. device' = device /\ timer' = timer
  BY DEF Call, JoinAbp, GetSession, SetSession, SetAdrEnabled, SetDatarate, TakeDownlink
<1>3. hist'.txEnd = hist.txEnd
  <2>1. CASE JoinAbp
    BY <1>1, <2>1 DEF JoinAbp, NewSessionHist, InitHist
  <2>2. CASE GetSession
    BY <1>1, <2>2 DEF GetSession, Hist
  <2>3. CASE SetSession
    <3> DEFINE h == IF hist.current THEN hist ELSE NewSessionHist(hist)
    <3>1. h \in Hist /\ h.txEnd = hist.txEnd
      BY <1>1, HistTypes DEF NewSessionHist, InitHist
    <3>2. hist' = [h EXCEPT !.owed = saved.pending \cap Sticky, !.cleared = FALSE,
                            !.asked = saved.adr_ack_cnt]
      BY <2>3 DEF SetSession
    <3> HIDE DEF h
    <3>3. QED
      BY <3>1, <3>2 DEF Hist
  <2>4. CASE SetAdrEnabled \/ SetDatarate \/ TakeDownlink
    BY <2>4 DEF SetAdrEnabled, SetDatarate, TakeDownlink
  <2>5. QED
    BY <2>1, <2>2, <2>3, <2>4 DEF Call
<1>4. mac'.configuration.rx1_delay = mac.configuration.rx1_delay
  <2>1. CASE JoinAbp \/ SetSession
    BY <1>1, <2>1 DEF JoinAbp, SetSession, Install, Mac
  <2>2. CASE SetAdrEnabled
    BY <1>1, <2>2 DEF SetAdrEnabled, SetAdr, Mac, Configuration
  <2>3. CASE SetDatarate
    BY <1>1, <2>3 DEF SetDatarate, Mac, Configuration
  <2>4. CASE GetSession \/ TakeDownlink
    BY <2>4 DEF GetSession, TakeDownlink
  <2>5. QED
    BY <2>1, <2>2, <2>3, <2>4 DEF Call
<1>5. QED
  BY <1>2, <1>3, <1>4, QuietTiming

LEMMA TimingStep == IInv /\ TimingInv /\ [Next]_vars => TimingInv'
<1> SUFFICES ASSUME IInv, TimingInv, [Next]_vars PROVE TimingInv'
  OBVIOUS
<1>1. TypeOK /\ mac \in Mac /\ hist \in Hist /\ device \in Device
  BY DEF IInv, TypeOK
<1>2. TypeOK' /\ mac' \in Mac
  BY StepIInv DEF IInv, TypeOK
<1>3. CASE Join
  <2>1. device.st = "Idle" /\ (TxAccepted("Join", mac', hist) \/ TxRefused)
    BY <1>3 DEF Join
  <2>2. QED
    BY <1>1, <1>2, <2>1, TransmitTiming
<1>4. ASSUME NEW confirmed \in BOOLEAN, Send(confirmed) PROVE TimingInv'
  <2> DEFINE h == Transmitted(hist, BuildUplink(mac, confirmed))
  <2>1. device.st = "Idle" /\ (TxAccepted("Data", mac', h) \/ TxRefused)
    BY <1>4 DEF Send
  <2>2. h \in Hist
    BY <1>1, TransmittedEffect
  <2> HIDE DEF h
  <2>3. QED
    BY <1>2, <2>1, <2>2, TransmitTiming
<1>5. CASE TxComplete
  <2>1. PICK ts \in TxTimes : WaitForRxWindow1(device.frame, mac', ts)
                              /\ hist' = [hist EXCEPT !.txEnd = ts]
    BY <1>5 DEF TxComplete
  <2>2. hist'.txEnd = ts
    BY <1>1, <2>1 DEF Hist
  <2>3. device.frame \in {"Join", "Data"}
    BY <1>1 DEF Device
  <2>4. QED
    BY <1>2, <2>1, <2>2, <2>3, TxEndTiming
<1>6. CASE TxUnexpected \/ CloseWindow2 \/ StaleTimeout \/ Reboot
  <2>1. device'.st \notin {"WaitingForRxWindow", "WaitingForRx"}
    BY <1>6 DEF TxUnexpected, CloseWindow2, StaleTimeout, Reboot, Idle
  <2>2. QED
    BY <2>1, NoWindowTiming
<1>7. CASE OpenWindow
  BY <1>7, OpenWindowTiming
<1>8. CASE CloseWindow1
  BY <1>8, CloseWindow1Timing
<1>9. ASSUME NEW f \in Frames, Receive(f) PROVE TimingInv'
  BY <1>9, ReceiveTiming
<1>10. CASE Call
  BY <1>10, CallTiming
<1>11. CASE UNCHANGED vars
  BY <1>11, QuietTiming DEF vars
<1>12. QED
  BY <1>3, <1>4, <1>5, <1>6, <1>7, <1>8, <1>9, <1>10, <1>11
  DEF Next, Event, TimeoutFired

LEMMA TimingInvariance == Spec => []TimingInv
<1>1. Init => TimingInv
  BY DEF Init, Idle, TimingInv, WindowSchedule, Rx1ClosesForRx2
<1>2. QED
  BY <1>1, Invariance, TimingStep, PTL DEF Spec

\* Both windows open at the delays the MAC holds, counted from the end of the
\* transmission, for every clock width, offset and window duration.
THEOREM NbDeviceWindowSchedule == Spec => []WindowSchedule
BY TimingInvariance, PTL DEF TimingInv

\* RX1 is closed by the time RX2 must open, for every radio.
THEOREM NbDeviceRx1ClosesForRx2 == Spec => []Rx1ClosesForRx2
BY TimingInvariance, PTL DEF TimingInv

-----------------------------------------------------------------------------
(* ADR backoff: the data rates below the current one, and how far the      *)
(* unanswered uplinks have taken it down.                                  *)

LEMMA LowerDRCount ==
    ASSUME NEW dr \in SupportedDR
    PROVE  /\ IsFiniteSet(LowerDR(dr)) /\ Cardinality(LowerDR(dr)) \in Nat
           /\ Cardinality(SupportedDR) \in Nat
           /\ Cardinality(LowerDR(dr)) <= Cardinality(SupportedDR) - 1
           /\ HasLowerDR(dr) <=> Cardinality(LowerDR(dr)) # 0
<1>1. IsFiniteSet(SupportedDR)
  <2>1. 0 \in Int /\ 14 \in Int
    OBVIOUS
  <2>2. IsFiniteSet(0 .. 14)
    BY <2>1, FS_Interval, Zenon
  <2>3. QED
    BY <2>2, FS_Subset, MacSessionAssumption
<1>2. IsFiniteSet(SupportedDR \ {dr})
      /\ Cardinality(SupportedDR \ {dr}) = Cardinality(SupportedDR) - 1
  BY <1>1, FS_RemoveElement
<1>3. LowerDR(dr) \in SUBSET (SupportedDR \ {dr})
  BY MacSessionAssumption DEF LowerDR
<1>4. IsFiniteSet(LowerDR(dr))
      /\ Cardinality(LowerDR(dr)) <= Cardinality(SupportedDR \ {dr})
  BY <1>2, <1>3, FS_Subset
<1>5. Cardinality(LowerDR(dr)) \in Nat /\ Cardinality(SupportedDR) \in Nat
  BY <1>1, <1>4, FS_CardinalityType
<1>6. HasLowerDR(dr) <=> Cardinality(LowerDR(dr)) # 0
  BY <1>4, FS_EmptySet DEF HasLowerDR
<1>7. QED
  BY <1>2, <1>4, <1>5, <1>6

\* A step down takes exactly one data rate away from those below.
LEMMA NextLowerCount ==
    ASSUME NEW dr \in SupportedDR, HasLowerDR(dr)
    PROVE  LET d == NextLowerDatarate(dr)
           IN  /\ LowerDR(d) \subseteq LowerDR(dr)
               /\ Cardinality(LowerDR(d)) = Cardinality(LowerDR(dr)) - 1
<1> DEFINE d == NextLowerDatarate(dr)
<1>1. LowerDR(dr) \in SUBSET (0 .. 14) /\ LowerDR(dr) # {}
  BY MacSessionAssumption DEF HasLowerDR, LowerDR
<1>2. \E x \in LowerDR(dr) : \A y \in LowerDR(dr) : x >= y
  BY <1>1, GreatestDR
<1>3. d \in LowerDR(dr) /\ \A y \in LowerDR(dr) : d >= y
  BY <1>2 DEF NextLowerDatarate, Max
<1> HIDE DEF d
<1>4. LowerDR(d) = LowerDR(dr) \ {d}
  <2>1. d \in 0 .. 14 /\ dr \in 0 .. 14 /\ d < dr
    BY <1>1, <1>3, MacSessionAssumption DEF LowerDR
  <2>2. ASSUME NEW x \in SupportedDR PROVE x < d <=> x < dr /\ x # d
    <3>1. x \in 0 .. 14
      BY MacSessionAssumption
    <3>2. x < dr => x <= d
      BY <1>3 DEF LowerDR
    <3>3. QED
      BY <2>1, <3>1, <3>2
  <2>3. QED
    BY <2>2 DEF LowerDR
<1>5. QED
  BY <1>3, <1>4, LowerDRCount, FS_RemoveElement DEF d

\* A backoff moves the data rate only when it is due, and then by one.
LEMMA BackoffEffect ==
    ASSUME NEW c \in Configuration, NEW cnt \in Nat
    PROVE  LET d == Backoff(c, cnt)
               below == Cardinality(LowerDR(c.data_rate))
           IN  /\ d.adr_enabled = c.adr_enabled /\ d.data_rate \in SupportedDR
               /\ HasLowerDR(d.data_rate) => HasLowerDR(c.data_rate)
               /\ d.data_rate # c.data_rate =>
                    c.adr_enabled /\ BackoffDue(cnt) /\ HasLowerDR(c.data_rate)
               /\ Cardinality(LowerDR(d.data_rate)) =
                    IF c.adr_enabled /\ BackoffDue(cnt) /\ HasLowerDR(c.data_rate)
                    THEN below - 1 ELSE below
<1>1. c.data_rate \in SupportedDR /\ c.adr_enabled \in BOOLEAN
  BY DEF Configuration
<1>2. CASE c.adr_enabled /\ BackoffDue(cnt) /\ HasLowerDR(c.data_rate)
  <2> DEFINE n == NextLowerDatarate(c.data_rate)
  <2>1. n \in SupportedDR /\ Cardinality(LowerDR(n)) = Cardinality(LowerDR(c.data_rate)) - 1
    BY <1>1, <1>2, NextLowerSupported, NextLowerCount
  <2>2. Backoff(c, cnt) = [c EXCEPT !.data_rate = n]
    BY <1>2 DEF Backoff
  <2> HIDE DEF n
  <2>3. Backoff(c, cnt).data_rate = n /\ Backoff(c, cnt).adr_enabled = c.adr_enabled
    BY <2>2 DEF Configuration
  <2>4. QED
    BY <1>2, <2>1, <2>3
<1>3. CASE ~(c.adr_enabled /\ BackoffDue(cnt) /\ HasLowerDR(c.data_rate))
  <2>1. Backoff(c, cnt) = c
    BY <1>3 DEF Backoff
  <2>2. QED
    BY <1>1, <1>3, <2>1
<1>4. QED
  BY <1>2, <1>3

\* The end of an unanswered exchange, as backoff sees it.
CountsUplink(m, n) ==
    LET s == m.session
        t == n.session
        c == m.configuration
    IN  /\ t.fcnt_up = s.fcnt_up + 1
        /\ t.adr_ack_cnt = IF c.adr_enabled THEN s.adr_ack_cnt + 1 ELSE s.adr_ack_cnt
        /\ n.configuration = Backoff(c, t.adr_ack_cnt)

LEMMA Rx2CompleteCounts ==
    ASSUME NEW m \in Mac
    PROVE  LET r == SessionRx2Complete(m)
           IN  /\ r.mac.state = m.state
               /\ FcntUsedUp(m.session) => r.mac = m /\ r.resp = "SessionExpired"
               /\ ~FcntUsedUp(m.session) =>
                    CountsUplink(m, r.mac) /\ r.resp # "SessionExpired"
<1> DEFINE s == m.session
           c == m.configuration
           cnt == IF c.adr_enabled THEN s.adr_ack_cnt + 1 ELSE s.adr_ack_cnt
           r == SessionRx2Complete(m)
<1>1. s \in Session
  BY DEF Mac
<1>2. CASE FcntUsedUp(s)
  BY <1>2 DEF SessionRx2Complete, Reply
<1>3. CASE ~FcntUsedUp(s)
  <2>1. PICK k : k = cnt
    OBVIOUS
  <2>2. PICK d : d = Backoff(c, cnt)
    OBVIOUS
  <2>3. PICK t : t = [s EXCEPT !.fcnt_up = @ + 1, !.adr_ack_cnt = k]
    OBVIOUS
  <2>4. [m EXCEPT !.session.fcnt_up = @ + 1, !.session.adr_ack_cnt = k,
                  !.configuration = d] = [m EXCEPT !.session = t, !.configuration = d]
    BY <2>3 DEF Mac, Session
  <2>5. r = Reply([m EXCEPT !.session = t, !.configuration = d],
                  IF s.confirmed THEN "NoAck" ELSE "RxComplete", FALSE)
    BY <1>3, <2>1, <2>2, <2>4 DEF SessionRx2Complete
  <2> HIDE DEF r
  <2>6. /\ r.mac = [m EXCEPT !.session = t, !.configuration = d]
        /\ r.resp # "SessionExpired"
    BY <2>5 DEF Reply
  <2>7. r.mac.state = m.state /\ r.mac.session = t /\ r.mac.configuration = d
    BY <2>6 DEF Mac
  <2>8. t.fcnt_up = s.fcnt_up + 1 /\ t.adr_ack_cnt = k
    BY <1>1, <2>3 DEF Session
  <2> HIDE DEF cnt
  <2>9. CountsUplink(m, r.mac)
    BY <2>1, <2>2, <2>7, <2>8 DEF CountsUplink, cnt
  <2>10. QED
    BY <1>3, <2>6, <2>7, <2>9 DEF r
<1>4. QED
  BY <1>2, <1>3

\* The ways a step can treat what backoff depends on.  Kept: not at all.
Kept ==
    /\ mac'.state = mac.state
    /\ mac'.session.fcnt_up = mac.session.fcnt_up
    /\ mac'.session.adr_ack_cnt = mac.session.adr_ack_cnt
    /\ mac'.configuration.data_rate = mac.configuration.data_rate
    /\ mac'.configuration.adr_enabled = mac.configuration.adr_enabled
    /\ hist'.asked = hist.asked /\ hist'.current = hist.current
    /\ hist'.expired = hist.expired

\* An exchange of the session in use is over.
ExchangeOver ==
    /\ Joined(mac) /\ Joined(mac')
    /\ device.st # "Idle" /\ device'.st = "Idle"
    /\ hist'.current = hist.current
    /\ hist'.expired = (hist.expired \/ FcntUsedUp(mac.session))

Unanswered ==
    /\ ExchangeOver
    /\ hist'.asked = hist.asked
    /\ FcntUsedUp(mac.session) => mac' = mac
    /\ ~FcntUsedUp(mac.session) => CountsUplink(mac, mac')

Answered ==
    /\ ExchangeOver
    /\ mac'.session.adr_ack_cnt = 0 /\ hist'.asked = 0
    /\ FcntUsedUp(mac.session) => mac'.session.fcnt_up = mac.session.fcnt_up

Renewed == mac'.session = NewSession /\ hist' = NewSessionHist(hist)

\* A window that closes empty ends the exchange unanswered, if it was one.
LEMMA CloseWindow2Outcome ==
    ASSUME TypeOK, CloseWindow2
    PROVE  saved' = saved /\ device'.st = "Idle" /\ (Kept \/ Unanswered)
<1> DEFINE r == Rx2Complete(mac)
<1>1. mac \in Mac /\ hist \in Hist
  BY DEF TypeOK
<1>2. /\ device' = Idle /\ mac' = r.mac /\ saved' = saved /\ device.st = "WaitingForRx"
      /\ hist' = [hist EXCEPT !.expired = @ \/ r.resp = "SessionExpired"]
  BY DEF CloseWindow2
<1>3. device'.st = "Idle" /\ device.st # "Idle"
  BY <1>2 DEF Idle
<1> HIDE DEF r
<1>4. /\ hist'.expired = (hist.expired \/ r.resp = "SessionExpired")
      /\ hist'.current = hist.current /\ hist'.asked = hist.asked
  BY <1>1, <1>2 DEF Hist
<1>5. CASE mac.state = "Joined"
  <2>1. r = SessionRx2Complete(mac)
    BY <1>5 DEF r, Rx2Complete
  <2>2. /\ r.mac.state = mac.state
        /\ FcntUsedUp(mac.session) => r.mac = mac /\ r.resp = "SessionExpired"
        /\ ~FcntUsedUp(mac.session) => CountsUplink(mac, r.mac) /\ r.resp # "SessionExpired"
    BY <1>1, <2>1, Rx2CompleteCounts
  <2>3. hist'.expired = (hist.expired \/ FcntUsedUp(mac.session))
    BY <1>4, <2>2
  <2>4. Unanswered
    BY <1>2, <1>3, <1>4, <1>5, <2>2, <2>3 DEF Unanswered, ExchangeOver, Joined
  <2>5. QED
    BY <1>2, <1>3, <2>4
<1>6. CASE mac.state # "Joined"
  <2>1. mac.state \in {"Otaa", "Unjoined"}
    BY <1>1, <1>6 DEF Mac
  <2>2. r.mac = mac /\ r.resp # "SessionExpired"
    BY <2>1 DEF r, Rx2Complete, Reply
  <2>3. mac' = mac /\ hist'.expired = hist.expired
    BY <1>1, <1>2, <2>2 DEF Hist
  <2>4. QED
    BY <1>2, <1>3, <1>4, <2>3 DEF Kept
<1>7. QED
  BY <1>5, <1>6

\* A frame in a window is dropped, ends the exchange, or begins a session.
LEMMA ReceiveOutcome ==
    ASSUME TypeOK, NEW f \in Frames, Receive(f)
    PROVE  /\ saved' = saved
           /\ \/ Kept /\ device' = device
              \/ Unanswered \/ Answered \/ (Renewed /\ device'.st = "Idle")
<1> DEFINE r == HandleRx(mac, f)
<1>1. mac \in Mac /\ hist \in Hist /\ f \in Frame
  BY NbDeviceAssumption DEF TypeOK
<1>2. /\ mac' = r.mac /\ device' = IF r.resp = "NoUpdate" THEN device ELSE Idle
      /\ hist' = Heard(hist, f, r) /\ saved' = saved /\ device.st = "WaitingForRx"
  BY DEF Receive
<1>3. Idle.st = "Idle"
  BY DEF Idle
<1>4. CASE mac.state = "Joined"
  <2>1. r = SessionHandleRx(mac, f, FALSE)
    BY <1>4 DEF HandleRx
  <2> HIDE DEF r
  <2>2. /\ r.mac.state = mac.state
        /\ r.resp = "NoUpdate" => r.mac.configuration = mac.configuration
        /\ \/ DroppedBy(mac, f, r) /\ (f.kind = "Data" => ~f.oversized)
           \/ f.kind = "Data" /\ f.oversized /\ r = SessionRx2Complete(mac)
           \/ f.kind = "Data" /\ ~f.oversized /\ AcceptedBy(mac, r)
    BY <1>1, <2>1, SessionHandleRxEffect
  <2>3. CASE DroppedBy(mac, f, r) /\ (f.kind = "Data" => ~f.oversized)
    <3>1. r.resp = "NoUpdate" /\ device' = device
          /\ SameButQueue(mac.session, r.mac.session)
      BY <1>2, <2>3 DEF DroppedBy
    <3>2. hist' = IF f.kind # "Data" THEN hist
                  ELSE [hist EXCEPT !.expired = @ \/ FALSE, !.cleared = TRUE]
      <4>1. CASE f.kind # "Data"
        BY <1>2, <3>1, <4>1 DEF Heard
      <4>2. CASE f.kind = "Data"
        BY <1>1, <1>2, <1>4, <2>3, <3>1, <4>2 DEF Heard, Joined, Hist
      <4>3. QED
        BY <4>1, <4>2
    <3>3. hist'.asked = hist.asked /\ hist'.current = hist.current
          /\ hist'.expired = hist.expired
      BY <1>1, <3>2 DEF Hist
    <3>4. Kept
      BY <1>2, <2>2, <3>1, <3>3 DEF Kept, SameButQueue
    <3>5. QED
      BY <1>2, <3>1, <3>4
  <2>4. CASE f.kind = "Data" /\ f.oversized /\ r = SessionRx2Complete(mac)
    <3>1. /\ FcntUsedUp(mac.session) => r.mac = mac /\ r.resp = "SessionExpired"
          /\ ~FcntUsedUp(mac.session) => CountsUplink(mac, r.mac) /\ r.resp # "SessionExpired"
          /\ r.resp # "NoUpdate" /\ r.resp # "JoinSuccess"
      BY <1>1, <2>4, Rx2CompleteCounts, FcntModNat, SessionRx2CompleteEffect
    <3>2. hist' = [hist EXCEPT !.expired = @ \/ r.resp = "SessionExpired",
                               !.cleared = @ \/ ~f.oversized]
      BY <1>2, <1>4, <2>4, <3>1 DEF Heard, Joined
    <3>3. /\ hist'.asked = hist.asked /\ hist'.current = hist.current
          /\ hist'.expired = (hist.expired \/ r.resp = "SessionExpired")
      BY <1>1, <3>2 DEF Hist
    <3>4. hist'.expired = (hist.expired \/ FcntUsedUp(mac.session))
      BY <3>1, <3>3
    <3>5. Unanswered
      BY <1>2, <1>3, <1>4, <2>2, <3>1, <3>3, <3>4 DEF Unanswered, ExchangeOver, Joined
    <3>6. QED
      BY <1>2, <3>5
  <2>5. CASE f.kind = "Data" /\ ~f.oversized /\ AcceptedBy(mac, r)
    <3>1. /\ r.mac.session.adr_ack_cnt = 0
          /\ r.resp # "NoUpdate" /\ r.resp # "JoinSuccess"
          /\ r.resp = "SessionExpired" <=> FcntUsedUp(mac.session)
          /\ FcntUsedUp(mac.session) => r.mac.session.fcnt_up = mac.session.fcnt_up
      BY <1>1, <2>5, FcntModNat DEF AcceptedBy, FcntUsedUp
    <3>2. hist' = [hist EXCEPT !.expired = @ \/ r.resp = "SessionExpired",
                               !.owed = r.mac.session.pending \cap Sticky,
                               !.cleared = FALSE, !.asked = 0]
      BY <1>2, <1>4, <2>5, <3>1 DEF Heard, Joined
    <3>3. /\ hist'.asked = 0 /\ hist'.current = hist.current
          /\ hist'.expired = (hist.expired \/ r.resp = "SessionExpired")
      BY <1>1, <3>2 DEF Hist
    <3>4. hist'.expired = (hist.expired \/ FcntUsedUp(mac.session))
      BY <3>1, <3>3
    <3>5. Answered
      BY <1>2, <1>3, <1>4, <2>2, <3>1, <3>3, <3>4 DEF Answered, ExchangeOver, Joined
    <3>6. QED
      BY <1>2, <3>5
  <2>6. QED
    BY <2>2, <2>3, <2>4, <2>5
<1>5. CASE mac.state # "Joined"
  <2>1. \/ r = OtaaHandleRx(mac, f)
        \/ r = Reply(mac, "NoUpdate", FALSE)
    BY <1>1, <1>5 DEF HandleRx, Mac
  <2> HIDE DEF r
  <2>2. \/ r.resp = "NoUpdate" /\ r.mac = mac
        \/ r.resp = "JoinSuccess" /\ r.mac.session = NewSession
    <3>1. CASE r = OtaaHandleRx(mac, f)
      BY <1>1, <3>1, OtaaHandleRxEffect
    <3>2. CASE r = Reply(mac, "NoUpdate", FALSE)
      BY <3>2 DEF Reply
    <3>3. QED
      BY <2>1, <3>1, <3>2
  <2>3. CASE r.resp = "NoUpdate" /\ r.mac = mac
    <3>1. hist' = hist /\ mac' = mac /\ device' = device
      BY <1>2, <1>5, <2>3 DEF Heard, Joined
    <3>2. QED
      BY <1>2, <3>1 DEF Kept
  <2>4. CASE r.resp = "JoinSuccess" /\ r.mac.session = NewSession
    BY <1>2, <1>3, <2>4 DEF Renewed, Heard
  <2>5. QED
    BY <2>2, <2>3, <2>4
<1>6. QED
  BY <1>4, <1>5

\* The transmission of a data uplink, as backoff sees it.
Asked ==
    /\ device.st = "Idle" /\ device'.st # "Idle" /\ Joined(mac)
    /\ mac'.state = mac.state /\ mac'.configuration = mac.configuration
    /\ mac'.session.fcnt_up = mac.session.fcnt_up
    /\ mac'.session.adr_ack_cnt = mac.session.adr_ack_cnt
    /\ hist'.expired = hist.expired /\ hist'.current = FALSE
    /\ hist'.asked = IF /\ mac.configuration.adr_enabled
                        /\ mac.session.adr_ack_cnt >= AdrAckLimit
                        /\ HasLowerDR(mac.configuration.data_rate)
                        /\ mac.session.fcnt_up # hist.lastUp
                     THEN hist.asked + 1 ELSE hist.asked

LEMMA SendOutcome ==
    ASSUME TypeOK, NEW confirmed \in BOOLEAN, Send(confirmed)
    PROVE  saved' = saved /\ ((Kept /\ device' = device) \/ Asked)
<1> DEFINE m == PrepareBuffer(mac, confirmed)
           up == BuildUplink(mac, confirmed)
           h == Transmitted(hist, up)
<1>1. mac \in Mac /\ hist \in Hist
  BY DEF TypeOK
<1>2. m \in Mac /\ m.state = mac.state /\ SameButQueue(mac.session, m.session)
  BY <1>1, PrepareBufferEffect
<1>3. m.configuration = mac.configuration
  BY <1>1 DEF PrepareBuffer, Mac
<1>4. h \in Hist /\ h.current = FALSE /\ h.expired = hist.expired
  BY <1>1, TransmittedEffect
<1>5. h.asked = IF /\ mac.configuration.adr_enabled
                   /\ mac.session.adr_ack_cnt >= AdrAckLimit
                   /\ HasLowerDR(mac.configuration.data_rate)
                   /\ mac.session.fcnt_up # hist.lastUp
                THEN hist.asked + 1 ELSE hist.asked
  <2>1. PICK req : req = (/\ mac.configuration.adr_enabled
                          /\ mac.session.adr_ack_cnt >= AdrAckLimit
                          /\ HasLowerDR(mac.configuration.data_rate))
    OBVIOUS
  <2>2. up.adr_ack_req = req /\ up.fcnt = mac.session.fcnt_up
    BY <2>1 DEF BuildUplink
  <2> HIDE DEF up
  <2>3. h.asked = IF up.adr_ack_req /\ up.fcnt # hist.lastUp
                  THEN hist.asked + 1 ELSE hist.asked
    BY <1>1 DEF Transmitted, Hist
  <2>4. QED
    BY <2>1, <2>2, <2>3
<1>6. /\ mac' = m /\ (TxAccepted("Data", m, h) \/ TxRefused) /\ saved' = saved
      /\ device.st = "Idle" /\ Joined(mac)
  BY DEF Send
<1> HIDE DEF m, h
<1>7. CASE TxAccepted("Data", m, h)
  <2>1. /\ device'.st # "Idle" /\ \E ts \in Ts : hist' = [h EXCEPT !.txEnd = ts]
    BY <1>2, <1>4, <1>7, TxAcceptedType
  <2>2. hist'.asked = h.asked /\ hist'.current = h.current /\ hist'.expired = h.expired
    BY <1>4, <2>1 DEF Hist
  <2>3. QED
    BY <1>2, <1>3, <1>4, <1>5, <1>6, <2>1, <2>2 DEF Asked, SameButQueue
<1>8. CASE TxRefused
  BY <1>2, <1>3, <1>6, <1>8 DEF TxRefused, Kept, SameButQueue
<1>9. QED
  BY <1>6, <1>7, <1>8

LEMMA SetAdrConfiguration ==
    ASSUME NEW m \in Mac, NEW enabled \in BOOLEAN
    PROVE  LET n == SetAdr(m, enabled)
           IN  /\ n.configuration.adr_enabled = enabled
               /\ n.configuration.data_rate = m.configuration.data_rate
               /\ n.session.adr_ack_cnt = IF enabled THEN m.session.adr_ack_cnt ELSE 0
<1>1. PICK c : c = [m.configuration EXCEPT !.adr_enabled = enabled]
  OBVIOUS
<1>2. PICK t : t = [m.session EXCEPT !.adr_ack_cnt = IF enabled THEN @ ELSE 0]
  OBVIOUS
<1>3. m.session \in Session /\ m.configuration \in Configuration
  BY DEF Mac
<1>4. /\ c.adr_enabled = enabled /\ c.data_rate = m.configuration.data_rate
      /\ t.adr_ack_cnt = IF enabled THEN m.session.adr_ack_cnt ELSE 0
  BY <1>1, <1>2, <1>3 DEF Session, Configuration
<1>5. SetAdr(m, enabled) = [m EXCEPT !.configuration = c, !.session = t]
  BY <1>1, <1>2 DEF SetAdr, Mac
<1>6. SetAdr(m, enabled).configuration = c /\ SetAdr(m, enabled).session = t
  BY <1>5 DEF Mac
<1>7. QED
  BY <1>4, <1>6

\* Every step, sorted by what it does to the count of unanswered uplinks.
SessionLost ==
    /\ ~Joined(mac') /\ mac'.session = NewSession
    /\ hist'.asked = hist.asked /\ hist'.current = hist.current
    /\ hist'.expired = hist.expired

AdrSwitched ==
    /\ \E enabled \in BOOLEAN : mac' = SetAdr(mac, enabled)
    /\ hist' = hist /\ device' = device

SnapshotTaken ==
    /\ Joined(mac) /\ mac' = mac /\ device' = device
    /\ hist'.asked = hist.asked /\ hist'.expired = hist.expired
    /\ hist'.current = (device.st = "Idle")
    /\ saved'.fcnt_up = mac.session.fcnt_up

SnapshotRestored ==
    /\ "session" \in Api
    /\ Joined(mac') /\ mac'.session = saved /\ mac'.configuration = mac.configuration
    /\ device' = device /\ hist'.asked = saved.adr_ack_cnt
    /\ \/ hist'.current = FALSE /\ hist'.expired = FALSE
       \/ hist'.current = TRUE /\ hist.current = TRUE /\ hist'.expired = hist.expired

LEMMA StepOutcome ==
    ASSUME TypeOK, [Next]_vars, "set_datarate" \notin Api
    PROVE  \/ SnapshotTaken
           \/ /\ saved' = saved
              /\ \/ Kept /\ (device'.st # "Idle" => device.st # "Idle")
                 \/ Unanswered \/ Answered \/ Renewed
                 \/ Asked \/ SessionLost \/ AdrSwitched \/ SnapshotRestored
<1>1. mac \in Mac /\ hist \in Hist
  BY DEF TypeOK
<1>2. CASE Join
  <2>1. JoinOtaa(mac).state = "Otaa" /\ JoinOtaa(mac).session = NewSession
        /\ JoinOtaa(mac) \in Mac
    BY <1>1, JoinOtaaEffect
  <2>2. mac' = JoinOtaa(mac) /\ saved' = saved
        /\ (TxAccepted("Join", JoinOtaa(mac), hist) \/ TxRefused)
    BY <1>2 DEF Join
  <2>3. \/ hist' = hist
        \/ \E ts \in Ts : hist' = [hist EXCEPT !.txEnd = ts]
    <3>1. "Join" \in {"Join", "Data"}
      OBVIOUS
    <3>2. QED
      BY <1>1, <2>1, <2>2, <3>1, TxAcceptedType DEF TxRefused
  <2>4. hist'.asked = hist.asked /\ hist'.current = hist.current
        /\ hist'.expired = hist.expired
    BY <1>1, <2>3 DEF Hist
  <2>5. QED
    BY <2>1, <2>2, <2>4 DEF SessionLost, Joined
<1>3. ASSUME NEW confirmed \in BOOLEAN, Send(confirmed)
      PROVE  saved' = saved /\ ((Kept /\ device' = device) \/ Asked)
  BY <1>3, SendOutcome
<1>4. CASE TxComplete \/ TxUnexpected \/ OpenWindow \/ CloseWindow1 \/ StaleTimeout
  <2>1. device.st = "Idle" => device' = device
    BY <1>4 DEF TxComplete, TxUnexpected, OpenWindow, CloseWindow1, StaleTimeout
  <2>2. hist'.asked = hist.asked /\ hist'.current = hist.current
        /\ hist'.expired = hist.expired
    BY <1>1, <1>4
    DEF TxComplete, TxUnexpected, OpenWindow, CloseWindow1, StaleTimeout, Hist
  <2>3. mac' = mac /\ saved' = saved
    BY <1>4 DEF TxComplete, TxUnexpected, OpenWindow, CloseWindow1, StaleTimeout
  <2>4. QED
    BY <2>1, <2>2, <2>3 DEF Kept
<1>5. CASE CloseWindow2
  BY <1>5, CloseWindow2Outcome
<1>6. ASSUME NEW f \in Frames, Receive(f)
      PROVE  saved' = saved /\ ((Kept /\ device' = device) \/ Unanswered \/ Answered \/ Renewed)
  BY <1>6, ReceiveOutcome
<1>7. CASE Call
  <2>1. CASE JoinAbp
    BY <1>1, <2>1, NewSessionFields, InstallEffect DEF JoinAbp, Renewed
  <2>2. CASE GetSession
    BY <1>1, <2>2 DEF GetSession, SnapshotTaken, Hist
  <2>3. CASE SetSession
    <3>1. PICK h : h = IF hist.current THEN hist ELSE NewSessionHist(hist)
      OBVIOUS
    <3>2. /\ h \in Hist
          /\ \/ h.current = FALSE /\ h.expired = FALSE
             \/ h.current = TRUE /\ hist.current = TRUE /\ h.expired = hist.expired
      BY <1>1, <3>1, HistTypes DEF Hist
    <3>3. hist' = [h EXCEPT !.owed = saved.pending \cap Sticky, !.cleared = FALSE,
                            !.asked = saved.adr_ack_cnt]
      BY <2>3, <3>1 DEF SetSession
    <3>4. hist'.current = h.current /\ hist'.expired = h.expired
          /\ hist'.asked = saved.adr_ack_cnt
      BY <3>2, <3>3 DEF Hist
    <3>5. mac' = Install(mac, saved) /\ device' = device /\ saved' = saved
          /\ "session" \in Api
      BY <2>3 DEF SetSession
    <3>6. mac'.state = "Joined" /\ mac'.session = saved
          /\ mac'.configuration = mac.configuration
      BY <1>1, <3>5 DEF Install, Mac
    <3>7. QED
      BY <3>2, <3>4, <3>5, <3>6 DEF SnapshotRestored, Joined
  <2>4. CASE SetAdrEnabled
    BY <2>4 DEF SetAdrEnabled, AdrSwitched
  <2>5. CASE TakeDownlink
    BY <2>5 DEF TakeDownlink, Kept
  <2>6. QED
    BY <1>7, <2>1, <2>2, <2>3, <2>4, <2>5 DEF Call, SetDatarate
<1>8. CASE Reboot
  BY <1>8 DEF Reboot, InitMac, SessionLost, Joined
<1>9. CASE UNCHANGED vars
  BY <1>9 DEF vars, Kept
<1>10. QED
  BY <1>2, <1>3, <1>4, <1>5, <1>6, <1>7, <1>8, <1>9 DEF Next, Event, TimeoutFired

\* AdrBackoffReached is inductive as it is.
LEMMA AdrBackoffReachedStep ==
    ASSUME IInv, AdrBackoffReached, [Next]_vars,
           {"session", "set_datarate"} \cap Api = {}
    PROVE  AdrBackoffReached'
<1>1. mac \in Mac /\ mac' \in Mac /\ TypeOK
  BY StepIInv DEF IInv, TypeOK
<1> DEFINE cnt == mac.session.adr_ack_cnt
           dr == mac.configuration.data_rate
           n == Cardinality(SupportedDR)
<1>2. /\ dr \in SupportedDR /\ cnt \in Nat /\ n \in Nat
      /\ mac.configuration \in Configuration
      /\ AdrAckLimit \in Nat \ {0} /\ AdrAckDelay \in Nat \ {0}
  BY <1>1, LowerDRCount, MacSessionAssumption DEF Mac, Session, Configuration
<1>3. CASE mac'.session.adr_ack_cnt = 0
  <2>1. \A k \in 1 .. n - 1 : ~(0 >= AdrAckLimit + k * AdrAckDelay)
    <3>1. ASSUME NEW k \in 1 .. n - 1 PROVE k * AdrAckDelay \in Nat
      BY <1>2, SMT
    <3>2. QED
      BY <1>2, <3>1
  <2>2. QED
    BY <1>3, <2>1 DEF AdrBackoffReached
<1>4. CASE /\ mac'.session.adr_ack_cnt = cnt
           /\ mac'.configuration.data_rate = dr
  BY <1>4 DEF AdrBackoffReached
<1>5. CASE CountsUplink(mac, mac')
  <2> DEFINE cnt1 == mac'.session.adr_ack_cnt
             below == Cardinality(LowerDR(dr))
             below1 == Cardinality(LowerDR(mac'.configuration.data_rate))
  <2>1. cnt1 \in Nat /\ below \in Nat /\ below <= n - 1
        /\ (HasLowerDR(dr) <=> below # 0)
    BY <1>1, <1>2, LowerDRCount DEF Mac, Session
  <2>2. below1 = IF mac.configuration.adr_enabled /\ BackoffDue(cnt1) /\ HasLowerDR(dr)
                 THEN below - 1 ELSE below
    BY <1>2, <1>5, <2>1, BackoffEffect DEF CountsUplink
  <2>3. cnt1 = cnt \/ (mac.configuration.adr_enabled /\ cnt1 = cnt + 1)
    BY <1>5 DEF CountsUplink
  <2>4. SUFFICES ASSUME NEW k \in 1 .. n - 1, cnt1 >= AdrAckLimit + k * AdrAckDelay
                 PROVE  below1 <= n - 1 - k
    BY DEF AdrBackoffReached
  <2>5. \A j \in 1 .. n - 1 : cnt >= AdrAckLimit + j * AdrAckDelay => below <= n - 1 - j
    BY DEF AdrBackoffReached
  <2> HIDE DEF cnt, cnt1, below, below1, n, dr
  <2>6. below1 <= below
    BY <2>1, <2>2
  <2>7. k * AdrAckDelay \in Nat /\ below1 \in Int
    BY <1>2, <2>1, <2>2, SMT
  <2>8. CASE cnt >= AdrAckLimit + k * AdrAckDelay
    BY <1>2, <2>1, <2>5, <2>6, <2>7, <2>8
  <2>9. CASE cnt < AdrAckLimit + k * AdrAckDelay
    <3>1. mac.configuration.adr_enabled /\ cnt1 = cnt + 1
          /\ cnt1 = AdrAckLimit + k * AdrAckDelay
      BY <1>2, <2>1, <2>3, <2>4, <2>7, <2>9
    <3>2. BackoffDue(cnt1)
      <4>1. (k * AdrAckDelay + 0) % AdrAckDelay = 0
        <5>1. k \in Int /\ 0 \in 0 .. AdrAckDelay - 1
          BY <1>2
        <5>2. QED
          BY <1>2, <5>1, ModOfSum
      <4>2. cnt1 - AdrAckLimit = k * AdrAckDelay + 0
        BY <1>2, <2>7, <3>1
      <4>3. k * AdrAckDelay >= AdrAckDelay
        <5>1. k >= 1 /\ k \in Nat
          BY <1>2
        <5>2. QED
          BY <1>2, <5>1, SMT
      <4>4. cnt1 >= AdrAckLimit + AdrAckDelay
        BY <1>2, <2>7, <3>1, <4>3
      <4>5. QED
        BY <4>1, <4>2, <4>4 DEF BackoffDue
    <3>3. CASE ~HasLowerDR(dr)
      BY <1>2, <2>1, <2>2, <3>3
    <3>4. CASE HasLowerDR(dr)
      <4>1. below1 = below - 1
        BY <2>2, <3>1, <3>2, <3>4
      <4>2. below <= n - k
        <5>1. CASE k = 1
          BY <2>1, <5>1
        <5>2. CASE k # 1
          <6>1. k - 1 \in 1 .. n - 1 /\ n - 1 - (k - 1) = n - k
            BY <1>2, <5>2
          <6>2. (k - 1) * AdrAckDelay = k * AdrAckDelay - AdrAckDelay
            BY <1>2, SMT
          <6>3. cnt >= AdrAckLimit + (k - 1) * AdrAckDelay
            BY <1>2, <2>1, <2>7, <3>1, <6>2
          <6>4. QED
            BY <2>5, <6>1, <6>3
        <5>3. QED
          BY <5>1, <5>2
      <4>3. QED
        BY <1>2, <2>1, <4>1, <4>2
    <3>5. QED
      BY <3>3, <3>4
  <2>10. QED
    BY <1>2, <2>7, <2>8, <2>9 DEF cnt
<1>6. \/ mac'.session.adr_ack_cnt = 0
      \/ mac'.session.adr_ack_cnt = cnt /\ mac'.configuration.data_rate = dr
      \/ CountsUplink(mac, mac')
  <2>1. CASE Kept \/ Asked \/ SnapshotTaken
    BY <2>1 DEF Kept, Asked, SnapshotTaken
  <2>2. CASE Unanswered
    BY <2>2 DEF Unanswered
  <2>3. CASE Answered \/ Renewed \/ SessionLost
    BY <2>3, NewSessionFields DEF Answered, Renewed, SessionLost
  <2>4. CASE AdrSwitched
    <3>1. PICK enabled \in BOOLEAN : mac' = SetAdr(mac, enabled)
      BY <2>4 DEF AdrSwitched
    <3>2. QED
      BY <1>1, <3>1, SetAdrConfiguration
  <2>5. ~SnapshotRestored
    BY DEF SnapshotRestored
  <2>6. "set_datarate" \notin Api
    OBVIOUS
  <2>7. QED
    BY <1>1, <2>1, <2>2, <2>3, <2>4, <2>5, <2>6, StepOutcome
<1>7. QED
  BY <1>3, <1>4, <1>5, <1>6

\* Backoff goes as far as it must, for every region and every limit and delay,
\* in a device whose application neither sets the data rate nor restores a
\* session (a restored count says nothing of the data rate in use).
THEOREM NbDeviceAdrBackoffReached ==
    ASSUME {"session", "set_datarate"} \cap Api = {}
    PROVE  Spec => []AdrBackoffReached
<1>1. Init => AdrBackoffReached
  <2> SUFFICES ASSUME Init, NEW k \in 1 .. Cardinality(SupportedDR) - 1
               PROVE  ~(mac.session.adr_ack_cnt >= AdrAckLimit + k * AdrAckDelay)
    BY DEF AdrBackoffReached
  <2>1. mac.session.adr_ack_cnt = 0
    BY NewSessionFields DEF Init, InitMac
  <2>2. Cardinality(SupportedDR) \in Nat
    BY LowerDRCount, MacSessionAssumption
  <2>3. k * AdrAckDelay \in Nat
    BY <2>2, MacSessionAssumption, SMT
  <2>4. QED
    BY <2>1, <2>3, MacSessionAssumption
<1>2. IInv /\ AdrBackoffReached /\ [Next]_vars => AdrBackoffReached'
  BY AdrBackoffReachedStep
<1>3. QED
  BY <1>1, <1>2, Invariance, PTL DEF Spec

\* The invariant behind AskedBeforeBackoff: asked keeps up with adr_ack_cnt.
\* While ADR is off nothing is asked, so a count that a restored session brings
\* along must have been asked for before; and an uplink whose counter was on the
\* air before asks nothing new, which only a used up session sends.
AskedWhenOff ==
    ~mac.configuration.adr_enabled => mac.session.adr_ack_cnt <= hist.asked

CountedWhenJoined == ~Joined(mac) => mac.session.adr_ack_cnt = 0

ExpiredUsedUp ==
    hist.expired => /\ Joined(mac) => FcntUsedUp(mac.session)
                    /\ hist.current => FcntUsedUp(saved)

SnapshotInFlight ==
    hist.current /\ device.st # "Idle" /\ Joined(mac) =>
        mac.session.fcnt_up = saved.fcnt_up

AskedInStep ==
    /\ mac.session.adr_ack_cnt >= AdrAckLimit
    /\ HasLowerDR(mac.configuration.data_rate)
    => /\ mac.session.adr_ack_cnt - AdrAckLimit <= hist.asked
       /\ device.st # "Idle" /\ ~FcntUsedUp(mac.session) =>
            mac.session.adr_ack_cnt - AdrAckLimit < hist.asked

AskInv ==
    AskedWhenOff /\ CountedWhenJoined /\ ExpiredUsedUp /\ SnapshotInFlight /\ AskedInStep

LEMMA AdrTypes ==
    ASSUME TypeOK
    PROVE  /\ mac.session.adr_ack_cnt \in Nat /\ mac.session.fcnt_up \in Nat
           /\ mac.configuration \in Configuration
           /\ hist.asked \in Nat /\ hist.expired \in BOOLEAN /\ hist.current \in BOOLEAN
           /\ mac.configuration.adr_enabled \in BOOLEAN
           /\ AdrAckLimit \in Nat \ {0} /\ AdrAckDelay \in Nat \ {0}
BY FieldTypes, MacSessionAssumption DEF TypeOK, Mac, Configuration, Hist

\* A count of zero asks for nothing.
LEMMA ZeroAsk ==
    ASSUME TypeOK', mac'.session.adr_ack_cnt = 0, ExpiredUsedUp', SnapshotInFlight'
    PROVE  AskInv'
<1>1. hist'.asked \in Nat /\ AdrAckLimit \in Nat \ {0}
  BY MacSessionAssumption DEF TypeOK, Hist
<1>2. QED
  BY <1>1 DEF AskInv, AskedWhenOff, CountedWhenJoined, AskedInStep

\* An exchange that nobody answered was preceded by a question when it counts.
LEMMA UnansweredAsk ==
    ASSUME TypeOK, TypeOK', AskInv, Unanswered, saved' = saved
    PROVE  /\ AskInv'
           /\ mac.configuration.data_rate # mac'.configuration.data_rate =>
                hist.asked >= AdrAckDelay
<1> USE DEF ExchangeOver
<1>1. CountedWhenJoined' /\ SnapshotInFlight'
  BY DEF Unanswered, CountedWhenJoined, SnapshotInFlight
<1>2. hist.expired \/ FcntUsedUp(mac.session) => FcntUsedUp(mac.session)
  BY DEF Unanswered, AskInv, ExpiredUsedUp
<1>3. hist.current => mac.session.fcnt_up = saved.fcnt_up
  BY DEF Unanswered, AskInv, SnapshotInFlight
<1>4. CASE FcntUsedUp(mac.session)
  <2>1. mac' = mac /\ hist'.asked = hist.asked /\ hist'.current = hist.current
        /\ device'.st = "Idle"
    BY <1>4 DEF Unanswered
  <2>2. ExpiredUsedUp'
    BY <1>3, <1>4, <2>1 DEF ExpiredUsedUp, FcntUsedUp
  <2>3. AskedWhenOff' /\ AskedInStep'
    BY <2>1 DEF AskInv, AskedWhenOff, AskedInStep
  <2>4. QED
    BY <1>1, <2>1, <2>2, <2>3 DEF AskInv
<1>5. CASE ~FcntUsedUp(mac.session)
  <2> DEFINE cnt == mac.session.adr_ack_cnt
             cnt1 == mac'.session.adr_ack_cnt
             c == mac.configuration
             d == mac'.configuration
  <2>1. CountsUplink(mac, mac') /\ hist'.asked = hist.asked /\ device.st # "Idle"
        /\ hist'.expired = (hist.expired \/ FcntUsedUp(mac.session))
        /\ device'.st = "Idle"
    BY <1>5 DEF Unanswered
  <2>2. ExpiredUsedUp'
    BY <1>2, <1>5, <2>1 DEF ExpiredUsedUp
  <2>3. /\ cnt \in Nat /\ cnt1 \in Nat /\ c \in Configuration /\ c.adr_enabled \in BOOLEAN
        /\ hist.asked \in Nat /\ AdrAckLimit \in Nat \ {0} /\ AdrAckDelay \in Nat \ {0}
    BY <2>1, AdrTypes DEF CountsUplink
  <2>4. /\ d.adr_enabled = c.adr_enabled
        /\ HasLowerDR(d.data_rate) => HasLowerDR(c.data_rate)
        /\ d.data_rate # c.data_rate =>
             c.adr_enabled /\ BackoffDue(cnt1) /\ HasLowerDR(c.data_rate)
    <3>1. d = Backoff(c, cnt1)
      BY <2>1 DEF CountsUplink
    <3> HIDE DEF c, d, cnt1
    <3>2. QED
      BY <2>3, <3>1, BackoffEffect
  <2>5. cnt1 = IF c.adr_enabled THEN cnt + 1 ELSE cnt
    BY <2>1 DEF CountsUplink
  <2>6. cnt >= AdrAckLimit /\ HasLowerDR(c.data_rate) => cnt - AdrAckLimit < hist.asked
    BY <1>5, <2>1 DEF AskInv, AskedInStep
  <2>7. ~c.adr_enabled => cnt <= hist.asked
    BY DEF AskInv, AskedWhenOff
  <2> HIDE DEF c, d, cnt, cnt1
  <2>8. ~d.adr_enabled => cnt1 <= hist.asked
    BY <2>3, <2>4, <2>5, <2>7
  <2>9. cnt1 >= AdrAckLimit /\ HasLowerDR(d.data_rate) => cnt1 - AdrAckLimit <= hist.asked
    BY <2>3, <2>4, <2>5, <2>6
  <2>10. d.data_rate # c.data_rate => hist.asked >= AdrAckDelay
    <3>1. SUFFICES ASSUME c.adr_enabled, cnt1 >= AdrAckLimit + AdrAckDelay,
                          HasLowerDR(c.data_rate)
                   PROVE  hist.asked >= AdrAckDelay
      BY <2>4 DEF BackoffDue
    <3>2. QED
      BY <2>3, <2>5, <2>6, <3>1
  <2>11. AskedWhenOff' /\ AskedInStep'
    BY <2>1, <2>8, <2>9 DEF AskedWhenOff, AskedInStep, d, cnt1
  <2>12. QED
    BY <1>1, <2>2, <2>10, <2>11 DEF AskInv, c, d
<1>6. QED
  BY <1>4, <1>5

\* The transmission asks, unless the count does not call for it.
LEMMA AskedAsk ==
    ASSUME IInv, TypeOK', AskInv, Asked, saved' = saved
    PROVE  AskInv'
<1>1. TypeOK
  BY DEF IInv
<1> DEFINE cnt == mac.session.adr_ack_cnt
           c == mac.configuration
<1>2. /\ cnt \in Nat /\ c.adr_enabled \in BOOLEAN /\ hist.asked \in Nat
      /\ mac.session.fcnt_up \in Nat /\ AdrAckLimit \in Nat \ {0}
  BY <1>1, AdrTypes
<1>3. CountedWhenJoined' /\ SnapshotInFlight'
  BY DEF Asked, CountedWhenJoined, SnapshotInFlight, Joined
<1>4. ExpiredUsedUp'
  BY DEF AskInv, Asked, ExpiredUsedUp, Joined, FcntUsedUp
<1>5. mac'.session.adr_ack_cnt = cnt /\ mac'.configuration = c
      /\ hist'.asked >= hist.asked /\ hist'.asked \in Nat
  BY <1>2 DEF Asked
<1>6. AskedWhenOff'
  <2>1. ~c.adr_enabled => cnt <= hist.asked
    BY DEF AskInv, AskedWhenOff
  <2>2. QED
    BY <1>2, <1>5, <2>1 DEF AskedWhenOff
<1>7. ASSUME cnt >= AdrAckLimit, HasLowerDR(c.data_rate)
      PROVE  /\ cnt - AdrAckLimit <= hist'.asked
             /\ ~FcntUsedUp(mac.session) => cnt - AdrAckLimit < hist'.asked
  <2>1. cnt - AdrAckLimit <= hist.asked
    BY <1>7 DEF AskInv, AskedInStep
  <2>2. CASE FcntUsedUp(mac.session)
    BY <1>2, <1>5, <2>1, <2>2
  <2>3. CASE ~FcntUsedUp(mac.session) /\ ~c.adr_enabled
    <3>1. cnt <= hist.asked
      BY <2>3 DEF AskInv, AskedWhenOff
    <3>2. QED
      BY <1>2, <1>5, <3>1
  <2>4. CASE ~FcntUsedUp(mac.session) /\ c.adr_enabled
    <3>1. ~hist.expired /\ device.st = "Idle" /\ Joined(mac)
      BY <2>4 DEF AskInv, ExpiredUsedUp, Asked
    <3>2. hist.lastUp < mac.session.fcnt_up
      BY <3>1 DEF IInv, InStep, UplinkCounterUnused
    <3>3. mac.session.fcnt_up # hist.lastUp
      BY <1>2, <3>2, <1>1, FieldTypes
    <3>4. hist'.asked = hist.asked + 1
      BY <1>7, <2>4, <3>3 DEF Asked
    <3>5. QED
      BY <1>2, <2>1, <3>4
  <2>5. QED
    BY <2>2, <2>3, <2>4
<1>8. AskedInStep'
  <2>1. FcntUsedUp(mac'.session) <=> FcntUsedUp(mac.session)
    BY DEF Asked, FcntUsedUp
  <2>2. QED
    BY <1>5, <1>7, <2>1 DEF AskedInStep
<1>9. QED
  BY <1>3, <1>4, <1>6, <1>8 DEF AskInv

\* set_adr: switched off, the count is gone; on, it was asked for before.
LEMMA SwitchedAsk ==
    ASSUME TypeOK, TypeOK', AskInv, AdrSwitched, saved' = saved
    PROVE  AskInv'
<1>1. PICK enabled \in BOOLEAN : mac' = SetAdr(mac, enabled)
  BY DEF AdrSwitched
<1>2. hist' = hist /\ device' = device /\ mac \in Mac
  BY DEF AdrSwitched, TypeOK
<1>3. /\ mac'.state = mac.state /\ mac'.session.fcnt_up = mac.session.fcnt_up
      /\ mac'.configuration.adr_enabled = enabled
      /\ mac'.configuration.data_rate = mac.configuration.data_rate
      /\ mac'.session.adr_ack_cnt = IF enabled THEN mac.session.adr_ack_cnt ELSE 0
  BY <1>1, <1>2, SetAdrEffect, SetAdrConfiguration
<1>4. ExpiredUsedUp' /\ SnapshotInFlight'
  BY <1>2, <1>3 DEF AskInv, ExpiredUsedUp, SnapshotInFlight, Joined, FcntUsedUp
<1>5. CASE ~enabled
  BY <1>3, <1>4, <1>5, ZeroAsk
<1>6. CASE enabled
  <2>1. AskedWhenOff' /\ CountedWhenJoined'
    BY <1>3, <1>6 DEF AskInv, AskedWhenOff, CountedWhenJoined, Joined
  <2>2. AskedInStep'
    BY <1>2, <1>3, <1>6 DEF AskInv, AskedInStep, FcntUsedUp
  <2>3. QED
    BY <1>4, <2>1, <2>2 DEF AskInv
<1>7. QED
  BY <1>5, <1>6

LEMMA AskStep ==
    ASSUME IInv, AskInv, [Next]_vars, "set_datarate" \notin Api
    PROVE  /\ AskInv'
           /\ /\ mac.session.adr_ack_cnt < mac'.session.adr_ack_cnt
              /\ mac.configuration.data_rate # mac'.configuration.data_rate
              => hist.asked >= AdrAckDelay
<1>1. TypeOK /\ TypeOK'
  BY StepIInv DEF IInv
<1>2. /\ mac.session.adr_ack_cnt \in Nat /\ hist.asked \in Nat
      /\ AdrAckLimit \in Nat \ {0}
  BY <1>1, AdrTypes
<1>3. CASE SnapshotTaken
  <2>1. ExpiredUsedUp'
    BY <1>3 DEF AskInv, SnapshotTaken, ExpiredUsedUp, FcntUsedUp
  <2>2. SnapshotInFlight'
    BY <1>3 DEF SnapshotTaken, SnapshotInFlight
  <2>3. AskedWhenOff' /\ CountedWhenJoined' /\ AskedInStep'
    BY <1>3 DEF AskInv, SnapshotTaken, AskedWhenOff, CountedWhenJoined, AskedInStep
  <2>4. QED
    BY <1>3, <2>1, <2>2, <2>3 DEF AskInv, SnapshotTaken
<1>4. CASE saved' = saved /\ Kept /\ (device'.st # "Idle" => device.st # "Idle")
  <2>1. ExpiredUsedUp' /\ SnapshotInFlight' /\ AskedWhenOff' /\ CountedWhenJoined'
    BY <1>4
    DEF AskInv, Kept, ExpiredUsedUp, SnapshotInFlight, AskedWhenOff, CountedWhenJoined,
        Joined, FcntUsedUp
  <2>2. AskedInStep'
    BY <1>4 DEF AskInv, Kept, AskedInStep, FcntUsedUp
  <2>3. QED
    BY <1>4, <2>1, <2>2 DEF AskInv, Kept
<1>5. CASE saved' = saved /\ Unanswered
  BY <1>1, <1>5, UnansweredAsk
<1>6. CASE saved' = saved /\ Answered
  <2>1. mac'.session.adr_ack_cnt = 0 /\ device'.st = "Idle"
    BY <1>6 DEF Answered, ExchangeOver
  <2>2. FcntUsedUp(mac.session) => FcntUsedUp(mac'.session)
    BY <1>6 DEF Answered, FcntUsedUp
  <2>3. hist.current => mac.session.fcnt_up = saved.fcnt_up
    BY <1>6 DEF AskInv, SnapshotInFlight, Answered, ExchangeOver
  <2>4. ExpiredUsedUp'
    BY <1>6, <2>2, <2>3 DEF AskInv, ExpiredUsedUp, Answered, ExchangeOver, FcntUsedUp
  <2>5. SnapshotInFlight'
    BY <2>1 DEF SnapshotInFlight
  <2>6. QED
    BY <1>1, <1>2, <2>1, <2>4, <2>5, ZeroAsk
<1>7. CASE saved' = saved /\ Renewed
  <2>1. mac'.session.adr_ack_cnt = 0 /\ hist'.current = FALSE /\ hist'.expired = FALSE
    BY <1>1, <1>7, NewSessionFields, HistTypes DEF Renewed, TypeOK
  <2>2. ExpiredUsedUp' /\ SnapshotInFlight'
    BY <2>1 DEF ExpiredUsedUp, SnapshotInFlight
  <2>3. QED
    BY <1>1, <1>2, <2>1, <2>2, ZeroAsk
<1>8. CASE saved' = saved /\ Asked
  <2>1. AskInv'
    BY <1>1, <1>8, AskedAsk
  <2>2. QED
    BY <1>8, <2>1 DEF Asked
<1>9. CASE saved' = saved /\ SessionLost
  <2>1. mac'.session.adr_ack_cnt = 0
    BY <1>9, NewSessionFields DEF SessionLost
  <2>2. ExpiredUsedUp' /\ SnapshotInFlight'
    BY <1>9 DEF AskInv, SessionLost, ExpiredUsedUp, SnapshotInFlight
  <2>3. QED
    BY <1>1, <1>2, <2>1, <2>2, ZeroAsk
<1>10. CASE saved' = saved /\ AdrSwitched
  <2>1. AskInv'
    BY <1>1, <1>10, SwitchedAsk
  <2>2. mac'.configuration.data_rate = mac.configuration.data_rate
    BY <1>1, <1>10, SetAdrConfiguration DEF AdrSwitched, TypeOK
  <2>3. QED
    BY <2>1, <2>2
<1>11. CASE saved' = saved /\ SnapshotRestored
  <2>1. ExpiredUsedUp' /\ SnapshotInFlight'
    BY <1>11 DEF AskInv, SnapshotRestored, ExpiredUsedUp, SnapshotInFlight
  <2>2. mac'.session.adr_ack_cnt = hist'.asked /\ hist'.asked \in Nat
        /\ mac'.configuration = mac.configuration /\ Joined(mac')
    BY <1>1, <1>11 DEF SnapshotRestored, TypeOK, Hist
  <2>3. AskedWhenOff' /\ CountedWhenJoined'
    BY <2>2 DEF AskedWhenOff, CountedWhenJoined
  <2>4. AskedInStep'
    <3>1. hist'.asked - AdrAckLimit < hist'.asked
      BY <1>2, <2>2
    <3>2. hist'.asked - AdrAckLimit <= hist'.asked
      BY <1>2, <2>2
    <3>3. QED
      BY <2>2, <3>1, <3>2 DEF AskedInStep
  <2>5. QED
    BY <2>1, <2>2, <2>3, <2>4 DEF AskInv
<1>12. QED
  BY <1>1, <1>3, <1>4, <1>5, <1>6, <1>7, <1>8, <1>9, <1>10, <1>11, StepOutcome

\* Backoff is never premature, whatever is lost, refused, restored or switched
\* in between, in a device whose application does not set the data rate (raising
\* it from the lowest one makes a backoff possible that nobody could ask about).
THEOREM NbDeviceAskedBeforeBackoff ==
    ASSUME "set_datarate" \notin Api
    PROVE  Spec => AskedBeforeBackoff
<1>1. Init => AskInv
  <2> SUFFICES ASSUME Init PROVE AskInv
    OBVIOUS
  <2>1. mac.session.adr_ack_cnt = 0 /\ ~Joined(mac) /\ hist = InitHist
    BY NewSessionFields DEF Init, InitMac, Joined
  <2>2. hist.asked = 0 /\ hist.expired = FALSE /\ hist.current = FALSE
    BY <2>1 DEF InitHist
  <2>3. QED
    BY <2>1, <2>2, MacSessionAssumption
    DEF AskInv, AskedWhenOff, CountedWhenJoined, ExpiredUsedUp, SnapshotInFlight, AskedInStep
<1>2. IInv /\ AskInv /\ [Next]_vars => AskInv'
  BY AskStep
<1>3. IInv /\ AskInv /\ [Next]_vars =>
        [mac.session.adr_ack_cnt < mac'.session.adr_ack_cnt
         /\ mac.configuration.data_rate # mac'.configuration.data_rate
         => hist.asked >= AdrAckDelay]_vars
  BY AskStep
<1>4. QED
  BY <1>1, <1>2, <1>3, Invariance, PTL DEF Spec, AskedBeforeBackoff

-----------------------------------------------------------------------------
(* NbDevice implements SessionContract: the counters of the session in use *)
(* and of the saved one move only as the contract allows.                  *)

ContractStep == [Contract!Next]_(Contract!vars)

\* One lemma per kind of step of the contract, in terms of the device.
LEMMA MapsToStutter ==
    ASSUME mac'.session.fcnt_up = mac.session.fcnt_up,
           mac'.session.fcnt_down = mac.session.fcnt_down, saved' = saved
    PROVE  ContractStep
BY DEF ContractStep, Contract!vars, Counters

LEMMA MapsToNewSession ==
    ASSUME mac'.session = NewSession, saved' = saved
    PROVE  ContractStep
<1>1. Counters(mac'.session) = Contract!FreshCounters
  BY NewSessionFields DEF Counters, Contract!FreshCounters, NoFcnt, Contract!NoFcnt
<1>2. Contract!NewSession
  BY <1>1 DEF Contract!NewSession, Counters
<1>3. QED
  BY <1>2 DEF ContractStep, Contract!Next

LEMMA MapsToEndExchange ==
    ASSUME mac.session.fcnt_up < FcntMod - 1,
           mac'.session.fcnt_up = mac.session.fcnt_up + 1,
           mac'.session.fcnt_down = mac.session.fcnt_down, saved' = saved
    PROVE  ContractStep
<1>1. Contract!FcntMod = FcntMod
  BY DEF FcntMod, Contract!FcntMod
<1>2. Contract!EndExchange
  BY <1>1 DEF Contract!EndExchange, Counters
<1>3. QED
  BY <1>2 DEF ContractStep, Contract!Next

LEMMA MapsToAccept ==
    ASSUME NEW r, AcceptedBy(mac, r), mac' = r.mac, saved' = saved, FcntMod \in Nat
    PROVE  ContractStep
<1> DEFINE s == mac.session
           t == mac'.session
<1>1. Contract!FcntMod = FcntMod /\ Contract!Fcnt = Fcnt /\ Contract!NoFcnt = NoFcnt
  BY DEF FcntMod, Contract!FcntMod, Fcnt, Contract!Fcnt, NoFcnt, Contract!NoFcnt
<1>2. MovesAhead(s.fcnt_down, t.fcnt_down)
  BY DEF AcceptedBy
<1>3. t.fcnt_down \in Contract!Ahead(s.fcnt_down)
  BY <1>1, <1>2 DEF MovesAhead, Contract!Ahead
<1>4. t.fcnt_up = IF s.fcnt_up < FcntMod - 1 THEN s.fcnt_up + 1 ELSE s.fcnt_up
  BY DEF AcceptedBy
<1>5. Contract!AcceptDownlink
  BY <1>1, <1>3, <1>4 DEF Contract!AcceptDownlink, Counters
<1>6. QED
  BY <1>5 DEF ContractStep, Contract!Next

LEMMA MapsToSave ==
    ASSUME mac' = mac, saved' = mac.session
    PROVE  ContractStep
<1>1. Contract!Save
  BY DEF Contract!Save, Counters
<1>2. QED
  BY <1>1 DEF ContractStep, Contract!Next

LEMMA MapsToRestore ==
    ASSUME mac'.session = saved, saved' = saved
    PROVE  ContractStep
<1>1. Contract!Restore
  BY DEF Contract!Restore, Counters
<1>2. QED
  BY <1>1 DEF ContractStep, Contract!Next

\* A frame in a window.
LEMMA ReceiveMaps ==
    ASSUME TypeOK, NEW f \in Frames, Receive(f)
    PROVE  ContractStep
<1> DEFINE r == HandleRx(mac, f)
<1>1. mac \in Mac /\ f \in Frame
  BY NbDeviceAssumption DEF TypeOK
<1>2. mac' = r.mac /\ saved' = saved
  BY DEF Receive
<1>3. \/ mac.state = "Joined" /\ r = SessionHandleRx(mac, f, FALSE)
      \/ r = OtaaHandleRx(mac, f)
      \/ r = Reply(mac, "NoUpdate", FALSE)
  BY <1>1 DEF HandleRx, Mac
<1> HIDE DEF r
<1>4. CASE r = SessionHandleRx(mac, f, FALSE)
  <2>1. \/ DroppedBy(mac, f, r)
        \/ r = SessionRx2Complete(mac)
        \/ AcceptedBy(mac, r)
    BY <1>1, <1>4, SessionHandleRxEffect
  <2>2. CASE DroppedBy(mac, f, r)
    BY <1>2, <2>2, MapsToStutter DEF DroppedBy, SameButQueue
  <2>3. CASE r = SessionRx2Complete(mac)
    BY <1>1, <1>2, <2>3, FcntModNat, SessionRx2CompleteEffect, MapsToStutter,
       MapsToEndExchange
  <2>4. CASE AcceptedBy(mac, r)
    BY <1>2, <2>4, FcntModNat, MapsToAccept
  <2>5. QED
    BY <2>1, <2>2, <2>3, <2>4
<1>5. CASE r = OtaaHandleRx(mac, f)
  BY <1>1, <1>2, <1>5, OtaaHandleRxEffect, MapsToStutter, MapsToNewSession
<1>6. CASE r = Reply(mac, "NoUpdate", FALSE)
  BY <1>2, <1>6, MapsToStutter DEF Reply
<1>7. QED
  BY <1>3, <1>4, <1>5, <1>6

LEMMA StepMaps == TypeOK /\ [Next]_vars => ContractStep
<1> SUFFICES ASSUME TypeOK, [Next]_vars PROVE ContractStep
  OBVIOUS
<1>1. mac \in Mac /\ saved \in Session
  BY DEF TypeOK
<1>2. CASE Join
  BY <1>1, <1>2, JoinOtaaEffect, MapsToNewSession DEF Join
<1>3. ASSUME NEW confirmed \in BOOLEAN, Send(confirmed) PROVE ContractStep
  <2>1. mac' = PrepareBuffer(mac, confirmed) /\ saved' = saved
    BY <1>3 DEF Send
  <2>2. SameButQueue(mac.session, mac'.session)
    BY <1>1, <2>1, PrepareBufferEffect
  <2>3. QED
    BY <2>1, <2>2, MapsToStutter DEF SameButQueue
<1>4. CASE TxComplete \/ TxUnexpected
  BY <1>4, MapsToStutter DEF TxComplete, TxUnexpected
<1>5. CASE OpenWindow \/ CloseWindow1 \/ StaleTimeout
  BY <1>5, MapsToStutter DEF OpenWindow, CloseWindow1, StaleTimeout
<1>6. CASE CloseWindow2
  <2>1. mac' = Rx2Complete(mac).mac /\ saved' = saved
    BY <1>6 DEF CloseWindow2
  <2>2. CASE mac.state = "Joined"
    <3>1. mac' = SessionRx2Complete(mac).mac
      BY <2>1, <2>2 DEF Rx2Complete
    <3>2. QED
      BY ZenonT(60), <1>1, <2>1, <3>1, FcntModNat, SessionRx2CompleteEffect, MapsToStutter,
         MapsToEndExchange
  <2>3. CASE mac.state # "Joined"
    <3>1. mac' = mac
      BY <1>1, <2>1, <2>3 DEF Rx2Complete, Reply, Mac
    <3>2. QED
      BY <2>1, <3>1, MapsToStutter
  <2>4. QED
    BY <2>2, <2>3
<1>7. ASSUME NEW f \in Frames, Receive(f) PROVE ContractStep
  BY <1>7, ReceiveMaps
<1>8. CASE JoinAbp
  BY <1>1, <1>8, NewSessionFields, InstallEffect, MapsToNewSession DEF JoinAbp
<1>9. CASE GetSession
  BY <1>9, MapsToSave DEF GetSession
<1>10. CASE SetSession
  BY <1>1, <1>10, InstallEffect, MapsToRestore DEF SetSession
<1>11. CASE SetAdrEnabled
  BY <1>1, <1>11, SetAdrEffect, MapsToStutter DEF SetAdrEnabled
<1>12. CASE SetDatarate
  BY <1>1, <1>12, MapsToStutter DEF SetDatarate, Mac
<1>13. CASE TakeDownlink
  BY <1>13, MapsToStutter DEF TakeDownlink
<1>14. CASE Reboot
  <2>1. mac'.session = NewSession
    BY <1>14 DEF Reboot, InitMac
  <2>2. QED
    BY <1>14, <2>1, MapsToNewSession DEF Reboot
<1>15. CASE UNCHANGED vars
  BY <1>15, MapsToStutter DEF vars
<1>16. QED
  BY <1>2, <1>3, <1>4, <1>5, <1>6, <1>7, <1>8, <1>9, <1>10, <1>11, <1>12, <1>13,
     <1>14, <1>15 DEF Next, Event, Call, TimeoutFired

LEMMA InitMaps == Init => Contract!Init
BY NewSessionFields
DEF Init, InitMac, Contract!Init, Contract!FreshCounters, Counters, NoFcnt,
    Contract!NoFcnt

\* The non-blocking device implements the contract on its frame counters.
THEOREM NbDeviceImplementsContract == Spec => ImplementsContract
<1>1. Init => Contract!Init
  BY InitMaps
<1>2. TypeOK /\ [Next]_vars => [Contract!Next]_(Contract!vars)
  BY StepMaps DEF ContractStep
<1>3. QED
  BY <1>1, <1>2, NbDeviceTypeOK, PTL DEF Spec, ImplementsContract, Contract!Spec
=============================================================================
