-------------------------- MODULE MacSessionProofs --------------------------
(* What the methods of the MAC preserve and change, for every region, every *)
(* counter width and every frame: the lemmas the device proofs rest on.     *)
EXTENDS MacSession, FrameCounterProofs

\* A nonempty set of data rates has a greatest element (by descending through
\* the fifteen values, since induction is out of reach).
LEMMA GreatestDR ==
    ASSUME NEW S \in SUBSET (0 .. 14), S # {}
    PROVE  \E x \in S : \A y \in S : x >= y
<1> DEFINE Top(k) == (\A y \in S : y <= k) => \E x \in S : \A y \in S : x >= y
<1>0. Top(0)
  <2> SUFFICES ASSUME \A y \in S : y <= 0
               PROVE  \E x \in S : \A y \in S : x >= y
    OBVIOUS
  <2>1. PICK x \in S : TRUE
    OBVIOUS
  <2>2. \A y \in S : y = 0
    OBVIOUS
  <2>3. QED
    BY <2>1, <2>2
<1>1. ASSUME NEW k \in 0 .. 13, Top(k) PROVE Top(k + 1)
  <2> SUFFICES ASSUME \A y \in S : y <= k + 1
               PROVE  \E x \in S : \A y \in S : x >= y
    OBVIOUS
  <2>1. CASE k + 1 \in S
    BY <2>1
  <2>2. CASE k + 1 \notin S
    <3>1. \A y \in S : y <= k
      BY <2>2
    <3>2. QED
      BY <3>1, <1>1
  <2>3. QED
    BY <2>1, <2>2
<1> HIDE DEF Top
<1>2. Top(1) /\ Top(2) /\ Top(3) /\ Top(4) /\ Top(5)
  BY <1>0, <1>1
<1>3. Top(6) /\ Top(7) /\ Top(8) /\ Top(9) /\ Top(10)
  BY <1>2, <1>1
<1>4. Top(11) /\ Top(12) /\ Top(13) /\ Top(14)
  BY <1>3, <1>1
<1>5. QED
  BY <1>4 DEF Top

\* next_lower_datarate returns a supported data rate below the current one.
LEMMA NextLowerSupported ==
    ASSUME NEW dr \in SupportedDR, HasLowerDR(dr)
    PROVE  NextLowerDatarate(dr) \in SupportedDR /\ NextLowerDatarate(dr) < dr
<1>1. LowerDR(dr) \in SUBSET (0 .. 14) /\ LowerDR(dr) # {}
  BY MacSessionAssumption DEF HasLowerDR, LowerDR
<1>2. \E x \in LowerDR(dr) : \A y \in LowerDR(dr) : x >= y
  BY <1>1, GreatestDR
<1>3. Max(LowerDR(dr)) \in LowerDR(dr)
  BY <1>2 DEF Max
<1>4. QED
  BY <1>3 DEF NextLowerDatarate, LowerDR

LEMMA BackoffType ==
    ASSUME NEW c \in Configuration, NEW cnt \in Nat
    PROVE  /\ Backoff(c, cnt) \in Configuration
           /\ Backoff(c, cnt).rx1_delay = c.rx1_delay
BY NextLowerSupported DEF Backoff, Configuration

LEMMA InitTypes ==
    NewSession \in Session /\ InitMac \in Mac
<1>1. 0 \in Fcnt
  BY FrameCounterAssumption, SMT DEF Fcnt, FcntMod
<1>2. NewSession \in Session
  BY <1>1 DEF NewSession, Session, FcntOption
<1>3. Second \in RxDelays
  BY DEF RxDelays, DelToDelayMs
<1>4. InitConfiguration \in Configuration
  BY <1>3, MacSessionAssumption DEF InitConfiguration, Configuration
<1>5. QED
  BY <1>2, <1>4 DEF InitMac, Mac

\* The delays of the windows: RX2 opens one second after RX1.
LEMMA RxDelayType ==
    ASSUME NEW m \in Mac, NEW frame \in {"Join", "Data"}, NEW win \in {1, 2}
    PROVE  /\ GetRxDelay(m, frame, win) \in Nat /\ GetRxDelay(m, frame, win) >= Second
           /\ GetRxDelay(m, frame, 2) - GetRxDelay(m, frame, 1) = Second
<1>1. \A d \in RxDelays : d \in Nat /\ d >= Second
  BY MacSessionAssumption DEF RxDelays, DelToDelayMs
<1>2. m.configuration.rx1_delay \in Nat /\ m.configuration.rx1_delay >= Second
  BY <1>1 DEF Mac, Configuration
<1>3. QED
  BY <1>2, MacSessionAssumption DEF GetRxDelay

LEMMA FcntModNat == FcntMod \in Nat
BY FrameCounterAssumption, SMT DEF FcntMod

LEMMA NewSessionFields ==
    /\ NewSession \in Session
    /\ NewSession.fcnt_up = 0 /\ NewSession.adr_ack_cnt = 0
    /\ NewSession.pending = {} /\ NewSession.fcnt_down = NoFcnt
BY InitTypes DEF NewSession

-----------------------------------------------------------------------------
(* rx2_complete                                                            *)

\* What SessionRx2Complete leaves alone and what it counts.
LEMMA SessionRx2CompleteEffect ==
    ASSUME NEW mac \in Mac, FcntMod \in Nat
    PROVE  LET r == SessionRx2Complete(mac)
               s == mac.session
               t == r.mac.session
           IN  /\ r.mac \in Mac
               /\ r.mac.state = mac.state
               /\ t.fcnt_down = s.fcnt_down /\ t.pending = s.pending
               /\ r.data = FALSE
               /\ r.resp # "NoUpdate" /\ r.resp # "JoinSuccess"
               /\ r.resp \in {"SessionExpired", "NoAck", "RxComplete"}
               /\ r.mac.configuration.rx1_delay = mac.configuration.rx1_delay
               /\ \/ r.resp = "SessionExpired" /\ r.mac = mac
                  \/ /\ s.fcnt_up < FcntMod - 1
                     /\ t.fcnt_up = s.fcnt_up + 1
                     /\ t.adr_ack_cnt <= s.adr_ack_cnt + 1
<1> DEFINE s == mac.session
           c == mac.configuration
           cnt == IF c.adr_enabled THEN s.adr_ack_cnt + 1 ELSE s.adr_ack_cnt
<1>1. s \in Session /\ c \in Configuration
  BY DEF Mac
<1>2. cnt \in Nat /\ cnt <= s.adr_ack_cnt + 1
  BY <1>1 DEF Session, Configuration
<1>3. Backoff(c, cnt) \in Configuration /\ Backoff(c, cnt).rx1_delay = c.rx1_delay
  BY <1>1, <1>2, BackoffType
<1>4. CASE FcntUsedUp(s)
  BY <1>4 DEF SessionRx2Complete, Reply
<1>5. CASE ~FcntUsedUp(s)
  <2> DEFINE t == [s EXCEPT !.fcnt_up = @ + 1, !.adr_ack_cnt = cnt]
             m == [mac EXCEPT !.session = t, !.configuration = Backoff(c, cnt)]
  <2>1. s.fcnt_up < FcntMod - 1 /\ s.fcnt_up + 1 \in Fcnt
    BY <1>1, <1>5 DEF FcntUsedUp, Session, Fcnt
  <2>2. t \in Session
    BY <1>1, <1>2, <2>1 DEF Session
  <2>3. m \in Mac
    BY <1>3, <2>2 DEF Mac
  <2>4. [mac EXCEPT !.session.fcnt_up = @ + 1,
                    !.session.adr_ack_cnt = cnt,
                    !.configuration = Backoff(c, cnt)] = m
    BY DEF Mac, Session
  <2>5. SessionRx2Complete(mac) =
            Reply(m, IF s.confirmed THEN "NoAck" ELSE "RxComplete", FALSE)
    BY <1>5, <2>4 DEF SessionRx2Complete
  <2>6. /\ m.state = mac.state /\ m.session = t
        /\ t.fcnt_down = s.fcnt_down /\ t.pending = s.pending
        /\ t.fcnt_up = s.fcnt_up + 1 /\ t.adr_ack_cnt = cnt
        /\ m.configuration.rx1_delay = c.rx1_delay
    BY <1>1, <1>3 DEF Mac, Session
  <2> HIDE DEF m, t, cnt
  <2>7. QED
    BY <1>2, <2>1, <2>3, <2>5, <2>6 DEF Reply
<1>6. QED
  BY <1>4, <1>5

-----------------------------------------------------------------------------
(* handle_rx                                                               *)

\* t is s with another queue of answers.
SameButQueue(s, t) ==
    /\ t.fcnt_up = s.fcnt_up /\ t.fcnt_down = s.fcnt_down
    /\ t.adr_ack_cnt = s.adr_ack_cnt

LEMMA AddMacCommandEffect ==
    ASSUME NEW s \in Session, NEW ans \in Answer
    PROVE  AddMacCommand(s, ans) \in Session /\ SameButQueue(s, AddMacCommand(s, ans))
BY DEF AddMacCommand, Session, SameButQueue

LEMMA ClearMacCommandsEffect ==
    ASSUME NEW s \in Session, NEW retain \in BOOLEAN
    PROVE  LET t == ClearMacCommands(s, retain)
           IN  /\ t \in Session /\ SameButQueue(s, t)
               /\ retain => s.pending \cap Sticky \subseteq t.pending
BY DEF ClearMacCommands, Session, SameButQueue

\* A MAC command changes the queue of answers and the configuration only.
LEMMA HandleMacCommandEffect ==
    ASSUME NEW mac \in Mac, NEW m \in MacCommand
    PROVE  LET n == HandleMacCommand(mac, m)
           IN  n \in Mac /\ n.state = mac.state /\ SameButQueue(mac.session, n.session)
<1> DEFINE n == HandleMacCommand(mac, m)
           Queued(ans) == [mac EXCEPT !.session = AddMacCommand(@, ans)]
<1>1. mac.session \in Session /\ mac.configuration \in Configuration
  BY DEF Mac
<1>2. ASSUME NEW ans \in Answer
      PROVE  /\ Queued(ans) \in Mac /\ Queued(ans).state = mac.state
             /\ SameButQueue(mac.session, Queued(ans).session)
  BY <1>1, AddMacCommandEffect DEF Mac
<1>3. SameButQueue(mac.session, mac.session)
  BY DEF SameButQueue
<1>4. CASE m.cmd = "RXTimingSetupReq"
  <2>1. m.del \in 0 .. 15
    BY <1>4 DEF MacCommand, NoCmd
  <2>2. DelToDelayMs(m.del) \in RxDelays
    BY <2>1 DEF RxDelays
  <2> DEFINE c == [mac.configuration EXCEPT !.rx1_delay = DelToDelayMs(m.del)]
  <2>c. c \in Configuration
    BY <1>1, <2>2 DEF Configuration
  <2>3. n = [mac EXCEPT !.session = AddMacCommand(mac.session, "RXTimingSetupAns"),
                        !.configuration = c]
    BY <1>4 DEF HandleMacCommand, Mac
  <2>4. AddMacCommand(mac.session, "RXTimingSetupAns") \in Session
        /\ SameButQueue(mac.session, AddMacCommand(mac.session, "RXTimingSetupAns"))
    BY <1>1, AddMacCommandEffect DEF Answer, Sticky
  <2> DEFINE q == AddMacCommand(mac.session, "RXTimingSetupAns")
  <2> HIDE DEF c, q
  <2>5. QED
    BY <2>c, <2>3, <2>4 DEF q, Mac
<1>5. CASE m.cmd = "LinkADRReq"
  <2> DEFINE dr == IF m.valid /\ m.dr \in SupportedDR THEN m.dr
                   ELSE mac.configuration.data_rate
  <2>1. dr \in SupportedDR
    BY <1>1 DEF Configuration
  <2> DEFINE c == [mac.configuration EXCEPT !.data_rate = dr]
  <2>c. c \in Configuration
    BY <1>1, <2>1 DEF Configuration
  <2>2. n = [mac EXCEPT !.session = AddMacCommand(mac.session, "LinkADRAns"),
                        !.configuration = c]
    BY <1>5 DEF HandleMacCommand, Mac
  <2>3. AddMacCommand(mac.session, "LinkADRAns") \in Session
        /\ SameButQueue(mac.session, AddMacCommand(mac.session, "LinkADRAns"))
    BY <1>1, AddMacCommandEffect DEF Answer, Sticky
  <2> DEFINE q == AddMacCommand(mac.session, "LinkADRAns")
  <2> HIDE DEF c, q
  <2>4. QED
    BY <2>c, <2>2, <2>3 DEF q, Mac
<1>6. CASE m.cmd \notin {"RXTimingSetupReq", "LinkADRReq"}
  <2>1. n = mac \/ \E ans \in Answer : n = Queued(ans)
    BY <1>6 DEF HandleMacCommand, Answer, Sticky
  <2> HIDE DEF n, Queued
  <2>2. QED
    BY <1>2, <1>3, <2>1 DEF n
<1>7. QED
  BY <1>4, <1>5, <1>6

\* Accepting a frame stores its counter, clears the ADR count and moves fcnt_up
\* on unless it is used up; in the RXC window it does nothing else.
AcceptOutcome(mac, fcnt, ignore_mac, r) ==
    LET s == mac.session
        t == r.mac.session
    IN  /\ r.mac \in Mac /\ r.mac.state = mac.state /\ r.data \in BOOLEAN
        /\ t.fcnt_down = fcnt /\ t.adr_ack_cnt = 0
        /\ ignore_mac => /\ t.pending = s.pending
                         /\ r.mac.configuration = mac.configuration
        /\ \/ /\ r.resp = "SessionExpired"
              /\ s.fcnt_up = FcntMod - 1 /\ t.fcnt_up = s.fcnt_up
           \/ /\ r.resp = "DownlinkReceived"
              /\ s.fcnt_up < FcntMod - 1 /\ t.fcnt_up = s.fcnt_up + 1

LEMMA AcceptEffect ==
    ASSUME NEW mac \in Mac, NEW f \in DataFrame, NEW fcnt \in Fcnt,
           NEW ignore_mac \in BOOLEAN, FcntMod \in Nat
    PROVE  AcceptOutcome(mac, fcnt, ignore_mac, Accept(mac, f, fcnt, ignore_mac))
<1> DEFINE r == Accept(mac, f, fcnt, ignore_mac)
           s1 == [mac.session EXCEPT !.fcnt_down = fcnt, !.adr_ack_cnt = 0]
           m1 == [mac EXCEPT !.session.fcnt_down = fcnt, !.session.adr_ack_cnt = 0]
           m2 == IF ignore_mac THEN m1 ELSE HandleDownlinkMacs(m1, f)
           m3 == [m2 EXCEPT !.session.ack = @ \/ f.confirmed]
           m4 == [m3 EXCEPT !.session.fcnt_up = @ + 1]
<1>1. mac.session \in Session
  BY DEF Mac
<1>2. s1 \in Session /\ s1.fcnt_up = mac.session.fcnt_up
      /\ s1.fcnt_down = fcnt /\ s1.adr_ack_cnt = 0
      /\ s1.pending = mac.session.pending
  BY <1>1 DEF Session, FcntOption
<1>9. r = IF FcntUsedUp(m3.session) THEN Reply(m3, "SessionExpired", FALSE)
        ELSE Reply(m4, "DownlinkReceived", f.data)
  BY DEF Accept
<1>3. m1 \in Mac /\ m1.state = mac.state /\ m1.session = s1
      /\ m1.configuration = mac.configuration
  <2>1. m1 = [mac EXCEPT !.session = s1]
    BY DEF Mac
  <2>2. QED
    BY <1>2, <2>1 DEF Mac
<1>5. f.fopts \in MacCommand /\ f.frm \in MacCommand /\ f.confirmed \in BOOLEAN
      /\ f.data \in BOOLEAN
  BY DEF DataFrame
<1> HIDE DEF m1, s1
<1>4. ignore_mac => m2 = m1
  OBVIOUS
<1>6. m2 \in Mac /\ m2.state = mac.state /\ SameButQueue(s1, m2.session)
  <2> DEFINE n == HandleMacCommand(m1, f.fopts)
  <2>1. n \in Mac /\ n.state = mac.state /\ SameButQueue(s1, n.session)
    BY <1>3, <1>5, HandleMacCommandEffect
  <2> HIDE DEF n
  <2>2. HandleMacCommand(n, f.frm) \in Mac
        /\ HandleMacCommand(n, f.frm).state = mac.state
        /\ SameButQueue(n.session, HandleMacCommand(n, f.frm).session)
    BY <1>5, <2>1, HandleMacCommandEffect
  <2>3. HandleDownlinkMacs(m1, f) = HandleMacCommand(n, f.frm)
    BY DEF HandleDownlinkMacs, n
  <2>4. QED
    BY <1>3, <2>1, <2>2, <2>3 DEF SameButQueue
<1> HIDE DEF m2
<1>7. m2.session \in Session
  BY <1>6 DEF Mac
<1>8. m3 \in Mac /\ m3.state = mac.state /\ SameButQueue(s1, m3.session)
      /\ m3.session \in Session /\ m3.session.pending = m2.session.pending
      /\ m3.configuration = m2.configuration
  <2> DEFINE s3 == [m2.session EXCEPT !.ack = @ \/ f.confirmed]
  <2>1. s3 \in Session /\ SameButQueue(s1, s3) /\ s3.pending = m2.session.pending
    BY <1>5, <1>6, <1>7 DEF Session, SameButQueue
  <2>2. m3 = [m2 EXCEPT !.session = s3]
    BY <1>6 DEF Mac
  <2> HIDE DEF s3
  <2>3. QED
    BY <1>6, <2>1, <2>2 DEF Mac
<1> HIDE DEF m3
<1>10. /\ m3.session.fcnt_up = mac.session.fcnt_up /\ m3.session.fcnt_down = fcnt
       /\ m3.session.adr_ack_cnt = 0
       /\ ignore_mac => /\ m3.session.pending = mac.session.pending
                        /\ m3.configuration = mac.configuration
  BY <1>2, <1>3, <1>4, <1>8 DEF SameButQueue
<1>11. CASE FcntUsedUp(m3.session)
  <2> HIDE DEF r
  <2>1. QED
    BY <1>8, <1>9, <1>10, <1>11 DEF FcntUsedUp, Reply, AcceptOutcome, r
<1>12. CASE ~FcntUsedUp(m3.session)
  <2> DEFINE s4 == [m3.session EXCEPT !.fcnt_up = @ + 1]
  <2>1. m3.session.fcnt_up < FcntMod - 1 /\ m3.session.fcnt_up + 1 \in Fcnt
    BY <1>8, <1>12 DEF FcntUsedUp, Session, Fcnt
  <2>2. s4 \in Session /\ s4.fcnt_up = mac.session.fcnt_up + 1
        /\ s4.fcnt_down = fcnt /\ s4.adr_ack_cnt = 0
        /\ s4.pending = m3.session.pending
    BY <1>8, <1>10, <2>1 DEF Session
  <2>3. m4 = [m3 EXCEPT !.session = s4]
    BY <1>8 DEF Mac
  <2> HIDE DEF s4
  <2>4. m4 \in Mac /\ m4.state = mac.state /\ m4.session = s4
        /\ m4.configuration = m3.configuration
    BY <1>8, <2>2, <2>3 DEF Mac
  <2> HIDE DEF m4, r
  <2>5. r.mac = m4 /\ r.resp = "DownlinkReceived" /\ r.data = f.data
    BY <1>9, <1>12 DEF Reply
  <2>6. QED
    BY <1>5, <1>10, <2>1, <2>2, <2>4, <2>5 DEF AcceptOutcome, r
<1>13. QED
  BY <1>11, <1>12

\* The counter a downlink may move the last accepted one to.
MovesAhead(down, fcnt) ==
    /\ fcnt \in Fcnt
    /\ down = NoFcnt => fcnt \in 0 .. WireMod - 1
    /\ down # NoFcnt => fcnt \in down + 1 .. down + MaxFcntGap

\* A frame of this session was accepted.
AcceptedBy(mac, r) ==
    LET s == mac.session
        t == r.mac.session
    IN  /\ MovesAhead(s.fcnt_down, t.fcnt_down) /\ t.adr_ack_cnt = 0
        /\ \/ /\ r.resp = "SessionExpired"
              /\ s.fcnt_up = FcntMod - 1 /\ t.fcnt_up = s.fcnt_up
           \/ /\ r.resp = "DownlinkReceived"
              /\ s.fcnt_up < FcntMod - 1 /\ t.fcnt_up = s.fcnt_up + 1

\* A data frame was dropped, or something else was heard.
DroppedBy(mac, f, r) ==
    /\ r.resp = "NoUpdate"
    /\ SameButQueue(mac.session, r.mac.session)
    /\ f.kind # "Data" => r.mac = mac

\* What the session makes of a frame: one of three outcomes.  In the RXC window
\* (ignore_mac) neither the queue of answers nor the windows move.
LEMMA SessionHandleRxEffect ==
    ASSUME NEW mac \in Mac, NEW f \in Frame, NEW ignore_mac \in BOOLEAN
    PROVE  LET r == SessionHandleRx(mac, f, ignore_mac)
           IN  /\ r.mac \in Mac /\ r.mac.state = mac.state /\ r.data \in BOOLEAN
               /\ r.resp = "NoUpdate" => r.mac.configuration = mac.configuration
               /\ ignore_mac =>
                    /\ r.mac.session.pending = mac.session.pending
                    /\ r.mac.configuration.rx1_delay = mac.configuration.rx1_delay
               /\ \/ DroppedBy(mac, f, r) /\ (f.kind = "Data" => ~f.oversized)
                  \/ f.kind = "Data" /\ f.oversized /\ r = SessionRx2Complete(mac)
                  \/ f.kind = "Data" /\ ~f.oversized /\ AcceptedBy(mac, r)
<1> DEFINE r == SessionHandleRx(mac, f, ignore_mac)
           m == IF ignore_mac THEN mac
                ELSE [mac EXCEPT !.session = ClearMacCommands(@, FALSE)]
           fcnt == NextFcntDown(mac.session.fcnt_down, f.fcnt % WireMod)
<1>0. FcntMod \in Nat
  BY FrameCounterAssumption, SMT DEF FcntMod
<1>1. mac.session \in Session
  BY DEF Mac
<1>2. CASE f.kind # "Data"
  BY <1>2 DEF SessionHandleRx, Reply, DroppedBy, SameButQueue
<1>3. CASE f.kind = "Data" /\ f.oversized
  <2>1. r = SessionRx2Complete(mac)
    BY <1>3 DEF SessionHandleRx
  <2>2. QED
    BY <1>0, <1>3, <2>1, SessionRx2CompleteEffect
<1>4. CASE f.kind = "Data" /\ ~f.oversized
  <2>1. f \in DataFrame
    BY <1>4 DEF Frame, JoinAccept, Noise
  <2>2. m \in Mac /\ m.state = mac.state /\ SameButQueue(mac.session, m.session)
        /\ m.configuration = mac.configuration /\ (ignore_mac => m = mac)
    <3> DEFINE q == ClearMacCommands(mac.session, FALSE)
    <3>1. q \in Session /\ SameButQueue(mac.session, q)
      BY <1>1, ClearMacCommandsEffect
    <3> HIDE DEF q
    <3>2. QED
      BY <3>1 DEF q, Mac, SameButQueue
  <2>3. r = IF fcnt # NoFcnt /\ f.genuine /\ f.fcnt = fcnt
            THEN Accept(m, f, fcnt, ignore_mac) ELSE Reply(m, "NoUpdate", FALSE)
    BY <1>4 DEF SessionHandleRx
  <2> HIDE DEF m, r, fcnt
  <2>4. CASE ~(fcnt # NoFcnt /\ f.genuine /\ f.fcnt = fcnt)
    <3>1. r = Reply(m, "NoUpdate", FALSE)
      BY <2>3, <2>4
    <3>2. r.mac = m /\ r.resp = "NoUpdate" /\ r.data = FALSE
      BY <3>1 DEF Reply
    <3>3. DroppedBy(mac, f, r)
      BY <1>4, <2>2, <3>2 DEF DroppedBy
    <3>4. QED
      BY <1>4, <2>2, <3>2, <3>3 DEF r
  <2>5. CASE fcnt # NoFcnt /\ f.genuine /\ f.fcnt = fcnt
    <3>1. f.fcnt \in Fcnt
      BY <2>1 DEF DataFrame
    <3>2. f.fcnt % WireMod \in 0 .. WireMod - 1
      BY <3>1, Halves
    <3>3. mac.session.fcnt_down = NoFcnt \/ mac.session.fcnt_down \in Fcnt
      BY <1>1 DEF Session, FcntOption
    <3>4. MovesAhead(mac.session.fcnt_down, fcnt)
      <4>1. CASE mac.session.fcnt_down = NoFcnt
        <5>1. fcnt = f.fcnt % WireMod
          BY <4>1 DEF fcnt, NextFcntDown
        <5>2. QED
          BY <2>5, <3>1, <3>2, <4>1, <5>1 DEF MovesAhead
      <4>2. CASE mac.session.fcnt_down \in Fcnt /\ mac.session.fcnt_down # NoFcnt
        <5>1. fcnt \in mac.session.fcnt_down + 1
                        .. mac.session.fcnt_down + MaxFcntGap
          BY <2>5, <3>2, <4>2, NextFcntDownSound DEF fcnt
        <5>2. QED
          BY <2>5, <3>1, <4>2, <5>1 DEF MovesAhead
      <4>3. QED
        BY <3>3, <4>1, <4>2
    <3>5. r = Accept(m, f, fcnt, ignore_mac)
      BY <2>3, <2>5
    <3>6. fcnt \in Fcnt
      BY <3>4 DEF MovesAhead
    <3>7. AcceptOutcome(m, fcnt, ignore_mac, r)
      BY <1>0, <2>1, <2>2, <3>5, <3>6, AcceptEffect
    <3>8. m.session.fcnt_up = mac.session.fcnt_up
      BY <2>2 DEF SameButQueue
    <3>9. AcceptedBy(mac, r)
      BY <2>2, <3>4, <3>7, <3>8 DEF AcceptedBy, AcceptOutcome, SameButQueue
    <3>10. QED
      BY <1>4, <2>2, <3>7, <3>9 DEF r, AcceptOutcome
  <2>6. QED
    BY <2>4, <2>5
<1>5. QED
  BY <1>2, <1>3, <1>4

-----------------------------------------------------------------------------
(* The methods of Mac                                                      *)

\* prepare_buffer leaves the counters alone and keeps the sticky answers.
LEMMA PrepareBufferEffect ==
    ASSUME NEW mac \in Mac, NEW confirmed \in BOOLEAN
    PROVE  LET m == PrepareBuffer(mac, confirmed)
           IN  /\ m \in Mac /\ m.state = mac.state
               /\ SameButQueue(mac.session, m.session)
               /\ mac.session.pending \cap Sticky \subseteq m.session.pending
<1> DEFINE s == [mac.session EXCEPT !.ack = FALSE, !.confirmed = confirmed]
           t == ClearMacCommands(s, TRUE)
           m == PrepareBuffer(mac, confirmed)
<1>1. mac.session \in Session
  BY DEF Mac
<1>2. s \in Session /\ SameButQueue(mac.session, s) /\ s.pending = mac.session.pending
  BY <1>1 DEF Session, SameButQueue
<1>3. m = [mac EXCEPT !.session = t]
  BY DEF PrepareBuffer
<1> HIDE DEF s
<1>4. t \in Session /\ SameButQueue(s, t) /\ s.pending \cap Sticky \subseteq t.pending
  BY <1>2, ClearMacCommandsEffect
<1> HIDE DEF t
<1>5. SameButQueue(mac.session, t)
  BY <1>2, <1>4 DEF SameButQueue
<1>6. m \in Mac /\ m.state = mac.state /\ m.session = t
  BY <1>3, <1>4 DEF Mac
<1>7. QED
  BY <1>2, <1>4, <1>5, <1>6

\* A session installed in a MAC is the session of that MAC.
LEMMA InstallEffect ==
    ASSUME NEW mac \in Mac, NEW s \in Session
    PROVE  LET m == Install(mac, s)
           IN  m \in Mac /\ m.state = "Joined" /\ m.session = s
BY DEF Install, Mac

LEMMA JoinOtaaEffect ==
    ASSUME NEW mac \in Mac
    PROVE  LET m == JoinOtaa(mac)
           IN  m \in Mac /\ m.state = "Otaa" /\ m.session = NewSession
BY InitTypes DEF JoinOtaa, Mac

LEMMA SetAdrEffect ==
    ASSUME NEW mac \in Mac, NEW enabled \in BOOLEAN
    PROVE  LET m == SetAdr(mac, enabled)
               s == mac.session
               t == m.session
           IN  /\ m \in Mac /\ m.state = mac.state
               /\ t.fcnt_up = s.fcnt_up /\ t.fcnt_down = s.fcnt_down
               /\ t.pending = s.pending
               /\ t.adr_ack_cnt = s.adr_ack_cnt \/ t.adr_ack_cnt = 0
<1> DEFINE s == mac.session
           t == [s EXCEPT !.adr_ack_cnt = IF enabled THEN @ ELSE 0]
           c == [mac.configuration EXCEPT !.adr_enabled = enabled]
           m == SetAdr(mac, enabled)
<1>1. s \in Session /\ mac.configuration \in Configuration
  BY DEF Mac
<1>2. /\ t \in Session /\ t.fcnt_up = s.fcnt_up /\ t.fcnt_down = s.fcnt_down
      /\ t.pending = s.pending
      /\ t.adr_ack_cnt = s.adr_ack_cnt \/ t.adr_ack_cnt = 0
  BY <1>1 DEF Session
<1>3. c \in Configuration
  BY <1>1 DEF Configuration
<1>4. m = [mac EXCEPT !.configuration = c, !.session = t]
  BY DEF SetAdr, Mac
<1> HIDE DEF t, c
<1>5. m \in Mac /\ m.state = mac.state /\ m.session = t
  BY <1>2, <1>3, <1>4 DEF Mac
<1>6. QED
  BY <1>2, <1>5

\* A join accept installs a new session; nothing else does anything to OTAA.
LEMMA OtaaHandleRxEffect ==
    ASSUME NEW mac \in Mac, NEW f \in Frame
    PROVE  LET r == OtaaHandleRx(mac, f)
           IN  /\ r.mac \in Mac /\ r.data = FALSE
               /\ \/ r.resp = "NoUpdate" /\ r.mac = mac
                  \/ /\ r.resp = "JoinSuccess" /\ r.mac.state = "Joined"
                     /\ r.mac.session = NewSession
<1>1. CASE f.kind = "JoinAccept" /\ f.genuine
  <2> DEFINE c == [mac.configuration EXCEPT !.rx1_delay = DelToDelayMs(f.del)]
             m == [mac EXCEPT !.configuration.rx1_delay = DelToDelayMs(f.del)]
  <2>1. DelToDelayMs(f.del) \in RxDelays
    BY <1>1 DEF Frame, JoinAccept, DataFrame, Noise, RxDelays
  <2>2. c \in Configuration
    BY <2>1 DEF Mac, Configuration
  <2>3. m = [mac EXCEPT !.configuration = c]
    BY DEF Mac
  <2> HIDE DEF c
  <2>4. m \in Mac
    BY <2>2, <2>3 DEF Mac
  <2>5. OtaaHandleRx(mac, f) = Reply(Install(m, NewSession), "JoinSuccess", FALSE)
    BY <1>1 DEF OtaaHandleRx
  <2> HIDE DEF m
  <2>6. QED
    BY <2>4, <2>5, InitTypes, InstallEffect DEF Reply
<1>2. CASE ~(f.kind = "JoinAccept" /\ f.genuine)
  BY <1>2 DEF OtaaHandleRx, Reply
<1>3. QED
  BY <1>1, <1>2
=============================================================================
