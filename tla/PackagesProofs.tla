--------------------------- MODULE PackagesProofs ---------------------------
(***************************************************************************)
(* Proofs about Packages, for every set of setup messages, certification   *)
(* messages and multicast frames, every counter width and every capacity.  *)
(*                                                                         *)
(* For the counters nothing is assumed of what a whole setup message does  *)
(* to the sessions: a session that it leaves equal goes on with its        *)
(* history, any other starts a new one.  For the answers it is unfolded    *)
(* command by command, by induction on their number.                       *)
(***************************************************************************)
EXTENDS Packages, SequenceTheorems, WellFoundedInduction, TLAPS

-----------------------------------------------------------------------------
(* The inductive invariant.                                                *)

\* The records have their fields; what is in them is said below.
MacShape(m) ==
    m = [fcnt_up |-> m.fcnt_up, confirmed |-> m.confirmed,
         override_confirmed |-> m.override_confirmed, adr_enabled |-> m.adr_enabled,
         link_check |-> m.link_check, ke_key |-> m.ke_key, sessions |-> m.sessions,
         pending_uplinks |-> m.pending_uplinks, cert_uplink |-> m.cert_uplink,
         remote_setup_port |-> m.remote_setup_port, class_c |-> m.class_c,
         downlink |-> m.downlink]

TaskShape(t) == t = Task(t.at, t.airing, t.kept)

AirShape(a) ==
    a = [last |-> a.last, payload |-> a.payload, request |-> a.request,
         reused |-> a.reused, explained |-> a.explained, excuse |-> a.excuse]

\* No uplink is ahead of the counter; between two exchanges the last uplink is
\* behind it or what kept it there is on record.
Counting ==
    /\ mac.fcnt_up \in 0 .. MaxFcntUp
    /\ air.last \in Int
    /\ air.last <= mac.fcnt_up
    /\ air.last = MaxFcntUp => air.excuse # "none"
    /\ task = Idle /\ air.excuse = "none" => air.last < mac.fcnt_up
    /\ CounterReuseExplained

\* A device at rest holds back no response.
Resting == task.at = "idle" => task.kept = "none"

\* The last count heard in a session is the one the session stands at.
Hearing ==
    /\ heard \in [Groups -> Seq(Nat)]
    /\ McFresh
    /\ \A g \in Groups : heard[g] # <<>> =>
            heard[g][Len(heard[g])] = mac.sessions[g].fcnt_down

IInv ==
    /\ MacShape(mac) /\ TaskShape(task) /\ AirShape(air)
    /\ Resting
    /\ Counting
    /\ Hearing

-----------------------------------------------------------------------------
(* What the handlers do to the counter and to the sessions.                *)

\* Neither the counter nor a session changes.
Keeps(m, n) == MacShape(n) /\ n.fcnt_up = m.fcnt_up /\ n.sessions = m.sessions

\* Queuing a downlink for the application.
LEMMA PushKeeps ==
    ASSUME NEW m, MacShape(m)
    PROVE  Keeps(m, Push(m))
  BY DEF MacShape, Push, Keeps

\* prepare_buffer, and the two ways a package sends.
LEMMA SendKeeps ==
    ASSUME NEW m, MacShape(m)
    PROVE  /\ \A confirmed : Keeps(m, PrepareBuffer(m, confirmed))
           /\ Keeps(m, CertificationSetupSend(m))
           /\ Keeps(m, MulticastSetupSend(m))
  <1>1. ASSUME NEW confirmed
        PROVE  Keeps(m, PrepareBuffer(m, confirmed))
    <2> DEFINE c == CASE m.override_confirmed = "none" -> confirmed
                      [] OTHER -> m.override_confirmed = "Confirmed"
    <2>1. PrepareBuffer(m, confirmed) = [m EXCEPT !.link_check = FALSE, !.confirmed = c]
      BY DEF PrepareBuffer
    <2> HIDE DEF c
    <2> QED
      BY <2>1 DEF MacShape, Keeps
  <1>2. Keeps(m, CertificationSetupSend(m))
    BY <1>1 DEF CertificationSetupSend
  <1>3. Keeps(m, MulticastSetupSend(m))
    <2>1. Keeps(m, PrepareBuffer(m, FALSE))
      BY <1>1
    <2>2. MulticastSetupSend(m) = [PrepareBuffer(m, FALSE) EXCEPT !.pending_uplinks = <<>>]
      BY DEF MulticastSetupSend
    <2> QED
      BY <2>1, <2>2 DEF Keeps, MacShape
  <1> QED
    BY <1>1, <1>2, <1>3

\* rx2_complete counts the exchange unless the counters have run out.
Completes(m, n) ==
    /\ MacShape(n)
    /\ n.sessions = m.sessions
    /\ n.fcnt_up = IF m.fcnt_up = MaxFcntUp THEN m.fcnt_up ELSE m.fcnt_up + 1

\* rx2_complete on any state.
LEMMA CompleteCounts ==
    ASSUME NEW m, MacShape(m)
    PROVE  Completes(m, Rx2Complete(m).mac)
  BY DEF MacShape, Rx2Complete, Result, Completes

\* A multicast frame moves the counter of its session and nothing else.
MulticastEffect(m, f, h) ==
    /\ MacShape(h.mac)
    /\ h.mac.fcnt_up = m.fcnt_up
    /\ ~McAccepts(m, f) => h.mac.sessions = m.sessions /\ h.r = "NoUpdate"
    /\ McAccepts(m, f) =>
        /\ h.r \in {"McSessionExpired", "McDownlinkReceived"}
        /\ LET g == MatchingSession(m, f.addr)
           IN  h.mac.sessions =
                PutSession(m.sessions, g, Counted(m.sessions[g], f.fcnt % WireModulus))

LEMMA MulticastHandled ==
    ASSUME NEW m, MacShape(m), NEW f
    PROVE  MulticastEffect(m, f, McHandleRx(m, f))
  <1>1. CASE ~McAccepts(m, f)
    BY <1>1 DEF McHandleRx, Result, MulticastEffect
  <1>2. CASE McAccepts(m, f)
    <2> DEFINE g == MatchingSession(m, f.addr)
               s == Counted(m.sessions[g], f.fcnt % WireModulus)
               sessions == PutSession(m.sessions, g, s)
               n == [m EXCEPT !.sessions = sessions]
    <2>1. McHandleRx(m, f) = IF s.fcnt_down = s.max_fcnt_down
                             THEN Result(n, "McSessionExpired")
                             ELSE Result(Push(n), "McDownlinkReceived")
      BY <1>2 DEF McHandleRx
    <2> HIDE DEF g, s, sessions
    <2>2. MacShape(n) /\ n.fcnt_up = m.fcnt_up /\ n.sessions = sessions
      BY DEF MacShape
    <2> HIDE DEF n
    <2>3. Keeps(n, Push(n))
      BY <2>2, PushKeeps
    <2>4. /\ MacShape(McHandleRx(m, f).mac)
          /\ McHandleRx(m, f).mac.fcnt_up = m.fcnt_up
          /\ McHandleRx(m, f).mac.sessions = sessions
          /\ McHandleRx(m, f).r \in {"McSessionExpired", "McDownlinkReceived"}
      BY <2>1, <2>2, <2>3 DEF Result, Keeps
    <2> QED
      BY <1>2, <2>4 DEF MulticastEffect, sessions, s, g
  <1> QED
    BY <1>1, <1>2

\* A unicast frame counts the exchange, whatever a package makes of it.
UnicastEffect(m, h) ==
    /\ MacShape(h.mac)
    /\ h.mac.fcnt_up = m.fcnt_up
    /\ h.r \notin {"SessionExpired"} \cup Multicast

\* A message on port 224.
LEMMA CertificationHandled ==
    ASSUME NEW m, MacShape(m), NEW cmds
    PROVE  UnicastEffect(m, HandleCertification(m, cmds))
  <1> DEFINE c == DutEffect(cmds)
             h == HandleCertification(m, cmds)
  <1>1. \/ h = Result(m, "DeviceHandler")
        \/ h = Result(m, "LinkCheckReq")
        \/ h = Result([m EXCEPT !.cert_uplink = c], "UplinkPrepared")
        \/ h = Result(Push([m EXCEPT !.adr_enabled = (c = "AdrOn")]), "DownlinkReceived")
        \/ h = Result(Push([m EXCEPT !.override_confirmed = c]), "DownlinkReceived")
        \/ h = Result(Push(m), "DownlinkReceived")
        \/ h = Result(m, "NoUpdate")
    BY DEF HandleCertification
  <1> HIDE DEF c, h
  <1>2. \A a : /\ Keeps(m, [m EXCEPT !.cert_uplink = a])
               /\ Keeps(m, [m EXCEPT !.adr_enabled = a])
               /\ Keeps(m, [m EXCEPT !.override_confirmed = a])
    BY DEF Keeps, MacShape
  <1>3. \A n : Keeps(m, n) => Keeps(m, Push(n))
    BY PushKeeps DEF Keeps
  <1>4. Keeps(m, m)
    BY DEF Keeps
  <1>5. Keeps(m, h.mac)
    <2>1. \/ h.mac = m
          \/ h.mac = [m EXCEPT !.cert_uplink = c]
          \/ h.mac = Push([m EXCEPT !.adr_enabled = (c = "AdrOn")])
          \/ h.mac = Push([m EXCEPT !.override_confirmed = c])
          \/ h.mac = Push(m)
      BY <1>1 DEF Result
    <2> QED
      BY <1>2, <1>3, <1>4, <2>1
  <1>6. h.r \in {"DeviceHandler", "LinkCheckReq", "UplinkPrepared", "DownlinkReceived", "NoUpdate"}
    BY <1>1 DEF Result
  <1> QED
    BY <1>5, <1>6 DEF Keeps, UnicastEffect, Multicast, h

\* A message on the setup port.
LEMMA SetupHandled ==
    ASSUME NEW m, MacShape(m), NEW cmds
    PROVE  UnicastEffect(m, HandleSetupMessage(m, cmds))
  <1> DEFINE package == SetupRun(m, WellFormed(cmds))[Len(WellFormed(cmds))]
             n == [m EXCEPT !.sessions = package.sessions,
                            !.pending_uplinks = package.pending_uplinks]
             h == HandleSetupMessage(m, cmds)
  <1>1. \/ h = Result(m, "NoUpdate")
        \/ \E r \in {"panic", "NoUpdate", "McGroupSetupTransmitRequest", "McTransmitRequest"} :
                h = Result(n, r)
    BY DEF HandleSetupMessage
  <1> HIDE DEF package, h
  <1>2. MacShape(n) /\ n.fcnt_up = m.fcnt_up
    <2>1. PICK k : k = n
      OBVIOUS
    <2>2. MacShape(k) /\ k.fcnt_up = m.fcnt_up
      BY <2>1 DEF MacShape
    <2> QED
      BY <2>1, <2>2
  <1> HIDE DEF n
  <1>3. MacShape(h.mac) /\ h.mac.fcnt_up = m.fcnt_up
    BY <1>1, <1>2 DEF Result
  <1>4. h.r \in {"panic", "NoUpdate", "McGroupSetupTransmitRequest", "McTransmitRequest"}
    BY <1>1 DEF Result
  <1> QED
    BY <1>3, <1>4 DEF UnicastEffect, Multicast, h

\* Session::handle_rx on any frame.
RxEffect(m, f, h) ==
    IF f.port \in DefaultMcPortRange THEN MulticastEffect(m, f, h)
    ELSE \/ m.fcnt_up = MaxFcntUp /\ h.mac = m /\ h.r = "SessionExpired"
         \/ /\ m.fcnt_up < MaxFcntUp
            /\ MacShape(h.mac)
            /\ h.mac.fcnt_up = m.fcnt_up + 1
            /\ h.r \notin {"SessionExpired"} \cup Multicast

\* Any frame in any state of the session.
LEMMA RxHandled ==
    ASSUME NEW m, MacShape(m), m.fcnt_up \in 0 .. MaxFcntUp, NEW f
    PROVE  RxEffect(m, f, HandleRx(m, f))
  <1> DEFINE n == [m EXCEPT !.fcnt_up = @ + 1]
  <1>1. CASE f.port \in DefaultMcPortRange
    BY <1>1, MulticastHandled DEF HandleRx, RxEffect
  <1>2. CASE f.port \notin DefaultMcPortRange /\ m.fcnt_up = MaxFcntUp
    BY <1>2 DEF HandleRx, RxEffect, Result
  <1>3. CASE f.port \notin DefaultMcPortRange /\ m.fcnt_up # MaxFcntUp
    <2>1. MacShape(n) /\ n.fcnt_up = m.fcnt_up + 1
      BY DEF MacShape
    <2>2. m.fcnt_up < MaxFcntUp
      BY <1>3, PackagesAssumption
    <2>3. HandleRx(m, f) = HandlePort(n, f)
      BY <1>3 DEF HandleRx
    <2> HIDE DEF n
    <2>4. UnicastEffect(n, HandleRx(m, f))
      <3>1. UnicastEffect(n, Result(Push(n), "DownlinkReceived"))
        BY <2>1, PushKeeps DEF UnicastEffect, Keeps, Result, Multicast
      <3> QED
        BY <2>1, <2>3, <3>1, CertificationHandled, SetupHandled DEF HandlePort
    <2> QED
      BY <1>3, <2>1, <2>2, <2>4 DEF RxEffect, UnicastEffect
  <1> QED
    BY <1>1, <1>2, <1>3

\* handle_mac_response up to its first await, when nothing is sent.
DirectResult(m, r, o) ==
    /\ MacShape(o.mac)
    /\ o.mac.sessions = m.sessions
    /\ r = "LinkCheckReq" \/ o.mac = m
    /\ o.mac.fcnt_up = IF r = "LinkCheckReq" /\ m.fcnt_up # MaxFcntUp
                       THEN m.fcnt_up + 1 ELSE m.fcnt_up
    /\ r \in {"SessionExpired"} \cup Multicast => o.r = r
    /\ r = "NoUpdate" => o.r = "none"

LEMMA DirectEffect ==
    ASSUME NEW m, MacShape(m), NEW r
    PROVE  DirectResult(m, r, DirectOutcome(m, r))
  <1>1. CASE r = "LinkCheckReq"
    <2> DEFINE n == [m EXCEPT !.link_check = TRUE]
    <2>1. DirectOutcome(m, r) = Rx2Complete(n)
      BY <1>1 DEF DirectOutcome
    <2>2. Keeps(m, n)
      <3>1. PICK k : k = n
        OBVIOUS
      <3>2. Keeps(m, k)
        BY <3>1 DEF Keeps, MacShape
      <3> QED
        BY <3>1, <3>2
    <2> HIDE DEF n
    <2>3. Completes(n, Rx2Complete(n).mac)
      BY <2>2, CompleteCounts DEF Keeps
    <2> QED
      BY <1>1, <2>1, <2>2, <2>3 DEF Keeps, Completes, Multicast, DirectResult
  <1>2. CASE r # "LinkCheckReq"
    BY <1>2 DEF DirectOutcome, Result, Multicast, DirectResult
  <1> QED
    BY <1>1, <1>2

\* The caller of handle_mac_response: an exchange that ends in RX2 without a
\* frame is counted here.
Resolved(at, m, r) ==
    /\ MacShape(mac') /\ mac'.sessions = m.sessions
    /\ mac'.fcnt_up = IF at = "rx2" /\ r = "none" /\ m.fcnt_up # MaxFcntUp
                      THEN m.fcnt_up + 1 ELSE m.fcnt_up
    /\ TaskShape(task')
    /\ task'.at = "idle" => task'.kept = "none"
    /\ task' = Idle => at \notin {"bw1", "bw2"} /\ ~(at = "rx1" /\ r = "none")

LEMMA ResolveEffect ==
    ASSUME NEW at, NEW m, MacShape(m), NEW r, Resolve(at, m, r)
    PROVE  Resolved(at, m, r)
  <1>1. /\ TaskShape(Idle) /\ TaskShape(Panic)
        /\ Idle.at = "idle" /\ Idle.kept = "none" /\ Panic.at = "panic"
        /\ \A a, b, c : TaskShape(Task(a, b, c)) /\ Task(a, b, c).at = a
    BY DEF TaskShape, Idle, Panic, Task
  <1>2. CASE at \in {"bw1", "bw2"}
    <2>1. mac' = m /\ \E a \in {"bw1", "bw2", "rx1", "rx2"} : \E k : task' = Task(a, "none", k)
      BY <1>2 DEF Resolve, Window
    <2> QED
      BY <1>1, <1>2, <2>1 DEF Resolved
  <1>3. CASE at = "rx1" /\ r = "none"
    <2>1. mac' = m /\ task' = Task("bw2", "none", "none")
      BY <1>3 DEF Resolve
    <2> QED
      BY <1>1, <1>3, <2>1 DEF Resolved
  <1>4. CASE at = "rx2" /\ r = "none"
    <2>1. mac' = Rx2Complete(m).mac /\ task' = Idle
      BY <1>4 DEF Resolve
    <2> QED
      BY <1>1, <1>4, <2>1, CompleteCounts DEF Resolved, Completes
  <1>5. CASE at \notin {"bw1", "bw2"} /\ ~(at = "rx1" /\ r = "none") /\ ~(at = "rx2" /\ r = "none")
    <2>1. mac' = m /\ task' \in {Idle, Panic}
      BY <1>5 DEF Resolve
    <2> QED
      BY <1>1, <1>5, <2>1 DEF Resolved
  <1> QED
    BY <1>2, <1>3, <1>4, <1>5

\* A reason on record excuses the next uplink.
LEMMA ExcusedEffect ==
    ASSUME AirShape(air), NEW why \in {"multicast", "expired", "aborted"}, Excused(why)
    PROVE  /\ AirShape(air') /\ air'.last = air.last /\ air'.excuse # "none"
           /\ air'.reused = air.reused /\ air'.explained = air.explained
  <1>1. air' = [last |-> air.last, payload |-> <<>>, request |-> <<>>, reused |-> air.reused,
                explained |-> air.explained, excuse |-> why]
    BY DEF Excused, AirShape
  <1> QED
    BY <1>1 DEF AirShape

\* An uplink goes on the air with the counter as it stands.
LEMMA AirsEffect ==
    ASSUME NEW m, NEW payload, NEW request, Airs(m, payload, request)
    PROVE  /\ AirShape(air') /\ air'.last = m.fcnt_up
           /\ air'.reused = (m.fcnt_up = air.last)
           /\ air'.explained = (air.excuse # "none")
           /\ m.fcnt_up = MaxFcntUp => air'.excuse # "none"
  BY DEF Airs, AirShape

-----------------------------------------------------------------------------
(* The uplink counter.                                                     *)

\* A step in which nothing goes on the air: a reason once recorded stays, and
\* an exchange ends with the counter moved or with a reason.
Quiet ==
    /\ air'.last = air.last /\ air'.reused = air.reused /\ air'.explained = air.explained
    /\ air.excuse # "none" => air'.excuse # "none"
    /\ mac'.fcnt_up \in mac.fcnt_up .. MaxFcntUp
    /\ task' = Idle /\ air'.excuse = "none" => air.last < mac'.fcnt_up

\* A step that puts an uplink on the air, with a counter that is new unless a
\* reason was on record.
OnAir ==
    /\ air'.last = mac'.fcnt_up
    /\ air'.reused = (mac'.fcnt_up = air.last)
    /\ air'.explained = (air.excuse # "none")
    /\ mac'.fcnt_up = MaxFcntUp => air'.excuse # "none"
    /\ mac'.fcnt_up \in mac.fcnt_up .. MaxFcntUp
    /\ mac'.fcnt_up = air.last => air.excuse # "none"
    /\ task' # Idle

Shapes == MacShape(mac') /\ TaskShape(task') /\ AirShape(air') /\ Resting'

\* Both kinds of step keep the counter ahead of the uplinks.
LEMMA CountingKept ==
    ASSUME Counting, Quiet \/ OnAir
    PROVE  Counting'
  BY PackagesAssumption DEF Counting, Quiet, OnAir, CounterReuseExplained

\* An unused uplink counter is ahead of the last uplink.
LEMMA CountedAhead ==
    ASSUME Counting, air.excuse = "none"
    PROVE  mac.fcnt_up = MaxFcntUp => air.last < mac.fcnt_up
  BY PackagesAssumption DEF Counting

\* The listener at rest is between two exchanges.
LEMMA IdleWhenListening ==
    ASSUME TaskShape(task), Resting, task.airing = "none", task.at = "idle"
    PROVE  task = Idle
  BY DEF TaskShape, Resting, Idle, Task

\* send takes the counter as it stands, with the last exchange over.
LEMMA SendCounts ==
    ASSUME IInv, NEW confirmed, Send(confirmed)
    PROVE  Shapes /\ OnAir /\ mac'.sessions = mac.sessions
  <1>1. /\ task = Idle /\ mac' = PrepareBuffer(mac, confirmed)
        /\ task' = Task("tx", "data", "none") /\ Airs(mac, <<>>, <<>>)
    BY DEF Send, AtRest
  <1>2. Keeps(mac, mac')
    BY <1>1, SendKeeps DEF IInv
  <1>3. /\ AirShape(air') /\ air'.last = mac.fcnt_up
        /\ air'.reused = (mac.fcnt_up = air.last)
        /\ air'.explained = (air.excuse # "none")
        /\ mac.fcnt_up = MaxFcntUp => air'.excuse # "none"
    BY <1>1, AirsEffect
  <1>4. TaskShape(task') /\ task'.at = "tx" /\ task' # Idle
    BY <1>1 DEF TaskShape, Task, Idle
  <1>5. mac.fcnt_up \in mac.fcnt_up .. MaxFcntUp
    BY PackagesAssumption DEF IInv, Counting
  <1>6. mac.fcnt_up = air.last => air.excuse # "none"
    BY <1>1, PackagesAssumption DEF IInv, Counting
  <1> QED
    BY <1>2, <1>3, <1>4, <1>5, <1>6 DEF Shapes, OnAir, Keeps, Resting

\* A window ends without a frame: RX2 counts the exchange.
LEMMA RxTimeoutCounts ==
    ASSUME IInv, RxTimeout
    PROVE  Shapes /\ Quiet /\ mac'.sessions = mac.sessions
  <1>1. Resolved(task.at, mac, "none") /\ task.at \in {"rx1", "rx2"} /\ air' = air
    BY ResolveEffect DEF IInv, RxTimeout
  <1>2. mac'.fcnt_up \in mac.fcnt_up .. MaxFcntUp
    BY <1>1, PackagesAssumption DEF Resolved, IInv, Counting
  <1>3. task' = Idle /\ air.excuse = "none" => air.last < mac'.fcnt_up
    BY <1>1, CountedAhead, PackagesAssumption DEF Resolved, IInv, Counting
  <1> QED
    BY <1>1, <1>2, <1>3 DEF Shapes, Quiet, Resolved, Resting, IInv

\* The answer of a package is out: a certification answer is counted, a
\* multicast answer is on record as the reason that it is not.
LEMMA AnswerSentCounts ==
    ASSUME IInv, AnswerSent
    PROVE  Shapes /\ Quiet /\ mac'.sessions = mac.sessions
  <1>1. CASE task.airing = "cert"
    <2> DEFINE o == CertComplete(mac)
    <2>1. Resolve(task.at, o.mac, o.r) /\ air' = air
      BY <1>1 DEF AnswerSent
    <2>2. Completes(mac, o.mac)
      BY CompleteCounts DEF IInv, CertComplete
    <2> HIDE DEF o
    <2>3. Resolved(task.at, o.mac, o.r)
      BY <2>1, <2>2, ResolveEffect DEF Completes
    <2>4. mac'.fcnt_up \in mac.fcnt_up .. MaxFcntUp
      BY <2>2, <2>3, PackagesAssumption DEF Resolved, Completes, IInv, Counting
    <2>5. air.excuse = "none" => air.last < mac'.fcnt_up
      BY <2>2, <2>3, CountedAhead, PackagesAssumption
      DEF Resolved, Completes, IInv, Counting
    <2> QED
      BY <2>1, <2>2, <2>3, <2>4, <2>5
      DEF Shapes, Quiet, Resolved, Resting, IInv, Completes
  <1>2. CASE task.airing # "cert"
    <2> DEFINE o == McComplete(mac, task.airing)
    <2>1. Resolve(task.at, o.mac, o.r) /\ Excused("multicast")
      BY <1>2 DEF AnswerSent
    <2>2. o.mac = mac
      BY DEF McComplete, Result
    <2> HIDE DEF o
    <2>3. Resolved(task.at, mac, o.r)
      BY <2>1, <2>2, ResolveEffect DEF IInv
    <2>4. mac'.fcnt_up \in mac.fcnt_up .. MaxFcntUp
      BY <2>3, PackagesAssumption DEF Resolved, IInv, Counting
    <2>5. /\ AirShape(air') /\ air'.last = air.last /\ air'.excuse # "none"
          /\ air'.reused = air.reused /\ air'.explained = air.explained
      BY <2>1, ExcusedEffect DEF IInv
    <2> QED
      BY <2>3, <2>4, <2>5 DEF Shapes, Quiet, Resolved, Resting, IInv
  <1> QED
    BY <1>1, <1>2

\* An aborted exchange is on record.
LEMMA FailCounts ==
    ASSUME IInv, Fail
    PROVE  Shapes /\ Quiet /\ mac'.sessions = mac.sessions
  <1>1. task' = Idle /\ Excused("aborted") /\ mac' = mac
    BY DEF Fail
  <1>2. /\ AirShape(air') /\ air'.last = air.last /\ air'.excuse # "none"
        /\ air'.reused = air.reused /\ air'.explained = air.explained
    BY <1>1, ExcusedEffect DEF IInv
  <1>3. TaskShape(task') /\ task'.kept = "none"
    BY <1>1 DEF TaskShape, Idle, Task
  <1>4. mac'.fcnt_up \in mac.fcnt_up .. MaxFcntUp
    BY <1>1, PackagesAssumption DEF IInv, Counting
  <1> QED
    BY <1>1, <1>2, <1>3, <1>4 DEF Shapes, Quiet, Resting, IInv

\* A frame: what a package sends in answer to it is an uplink of its own; any
\* other unicast frame counts the exchange, a multicast frame does not.
LEMMA ReceiveCounts ==
    ASSUME IInv, NEW f, Receive(f)
    PROVE  /\ Shapes /\ (Quiet \/ OnAir)
           /\ mac'.sessions = HandleRx(mac, f).mac.sessions
  <1> DEFINE h == HandleRx(mac, f)
             o == DirectOutcome(h.mac, h.r)
             Sending == {"McTransmitRequest", "McGroupSetupTransmitRequest"}
  <1>1. RxEffect(mac, f, h)
    BY RxHandled DEF IInv, Counting
  <1>2. MacShape(h.mac) /\ h.mac.fcnt_up \in mac.fcnt_up .. MaxFcntUp
    BY <1>1, PackagesAssumption DEF RxEffect, MulticastEffect, IInv, Counting
  <1>3. /\ Listening
        /\ CASE h.r = "panic" -> mac' = h.mac /\ task' = Panic /\ UNCHANGED air
             [] h.r = "UplinkPrepared" ->
                  /\ mac' = CertificationSetupSend(h.mac)
                  /\ task' = [task EXCEPT !.airing = "cert"]
                  /\ Airs(h.mac, <<>>, <<>>)
             [] h.r \in Sending ->
                  /\ mac' = MulticastSetupSend(h.mac)
                  /\ task' = [task EXCEPT !.airing =
                         IF h.r = "McTransmitRequest" THEN "mc" ELSE "mcNew"]
                  /\ Airs(h.mac, h.mac.pending_uplinks, f.cmds)
             [] OTHER ->
                  /\ Resolve(task.at, o.mac, o.r)
                  /\ CASE task.at \in {"rx1", "rx2"} /\ o.r \in Multicast ->
                             Excused("multicast")
                       [] h.r = "SessionExpired" -> Excused("expired")
                       [] OTHER -> UNCHANGED air
    BY DEF Receive
  <1>4. DirectResult(h.mac, h.r, o)
    BY <1>2, DirectEffect
  <1> HIDE DEF h, o
  <1>5. CASE h.r = "panic"
    <2>1. mac' = h.mac /\ task' = Panic /\ air' = air
      BY <1>3, <1>5
    <2>2. TaskShape(task') /\ task'.at = "panic" /\ task' # Idle
      BY <2>1 DEF TaskShape, Panic, Idle, Task
    <2> QED
      BY <1>2, <2>1, <2>2 DEF Shapes, Quiet, Resting, IInv, h
  <1>6. CASE h.r \in {"UplinkPrepared"} \cup Sending
    <2>1. \E payload, request, airing :
             /\ airing \in {"cert", "mc", "mcNew"}
             /\ mac' \in {CertificationSetupSend(h.mac), MulticastSetupSend(h.mac)}
             /\ task' = [task EXCEPT !.airing = airing]
             /\ Airs(h.mac, payload, request)
      <3>1. CASE h.r = "UplinkPrepared"
        <4>1. /\ mac' = CertificationSetupSend(h.mac)
              /\ task' = [task EXCEPT !.airing = "cert"]
              /\ Airs(h.mac, <<>>, <<>>)
          BY <1>3, <3>1
        <4> QED
          BY <4>1
      <3>2. CASE h.r \in Sending
        <4> DEFINE airing == IF h.r = "McTransmitRequest" THEN "mc" ELSE "mcNew"
        <4>1. /\ mac' = MulticastSetupSend(h.mac)
              /\ task' = [task EXCEPT !.airing = airing]
              /\ Airs(h.mac, h.mac.pending_uplinks, f.cmds)
          BY <1>3, <3>2
        <4>2. airing \in {"cert", "mc", "mcNew"}
          OBVIOUS
        <4> HIDE DEF airing
        <4> QED
          BY <4>1, <4>2
      <3> QED
        BY <1>6, <3>1, <3>2
    <2> PICK payload, request, airing :
             /\ airing \in {"cert", "mc", "mcNew"}
             /\ mac' \in {CertificationSetupSend(h.mac), MulticastSetupSend(h.mac)}
             /\ task' = [task EXCEPT !.airing = airing]
             /\ Airs(h.mac, payload, request)
      BY <2>1
    <2>2. Keeps(h.mac, mac')
      BY <1>2, <2>1, SendKeeps
    <2>3. h.mac.fcnt_up = mac.fcnt_up + 1
      BY <1>1, <1>6 DEF RxEffect, MulticastEffect
    <2>4. /\ AirShape(air') /\ air'.last = h.mac.fcnt_up
          /\ air'.reused = (h.mac.fcnt_up = air.last)
          /\ air'.explained = (air.excuse # "none")
          /\ h.mac.fcnt_up = MaxFcntUp => air'.excuse # "none"
      BY <2>1, AirsEffect
    <2>5. /\ TaskShape(task') /\ task'.at = task.at /\ task'.kept = task.kept
          /\ task' # Idle
      <3>1. task' = Task(task.at, airing, task.kept)
        BY DEF IInv, TaskShape, Task
      <3>2. task'.airing = airing /\ airing # "none"
        BY <3>1 DEF Task
      <3>3. task' # Idle
        BY <3>2 DEF Idle, Task
      <3> QED
        BY <3>1, <3>3 DEF TaskShape, Task
    <2>6. mac'.fcnt_up # air.last
      BY <2>2, <2>3 DEF Keeps, IInv, Counting
    <2> QED
      BY <1>2, <2>2, <2>4, <2>5, <2>6 DEF Shapes, OnAir, Resting, IInv, Keeps, h
  <1>7. CASE h.r \notin {"panic", "UplinkPrepared"} \cup Sending
    <2>1. /\ Resolve(task.at, o.mac, o.r)
          /\ CASE task.at \in {"rx1", "rx2"} /\ o.r \in Multicast -> Excused("multicast")
               [] h.r = "SessionExpired" -> Excused("expired")
               [] OTHER -> UNCHANGED air
      BY <1>3, <1>7
    <2>2. Resolved(task.at, o.mac, o.r)
      BY <1>4, <2>1, ResolveEffect DEF DirectResult
    <2>3. mac'.fcnt_up \in h.mac.fcnt_up .. MaxFcntUp
      BY <1>2, <1>4, <2>2, PackagesAssumption
      DEF DirectResult, Resolved, IInv, Counting
    <2>4. Excused("multicast") \/ Excused("expired") => 
             /\ AirShape(air') /\ air'.last = air.last /\ air'.excuse # "none"
             /\ air'.reused = air.reused /\ air'.explained = air.explained
      BY ExcusedEffect DEF IInv
    <2>5. \/ Excused("multicast") \/ Excused("expired")
          \/ /\ air' = air
             /\ ~(task.at \in {"rx1", "rx2"} /\ o.r \in Multicast)
             /\ h.r # "SessionExpired"
      BY <2>1
    <2>6. ASSUME air' = air, ~(task.at \in {"rx1", "rx2"} /\ o.r \in Multicast),
                 h.r # "SessionExpired", task' = Idle, air.excuse = "none"
          PROVE  air.last < mac'.fcnt_up
      <3>1. CASE f.port \notin DefaultMcPortRange
        BY <1>1, <2>3, <2>6, <3>1 DEF RxEffect, IInv, Counting
      <3>2. CASE f.port \in DefaultMcPortRange
        <4>1. MulticastEffect(mac, f, h)
          BY <1>1, <3>2 DEF RxEffect
        <4>2. o.mac = h.mac /\ (o.r = "none" \/ (o.r = h.r /\ o.r \in Multicast))
          BY <1>4, <4>1 DEF MulticastEffect, DirectResult, Multicast
        <4>3. task.at \in {"rx1", "rx2", "idle"}
          BY <1>3, <2>2, <2>6 DEF Listening, Resolved
        <4>4. CASE task.at = "idle"
          <5>1. task = Idle
            BY <1>3, <4>4, IdleWhenListening DEF IInv, Listening
          <5> QED
            BY <1>2, <2>3, <2>6, <5>1 DEF IInv, Counting
        <4>5. CASE task.at # "idle"
          <5>1. o.r = "none" /\ task.at = "rx2"
            BY <2>2, <2>6, <4>2, <4>3, <4>5 DEF Resolved
          <5>2. mac'.fcnt_up = IF mac.fcnt_up # MaxFcntUp THEN mac.fcnt_up + 1 ELSE mac.fcnt_up
            BY <2>2, <4>1, <4>2, <5>1 DEF Resolved, MulticastEffect
          <5> QED
            BY <2>6, <5>2, CountedAhead DEF IInv, Counting
        <4> QED
          BY <4>4, <4>5
      <3> QED
        BY <3>1, <3>2
    <2>7. AirShape(air') /\ Quiet
      <3>1. mac'.fcnt_up \in mac.fcnt_up .. MaxFcntUp
        BY <1>2, <2>3 DEF IInv, Counting
      <3>2. CASE air' = air /\ ~(task.at \in {"rx1", "rx2"} /\ o.r \in Multicast)
                 /\ h.r # "SessionExpired"
        BY <2>6, <3>1, <3>2 DEF Quiet, IInv
      <3>3. CASE Excused("multicast") \/ Excused("expired")
        BY <2>4, <3>1, <3>3 DEF Quiet
      <3> QED
        BY <2>5, <3>2, <3>3
    <2> QED
      BY <1>4, <2>2, <2>7 DEF Shapes, Resolved, DirectResult, Resting, h
  <1> QED
    BY <1>5, <1>6, <1>7

-----------------------------------------------------------------------------
(* The multicast counters.                                                 *)

\* The counts heard in one session: increasing, up to the session's counter.
SessionHeard(counts, s) ==
    /\ counts \in Seq(Nat)
    /\ \A i, j \in DOMAIN counts : i < j => counts[i] < counts[j]
    /\ counts # <<>> => counts[Len(counts)] = s.fcnt_down

\* The history of all sessions, from that of each.
LEMMA HearingPerSession ==
    ASSUME NEW hs, NEW sessions, hs = [g \in Groups |-> hs[g]],
           \A g \in Groups : SessionHeard(hs[g], sessions[g])
    PROVE  /\ hs \in [Groups -> Seq(Nat)]
           /\ \A g \in Groups : \A i, j \in DOMAIN hs[g] : i < j => hs[g][i] < hs[g][j]
           /\ \A g \in Groups : hs[g] # <<>> => hs[g][Len(hs[g])] = sessions[g].fcnt_down
  BY DEF SessionHeard

\* A session starts unheard, frame 0 starts it again.
LEMMA HeardStarts ==
    ASSUME NEW s
    PROVE  SessionHeard(<<>>, s) /\ (s.fcnt_down = 0 => SessionHeard(<<0>>, s))
  BY DEF SessionHeard

\* An accepted count is beyond all that were heard.
LEMMA HeardGrows ==
    ASSUME NEW counts, NEW s, SessionHeard(counts, s), NEW n \in Nat, n > s.fcnt_down,
           NEW t, t.fcnt_down = n
    PROVE  SessionHeard(Append(counts, n), t)
  <1> DEFINE after == Append(counts, n)
  <1>1. counts \in Seq(Nat) /\ Len(counts) \in Nat
    BY DEF SessionHeard
  <1>2. /\ after \in Seq(Nat) /\ Len(after) = Len(counts) + 1
        /\ after[Len(counts) + 1] = n
        /\ \A i \in 1 .. Len(counts) : after[i] = counts[i]
    BY <1>1
  <1> HIDE DEF after
  <1>3. \A i \in 1 .. Len(counts) : counts[i] \in Nat /\ counts[i] <= counts[Len(counts)]
    <2> TAKE i \in 1 .. Len(counts)
    <2>1. counts[i] \in Nat /\ Len(counts) \in DOMAIN counts /\ i \in DOMAIN counts
      BY <1>1
    <2>2. CASE i = Len(counts)
      BY <2>1, <2>2
    <2>3. CASE i < Len(counts)
      <3>1. counts[i] < counts[Len(counts)] /\ counts[Len(counts)] \in Nat
        BY <1>1, <2>1, <2>3 DEF SessionHeard
      <3> QED
        BY <2>1, <3>1
    <2> QED
      BY <1>1, <2>2, <2>3
  <1>4. \A i \in 1 .. Len(counts) : counts[i] < n
    <2> TAKE i \in 1 .. Len(counts)
    <2>1. counts # <<>> /\ counts[Len(counts)] \in Nat
      BY <1>1
    <2>2. counts[Len(counts)] < n
      BY <2>1 DEF SessionHeard
    <2> QED
      BY <1>3, <2>1, <2>2
  <1>5. ASSUME NEW i \in DOMAIN after, NEW j \in DOMAIN after, i < j
        PROVE  after[i] < after[j]
    <2>1. i \in 1 .. Len(counts) /\ j \in 1 .. Len(counts) + 1
      BY <1>1, <1>2, <1>5
    <2>2. CASE j = Len(counts) + 1
      BY <1>2, <1>4, <2>1, <2>2
    <2>3. CASE j \in 1 .. Len(counts)
      <3>1. counts[i] < counts[j]
        BY <1>1, <1>5, <2>1, <2>3 DEF SessionHeard
      <3> QED
        BY <1>2, <2>1, <2>3, <3>1
    <2> QED
      BY <1>1, <2>1, <2>2, <2>3
  <1> QED
    BY <1>1, <1>2, <1>5 DEF SessionHeard, after

\* The history of each session, from that of all.
LEMMA HearingBySession ==
    ASSUME Hearing
    PROVE  \A g \in Groups : SessionHeard(heard[g], mac.sessions[g])
  BY DEF Hearing, McFresh, SessionHeard

\* A step that touches neither the sessions nor what was heard.
LEMMA HearingKept ==
    ASSUME Hearing, heard' = heard, mac'.sessions = mac.sessions
    PROVE  Hearing'
  BY DEF Hearing, McFresh

\* A frame in any window, of any port.
LEMMA ReceiveHears ==
    ASSUME IInv, NEW f, f.fcnt \in Nat, Receive(f)
    PROVE  Hearing'
  <1> DEFINE h == HandleRx(mac, f)
             k == MatchingSession(mac, f.addr)
             s == mac.sessions[k]
             accepted == f.port \in DefaultMcPortRange /\ McAccepts(mac, f)
  <1>1. RxEffect(mac, f, h)
    BY RxHandled DEF IInv, Counting
  <1>2. mac'.sessions = h.mac.sessions
    BY ReceiveCounts
  <1>3. heard' = [g \in Groups |->
            CASE accepted /\ g = k ->
                      IF f.fcnt = 0 THEN <<0>> ELSE Append(heard[g], f.fcnt)
              [] f.port \notin DefaultMcPortRange /\ h.mac.sessions[g] # mac.sessions[g] ->
                      <<>>
              [] OTHER -> heard[g]]
    BY DEF Receive, Hears
  <1>4. accepted => /\ f.fcnt % WireModulus = f.fcnt
                    /\ f.fcnt > s.fcnt_down \/ f.fcnt = 0
                    /\ h.mac.sessions = PutSession(mac.sessions, k, Counted(s, f.fcnt))
    BY <1>1 DEF RxEffect, MulticastEffect, McAccepts, ValidateMic, Acceptable
  <1>5. ~accepted => \/ h.mac.sessions = mac.sessions
                     \/ f.port \notin DefaultMcPortRange
    BY <1>1 DEF RxEffect, MulticastEffect
  <1> HIDE DEF h, k
  <1>6. ASSUME NEW g \in Groups
        PROVE  SessionHeard(heard'[g], mac'.sessions[g])
    <2>0. SessionHeard(heard[g], mac.sessions[g])
      BY HearingBySession DEF IInv
    <2>1. CASE accepted /\ g = k
      <3>1. mac'.sessions[g].fcnt_down = f.fcnt
        BY <1>2, <1>4, <2>1 DEF PutSession, Counted, Session
      <3>2. CASE f.fcnt = 0
        BY <1>3, <2>1, <3>1, <3>2, HeardStarts
      <3>3. CASE f.fcnt # 0
        <4>1. heard'[g] = Append(heard[g], f.fcnt)
          BY <1>3, <2>1, <3>3
        <4>2. f.fcnt > mac.sessions[g].fcnt_down
          BY <1>4, <2>1, <3>3
        <4> QED
          BY <2>0, <3>1, <4>1, <4>2, HeardGrows
      <3> QED
        BY <3>2, <3>3
    <2>2. CASE accepted /\ g # k
      <3>1. heard'[g] = heard[g]
        BY <1>3, <2>2
      <3>2. mac'.sessions[g] = mac.sessions[g]
        BY <1>2, <1>4, <2>2 DEF PutSession
      <3> QED
        BY <2>0, <3>1, <3>2
    <2>3. CASE ~accepted /\ f.port \notin DefaultMcPortRange /\ h.mac.sessions[g] # mac.sessions[g]
      <3>1. heard'[g] = <<>>
        BY <1>3, <2>3
      <3> QED
        BY <3>1, HeardStarts
    <2>4. CASE ~accepted /\ ~(f.port \notin DefaultMcPortRange /\ h.mac.sessions[g] # mac.sessions[g])
      <3>1. heard'[g] = heard[g]
        BY <1>3, <2>4
      <3>2. mac'.sessions[g] = mac.sessions[g]
        BY <1>2, <1>5, <2>4
      <3> QED
        BY <2>0, <3>1, <3>2
    <2> QED
      BY <2>1, <2>2, <2>3, <2>4
  <1>7. heard' = [g \in Groups |-> heard'[g]]
    BY <1>3
  <1> QED
    BY <1>6, <1>7, HearingPerSession DEF Hearing, McFresh

\* The application installs a session: its history starts again.
LEMMA SetMulticastSessionHears ==
    ASSUME IInv, NEW g, NEW s, SetMulticastSession(g, s)
    PROVE  Hearing'
  <1>1. /\ mac'.sessions = PutSession(mac.sessions, g, s)
        /\ heard' = [heard EXCEPT ![g] = <<>>]
    <2> DEFINE sessions == PutSession(mac.sessions, g, s)
    <2>1. mac' = [mac EXCEPT !.sessions = sessions] /\ heard' = [heard EXCEPT ![g] = <<>>]
      BY DEF SetMulticastSession
    <2> HIDE DEF sessions
    <2>2. mac'.sessions = sessions
      BY <2>1 DEF IInv, MacShape
    <2> QED
      BY <2>1, <2>2 DEF sessions
  <1>2. heard \in [Groups -> Seq(Nat)]
    BY DEF IInv, Hearing
  <1>3. ASSUME NEW x \in Groups
        PROVE  SessionHeard(heard'[x], mac'.sessions[x])
    <2>1. CASE x = g
      <3>1. heard'[x] = <<>>
        BY <1>1, <1>2, <2>1
      <3> QED
        BY <3>1, HeardStarts
    <2>2. CASE x # g
      <3>1. heard'[x] = heard[x] /\ mac'.sessions[x] = mac.sessions[x]
        BY <1>1, <1>2, <2>2 DEF PutSession
      <3> QED
        BY <3>1, HearingBySession DEF IInv
    <2> QED
      BY <2>1, <2>2
  <1>4. heard' = [x \in Groups |-> heard'[x]]
    BY <1>1, <1>2
  <1> QED
    BY <1>3, <1>4, HearingPerSession DEF Hearing, McFresh

-----------------------------------------------------------------------------
(* The invariant.                                                          *)

\* A new device.
LEMMA InitInv == Init => IInv
  <1> SUFFICES ASSUME Init PROVE IInv
    OBVIOUS
  <1>1. MacShape(mac) /\ TaskShape(task) /\ AirShape(air) /\ Resting
    BY DEF Init, NewMac, MacShape, TaskShape, AirShape, Resting, Idle, Task
  <1>2. Counting
    BY PackagesAssumption DEF Init, NewMac, Counting, CounterReuseExplained
  <1>3. Hearing
    BY DEF Init, Hearing, McFresh
  <1> QED
    BY <1>1, <1>2, <1>3 DEF IInv

\* A call of the application between two exchanges.
LEMMA AtRestCounts ==
    ASSUME IInv, AtRest, UNCHANGED <<task, air>>,
           MacShape(mac'), mac'.fcnt_up = mac.fcnt_up
    PROVE  Shapes /\ Quiet
  <1>1. mac'.fcnt_up \in mac.fcnt_up .. MaxFcntUp
    BY PackagesAssumption DEF IInv, Counting
  <1> QED
    BY <1>1 DEF IInv, Shapes, Quiet, Counting, Resting

\* The future moves on to a window.
LEMMA WindowCounts ==
    ASSUME IInv, TxDone \/ WindowOpens
    PROVE  Shapes /\ Quiet /\ mac' = mac /\ heard' = heard
  <1>1. PICK at \in {"bw1", "rx1", "rx2"} :
            task' = Task(at, "none", "none") /\ mac' = mac /\ air' = air /\ heard' = heard
    BY DEF TxDone, WindowOpens, Window
  <1>2. TaskShape(task') /\ task'.at = at /\ task' # Idle
    BY <1>1 DEF TaskShape, Task, Idle
  <1>3. mac'.fcnt_up \in mac.fcnt_up .. MaxFcntUp
    BY <1>1, PackagesAssumption DEF IInv, Counting
  <1> QED
    BY <1>1, <1>2, <1>3 DEF IInv, Shapes, Quiet, Resting

\* What the lemmas about the actions come to.
LEMMA InvFromParts ==
    ASSUME IInv, Shapes, Quiet \/ OnAir, Hearing'
    PROVE  IInv'
  BY CountingKept DEF IInv, Shapes

\* Every step keeps the invariant.
LEMMA NextInv == IInv /\ [Next]_vars => IInv'
  <1> SUFFICES ASSUME IInv, [Next]_vars PROVE IInv'
    OBVIOUS
  <1>1. CASE SetMulticastKeKey
    <2>1. MacShape(mac') /\ mac'.fcnt_up = mac.fcnt_up /\ mac'.sessions = mac.sessions
      BY <1>1 DEF SetMulticastKeKey, IInv, MacShape
    <2> QED
      BY <1>1, <2>1, AtRestCounts, HearingKept, InvFromParts DEF SetMulticastKeKey, IInv
  <1>2. ASSUME NEW a \in ApiSessions, SetMulticastSession(a[1], a[2])
        PROVE  IInv'
    <2> DEFINE sessions == PutSession(mac.sessions, a[1], a[2])
    <2>1. mac' = [mac EXCEPT !.sessions = sessions]
      BY <1>2 DEF SetMulticastSession
    <2> HIDE DEF sessions
    <2>2. MacShape(mac') /\ mac'.fcnt_up = mac.fcnt_up
      BY <2>1 DEF IInv, MacShape
    <2>3. Hearing'
      BY <1>2, SetMulticastSessionHears
    <2> QED
      BY <1>2, <2>2, <2>3, AtRestCounts, InvFromParts DEF SetMulticastSession
  <1>3. ASSUME NEW p \in SetupPorts, SetRemoteSetupPort(p)
        PROVE  IInv'
    <2>1. MacShape(mac') /\ mac'.fcnt_up = mac.fcnt_up /\ mac'.sessions = mac.sessions
      BY <1>3 DEF SetRemoteSetupPort, IInv, MacShape
    <2> QED
      BY <1>3, <2>1, AtRestCounts, HearingKept, InvFromParts DEF SetRemoteSetupPort, IInv
  <1>4. ASSUME NEW on \in BOOLEAN, EnableClassC(on)
        PROVE  IInv'
    <2>1. MacShape(mac') /\ mac'.fcnt_up = mac.fcnt_up /\ mac'.sessions = mac.sessions
      BY <1>4 DEF EnableClassC, IInv, MacShape
    <2> QED
      BY <1>4, <2>1, AtRestCounts, HearingKept, InvFromParts DEF EnableClassC, IInv
  <1>5. CASE TakeDownlink
    <2>1. MacShape(mac') /\ mac'.fcnt_up = mac.fcnt_up /\ mac'.sessions = mac.sessions
      BY <1>5 DEF TakeDownlink, IInv, MacShape
    <2> QED
      BY <1>5, <2>1, AtRestCounts, HearingKept, InvFromParts DEF TakeDownlink, IInv
  <1>6. ASSUME NEW confirmed \in BOOLEAN, Send(confirmed)
        PROVE  IInv'
    BY <1>6, SendCounts, HearingKept, InvFromParts DEF Send, IInv
  <1>7. CASE TxDone \/ WindowOpens
    BY <1>7, WindowCounts, HearingKept, InvFromParts DEF IInv
  <1>8. CASE RxTimeout
    BY <1>8, RxTimeoutCounts, HearingKept, InvFromParts DEF RxTimeout, IInv
  <1>9. ASSUME NEW f, f.fcnt \in Nat, Receive(f)
        PROVE  IInv'
    BY <1>9, ReceiveCounts, ReceiveHears, InvFromParts
  <1>10. CASE ReceiveApp \/ ReceiveSetup \/ ReceiveCertification
    <2>1. \A port, cmds : Unicast(port, cmds).fcnt \in Nat
      BY DEF Unicast
    <2>2. \E port, cmds : Receive(Unicast(port, cmds))
      BY <1>10 DEF ReceiveApp, ReceiveSetup, ReceiveCertification
    <2> QED
      BY <1>9, <2>1, <2>2
  <1>11. CASE ReceiveMulticast
    BY <1>9, <1>11, PackagesAssumption DEF ReceiveMulticast
  <1>12. CASE AnswerSent
    BY <1>12, AnswerSentCounts, HearingKept, InvFromParts DEF AnswerSent, IInv
  <1>13. CASE Fail
    BY <1>13, FailCounts, HearingKept, InvFromParts DEF Fail, IInv
  <1>14. CASE UNCHANGED vars
    BY <1>14 DEF vars, IInv, MacShape, TaskShape, AirShape, Resting, Counting, Hearing,
                 McFresh, CounterReuseExplained
  <1> QED
    BY <1>1, <1>2, <1>3, <1>4, <1>5, <1>6, <1>7, <1>8, <1>10, <1>11, <1>12, <1>13, <1>14
    DEF Next

\* The invariant holds throughout.
LEMMA PackagesInv == Spec => []IInv
  BY InitInv, NextInv, PTL DEF Spec

\* Multicast::handle_rx accepts no count twice and none out of order within a
\* session since its last frame 0, whatever frames, setup messages, windows and
\* failures come between.
THEOREM PackagesMcFresh == Spec => []McFresh
  <1>1. IInv => McFresh
    BY DEF IInv, Hearing
  <1> QED
    BY <1>1, PackagesInv, PTL

\* Every uplink, certification answers included, has a counter of its own
\* unless one of the recorded reasons kept it from moving
\* (Device::handle_mac_response, Mac::certification_setup_send).
THEOREM PackagesCounterReuseExplained == Spec => []CounterReuseExplained
  <1>1. IInv => CounterReuseExplained
    BY DEF IInv, Counting
  <1> QED
    BY <1>1, PackagesInv, PTL

-----------------------------------------------------------------------------
(* Induction, and the recursive functions of the setup package.               *)

\* The order of the naturals as a relation.
Less == {p \in Nat \X Nat : p[1] < p[2]}

\* A non-empty set of naturals has a least element.
LEMMA LeastNatural ==
    ASSUME NEW S, S \subseteq Nat, S # {}
    PROVE  \E x \in S : \A y \in S : x <= y
  <1>1. IsWellFoundedOn(Less, Nat)
    BY NatLessThanWellFounded DEF OpToRel, Less
  <1>2. PICK x \in S : \A y \in S : ~ (<<y, x>> \in Less)
    BY <1>1, WFMin
  <1>3. \A a, b \in Nat : a < b => <<a, b>> \in Less
    BY DEF Less
  <1>4. ASSUME NEW y \in S
        PROVE  x <= y
    <2>1. x \in Nat /\ y \in Nat
      OBVIOUS
    <2>2. ~ (y < x)
      BY <1>2, <1>3, <2>1
    <2> QED
      BY <2>1, <2>2
  <1> QED
    BY <1>4

\* Induction: a set with 0 and the successors of its members is all of Nat.
LEMMA AllNaturals ==
    ASSUME NEW S, S \subseteq Nat, 0 \in S, \A n \in S : n + 1 \in S
    PROVE  S = Nat
  <1> SUFFICES ASSUME Nat \ S # {}
               PROVE  FALSE
    OBVIOUS
  <1>1. PICK x \in Nat \ S : \A y \in Nat \ S : x <= y
    BY LeastNatural
  <1>2. x # 0 /\ x - 1 \in Nat /\ x - 1 \notin Nat \ S
    BY <1>1
  <1> QED
    BY <1>1, <1>2

\* SetupRun is the function its definition describes.
LEMMA SetupRunDef ==
    ASSUME NEW m, NEW cmds, Len(cmds) \in Nat
    PROVE  LET run == SetupRun(m, cmds)
           IN  run = [i \in 0 .. Len(cmds) |->
                        IF i = 0 THEN [sessions |-> m.sessions,
                                       pending_uplinks |-> m.pending_uplinks]
                        ELSE SetupCommand(run[i - 1], cmds[i])]
  <1> DEFINE start == [sessions |-> m.sessions, pending_uplinks |-> m.pending_uplinks]
             Step(g, i) == IF i = 0 THEN start ELSE SetupCommand(g[i - 1], cmds[i])
             Has(n) == \E g : g = [i \in 0 .. n |-> Step(g, i)]
             S == {n \in Nat : Has(n)}
  <1>1. 0 \in S
    <2> DEFINE g == [i \in 0 .. 0 |-> start]
    <2>1. g = [i \in 0 .. 0 |-> Step(g, i)]
      OBVIOUS
    <2> QED
      BY <2>1
  <1>2. ASSUME NEW n \in S
        PROVE  n + 1 \in S
    <2>1. n \in Nat /\ Has(n)
      OBVIOUS
    <2>2. PICK g : g = [i \in 0 .. n |-> Step(g, i)]
      BY <2>1
    <2> DEFINE h == [i \in 0 .. n + 1 |-> IF i <= n THEN g[i] ELSE SetupCommand(g[n], cmds[n + 1])]
    <2>3. ASSUME NEW i \in 0 .. n + 1
          PROVE  h[i] = Step(h, i)
      <3>1. CASE i = 0
        BY <2>1, <2>2, <3>1
      <3>2. CASE i \in 1 .. n
        <4>1. h[i] = g[i] /\ h[i - 1] = g[i - 1]
          BY <2>1, <3>2
        <4>2. g[i] = SetupCommand(g[i - 1], cmds[i])
          BY <2>1, <2>2, <3>2
        <4> HIDE DEF h
        <4> QED
          BY <2>1, <3>2, <4>1, <4>2
      <3>3. CASE i = n + 1
        <4>1. h[i] = SetupCommand(g[n], cmds[i]) /\ h[i - 1] = g[n] /\ i # 0
          BY <2>1, <3>3
        <4> HIDE DEF h
        <4> QED
          BY <4>1
      <3> QED
        BY <2>1, <3>1, <3>2, <3>3
    <2>4. h = [i \in 0 .. n + 1 |-> h[i]]
      OBVIOUS
    <2> HIDE DEF h
    <2>5. h = [i \in 0 .. n + 1 |-> Step(h, i)]
      BY <2>3, <2>4
    <2>6. Has(n + 1)
      BY <2>5, Zenon
    <2> HIDE DEF Has
    <2> QED
      BY <2>1, <2>6
  <1>3. Len(cmds) \in S
    <2> HIDE DEF S, Has
    <2>1. S \subseteq Nat
      BY DEF S
    <2> QED
      BY <1>1, <1>2, <2>1, AllNaturals
  <1>4. \E g : g = [i \in 0 .. Len(cmds) |-> Step(g, i)]
    BY <1>3
  <1> HIDE DEF S
  <1> DEFINE R(g) == g = [i \in 0 .. Len(cmds) |-> Step(g, i)]
  <1>5. SetupRun(m, cmds) = CHOOSE g : R(g)
    BY DEF SetupRun
  <1>6. \E g : R(g)
    BY <1>4
  <1>7. R(SetupRun(m, cmds))
    <2> HIDE DEF R
    <2> QED
      BY <1>5, <1>6, Zenon
  <1> QED
    BY <1>7
\* So is Asked.
LEMMA AskedDef ==
    ASSUME NEW cmds, Len(cmds) \in Nat
    PROVE  LET asked == Asked(cmds)
           IN  asked = [i \in 0 .. Len(cmds) |->
                          IF i = 0 THEN <<>>
                          ELSE IF cmds[i].c \in Answerable THEN Append(asked[i - 1], cmds[i])
                          ELSE asked[i - 1]]
  <1> DEFINE Grown(a, c) == IF c.c \in Answerable THEN Append(a, c) ELSE a
             Step(g, i) == IF i = 0 THEN <<>>
                           ELSE IF cmds[i].c \in Answerable THEN Append(g[i - 1], cmds[i])
                           ELSE g[i - 1]
             Has(n) == \E g : g = [i \in 0 .. n |-> Step(g, i)]
             S == {n \in Nat : Has(n)}
  <1>1. 0 \in S
    <2> DEFINE g == [i \in 0 .. 0 |-> <<>>]
    <2>1. g = [i \in 0 .. 0 |-> Step(g, i)]
      OBVIOUS
    <2> QED
      BY <2>1
  <1>2. ASSUME NEW n \in S
        PROVE  n + 1 \in S
    <2>1. n \in Nat /\ Has(n)
      OBVIOUS
    <2>2. PICK g : g = [i \in 0 .. n |-> Step(g, i)]
      BY <2>1
    <2> DEFINE h == [i \in 0 .. n + 1 |-> IF i <= n THEN g[i] ELSE Grown(g[n], cmds[n + 1])]
    <2>3. ASSUME NEW i \in 0 .. n + 1
          PROVE  h[i] = Step(h, i)
      <3>1. CASE i = 0
        BY <2>1, <2>2, <3>1
      <3>2. CASE i \in 1 .. n
        <4>1. h[i] = g[i] /\ h[i - 1] = g[i - 1]
          BY <2>1, <3>2
        <4>2. g[i] = Grown(g[i - 1], cmds[i])
          <5>1. i \in 0 .. n /\ i # 0
            BY <2>1, <3>2
          <5>2. g[i] = Step(g, i)
            BY <2>2, <5>1
          <5> QED
            BY <5>1, <5>2
        <4> HIDE DEF h
        <4> QED
          BY <2>1, <3>2, <4>1, <4>2
      <3>3. CASE i = n + 1
        <4>1. h[i] = Grown(g[n], cmds[i]) /\ h[i - 1] = g[n] /\ i # 0
          BY <2>1, <3>3
        <4> HIDE DEF h
        <4> QED
          BY <4>1
      <3> QED
        BY <2>1, <3>1, <3>2, <3>3
    <2>4. h = [i \in 0 .. n + 1 |-> h[i]]
      OBVIOUS
    <2> HIDE DEF h
    <2>5. h = [i \in 0 .. n + 1 |-> Step(h, i)]
      BY <2>3, <2>4
    <2>6. Has(n + 1)
      BY <2>5, Zenon
    <2> HIDE DEF Has
    <2> QED
      BY <2>1, <2>6
  <1>3. Len(cmds) \in S
    <2> HIDE DEF S, Has
    <2>1. S \subseteq Nat
      BY DEF S
    <2> QED
      BY <1>1, <1>2, <2>1, AllNaturals
  <1>4. \E g : g = [i \in 0 .. Len(cmds) |-> Step(g, i)]
    BY <1>3
  <1> HIDE DEF S
  <1> DEFINE R(g) == g = [i \in 0 .. Len(cmds) |-> Step(g, i)]
  <1>5. Asked(cmds) = CHOOSE g : R(g)
    BY DEF Asked
  <1>6. \E g : R(g)
    BY <1>4
  <1>7. R(Asked(cmds))
    <2> HIDE DEF R
    <2> QED
      BY <1>5, <1>6, Zenon
  <1> QED
    BY <1>7

\* What a message answers: as many answers as commands that owe one, of the
\* same kinds in the same order; a closing status lists the sessions there are.
AnswersTo(C) == {Answer(c.c, groups) : c \in C, groups \in SUBSET Groups}

Answered(package, asked, C) ==
    LET n == Len(asked)
        answers == package.pending_uplinks
    IN /\ asked \in Seq(C) /\ answers \in Seq(AnswersTo(C))
       /\ Len(answers) = n
       /\ \A i \in 1 .. n : answers[i].c = asked[i].c
       /\ n > 0 /\ asked[n].c = "McGroupStatusReq" =>
              answers[n].groups = Active(package.sessions) \cap asked[n].mask

\* One more command.
LEMMA CommandAnswered ==
    ASSUME NEW C, NEW cmd \in C, NEW package, NEW asked, Answered(package, asked, C)
    PROVE  Answered(SetupCommand(package, cmd),
                    IF cmd.c \in Answerable THEN Append(asked, cmd) ELSE asked, C)
  <1> DEFINE n == Len(asked)
             answers == package.pending_uplinks
             after == SetupCommand(package, cmd)
             Replies(s, groups) ==
                 /\ after = [sessions |-> s,
                             pending_uplinks |-> Append(answers, Answer(cmd.c, groups))]
                 /\ cmd.c = "McGroupStatusReq" => groups = Active(s) \cap cmd.mask
  <1>1. CASE cmd.c \notin Answerable
    <2>1. after = package
      BY <1>1 DEF SetupCommand, Answerable
    <2> QED
      BY <1>1, <2>1
  <1>2. CASE cmd.c \in Answerable
    <2>1. PICK groups \in SUBSET Groups :
              /\ after.pending_uplinks = Append(answers, Answer(cmd.c, groups))
              /\ cmd.c = "McGroupStatusReq" =>
                     groups = Active(after.sessions) \cap cmd.mask
      <3>1. \E s : \E groups \in SUBSET Groups : Replies(s, groups)
        <4>1. CASE cmd.c \in {"McGroupSetupReq", "PackageVersionReq"}
          <5>1. \E s : after = [sessions |-> s,
                                pending_uplinks |-> Append(answers, Answer(cmd.c, {}))]
            BY <4>1 DEF SetupCommand
          <5>2. PICK s : after = [sessions |-> s,
                                  pending_uplinks |-> Append(answers, Answer(cmd.c, {}))]
            BY <5>1
          <5>3. Replies(s, {}) /\ {} \in SUBSET Groups
            BY <4>1, <5>2
          <5> HIDE DEF Replies
          <5> QED
            BY <5>3
        <4>2. CASE cmd.c = "McGroupDeleteReq"
          <5> DEFINE gs == Active(package.sessions) \cap {cmd.group}
          <5>1. \E s : after = [sessions |-> s,
                                pending_uplinks |-> Append(answers, Answer(cmd.c, gs))]
            BY <4>2 DEF SetupCommand
          <5>2. PICK s : after = [sessions |-> s,
                                  pending_uplinks |-> Append(answers, Answer(cmd.c, gs))]
            BY <5>1
          <5>3. Replies(s, gs) /\ gs \in SUBSET Groups
            BY <4>2, <5>2 DEF Active
          <5> HIDE DEF Replies, gs
          <5> QED
            BY <5>3
        <4>3. CASE cmd.c = "McGroupStatusReq"
          <5> DEFINE gs == Active(package.sessions) \cap cmd.mask
          <5>1. after = [sessions |-> package.sessions,
                         pending_uplinks |-> Append(answers, Answer(cmd.c, gs))]
            BY <4>3 DEF SetupCommand
          <5>2. Replies(package.sessions, gs) /\ gs \in SUBSET Groups
            BY <5>1 DEF Active
          <5> HIDE DEF Replies, gs
          <5> QED
            BY <5>2
        <4> QED
          BY <1>2, <4>1, <4>2, <4>3 DEF Answerable
      <3> HIDE DEF Replies
      <3>2. PICK s : \E groups \in SUBSET Groups : Replies(s, groups)
        BY <3>1
      <3> HIDE DEF after
      <3> QED
        BY <3>2 DEF Replies
    <2> DEFINE answer == Answer(cmd.c, groups)
    <2>2. /\ asked \in Seq(C) /\ answers \in Seq(AnswersTo(C)) /\ Len(answers) = n /\ n \in Nat
          /\ \A i \in 1 .. n : answers[i].c = asked[i].c
      BY DEF Answered
    <2>3. answer \in AnswersTo(C) /\ answer.c = cmd.c /\ answer.groups = groups
      BY DEF AnswersTo, Answer
    <2> HIDE DEF after, n, answers, answer
    <2>4. /\ Append(asked, cmd) \in Seq(C) /\ Len(Append(asked, cmd)) = n + 1
          /\ Append(asked, cmd)[n + 1] = cmd
          /\ \A i \in 1 .. n : Append(asked, cmd)[i] = asked[i]
      BY <2>2 DEF n
    <2>5. /\ Append(answers, answer) \in Seq(AnswersTo(C))
          /\ Len(Append(answers, answer)) = n + 1
          /\ Append(answers, answer)[n + 1] = answer
          /\ \A i \in 1 .. n : Append(answers, answer)[i] = answers[i]
      BY <2>2, <2>3
    <2>6. after.pending_uplinks = Append(answers, answer)
      BY <2>1 DEF answer
    <2>7. \A i \in 1 .. n + 1 : Append(answers, answer)[i].c = Append(asked, cmd)[i].c
      BY <2>2, <2>3, <2>4, <2>5
    <2>8. Answered(after, Append(asked, cmd), C)
      BY <2>1, <2>2, <2>3, <2>4, <2>5, <2>6, <2>7 DEF Answered
    <2> QED
      BY <1>2, <2>8 DEF after
  <1> QED
    BY <1>1, <1>2

\* Every number of commands of a message.
LEMMA MessageAnswered ==
    ASSUME NEW C, NEW cmds \in Seq(C), NEW m, m.pending_uplinks = <<>>
    PROVE  Answered(SetupRun(m, cmds)[Len(cmds)], Asked(cmds)[Len(cmds)], C)
  <1> DEFINE run == SetupRun(m, cmds)
             asked == Asked(cmds)
             S == {i \in Nat : i <= Len(cmds) => Answered(run[i], asked[i], C)}
  <1>1. Len(cmds) \in Nat
    OBVIOUS
  <1>2. /\ run[0] = [sessions |-> m.sessions, pending_uplinks |-> <<>>]
        /\ \A i \in 1 .. Len(cmds) : run[i] = SetupCommand(run[i - 1], cmds[i])
    BY <1>1, SetupRunDef
  <1>3. /\ asked[0] = <<>>
        /\ \A i \in 1 .. Len(cmds) :
              asked[i] = IF cmds[i].c \in Answerable THEN Append(asked[i - 1], cmds[i])
                         ELSE asked[i - 1]
    BY <1>1, AskedDef
  <1> HIDE DEF run, asked
  <1>4. 0 \in S
    <2>1. Answered(run[0], asked[0], C)
      BY <1>2, <1>3 DEF Answered
    <2> QED
      BY <2>1
  <1>5. ASSUME NEW i \in S
        PROVE  i + 1 \in S
    <2> SUFFICES ASSUME i + 1 <= Len(cmds)
                 PROVE  Answered(run[i + 1], asked[i + 1], C)
      OBVIOUS
    <2>1. Answered(run[i], asked[i], C)
      BY <1>1
    <2>2. i + 1 \in 1 .. Len(cmds) /\ (i + 1) - 1 = i
      BY <1>1
    <2>3. cmds[i + 1] \in C
      BY <2>2
    <2>4. run[i + 1] = SetupCommand(run[i], cmds[i + 1])
      BY <1>2, <2>2
    <2>5. asked[i + 1] = IF cmds[i + 1].c \in Answerable THEN Append(asked[i], cmds[i + 1])
                         ELSE asked[i]
      BY <1>3, <2>2
    <2>6. Answered(SetupCommand(run[i], cmds[i + 1]),
                   IF cmds[i + 1].c \in Answerable THEN Append(asked[i], cmds[i + 1])
                   ELSE asked[i], C)
      BY <2>1, <2>3, CommandAnswered
    <2> QED
      BY <2>4, <2>5, <2>6
  <1>6. Len(cmds) \in S
    <2> HIDE DEF S
    <2>1. S \subseteq Nat
      BY DEF S
    <2> QED
      BY <1>1, <1>4, <1>5, <2>1, AllNaturals
  <1> QED
    BY <1>1, <1>6 DEF run, asked

\* The commands up to the first that does not parse.
LEMMA WellFormedSequence ==
    ASSUME NEW C, NEW cmds \in Seq(C)
    PROVE  WellFormed(cmds) \in Seq(C)
  <1> DEFINE I == {i \in 1 .. Len(cmds) : cmds[i].c = "Malformed"}
             k == SelectInSeq(cmds, LAMBDA c : c.c = "Malformed")
  <1>1. CASE I = {}
    BY <1>1 DEF WellFormed
  <1>2. CASE I # {}
    <2>1. k = CHOOSE x \in I : \A y \in I : x <= y
      BY <1>2 DEF SelectInSeq, Min
    <2>2. \E x \in I : \A y \in I : x <= y
      <3>1. I \subseteq Nat
        OBVIOUS
      <3> HIDE DEF I
      <3> QED
        BY <1>2, <3>1, LeastNatural
    <2>3. k \in 1 .. Len(cmds)
      BY <2>1, <2>2
    <2>4. WellFormed(cmds) = SubSeq(cmds, 1, k - 1)
      <3>1. DOMAIN cmds = 1 .. Len(cmds)
        OBVIOUS
      <3>2. \E i \in DOMAIN cmds : cmds[i].c = "Malformed"
        BY <1>2, <3>1
      <3> QED
        BY <3>2, Zenon DEF WellFormed
    <2> HIDE DEF k, I
    <2> QED
      BY <2>3, <2>4, SubSeqProperties
  <1> QED
    BY <1>1, <1>2

-----------------------------------------------------------------------------
(* Multicast answers match their request.                                  *)

\* Short of a panic no answer waits for a frame, and the one on the air is the one asked for.
Answering ==
    /\ IF task.at = "panic" THEN task.airing = "none" ELSE mac.pending_uplinks = <<>>
    /\ AnswersMatchRequest

\* The handlers that leave the pending answers alone.
LEMMA PendingKept ==
    ASSUME NEW m, MacShape(m)
    PROVE  /\ Push(m).pending_uplinks = m.pending_uplinks
           /\ \A confirmed :
                PrepareBuffer(m, confirmed).pending_uplinks = m.pending_uplinks
           /\ CertificationSetupSend(m).pending_uplinks = m.pending_uplinks
           /\ MulticastSetupSend(m).pending_uplinks = <<>>
           /\ MulticastSetupSend(m).sessions = m.sessions
           /\ Rx2Complete(m).mac.pending_uplinks = m.pending_uplinks
           /\ \A r : DirectOutcome(m, r).mac.pending_uplinks = m.pending_uplinks
           /\ \A f : McHandleRx(m, f).mac.pending_uplinks = m.pending_uplinks
           /\ \A cmds : HandleCertification(m, cmds).mac.pending_uplinks = m.pending_uplinks
  <1>1. \A n : MacShape(n) => Push(n).pending_uplinks = n.pending_uplinks
    BY DEF MacShape, Push
  <1>2. ASSUME NEW confirmed
        PROVE  PrepareBuffer(m, confirmed).pending_uplinks = m.pending_uplinks
    <2> DEFINE c == CASE m.override_confirmed = "none" -> confirmed
                      [] OTHER -> m.override_confirmed = "Confirmed"
    <2>1. PrepareBuffer(m, confirmed) = [m EXCEPT !.link_check = FALSE, !.confirmed = c]
      BY DEF PrepareBuffer
    <2> HIDE DEF c
    <2> QED
      BY <2>1 DEF MacShape
  <1>3. CertificationSetupSend(m).pending_uplinks = m.pending_uplinks
    BY <1>2 DEF CertificationSetupSend
  <1>4. MulticastSetupSend(m).pending_uplinks = <<>>
    <2>1. MacShape(PrepareBuffer(m, FALSE))
      BY SendKeeps DEF Keeps
    <2> QED
      BY <2>1 DEF MulticastSetupSend, MacShape
  <1>5. MulticastSetupSend(m).sessions = m.sessions
    BY SendKeeps DEF Keeps
  <1>6. \A n : MacShape(n) => Rx2Complete(n).mac.pending_uplinks = n.pending_uplinks
    BY DEF MacShape, Rx2Complete, Result
  <1>7. ASSUME NEW r
        PROVE  DirectOutcome(m, r).mac.pending_uplinks = m.pending_uplinks
    <2>1. CASE r = "LinkCheckReq"
      <3>1. PICK n : n = [m EXCEPT !.link_check = TRUE]
        OBVIOUS
      <3>2. MacShape(n) /\ n.pending_uplinks = m.pending_uplinks
        BY <3>1 DEF MacShape
      <3>3. DirectOutcome(m, r) = Rx2Complete(n)
        BY <2>1, <3>1 DEF DirectOutcome
      <3> QED
        BY <1>6, <3>2, <3>3
    <2>2. CASE r # "LinkCheckReq"
      BY <2>2 DEF DirectOutcome, Result
    <2> QED
      BY <2>1, <2>2
  <1>8. ASSUME NEW f
        PROVE  McHandleRx(m, f).mac.pending_uplinks = m.pending_uplinks
    <2>1. CASE ~McAccepts(m, f)
      BY <2>1 DEF McHandleRx, Result
    <2>2. CASE McAccepts(m, f)
      <3>1. \E sessions : \E n : \E r :
                /\ n = [m EXCEPT !.sessions = sessions]
                /\ McHandleRx(m, f) = Result(n, r) \/ McHandleRx(m, f) = Result(Push(n), r)
        BY <2>2, Zenon DEF McHandleRx
      <3>2. PICK sessions, n, r :
                /\ n = [m EXCEPT !.sessions = sessions]
                /\ McHandleRx(m, f) = Result(n, r) \/ McHandleRx(m, f) = Result(Push(n), r)
        BY <3>1
      <3>3. MacShape(n) /\ n.pending_uplinks = m.pending_uplinks
        BY <3>2 DEF MacShape
      <3>4. McHandleRx(m, f).mac = n \/ McHandleRx(m, f).mac = Push(n)
        BY <3>2 DEF Result
      <3>5. Push(n).pending_uplinks = n.pending_uplinks
        BY <1>1, <3>3
      <3> QED
        BY <3>3, <3>4, <3>5
    <2> QED
      BY <2>1, <2>2
  <1>9. ASSUME NEW cmds
        PROVE  HandleCertification(m, cmds).mac.pending_uplinks = m.pending_uplinks
    <2> DEFINE c == DutEffect(cmds)
               h == HandleCertification(m, cmds)
    <2>1. \/ h.mac = m
          \/ h.mac = [m EXCEPT !.cert_uplink = c]
          \/ h.mac = Push([m EXCEPT !.adr_enabled = (c = "AdrOn")])
          \/ h.mac = Push([m EXCEPT !.override_confirmed = c])
          \/ h.mac = Push(m)
      BY DEF HandleCertification, Result
    <2> HIDE DEF c, h
    <2> DEFINE Same(n) == MacShape(n) /\ n.pending_uplinks = m.pending_uplinks
    <2>2. \A a : /\ Same([m EXCEPT !.cert_uplink = a])
                 /\ Same([m EXCEPT !.adr_enabled = a])
                 /\ Same([m EXCEPT !.override_confirmed = a])
      BY DEF MacShape
    <2>3. \A n : Same(n) => Same(Push(n))
      BY <1>1, PushKeeps DEF Keeps
    <2>4. Same(m)
      OBVIOUS
    <2>5. Same(h.mac)
      <3> HIDE DEF Same
      <3> QED
        BY <2>1, <2>2, <2>3, <2>4
    <2> QED
      BY <2>5 DEF h
  <1> QED
    BY <1>1, <1>2, <1>3, <1>4, <1>5, <1>6, <1>7, <1>8, <1>9

\* A step that neither adds an answer nor starts to send one.
LEMMA NothingAnswered ==
    ASSUME task'.airing \notin {"mc", "mcNew"},
           IF task'.at = "panic" THEN task'.airing = "none" ELSE mac'.pending_uplinks = <<>>
    PROVE  Answering'
  BY DEF Answering, AnswersMatchRequest

\* A message on the setup port.
LEMMA SetupAnswers ==
    ASSUME NEW m, MacShape(m), m.pending_uplinks = <<>>, NEW cmds
    PROVE  LET h == HandleSetupMessage(m, cmds)
               ok == WellFormed(cmds)
           IN  \/ h.mac.pending_uplinks = <<>> /\ h.r \in {"NoUpdate", "panic"}
               \/ /\ h.r \in {"panic", "McTransmitRequest", "McGroupSetupTransmitRequest"}
                  /\ h.mac.pending_uplinks # <<>>
                  /\ h.mac.sessions = SetupRun(m, ok)[Len(ok)].sessions
                  /\ h.mac.pending_uplinks = SetupRun(m, ok)[Len(ok)].pending_uplinks
  <1> DEFINE ok == WellFormed(cmds)
             package == SetupRun(m, ok)[Len(ok)]
             n == [m EXCEPT !.sessions = package.sessions,
                            !.pending_uplinks = package.pending_uplinks]
             h == HandleSetupMessage(m, cmds)
  <1>1. \/ h = Result(m, "NoUpdate")
        \/ n.pending_uplinks = <<>> /\ h \in {Result(n, "NoUpdate"), Result(n, "panic")}
        \/ /\ n.pending_uplinks # <<>>
           /\ \E r \in {"panic", "McGroupSetupTransmitRequest", "McTransmitRequest"} :
                h = Result(n, r)
    BY DEF HandleSetupMessage
  <1> HIDE DEF package, h
  <1>2. n.sessions = package.sessions /\ n.pending_uplinks = package.pending_uplinks
    <2>1. PICK k : k = n
      OBVIOUS
    <2>2. k.sessions = package.sessions /\ k.pending_uplinks = package.pending_uplinks
      BY <2>1 DEF MacShape
    <2> QED
      BY <2>1, <2>2
  <1> HIDE DEF n
  <1> QED
    BY <1>1, <1>2 DEF Result, package, h

\* What any frame does to the answers: nothing, or it is answered as a whole.
RxAnswers(f, h) ==
    LET ok == WellFormed(f.cmds)
    IN  \/ /\ h.mac.pending_uplinks = <<>>
           /\ h.r \notin {"McTransmitRequest", "McGroupSetupTransmitRequest"}
        \/ h.r = "panic"
        \/ /\ h.r \in {"McTransmitRequest", "McGroupSetupTransmitRequest"}
           /\ f.port \notin DefaultMcPortRange \cup {CertificationPort}
           /\ h.mac.pending_uplinks # <<>>
           /\ \E n : /\ n.pending_uplinks = <<>>
                     /\ h.mac.sessions = SetupRun(n, ok)[Len(ok)].sessions
                     /\ h.mac.pending_uplinks = SetupRun(n, ok)[Len(ok)].pending_uplinks

LEMMA RxAnswered ==
    ASSUME NEW m, MacShape(m), m.pending_uplinks = <<>>, NEW f
    PROVE  RxAnswers(f, HandleRx(m, f))
  <1> DEFINE n == [m EXCEPT !.fcnt_up = @ + 1]
             h == HandleRx(m, f)
             Sending == {"McTransmitRequest", "McGroupSetupTransmitRequest"}
  <1>1. CASE f.port \in DefaultMcPortRange
    <2>1. h = McHandleRx(m, f)
      BY <1>1 DEF HandleRx
    <2>2. h.mac.pending_uplinks = <<>>
      BY <2>1, PendingKept
    <2>3. h.r \notin Sending
      BY <2>1 DEF McHandleRx, Result
    <2> QED
      BY <2>2, <2>3 DEF RxAnswers
  <1>2. CASE f.port \notin DefaultMcPortRange /\ m.fcnt_up = MaxFcntUp
    BY <1>2 DEF HandleRx, RxAnswers, Result
  <1>3. CASE f.port \notin DefaultMcPortRange /\ m.fcnt_up # MaxFcntUp
    <2>1. h = HandlePort(n, f)
      BY <1>3 DEF HandleRx
    <2>2. MacShape(n) /\ n.pending_uplinks = <<>>
      <3>1. PICK k : k = n
        OBVIOUS
      <3>2. MacShape(k) /\ k.pending_uplinks = <<>>
        BY <3>1 DEF MacShape
      <3> QED
        BY <3>1, <3>2
    <2> HIDE DEF n, h
    <2>3. CASE f.port = CertificationPort
      <3>1. h = HandleCertification(n, f.cmds)
        BY <2>1, <2>3 DEF HandlePort
      <3>2. h.mac.pending_uplinks = <<>>
        BY <2>2, <3>1, PendingKept
      <3>3. h.r \notin Sending
        BY <3>1 DEF HandleCertification, Result
      <3> QED
        BY <3>2, <3>3 DEF RxAnswers, h
    <2>4. CASE f.port # CertificationPort /\ f.port = m.remote_setup_port
      <3>1. h = HandleSetupMessage(n, f.cmds)
        <4>1. n.remote_setup_port = m.remote_setup_port
          BY DEF n, MacShape
        <4> QED
          BY <2>1, <2>4, <4>1 DEF HandlePort
      <3> DEFINE ok == WellFormed(f.cmds)
      <3>2. \/ h.mac.pending_uplinks = <<>> /\ h.r \in {"NoUpdate", "panic"}
            \/ /\ h.r \in {"panic", "McTransmitRequest", "McGroupSetupTransmitRequest"}
               /\ h.mac.pending_uplinks # <<>>
               /\ h.mac.sessions = SetupRun(n, ok)[Len(ok)].sessions
               /\ h.mac.pending_uplinks = SetupRun(n, ok)[Len(ok)].pending_uplinks
        BY <2>2, <3>1, SetupAnswers
      <3> QED
        BY <1>3, <2>2, <2>4, <3>2 DEF RxAnswers, h
    <2>5. CASE f.port # CertificationPort /\ f.port # m.remote_setup_port
      <3>1. h = Result(Push(n), "DownlinkReceived")
        <4>1. n.remote_setup_port = m.remote_setup_port
          BY DEF n, MacShape
        <4> QED
          BY <2>1, <2>5, <4>1 DEF HandlePort
      <3> QED
        BY <2>2, <3>1, PendingKept DEF Result, RxAnswers, h
    <2> QED
      BY <2>3, <2>4, <2>5
  <1> QED
    BY <1>1, <1>2, <1>3

\* What a command goes out with matches what was asked.
LEMMA AnswerMatches ==
    ASSUME NEW C, NEW cmds \in Seq(C), NEW n, n.pending_uplinks = <<>>,
           LET package == SetupRun(n, WellFormed(cmds))[Len(WellFormed(cmds))]
           IN  /\ package.pending_uplinks # <<>>
               /\ air'.payload = package.pending_uplinks
               /\ air'.request = cmds
               /\ mac'.sessions = package.sessions
    PROVE  AnswersMatchRequest'
  <1> DEFINE ok == WellFormed(cmds)
             package == SetupRun(n, ok)[Len(ok)]
             asked == Asked(ok)[Len(ok)]
             k == Len(asked)
  <1>1. ok \in Seq(C)
    BY WellFormedSequence
  <1>2. Answered(package, asked, C)
    BY <1>1, MessageAnswered
  <1>3. /\ air'.payload = package.pending_uplinks /\ air'.payload # <<>>
        /\ WellFormed(air'.request) = ok
        /\ mac'.sessions = package.sessions
    OBVIOUS
  <1> HIDE DEF ok, package, asked, k
  <1>4. /\ Len(air'.payload) = k
        /\ \A i \in 1 .. k : air'.payload[i].c = asked[i].c
        /\ k > 0 /\ asked[k].c = "McGroupStatusReq" =>
              air'.payload[k].groups = Active(mac'.sessions) \cap asked[k].mask
        /\ k \in Nat
    BY <1>2, <1>3 DEF Answered, k
  <1>5. k > 0
    <2>1. air'.payload \in Seq(AnswersTo(C))
      BY <1>2, <1>3 DEF Answered
    <2> QED
      BY <1>3, <1>4, <2>1
  <1> QED
    BY <1>3, <1>4, <1>5 DEF AnswersMatchRequest, asked, k

\* The caller of handle_mac_response adds no answer and sends none.
LEMMA ResolveAnswers ==
    ASSUME NEW at, NEW m, MacShape(m), m.pending_uplinks = <<>>, NEW r, Resolve(at, m, r)
    PROVE  mac'.pending_uplinks = <<>> /\ task'.airing = "none"
  <1>1. /\ Idle.airing = "none" /\ Panic.airing = "none"
        /\ \A a, c : Task(a, "none", c).airing = "none"
    BY DEF Idle, Panic, Task
  <1>2. CASE at \in {"bw1", "bw2"}
    <2>1. mac' = m /\ \E a, k : task' = Task(a, "none", k)
      BY <1>2 DEF Resolve
    <2> QED
      BY <1>1, <2>1
  <1>3. CASE at = "rx1" /\ r = "none"
    <2>1. mac' = m /\ task' = Task("bw2", "none", "none")
      BY <1>3 DEF Resolve
    <2> QED
      BY <1>1, <2>1
  <1>4. CASE at = "rx2" /\ r = "none"
    <2>1. mac' = Rx2Complete(m).mac /\ task' = Idle
      BY <1>4 DEF Resolve
    <2> QED
      BY <1>1, <2>1, PendingKept
  <1>5. CASE at \notin {"bw1", "bw2"} /\ ~(at = "rx1" /\ r = "none") /\ ~(at = "rx2" /\ r = "none")
    <2>1. mac' = m /\ task' \in {Idle, Panic}
      BY <1>5 DEF Resolve
    <2> QED
      BY <1>1, <2>1
  <1> QED
    BY <1>2, <1>3, <1>4, <1>5

\* A frame, of which only the setup port looks at the commands.
LEMMA ReceiveAnswers ==
    ASSUME IInv, Answering, NEW f, Receive(f),
           \/ f.port \in DefaultMcPortRange \cup {CertificationPort}
           \/ \E C : f.cmds \in Seq(C)
    PROVE  Answering'
  <1> DEFINE h == HandleRx(mac, f)
             o == DirectOutcome(h.mac, h.r)
             Sending == {"McTransmitRequest", "McGroupSetupTransmitRequest"}
             ok == WellFormed(f.cmds)
  <1>1. task.at # "panic" /\ task.airing = "none"
    BY DEF Receive, Listening
  <1>2. mac.pending_uplinks = <<>> /\ MacShape(mac) /\ TaskShape(task)
    BY <1>1 DEF Answering, IInv
  <1>3. RxAnswers(f, h)
    BY <1>2, RxAnswered
  <1>4. MacShape(h.mac)
    BY <1>2, RxHandled DEF IInv, Counting, RxEffect, MulticastEffect
  <1>5. CASE h.r = "panic"
    <2>1. task' = Panic
      BY <1>5 DEF Receive
    <2>2. task'.at = "panic" /\ task'.airing = "none"
      BY <2>1 DEF Panic, Task
    <2> QED
      BY <2>2, NothingAnswered
  <1>6. CASE h.r = "UplinkPrepared"
    <2>1. mac' = CertificationSetupSend(h.mac) /\ task' = [task EXCEPT !.airing = "cert"]
      BY <1>6 DEF Receive
    <2>2. h.mac.pending_uplinks = <<>>
      BY <1>3, <1>6 DEF RxAnswers
    <2>3. mac'.pending_uplinks = <<>>
      BY <1>4, <2>1, <2>2, PendingKept
    <2>4. task'.airing = "cert" /\ task'.at = task.at
      BY <1>2, <2>1 DEF TaskShape, Task
    <2> QED
      BY <1>1, <2>3, <2>4, NothingAnswered
  <1>7. CASE h.r \in Sending
    <2>1. /\ mac' = MulticastSetupSend(h.mac)
          /\ task' = [task EXCEPT !.airing = IF h.r = "McTransmitRequest" THEN "mc" ELSE "mcNew"]
          /\ Airs(h.mac, h.mac.pending_uplinks, f.cmds)
      BY <1>7 DEF Receive
    <2>2. PICK n : /\ n.pending_uplinks = <<>>
                   /\ h.mac.sessions = SetupRun(n, ok)[Len(ok)].sessions
                   /\ h.mac.pending_uplinks = SetupRun(n, ok)[Len(ok)].pending_uplinks
      BY <1>3, <1>7 DEF RxAnswers
    <2>3. /\ h.mac.pending_uplinks # <<>>
          /\ f.port \notin DefaultMcPortRange \cup {CertificationPort}
      BY <1>3, <1>7 DEF RxAnswers
    <2>4. PICK C : f.cmds \in Seq(C)
      BY <2>3
    <2>5. air'.payload = h.mac.pending_uplinks /\ air'.request = f.cmds
      BY <2>1 DEF Airs
    <2>6. mac'.sessions = h.mac.sessions /\ mac'.pending_uplinks = <<>>
      BY <1>4, <2>1, PendingKept
    <2>7. task'.at = task.at
      BY <1>2, <2>1 DEF TaskShape, Task
    <2> HIDE DEF h
    <2>8. AnswersMatchRequest'
      BY <2>2, <2>3, <2>4, <2>5, <2>6, AnswerMatches
    <2> QED
      BY <1>1, <2>6, <2>7, <2>8 DEF Answering
  <1>8. CASE h.r \notin {"panic", "UplinkPrepared"} \cup Sending
    <2>1. Resolve(task.at, o.mac, o.r)
      BY <1>8 DEF Receive
    <2>2. h.mac.pending_uplinks = <<>>
      BY <1>3, <1>8 DEF RxAnswers
    <2> HIDE DEF h
    <2>3. MacShape(o.mac) /\ o.mac.pending_uplinks = <<>>
      BY <1>4, <2>2, DirectEffect, PendingKept DEF DirectResult
    <2> HIDE DEF o
    <2>4. mac'.pending_uplinks = <<>> /\ task'.airing = "none"
      BY <2>1, <2>3, ResolveAnswers
    <2> QED
      BY <2>4, NothingAnswered
  <1> QED
    BY <1>5, <1>6, <1>7, <1>8

\* The application's calls leave a device at rest without answers.
LEMMA AtRestAnswers ==
    ASSUME Answering, AtRest, task' = task, mac'.pending_uplinks = mac.pending_uplinks
    PROVE  Answering'
  <1>1. task.at # "panic" /\ task.airing = "none"
    BY DEF AtRest, Idle, Task
  <1> QED
    BY <1>1, NothingAnswered DEF Answering

\* Every step keeps the answers in order.
LEMMA NextAnswering == IInv /\ Answering /\ [Next]_vars => Answering'
  <1> SUFFICES ASSUME IInv, Answering, [Next]_vars PROVE Answering'
    OBVIOUS
  <1>1. CASE \/ SetMulticastKeKey
             \/ \E a \in ApiSessions : SetMulticastSession(a[1], a[2])
             \/ \E p \in SetupPorts : SetRemoteSetupPort(p)
             \/ \E on \in BOOLEAN : EnableClassC(on)
             \/ TakeDownlink
    <2>1. /\ AtRest /\ task' = task
          /\ \/ mac' = [mac EXCEPT !.ke_key = TRUE]
             \/ \E s : mac' = [mac EXCEPT !.sessions = s]
             \/ \E p : mac' = [mac EXCEPT !.remote_setup_port = p]
             \/ \E on : mac' = [mac EXCEPT !.class_c = on]
             \/ mac' = [mac EXCEPT !.downlink = @ - 1]
      BY <1>1 DEF SetMulticastKeKey, SetMulticastSession, SetRemoteSetupPort, EnableClassC,
                  TakeDownlink
    <2>2. mac'.pending_uplinks = mac.pending_uplinks
      BY <2>1 DEF IInv, MacShape
    <2> QED
      BY <2>1, <2>2, AtRestAnswers
  <1>2. ASSUME NEW confirmed \in BOOLEAN, Send(confirmed)
        PROVE  Answering'
    <2>1. mac.pending_uplinks = <<>>
      BY <1>2 DEF Send, AtRest, Answering, Idle, Task
    <2>2. mac'.pending_uplinks = <<>>
      BY <1>2, <2>1, PendingKept DEF Send, IInv
    <2>3. task'.airing = "data" /\ task'.at = "tx"
      BY <1>2 DEF Send, Task
    <2> QED
      BY <2>2, <2>3, NothingAnswered
  <1>3. CASE TxDone \/ WindowOpens
    <2>1. mac' = mac /\ task.at # "panic" /\ task'.airing = "none"
      BY <1>3 DEF TxDone, WindowOpens, Window, Task
    <2> QED
      BY <2>1, NothingAnswered DEF Answering
  <1>4. CASE RxTimeout
    <2>1. mac.pending_uplinks = <<>> /\ Resolve(task.at, mac, "none")
      BY <1>4 DEF RxTimeout, Answering
    <2> QED
      BY <2>1, ResolveAnswers, NothingAnswered DEF IInv
  <1>5. CASE ReceiveApp \/ ReceiveSetup \/ ReceiveCertification
    <2>1. PICK port, cmds :
              /\ Receive(Unicast(port, cmds))
              /\ port = CertificationPort \/ \E C : cmds \in Seq(C)
      <3>1. <<>> \in Seq({})
        OBVIOUS
      <3>2. \A s \in SetupMessages : \E C : s \in Seq(C)
        BY PackagesAssumption
      <3> QED
        BY <1>5, <3>1, <3>2 DEF ReceiveApp, ReceiveSetup, ReceiveCertification
    <2>2. Unicast(port, cmds).port = port /\ Unicast(port, cmds).cmds = cmds
      BY DEF Unicast
    <2> QED
      BY <2>1, <2>2, ReceiveAnswers
  <1>6. CASE ReceiveMulticast
    <2>1. PICK f \in McFrames : Receive(f)
      BY <1>6 DEF ReceiveMulticast
    <2>2. f.port \in DefaultMcPortRange
      BY PackagesAssumption DEF DefaultMcPortRange
    <2> QED
      BY <2>1, <2>2, ReceiveAnswers
  <1>7. CASE AnswerSent
    <2> DEFINE o == IF task.airing = "cert" THEN CertComplete(mac) ELSE McComplete(mac, task.airing)
    <2>1. Resolve(task.at, o.mac, o.r) /\ task.airing \in {"cert", "mc", "mcNew"}
      BY <1>7 DEF AnswerSent
    <2>2. mac.pending_uplinks = <<>>
      BY <2>1 DEF Answering
    <2>3. MacShape(o.mac) /\ o.mac.pending_uplinks = <<>>
      BY <2>2, CompleteCounts, PendingKept DEF CertComplete, McComplete, Result, IInv, Completes
    <2> HIDE DEF o
    <2> QED
      BY <2>1, <2>3, ResolveAnswers, NothingAnswered
  <1>8. CASE Fail
    <2>1. task.at # "panic" /\ mac' = mac /\ task' = Idle
      BY <1>8 DEF Fail, Answering
    <2>2. task'.at = "idle" /\ task'.airing = "none"
      BY <2>1 DEF Idle, Task
    <2> QED
      BY <2>1, <2>2, NothingAnswered DEF Answering
  <1>9. CASE UNCHANGED vars
    BY <1>9 DEF vars, Answering, AnswersMatchRequest
  <1> QED
    BY <1>1, <1>2, <1>3, <1>4, <1>5, <1>6, <1>7, <1>8, <1>9 DEF Next

\* A multicast answer on the air holds one answer for each command of the setup
\* message that caused it, in order, and nothing left from an earlier one, for
\* messages of any length (Multicast::handle_setup_message, setup_send).
THEOREM PackagesAnswersMatchRequest == Spec => []AnswersMatchRequest
  <1>1. Init => Answering
    BY DEF Init, NewMac, Answering, AnswersMatchRequest, Idle, Task
  <1>2. Answering => AnswersMatchRequest
    BY DEF Answering
  <1> QED
    BY <1>1, <1>2, NextAnswering, PackagesInv, PTL DEF Spec
=============================================================================
