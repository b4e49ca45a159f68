---------------------------- MODULE LoRaPhyProofs ----------------------------
(***************************************************************************)
(* Proofs about LoRaPhy, for every choice of chips, sync words and receive  *)
(* modes, whichever calls may fail and whichever futures may be dropped.    *)
(*                                                                         *)
(* The inductive invariant follows a method from await to await: what is    *)
(* left of its script says where it stands, and for every place it is said  *)
(* what LoRa and the chip have come to by then.                             *)
(***************************************************************************)
EXTENDS LoRaPhy, Integers, SequenceTheorems, TLAPS

-----------------------------------------------------------------------------
(* The scripts.                                                            *)

StandbyCmd == Cmd("set_standby", "None", [radio_mode |-> "Standby"])

ColdDone ==
    Cmd("set_irq_params", "None", [cold_start |-> FALSE, calibrate_image |-> TRUE])

Calibrate == Cmd("calibrate_image", "None", [calibrate_image |-> FALSE])

InitScript == <<Do("reset"), Do("ensure_ready"), StandbyCmd, Do("init_lora"),
                Set("power", "Init"), ColdDone>>

\* The methods that prepare an operation, with all that prepare_modem may do
\* after set_standby.
TxScript ==
    <<Do("init_lora"), Set("power", "Init"), ColdDone, Calibrate,
      Set("modulation", "Transmit"), Set("power", "Transmit"), Do("ensure_ready"),
      Set("packet", "Transmit"), Set("channel", "Transmit"),
      Cmd("payload", "Transmit", [radio_mode |-> "Transmit"]), Do("set_irq_params")>>

RxScript(m) ==
    <<Do("init_lora"), Set("power", "Init"), ColdDone, Calibrate,
      Set("modulation", "Receive"), Set("packet", "Receive"),
      Cmd("channel", "Receive", [radio_mode |-> m]), Do("set_irq_params")>>

CadScript ==
    <<Do("init_lora"), Set("power", "Init"), ColdDone, Calibrate,
      Set("modulation", "Cad"), Cmd("channel", "Cad", [radio_mode |-> "Cad"]),
      Do("set_irq_params")>>

ListenScript ==
    <<Do("init_lora"), Set("power", "Init"), ColdDone, Calibrate,
      Set("channel", "Listen"), Cmd("modulation", "Listen", [radio_mode |-> "Listen"]),
      Cmd("do_rx", "Continuous", <<>>)>>

WaveScript ==
    <<Do("init_lora"), Set("power", "Init"), ColdDone, Calibrate,
      Set("packet", "Wave"), Set("modulation", "Wave"), Set("power", "Wave"),
      Do("ensure_ready"), Cmd("channel", "Wave", [radio_mode |-> "Transmit"]),
      Do("set_irq_params"), Do("set_tx_continuous_wave_mode")>>

SyncScript(w) == <<Cmd("set_lora_sync_word", w, [sync_word |-> w])>>

SleepScript(warm, cold) ==
    <<Cmd("set_sleep", warm, [radio_mode |-> "Sleep", cold_start |-> cold])>>

StandbyScript == <<Do("set_standby")>>
ClearScript == <<Do("clear_irq_status")>>

TxOpScript == <<Do("do_tx"), Do("await_irq"), Do("get_irq_state"), Do("clear_irq_flags")>>
CadOpScript == <<Do("do_cad"), Do("await_irq"), Do("get_irq_state"), Do("clear_irq_flags")>>
RxOpScript(m) == <<Cmd("do_rx", m, <<>>), Do("get_irq_state"), Do("clear_irq_flags")>>
StartScript(m) == <<Cmd("do_rx", m, <<>>)>>
SwitchScript(m) == <<Do("set_standby"), Set("channel", "Receive"), Cmd("do_rx", m, <<>>)>>
WaitScript == <<Do("await_irq"), Do("get_irq_state"), Do("clear_irq_flags")>>
ReadScript == <<Do("handle_implicit_header_mode"), Do("get_rx_payload"),
                Do("get_rx_packet_status")>>
RecoverScript == <<Do("ensure_ready"), StandbyCmd>>

-----------------------------------------------------------------------------
(* Where a method stands.  Its script is preceded by ensure_ready and       *)
(* set_standby, ensure_ready alone, set_standby alone, or nothing.          *)

Leads == {"Both", "Ready", "Standby", "Done"}

LeadLen(x) == CASE x = "Both" -> 2 [] x \in {"Ready", "Standby"} -> 1 [] x = "Done" -> 0

IsSequence(t) == Len(t) \in Nat /\ t = [i \in 1 .. Len(t) |-> t[i]]

\* t is the lead x and an end of the script F.
Stands(t, x, F) ==
    /\ IsSequence(t)
    /\ x \in Leads
    /\ Len(t) - LeadLen(x) \in 1 .. Len(F)
    /\ x \in {"Both", "Ready"} => t[1] = Do("ensure_ready")
    /\ x = "Both" => t[2] = StandbyCmd
    /\ x = "Standby" => t[1] = StandbyCmd
    /\ \A i \in LeadLen(x) + 1 .. Len(t) : t[i] = F[i + Len(F) - Len(t)]

\* Commands left of the script.
Togo(t, x) == Len(t) - LeadLen(x)

-----------------------------------------------------------------------------
(* The inductive invariant.                                                *)

Irqs == [Flags -> {"Clear", "Old", "New"}]

Types ==
    /\ kind \in {"Sx126x", "Sx127x", "Lr1110"}
    /\ lora \in LoRa
    /\ chip \in RadioChip
    /\ call = [op |-> call.op, todo |-> call.todo, seen |-> call.seen, result |-> call.result]
    /\ call.op \in Methods \cup {"none"}
    /\ call.seen \in [ok : BOOLEAN, irq : Irqs]
    /\ caller \in [standing : {"Fresh", "Started", "Wave", "Unknown"},
                   asked : SUBSET SyncWords]

\* What is claimed about the air needs a driver that clears stale flags, and a
\* sleep that is not interrupted between the command and its book-keeping.
Air == kind # "Sx126x" /\ "sleep" \notin Droppable

Dormant == HasBusy /\ chip.mode = "Sleep"
Idle == chip.mode \in {"Sleep", "Standby"}

Building == {"new", "init"}
Preparing == {"prepare_for_tx", "prepare_for_rx", "prepare_for_cad", "listen",
              "continuous_wave"}
Receiving == {"rx", "complete_rx", "start_rx", "rx_switch_channel"}
Operating == {"tx", "cad"} \cup Receiving

\* Nothing is unknown to the caller, and no method is about to change that.
Settled ==
    call.op \notin Building \cup Preparing /\ caller.standing \notin {"Unknown", "Wave"}

NoOld(irq) == \A f \in Flags : irq[f] # "Old"

Left == Len(call.todo)

TxBegun == call.op = "tx" /\ Left < 4

\* What the chip remembers, and where LoRa says that it does not.
Kept ==
    /\ lora.cold_start \/ chip.init
    /\ lora.cold_start \/ lora.calibrate_image \/ chip.calibrated
    /\ chip.init => chip.sync \in {lora.sync_word} \cup caller.asked

Base ==
    /\ Dormant =>
          lora.radio_mode = "Sleep"
          \/ (caller.standing = "Unknown" /\ "sleep" \in Droppable)
    /\ kind = "Sx127x" /\ caller.standing = "Started" => NoOld(chip.irq)
    /\ Air => /\ Kept
              /\ OnAirReady
              /\ chip.mode = "Tx" => chip.irq["TxDone"] = "Clear"

\* Once an operation is prepared it stays prepared.
Prepared ==
    Settled =>
      LET m == lora.radio_mode IN
      /\ m \in {"Transmit", "Single", "Continuous", "Cad"} => chip.mask = Enabled(m)
      /\ Air =>
          /\ m \notin {"Sleep", "Standby"} => ~lora.cold_start /\ ~lora.calibrate_image
          /\ m = "Transmit" => Uses("Transmit", Settings)
          /\ m \in {"Single", "Continuous"} =>
                Uses("Receive", {"modulation", "packet", "channel"})
          /\ m = "Cad" => Uses("Cad", {"modulation", "channel"})
          /\ m = "Transmit" /\ ~TxBegun =>
                Idle /\ (kind = "Sx127x" => chip.irq["TxDone"] = "Clear")

\* A reception that was started is going on or has left its flag.
RxGoing ==
    IF lora.radio_mode = "Continuous" THEN chip.mode = "RxContinuous"
    ELSE \/ chip.mode = "RxSingle"
         \/ chip.irq["RxDone"] # "Clear" \/ chip.irq["Timeout"] # "Clear"

Resting ==
    call.op = "none" =>
        /\ call.todo = <<>> /\ call.result \in {"Returned", "Unbuilt"}
        /\ call.seen = NoRead
        /\ Air /\ call.result = "Unbuilt" => Idle
        /\ caller.standing = "Started" =>
              /\ lora.radio_mode \notin {"Transmit", "Cad"}
              /\ kind = "Lr1110" /\ lora.radio_mode \in RxModes => RxGoing

\* Methods that have no guard.
LeadFacts(x, k) ==
    /\ x \in {"Standby", "Done"} => ~Dormant
    /\ x # "Done" => k >= 0
    /\ k >= 0 /\ x \in {"Ready", "Done"} => lora.radio_mode = "Standby"
    /\ Air /\ x = "Done" => Idle

ColdFacts(k) ==
    Air => /\ lora.cold_start => k >= 2
           /\ lora.calibrate_image => k >= 1
           /\ k \in {2, 3} => chip.init

TxFacts(n) ==
    /\ n <= 1 => lora.radio_mode = "Transmit"
    /\ Air => /\ n <= 6 => Uses("Transmit", {"modulation"})
              /\ n <= 5 => "power" \in chip.cfg.set
              /\ n <= 3 => "packet" \in chip.cfg.set
              /\ n <= 2 => "channel" \in chip.cfg.set
              /\ n <= 1 => "payload" \in chip.cfg.set

RxFacts(n) ==
    /\ n <= 1 => lora.radio_mode \in RxModes
    /\ Air => /\ n <= 3 => Uses("Receive", {"modulation"})
              /\ n <= 2 => "packet" \in chip.cfg.set
              /\ n <= 1 => "channel" \in chip.cfg.set

CadFacts(n) ==
    /\ n <= 1 => lora.radio_mode = "Cad"
    /\ Air => /\ n <= 2 => Uses("Cad", {"modulation"})
              /\ n <= 1 => "channel" \in chip.cfg.set

ListenFacts(n) ==
    /\ n <= 1 => lora.radio_mode = "Listen"
    /\ Air => /\ n <= 2 => Uses("Listen", {"channel"})
              /\ n <= 1 => "modulation" \in chip.cfg.set

WaveFacts(n) ==
    /\ n <= 2 => lora.radio_mode = "Transmit"
    /\ Air => /\ n <= 6 => Uses("Wave", {"packet"})
              /\ n <= 5 => "modulation" \in chip.cfg.set
              /\ n <= 4 => "power" \in chip.cfg.set
              /\ n <= 2 => "channel" \in chip.cfg.set

ModemAt(x, F, len) ==
    /\ Stands(call.todo, x, F)
    /\ LeadFacts(x, Togo(call.todo, x) - len)
    /\ ColdFacts(Togo(call.todo, x) - len)

TxAt(x) == ModemAt(x, TxScript, 7) /\ TxFacts(Togo(call.todo, x))
RxAt(x, m) == ModemAt(x, RxScript(m), 4) /\ RxFacts(Togo(call.todo, x))
CadAt(x) == ModemAt(x, CadScript, 3) /\ CadFacts(Togo(call.todo, x))
ListenAt(x) == ModemAt(x, ListenScript, 3) /\ ListenFacts(Togo(call.todo, x))
WaveAt(x) == ModemAt(x, WaveScript, 7) /\ WaveFacts(Togo(call.todo, x))
SyncAt(x, w) == Stands(call.todo, x, SyncScript(w)) /\ LeadFacts(x, Togo(call.todo, x) - 1)
SleepAt(x, warm) ==
    x # "Both" /\ x # "Standby"
    /\ Stands(call.todo, x, SleepScript(warm, lora.cold_start \/ ~warm))

Built ==
    /\ Stands(call.todo, "Done", InitScript)
    /\ Left <= 5 => ~Dormant
    /\ Left <= 3 => lora.radio_mode = "Standby"
    /\ Air => /\ lora.cold_start
              /\ Left <= 2 => chip.init
              /\ call.op = "new" \/ Left <= 5 => Idle

Guardless ==
    /\ call.op \in Building => Built
    /\ call.op = "enter_standby" => Stands(call.todo, "Done", StandbyScript)
    /\ call.op = "clear_irq_status" => Stands(call.todo, "Done", ClearScript)
    /\ call.op = "set_lora_sync_word" => \E x \in Leads, w \in caller.asked : SyncAt(x, w)
    /\ call.op = "sleep" => \E x \in Leads, warm \in BOOLEAN : SleepAt(x, warm)
    /\ call.op = "prepare_for_tx" => \E x \in Leads : TxAt(x)
    /\ call.op = "prepare_for_rx" => \E x \in Leads, m \in RxModes : RxAt(x, m)
    /\ call.op = "prepare_for_cad" => \E x \in Leads : CadAt(x)
    /\ call.op = "listen" => \E x \in Leads : ListenAt(x)
    /\ call.op = "continuous_wave" => \E x \in Leads : WaveAt(x)
    /\ call.op \in Methods \ {"tx", "cad", "rx", "complete_rx"} => call.result = "Pending"

IrqCmds == {"await_irq", "get_irq_state", "clear_irq_flags"}

SeenFresh ==
    kind = "Sx127x" =>
        NoOld(chip.irq) /\ (At("clear_irq_flags") /\ call.seen.ok => NoOld(call.seen.irq))

TxOp ==
    \/ /\ call.result = "Failing" /\ Stands(call.todo, "Done", RecoverScript)
       /\ Air => chip.mode \in {"Tx", "Sleep", "Standby"}
    \/ /\ call.result = "Pending" /\ Stands(call.todo, "Done", TxOpScript)
       /\ lora.radio_mode = "Transmit"
       /\ kind = "Lr1110" /\ Left < 4 => chip.mode = "Tx" \/ chip.irq["TxDone"] # "Clear"
       /\ Air => /\ chip.mode \in {"Tx", "Sleep", "Standby"}
                 /\ Left = 2 => chip.irq # NoFlags
                 /\ Left = 1 /\ call.seen.ok =>
                       /\ call.seen.irq # NoFlags
                       /\ chip.mode = "Tx" => call.seen.irq["TxDone"] = "Clear"

CadOp ==
    \/ call.result = "Failing" /\ Stands(call.todo, "Done", RecoverScript)
    \/ call.result = "Pending" /\ Left = 1 /\ Stands(call.todo, "Done", RecoverScript)
    \/ /\ call.result = "Pending" /\ Stands(call.todo, "Done", CadOpScript)
       /\ lora.radio_mode = "Cad"
       /\ kind = "Lr1110" /\ Left < 4 => chip.mode = "Cad" \/ chip.irq["CadDone"] # "Clear"
       /\ Left = 2 => chip.irq["CadDone"] # "Clear"
       /\ Left = 1 /\ call.seen.ok => call.seen.irq["CadDone"] # "Clear"

RxOp ==
    \/ /\ call.result = "Failing" /\ Stands(call.todo, "Done", RecoverScript)
       /\ lora.radio_mode \notin {"Transmit", "Cad"}
       /\ kind = "Sx127x" => NoOld(chip.irq)
    \/ /\ call.result = "Pending" /\ lora.radio_mode \in RxModes
       /\ \/ /\ call.op = "rx" /\ Left = 3
             /\ Stands(call.todo, "Done", RxOpScript(lora.radio_mode))
          \/ /\ Stands(call.todo, "Done", WaitScript)
             /\ SeenFresh
             /\ kind = "Lr1110" => RxGoing
          \/ /\ Stands(call.todo, "Done", ReadScript)
             /\ SeenFresh
             /\ kind = "Lr1110" /\ lora.radio_mode = "Continuous" => RxGoing

Guarded ==
    call.op \in Operating =>
        /\ caller.standing \notin {"Unknown", "Wave"}
        /\ call.op \in {"tx", "cad"} => caller.standing # "Started"
        /\ call.op = "tx" => TxOp
        /\ call.op = "cad" => CadOp
        /\ call.op \in {"rx", "complete_rx"} => RxOp
        /\ call.op = "complete_rx" => caller.standing = "Started"
        /\ call.op \in {"start_rx", "rx_switch_channel"} => lora.radio_mode \in RxModes
        /\ call.op = "start_rx" => Stands(call.todo, "Done", StartScript(lora.radio_mode))
        /\ call.op = "rx_switch_channel" =>
              /\ Stands(call.todo, "Done", SwitchScript(lora.radio_mode))
              /\ Air /\ Left <= 2 => Idle

IInv == Types /\ Base /\ Prepared /\ Resting /\ Guardless /\ Guarded

-----------------------------------------------------------------------------
(* Scripts.                                                                *)

\* Seq has no other members.
LEMMA SeqIsSequence ==
    ASSUME NEW S, NEW t \in Seq(S)
    PROVE IsSequence(t)
<1>1. Len(t) \in Nat /\ t \in [1 .. Len(t) -> S]
  BY LenProperties
<1> QED
  BY <1>1 DEF IsSequence

\* A sequence that is not empty has a head and a shorter tail.
LEMMA TailStep ==
    ASSUME NEW t, IsSequence(t), t # <<>>
    PROVE /\ Len(t) \in Nat \ {0}
          /\ Head(t) = t[1]
          /\ IsSequence(Tail(t))
          /\ Len(Tail(t)) = Len(t) - 1
          /\ \A i \in 1 .. Len(t) - 1 : Tail(t)[i] = t[i + 1]
          /\ Len(t) = 1 => Tail(t) = <<>>
          /\ Len(t) > 1 => Tail(t) # <<>>
<1>1. PICK S : t \in Seq(S)
  <2> DEFINE R == {t[i] : i \in 1 .. Len(t)}
  <2>1. t \in [1 .. Len(t) -> R] /\ Len(t) \in Nat
    BY DEF IsSequence
  <2> HIDE DEF R
  <2>2. t \in Seq(R)
    BY <2>1, SeqDef
  <2> QED
    BY <2>2
<1>2. Len(t) \in Nat /\ Len(t) # 0
  BY <1>1, EmptySeq DEF IsSequence
<1>3. /\ Head(t) \in S
      /\ Tail(t) \in Seq(S)
  BY <1>1, HeadTailProperties
<1>4. Len(Tail(t)) = Len(t) - 1 /\ \A i \in 1 .. Len(Tail(t)) : Tail(t)[i] = t[i + 1]
  BY <1>1, HeadTailProperties
<1>5. IsSequence(Tail(t))
  BY <1>3, SeqIsSequence
<1>6. Head(t) = t[1]
  BY <1>1, HeadTailProperties
<1>7. Tail(t) = <<>> <=> Len(Tail(t)) = 0
  BY <1>3, EmptySeq
<1> QED
  BY <1>2, <1>4, <1>5, <1>6, <1>7

\* The sequence without its first command stands one place further.
LEMMA ScriptShift ==
    ASSUME NEW t, NEW u, NEW x, NEW F, Len(F) \in Nat, Stands(t, x, F),
           IsSequence(u), Len(u) = Len(t) - 1,
           \A i \in 1 .. Len(t) - 1 : u[i] = t[i + 1]
    PROVE /\ x = "Both" => Stands(u, "Standby", F)
          /\ x \in {"Ready", "Standby"} => Stands(u, "Done", F)
          /\ x = "Done" /\ Len(t) > 1 => Stands(u, "Done", F)
<1>1. Len(t) \in Nat /\ Len(u) \in Nat
  BY DEF Stands, IsSequence
<1>2. ASSUME x = "Both" PROVE Stands(u, "Standby", F)
  <2>1. LeadLen(x) = 2 /\ LeadLen("Standby") = 1
    BY <1>2 DEF LeadLen
  <2>2. \A i \in 2 .. Len(u) : u[i] = F[i + Len(F) - Len(u)]
    <3> TAKE i \in 2 .. Len(u)
    <3>1. u[i] = t[i + 1] /\ i + 1 \in 3 .. Len(t)
      BY <1>1
    <3>2. t[i + 1] = F[(i + 1) + Len(F) - Len(t)]
      BY <1>1, <2>1, <3>1 DEF Stands
    <3>3. (i + 1) + Len(F) - Len(t) = i + Len(F) - Len(u)
      BY <1>1
    <3> QED
      BY <3>1, <3>2, <3>3
  <2>3. u[1] = t[2] /\ Len(u) - 1 \in 1 .. Len(F)
    BY <1>1, <2>1 DEF Stands
  <2> QED
    BY SMTT(30), <1>1, <1>2, <2>1, <2>2, <2>3 DEF Stands, Leads
<1>3. ASSUME x \in {"Ready", "Standby"} PROVE Stands(u, "Done", F)
  <2>1. LeadLen(x) = 1 /\ LeadLen("Done") = 0
    BY <1>3 DEF LeadLen
  <2>2. \A i \in 1 .. Len(u) : u[i] = F[i + Len(F) - Len(u)]
    <3> TAKE i \in 1 .. Len(u)
    <3>1. u[i] = t[i + 1] /\ i + 1 \in 2 .. Len(t)
      BY <1>1
    <3>2. t[i + 1] = F[(i + 1) + Len(F) - Len(t)]
      BY <1>1, <2>1, <3>1 DEF Stands
    <3>3. (i + 1) + Len(F) - Len(t) = i + Len(F) - Len(u)
      BY <1>1
    <3> QED
      BY <3>1, <3>2, <3>3
  <2>3. Len(u) \in 1 .. Len(F)
    BY <1>1, <2>1 DEF Stands
  <2> QED
    BY <1>1, <2>1, <2>2, <2>3 DEF Stands, Leads
<1>4. ASSUME x = "Done", Len(t) > 1 PROVE Stands(u, "Done", F)
  <2>1. LeadLen("Done") = 0
    BY DEF LeadLen
  <2>2. \A i \in 1 .. Len(u) : u[i] = F[i + Len(F) - Len(u)]
    <3> TAKE i \in 1 .. Len(u)
    <3>1. u[i] = t[i + 1] /\ i + 1 \in 2 .. Len(t)
      BY <1>1
    <3>2. t[i + 1] = F[(i + 1) + Len(F) - Len(t)]
      BY <1>1, <1>4, <2>1, <3>1 DEF Stands
    <3>3. (i + 1) + Len(F) - Len(t) = i + Len(F) - Len(u)
      BY <1>1
    <3> QED
      BY <3>1, <3>2, <3>3
  <2>3. Len(u) \in 1 .. Len(F)
    BY <1>1, <1>4, <2>1 DEF Stands
  <2> QED
    BY <1>1, <2>1, <2>2, <2>3 DEF Stands, Leads
<1> QED
  BY <1>2, <1>3, <1>4

\* A command is taken from the lead, then from the script.
Moves(t, x, F) ==
    /\ t # <<>>
    /\ Len(t) \in Nat \ {0}
    /\ Len(Tail(t)) = Len(t) - 1
    /\ x \in {"Both", "Ready"} => Head(t) = Do("ensure_ready") /\ Tail(t) # <<>>
    /\ x = "Standby" => Head(t) = StandbyCmd /\ Tail(t) # <<>>
    /\ x = "Both" => Stands(Tail(t), "Standby", F)
    /\ x \in {"Ready", "Standby"} => Stands(Tail(t), "Done", F)
    /\ x = "Done" => /\ Len(t) \in 1 .. Len(F)
                     /\ Head(t) = F[Len(F) - Len(t) + 1]
                     /\ Len(t) = 1 => Tail(t) = <<>>
                     /\ Len(t) > 1 => Tail(t) # <<>> /\ Stands(Tail(t), "Done", F)

LEMMA ScriptMoves ==
    ASSUME NEW t, NEW x, NEW F, Len(F) \in Nat, Stands(t, x, F)
    PROVE Moves(t, x, F)
<1>1. IsSequence(t) /\ x \in Leads /\ LeadLen(x) \in 0 .. 2 /\ Len(t) \in Nat
      /\ Len(t) - LeadLen(x) \in 1 .. Len(F)
  BY DEF Stands, Leads, LeadLen, IsSequence
<1>2. t # <<>>
  <2>1. Len(<<>>) = 0
    OBVIOUS
  <2> QED
    BY <1>1, <2>1
<1>3. /\ Head(t) = t[1]
      /\ IsSequence(Tail(t))
      /\ Len(Tail(t)) = Len(t) - 1
      /\ \A i \in 1 .. Len(t) - 1 : Tail(t)[i] = t[i + 1]
      /\ Len(t) = 1 => Tail(t) = <<>>
      /\ Len(t) > 1 => Tail(t) # <<>>
  BY <1>1, <1>2, TailStep
<1>4. PICK u : u = Tail(t)
  OBVIOUS
<1>5. /\ x = "Both" => Stands(u, "Standby", F)
      /\ x \in {"Ready", "Standby"} => Stands(u, "Done", F)
      /\ x = "Done" /\ Len(t) > 1 => Stands(u, "Done", F)
  BY <1>3, <1>4, ScriptShift
<1>6. x # "Done" => Len(t) > 1
  BY <1>1 DEF Leads, LeadLen
<1>7. x = "Done" => Head(t) = F[Len(F) - Len(t) + 1] /\ Len(t) \in 1 .. Len(F)
  <2> SUFFICES ASSUME x = "Done" PROVE Head(t) = F[Len(F) - Len(t) + 1] /\ Len(t) \in 1 .. Len(F)
    OBVIOUS
  <2>1. LeadLen(x) = 0 /\ 1 \in 1 .. Len(t) /\ Len(t) \in 1 .. Len(F)
    BY <1>1 DEF LeadLen
  <2>2. t[1] = F[1 + Len(F) - Len(t)]
    BY <1>1, <2>1 DEF Stands
  <2> QED
    BY <1>1, <1>3, <2>1, <2>2
<1>8. x \in {"Both", "Ready"} => t[1] = Do("ensure_ready")
  BY DEF Stands
<1>9. x = "Standby" => t[1] = StandbyCmd
  BY DEF Stands
<1> QED
  BY <1>1, <1>2, <1>3, <1>4, <1>5, <1>6, <1>7, <1>8, <1>9 DEF Moves

\* Concatenation, index by index.
Joins(s, t, st) ==
    /\ IsSequence(st)
    /\ Len(st) = Len(s) + Len(t)
    /\ \A i \in 1 .. Len(s) : st[i] = s[i]
    /\ \A i \in 1 .. Len(t) : st[i + Len(s)] = t[i]

LEMMA SequenceIsSeq ==
    ASSUME NEW t, IsSequence(t)
    PROVE \E S : t \in Seq(S)
<1> DEFINE R == {t[i] : i \in 1 .. Len(t)}
<1>1. t \in [1 .. Len(t) -> R] /\ Len(t) \in Nat
  BY DEF IsSequence
<1> HIDE DEF R
<1>2. t \in Seq(R)
  BY <1>1, SeqDef
<1> QED
  BY <1>2

LEMMA ConcatJoins ==
    ASSUME NEW s, NEW t, IsSequence(s), IsSequence(t)
    PROVE Joins(s, t, s \o t)
<1>1. PICK A : s \in Seq(A)
  BY SequenceIsSeq
<1>2. PICK B : t \in Seq(B)
  BY SequenceIsSeq
<1>3. s \in Seq(A \cup B) /\ t \in Seq(A \cup B)
  BY <1>1, <1>2, SeqMonotonic
<1>4. s \o t \in Seq(A \cup B) /\ Len(s \o t) = Len(s) + Len(t)
  BY <1>3, ConcatProperties
<1>5. Len(s) \in Nat /\ Len(t) \in Nat
  BY DEF IsSequence
<1>6. \A i \in 1 .. Len(s) + Len(t) : (s \o t)[i] = IF i <= Len(s) THEN s[i] ELSE t[i - Len(s)]
  BY <1>3, ConcatProperties
<1>7. \A i \in 1 .. Len(s) : (s \o t)[i] = s[i]
  BY <1>5, <1>6
<1>8. \A i \in 1 .. Len(t) : (s \o t)[i + Len(s)] = t[i]
  BY <1>5, <1>6
<1>9. IsSequence(s \o t)
  BY <1>4, SeqIsSequence
<1> QED
  BY <1>4, <1>7, <1>8, <1>9 DEF Joins

\* What prepare_modem puts before the end T of a script F.
ModemLead == IF lora.radio_mode = "Standby" THEN "Ready" ELSE "Both"
ModemCold == IF lora.cold_start THEN 4 ELSE IF lora.calibrate_image THEN 1 ELSE 0

EndsIn(F, T) ==
    /\ IsSequence(T)
    /\ Len(T) \in Nat \ {0}
    /\ Len(F) = Len(T) + 4
    /\ F[1] = Do("init_lora") /\ F[2] = Set("power", "Init")
    /\ F[3] = ColdDone /\ F[4] = Calibrate
    /\ \A i \in 1 .. Len(T) : F[i + 4] = T[i]

LEMMA ModemStands ==
    ASSUME NEW F, NEW T, EndsIn(F, T), lora.cold_start \in BOOLEAN,
           lora.calibrate_image \in BOOLEAN
    PROVE /\ Stands(PrepareModem \o T, ModemLead, F)
          /\ Togo(PrepareModem \o T, ModemLead) = Len(T) + ModemCold
          /\ PrepareModem \o T # <<>>
<1>1. PICK a : a = <<Do("ensure_ready")>>
  OBVIOUS
<1>2. IsSequence(a) /\ Len(a) = 1 /\ a[1] = Do("ensure_ready")
  BY <1>1 DEF IsSequence
<1>3. IsSequence(ToStandby) /\ Len(ToStandby) = LeadLen(ModemLead) - 1
      /\ (ModemLead = "Both" => ToStandby[1] = StandbyCmd)
      /\ LeadLen(ModemLead) \in 1 .. 2 /\ ModemLead \in {"Both", "Ready"}
      /\ (LeadLen(ModemLead) = 2 <=> ModemLead = "Both")
  BY DEF ToStandby, ModemLead, LeadLen, IsSequence, StandbyCmd
<1>4. PICK b : b = IF lora.cold_start THEN DoColdStart ELSE <<>>
  OBVIOUS
<1>5. IsSequence(b) /\ Len(b) = (IF lora.cold_start THEN 3 ELSE 0)
      /\ (lora.cold_start => b[1] = F[1] /\ b[2] = F[2] /\ b[3] = F[3])
  <2>1. CASE lora.cold_start
    <3>1. b = <<F[1], F[2], F[3]>>
      BY <1>4, <2>1 DEF DoColdStart, EndsIn, ColdDone
    <3>2. Len(b) = 3 /\ b[1] = F[1] /\ b[2] = F[2] /\ b[3] = F[3]
      BY <3>1
    <3>3. IsSequence(b)
      BY <3>1 DEF IsSequence
    <3> QED
      BY <2>1, <3>2, <3>3
  <2>2. CASE ~lora.cold_start
    BY <1>4, <2>2 DEF IsSequence
  <2> QED
    BY <2>1, <2>2
<1>6. PICK c : c = IF lora.cold_start \/ lora.calibrate_image
                   THEN <<Cmd("calibrate_image", "None", [calibrate_image |-> FALSE])>>
                   ELSE <<>>
  OBVIOUS
<1>7. IsSequence(c) /\ Len(c) = (IF lora.cold_start \/ lora.calibrate_image THEN 1 ELSE 0)
      /\ (lora.cold_start \/ lora.calibrate_image => c[1] = F[4])
  BY <1>6 DEF IsSequence, EndsIn, Calibrate
<1>8. PICK p : p = a \o ToStandby
  OBVIOUS
<1>9. Joins(a, ToStandby, p)
  <2>1. IsSequence(a) /\ IsSequence(ToStandby)
    BY <1>2, <1>3
  <2>2. Joins(a, ToStandby, a \o ToStandby)
    BY <2>1, ConcatJoins
  <2> QED
    BY <2>2, <1>8
<1>10. PICK q : q = p \o b
  OBVIOUS
<1>11. Joins(p, b, q)
  <2>1. IsSequence(p) /\ IsSequence(b)
    BY <1>5, <1>9 DEF Joins
  <2>2. Joins(p, b, p \o b)
    BY <2>1, ConcatJoins
  <2> QED
    BY <2>2, <1>10
<1>12. PICK r : r = q \o c
  OBVIOUS
<1>13. Joins(q, c, r)
  <2>1. IsSequence(q) /\ IsSequence(c)
    BY <1>7, <1>11 DEF Joins
  <2>2. Joins(q, c, q \o c)
    BY <2>1, ConcatJoins
  <2> QED
    BY <2>2, <1>12
<1>14. PICK t : t = r \o T
  OBVIOUS
<1>15. Joins(r, T, t)
  <2>1. IsSequence(r) /\ IsSequence(T)
    BY <1>13 DEF Joins, EndsIn
  <2>2. Joins(r, T, r \o T)
    BY <2>1, ConcatJoins
  <2> QED
    BY <2>2, <1>14
<1>16. PrepareModem \o T = t
  BY <1>1, <1>4, <1>6, <1>8, <1>10, <1>12, <1>14 DEF PrepareModem
<1>17. PICK n \in 1 .. 2 : n = LeadLen(ModemLead)
  BY <1>3
<1>18. /\ Len(p) = n /\ p[1] = Do("ensure_ready")
       /\ ModemLead = "Both" => p[2] = StandbyCmd
  <2>1. Len(a) = 1 /\ Len(ToStandby) = n - 1 /\ n \in 1 .. 2
    BY <1>2, <1>3, <1>17
  <2>2. Len(p) = n /\ p[1] = a[1]
    BY <2>1, <1>9 DEF Joins
  <2>3. ModemLead = "Both" => p[2] = ToStandby[1]
    <3>1. ModemLead = "Both" => n = 2
      BY <1>3, <1>17
    <3>2. n = 2 => p[1 + 1] = ToStandby[1]
      BY <2>1, <1>9 DEF Joins
    <3> QED
      BY <3>1, <3>2
  <2> QED
    BY <2>2, <2>3, <1>2, <1>3
<1>19. /\ Len(t) = n + ModemCold + Len(T)
       /\ t[1] = Do("ensure_ready")
       /\ ModemLead = "Both" => t[2] = StandbyCmd
       /\ \A i \in n + 1 .. Len(t) : t[i] = F[i + Len(F) - Len(t)]
  <2>1. CASE lora.cold_start
    <3>1. Len(b) = 3 /\ Len(c) = 1 /\ ModemCold = 4
      BY <2>1, <1>5, <1>7 DEF ModemCold
    <3>2. /\ Len(q) = n + 3 /\ q[1] = p[1] /\ (n = 2 => q[2] = p[2])
          /\ q[n + 1] = F[1] /\ q[n + 2] = F[2] /\ q[n + 3] = F[3]
      BY <2>1, <3>1, <1>5, <1>11, <1>17, <1>18 DEF Joins
    <3>3. /\ Len(r) = n + 4 /\ r[1] = p[1] /\ (n = 2 => r[2] = p[2])
          /\ r[n + 1] = F[1] /\ r[n + 2] = F[2] /\ r[n + 3] = F[3] /\ r[n + 4] = F[4]
      BY <2>1, <3>1, <3>2, <1>7, <1>13, <1>17 DEF Joins
    <3>4. /\ Len(t) = n + 4 + Len(T) /\ t[1] = p[1] /\ (n = 2 => t[2] = p[2])
          /\ t[n + 1] = F[1] /\ t[n + 2] = F[2] /\ t[n + 3] = F[3] /\ t[n + 4] = F[4]
          /\ \A i \in 1 .. Len(T) : t[i + (n + 4)] = F[i + 4]
      <4>1. Len(r) = n + 4 /\ n \in 1 .. 2
        BY <3>3, <1>17
      <4>2. Len(t) = n + 4 + Len(T) /\ \A i \in 1 .. Len(T) : t[i + (n + 4)] = F[i + 4]
        BY <4>1, <1>15 DEF Joins, EndsIn
      <4>3. /\ t[1] = r[1] /\ (n = 2 => t[2] = r[2])
            /\ t[n + 1] = r[n + 1] /\ t[n + 2] = r[n + 2]
            /\ t[n + 3] = r[n + 3] /\ t[n + 4] = r[n + 4]
        BY <4>1, <1>15 DEF Joins
      <4> QED
        BY <3>3, <4>2, <4>3
    <3>5. Len(F) = Len(T) + 4 /\ Len(T) \in Nat
      BY DEF EndsIn
    <3>6. ASSUME NEW i \in n + 1 .. Len(t) PROVE t[i] = F[i + Len(F) - Len(t)]
      <4>1. i + Len(F) - Len(t) = i - n
        <5>1. Len(t) = n + 4 + Len(T)
          BY <3>4
        <5> QED
          BY SMTT(30), <3>5, <1>17, <5>1
      <4>2. CASE i \in n + 1 .. n + 4
        <5>1. i = n + 1 \/ i = n + 2 \/ i = n + 3 \/ i = n + 4
          BY <4>2, <1>17
        <5>2. n + 1 - n = 1 /\ n + 2 - n = 2 /\ n + 3 - n = 3 /\ n + 4 - n = 4
          BY <1>17
        <5> QED
          BY <4>1, <5>1, <5>2, <3>4
      <4>3. CASE i > n + 4
        <5>1. i - (n + 4) \in 1 .. Len(T)
          BY SMTT(30), <4>3, <3>4, <3>5, <1>17
        <5>2. t[(i - (n + 4)) + (n + 4)] = F[(i - (n + 4)) + 4]
          BY <5>1, <3>4
        <5>3. (i - (n + 4)) + (n + 4) = i /\ (i - (n + 4)) + 4 = i - n
          BY <1>17
        <5> QED
          BY <5>2, <5>3, <4>1
      <4> QED
        BY <4>2, <4>3, <3>4, <3>5, <1>17
    <3> QED
      BY <3>1, <3>4, <3>6, <1>3, <1>17, <1>18
  <2>2. CASE ~lora.cold_start /\ lora.calibrate_image
    <3>1. Len(b) = 0 /\ Len(c) = 1 /\ ModemCold = 1
      BY <2>2, <1>5, <1>7 DEF ModemCold
    <3>2. Len(q) = n /\ q[1] = p[1] /\ (n = 2 => q[2] = p[2])
      BY <3>1, <1>11, <1>17, <1>18 DEF Joins
    <3>3. Len(r) = n + 1 /\ r[1] = p[1] /\ (n = 2 => r[2] = p[2]) /\ r[n + 1] = F[4]
      BY <2>2, <3>1, <3>2, <1>7, <1>13, <1>17 DEF Joins
    <3>4. /\ Len(t) = n + 1 + Len(T) /\ t[1] = p[1] /\ (n = 2 => t[2] = p[2])
          /\ t[n + 1] = F[4]
          /\ \A i \in 1 .. Len(T) : t[i + (n + 1)] = F[i + 4]
      <4>1. Len(r) = n + 1 /\ n \in 1 .. 2
        BY <3>3, <1>17
      <4>2. Len(t) = n + 1 + Len(T) /\ \A i \in 1 .. Len(T) : t[i + (n + 1)] = F[i + 4]
        BY <4>1, <1>15 DEF Joins, EndsIn
      <4>3. t[1] = r[1] /\ (n = 2 => t[2] = r[2]) /\ t[n + 1] = r[n + 1]
        BY <4>1, <1>15 DEF Joins
      <4> QED
        BY <3>3, <4>2, <4>3
    <3>5. Len(F) = Len(T) + 4 /\ Len(T) \in Nat
      BY DEF EndsIn
    <3>6. ASSUME NEW i \in n + 1 .. Len(t) PROVE t[i] = F[i + Len(F) - Len(t)]
      <4>1. i + Len(F) - Len(t) = i - n + 3
        BY <3>4, <3>5, <1>17
      <4>2. CASE i = n + 1
        <5>1. n + 1 - n + 3 = 4
          BY <1>17
        <5> QED
          BY <4>1, <4>2, <5>1, <3>4
      <4>3. CASE i > n + 1
        <5>1. i - (n + 1) \in 1 .. Len(T)
          BY <4>3, <3>4, <3>5, <1>17
        <5>2. t[(i - (n + 1)) + (n + 1)] = F[(i - (n + 1)) + 4]
          BY <5>1, <3>4
        <5>3. (i - (n + 1)) + (n + 1) = i /\ (i - (n + 1)) + 4 = i - n + 3
          BY <1>17
        <5> QED
          BY <5>2, <5>3, <4>1
      <4> QED
        BY <4>2, <4>3, <3>4, <3>5, <1>17
    <3> QED
      BY <3>1, <3>4, <3>6, <1>3, <1>17, <1>18
  <2>3. CASE ~lora.cold_start /\ ~lora.calibrate_image
    <3>1. Len(b) = 0 /\ Len(c) = 0 /\ ModemCold = 0
      BY <2>3, <1>5, <1>7 DEF ModemCold
    <3>2. Len(q) = n /\ q[1] = p[1] /\ (n = 2 => q[2] = p[2])
      BY <3>1, <1>11, <1>17, <1>18 DEF Joins
    <3>3. Len(r) = n /\ r[1] = p[1] /\ (n = 2 => r[2] = p[2])
      BY <3>1, <3>2, <1>13, <1>17 DEF Joins
    <3>4. /\ Len(t) = n + Len(T) /\ t[1] = p[1] /\ (n = 2 => t[2] = p[2])
          /\ \A i \in 1 .. Len(T) : t[i + n] = F[i + 4]
      BY <3>3, <1>15, <1>17 DEF Joins, EndsIn
    <3>5. Len(F) = Len(T) + 4 /\ Len(T) \in Nat
      BY DEF EndsIn
    <3>6. ASSUME NEW i \in n + 1 .. Len(t) PROVE t[i] = F[i + Len(F) - Len(t)]
      <4>1. i + Len(F) - Len(t) = i - n + 4
        BY <3>4, <3>5, <1>17
      <4>2. i - n \in 1 .. Len(T)
        BY <3>4, <3>5, <1>17
      <4>3. t[(i - n) + n] = F[(i - n) + 4]
        BY <4>2, <3>4
      <4>4. (i - n) + n = i
        BY <1>17
      <4> QED
        BY <4>1, <4>3, <4>4
    <3> QED
      BY <3>1, <3>4, <3>6, <1>3, <1>17, <1>18
  <2> QED
    BY <2>1, <2>2, <2>3
<1>20. ModemCold \in {0, 1, 4}
  BY DEF ModemCold
<1>21. Len(T) \in Nat \ {0} /\ Len(F) = Len(T) + 4
  BY DEF EndsIn
<1>22. Len(t) \in Nat \ {0} /\ IsSequence(t)
  BY <1>15, <1>17, <1>19, <1>20, <1>21 DEF Joins
<1>23. t # <<>>
  <2>1. Len(<<>>) = 0
    OBVIOUS
  <2> QED
    BY <1>22, <2>1
<1>24. Len(t) - n \in 1 .. Len(F)
  <2>1. Len(t) = n + ModemCold + Len(T)
    BY <1>19
  <2>2. ModemCold \in 0 .. 4
    BY <1>20
  <2> QED
    BY SMTT(30), <1>17, <1>21, <2>1, <2>2
<1>25. Stands(t, ModemLead, F)
  <2>1. ModemLead \in Leads /\ ModemLead # "Standby" /\ LeadLen(ModemLead) = n
    BY <1>3, <1>17 DEF Leads
  <2> QED
    BY <2>1, <1>19, <1>22, <1>24 DEF Stands
<1>26. Togo(t, ModemLead) = Len(T) + ModemCold
  BY <1>17, <1>19, <1>20, <1>21 DEF Togo
<1> QED
  BY <1>16, <1>23, <1>25, <1>26

\* Starts of the methods.
Starts(t, x, F, n) == t # <<>> /\ Stands(t, x, F) /\ Togo(t, x) = n

LEMMA WholeStarts ==
    ASSUME NEW t, NEW F, NEW n \in Nat \ {0}, IsSequence(t), Len(t) = n, Len(F) = n,
           \A i \in 1 .. n : t[i] = F[i]
    PROVE Starts(t, "Done", F, n)
<1>1. LeadLen("Done") = 0
  BY DEF LeadLen
<1>2. t # <<>>
  <2>1. Len(<<>>) = 0
    OBVIOUS
  <2> QED
    BY <2>1
<1>3. \A i \in 1 .. Len(t) : i + Len(F) - Len(t) = i
  OBVIOUS
<1> QED
  BY <1>1, <1>2, <1>3 DEF Starts, Stands, Togo, Leads

LEMMA LeadStarts ==
    ASSUME NEW c
    PROVE Starts(<<Do("ensure_ready")>> \o ToStandby \o <<c>>, ModemLead, <<c>>, 1)
<1>1. PICK a : a = <<Do("ensure_ready")>>
  OBVIOUS
<1>2. IsSequence(a) /\ Len(a) = 1 /\ a[1] = Do("ensure_ready")
  BY <1>1 DEF IsSequence
<1>3. /\ IsSequence(ToStandby)
      /\ Len(ToStandby) = LeadLen(ModemLead) - 1
      /\ ModemLead = "Both" => ToStandby[1] = StandbyCmd
      /\ LeadLen(ModemLead) \in 1 .. 2 /\ ModemLead \in {"Both", "Ready"}
      /\ LeadLen(ModemLead) = 2 <=> ModemLead = "Both"
  BY DEF ToStandby, ModemLead, LeadLen, IsSequence, StandbyCmd
<1>4. PICK e : e = <<c>>
  OBVIOUS
<1>5. IsSequence(e) /\ Len(e) = 1 /\ e[1] = c
  BY <1>4 DEF IsSequence
<1>6. PICK p : p = a \o ToStandby
  OBVIOUS
<1>7. Joins(a, ToStandby, p)
  <2>1. Joins(a, ToStandby, a \o ToStandby)
    BY <1>2, <1>3, ConcatJoins
  <2> QED
    BY <2>1, <1>6
<1>8. PICK t : t = p \o e
  OBVIOUS
<1>9. Joins(p, e, t)
  <2>1. IsSequence(p)
    BY <1>7 DEF Joins
  <2>2. Joins(p, e, p \o e)
    BY <2>1, <1>5, ConcatJoins
  <2> QED
    BY <2>2, <1>8
<1>10. PICK n \in 1 .. 2 : n = LeadLen(ModemLead)
  BY <1>3
<1>11. /\ Len(p) = n /\ p[1] = Do("ensure_ready")
       /\ ModemLead = "Both" => p[2] = StandbyCmd
  <2>1. Len(a) = 1 /\ Len(ToStandby) = n - 1 /\ n \in 1 .. 2
    BY <1>2, <1>3, <1>10
  <2>2. Len(p) = n /\ p[1] = a[1]
    BY <2>1, <1>7 DEF Joins
  <2>3. ModemLead = "Both" => p[2] = ToStandby[1]
    <3>1. ModemLead = "Both" => n = 2
      BY <1>3, <1>10
    <3>2. n = 2 => p[1 + 1] = ToStandby[1]
      BY <2>1, <1>7 DEF Joins
    <3> QED
      BY <3>1, <3>2
  <2> QED
    BY <2>2, <2>3, <1>2, <1>3
<1>12. /\ Len(t) = n + 1 /\ t[1] = p[1]
       /\ n = 2 => t[2] = p[2]
       /\ t[1 + n] = c
  BY <1>5, <1>9, <1>10, <1>11 DEF Joins
<1>13. t # <<>>
  <2>1. Len(<<>>) = 0
    OBVIOUS
  <2> QED
    BY <1>10, <1>12, <2>1
<1>14. Stands(t, ModemLead, e)
  <2>1. ModemLead \in Leads /\ ModemLead # "Standby" /\ LeadLen(ModemLead) = n
    BY <1>3, <1>10 DEF Leads
  <2>2. ModemLead = "Both" => n = 2
    BY <1>3, <1>10
  <2>3. \A i \in n + 1 .. Len(t) : t[i] = e[i + Len(e) - Len(t)]
    <3> TAKE i \in n + 1 .. Len(t)
    <3>1. i = 1 + n /\ i + Len(e) - Len(t) = 1
      BY <1>5, <1>10, <1>12
    <3> QED
      BY <3>1, <1>5, <1>12
  <2>4. IsSequence(t)
    BY <1>9 DEF Joins
  <2>5. Len(t) - n \in 1 .. Len(e)
    BY <1>5, <1>10, <1>12
  <2> QED
    BY <2>1, <2>2, <2>3, <2>4, <2>5, <1>11, <1>12 DEF Stands
<1>15. Togo(t, ModemLead) = 1
  BY <1>10, <1>12 DEF Togo
<1> QED
  BY <1>1, <1>4, <1>6, <1>8, <1>13, <1>14, <1>15 DEF Starts

LEMMA PreparingStarts ==
    ASSUME lora.cold_start \in BOOLEAN, lora.calibrate_image \in BOOLEAN
    PROVE /\ Starts(PrepareForTx, ModemLead, TxScript, 7 + ModemCold)
          /\ \A m : Starts(PrepareForRx(m), ModemLead, RxScript(m), 4 + ModemCold)
          /\ Starts(PrepareForCad, ModemLead, CadScript, 3 + ModemCold)
          /\ Starts(Listen, ModemLead, ListenScript, 3 + ModemCold)
          /\ Starts(ContinuousWave, ModemLead, WaveScript, 7 + ModemCold)
<1>1. Starts(PrepareForTx, ModemLead, TxScript, 7 + ModemCold)
  <2>1. PICK T : T = <<Set("modulation", "Transmit"), Set("power", "Transmit"),
                       Do("ensure_ready"), Set("packet", "Transmit"),
                       Set("channel", "Transmit"),
                       Cmd("payload", "Transmit", [radio_mode |-> "Transmit"]),
                       Do("set_irq_params")>>
    OBVIOUS
  <2>2. IsSequence(T) /\ Len(T) = 7
    BY <2>1 DEF IsSequence
  <2>3. EndsIn(TxScript, T)
    BY <2>1, <2>2 DEF EndsIn, TxScript
  <2> QED
    BY <2>1, <2>2, <2>3, ModemStands DEF PrepareForTx, Starts
<1>2. ASSUME NEW m PROVE Starts(PrepareForRx(m), ModemLead, RxScript(m), 4 + ModemCold)
  <2>1. PICK T : T = <<Set("modulation", "Receive"), Set("packet", "Receive"),
                       Cmd("channel", "Receive", [radio_mode |-> m]), Do("set_irq_params")>>
    OBVIOUS
  <2>2. IsSequence(T) /\ Len(T) = 4
    BY <2>1 DEF IsSequence
  <2>3. EndsIn(RxScript(m), T)
    BY <2>1, <2>2 DEF EndsIn, RxScript
  <2> QED
    BY <2>1, <2>2, <2>3, ModemStands DEF PrepareForRx, Starts
<1>3. Starts(PrepareForCad, ModemLead, CadScript, 3 + ModemCold)
  <2>1. PICK T : T = <<Set("modulation", "Cad"),
                       Cmd("channel", "Cad", [radio_mode |-> "Cad"]), Do("set_irq_params")>>
    OBVIOUS
  <2>2. IsSequence(T) /\ Len(T) = 3
    BY <2>1 DEF IsSequence
  <2>3. EndsIn(CadScript, T)
    BY <2>1, <2>2 DEF EndsIn, CadScript
  <2> QED
    BY <2>1, <2>2, <2>3, ModemStands DEF PrepareForCad, Starts
<1>4. Starts(Listen, ModemLead, ListenScript, 3 + ModemCold)
  <2>1. PICK T : T = <<Set("channel", "Listen"),
                       Cmd("modulation", "Listen", [radio_mode |-> "Listen"]),
                       Cmd("do_rx", "Continuous", <<>>)>>
    OBVIOUS
  <2>2. IsSequence(T) /\ Len(T) = 3
    BY <2>1 DEF IsSequence
  <2>3. EndsIn(ListenScript, T)
    BY <2>1, <2>2 DEF EndsIn, ListenScript
  <2> QED
    BY <2>1, <2>2, <2>3, ModemStands DEF Listen, Starts
<1>5. Starts(ContinuousWave, ModemLead, WaveScript, 7 + ModemCold)
  <2>1. PICK T : T = <<Set("packet", "Wave"), Set("modulation", "Wave"), Set("power", "Wave"),
                       Do("ensure_ready"), Cmd("channel", "Wave", [radio_mode |-> "Transmit"]),
                       Do("set_irq_params"), Do("set_tx_continuous_wave_mode")>>
    OBVIOUS
  <2>2. IsSequence(T) /\ Len(T) = 7
    BY <2>1 DEF IsSequence
  <2>3. EndsIn(WaveScript, T)
    BY <2>1, <2>2 DEF EndsIn, WaveScript
  <2> QED
    BY <2>1, <2>2, <2>3, ModemStands DEF ContinuousWave, Starts
<1> QED
  BY <1>1, <1>2, <1>3, <1>4, <1>5

LEMMA FixedStarts ==
    /\ Starts(LoRaInit, "Done", InitScript, 6)
    /\ Starts(EnterStandby, "Done", StandbyScript, 1)
    /\ Starts(<<Do("clear_irq_status")>>, "Done", ClearScript, 1)
    /\ Starts(Tx, "Done", TxOpScript, 4)
    /\ Starts(DoCad, "Done", CadOpScript, 4)
    /\ Starts(AwaitAndProcess, "Done", WaitScript, 3)
    /\ Starts(ProcessIrq, "Done", WaitScript, 2)
    /\ Starts(StartRx, "Done", StartScript(lora.radio_mode), 1)
    /\ Starts(RxSwitchChannel, "Done", SwitchScript(lora.radio_mode), 3)
    /\ Starts(StartRx \o ProcessIrq, "Done", RxOpScript(lora.radio_mode), 3)
    /\ Starts(Recover, "Done", RecoverScript, 2)
    /\ Starts(<<StandbyCmd>>, "Done", RecoverScript, 1)
    /\ ReadPacket # <<>> /\ Stands(ReadPacket, "Done", ReadScript)
<1> DEFINE m == lora.radio_mode
<1>0. 1 \in Nat \ {0} /\ 2 \in Nat \ {0} /\ 3 \in Nat \ {0} /\ 4 \in Nat \ {0} /\ 6 \in Nat \ {0}
  OBVIOUS
<1>1. Starts(LoRaInit, "Done", InitScript, 6)
  <2>1. PICK a : a = <<Do("reset"), Do("ensure_ready"),
                       Cmd("set_standby", "None", [radio_mode |-> "Standby"])>>
    OBVIOUS
  <2>2. PICK b : b = DoColdStart
    OBVIOUS
  <2>3. IsSequence(a) /\ Len(a) = 3 /\ IsSequence(b) /\ Len(b) = 3
    BY <2>1, <2>2 DEF IsSequence, DoColdStart
  <2>4. Joins(a, b, a \o b)
    BY <2>3, ConcatJoins
  <2>5. PICK t : t = a \o b
    OBVIOUS
  <2>6. IsSequence(t) /\ Len(t) = 6 /\ t[1] = a[1] /\ t[2] = a[2] /\ t[3] = a[3]
        /\ t[1 + 3] = b[1] /\ t[2 + 3] = b[2] /\ t[3 + 3] = b[3]
    BY <2>3, <2>4, <2>5 DEF Joins
  <2>7. Len(InitScript) = 6 /\ \A i \in 1 .. 6 : t[i] = InitScript[i]
    BY <2>1, <2>2, <2>6 DEF InitScript, DoColdStart, StandbyCmd, ColdDone
  <2>8. IsSequence(t) /\ Len(t) = 6 /\ Len(InitScript) = 6 /\ \A i \in 1 .. 6 : t[i] = InitScript[i]
    BY <2>6, <2>7
  <2>9. Starts(t, "Done", InitScript, 6)
    BY <1>0, <2>8, WholeStarts, Zenon
  <2> QED
    BY <2>9, <2>1, <2>2, <2>5 DEF LoRaInit
<1>2. Starts(EnterStandby, "Done", StandbyScript, 1)
  <2>1. PICK t : t = <<Do("set_standby")>>
    OBVIOUS
  <2>2. IsSequence(t) /\ Len(t) = 1
    BY <2>1 DEF IsSequence
  <2>3. IsSequence(t) /\ Len(t) = 1 /\ Len(StandbyScript) = 1 /\ \A i \in 1 .. 1 : t[i] = StandbyScript[i]
    BY <2>1, <2>2 DEF StandbyScript
  <2>4. Starts(t, "Done", StandbyScript, 1)
    BY <1>0, <2>3, WholeStarts, Zenon
  <2> QED
    BY <2>4, <2>1 DEF EnterStandby
<1>3. Starts(<<Do("clear_irq_status")>>, "Done", ClearScript, 1)
  <2>1. PICK t : t = <<Do("clear_irq_status")>>
    OBVIOUS
  <2>2. IsSequence(t) /\ Len(t) = 1
    BY <2>1 DEF IsSequence
  <2>3. IsSequence(t) /\ Len(t) = 1 /\ Len(ClearScript) = 1 /\ \A i \in 1 .. 1 : t[i] = ClearScript[i]
    BY <2>1, <2>2 DEF ClearScript
  <2>4. Starts(t, "Done", ClearScript, 1)
    BY <1>0, <2>3, WholeStarts, Zenon
  <2> QED
    BY <2>4, <2>1
<1>4. PICK p : p = ProcessIrq
  OBVIOUS
<1>5. IsSequence(p) /\ Len(p) = 2 /\ p[1] = Do("get_irq_state") /\ p[2] = Do("clear_irq_flags")
  BY <1>4 DEF IsSequence, ProcessIrq
<1>6. ASSUME NEW c PROVE Joins(<<c>>, p, <<c>> \o p) /\ Len(<<c>>) = 1 /\ <<c>>[1] = c
                         /\ IsSequence(<<c>>)
  <2>1. PICK a : a = <<c>>
    OBVIOUS
  <2>2. IsSequence(a) /\ Len(a) = 1 /\ a[1] = c
    BY <2>1 DEF IsSequence
  <2>3. Joins(a, p, a \o p)
    BY <2>2, <1>5, ConcatJoins
  <2> QED
    BY <2>1, <2>2, <2>3
<1>7. PICK w : w = AwaitAndProcess
  OBVIOUS
<1>8. IsSequence(w) /\ Len(w) = 3 /\ w[1] = Do("await_irq") /\ w[2] = Do("get_irq_state")
      /\ w[3] = Do("clear_irq_flags")
  <2>1. PICK a : a = <<Do("await_irq")>>
    OBVIOUS
  <2>2. Joins(a, p, w) /\ Len(a) = 1 /\ a[1] = Do("await_irq")
    BY <1>4, <1>6, <1>7, <2>1 DEF AwaitAndProcess
  <2>3. IsSequence(w) /\ Len(w) = 3 /\ w[1] = a[1] /\ w[1 + 1] = p[1] /\ w[2 + 1] = p[2]
    BY <1>5, <2>2 DEF Joins
  <2> QED
    BY <1>5, <2>2, <2>3
<1>9. Starts(AwaitAndProcess, "Done", WaitScript, 3)
  <2>1. Len(WaitScript) = 3 /\ \A i \in 1 .. 3 : w[i] = WaitScript[i]
    BY <1>8 DEF WaitScript
  <2>2. IsSequence(w) /\ Len(w) = 3 /\ Len(WaitScript) = 3 /\ \A i \in 1 .. 3 : w[i] = WaitScript[i]
    BY <1>8, <2>1
  <2>3. Starts(w, "Done", WaitScript, 3)
    BY <1>0, <2>2, WholeStarts, Zenon
  <2> QED
    BY <2>3, <1>7
<1>10. Starts(ProcessIrq, "Done", WaitScript, 2)
  <2>1. Len(WaitScript) = 3 /\ WaitScript[2] = p[1] /\ WaitScript[3] = p[2]
    BY <1>5 DEF WaitScript
  <2>2. LeadLen("Done") = 0
    BY DEF LeadLen
  <2>3. p # <<>>
    <3>1. Len(<<>>) = 0
      OBVIOUS
    <3> QED
      BY <1>5, <3>1
  <2>4. \A i \in 1 .. 2 : p[i] = WaitScript[i + 3 - 2]
    BY <2>1
  <2> QED
    BY <1>4, <1>5, <2>1, <2>2, <2>3, <2>4 DEF Starts, Stands, Togo, Leads
<1>11. ASSUME NEW c PROVE /\ IsSequence(<<c>> \o w)
                          /\ Len(<<c>> \o w) = 4
                          /\ (<<c>> \o w)[1] = c
                          /\ (<<c>> \o w)[2] = w[1]
                          /\ (<<c>> \o w)[3] = w[2]
                          /\ (<<c>> \o w)[4] = w[3]
  <2>1. PICK a : a = <<c>>
    OBVIOUS
  <2>2. IsSequence(a) /\ Len(a) = 1 /\ a[1] = c
    BY <2>1 DEF IsSequence
  <2>3. Joins(a, w, a \o w)
    BY <2>2, <1>8, ConcatJoins
  <2>4. PICK t : t = a \o w
    OBVIOUS
  <2>5. IsSequence(t) /\ Len(t) = 4 /\ t[1] = a[1] /\ t[1 + 1] = w[1] /\ t[2 + 1] = w[2]
        /\ t[3 + 1] = w[3]
    BY <2>2, <2>3, <2>4, <1>8 DEF Joins
  <2> QED
    BY <2>1, <2>2, <2>4, <2>5
<1>12. Starts(Tx, "Done", TxOpScript, 4)
  <2>1. PICK t : t = <<Do("do_tx")>> \o w
    OBVIOUS
  <2>2. IsSequence(t) /\ Len(t) = 4 /\ t[1] = Do("do_tx") /\ t[2] = w[1] /\ t[3] = w[2]
        /\ t[4] = w[3]
    BY <1>11, <2>1
  <2>3. Len(TxOpScript) = 4 /\ \A i \in 1 .. 4 : t[i] = TxOpScript[i]
    BY <1>8, <2>2 DEF TxOpScript
  <2>4. IsSequence(t) /\ Len(t) = 4 /\ Len(TxOpScript) = 4 /\ \A i \in 1 .. 4 : t[i] = TxOpScript[i]
    BY <2>2, <2>3
  <2>5. Starts(t, "Done", TxOpScript, 4)
    BY <1>0, <2>4, WholeStarts, Zenon
  <2> QED
    BY <2>5, <1>7, <2>1 DEF Tx
<1>13. Starts(DoCad, "Done", CadOpScript, 4)
  <2>1. PICK t : t = <<Do("do_cad")>> \o w
    OBVIOUS
  <2>2. IsSequence(t) /\ Len(t) = 4 /\ t[1] = Do("do_cad") /\ t[2] = w[1] /\ t[3] = w[2]
        /\ t[4] = w[3]
    BY <1>11, <2>1
  <2>3. Len(CadOpScript) = 4 /\ \A i \in 1 .. 4 : t[i] = CadOpScript[i]
    BY <1>8, <2>2 DEF CadOpScript
  <2>4. IsSequence(t) /\ Len(t) = 4 /\ Len(CadOpScript) = 4 /\ \A i \in 1 .. 4 : t[i] = CadOpScript[i]
    BY <2>2, <2>3
  <2>5. Starts(t, "Done", CadOpScript, 4)
    BY <1>0, <2>4, WholeStarts, Zenon
  <2> QED
    BY <2>5, <1>7, <2>1 DEF DoCad
<1>14. PICK q : q = StartRx
  OBVIOUS
<1>15. IsSequence(q) /\ Len(q) = 1 /\ q[1] = Cmd("do_rx", m, <<>>)
  BY <1>14 DEF StartRx, IsSequence
<1>16. Starts(StartRx, "Done", StartScript(m), 1)
  <2>1. Len(StartScript(m)) = 1 /\ StartScript(m)[1] = q[1]
    BY <1>15 DEF StartScript
  <2>2. IsSequence(q) /\ Len(q) = 1 /\ Len(StartScript(m)) = 1 /\ \A i \in 1 .. 1 : q[i] = StartScript(m)[i]
    BY <1>15, <2>1
  <2>3. Starts(q, "Done", StartScript(m), 1)
    BY <1>0, <2>2, WholeStarts, Zenon
  <2> QED
    BY <2>3, <1>14
<1>17. Starts(RxSwitchChannel, "Done", SwitchScript(m), 3)
  <2>1. PICK a : a = <<Do("set_standby"), Set("channel", "Receive")>>
    OBVIOUS
  <2>2. IsSequence(a) /\ Len(a) = 2 /\ a[1] = Do("set_standby")
        /\ a[2] = Set("channel", "Receive")
    BY <2>1 DEF IsSequence
  <2>3. Joins(a, q, a \o q)
    BY <2>2, <1>15, ConcatJoins
  <2>4. PICK t : t = a \o q
    OBVIOUS
  <2>5. IsSequence(t) /\ Len(t) = 3 /\ t[1] = a[1] /\ t[2] = a[2] /\ t[1 + 2] = q[1]
    BY <2>2, <2>3, <2>4, <1>15 DEF Joins
  <2>6. Len(SwitchScript(m)) = 3 /\ \A i \in 1 .. 3 : t[i] = SwitchScript(m)[i]
    BY <1>15, <2>2, <2>5 DEF SwitchScript
  <2>7. IsSequence(t) /\ Len(t) = 3 /\ Len(SwitchScript(m)) = 3 /\ \A i \in 1 .. 3 : t[i] = SwitchScript(m)[i]
    BY <2>5, <2>6
  <2>8. Starts(t, "Done", SwitchScript(m), 3)
    BY <1>0, <2>7, WholeStarts, Zenon
  <2> QED
    BY <2>8, <1>14, <2>1, <2>4 DEF RxSwitchChannel
<1>18. Starts(StartRx \o ProcessIrq, "Done", RxOpScript(m), 3)
  <2>1. Joins(q, p, q \o p)
    BY <1>5, <1>15, ConcatJoins
  <2>2. PICK t : t = q \o p
    OBVIOUS
  <2>3. IsSequence(t) /\ Len(t) = 3 /\ t[1] = q[1] /\ t[1 + 1] = p[1] /\ t[2 + 1] = p[2]
    BY <1>5, <1>15, <2>1, <2>2 DEF Joins
  <2>4. Len(RxOpScript(m)) = 3 /\ \A i \in 1 .. 3 : t[i] = RxOpScript(m)[i]
    BY <1>5, <1>15, <2>3 DEF RxOpScript
  <2>5. IsSequence(t) /\ Len(t) = 3 /\ Len(RxOpScript(m)) = 3 /\ \A i \in 1 .. 3 : t[i] = RxOpScript(m)[i]
    BY <2>3, <2>4
  <2>6. Starts(t, "Done", RxOpScript(m), 3)
    BY <1>0, <2>5, WholeStarts, Zenon
  <2> QED
    BY <2>6, <1>4, <1>14, <2>2
<1>19. Starts(Recover, "Done", RecoverScript, 2)
  <2>1. PICK t : t = Recover
    OBVIOUS
  <2>2. IsSequence(t) /\ Len(t) = 2 /\ t = RecoverScript
    BY <2>1 DEF IsSequence, Recover, RecoverScript, StandbyCmd
  <2>3. IsSequence(t) /\ Len(t) = 2 /\ Len(RecoverScript) = 2 /\ \A i \in 1 .. 2 : t[i] = RecoverScript[i]
    BY <2>2
  <2>4. Starts(t, "Done", RecoverScript, 2)
    BY <1>0, <2>3, WholeStarts, Zenon
  <2> QED
    BY <2>4, <2>1
<1>20. Starts(<<StandbyCmd>>, "Done", RecoverScript, 1)
  <2>1. PICK t : t = <<StandbyCmd>>
    OBVIOUS
  <2>2. IsSequence(t) /\ Len(t) = 1 /\ t[1] = StandbyCmd
    BY <2>1 DEF IsSequence
  <2>3. Len(RecoverScript) = 2 /\ RecoverScript[2] = StandbyCmd
    BY DEF RecoverScript
  <2>4. LeadLen("Done") = 0
    BY DEF LeadLen
  <2>5. t # <<>>
    <3>1. Len(<<>>) = 0
      OBVIOUS
    <3> QED
      BY <2>2, <3>1
  <2>6. \A i \in 1 .. 1 : t[i] = RecoverScript[i + 2 - 1]
    BY <2>2, <2>3
  <2> QED
    BY <2>1, <2>2, <2>3, <2>4, <2>5, <2>6 DEF Starts, Stands, Togo, Leads
<1>21. ReadPacket # <<>> /\ Stands(ReadPacket, "Done", ReadScript)
  <2>1. PICK b : b = <<Do("get_rx_payload"), Do("get_rx_packet_status")>>
    OBVIOUS
  <2>2. IsSequence(b) /\ Len(b) = 2 /\ b[1] = Do("get_rx_payload")
        /\ b[2] = Do("get_rx_packet_status")
    BY <2>1 DEF IsSequence
  <2>3. Len(ReadScript) = 3 /\ ReadScript[1] = Do("handle_implicit_header_mode")
        /\ ReadScript[2] = b[1] /\ ReadScript[3] = b[2]
    BY <2>2 DEF ReadScript
  <2>4. LeadLen("Done") = 0 /\ Len(<<>>) = 0
    BY DEF LeadLen
  <2>5. PICK a : a = IF kind = "Sx126x" /\ lora.radio_mode = "Single"
                     THEN <<Do("handle_implicit_header_mode")>> ELSE <<>>
    OBVIOUS
  <2>6. PICK t : t = a \o b
    OBVIOUS
  <2>7. CASE kind = "Sx126x" /\ lora.radio_mode = "Single"
    <3>1. IsSequence(a) /\ Len(a) = 1 /\ a[1] = Do("handle_implicit_header_mode")
      BY <2>5, <2>7 DEF IsSequence
    <3>2. Joins(a, b, a \o b)
      BY <3>1, <2>2, ConcatJoins
    <3>3. IsSequence(t) /\ Len(t) = 3 /\ t[1] = a[1] /\ t[1 + 1] = b[1] /\ t[2 + 1] = b[2]
      BY <2>2, <2>6, <3>1, <3>2 DEF Joins
    <3>4. \A i \in 1 .. 3 : t[i] = ReadScript[i]
      BY <2>3, <3>1, <3>3
    <3>5. Starts(t, "Done", ReadScript, 3)
      <4>1. IsSequence(t) /\ Len(t) = 3 /\ Len(ReadScript) = 3
        BY <2>3, <3>3
      <4> QED
        BY <1>0, <3>4, <4>1, WholeStarts, Zenon
    <3> QED
      BY <2>1, <2>5, <2>6, <3>5 DEF ReadPacket, Starts
  <2>8. CASE ~(kind = "Sx126x" /\ lora.radio_mode = "Single")
    <3>1. IsSequence(a) /\ Len(a) = 0
      BY <2>5, <2>8 DEF IsSequence
    <3>2. Joins(a, b, a \o b)
      BY <3>1, <2>2, ConcatJoins
    <3>3. IsSequence(t) /\ Len(t) = 2 /\ t[1 + 0] = b[1] /\ t[2 + 0] = b[2]
      BY <2>2, <2>6, <3>1, <3>2 DEF Joins
    <3>4. \A i \in 1 .. 2 : t[i] = ReadScript[i + 3 - 2]
      BY <2>3, <3>3
    <3>5. Stands(t, "Done", ReadScript) /\ t # <<>>
      BY SMTT(30), <2>3, <2>4, <3>3, <3>4 DEF Stands, Leads
    <3> QED
      BY <2>1, <2>5, <2>6, <3>5 DEF ReadPacket
  <2> QED
    BY <2>7, <2>8
<1> QED
  BY <1>1, <1>2, <1>3, <1>9, <1>10, <1>12, <1>13, <1>16, <1>17, <1>18, <1>19, <1>20, <1>21

\* The two methods that may have nothing to do before their only command.
LEMMA ShortStarts ==
    /\ \A w : Starts(SetLoraSyncWord(w), ModemLead, SyncScript(w), 1)
    /\ \A warm : lora.radio_mode # "Sleep" =>
          Starts(Sleep(warm), "Ready", SleepScript(warm, lora.cold_start \/ ~warm), 1)
<1>1. ASSUME NEW w PROVE Starts(SetLoraSyncWord(w), ModemLead, SyncScript(w), 1)
  BY LeadStarts DEF SetLoraSyncWord, SyncScript
<1>2. ASSUME NEW warm, lora.radio_mode # "Sleep"
      PROVE Starts(Sleep(warm), "Ready", SleepScript(warm, lora.cold_start \/ ~warm), 1)
  <2>1. PICK c : c = Cmd("set_sleep", warm, [radio_mode |-> "Sleep",
                                             cold_start |-> lora.cold_start \/ ~warm])
    OBVIOUS
  <2>2. PICK t : t = <<Do("ensure_ready"), c>>
    OBVIOUS
  <2>3. IsSequence(t) /\ Len(t) = 2 /\ t[1] = Do("ensure_ready") /\ t[2] = c
    BY <2>2 DEF IsSequence
  <2>4. PICK F : F = <<c>>
    OBVIOUS
  <2>5. Len(F) = 1 /\ F[1] = c
    BY <2>4
  <2>6. LeadLen("Ready") = 1 /\ Len(<<>>) = 0
    BY DEF LeadLen
  <2>7. \A i \in 2 .. 2 : t[i] = F[i + 1 - 2]
    BY <2>3, <2>5
  <2>8. Starts(t, "Ready", F, 1)
    BY <2>3, <2>5, <2>6, <2>7 DEF Starts, Stands, Togo, Leads
  <2> QED
    BY <1>2, <2>1, <2>2, <2>4, <2>8 DEF Sleep, SleepScript
<1> QED
  BY <1>1, <1>2

-----------------------------------------------------------------------------
(* What a command does to LoRa and to the chip.                            *)

\* LoRa after a step, field by field.
LoRaIs(m, w, cold, calibrate) ==
    /\ lora' \in LoRa
    /\ lora'.radio_mode = m /\ lora'.sync_word = w
    /\ lora'.cold_start = cold /\ lora'.calibrate_image = calibrate

LEMMA AssignIs ==
    ASSUME lora \in LoRa
    PROVE /\ Assign(<<>>) =>
                LoRaIs(lora.radio_mode, lora.sync_word, lora.cold_start, lora.calibrate_image)
          /\ \A m \in Modes : Assign([radio_mode |-> m]) =>
                LoRaIs(m, lora.sync_word, lora.cold_start, lora.calibrate_image)
          /\ Assign([cold_start |-> FALSE, calibrate_image |-> TRUE]) =>
                LoRaIs(lora.radio_mode, lora.sync_word, FALSE, TRUE)
          /\ Assign([calibrate_image |-> FALSE]) =>
                LoRaIs(lora.radio_mode, lora.sync_word, lora.cold_start, FALSE)
          /\ \A w \in SyncWords : Assign([sync_word |-> w]) =>
                LoRaIs(lora.radio_mode, w, lora.cold_start, lora.calibrate_image)
          /\ \A c \in BOOLEAN : Assign([radio_mode |-> "Sleep", cold_start |-> c]) =>
                LoRaIs("Sleep", lora.sync_word, c, lora.calibrate_image)
<1>0. DOMAIN lora = {"radio_mode", "sync_word", "cold_start", "calibrate_image"}
  BY DEF LoRa
<1>1. Assign(<<>>) =>
         LoRaIs(lora.radio_mode, lora.sync_word, lora.cold_start, lora.calibrate_image)
  <2>1. DOMAIN <<>> = {}
    OBVIOUS
  <2> QED
    BY <1>0, <2>1 DEF Assign, LoRaIs, LoRa
<1>2. ASSUME NEW m \in Modes, Assign([radio_mode |-> m])
      PROVE LoRaIs(m, lora.sync_word, lora.cold_start, lora.calibrate_image)
  BY <1>0, <1>2 DEF Assign, LoRaIs, LoRa
<1>3. Assign([cold_start |-> FALSE, calibrate_image |-> TRUE]) =>
         LoRaIs(lora.radio_mode, lora.sync_word, FALSE, TRUE)
  BY <1>0 DEF Assign, LoRaIs, LoRa
<1>4. Assign([calibrate_image |-> FALSE]) =>
         LoRaIs(lora.radio_mode, lora.sync_word, lora.cold_start, FALSE)
  BY <1>0 DEF Assign, LoRaIs, LoRa
<1>5. ASSUME NEW w \in SyncWords, Assign([sync_word |-> w])
      PROVE LoRaIs(lora.radio_mode, w, lora.cold_start, lora.calibrate_image)
  BY <1>0, <1>5 DEF Assign, LoRaIs, LoRa
<1>6. ASSUME NEW c \in BOOLEAN, Assign([radio_mode |-> "Sleep", cold_start |-> c])
      PROVE LoRaIs("Sleep", lora.sync_word, c, lora.calibrate_image)
  BY <1>0, <1>6 DEF Assign, LoRaIs, LoRa, Modes
<1> QED
  BY <1>1, <1>2, <1>3, <1>4, <1>5, <1>6

\* A chip, field by field.
ChipIs(c, mode, init, sync, calibrated, cfg, mask, irq) ==
    /\ c \in RadioChip
    /\ c.mode = mode /\ c.init = init /\ c.sync = sync /\ c.calibrated = calibrated
    /\ c.cfg = cfg /\ c.mask = mask /\ c.irq = irq

\* The parts of the chip that a command other than these leaves alone.
ModeIs(c, mode) ==
    ChipIs(c, mode, chip.init, chip.sync, chip.calibrated, chip.cfg, chip.mask, chip.irq)

IsBlank(c, mode) ==
    ChipIs(c, mode, FALSE, "None", FALSE, [for |-> "None", set |-> {}], {}, NoFlags)

KindOk == kind \in {"Sx126x", "Sx127x", "Lr1110"}

LEMMA FlagTypes ==
    ASSUME KindOk, chip \in RadioChip
    PROVE /\ NoFlags \in Irqs
          /\ Aged(chip.irq) \in Irqs
          /\ \A c : FlagsAtStart(c) \in Irqs
          /\ \A m : Enabled(m) \subseteq Flags
          /\ \A s \in Settings, p \in Purposes :
                Written(s, p) \in [for : Purposes, set : SUBSET Settings]
<1>1. NoFlags \in Irqs
  BY DEF NoFlags, Irqs
<1>2. Aged(chip.irq) \in Irqs
  BY DEF Aged, Irqs, RadioChip
<1>3. \A c : FlagsAtStart(c) \in Irqs
  BY <1>1, <1>2 DEF FlagsAtStart
<1>4. \A m : Enabled(m) \subseteq Flags
  BY DEF Enabled, Flags
<1>5. ASSUME NEW s \in Settings, NEW p \in Purposes
      PROVE Written(s, p) \in [for : Purposes, set : SUBSET Settings]
  <2>1. chip.cfg.set \in SUBSET Settings
    BY DEF RadioChip
  <2> QED
    BY <2>1 DEF Written
<1> QED
  BY <1>1, <1>2, <1>3, <1>4, <1>5

LEMMA BlankIs ==
    ASSUME NEW m \in {"Sleep", "Standby"}
    PROVE IsBlank([BlankChip EXCEPT !.mode = m], m)
<1>1. NoFlags \in Irqs
  BY DEF NoFlags, Irqs
<1> QED
  BY <1>1 DEF IsBlank, ChipIs, BlankChip, RadioChip, Irqs, Purposes

\* The first command that a sleeping chip with a BUSY line gets wakes it.
LEMMA AfterWakes ==
    ASSUME KindOk, chip \in RadioChip, NEW c, c.cmd # "reset", Dormant
    PROVE ModeIs(After(c), "Standby")
<1>1. After(c) = [chip EXCEPT !.mode = "Standby"]
  BY DEF After, Dormant
<1> QED
  BY <1>1 DEF ModeIs, ChipIs, RadioChip

LEMMA AfterReset ==
    ASSUME NEW c, c.cmd = "reset"
    PROVE IsBlank(After(c), IF HasBusy THEN "Standby" ELSE "Sleep")
<1>1. After(c) = [BlankChip EXCEPT !.mode = IF HasBusy THEN "Standby" ELSE "Sleep"]
  BY DEF After
<1> QED
  BY <1>1, BlankIs

\* The effect of a command on a chip that is awake.
AwakeEffect(c) ==
    /\ c.cmd = "set_standby" => ModeIs(After(c), "Standby")
    /\ c.cmd = "set_sleep" =>
          ModeIs(After(c), "Sleep") \/ (~c.arg /\ HasBusy /\ IsBlank(After(c), "Sleep"))
    /\ c.cmd = "init_lora" =>
          ChipIs(After(c), chip.mode, TRUE, lora.sync_word, chip.calibrated, chip.cfg,
                 chip.mask, chip.irq)
    /\ c.cmd = "set_lora_sync_word" /\ c.arg \in SyncWords =>
          ChipIs(After(c), chip.mode, chip.init, c.arg, chip.calibrated, chip.cfg,
                 chip.mask, chip.irq)
    /\ c.cmd = "calibrate_image" =>
          ChipIs(After(c), chip.mode, chip.init, chip.sync, TRUE, chip.cfg, chip.mask, chip.irq)
    /\ c.cmd = "set_irq_params" =>
          ChipIs(After(c), chip.mode, chip.init, chip.sync, chip.calibrated, chip.cfg,
                 Enabled(lora.radio_mode), IF kind = "Sx127x" THEN NoFlags ELSE chip.irq)
    /\ c.cmd \in Settings /\ c.arg \in Purposes =>
          ChipIs(After(c), chip.mode, chip.init, chip.sync, chip.calibrated,
                 Written(c.cmd, c.arg), chip.mask, chip.irq)
    /\ c.cmd = "do_tx" =>
          ChipIs(After(c), "Tx", chip.init, chip.sync, chip.calibrated, chip.cfg,
                 chip.mask, FlagsAtStart("do_tx"))
    /\ c.cmd = "do_rx" =>
          ChipIs(After(c), IF c.arg = "Single" THEN "RxSingle" ELSE "RxContinuous",
                 chip.init, chip.sync, chip.calibrated, chip.cfg, chip.mask,
                 FlagsAtStart("do_rx"))
    /\ c.cmd = "do_cad" =>
          ChipIs(After(c), "Cad", chip.init, chip.sync, chip.calibrated, chip.cfg,
                 chip.mask, FlagsAtStart("do_cad"))
    /\ c.cmd = "set_tx_continuous_wave_mode" => ModeIs(After(c), "Wave")
    /\ c.cmd = "clear_irq_status" =>
          ChipIs(After(c), chip.mode, chip.init, chip.sync, chip.calibrated, chip.cfg,
                 chip.mask, NoFlags)
    /\ c.cmd \in {"ensure_ready", "get_irq_state", "await_irq", "get_rx_payload",
                  "get_rx_packet_status", "handle_implicit_header_mode"} =>
          After(c) = chip

LEMMA AfterAwake ==
    ASSUME KindOk, chip \in RadioChip, lora \in LoRa, NEW c, ~Dormant
    PROVE AwakeEffect(c)
<1>0. ~(HasBusy /\ chip.mode = "Sleep")
  BY DEF Dormant
<1>1. c.cmd = "set_standby" => ModeIs(After(c), "Standby")
  <2>1. c.cmd = "set_standby" => After(c) = [chip EXCEPT !.mode = "Standby"]
    BY <1>0 DEF After, Settings
  <2> QED
    BY <2>1 DEF ModeIs, ChipIs, RadioChip
<1>2. c.cmd = "set_sleep" =>
          ModeIs(After(c), "Sleep") \/ (~c.arg /\ HasBusy /\ IsBlank(After(c), "Sleep"))
  <2>1. c.cmd = "set_sleep" => After(c) = Asleep(c.arg)
    BY <1>0 DEF After, Settings
  <2>2. CASE c.arg \/ ~HasBusy
    <3>1. Asleep(c.arg) = [chip EXCEPT !.mode = "Sleep"]
      BY <2>2 DEF Asleep
    <3>2. ModeIs([chip EXCEPT !.mode = "Sleep"], "Sleep")
      BY DEF ModeIs, ChipIs, RadioChip
    <3> QED
      BY <2>1, <3>1, <3>2
  <2>3. CASE ~(c.arg \/ ~HasBusy)
    <3>1. Asleep(c.arg) = [BlankChip EXCEPT !.mode = "Sleep"]
      BY <2>3 DEF Asleep
    <3> QED
      BY <2>1, <2>3, <3>1, BlankIs
  <2> QED
    BY <2>2, <2>3
<1>3. c.cmd = "init_lora" =>
          ChipIs(After(c), chip.mode, TRUE, lora.sync_word, chip.calibrated, chip.cfg,
                 chip.mask, chip.irq)
  <2>1. c.cmd = "init_lora" => After(c) = [chip EXCEPT !.init = TRUE, !.sync = lora.sync_word]
    BY <1>0 DEF After, Settings
  <2>2. lora.sync_word \in SyncWords \cup {"None"}
    BY DEF LoRa
  <2>3. PICK w \in SyncWords \cup {"None"} : w = lora.sync_word
    BY <2>2
  <2>4. ChipIs([chip EXCEPT !.init = TRUE, !.sync = w], chip.mode, TRUE, w,
               chip.calibrated, chip.cfg, chip.mask, chip.irq)
    <3>1. PICK k : k = [chip EXCEPT !.init = TRUE, !.sync = w]
      OBVIOUS
    <3>2. k \in RadioChip
      BY <3>1, <2>3 DEF RadioChip
    <3>3. k.init = TRUE /\ k.sync = w
      BY <3>1 DEF RadioChip
    <3>4. k.mode = chip.mode /\ k.calibrated = chip.calibrated /\ k.cfg = chip.cfg
          /\ k.mask = chip.mask /\ k.irq = chip.irq
      BY <3>1 DEF RadioChip
    <3> QED
      BY <3>1, <3>2, <3>3, <3>4 DEF ChipIs
  <2> QED
    BY <2>1, <2>3, <2>4
<1>4. c.cmd = "set_lora_sync_word" /\ c.arg \in SyncWords =>
          ChipIs(After(c), chip.mode, chip.init, c.arg, chip.calibrated, chip.cfg,
                 chip.mask, chip.irq)
  <2>1. c.cmd = "set_lora_sync_word" => After(c) = [chip EXCEPT !.sync = c.arg]
    BY <1>0 DEF After, Settings
  <2> QED
    BY <2>1 DEF ChipIs, RadioChip
<1>5. c.cmd = "calibrate_image" =>
          ChipIs(After(c), chip.mode, chip.init, chip.sync, TRUE, chip.cfg, chip.mask, chip.irq)
  <2>1. c.cmd = "calibrate_image" => After(c) = [chip EXCEPT !.calibrated = TRUE]
    BY <1>0 DEF After, Settings
  <2>7. PICK k : k = [chip EXCEPT !.calibrated = TRUE]
    OBVIOUS
  <2>8. k \in RadioChip
    BY <2>7 DEF RadioChip
  <2>9. k.calibrated = TRUE
    BY <2>7 DEF RadioChip
  <2>10. k.mode = chip.mode /\ k.init = chip.init /\ k.sync = chip.sync /\ k.cfg = chip.cfg /\ k.mask = chip.mask /\ k.irq = chip.irq
    BY <2>7 DEF RadioChip
  <2>11. c.cmd = "calibrate_image" => After(c) = k
    BY <2>1, <2>7
  <2> QED
    BY <2>8, <2>9, <2>10, <2>11 DEF ChipIs
<1>6. c.cmd = "set_irq_params" =>
          ChipIs(After(c), chip.mode, chip.init, chip.sync, chip.calibrated, chip.cfg,
                 Enabled(lora.radio_mode), IF kind = "Sx127x" THEN NoFlags ELSE chip.irq)
  <2>1. PICK i : i = IF kind = "Sx127x" THEN NoFlags ELSE chip.irq
    OBVIOUS
  <2>2. i \in Irqs
    BY <2>1, FlagTypes DEF RadioChip, Irqs
  <2>3. PICK e : e = Enabled(lora.radio_mode)
    OBVIOUS
  <2>4. e \in SUBSET Flags
    BY <2>3, FlagTypes
  <2>5. c.cmd = "set_irq_params" => After(c) = [chip EXCEPT !.mask = e, !.irq = i]
    BY <1>0, <2>1, <2>3 DEF After, Settings
  <2>7. PICK k : k = [chip EXCEPT !.mask = e, !.irq = i]
    OBVIOUS
  <2>8. k \in RadioChip
    BY <2>2, <2>4, <2>7 DEF RadioChip, Irqs
  <2>9. k.mask = e /\ k.irq = i
    BY <2>7 DEF RadioChip
  <2>10. k.mode = chip.mode /\ k.init = chip.init /\ k.sync = chip.sync /\ k.calibrated = chip.calibrated /\ k.cfg = chip.cfg
    BY <2>7 DEF RadioChip
  <2>11. c.cmd = "set_irq_params" => After(c) = k
    BY <2>5, <2>7
  <2> QED
    BY <2>1, <2>3, <2>8, <2>9, <2>10, <2>11 DEF ChipIs
<1>7. c.cmd \in Settings /\ c.arg \in Purposes =>
          ChipIs(After(c), chip.mode, chip.init, chip.sync, chip.calibrated,
                 Written(c.cmd, c.arg), chip.mask, chip.irq)
  <2>1. PICK w : w = Written(c.cmd, c.arg)
    OBVIOUS
  <2>2. c.cmd \in Settings /\ c.arg \in Purposes => w \in [for : Purposes, set : SUBSET Settings]
    BY <2>1, FlagTypes
  <2>3. c.cmd \in Settings => After(c) = [chip EXCEPT !.cfg = w]
    BY <1>0, <2>1 DEF After, Settings
  <2> QED
    BY <2>1, <2>2, <2>3 DEF ChipIs, RadioChip
<1>8. ASSUME NEW d, NEW m \in {"Tx", "RxSingle", "RxContinuous", "Cad"}
      PROVE ChipIs(Started(d, m), m, chip.init, chip.sync, chip.calibrated, chip.cfg,
                   chip.mask, FlagsAtStart(d))
  <2>1. PICK i : i = FlagsAtStart(d)
    OBVIOUS
  <2>2. i \in Irqs
    BY <2>1, FlagTypes
  <2>3. Started(d, m) = [chip EXCEPT !.mode = m, !.heard = FALSE, !.irq = i]
    BY <2>1 DEF Started
  <2>7. PICK k : k = [chip EXCEPT !.mode = m, !.heard = FALSE, !.irq = i]
    OBVIOUS
  <2>8. k \in RadioChip
    BY <2>2, <2>7 DEF RadioChip, Irqs
  <2>9. k.mode = m /\ k.irq = i
    BY <2>7 DEF RadioChip
  <2>10. k.init = chip.init /\ k.sync = chip.sync /\ k.calibrated = chip.calibrated /\ k.cfg = chip.cfg /\ k.mask = chip.mask
    BY <2>7 DEF RadioChip
  <2>11. Started(d, m) = k
    BY <2>3, <2>7
  <2> QED
    BY <2>1, <2>8, <2>9, <2>10, <2>11 DEF ChipIs
<1>9. c.cmd = "do_tx" => After(c) = Started("do_tx", "Tx")
  BY <1>0 DEF After, Settings
<1>10. c.cmd = "do_rx" =>
          After(c) = Started("do_rx", IF c.arg = "Single" THEN "RxSingle" ELSE "RxContinuous")
  BY <1>0 DEF After, Settings
<1>11. c.cmd = "do_cad" => After(c) = Started("do_cad", "Cad")
  BY <1>0 DEF After, Settings
<1>12. c.cmd = "set_tx_continuous_wave_mode" => ModeIs(After(c), "Wave")
  <2>1. c.cmd = "set_tx_continuous_wave_mode" => After(c) = [chip EXCEPT !.mode = "Wave"]
    BY <1>0 DEF After, Settings
  <2> QED
    BY <2>1 DEF ModeIs, ChipIs, RadioChip
<1>13. c.cmd = "clear_irq_status" =>
          ChipIs(After(c), chip.mode, chip.init, chip.sync, chip.calibrated, chip.cfg,
                 chip.mask, NoFlags)
  <2>1. c.cmd = "clear_irq_status" => After(c) = [chip EXCEPT !.irq = NoFlags]
    BY <1>0 DEF After, Settings
  <2>2. NoFlags \in Irqs
    BY FlagTypes
  <2> QED
    BY <2>1, <2>2 DEF ChipIs, RadioChip, Irqs
<1>14. c.cmd \in {"ensure_ready", "get_irq_state", "await_irq", "get_rx_payload",
                  "get_rx_packet_status", "handle_implicit_header_mode"} =>
          After(c) = chip
  BY <1>0 DEF After, Settings
<1> QED
  BY <1>1, <1>2, <1>3, <1>4, <1>5, <1>6, <1>7, <1>8, <1>9, <1>10, <1>11, <1>12, <1>13, <1>14
     DEF AwakeEffect

-----------------------------------------------------------------------------
(* The chip's own steps.                                                   *)

\* The chip goes on or stops, and a flag may be raised.
Rises(f, m) ==
    /\ chip' \in RadioChip
    /\ chip'.mode = m /\ chip'.init = chip.init /\ chip'.sync = chip.sync
    /\ chip'.calibrated = chip.calibrated /\ chip'.cfg = chip.cfg /\ chip'.mask = chip.mask
    /\ \A g \in Flags \ {f} : chip'.irq[g] = chip.irq[g]
    /\ chip'.irq[f] = IF f \in chip.mask THEN "New" ELSE chip.irq[f]

LEMMA RaiseIs ==
    ASSUME chip \in RadioChip, NEW f \in Flags,
           NEW m \in {"Standby", "RxSingle", "RxContinuous"}, NEW h \in BOOLEAN,
           Raise(f, m, h)
    PROVE Rises(f, m)
<1>1. PICK v \in {"Clear", "Old", "New"} : v = IF f \in chip.mask THEN "New" ELSE chip.irq[f]
  BY DEF RadioChip
<1>2. PICK i \in Irqs : i = [chip.irq EXCEPT ![f] = v]
  BY DEF RadioChip, Irqs
<1>3. chip' = [chip EXCEPT !.mode = m, !.heard = h, !.irq = i]
  BY <1>1, <1>2 DEF Raise
<1>4. i[f] = v /\ \A g \in Flags \ {f} : i[g] = chip.irq[g]
  BY <1>2 DEF RadioChip
<1>5. chip' \in RadioChip
  BY <1>2, <1>3 DEF RadioChip, Irqs
<1>6. /\ chip'.mode = m /\ chip'.init = chip.init /\ chip'.sync = chip.sync
      /\ chip'.calibrated = chip.calibrated /\ chip'.cfg = chip.cfg /\ chip'.mask = chip.mask
      /\ chip'.irq = i
  BY <1>3 DEF RadioChip
<1> QED
  BY <1>1, <1>4, <1>5, <1>6 DEF Rises

\* The operation that the chip is at, the flag it raises, the mode it goes to.
Goes(f, m) ==
    \/ chip.mode \in {"RxSingle", "RxContinuous"} /\ f = "Preamble" /\ m = chip.mode
    \/ chip.mode = "RxContinuous" /\ f = "RxDone" /\ m = "RxContinuous"
    \/ chip.mode = "RxSingle" /\ f \in {"RxDone", "Timeout"} /\ m = "Standby"
    \/ chip.mode = "Tx" /\ f = "TxDone" /\ m = "Standby"
    \/ chip.mode = "Cad" /\ f = "CadDone" /\ m = "Standby"

LEMMA ChipGoes ==
    ASSUME chip \in RadioChip, ChipHears \/ ChipEnds
    PROVE /\ UNCHANGED <<lora, call, caller>>
          /\ \E f \in Flags, m \in {"Standby", "RxSingle", "RxContinuous"} :
                Goes(f, m) /\ Rises(f, m)
<1>1. UNCHANGED <<lora, call, caller>>
  BY DEF ChipHears, ChipEnds
<1>2. CASE ChipHears
  <2>1. Goes("Preamble", chip.mode)
    BY <1>2 DEF ChipHears, Goes
  <2>2. Rises("Preamble", chip.mode)
    BY <1>2, RaiseIs DEF ChipHears, Flags
  <2> QED
    BY <1>1, <1>2, <2>1, <2>2 DEF Flags, ChipHears
<1>3. CASE chip.mode \in {"RxSingle", "RxContinuous"}
           /\ Raise("RxDone", IF chip.mode = "RxSingle" THEN "Standby" ELSE chip.mode, FALSE)
  <2>1. PICK m \in {"Standby", "RxContinuous"} :
            m = IF chip.mode = "RxSingle" THEN "Standby" ELSE chip.mode
    BY <1>3
  <2>2. Goes("RxDone", m)
    BY <1>3, <2>1 DEF Goes
  <2>3. Rises("RxDone", m)
    BY <1>3, <2>1, RaiseIs DEF Flags
  <2> QED
    BY <1>1, <2>2, <2>3 DEF Flags
<1>4. CASE chip.mode = "RxSingle" /\ Raise("Timeout", "Standby", FALSE)
  BY <1>1, <1>4, RaiseIs DEF Flags, Goes
<1>5. CASE chip.mode = "Tx" /\ Raise("TxDone", "Standby", FALSE)
  BY <1>1, <1>5, RaiseIs DEF Flags, Goes
<1>6. CASE chip.mode = "Cad" /\ Raise("CadDone", "Standby", FALSE)
  BY <1>1, <1>6, RaiseIs DEF Flags, Goes
<1> QED
  BY <1>2, <1>3, <1>4, <1>5, <1>6 DEF ChipEnds

LEMMA ChipKeepsIInv ==
    ASSUME IInv, UNCHANGED <<kind, lora, call, caller>>, NEW f \in Flags, NEW m,
           Goes(f, m), Rises(f, m)
    PROVE IInv'
<1>1. /\ kind' = kind /\ lora' = lora /\ call' = call /\ caller' = caller
      /\ Types /\ Base /\ Prepared /\ Resting /\ Guardless /\ Guarded
  BY DEF IInv
<1>2. Types'
  BY <1>1 DEF Types, Rises
<1>3. ~Idle /\ chip'.mode # "Sleep" /\ ~Dormant /\ ~Dormant'
  BY DEF Goes, Idle, Dormant, Rises
<1>4. chip.irq \in Irqs /\ chip'.irq \in Irqs
  BY <1>1, <1>2 DEF Types, RadioChip, Irqs
<1>5. Settled' = Settled /\ TxBegun' = TxBegun /\ Air' = Air
  BY <1>1 DEF Settled, TxBegun, Air, Left
<1>6. NoOld(chip.irq) => NoOld(chip.irq)'
  BY DEF NoOld, Rises
<1>7. \A p, s : Uses(p, s)' = Uses(p, s)
  BY DEF Uses, Rises
<1>8. Base'
  <2>1. Kept => Kept'
    BY <1>1 DEF Kept, Rises
  <2>2. OnAirReady => OnAirReady'
    BY <1>1, <1>7 DEF OnAirReady, Goes, Rises
  <2>3. chip'.mode # "Tx"
    BY DEF Goes, Rises
  <2> QED
    BY <1>1, <1>3, <1>5, <1>6, <2>1, <2>2, <2>3 DEF Base
<1>9. \A r : Enabled(r)' = Enabled(r)
  BY <1>1 DEF Enabled
<1>10. Prepared'
  BY <1>1, <1>3, <1>5, <1>7, <1>9 DEF Prepared, Rises
<1>11. Settled /\ lora.radio_mode \in RxModes /\ kind = "Lr1110" /\ RxGoing => RxGoing'
  <2>1. Settled /\ lora.radio_mode \in RxModes /\ kind = "Lr1110" => chip.mask = Flags
    BY <1>1, LoRaPhyAssumption DEF Prepared, Enabled
  <2>2. \A g \in Flags : chip.irq[g] # "Clear" => chip'.irq[g] # "Clear"
    BY DEF Rises
  <2> QED
    BY <1>1, <2>1, <2>2 DEF RxGoing, Goes, Rises, Flags
<1>12. Resting'
  BY <1>1, <1>3, <1>5, <1>11 DEF Resting, Settled, Building, Preparing
<1>13. Guardless'
  <2>1. \A x, k : LeadFacts(x, k) => LeadFacts(x, k)'
    BY <1>1, <1>3, <1>5 DEF LeadFacts
  <2>2. \A k : ColdFacts(k) => ColdFacts(k)'
    BY <1>1, <1>5 DEF ColdFacts, Rises
  <2>3. \A n : /\ TxFacts(n) => TxFacts(n)'
               /\ RxFacts(n) => RxFacts(n)'
               /\ CadFacts(n) => CadFacts(n)'
               /\ ListenFacts(n) => ListenFacts(n)'
               /\ WaveFacts(n) => WaveFacts(n)'
    BY <1>1, <1>5, <1>7 DEF TxFacts, RxFacts, CadFacts, ListenFacts, WaveFacts, Rises
  <2>4. \A x, F, len : ModemAt(x, F, len) => ModemAt(x, F, len)'
    BY <1>1, <2>1, <2>2 DEF ModemAt
  <2>5. Built => Built'
    BY <1>1, <1>3, <1>5 DEF Built, Left, Rises
  <2>6. \A x : TxAt(x) => TxAt(x)'
    BY <1>1, <2>3, <2>4 DEF TxAt
  <2>7. \A x, r : RxAt(x, r) => RxAt(x, r)'
    BY <1>1, <2>3, <2>4 DEF RxAt
  <2>8. \A x : CadAt(x) => CadAt(x)'
    BY <1>1, <2>3, <2>4 DEF CadAt
  <2>9. \A x : ListenAt(x) => ListenAt(x)'
    BY <1>1, <2>3, <2>4 DEF ListenAt
  <2>10. \A x : WaveAt(x) => WaveAt(x)'
    BY <1>1, <2>3, <2>4 DEF WaveAt
  <2>11. \A x, w : SyncAt(x, w) => SyncAt(x, w)'
    BY <1>1, <2>1 DEF SyncAt
  <2>12. \A x, w : SleepAt(x, w) => SleepAt(x, w)'
    BY <1>1 DEF SleepAt
  <2> QED
    BY <1>1, <2>5, <2>6, <2>7, <2>8, <2>9, <2>10, <2>11, <2>12 DEF Guardless
<1>14. Guarded'
  <2>1. \A g \in Flags : chip.irq[g] # "Clear" => chip'.irq[g] # "Clear"
    BY DEF Rises
  <2>2. Left' = Left
    BY <1>1 DEF Left
  <2>3. call.op = "tx" => TxOp'
    <3> SUFFICES ASSUME call.op = "tx" PROVE TxOp'
      OBVIOUS
    <3>0. TxOp /\ Settled
      BY <1>1 DEF Guarded, Operating, Settled, Building, Preparing
    <3>1. lora.radio_mode = "Transmit" => chip.mask = Enabled("Transmit")
      BY <1>1, <3>0 DEF Prepared
    <3>2. chip.mode = "Tx" => f = "TxDone" /\ m = "Standby"
      BY DEF Goes
    <3>3. lora.radio_mode = "Transmit" /\ f = "TxDone" => chip'.irq["TxDone"] # "Clear"
      BY <3>1 DEF Rises, Enabled
    <3>4. chip.irq # NoFlags => chip'.irq # NoFlags
      <4> SUFFICES ASSUME chip.irq # NoFlags PROVE chip'.irq # NoFlags
        OBVIOUS
      <4>1. PICK g \in Flags : chip.irq[g] # "Clear"
        BY <1>4 DEF NoFlags, Irqs
      <4>2. chip'.irq[g] # "Clear"
        BY <2>1, <4>1
      <4> QED
        BY <4>2 DEF NoFlags
    <3>5. chip.mode \in {"Tx", "Sleep", "Standby"} => chip'.mode = "Standby"
      BY DEF Goes, Rises
    <3> QED
      BY <1>1, <1>5, <2>1, <2>2, <3>0, <3>2, <3>3, <3>4, <3>5 DEF TxOp, Flags
  <2>4. call.op = "cad" => CadOp'
    <3> SUFFICES ASSUME call.op = "cad" PROVE CadOp'
      OBVIOUS
    <3>0. CadOp /\ Settled
      BY <1>1 DEF Guarded, Operating, Settled, Building, Preparing
    <3>1. lora.radio_mode = "Cad" => chip.mask = {"CadDone"}
      BY <1>1, <3>0 DEF Prepared, Enabled
    <3>2. chip.mode = "Cad" => f = "CadDone"
      BY DEF Goes
    <3>3. lora.radio_mode = "Cad" /\ f = "CadDone" => chip'.irq["CadDone"] # "Clear"
      BY <3>1 DEF Rises
    <3> QED
      BY <1>1, <2>1, <2>2, <3>0, <3>2, <3>3 DEF CadOp, Flags
  <2>5. SeenFresh => SeenFresh'
    BY <1>1, <1>6 DEF SeenFresh, At, Pending, Current
  <2>6. call.op \in {"rx", "complete_rx"} => RxOp'
    <3> SUFFICES ASSUME call.op \in {"rx", "complete_rx"} PROVE RxOp'
      OBVIOUS
    <3>0. RxOp /\ Settled
      BY <1>1 DEF Guarded, Operating, Receiving, Settled, Building, Preparing
    <3> QED
      BY <1>1, <1>6, <1>11, <2>2, <2>5, <3>0 DEF RxOp
  <2>7. Air /\ Left <= 2 /\ call.op = "rx_switch_channel" => FALSE
    BY <1>1, <1>3 DEF Guarded, Operating, Receiving
  <2> QED
    BY <1>1, <1>5, <2>2, <2>3, <2>4, <2>6, <2>7 DEF Guarded
<1> QED
  BY <1>2, <1>8, <1>10, <1>12, <1>13, <1>14 DEF IInv

-----------------------------------------------------------------------------
(* A method is called.                                                     *)

\* Between methods nothing is left to do.
LEMMA FreeMeansNone ==
    ASSUME IInv, call.result \notin {"Pending", "Failing"}
    PROVE call.op = "none"
<1>1. call.op \in Methods \cup {"none"}
  BY DEF IInv, Types
<1>2. call.op \in Methods \ {"tx", "cad", "rx", "complete_rx"} => call.result = "Pending"
  BY DEF IInv, Guardless
<1>3. call.op = "tx" => call.result \in {"Pending", "Failing"}
  BY DEF IInv, Guarded, Operating, TxOp
<1>4. call.op = "cad" => call.result \in {"Pending", "Failing"}
  BY DEF IInv, Guarded, Operating, CadOp
<1>5. call.op \in {"rx", "complete_rx"} => call.result \in {"Pending", "Failing"}
  BY DEF IInv, Guarded, Operating, Receiving, RxOp
<1> QED
  BY <1>1, <1>2, <1>3, <1>4, <1>5

\* The call that starts a method.
Calls(op, t) ==
    /\ call.op = "none" /\ t # <<>>
    /\ call' = [op |-> op, todo |-> t, seen |-> NoRead, result |-> "Pending"]

\* What a method finds, it leaves untouched by being called.
LEMMA CallKeeps ==
    ASSUME IInv, UNCHANGED <<kind, lora, chip>>, NEW op \in Methods, NEW t, Calls(op, t),
           caller' \in [standing : {"Fresh", "Started", "Wave", "Unknown"},
                        asked : SUBSET SyncWords],
           caller'.standing = caller.standing, caller.asked \subseteq caller'.asked
    PROVE Types' /\ Base' /\ Prepared' /\ Resting'
<1>1. /\ kind' = kind /\ lora' = lora /\ chip' = chip
      /\ Types /\ Base /\ Prepared /\ Resting
  BY DEF IInv
<1>2. NoRead \in [ok : BOOLEAN, irq : Irqs]
  BY DEF NoRead, NoFlags, Irqs
<1>3. /\ call'.op = op /\ call'.todo = t /\ call'.seen = NoRead /\ call'.result = "Pending"
      /\ call' = [op |-> call'.op, todo |-> call'.todo, seen |-> call'.seen,
                  result |-> call'.result]
  BY DEF Calls
<1>4. Types'
  BY <1>1, <1>2, <1>3 DEF Types
<1>5. /\ Dormant' = Dormant /\ NoOld(chip.irq)' = NoOld(chip.irq) /\ Air' = Air
      /\ Idle' = Idle /\ \A p, s : Uses(p, s)' = Uses(p, s)
  BY <1>1 DEF Dormant, HasBusy, NoOld, Air, Idle, Uses
<1>6. Base'
  <2>1. Kept => Kept'
    BY <1>1 DEF Kept
  <2>2. OnAirReady => OnAirReady'
    BY <1>1, <1>5 DEF OnAirReady
  <2> QED
    BY <1>1, <1>5, <2>1, <2>2 DEF Base
<1>7. Settled' => Settled
  BY DEF Settled, Calls, Building, Preparing
<1>8. ~TxBegun
  BY DEF TxBegun, Calls
<1>9. \A r : Enabled(r)' = Enabled(r)
  BY <1>1 DEF Enabled
<1>10. Prepared'
  BY <1>1, <1>5, <1>7, <1>8, <1>9 DEF Prepared
<1>11. Resting'
  BY <1>3 DEF Resting, Methods
<1> QED
  BY <1>4, <1>6, <1>10, <1>11

LEMMA GuardlessCalled ==
    ASSUME IInv, Configure, UNCHANGED kind
    PROVE IInv'
<1>1. /\ kind' = kind /\ lora' = lora /\ chip' = chip /\ caller' = caller
      /\ call.op = "none" /\ Types /\ Resting
  BY FreeMeansNone DEF IInv, Configure, Free
<1>2. /\ lora.cold_start \in BOOLEAN /\ lora.calibrate_image \in BOOLEAN
      /\ lora.radio_mode \in Modes
  BY <1>1 DEF Types, LoRa
<1>3. ASSUME NEW op \in Methods, NEW t, Calls(op, t)
      PROVE /\ Types' /\ Base' /\ Prepared' /\ Resting'
            /\ call'.op = op /\ call'.todo = t /\ call'.result = "Pending"
  <2>1. caller' \in [standing : {"Fresh", "Started", "Wave", "Unknown"}, asked : SUBSET SyncWords]
    BY <1>1 DEF Types
  <2> QED
    BY <1>1, <1>3, <2>1, CallKeeps DEF Calls
<1>4. \A op, t : Invoke(op, t) /\ t # <<>> => Calls(op, t)
  BY <1>1 DEF Invoke, Calls
<1>5. /\ LeadFacts(ModemLead, ModemCold)' /\ ColdFacts(ModemCold)'
      /\ ModemLead \in Leads /\ ModemCold \in {0, 1, 4}
      /\ ModemLead' = ModemLead /\ ModemCold' = ModemCold
  BY <1>1, <1>2 DEF LeadFacts, ColdFacts, ModemLead, ModemCold, Leads, Modes
<1>6. CASE Invoke("enter_standby", EnterStandby)
  <2>1. Starts(EnterStandby, "Done", StandbyScript, 1)
    BY FixedStarts
  <2>2. Calls("enter_standby", EnterStandby) /\ Stands(EnterStandby, "Done", StandbyScript)
    BY <1>4, <1>6, <2>1 DEF Starts
  <2>3. Guardless' /\ Guarded'
    BY <1>3, <2>2 DEF Guardless, Guarded, Methods, Building, Operating, Receiving
  <2> QED
    BY <1>3, <2>2, <2>3 DEF IInv, Methods
<1>7. CASE Invoke("clear_irq_status", <<Do("clear_irq_status")>>)
  <2>1. PICK t : t = <<Do("clear_irq_status")>>
    OBVIOUS
  <2>2. Starts(t, "Done", ClearScript, 1)
    BY <2>1, FixedStarts
  <2>3. Calls("clear_irq_status", t) /\ Stands(t, "Done", ClearScript)
    BY <1>4, <1>7, <2>1, <2>2 DEF Starts
  <2>4. Guardless' /\ Guarded'
    BY <1>3, <2>3 DEF Guardless, Guarded, Methods, Building, Operating, Receiving
  <2> QED
    BY <1>3, <2>3, <2>4 DEF IInv, Methods
<1>8. ASSUME NEW warm \in BOOLEAN, Invoke("sleep", Sleep(warm)) PROVE IInv'
  <2>1. CASE lora.radio_mode = "Sleep"
    <3>1. call' = Returned("Returned")
      BY <1>8, <2>1 DEF Invoke, Sleep
    <3>2. call'.op = "none" /\ call'.todo = <<>> /\ call'.seen = NoRead
          /\ call'.result = "Returned"
          /\ call' = [op |-> call'.op, todo |-> call'.todo, seen |-> call'.seen,
                      result |-> call'.result]
      BY <3>1 DEF Returned
    <3>3. NoRead \in [ok : BOOLEAN, irq : Irqs]
      BY DEF NoRead, NoFlags, Irqs
    <3>4. Types'
      BY <1>1, <3>2, <3>3 DEF Types
    <3>5. /\ Dormant' = Dormant /\ NoOld(chip.irq)' = NoOld(chip.irq) /\ Air' = Air
          /\ Idle' = Idle /\ \A p, s : Uses(p, s)' = Uses(p, s)
      BY <1>1 DEF Dormant, HasBusy, NoOld, Air, Idle, Uses
    <3>6. Base'
      <4>1. Base /\ (Kept => Kept')
        BY <1>1 DEF Kept, IInv
      <4>2. OnAirReady => OnAirReady'
        BY <1>1, <3>5 DEF OnAirReady
      <4> QED
        BY <1>1, <3>5, <4>1, <4>2 DEF Base
    <3>7. Prepared'
      BY <1>1, <2>1 DEF Prepared
    <3>8. Resting'
      BY <1>1, <2>1, <3>2, LoRaPhyAssumption DEF Resting
    <3>9. Guardless' /\ Guarded'
      BY <3>2 DEF Guardless, Guarded, Methods, Building, Operating, Receiving
    <3> QED
      BY <3>4, <3>6, <3>7, <3>8, <3>9 DEF IInv
  <2>2. CASE lora.radio_mode # "Sleep"
    <3>1. Starts(Sleep(warm), "Ready", SleepScript(warm, lora.cold_start \/ ~warm), 1)
      BY <2>2, ShortStarts
    <3>2. PICK t : t = Sleep(warm)
      OBVIOUS
    <3>3. Calls("sleep", t) /\ Stands(t, "Ready", SleepScript(warm, lora.cold_start \/ ~warm))
      BY <1>4, <1>8, <3>1, <3>2 DEF Starts
    <3>4. SleepAt("Ready", warm)'
      BY <1>1, <1>3, <3>3 DEF SleepAt, Methods
    <3>5. Guardless' /\ Guarded'
      BY <1>3, <3>3, <3>4 DEF Guardless, Guarded, Methods, Building, Operating, Receiving, Leads
    <3> QED
      BY <1>3, <3>3, <3>5 DEF IInv, Methods
  <2> QED
    BY <2>1, <2>2
<1>9. CASE Invoke("prepare_for_tx", PrepareForTx)
  <2>1. PICK t : t = PrepareForTx
    OBVIOUS
  <2>2. Starts(t, ModemLead, TxScript, 7 + ModemCold)
    BY <1>2, <2>1, PreparingStarts
  <2>3. Calls("prepare_for_tx", t)
    BY <1>4, <1>9, <2>1, <2>2 DEF Starts
  <2>4. PICK x \in Leads : x = ModemLead
    BY <1>5
  <2>5. TxAt(x)'
    BY <1>1, <1>3, <1>5, <2>2, <2>3, <2>4 DEF TxAt, ModemAt, TxFacts, Starts, Methods
  <2>6. Guardless' /\ Guarded'
    BY <1>3, <2>3, <2>5 DEF Guardless, Guarded, Methods, Building, Operating, Receiving
  <2> QED
    BY <1>3, <2>3, <2>6 DEF IInv, Methods
<1>10. ASSUME NEW m \in RxModes, Invoke("prepare_for_rx", PrepareForRx(m)) PROVE IInv'
  <2>1. PICK t : t = PrepareForRx(m)
    OBVIOUS
  <2>2. Starts(t, ModemLead, RxScript(m), 4 + ModemCold)
    BY <1>2, <2>1, PreparingStarts
  <2>3. Calls("prepare_for_rx", t)
    BY <1>4, <1>10, <2>1, <2>2 DEF Starts
  <2>4. PICK x \in Leads : x = ModemLead
    BY <1>5
  <2>5. RxAt(x, m)'
    BY <1>1, <1>3, <1>5, <2>2, <2>3, <2>4 DEF RxAt, ModemAt, RxFacts, Starts, Methods
  <2>6. Guardless' /\ Guarded'
    BY <1>3, <2>3, <2>5 DEF Guardless, Guarded, Methods, Building, Operating, Receiving
  <2> QED
    BY <1>3, <2>3, <2>6 DEF IInv, Methods
<1>11. CASE Invoke("prepare_for_cad", PrepareForCad)
  <2>1. PICK t : t = PrepareForCad
    OBVIOUS
  <2>2. Starts(t, ModemLead, CadScript, 3 + ModemCold)
    BY <1>2, <2>1, PreparingStarts
  <2>3. Calls("prepare_for_cad", t)
    BY <1>4, <1>11, <2>1, <2>2 DEF Starts
  <2>4. PICK x \in Leads : x = ModemLead
    BY <1>5
  <2>5. CadAt(x)'
    BY <1>1, <1>3, <1>5, <2>2, <2>3, <2>4 DEF CadAt, ModemAt, CadFacts, Starts, Methods
  <2>6. Guardless' /\ Guarded'
    BY <1>3, <2>3, <2>5 DEF Guardless, Guarded, Methods, Building, Operating, Receiving
  <2> QED
    BY <1>3, <2>3, <2>6 DEF IInv, Methods
<1>12. CASE Invoke("listen", Listen)
  <2>1. PICK t : t = Listen
    OBVIOUS
  <2>2. Starts(t, ModemLead, ListenScript, 3 + ModemCold)
    BY <1>2, <2>1, PreparingStarts
  <2>3. Calls("listen", t)
    BY <1>4, <1>12, <2>1, <2>2 DEF Starts
  <2>4. PICK x \in Leads : x = ModemLead
    BY <1>5
  <2>5. ListenAt(x)'
    BY <1>1, <1>3, <1>5, <2>2, <2>3, <2>4 DEF ListenAt, ModemAt, ListenFacts, Starts, Methods
  <2>6. Guardless' /\ Guarded'
    BY <1>3, <2>3, <2>5 DEF Guardless, Guarded, Methods, Building, Operating, Receiving
  <2> QED
    BY <1>3, <2>3, <2>6 DEF IInv, Methods
<1>13. CASE Invoke("continuous_wave", ContinuousWave)
  <2>1. PICK t : t = ContinuousWave
    OBVIOUS
  <2>2. Starts(t, ModemLead, WaveScript, 7 + ModemCold)
    BY <1>2, <2>1, PreparingStarts
  <2>3. Calls("continuous_wave", t)
    BY <1>4, <1>13, <2>1, <2>2 DEF Starts
  <2>4. PICK x \in Leads : x = ModemLead
    BY <1>5
  <2>5. WaveAt(x)'
    BY <1>1, <1>3, <1>5, <2>2, <2>3, <2>4 DEF WaveAt, ModemAt, WaveFacts, Starts, Methods
  <2>6. Guardless' /\ Guarded'
    BY <1>3, <2>3, <2>5 DEF Guardless, Guarded, Methods, Building, Operating, Receiving
  <2> QED
    BY <1>3, <2>3, <2>6 DEF IInv, Methods
<1> QED
  BY <1>6, <1>7, <1>8, <1>9, <1>10, <1>11, <1>12, <1>13 DEF Configure

LEMMA SyncWordCalled ==
    ASSUME IInv, SetSyncWord, UNCHANGED kind
    PROVE IInv'
<1>1. /\ kind' = kind /\ lora' = lora /\ chip' = chip
      /\ call.op = "none" /\ Types /\ Resting
  BY FreeMeansNone DEF IInv, SetSyncWord, Free
<1>2. PICK w \in SyncWords : /\ Invoke("set_lora_sync_word", SetLoraSyncWord(w))
                             /\ caller' = [caller EXCEPT !.asked = @ \cup {w}]
  BY DEF SetSyncWord
<1>3. /\ caller' \in [standing : {"Fresh", "Started", "Wave", "Unknown"}, asked : SUBSET SyncWords]
      /\ caller'.standing = caller.standing /\ caller.asked \subseteq caller'.asked
      /\ w \in caller'.asked
  BY <1>1, <1>2 DEF Types
<1>4. PICK t : t = SetLoraSyncWord(w)
  OBVIOUS
<1>5. Starts(t, ModemLead, SyncScript(w), 1)
  BY <1>4, ShortStarts
<1>6. Calls("set_lora_sync_word", t)
  BY <1>1, <1>2, <1>4, <1>5 DEF Invoke, Calls, Starts
<1>7. /\ Types' /\ Base' /\ Prepared' /\ Resting'
      /\ call'.op = "set_lora_sync_word" /\ call'.todo = t /\ call'.result = "Pending"
  BY <1>1, <1>3, <1>6, CallKeeps DEF Calls, Methods
<1>8. PICK x \in Leads : x = ModemLead /\ LeadFacts(x, 0)'
  BY <1>1 DEF LeadFacts, ModemLead, Leads
<1>9. SyncAt(x, w)'
  BY <1>5, <1>7, <1>8 DEF SyncAt, Starts
<1>10. Guardless' /\ Guarded'
  BY <1>3, <1>7, <1>8, <1>9 DEF Guardless, Guarded, Methods, Building, Operating, Receiving
<1> QED
  BY <1>7, <1>10 DEF IInv

\* The constructor and init: what LoRa forgets is done again.
LEMMA BuildCalled ==
    ASSUME IInv, New \/ InitLoRa, UNCHANGED kind
    PROVE IInv'
<1>1. /\ kind' = kind /\ chip' = chip /\ caller' = caller
      /\ call.op = "none" /\ Types /\ Base /\ Resting
  BY FreeMeansNone DEF IInv, New, InitLoRa, Free
<1>2. PICK t : t = LoRaInit
  OBVIOUS
<1>3. Starts(t, "Done", InitScript, 6)
  BY <1>2, FixedStarts
<1>4. PICK op \in Building : Calls(op, t)
  BY <1>1, <1>2, <1>3 DEF New, InitLoRa, Invoke, Calls, Starts, Building
<1>5. /\ call'.op = op /\ call'.todo = t /\ call'.seen = NoRead /\ call'.result = "Pending"
      /\ call' = [op |-> call'.op, todo |-> call'.todo, seen |-> call'.seen,
                  result |-> call'.result]
  BY <1>4 DEF Calls
<1>6. /\ lora' \in LoRa /\ lora'.cold_start = TRUE /\ lora'.sync_word = lora.sync_word
      /\ lora'.radio_mode = lora.radio_mode \/ (New /\ lora'.radio_mode = "Sleep")
  <2>1. CASE New
    BY <1>1, <2>1 DEF New, NewLoRa, Types, LoRa, Modes
  <2>2. CASE InitLoRa
    <3>1. lora' = [lora EXCEPT !.cold_start = TRUE]
      BY <2>2 DEF InitLoRa
    <3> QED
      BY <1>1, <3>1 DEF Types, LoRa
  <2> QED
    BY <2>1, <2>2
<1>7. NoRead \in [ok : BOOLEAN, irq : Irqs]
  BY DEF NoRead, NoFlags, Irqs
<1>8. Types'
  BY <1>1, <1>5, <1>6, <1>7 DEF Types, Building, Methods
<1>9. /\ Dormant' = Dormant /\ NoOld(chip.irq)' = NoOld(chip.irq) /\ Air' = Air
      /\ Idle' = Idle /\ \A p, s : Uses(p, s)' = Uses(p, s)
  BY <1>1 DEF Dormant, HasBusy, NoOld, Air, Idle, Uses
<1>10. Air /\ op = "new" => Idle
  <2>1. op = "new" => New
    BY <1>5 DEF InitLoRa, New, Invoke, Returned
  <2> QED
    BY <1>1, <2>1 DEF New, Resting
<1>11. New => op = "new"
  BY <1>2, <1>3, <1>5 DEF New, Invoke, Starts
<1>12. Base'
  <2>1. Kept => Kept'
    BY <1>1, <1>6 DEF Kept
  <2>2. Air /\ OnAirReady => OnAirReady'
    BY <1>1, <1>6, <1>9, <1>10, <1>11 DEF OnAirReady, Idle
  <2> QED
    BY <1>1, <1>6, <1>9, <2>1, <2>2 DEF Base
<1>13. Prepared' /\ Resting'
  BY <1>4, <1>5 DEF Prepared, Settled, Resting, Building
<1>14. Built'
  <2>1. Stands(t, "Done", InitScript) /\ Len(t) = 6
    BY <1>3 DEF Starts, Togo, LeadLen
  <2> QED
    BY <1>5, <1>6, <1>9, <1>10, <2>1 DEF Built, Left
<1>15. Guardless' /\ Guarded'
  BY <1>4, <1>5, <1>14 DEF Guardless, Guarded, Building, Operating, Receiving
<1> QED
  BY <1>8, <1>12, <1>13, <1>15 DEF IInv

\* The methods that look at radio_mode.
LEMMA GuardedCalled ==
    ASSUME IInv, Operate, UNCHANGED kind
    PROVE IInv'
<1>1. /\ kind' = kind /\ lora' = lora /\ chip' = chip /\ caller' = caller
      /\ call.op = "none" /\ Types /\ Base /\ Prepared /\ Resting
      /\ caller.standing \notin {"Unknown", "Wave"}
  BY FreeMeansNone DEF IInv, Operate, Free
<1>2. Settled /\ ~TxBegun
  BY <1>1 DEF Settled, TxBegun, Building, Preparing
<1>3. ASSUME NEW op \in Methods, NEW t, Calls(op, t)
      PROVE /\ Types' /\ Base' /\ Prepared' /\ Resting'
            /\ call'.op = op /\ call'.todo = t /\ call'.result = "Pending"
            /\ call'.seen = NoRead
  <2>1. caller' \in [standing : {"Fresh", "Started", "Wave", "Unknown"}, asked : SUBSET SyncWords]
    BY <1>1 DEF Types
  <2> QED
    BY <1>1, <1>3, <2>1, CallKeeps DEF Calls
<1>4. \A op, t : Invoke(op, t) /\ t # <<>> => Calls(op, t)
  BY <1>1 DEF Invoke, Calls
<1>5. Idle' = Idle /\ Air' = Air
  BY <1>1 DEF Idle, Air
<1>6. CASE lora.radio_mode = "Transmit" /\ Invoke("tx", Tx)
  <2>1. PICK t : t = Tx
    OBVIOUS
  <2>2. Starts(t, "Done", TxOpScript, 4)
    BY <2>1, FixedStarts
  <2>3. Calls("tx", t) /\ Stands(t, "Done", TxOpScript) /\ Len(t) = 4
    BY <1>4, <1>6, <2>1, <2>2 DEF Starts, Togo, LeadLen
  <2>4. TxOp'
    <3>1. Air => chip.mode \in {"Tx", "Sleep", "Standby"}
      BY <1>1, <1>2, <1>6 DEF Prepared, Idle
    <3>2. Left' = 4 /\ call'.result = "Pending" /\ call'.todo = t
      BY <1>3, <2>3 DEF Left, Methods
    <3> QED
      BY <1>1, <1>5, <1>6, <2>3, <3>1, <3>2 DEF TxOp
  <2>5. Guardless' /\ Guarded'
    BY <1>1, <1>3, <1>6, <2>3, <2>4
       DEF Guardless, Guarded, Methods, Building, Operating, Receiving, Resting
  <2> QED
    BY <1>3, <2>3, <2>5 DEF IInv, Methods
<1>7. CASE lora.radio_mode = "Cad" /\ Invoke("cad", DoCad)
  <2>1. PICK t : t = DoCad
    OBVIOUS
  <2>2. Starts(t, "Done", CadOpScript, 4)
    BY <2>1, FixedStarts
  <2>3. Calls("cad", t) /\ Stands(t, "Done", CadOpScript) /\ Len(t) = 4
    BY <1>4, <1>7, <2>1, <2>2 DEF Starts, Togo, LeadLen
  <2>4. CadOp'
    <3>1. Left' = 4 /\ call'.result = "Pending" /\ call'.todo = t
      BY <1>3, <2>3 DEF Left, Methods
    <3> QED
      BY <1>1, <1>7, <2>3, <3>1 DEF CadOp
  <2>5. Guardless' /\ Guarded'
    BY <1>1, <1>3, <1>7, <2>3, <2>4
       DEF Guardless, Guarded, Methods, Building, Operating, Receiving, Resting
  <2> QED
    BY <1>3, <2>3, <2>5 DEF IInv, Methods
<1>8. CASE lora.radio_mode \in RxModes /\ Invoke("start_rx", StartRx)
  <2>1. PICK t : t = StartRx
    OBVIOUS
  <2>2. Starts(t, "Done", StartScript(lora.radio_mode), 1)
    BY <2>1, FixedStarts
  <2>3. Calls("start_rx", t) /\ Stands(t, "Done", StartScript(lora.radio_mode))
    BY <1>4, <1>8, <2>1, <2>2 DEF Starts
  <2>4. Guardless' /\ Guarded'
    BY <1>1, <1>3, <1>8, <2>3
       DEF Guardless, Guarded, Methods, Building, Operating, Receiving
  <2> QED
    BY <1>3, <2>3, <2>4 DEF IInv, Methods
<1>9. CASE lora.radio_mode \in RxModes /\ Invoke("rx_switch_channel", RxSwitchChannel)
  <2>1. PICK t : t = RxSwitchChannel
    OBVIOUS
  <2>2. Starts(t, "Done", SwitchScript(lora.radio_mode), 3)
    BY <2>1, FixedStarts
  <2>3. Calls("rx_switch_channel", t) /\ Stands(t, "Done", SwitchScript(lora.radio_mode))
        /\ Len(t) = 3
    BY <1>4, <1>9, <2>1, <2>2 DEF Starts, Togo, LeadLen
  <2>4. Guardless' /\ Guarded'
    BY <1>1, <1>3, <1>9, <2>3
       DEF Guardless, Guarded, Methods, Building, Operating, Receiving, Left
  <2> QED
    BY <1>3, <2>3, <2>4 DEF IInv, Methods
<1>10. CASE lora.radio_mode \in RxModes /\ Invoke("rx", StartRx \o ProcessIrq)
  <2>1. PICK t : t = StartRx \o ProcessIrq
    OBVIOUS
  <2>2. Starts(t, "Done", RxOpScript(lora.radio_mode), 3)
    BY <2>1, FixedStarts
  <2>3. Calls("rx", t) /\ Stands(t, "Done", RxOpScript(lora.radio_mode)) /\ Len(t) = 3
    <3>1. t # <<>> /\ Stands(t, "Done", RxOpScript(lora.radio_mode)) /\ Len(t) = 3
      BY <2>2 DEF Starts, Togo, LeadLen
    <3>2. Invoke("rx", t)
      BY <1>10, <2>1
    <3> QED
      BY <1>4, <3>1, <3>2
  <2>4. RxOp'
    BY <1>1, <1>3, <1>10, <2>3 DEF RxOp, Left, Methods
  <2>5. Guardless' /\ Guarded'
    BY <1>1, <1>3, <1>10, <2>3, <2>4
       DEF Guardless, Guarded, Methods, Building, Operating, Receiving
  <2> QED
    BY <1>3, <2>3, <2>5 DEF IInv, Methods
<1>11. CASE /\ lora.radio_mode \in RxModes /\ caller.standing = "Started"
            /\ Invoke("complete_rx", ProcessIrq)
  <2>1. PICK t : t = ProcessIrq
    OBVIOUS
  <2>2. Starts(t, "Done", WaitScript, 2)
    BY <2>1, FixedStarts
  <2>3. Calls("complete_rx", t) /\ Stands(t, "Done", WaitScript)
    BY <1>4, <1>11, <2>1, <2>2 DEF Starts
  <2>4. RxOp'
    <3>1. kind = "Sx127x" => NoOld(chip.irq)
      BY <1>1, <1>11 DEF Base
    <3>2. NoOld(NoFlags) /\ NoRead.irq = NoFlags
      BY DEF NoOld, NoFlags, NoRead
    <3>3. SeenFresh'
      BY <1>1, <1>3, <2>3, <3>1, <3>2 DEF SeenFresh, NoOld, Methods
    <3>4. kind = "Lr1110" => RxGoing'
      BY <1>1, <1>11 DEF Resting, RxGoing
    <3> QED
      BY <1>1, <1>3, <1>11, <2>3, <3>3, <3>4 DEF RxOp, Methods
  <2>5. Guardless' /\ Guarded'
    BY <1>1, <1>3, <1>11, <2>3, <2>4
       DEF Guardless, Guarded, Methods, Building, Operating, Receiving
  <2> QED
    BY <1>3, <2>3, <2>5 DEF IInv, Methods
<1> QED
  BY <1>6, <1>7, <1>8, <1>9, <1>10, <1>11 DEF Operate

-----------------------------------------------------------------------------
(* The command that a method makes next, and what holds after it.          *)

Passive == {"set_standby", "ensure_ready", "get_irq_state", "await_irq", "get_rx_payload",
            "get_rx_packet_status", "handle_implicit_header_mode", "clear_irq_status",
            "clear_irq_flags"}

Starting == {"do_tx", "do_rx", "do_cad", "set_tx_continuous_wave_mode"}

\* What the chip needs to go on the air.
MayStart(c) ==
    /\ chip.init /\ chip.calibrated
    /\ c.cmd = "do_tx" =>
          /\ lora.radio_mode = "Transmit" /\ Uses("Transmit", Settings)
          /\ "TxDone" \in chip.mask
          /\ kind = "Sx127x" => chip.irq["TxDone"] = "Clear"
    /\ c.cmd = "set_tx_continuous_wave_mode" =>
          lora.radio_mode = "Transmit" /\ Uses("Wave", Settings \ {"payload"})
    /\ c.cmd = "do_cad" =>
          /\ lora.radio_mode = "Cad" /\ Uses("Cad", {"modulation", "channel"})
          /\ "CadDone" \in chip.mask
    /\ c.cmd = "do_rx" =>
          \/ /\ c.arg = "Continuous" /\ lora.radio_mode = "Listen"
             /\ Uses("Listen", {"modulation", "channel"})
          \/ /\ c.arg = lora.radio_mode /\ c.arg \in {"Single", "Continuous"}
             /\ Uses("Receive", {"modulation", "packet", "channel"})
             /\ {"RxDone", "Timeout"} \subseteq chip.mask

\* The commands of the scripts, where the scripts have them.
Fitting(c) ==
    \/ c.cmd \in Passive /\ c.upd = <<>>
    \/ c = StandbyCmd
    \/ /\ c.cmd \in Settings /\ c.arg \in Purposes
       /\ c.upd = <<>> \/ \E m \in Modes : c.upd = [radio_mode |-> m]
       /\ Air => Idle
    \/ c.cmd = "init_lora" /\ c.upd = <<>> /\ (Air => Idle)
    \/ c.cmd = "set_irq_params" /\ c.upd = <<>> /\ (Air => Idle)
    \/ c = ColdDone /\ (Air => Idle /\ chip.init)
    \/ c = Calibrate /\ ~Dormant /\ (Air => Idle)
    \/ /\ \E w \in caller.asked : c = Cmd("set_lora_sync_word", w, [sync_word |-> w])
       /\ ~Dormant /\ (Air => Idle)
    \/ /\ \E warm \in BOOLEAN : c = Cmd("set_sleep", warm, [radio_mode |-> "Sleep",
                                           cold_start |-> lora.cold_start \/ ~warm])
       /\ call.op = "sleep"
    \/ c = Do("reset") /\ (Air => lora.cold_start) /\ call.op \in Building
    \/ /\ c.cmd \in Starting /\ c.upd = <<>> /\ call.op \notin Building
       /\ c.cmd = "do_tx" => call.op = "tx"
       /\ c.cmd = "do_cad" => call.op = "cad"
       /\ Air => MayStart(c)

\* The part of a script that is prepare_modem's.
ModemCommand(x, F, len) ==
    /\ Moves(call.todo, x, F)
    /\ x # "Done" \/ Togo(call.todo, x) > len => Fitting(Current)
    /\ x = "Done" /\ Togo(call.todo, x) <= len =>
          /\ ~Dormant /\ (Air => Idle)
          /\ Air => ~lora.cold_start /\ ~lora.calibrate_image
          /\ Left \in 1 .. len
          /\ Current = F[len + 5 - Left]

LEMMA ModemFits ==
    ASSUME NEW x, NEW F, NEW len \in Nat \ {0}, ModemAt(x, F, len), Len(F) = len + 4,
           F[1] = Do("init_lora"), F[2] = Set("power", "Init"), F[3] = ColdDone,
           F[4] = Calibrate
    PROVE ModemCommand(x, F, len)
<1>1. Moves(call.todo, x, F)
  BY ScriptMoves DEF ModemAt
<1>2. x \in Leads /\ LeadLen("Done") = 0
  BY DEF ModemAt, Stands, LeadLen
<1>3. CASE x # "Done"
  <2>1. Current \in {Do("ensure_ready"), StandbyCmd}
    BY <1>1, <1>2, <1>3 DEF Moves, Current, Leads
  <2>2. Fitting(Current)
    BY <2>1 DEF Fitting, Passive, Do, Cmd
  <2> QED
    BY <1>1, <1>3, <2>2 DEF ModemCommand
<1>4. CASE x = "Done"
  <2>0. Left = Len(call.todo) /\ Left \in Nat /\ Togo(call.todo, x) = Left
    <3>1. Len(call.todo) \in Nat \ {0}
      BY <1>1 DEF Moves
    <3> QED
      BY <1>2, <1>4, <3>1 DEF Left, Togo
  <2>1. Left \in 1 .. len + 4 /\ Current = F[len + 5 - Left]
    <3>1. Len(call.todo) \in 1 .. Len(F) /\ Head(call.todo) = F[Len(F) - Len(call.todo) + 1]
      BY <1>1, <1>4 DEF Moves
    <3>2. Len(F) - Len(call.todo) + 1 = len + 5 - Left
      BY <2>0
    <3> QED
      BY <2>0, <3>1, <3>2 DEF Current
  <2>2. ~Dormant /\ (Air => Idle) /\ ColdFacts(Left - len)
    BY <1>4, <2>0 DEF ModemAt, LeadFacts
  <2>3. Left = len + 4 => Fitting(Current)
    <3>1. Left = len + 4 => Current = Do("init_lora")
      BY <2>1
    <3> QED
      BY <2>2, <3>1 DEF Fitting, Do, Cmd
  <2>4. Left = len + 3 => Fitting(Current)
    <3>1. Left = len + 3 => Current = Set("power", "Init")
      BY <2>1
    <3> QED
      BY <2>2, <3>1 DEF Fitting, Set, Cmd, Settings, Purposes
  <2>5. Left = len + 2 => Fitting(Current)
    <3>1. Left = len + 2 => Current = ColdDone
      BY <2>1
    <3>2. Left = len + 2 => (Air => chip.init)
      BY <2>2 DEF ColdFacts
    <3> QED
      BY <2>2, <3>1, <3>2 DEF Fitting
  <2>6. Left = len + 1 => Fitting(Current)
    <3>1. Left = len + 1 => Current = Calibrate
      BY <2>1
    <3> QED
      BY <2>2, <3>1 DEF Fitting
  <2>7. Left > len => Fitting(Current)
    <3>1. PICK n : n = Left
      OBVIOUS
    <3>2. n > len => n = len + 1 \/ n = len + 2 \/ n = len + 3 \/ n = len + 4
      BY <2>1, <3>1
    <3> QED
      BY <2>3, <2>4, <2>5, <2>6, <3>1, <3>2
  <2>8. Left <= len => (Air => ~lora.cold_start /\ ~lora.calibrate_image)
    BY <2>0, <2>2 DEF ColdFacts
  <2> QED
    <3>1. Left <= len => Left \in 1 .. len
      BY <2>0, <2>1
    <3> QED
      BY <1>1, <1>4, <2>0, <2>1, <2>2, <2>7, <2>8, <3>1 DEF ModemCommand
<1> QED
  BY <1>3, <1>4

\* Commands that always fit, and settings of a chip that is not on the air.
LEMMA FittingForms ==
    ASSUME NEW c
    PROVE /\ \A k \in Passive : c = Do(k) => Fitting(c)
          /\ c = StandbyCmd => Fitting(c)
          /\ (Air => Idle) =>
                /\ \A s \in Settings, p \in Purposes : c = Set(s, p) => Fitting(c)
                /\ \A s \in Settings, p \in Purposes, m \in Modes :
                      c = Cmd(s, p, [radio_mode |-> m]) => Fitting(c)
                /\ c = Do("set_irq_params") => Fitting(c)
<1>1. \A k \in Passive : c = Do(k) => Fitting(c)
  BY DEF Do, Cmd, Fitting
<1>2. c = StandbyCmd => Fitting(c)
  BY DEF Fitting
<1>3. ASSUME Air => Idle, NEW s \in Settings, NEW p \in Purposes, c = Set(s, p)
      PROVE Fitting(c)
  BY <1>3 DEF Set, Cmd, Fitting
<1>4. ASSUME Air => Idle, NEW s \in Settings, NEW p \in Purposes, NEW m \in Modes,
             c = Cmd(s, p, [radio_mode |-> m])
      PROVE Fitting(c)
  BY <1>4 DEF Cmd, Fitting
<1>5. ASSUME Air => Idle, c = Do("set_irq_params")
      PROVE Fitting(c)
  BY <1>5 DEF Do, Cmd, Fitting
<1> QED
  BY <1>1, <1>2, <1>3, <1>4, <1>5

\* A method under way has a command left, and it fits.
Suited == call.todo # <<>> /\ Left \in Nat \ {0} /\ Fitting(Current)

LEMMA TxPrepares ==
    ASSUME IInv, NEW x, TxAt(x)
    PROVE Suited
<1>0. /\ Len(TxScript) = 7 + 4
      /\ TxScript[1] = Do("init_lora") /\ TxScript[2] = Set("power", "Init")
      /\ TxScript[3] = ColdDone /\ TxScript[4] = Calibrate
  BY DEF TxScript
<1>1. ModemCommand(x, TxScript, 7)
  <2>1. ModemAt(x, TxScript, 7) /\ 7 \in Nat \ {0}
    BY DEF TxAt
  <2>2. PICK F : F = TxScript
    OBVIOUS
  <2>3. ModemCommand(x, F, 7)
    BY <1>0, <2>1, <2>2, ModemFits
  <2> QED
    BY <2>2, <2>3
<1>2. call.todo # <<>> /\ Left \in Nat \ {0}
  BY <1>1 DEF ModemCommand, Moves, Left
<1>3. CASE x # "Done" \/ Togo(call.todo, x) > 7
  BY <1>1, <1>2, <1>3 DEF ModemCommand, Suited
<1>4. CASE x = "Done" /\ Togo(call.todo, x) <= 7
  <2>1. (Air => Idle) /\ Left \in 1 .. 7 /\ Current = TxScript[12 - Left]
    BY <1>1, <1>4 DEF ModemCommand
  <2>2. /\ Left = 7 => Current = Set("modulation", "Transmit")
        /\ Left = 6 => Current = Set("power", "Transmit")
        /\ Left = 5 => Current = Do("ensure_ready")
        /\ Left = 4 => Current = Set("packet", "Transmit")
        /\ Left = 3 => Current = Set("channel", "Transmit")
        /\ Left = 2 => Current = Cmd("payload", "Transmit", [radio_mode |-> "Transmit"])
        /\ Left = 1 => Current = Do("set_irq_params")
    BY <2>1 DEF TxScript
  <2>3. Fitting(Current)
    BY <2>1, <2>2, FittingForms DEF Settings, Purposes, Modes, Passive
  <2> QED
    BY <1>2, <2>3 DEF Suited
<1>5. Togo(call.todo, x) \in Nat
  BY DEF TxAt, ModemAt, Stands, Togo
<1> QED
  BY <1>3, <1>4, <1>5

LEMMA RxPrepares ==
    ASSUME IInv, NEW x, NEW m \in RxModes, RxAt(x, m)
    PROVE Suited
<1>0. /\ Len(RxScript(m)) = 4 + 4
      /\ RxScript(m)[1] = Do("init_lora") /\ RxScript(m)[2] = Set("power", "Init")
      /\ RxScript(m)[3] = ColdDone /\ RxScript(m)[4] = Calibrate
  BY DEF RxScript
<1>1. ModemCommand(x, RxScript(m), 4)
  <2>1. ModemAt(x, RxScript(m), 4) /\ 4 \in Nat \ {0}
    BY DEF RxAt
  <2>2. PICK F : F = RxScript(m)
    OBVIOUS
  <2>3. ModemCommand(x, F, 4)
    BY <1>0, <2>1, <2>2, ModemFits
  <2> QED
    BY <2>2, <2>3
<1>2. call.todo # <<>> /\ Left \in Nat \ {0}
  BY <1>1 DEF ModemCommand, Moves, Left
<1>3. CASE x # "Done" \/ Togo(call.todo, x) > 4
  BY <1>1, <1>2, <1>3 DEF ModemCommand, Suited
<1>4. CASE x = "Done" /\ Togo(call.todo, x) <= 4
  <2>1. (Air => Idle) /\ Left \in 1 .. 4 /\ Current = RxScript(m)[9 - Left]
    BY <1>1, <1>4 DEF ModemCommand
  <2>2. /\ Left = 4 => Current = Set("modulation", "Receive")
        /\ Left = 3 => Current = Set("packet", "Receive")
        /\ Left = 2 => Current = Cmd("channel", "Receive", [radio_mode |-> m])
        /\ Left = 1 => Current = Do("set_irq_params")
    BY <2>1 DEF RxScript
  <2>3. m \in Modes
    BY LoRaPhyAssumption DEF Modes
  <2>4. Fitting(Current)
    BY <2>1, <2>2, <2>3, FittingForms DEF Settings, Purposes, Modes, Passive
  <2> QED
    BY <1>2, <2>4 DEF Suited
<1>5. Togo(call.todo, x) \in Nat
  BY DEF RxAt, ModemAt, Stands, Togo
<1> QED
  BY <1>3, <1>4, <1>5

LEMMA CadPrepares ==
    ASSUME IInv, NEW x, CadAt(x)
    PROVE Suited
<1>0. /\ Len(CadScript) = 3 + 4
      /\ CadScript[1] = Do("init_lora") /\ CadScript[2] = Set("power", "Init")
      /\ CadScript[3] = ColdDone /\ CadScript[4] = Calibrate
  BY DEF CadScript
<1>1. ModemCommand(x, CadScript, 3)
  <2>1. ModemAt(x, CadScript, 3) /\ 3 \in Nat \ {0}
    BY DEF CadAt
  <2>2. PICK F : F = CadScript
    OBVIOUS
  <2>3. ModemCommand(x, F, 3)
    BY <1>0, <2>1, <2>2, ModemFits
  <2> QED
    BY <2>2, <2>3
<1>2. call.todo # <<>> /\ Left \in Nat \ {0}
  BY <1>1 DEF ModemCommand, Moves, Left
<1>3. CASE x # "Done" \/ Togo(call.todo, x) > 3
  BY <1>1, <1>2, <1>3 DEF ModemCommand, Suited
<1>4. CASE x = "Done" /\ Togo(call.todo, x) <= 3
  <2>1. (Air => Idle) /\ Left \in 1 .. 3 /\ Current = CadScript[8 - Left]
    BY <1>1, <1>4 DEF ModemCommand
  <2>2. /\ Left = 3 => Current = Set("modulation", "Cad")
        /\ Left = 2 => Current = Cmd("channel", "Cad", [radio_mode |-> "Cad"])
        /\ Left = 1 => Current = Do("set_irq_params")
    BY <2>1 DEF CadScript
  <2>3. Fitting(Current)
    BY <2>1, <2>2, FittingForms DEF Settings, Purposes, Modes, Passive
  <2> QED
    BY <1>2, <2>3 DEF Suited
<1>5. Togo(call.todo, x) \in Nat
  BY DEF CadAt, ModemAt, Stands, Togo
<1> QED
  BY <1>3, <1>4, <1>5

LEMMA ListenPrepares ==
    ASSUME IInv, NEW x, ListenAt(x), call.op = "listen"
    PROVE Suited
<1>0. /\ Len(ListenScript) = 3 + 4
      /\ ListenScript[1] = Do("init_lora") /\ ListenScript[2] = Set("power", "Init")
      /\ ListenScript[3] = ColdDone /\ ListenScript[4] = Calibrate
  BY DEF ListenScript
<1>1. ModemCommand(x, ListenScript, 3)
  <2>1. ModemAt(x, ListenScript, 3) /\ 3 \in Nat \ {0}
    BY DEF ListenAt
  <2>2. PICK F : F = ListenScript
    OBVIOUS
  <2>3. ModemCommand(x, F, 3)
    BY <1>0, <2>1, <2>2, ModemFits
  <2> QED
    BY <2>2, <2>3
<1>2. call.todo # <<>> /\ Left \in Nat \ {0}
  BY <1>1 DEF ModemCommand, Moves, Left
<1>3. CASE x # "Done" \/ Togo(call.todo, x) > 3
  BY <1>1, <1>2, <1>3 DEF ModemCommand, Suited
<1>4. CASE x = "Done" /\ Togo(call.todo, x) <= 3
  <2>0. Togo(call.todo, x) = Left
    BY <1>2, <1>4 DEF Togo, Left, LeadLen
  <2>1. /\ Air => Idle /\ ~lora.cold_start /\ ~lora.calibrate_image
        /\ Left \in 1 .. 3 /\ Current = ListenScript[8 - Left]
    BY <1>1, <1>4 DEF ModemCommand
  <2>2. /\ Left = 3 => Current = Set("channel", "Listen")
        /\ Left = 2 => Current = Cmd("modulation", "Listen", [radio_mode |-> "Listen"])
        /\ Left = 1 => Current = Cmd("do_rx", "Continuous", <<>>)
    BY <2>1 DEF ListenScript
  <2>3. CASE Left = 1
    <3>1. Air => chip.init /\ chip.calibrated
      BY <2>1 DEF IInv, Base, Kept
    <3>2. Air => lora.radio_mode = "Listen" /\ Uses("Listen", {"modulation", "channel"})
      BY <1>4, <2>0, <2>3 DEF ListenAt, ListenFacts, Uses
    <3>3. Air => MayStart(Current)
      BY <2>2, <2>3, <3>1, <3>2 DEF MayStart, Cmd
    <3>4. Fitting(Current)
      BY <2>2, <2>3, <3>3 DEF Fitting, Starting, Building, Cmd
    <3> QED
      BY <1>2, <3>4 DEF Suited
  <2>4. CASE Left # 1
    <3>1. Fitting(Current)
      BY <2>1, <2>2, <2>4, FittingForms DEF Settings, Purposes, Modes, Passive
    <3> QED
      BY <1>2, <3>1 DEF Suited
  <2> QED
    BY <2>3, <2>4
<1>5. Togo(call.todo, x) \in Nat
  BY DEF ListenAt, ModemAt, Stands, Togo
<1> QED
  BY <1>3, <1>4, <1>5

LEMMA WavePrepares ==
    ASSUME IInv, NEW x, WaveAt(x), call.op = "continuous_wave"
    PROVE Suited
<1>0. /\ Len(WaveScript) = 7 + 4
      /\ WaveScript[1] = Do("init_lora") /\ WaveScript[2] = Set("power", "Init")
      /\ WaveScript[3] = ColdDone /\ WaveScript[4] = Calibrate
  BY DEF WaveScript
<1>1. ModemCommand(x, WaveScript, 7)
  <2>1. ModemAt(x, WaveScript, 7) /\ 7 \in Nat \ {0}
    BY DEF WaveAt
  <2>2. PICK F : F = WaveScript
    OBVIOUS
  <2>3. ModemCommand(x, F, 7)
    BY <1>0, <2>1, <2>2, ModemFits
  <2> QED
    BY <2>2, <2>3
<1>2. call.todo # <<>> /\ Left \in Nat \ {0}
  BY <1>1 DEF ModemCommand, Moves, Left
<1>3. CASE x # "Done" \/ Togo(call.todo, x) > 7
  BY <1>1, <1>2, <1>3 DEF ModemCommand, Suited
<1>4. CASE x = "Done" /\ Togo(call.todo, x) <= 7
  <2>0. Togo(call.todo, x) = Left
    BY <1>2, <1>4 DEF Togo, Left, LeadLen
  <2>1. /\ Air => Idle /\ ~lora.cold_start /\ ~lora.calibrate_image
        /\ Left \in 1 .. 7 /\ Current = WaveScript[12 - Left]
    BY <1>1, <1>4 DEF ModemCommand
  <2>2. /\ Left = 7 => Current = Set("packet", "Wave")
        /\ Left = 6 => Current = Set("modulation", "Wave")
        /\ Left = 5 => Current = Set("power", "Wave")
        /\ Left = 4 => Current = Do("ensure_ready")
        /\ Left = 3 => Current = Cmd("channel", "Wave", [radio_mode |-> "Transmit"])
        /\ Left = 2 => Current = Do("set_irq_params")
        /\ Left = 1 => Current = Do("set_tx_continuous_wave_mode")
    BY <2>1 DEF WaveScript
  <2>3. CASE Left = 1
    <3>1. Air => chip.init /\ chip.calibrated
      BY <2>1 DEF IInv, Base, Kept
    <3>2. Air => lora.radio_mode = "Transmit" /\ Uses("Wave", Settings \ {"payload"})
      BY <1>4, <2>0, <2>3 DEF WaveAt, WaveFacts, Uses, Settings
    <3>3. Air => MayStart(Current)
      BY <2>2, <2>3, <3>1, <3>2 DEF MayStart, Do, Cmd
    <3>4. Fitting(Current)
      BY <2>2, <2>3, <3>3 DEF Fitting, Starting, Building, Do, Cmd
    <3> QED
      BY <1>2, <3>4 DEF Suited
  <2>4. CASE Left # 1
    <3>1. Fitting(Current)
      BY <2>1, <2>2, <2>4, FittingForms DEF Settings, Purposes, Modes, Passive
    <3> QED
      BY <1>2, <3>1 DEF Suited
  <2> QED
    BY <2>3, <2>4
<1>5. Togo(call.todo, x) \in Nat
  BY DEF WaveAt, ModemAt, Stands, Togo
<1> QED
  BY <1>3, <1>4, <1>5

\* A method whose lead is over takes its commands from its script.
Takes(F, n) ==
    /\ call.todo # <<>> /\ Left \in 1 .. n
    /\ Current = F[n + 1 - Left]
    /\ Len(Tail(call.todo)) = Left - 1
    /\ Left = 1 => Tail(call.todo) = <<>>
    /\ Left > 1 => Tail(call.todo) # <<>> /\ Stands(Tail(call.todo), "Done", F)

LEMMA DoneTakes ==
    ASSUME NEW F, NEW n \in Nat, Len(F) = n, Stands(call.todo, "Done", F)
    PROVE Takes(F, n)
<1>1. Moves(call.todo, "Done", F)
  BY ScriptMoves
<1>2. Left \in 1 .. n /\ Head(call.todo) = F[n - Left + 1]
  BY <1>1 DEF Moves, Left
<1>3. n - Left + 1 = n + 1 - Left
  BY <1>2
<1> QED
  BY <1>1, <1>2, <1>3 DEF Moves, Takes, Current, Left

\* The scripts that have no lead, command by command.
InitTakes ==
    /\ Takes(InitScript, 6)
    /\ Left = 6 => Current = Do("reset")
    /\ Left = 5 => Current = Do("ensure_ready")
    /\ Left = 4 => Current = StandbyCmd
    /\ Left = 3 => Current = Do("init_lora")
    /\ Left = 2 => Current = Set("power", "Init")
    /\ Left = 1 => Current = ColdDone

StandbyTakes ==
    /\ Takes(StandbyScript, 1)
    /\ Left = 1 => Current = Do("set_standby")

ClearTakes ==
    /\ Takes(ClearScript, 1)
    /\ Left = 1 => Current = Do("clear_irq_status")

RecoverTakes ==
    /\ Takes(RecoverScript, 2)
    /\ Left = 2 => Current = Do("ensure_ready")
    /\ Left = 1 => Current = StandbyCmd

WaitTakes ==
    /\ Takes(WaitScript, 3)
    /\ Left = 3 => Current = Do("await_irq")
    /\ Left = 2 => Current = Do("get_irq_state")
    /\ Left = 1 => Current = Do("clear_irq_flags")

ReadTakes ==
    /\ Takes(ReadScript, 3)
    /\ Left = 3 => Current = Do("handle_implicit_header_mode")
    /\ Left = 2 => Current = Do("get_rx_payload")
    /\ Left = 1 => Current = Do("get_rx_packet_status")

TxOpTakes ==
    /\ Takes(TxOpScript, 4)
    /\ Left = 4 => Current = Do("do_tx")
    /\ Left = 3 => Current = Do("await_irq")
    /\ Left = 2 => Current = Do("get_irq_state")
    /\ Left = 1 => Current = Do("clear_irq_flags")

CadOpTakes ==
    /\ Takes(CadOpScript, 4)
    /\ Left = 4 => Current = Do("do_cad")
    /\ Left = 3 => Current = Do("await_irq")
    /\ Left = 2 => Current = Do("get_irq_state")
    /\ Left = 1 => Current = Do("clear_irq_flags")

RxOpTakes(m) ==
    /\ Takes(RxOpScript(m), 3)
    /\ Left = 3 => Current = Cmd("do_rx", m, <<>>)
    /\ Left = 2 => Current = Do("get_irq_state")
    /\ Left = 1 => Current = Do("clear_irq_flags")

StartTakes(m) ==
    /\ Takes(StartScript(m), 1)
    /\ Left = 1 => Current = Cmd("do_rx", m, <<>>)

SwitchTakes(m) ==
    /\ Takes(SwitchScript(m), 3)
    /\ Left = 3 => Current = Do("set_standby")
    /\ Left = 2 => Current = Set("channel", "Receive")
    /\ Left = 1 => Current = Cmd("do_rx", m, <<>>)

LEMMA ScriptTakes ==
    /\ Stands(call.todo, "Done", InitScript) => InitTakes
    /\ Stands(call.todo, "Done", StandbyScript) => StandbyTakes
    /\ Stands(call.todo, "Done", ClearScript) => ClearTakes
    /\ Stands(call.todo, "Done", RecoverScript) => RecoverTakes
    /\ Stands(call.todo, "Done", WaitScript) => WaitTakes
    /\ Stands(call.todo, "Done", ReadScript) => ReadTakes
    /\ Stands(call.todo, "Done", TxOpScript) => TxOpTakes
    /\ Stands(call.todo, "Done", CadOpScript) => CadOpTakes
    /\ \A m : Stands(call.todo, "Done", RxOpScript(m)) => RxOpTakes(m)
    /\ \A m : Stands(call.todo, "Done", StartScript(m)) => StartTakes(m)
    /\ \A m : Stands(call.todo, "Done", SwitchScript(m)) => SwitchTakes(m)
<1>1. ASSUME Stands(call.todo, "Done", InitScript) PROVE InitTakes
  <2>1. Len(InitScript) = 6
    BY DEF InitScript
  <2>2. Takes(InitScript, 6)
    BY <1>1, <2>1, DoneTakes
  <2> QED
    BY <2>2 DEF InitTakes, Takes, InitScript
<1>2. ASSUME Stands(call.todo, "Done", StandbyScript) PROVE StandbyTakes
  <2>1. Len(StandbyScript) = 1
    BY DEF StandbyScript
  <2>2. Takes(StandbyScript, 1)
    BY <1>2, <2>1, DoneTakes
  <2> QED
    BY <2>2 DEF StandbyTakes, Takes, StandbyScript
<1>3. ASSUME Stands(call.todo, "Done", ClearScript) PROVE ClearTakes
  <2>1. Len(ClearScript) = 1
    BY DEF ClearScript
  <2>2. Takes(ClearScript, 1)
    BY <1>3, <2>1, DoneTakes
  <2> QED
    BY <2>2 DEF ClearTakes, Takes, ClearScript
<1>4. ASSUME Stands(call.todo, "Done", RecoverScript) PROVE RecoverTakes
  <2>1. Len(RecoverScript) = 2
    BY DEF RecoverScript
  <2>2. Takes(RecoverScript, 2)
    BY <1>4, <2>1, DoneTakes
  <2> QED
    BY <2>2 DEF RecoverTakes, Takes, RecoverScript
<1>5. ASSUME Stands(call.todo, "Done", WaitScript) PROVE WaitTakes
  <2>1. Len(WaitScript) = 3
    BY DEF WaitScript
  <2>2. Takes(WaitScript, 3)
    BY <1>5, <2>1, DoneTakes
  <2> QED
    BY <2>2 DEF WaitTakes, Takes, WaitScript
<1>6. ASSUME Stands(call.todo, "Done", ReadScript) PROVE ReadTakes
  <2>1. Len(ReadScript) = 3
    BY DEF ReadScript
  <2>2. Takes(ReadScript, 3)
    BY <1>6, <2>1, DoneTakes
  <2> QED
    BY <2>2 DEF ReadTakes, Takes, ReadScript
<1>7. ASSUME Stands(call.todo, "Done", TxOpScript) PROVE TxOpTakes
  <2>1. Len(TxOpScript) = 4
    BY DEF TxOpScript
  <2>2. Takes(TxOpScript, 4)
    BY <1>7, <2>1, DoneTakes
  <2> QED
    BY <2>2 DEF TxOpTakes, Takes, TxOpScript
<1>8. ASSUME Stands(call.todo, "Done", CadOpScript) PROVE CadOpTakes
  <2>1. Len(CadOpScript) = 4
    BY DEF CadOpScript
  <2>2. Takes(CadOpScript, 4)
    BY <1>8, <2>1, DoneTakes
  <2> QED
    BY <2>2 DEF CadOpTakes, Takes, CadOpScript
<1>9. ASSUME NEW m, Stands(call.todo, "Done", RxOpScript(m)) PROVE RxOpTakes(m)
  <2>1. Len(RxOpScript(m)) = 3
    BY DEF RxOpScript
  <2>2. Takes(RxOpScript(m), 3)
    BY <1>9, <2>1, DoneTakes
  <2> QED
    BY <2>2 DEF RxOpTakes, Takes, RxOpScript
<1>10. ASSUME NEW m, Stands(call.todo, "Done", StartScript(m)) PROVE StartTakes(m)
  <2>1. Len(StartScript(m)) = 1
    BY DEF StartScript
  <2>2. Takes(StartScript(m), 1)
    BY <1>10, <2>1, DoneTakes
  <2> QED
    BY <2>2 DEF StartTakes, Takes, StartScript
<1>11. ASSUME NEW m, Stands(call.todo, "Done", SwitchScript(m)) PROVE SwitchTakes(m)
  <2>1. Len(SwitchScript(m)) = 3
    BY DEF SwitchScript
  <2>2. Takes(SwitchScript(m), 3)
    BY <1>11, <2>1, DoneTakes
  <2> QED
    BY <2>2 DEF SwitchTakes, Takes, SwitchScript
<1> QED
  BY <1>1, <1>2, <1>3, <1>4, <1>5, <1>6, <1>7, <1>8, <1>9, <1>10, <1>11

\* Scripts of commands that start nothing.
LEMMA QuietFits ==
    ASSUME \/ Stands(call.todo, "Done", StandbyScript) \/ Stands(call.todo, "Done", ClearScript)
           \/ Stands(call.todo, "Done", RecoverScript) \/ Stands(call.todo, "Done", WaitScript)
           \/ Stands(call.todo, "Done", ReadScript)
    PROVE Suited
<1>1. StandbyTakes \/ ClearTakes \/ RecoverTakes \/ WaitTakes \/ ReadTakes
  BY ScriptTakes
<1>2. call.todo # <<>> /\ Left \in 1 .. 3
  BY <1>1 DEF StandbyTakes, ClearTakes, RecoverTakes, WaitTakes, ReadTakes, Takes
<1>3. Current = StandbyCmd \/ \E k \in Passive : Current = Do(k)
  BY <1>1, <1>2
     DEF StandbyTakes, ClearTakes, RecoverTakes, WaitTakes, ReadTakes, Takes, Passive
<1> QED
  BY <1>2, <1>3, FittingForms DEF Suited

\* What was prepared is enough to start.
LEMMA PreparedStarts ==
    ASSUME IInv, Settled, Air, lora.radio_mode \in {"Transmit", "Single", "Continuous", "Cad"}
    PROVE /\ chip.init /\ chip.calibrated
          /\ chip.mask = Enabled(lora.radio_mode)
          /\ lora.radio_mode = "Transmit" =>
                /\ Uses("Transmit", Settings) /\ "TxDone" \in chip.mask
                /\ ~TxBegun /\ kind = "Sx127x" => chip.irq["TxDone"] = "Clear"
          /\ lora.radio_mode = "Cad" =>
                Uses("Cad", {"modulation", "channel"}) /\ "CadDone" \in chip.mask
          /\ lora.radio_mode \in {"Single", "Continuous"} =>
                /\ Uses("Receive", {"modulation", "packet", "channel"})
                /\ {"RxDone", "Timeout"} \subseteq chip.mask
<1>1. chip.mask = Enabled(lora.radio_mode) /\ ~lora.cold_start /\ ~lora.calibrate_image
  BY DEF IInv, Prepared
<1>2. chip.init /\ chip.calibrated
  BY <1>1 DEF IInv, Base, Kept
<1>3. /\ lora.radio_mode = "Transmit" => "TxDone" \in chip.mask
      /\ lora.radio_mode = "Cad" => "CadDone" \in chip.mask
      /\ lora.radio_mode \in {"Single", "Continuous"} => {"RxDone", "Timeout"} \subseteq chip.mask
  BY <1>1 DEF Enabled, Flags
<1> QED
  BY <1>1, <1>2, <1>3 DEF IInv, Prepared

\* The start of an operation fits where the guard of the method and what was
\* prepared allow it.
LEMMA StartFits ==
    ASSUME IInv, Settled, NEW c,
           \/ c = Do("do_tx") /\ lora.radio_mode = "Transmit" /\ ~TxBegun /\ call.op = "tx"
           \/ c = Do("do_cad") /\ lora.radio_mode = "Cad" /\ call.op = "cad"
           \/ c = Cmd("do_rx", lora.radio_mode, <<>>) /\ lora.radio_mode \in RxModes
    PROVE Fitting(c)
<1>1. call.op \notin Building
  BY DEF Settled
<1>2. RxModes \subseteq {"Single", "Continuous"}
  BY LoRaPhyAssumption
<1>3. Air => MayStart(c)
  <2> SUFFICES ASSUME Air PROVE MayStart(c)
    OBVIOUS
  <2>0. lora.radio_mode \in {"Transmit", "Single", "Continuous", "Cad"}
    BY <1>2
  <2>1. chip.init /\ chip.calibrated
    BY <2>0, PreparedStarts
  <2>2. CASE c = Do("do_tx") /\ lora.radio_mode = "Transmit" /\ ~TxBegun
    <3>1. /\ Uses("Transmit", Settings) /\ "TxDone" \in chip.mask
          /\ kind = "Sx127x" => chip.irq["TxDone"] = "Clear"
      BY <2>2, PreparedStarts
    <3> QED
      BY <2>1, <2>2, <3>1 DEF MayStart, Do, Cmd
  <2>3. CASE c = Do("do_cad") /\ lora.radio_mode = "Cad"
    <3>1. Uses("Cad", {"modulation", "channel"}) /\ "CadDone" \in chip.mask
      BY <2>3, PreparedStarts
    <3> QED
      BY <2>1, <2>3, <3>1 DEF MayStart, Do, Cmd
  <2>4. CASE c = Cmd("do_rx", lora.radio_mode, <<>>) /\ lora.radio_mode \in RxModes
    <3>1. /\ Uses("Receive", {"modulation", "packet", "channel"})
          /\ {"RxDone", "Timeout"} \subseteq chip.mask
      BY <1>2, <2>4, PreparedStarts
    <3> QED
      BY <1>2, <2>1, <2>4, <3>1 DEF MayStart, Cmd
  <2> QED
    BY <2>2, <2>3, <2>4
<1>4. /\ c.cmd \in Starting /\ c.upd = <<>>
      /\ c.cmd = "do_tx" => call.op = "tx"
      /\ c.cmd = "do_cad" => call.op = "cad"
  BY DEF Do, Cmd, Starting
<1> QED
  BY <1>1, <1>3, <1>4 DEF Fitting

\* Whatever the method, it has a command left that fits.
LEMMA CurrentFits ==
    ASSUME IInv, call.op # "none"
    PROVE Suited
<1>1. Types /\ Base /\ Guardless /\ Guarded
  BY DEF IInv
<1>2. call.op \in Operating => Settled
  BY <1>1 DEF Guarded, Operating, Receiving, Settled, Building, Preparing
<1>3. CASE call.op \in Building
  <2>1. Built
    BY <1>1, <1>3 DEF Guardless
  <2>2. InitTakes
    BY <2>1, ScriptTakes DEF Built
  <2>3. call.todo # <<>> /\ Left \in 1 .. 6
    BY <2>2 DEF InitTakes, Takes
  <2>4. CASE Left = 6
    <3>1. Current = Do("reset") /\ (Air => lora.cold_start)
      BY <2>1, <2>2, <2>4 DEF InitTakes, Built
    <3> QED
      BY <1>3, <2>3, <3>1 DEF Fitting, Suited
  <2>5. CASE Left # 6
    <3>1. Air => Idle
      BY <2>1, <2>3, <2>5 DEF Built
    <3>2. CASE Left = 3
      <4>1. Current.cmd = "init_lora" /\ Current.upd = <<>>
        BY <2>2, <3>2 DEF InitTakes, Do, Cmd
      <4> QED
        BY <2>3, <3>1, <4>1 DEF Fitting, Suited
    <3>3. CASE Left = 1
      <4>1. Current = ColdDone /\ (Air => chip.init)
        BY <2>1, <2>2, <3>3 DEF InitTakes, Built
      <4> QED
        BY <2>3, <3>1, <4>1 DEF Fitting, Suited
    <3>4. CASE Left \in {5, 4, 2}
      <4>1. Current \in {Do("ensure_ready"), StandbyCmd, Set("power", "Init")}
        BY <2>2, <3>4 DEF InitTakes
      <4>2. Fitting(Current)
        BY <3>1, <4>1, FittingForms DEF Passive, Settings, Purposes
      <4> QED
        BY <2>3, <4>2 DEF Suited
    <3> QED
      BY <2>3, <2>5, <3>2, <3>3, <3>4
  <2> QED
    BY <2>4, <2>5
<1>4. CASE call.op \in {"enter_standby", "clear_irq_status"}
  BY <1>1, <1>4, QuietFits DEF Guardless
<1>5. CASE call.op = "set_lora_sync_word"
  <2>1. PICK x \in Leads, w \in caller.asked : SyncAt(x, w)
    BY <1>1, <1>5 DEF Guardless
  <2>2. Moves(call.todo, x, SyncScript(w))
    <3>1. Len(SyncScript(w)) = 1
      BY DEF SyncScript
    <3> QED
      BY <2>1, <3>1, ScriptMoves DEF SyncAt
  <2>3. call.todo # <<>> /\ Left \in Nat \ {0}
    BY <2>2 DEF Moves, Left
  <2>4. CASE x # "Done"
    <3>1. Current \in {Do("ensure_ready"), StandbyCmd}
      BY <2>2, <2>4 DEF Moves, Current, Leads
    <3> QED
      BY <2>3, <3>1, FittingForms DEF Suited, Passive
  <2>5. CASE x = "Done"
    <3>1. ~Dormant /\ (Air => Idle)
      BY <2>1, <2>5 DEF SyncAt, LeadFacts
    <3>2. Len(SyncScript(w)) = 1 /\ Len(call.todo) \in 1 .. 1
      BY <2>2, <2>5 DEF Moves, SyncScript
    <3>3. Current = SyncScript(w)[1]
      BY <2>2, <2>5, <3>2 DEF Moves, Current
    <3>4. Current = Cmd("set_lora_sync_word", w, [sync_word |-> w])
      BY <3>3 DEF SyncScript
    <3> QED
      BY <2>3, <3>1, <3>4 DEF Fitting, Suited
  <2> QED
    BY <2>4, <2>5
<1>6. CASE call.op = "sleep"
  <2>1. PICK x \in Leads, warm \in BOOLEAN : SleepAt(x, warm)
    BY <1>1, <1>6 DEF Guardless
  <2>2. PICK F : F = SleepScript(warm, lora.cold_start \/ ~warm)
    OBVIOUS
  <2>3. Len(F) = 1 /\ F[1] = Cmd("set_sleep", warm, [radio_mode |-> "Sleep",
                                     cold_start |-> lora.cold_start \/ ~warm])
    BY <2>2 DEF SleepScript
  <2>4. Moves(call.todo, x, F)
    BY <2>1, <2>2, <2>3, ScriptMoves DEF SleepAt
  <2>5. call.todo # <<>> /\ Left \in Nat \ {0}
    BY <2>4 DEF Moves, Left
  <2>6. CASE x # "Done"
    <3>1. Current = Do("ensure_ready")
      BY <2>1, <2>4, <2>6 DEF Moves, Current, Leads, SleepAt
    <3> QED
      BY <2>5, <3>1, FittingForms DEF Suited, Passive
  <2>7. CASE x = "Done"
    <3>1. Len(call.todo) \in 1 .. 1
      BY <2>3, <2>4, <2>7 DEF Moves
    <3>2. Current = F[1]
      BY <2>3, <2>4, <2>7, <3>1 DEF Moves, Current
    <3> QED
      BY <1>6, <2>3, <2>5, <3>2 DEF Fitting, Suited
  <2> QED
    BY <2>6, <2>7
<1>7. CASE call.op \in Preparing
  BY <1>1, <1>7, TxPrepares, RxPrepares, CadPrepares, ListenPrepares, WavePrepares
     DEF Guardless, Preparing
<1>8. CASE call.op = "tx"
  <2>0. TxOp /\ Settled
    BY <1>1, <1>2, <1>8 DEF Guarded, Operating
  <2>1. CASE Stands(call.todo, "Done", RecoverScript)
    BY <2>1, QuietFits
  <2>2. CASE lora.radio_mode = "Transmit" /\ Stands(call.todo, "Done", TxOpScript)
    <3>1. TxOpTakes
      BY <2>2, ScriptTakes
    <3>2. call.todo # <<>> /\ Left \in 1 .. 4
      BY <3>1 DEF TxOpTakes, Takes
    <3>3. CASE Left = 4
      <4>1. Current = Do("do_tx") /\ ~TxBegun
        BY <3>1, <3>3 DEF TxOpTakes, TxBegun
      <4> QED
        BY <1>8, <2>0, <2>2, <3>2, <4>1, StartFits DEF Suited
    <3>4. CASE Left # 4
      <4>1. Current \in {Do("await_irq"), Do("get_irq_state"), Do("clear_irq_flags")}
        BY <3>1, <3>2, <3>4 DEF TxOpTakes
      <4> QED
        BY <3>2, <4>1, FittingForms DEF Suited, Passive
    <3> QED
      BY <3>3, <3>4
  <2> QED
    BY <2>0, <2>1, <2>2 DEF TxOp
<1>9. CASE call.op = "cad"
  <2>0. CadOp /\ Settled
    BY <1>1, <1>2, <1>9 DEF Guarded, Operating
  <2>1. CASE Stands(call.todo, "Done", RecoverScript)
    BY <2>1, QuietFits
  <2>2. CASE lora.radio_mode = "Cad" /\ Stands(call.todo, "Done", CadOpScript)
    <3>1. CadOpTakes
      BY <2>2, ScriptTakes
    <3>2. call.todo # <<>> /\ Left \in 1 .. 4
      BY <3>1 DEF CadOpTakes, Takes
    <3>3. CASE Left = 4
      <4>1. Current = Do("do_cad")
        BY <3>1, <3>3 DEF CadOpTakes
      <4> QED
        BY <1>9, <2>0, <2>2, <3>2, <4>1, StartFits DEF Suited
    <3>4. CASE Left # 4
      <4>1. Current \in {Do("await_irq"), Do("get_irq_state"), Do("clear_irq_flags")}
        BY <3>1, <3>2, <3>4 DEF CadOpTakes
      <4> QED
        BY <3>2, <4>1, FittingForms DEF Suited, Passive
    <3> QED
      BY <3>3, <3>4
  <2> QED
    BY <2>0, <2>1, <2>2 DEF CadOp
<1>10. CASE call.op \in {"rx", "complete_rx"}
  <2>0. RxOp /\ Settled
    BY <1>1, <1>2, <1>10 DEF Guarded, Operating, Receiving
  <2>1. CASE \/ Stands(call.todo, "Done", RecoverScript)
             \/ Stands(call.todo, "Done", WaitScript)
             \/ Stands(call.todo, "Done", ReadScript)
    BY <2>1, QuietFits
  <2>2. CASE /\ lora.radio_mode \in RxModes /\ Left = 3
             /\ Stands(call.todo, "Done", RxOpScript(lora.radio_mode))
    <3>1. RxOpTakes(lora.radio_mode)
      BY <2>2, ScriptTakes
    <3>2. call.todo # <<>> /\ Current = Cmd("do_rx", lora.radio_mode, <<>>)
      BY <2>2, <3>1 DEF RxOpTakes, Takes
    <3> QED
      BY <2>0, <2>2, <3>2, StartFits DEF Suited
  <2> QED
    BY <2>0, <2>1, <2>2 DEF RxOp
<1>11. CASE call.op = "start_rx"
  <2>0. /\ Settled /\ lora.radio_mode \in RxModes
        /\ Stands(call.todo, "Done", StartScript(lora.radio_mode))
    BY <1>1, <1>2, <1>11 DEF Guarded, Operating, Receiving
  <2>1. StartTakes(lora.radio_mode)
    BY <2>0, ScriptTakes
  <2>2. Left = 1 /\ call.todo # <<>> /\ Current = Cmd("do_rx", lora.radio_mode, <<>>)
    BY <2>1 DEF StartTakes, Takes
  <2> QED
    BY <2>0, <2>2, StartFits DEF Suited
<1>12. CASE call.op = "rx_switch_channel"
  <2>0. /\ Settled /\ lora.radio_mode \in RxModes
        /\ Stands(call.todo, "Done", SwitchScript(lora.radio_mode))
        /\ Air /\ Left <= 2 => Idle
    BY <1>1, <1>2, <1>12 DEF Guarded, Operating, Receiving
  <2>1. SwitchTakes(lora.radio_mode)
    BY <2>0, ScriptTakes
  <2>2. call.todo # <<>> /\ Left \in 1 .. 3
    BY <2>1 DEF SwitchTakes, Takes
  <2>3. CASE Left = 1
    <3>1. Current = Cmd("do_rx", lora.radio_mode, <<>>)
      BY <2>1, <2>3 DEF SwitchTakes
    <3> QED
      BY <2>0, <2>2, <3>1, StartFits DEF Suited
  <2>4. CASE Left = 2
    <3>1. Current = Set("channel", "Receive") /\ (Air => Idle)
      BY <2>0, <2>1, <2>4 DEF SwitchTakes
    <3> QED
      BY <2>2, <3>1, FittingForms DEF Suited, Settings, Purposes
  <2>5. CASE Left = 3
    <3>1. Current = Do("set_standby")
      BY <2>1, <2>5 DEF SwitchTakes
    <3> QED
      BY <2>2, <3>1, FittingForms DEF Suited, Passive
  <2> QED
    BY <2>2, <2>3, <2>4, <2>5
<1> QED
  BY <1>1, <1>3, <1>4, <1>5, <1>6, <1>7, <1>8, <1>9, <1>10, <1>11, <1>12
     DEF Types, Methods, Building, Preparing

-----------------------------------------------------------------------------
(* What a command that fits does to the chip, whether the method goes on    *)
(* after it or not.                                                         *)

\* Flags are only cleared, on the Lr1110 no more than were seen.
LEMMA AfterClears ==
    ASSUME Types, NEW c, c.cmd = "clear_irq_flags", ~Dormant
    PROVE /\ ChipIs(After(c), chip.mode, chip.init, chip.sync, chip.calibrated, chip.cfg,
                    chip.mask, FlagsCleared)
          /\ FlagsCleared \in Irqs
          /\ \A f \in Flags : FlagsCleared[f] \in {"Clear", chip.irq[f]}
          /\ \A f \in Flags : kind = "Lr1110" /\ call.seen.irq[f] = "Clear" =>
                FlagsCleared[f] = chip.irq[f]
<1>1. chip.irq \in Irqs /\ KindOk /\ chip \in RadioChip
  BY DEF Types, RadioChip, Irqs, KindOk
<1>2. FlagsCleared \in Irqs
  BY <1>1 DEF FlagsCleared, NoFlags, Irqs
<1>3. \A f \in Flags : FlagsCleared[f] \in {"Clear", chip.irq[f]}
  BY DEF FlagsCleared, NoFlags
<1>4. \A f \in Flags : kind = "Lr1110" /\ call.seen.irq[f] = "Clear" =>
         FlagsCleared[f] = chip.irq[f]
  BY DEF FlagsCleared
<1>5. After(c) = [chip EXCEPT !.irq = FlagsCleared]
  BY DEF After, Settings, Dormant
<1>6. PICK g : g = FlagsCleared
  OBVIOUS
<1>7. ChipIs([chip EXCEPT !.irq = g], chip.mode, chip.init, chip.sync, chip.calibrated,
             chip.cfg, chip.mask, g)
  BY <1>1, <1>2, <1>6 DEF ChipIs, RadioChip, Irqs
<1> QED
  BY <1>2, <1>3, <1>4, <1>5, <1>6, <1>7

AirOk ==
    /\ Kept
    /\ OnAirReady
    /\ chip.mode = "Tx" => chip.irq["TxDone"] = "Clear"

\* What may be assigned with the command.
Assigns(c) ==
    \/ /\ lora' = lora /\ caller'.asked = caller.asked
       /\ Air => c.cmd # "set_sleep"
    \/ /\ Assign(c.upd)
       /\ caller'.asked = caller.asked \/ c.cmd = "set_lora_sync_word"

\* What holds of chip and LoRa in every case.
Sound ==
    /\ chip' \in RadioChip /\ lora' \in LoRa
    /\ Air => AirOk'

\* LoRa goes on knowing what the chip does not have.
Books ==
    /\ lora' \in LoRa /\ lora'.sync_word = lora.sync_word
    /\ \/ lora'.cold_start = lora.cold_start /\ lora'.calibrate_image = lora.calibrate_image
       \/ lora'.cold_start = TRUE /\ lora'.calibrate_image = lora.calibrate_image
       \/ lora'.cold_start = FALSE /\ lora'.calibrate_image = TRUE /\ (Air => chip.init)

LEMMA ColdDoneUpdates == ColdDone.upd # <<>>
<1>1. PICK u : u = [cold_start |-> FALSE, calibrate_image |-> TRUE]
  OBVIOUS
<1>2. DOMAIN u # {} /\ DOMAIN <<>> = {}
  BY <1>1
<1> QED
  BY <1>1, <1>2 DEF ColdDone, Cmd

LEMMA FittingBooks ==
    ASSUME Types, NEW c, Fitting(c), Assigns(c), c # Calibrate, c.cmd # "set_lora_sync_word"
    PROVE Books /\ caller'.asked = caller.asked
<1>1. caller'.asked = caller.asked
  BY DEF Assigns
<1>2. CASE lora' = lora
  BY <1>1, <1>2 DEF Types, Books
<1>3. CASE Assign(c.upd)
  <2>0. /\ lora \in LoRa /\ lora.radio_mode \in Modes
        /\ lora.cold_start \in BOOLEAN /\ lora.calibrate_image \in BOOLEAN
    BY DEF Types, LoRa
  <2>1. CASE c.upd = <<>>
    <3>1. LoRaIs(lora.radio_mode, lora.sync_word, lora.cold_start, lora.calibrate_image)
      BY <1>3, <2>0, <2>1, AssignIs
    <3> QED
      BY <1>1, <3>1 DEF LoRaIs, Books
  <2>2. CASE \E m \in Modes : c.upd = [radio_mode |-> m]
    <3>1. PICK m \in Modes : c.upd = [radio_mode |-> m]
      BY <2>2
    <3>2. LoRaIs(m, lora.sync_word, lora.cold_start, lora.calibrate_image)
      BY <1>3, <2>0, <3>1, AssignIs
    <3> QED
      BY <1>1, <3>2 DEF LoRaIs, Books
  <2>3. CASE c = ColdDone
    <3>1. Air => chip.init
      BY <2>3, ColdDoneUpdates
         DEF Fitting, ColdDone, Passive, StandbyCmd, Calibrate, Do, Cmd, Settings, Starting
    <3>2. LoRaIs(lora.radio_mode, lora.sync_word, FALSE, TRUE)
      BY <1>3, <2>0, <2>3, AssignIs DEF ColdDone, Cmd
    <3> QED
      BY <1>1, <3>1, <3>2 DEF LoRaIs, Books
  <2>4. CASE \E warm \in BOOLEAN : c = Cmd("set_sleep", warm, [radio_mode |-> "Sleep",
                                             cold_start |-> lora.cold_start \/ ~warm])
    <3>1. PICK warm \in BOOLEAN : c = Cmd("set_sleep", warm, [radio_mode |-> "Sleep",
                                             cold_start |-> lora.cold_start \/ ~warm])
      BY <2>4
    <3>2. PICK k \in BOOLEAN : k = (lora.cold_start \/ ~warm)
      BY <2>0
    <3>3. Assign([radio_mode |-> "Sleep", cold_start |-> k])
      BY <1>3, <3>1, <3>2 DEF Cmd
    <3>4. LoRaIs("Sleep", lora.sync_word, k, lora.calibrate_image)
      BY <2>0, <3>3, AssignIs
    <3>5. lora'.cold_start = lora.cold_start \/ lora'.cold_start = TRUE
      BY <2>0, <3>2, <3>4 DEF LoRaIs
    <3> QED
      BY <1>1, <3>4, <3>5 DEF LoRaIs, Books
  <2> QED
    BY <2>1, <2>2, <2>3, <2>4 DEF Fitting, StandbyCmd, Do, Cmd, Modes
<1> QED
  BY <1>2, <1>3 DEF Assigns

\* A chip that is not on the air, or leaves it, keeping its memory.
LEMMA IdleSound ==
    ASSUME Types, Air => AirOk, kind' = kind, chip' \in RadioChip, Idle',
           chip'.init = chip.init, chip'.sync = chip.sync, chip'.calibrated = chip.calibrated,
           caller'.asked = caller.asked, Books
    PROVE Sound
<1>1. Air' = Air
  BY DEF Air
<1>2. Air => Kept'
  <2>1. CASE lora'.cold_start = lora.cold_start /\ lora'.calibrate_image = lora.calibrate_image
    BY <2>1 DEF AirOk, Kept, Books
  <2>2. CASE lora'.cold_start = TRUE
    BY <2>2 DEF AirOk, Kept, Books
  <2>3. CASE lora'.calibrate_image = TRUE /\ (Air => chip.init)
    BY <2>3 DEF AirOk, Kept, Books
  <2> QED
    BY <2>1, <2>2, <2>3 DEF Books
<1> QED
  BY <1>1, <1>2 DEF Books, Sound, AirOk, OnAirReady, Idle

LEMMA WakingSound ==
    ASSUME Types, Air => AirOk, NEW c, Fitting(c), chip' = After(c), kind' = kind, Assigns(c),
           Dormant, c.cmd # "reset"
    PROVE Sound /\ chip'.mode = "Standby"
<1>1. ModeIs(chip', "Standby")
  BY AfterWakes DEF Types, KindOk
<1>2. c.cmd # "set_lora_sync_word" /\ c # Calibrate
  BY DEF Fitting, Passive, StandbyCmd, ColdDone, Calibrate, Do, Cmd, Settings, Starting
<1>3. Books /\ caller'.asked = caller.asked
  BY <1>2, FittingBooks
<1> QED
  BY <1>1, <1>3, IdleSound DEF ModeIs, ChipIs, Idle

\* A chip that stays on the air stays as it was.
LEMMA SteadySound ==
    ASSUME Types, Air => AirOk, kind' = kind, lora' \in LoRa,
           lora'.radio_mode = lora.radio_mode, lora'.sync_word = lora.sync_word,
           lora'.cold_start = lora.cold_start, lora'.calibrate_image = lora.calibrate_image,
           caller'.asked = caller.asked,
           NEW irq \in Irqs, irq["TxDone"] \in {"Clear", chip.irq["TxDone"]},
           ChipIs(chip', chip.mode, chip.init, chip.sync, chip.calibrated, chip.cfg, chip.mask,
                  irq)
    PROVE Sound
<1>1. Air' = Air /\ \A p, s : Uses(p, s)' = Uses(p, s)
  BY DEF Air, Uses, ChipIs
<1>2. Kept => Kept'
  BY DEF Kept, ChipIs
<1>3. OnAirReady => OnAirReady'
  BY <1>1 DEF OnAirReady, ChipIs
<1>4. chip'.irq["TxDone"] \in {"Clear", chip.irq["TxDone"]}
  BY DEF ChipIs
<1> QED
  BY <1>1, <1>2, <1>3, <1>4 DEF Sound, AirOk, ChipIs

\* The start of an operation.
LEMMA StartSound ==
    ASSUME Types, Air => AirOk, kind' = kind, NEW c, c.cmd \in Starting, chip' = After(c),
           ~Dormant, Air => MayStart(c), lora' \in LoRa,
           lora'.radio_mode = lora.radio_mode, lora'.sync_word = lora.sync_word,
           lora'.cold_start = lora.cold_start, lora'.calibrate_image = lora.calibrate_image,
           caller'.asked = caller.asked
    PROVE Sound /\ chip'.mode # "Sleep"
<1>1. AwakeEffect(c) /\ KindOk /\ chip \in RadioChip /\ lora \in LoRa
  BY AfterAwake DEF Types, KindOk
<1>2. /\ chip' \in RadioChip /\ chip'.init = chip.init /\ chip'.sync = chip.sync
      /\ chip'.calibrated = chip.calibrated /\ chip'.cfg = chip.cfg /\ chip'.mask = chip.mask
      /\ chip'.mode # "Sleep"
  BY <1>1 DEF AwakeEffect, Starting, ChipIs, ModeIs
<1>3. Air' = Air /\ \A p, s : Uses(p, s)' = Uses(p, s)
  BY <1>2 DEF Air, Uses
<1>4. Kept => Kept'
  BY <1>2 DEF Kept
<1>5. Air => chip.sync \in {lora.sync_word} \cup caller.asked
  BY DEF AirOk, Kept, MayStart
<1>6. CASE c.cmd = "do_tx"
  <2>1. chip'.mode = "Tx" /\ chip'.irq = FlagsAtStart("do_tx")
    BY <1>1, <1>6 DEF AwakeEffect, ChipIs
  <2>2. Air => chip'.irq["TxDone"] = "Clear"
    BY <1>1, <1>6, <2>1
       DEF FlagsAtStart, MayStart, Aged, NoFlags, Air, KindOk, Flags
  <2>3. Air => OnAirReady'
    BY <1>2, <1>3, <1>5, <1>6, <2>1 DEF MayStart, OnAirReady
  <2> QED
    BY <1>2, <1>3, <1>4, <2>2, <2>3 DEF Sound, AirOk
<1>7. CASE c.cmd = "do_cad"
  <2>1. chip'.mode = "Cad"
    BY <1>1, <1>7 DEF AwakeEffect, ChipIs
  <2>2. Air => OnAirReady'
    BY <1>2, <1>3, <1>5, <1>7, <2>1 DEF MayStart, OnAirReady
  <2> QED
    BY <1>2, <1>3, <1>4, <2>1, <2>2 DEF Sound, AirOk
<1>8. CASE c.cmd = "set_tx_continuous_wave_mode"
  <2>1. chip'.mode = "Wave"
    BY <1>1, <1>8 DEF AwakeEffect, ChipIs, ModeIs
  <2>2. Air => OnAirReady'
    BY <1>2, <1>3, <1>5, <1>8, <2>1 DEF MayStart, OnAirReady
  <2> QED
    BY <1>2, <1>3, <1>4, <2>1, <2>2 DEF Sound, AirOk
<1>9. CASE c.cmd = "do_rx"
  <2>1. chip'.mode = IF c.arg = "Single" THEN "RxSingle" ELSE "RxContinuous"
    BY <1>1, <1>9 DEF AwakeEffect, ChipIs
  <2>2. Air => OnAirReady'
    BY <1>2, <1>3, <1>5, <1>9, <2>1 DEF MayStart, OnAirReady
  <2> QED
    BY <1>2, <1>3, <1>4, <2>1, <2>2 DEF Sound, AirOk
<1> QED
  BY <1>6, <1>7, <1>8, <1>9 DEF Starting

\* What a command with no assignment leaves of LoRa.
LEMMA NothingAssigned ==
    ASSUME Types, NEW c, Assigns(c), c.upd = <<>>, c.cmd # "set_lora_sync_word"
    PROVE /\ lora' \in LoRa
          /\ lora'.radio_mode = lora.radio_mode /\ lora'.sync_word = lora.sync_word
          /\ lora'.cold_start = lora.cold_start
          /\ lora'.calibrate_image = lora.calibrate_image
          /\ caller'.asked = caller.asked
<1>1. lora \in LoRa /\ caller'.asked = caller.asked
  BY DEF Assigns, Types
<1>2. CASE lora' = lora
  BY <1>1, <1>2
<1>3. CASE Assign(c.upd)
  <2>1. LoRaIs(lora.radio_mode, lora.sync_word, lora.cold_start, lora.calibrate_image)
    BY <1>1, <1>3, AssignIs
  <2> QED
    BY <1>1, <2>1 DEF LoRaIs
<1> QED
  BY <1>2, <1>3 DEF Assigns

LEMMA AwakeSound ==
    ASSUME Types, Air => AirOk, NEW c, Fitting(c), chip' = After(c), kind' = kind, Assigns(c),
           ~Dormant \/ c.cmd = "reset"
    PROVE Sound /\ (c.cmd # "set_sleep" => ~Dormant')
<1>1. KindOk /\ chip \in RadioChip /\ lora \in LoRa
  BY DEF Types, KindOk
<1>2. ~Dormant => AwakeEffect(c)
  BY <1>1, AfterAwake
<1>3. CASE c = Do("reset") /\ (Air => lora.cold_start) /\ call.op \in Building
  <2>1. c.cmd = "reset" /\ c.upd = <<>>
    BY <1>3 DEF Do, Cmd
  <2>2. IsBlank(chip', IF HasBusy THEN "Standby" ELSE "Sleep")
    BY <2>1, AfterReset
  <2>3. /\ lora' \in LoRa /\ lora'.cold_start = lora.cold_start
    BY <2>1, NothingAssigned
  <2>4. Air => Kept'
    BY <1>3, <2>2, <2>3 DEF Kept, IsBlank, ChipIs
  <2>5. Idle' /\ ~Dormant' /\ Air' = Air
    BY <2>2 DEF IsBlank, ChipIs, Idle, Dormant, HasBusy, Air
  <2> QED
    BY <2>2, <2>3, <2>4, <2>5 DEF Sound, AirOk, OnAirReady, Idle, IsBlank, ChipIs
<1> SUFFICES ASSUME c.cmd # "reset" PROVE Sound /\ (c.cmd # "set_sleep" => ~Dormant')
  BY <1>3 DEF Fitting, Passive, StandbyCmd, ColdDone, Calibrate, Do, Cmd, Settings, Starting
<1>4. AwakeEffect(c) /\ ~Dormant
  BY <1>2
<1>5. Dormant' = (HasBusy /\ chip'.mode = "Sleep")
  BY DEF Dormant, HasBusy
<1>6. chip.irq \in Irqs /\ NoFlags \in Irqs
  BY <1>1 DEF RadioChip, Irqs, NoFlags
<1>7. CASE c.cmd \in Passive /\ c.upd = <<>>
  <2>0. /\ lora' \in LoRa
        /\ lora'.radio_mode = lora.radio_mode /\ lora'.sync_word = lora.sync_word
        /\ lora'.cold_start = lora.cold_start
        /\ lora'.calibrate_image = lora.calibrate_image
        /\ caller'.asked = caller.asked
    BY <1>7, NothingAssigned DEF Passive
  <2>1. CASE c.cmd = "set_standby"
    <3>1. ModeIs(chip', "Standby") /\ Books
      BY <1>4, <2>0, <2>1 DEF AwakeEffect, Books
    <3> QED
      BY <1>5, <2>0, <3>1, IdleSound DEF ModeIs, ChipIs, Idle
  <2>2. CASE c.cmd = "clear_irq_status"
    <3>1. ChipIs(chip', chip.mode, chip.init, chip.sync, chip.calibrated, chip.cfg, chip.mask,
                 NoFlags)
      BY <1>4, <2>2 DEF AwakeEffect
    <3>2. NoFlags["TxDone"] = "Clear"
      BY DEF NoFlags, Flags
    <3>3. Sound
      BY <1>6, <2>0, <3>1, <3>2, SteadySound
    <3> QED
      BY <1>4, <1>5, <3>1, <3>3 DEF ChipIs, Dormant
  <2>3. CASE c.cmd = "clear_irq_flags"
    <3>1. PICK irq : irq = FlagsCleared
      OBVIOUS
    <3>2. /\ ChipIs(chip', chip.mode, chip.init, chip.sync, chip.calibrated, chip.cfg,
                    chip.mask, irq)
          /\ irq \in Irqs /\ irq["TxDone"] \in {"Clear", chip.irq["TxDone"]}
      BY <1>4, <2>3, <3>1, AfterClears DEF Flags
    <3>3. Sound
      BY <2>0, <3>2, SteadySound
    <3> QED
      BY <1>4, <1>5, <3>2, <3>3 DEF ChipIs, Dormant
  <2>4. CASE c.cmd \in {"ensure_ready", "get_irq_state", "await_irq", "get_rx_payload",
                        "get_rx_packet_status", "handle_implicit_header_mode"}
    <3>1. chip' = chip
      BY <1>4, <2>4 DEF AwakeEffect
    <3>2. ChipIs(chip', chip.mode, chip.init, chip.sync, chip.calibrated, chip.cfg, chip.mask,
                 chip.irq)
      BY <1>1, <3>1 DEF ChipIs
    <3>3. Sound
      BY <1>6, <2>0, <3>2, SteadySound
    <3> QED
      BY <1>4, <1>5, <3>1, <3>3 DEF Dormant
  <2> QED
    BY <1>7, <2>1, <2>2, <2>3, <2>4 DEF Passive
<1>8. CASE c = StandbyCmd
  <2>1. c.cmd = "set_standby" /\ c # Calibrate
    BY <1>8 DEF StandbyCmd, Calibrate, Cmd
  <2>2. ModeIs(chip', "Standby") /\ Books /\ caller'.asked = caller.asked
    BY <1>4, <2>1, FittingBooks DEF AwakeEffect
  <2> QED
    BY <1>5, <2>2, IdleSound DEF ModeIs, ChipIs, Idle
<1>9. CASE /\ \/ c.cmd \in Settings /\ c.arg \in Purposes
              \/ c.cmd = "set_irq_params"
           /\ Air => Idle
  <2>1. c.cmd # "set_lora_sync_word" /\ c # Calibrate /\ c.cmd # "set_sleep"
    BY <1>9 DEF Settings, Calibrate, Cmd
  <2>2. Books /\ caller'.asked = caller.asked
    BY <2>1, FittingBooks
  <2>3. /\ chip' \in RadioChip /\ chip'.mode = chip.mode
        /\ chip'.init = chip.init /\ chip'.sync = chip.sync /\ chip'.calibrated = chip.calibrated
    BY <1>4, <1>9 DEF AwakeEffect, ChipIs
  <2>4. Sound
    <3>1. CASE Air
      BY <1>9, <2>2, <2>3, <3>1, IdleSound DEF Idle
    <3>2. CASE ~Air
      BY <2>2, <2>3, <3>2 DEF Sound, Books
    <3> QED
      BY <3>1, <3>2
  <2> QED
    BY <1>4, <1>5, <2>3, <2>4 DEF Dormant
<1>10. CASE c.cmd = "init_lora" /\ c.upd = <<>> /\ (Air => Idle)
  <2>1. /\ lora' \in LoRa
        /\ lora'.sync_word = lora.sync_word /\ lora'.cold_start = lora.cold_start
        /\ lora'.calibrate_image = lora.calibrate_image
        /\ caller'.asked = caller.asked
    BY <1>10, NothingAssigned
  <2>2. /\ chip' \in RadioChip /\ chip'.mode = chip.mode
        /\ chip'.init = TRUE /\ chip'.sync = lora.sync_word
        /\ chip'.calibrated = chip.calibrated
    BY <1>4, <1>10 DEF AwakeEffect, ChipIs
  <2>3. Air => Kept'
    BY <2>1, <2>2 DEF AirOk, Kept
  <2>4. Sound
    BY <1>10, <2>1, <2>2, <2>3 DEF Sound, AirOk, OnAirReady, Idle
  <2> QED
    BY <1>4, <1>5, <2>2, <2>4 DEF Dormant
<1>11. CASE c = Calibrate /\ ~Dormant /\ (Air => Idle)
  <2>1. c.cmd = "calibrate_image" /\ c.upd = [calibrate_image |-> FALSE]
    BY <1>11 DEF Calibrate, Cmd
  <2>2. /\ lora' \in LoRa
        /\ lora'.sync_word = lora.sync_word /\ lora'.cold_start = lora.cold_start
        /\ caller'.asked = caller.asked
    <3>1. caller'.asked = caller.asked
      BY <2>1 DEF Assigns
    <3>2. Assign(c.upd) =>
             LoRaIs(lora.radio_mode, lora.sync_word, lora.cold_start, FALSE)
      BY <1>1, <2>1, AssignIs
    <3> QED
      BY <1>1, <3>1, <3>2 DEF Assigns, LoRaIs
  <2>3. /\ chip' \in RadioChip /\ chip'.mode = chip.mode
        /\ chip'.init = chip.init /\ chip'.sync = chip.sync
        /\ chip'.calibrated = TRUE
    BY <1>4, <2>1 DEF AwakeEffect, ChipIs
  <2>4. Air => Kept'
    BY <2>2, <2>3 DEF AirOk, Kept
  <2>5. Sound
    BY <1>11, <2>2, <2>3, <2>4 DEF Sound, AirOk, OnAirReady, Idle
  <2> QED
    BY <1>4, <1>5, <2>3, <2>5 DEF Dormant
<1>12. CASE /\ \E w \in caller.asked : c = Cmd("set_lora_sync_word", w, [sync_word |-> w])
            /\ Air => Idle
  <2>0. PICK w \in caller.asked : c = Cmd("set_lora_sync_word", w, [sync_word |-> w])
    BY <1>12
  <2>1. /\ c.cmd = "set_lora_sync_word" /\ c.upd = [sync_word |-> w] /\ c.arg = w
        /\ w \in SyncWords
    BY <2>0 DEF Cmd, Types
  <2>2. /\ lora' \in LoRa /\ lora'.cold_start = lora.cold_start
        /\ lora'.calibrate_image = lora.calibrate_image
        /\ w \in {lora'.sync_word} \cup caller'.asked
    <3>1. CASE lora' = lora /\ caller'.asked = caller.asked
      BY <1>1, <3>1
    <3>2. CASE Assign(c.upd)
      <4>1. LoRaIs(lora.radio_mode, w, lora.cold_start, lora.calibrate_image)
        BY <1>1, <2>1, <3>2, AssignIs
      <4> QED
        BY <4>1 DEF LoRaIs
    <3> QED
      BY <3>1, <3>2 DEF Assigns
  <2>3. /\ chip' \in RadioChip /\ chip'.mode = chip.mode
        /\ chip'.init = chip.init /\ chip'.sync = w
        /\ chip'.calibrated = chip.calibrated
    BY <1>4, <2>1 DEF AwakeEffect, ChipIs
  <2>4. Air => Kept'
    BY <2>2, <2>3 DEF AirOk, Kept
  <2>5. Sound
    BY <1>12, <2>2, <2>3, <2>4 DEF Sound, AirOk, OnAirReady, Idle
  <2> QED
    BY <1>4, <1>5, <2>3, <2>5 DEF Dormant
<1>13. CASE \E warm \in BOOLEAN : c = Cmd("set_sleep", warm, [radio_mode |-> "Sleep",
                                            cold_start |-> lora.cold_start \/ ~warm])
  <2>0. PICK warm \in BOOLEAN : c = Cmd("set_sleep", warm, [radio_mode |-> "Sleep",
                                            cold_start |-> lora.cold_start \/ ~warm])
    BY <1>13
  <2>1. /\ c.cmd = "set_sleep" /\ c.arg = warm /\ c # Calibrate
        /\ c.upd = [radio_mode |-> "Sleep", cold_start |-> lora.cold_start \/ ~warm]
    BY <2>0 DEF Cmd, Calibrate
  <2>2. Books /\ caller'.asked = caller.asked
    BY <2>1, FittingBooks
  <2>3. CASE ModeIs(chip', "Sleep")
    <3>1. Sound
      BY <2>2, <2>3, IdleSound DEF ModeIs, ChipIs, Idle
    <3> QED
      BY <2>1, <3>1
  <2>4. CASE ~c.arg /\ IsBlank(chip', "Sleep")
    <3>1. PICK k \in BOOLEAN : k = (lora.cold_start \/ ~warm)
      BY <1>1 DEF LoRa
    <3>2. k = TRUE
      BY <2>1, <2>4, <3>1
    <3>3. Air => lora'.cold_start = TRUE
      <4> SUFFICES ASSUME Air PROVE lora'.cold_start = TRUE
        OBVIOUS
      <4>1. Assign([radio_mode |-> "Sleep", cold_start |-> k])
        BY <2>1, <3>1 DEF Assigns
      <4>2. LoRaIs("Sleep", lora.sync_word, k, lora.calibrate_image)
        BY <1>1, <4>1, AssignIs
      <4> QED
        BY <3>2, <4>2 DEF LoRaIs
    <3>4. Air => Kept'
      BY <2>4, <3>3 DEF Kept, IsBlank, ChipIs
    <3>5. Sound
      BY <2>2, <2>4, <3>4 DEF Books, Sound, AirOk, OnAirReady, IsBlank, ChipIs
    <3> QED
      BY <2>1, <3>5
  <2> QED
    BY <1>4, <2>1, <2>3, <2>4 DEF AwakeEffect
<1>14. CASE c.cmd \in Starting /\ c.upd = <<>> /\ (Air => MayStart(c))
  <2>1. c.cmd # "set_lora_sync_word"
    BY <1>14 DEF Starting
  <2>2. Sound /\ chip'.mode # "Sleep"
    BY <1>4, <1>14, <2>1, NothingAssigned, StartSound
  <2> QED
    BY <1>5, <2>2
<1> QED
  BY <1>7, <1>8, <1>9, <1>10, <1>11, <1>12, <1>13, <1>14 DEF Fitting, ColdDone, Do, Cmd

LEMMA FittingSound ==
    ASSUME IInv, call.op # "none", chip' = After(Current), kind' = kind, Assigns(Current)
    PROVE Sound /\ (Current.cmd # "set_sleep" => ~Dormant')
<1>1. Types /\ (Air => AirOk) /\ Fitting(Current)
  BY CurrentFits DEF IInv, Base, AirOk, Suited
<1>2. CASE Dormant /\ Current.cmd # "reset"
  <2>1. Sound /\ chip'.mode = "Standby"
    BY <1>1, <1>2, WakingSound
  <2> QED
    BY <2>1 DEF Dormant
<1>3. CASE ~Dormant \/ Current.cmd = "reset"
  BY <1>1, <1>3, AwakeSound
<1> QED
  BY <1>2, <1>3

\* Only the commands that start an operation put the chip on the air.
LEMMA IdleStays ==
    ASSUME Types, NEW c, Fitting(c), chip' = After(c), Idle, c.cmd \notin Starting
    PROVE Idle'
<1>1. KindOk /\ chip \in RadioChip /\ lora \in LoRa
  BY DEF Types, KindOk
<1>2. CASE c.cmd = "reset"
  <2>1. IsBlank(chip', IF HasBusy THEN "Standby" ELSE "Sleep")
    BY <1>2, AfterReset
  <2> QED
    BY <2>1 DEF IsBlank, ChipIs, Idle
<1>3. CASE Dormant /\ c.cmd # "reset"
  <2>1. ModeIs(chip', "Standby")
    BY <1>1, <1>3, AfterWakes
  <2> QED
    BY <2>1 DEF ModeIs, ChipIs, Idle
<1>4. CASE ~Dormant /\ c.cmd # "reset"
  <2>1. AwakeEffect(c)
    BY <1>1, <1>4, AfterAwake
  <2>2. CASE c.cmd \in Passive
    <3>1. c.cmd = "clear_irq_flags" => chip'.mode = chip.mode
      BY <1>4, AfterClears DEF ChipIs
    <3> QED
      BY <2>1, <2>2, <3>1 DEF AwakeEffect, Passive, ModeIs, ChipIs, Idle
  <2>3. CASE c.cmd \in Settings /\ c.arg \in Purposes
    BY <2>1, <2>3 DEF AwakeEffect, ChipIs, Idle
  <2>4. CASE c.cmd \in {"set_standby", "init_lora", "set_irq_params", "calibrate_image", "set_sleep"}
    BY <2>1, <2>4 DEF AwakeEffect, ModeIs, IsBlank, ChipIs, Idle
  <2>5. CASE \E w \in caller.asked : c = Cmd("set_lora_sync_word", w, [sync_word |-> w])
    <3>1. c.cmd = "set_lora_sync_word" /\ c.arg \in SyncWords
      BY <2>5 DEF Cmd, Types
    <3> QED
      BY <2>1, <3>1 DEF AwakeEffect, ChipIs, Idle
  <2> QED
    BY <1>4, <2>2, <2>3, <2>4, <2>5 DEF Fitting, StandbyCmd, ColdDone, Calibrate, Do, Cmd
<1> QED
  BY <1>2, <1>3, <1>4

\* A method that gives up, or is dropped.
LEMMA AbortKeepsIInv ==
    ASSUME IInv, call.op # "none", UNCHANGED <<kind, lora>>,
           call' = ReturnErr, caller' = [caller EXCEPT !.standing = "Unknown"],
           \/ chip' = chip
           \/ /\ chip' = After(Current)
              /\ Current.cmd = "set_sleep" => call.op \in Droppable
    PROVE IInv'
<1>1. Types /\ Base /\ Guardless /\ kind' = kind /\ lora' = lora
  BY DEF IInv
<1>2. /\ call'.op = "none" /\ call'.todo = <<>> /\ call'.seen = NoRead
      /\ call'.result = IF call.op = "new" THEN "Unbuilt" ELSE "Returned"
      /\ call' = [op |-> call'.op, todo |-> call'.todo, seen |-> call'.seen,
                  result |-> call'.result]
  BY DEF ReturnErr, Returned
<1>3. NoRead \in [ok : BOOLEAN, irq : Irqs]
  BY DEF NoRead, NoFlags, Irqs
<1>4. /\ caller' \in [standing : {"Fresh", "Started", "Wave", "Unknown"},
                      asked : SUBSET SyncWords]
      /\ caller'.standing = "Unknown" /\ caller'.asked = caller.asked
  BY <1>1 DEF Types
<1>5. Fitting(Current)
  BY CurrentFits DEF Suited
<1>6. Current.cmd = "set_sleep" => call.op = "sleep"
  BY <1>5 DEF Fitting, Passive, StandbyCmd, ColdDone, Calibrate, Do, Cmd, Settings, Starting
<1>7. /\ chip' \in RadioChip
      /\ Air => AirOk'
      /\ Dormant' => lora.radio_mode = "Sleep" \/ "sleep" \in Droppable
  <2>1. CASE chip' = chip
    <3>1. Kept => Kept'
      BY <1>1, <1>4, <2>1 DEF Kept
    <3>2. OnAirReady => OnAirReady'
      BY <1>1, <1>4, <2>1 DEF OnAirReady, Uses
    <3>3. Dormant' = Dormant
      BY <1>1, <2>1 DEF Dormant, HasBusy
    <3> QED
      BY <1>1, <2>1, <3>1, <3>2, <3>3 DEF Types, Base, AirOk
  <2>2. CASE /\ chip' = After(Current)
             /\ Current.cmd = "set_sleep" => call.op \in Droppable
    <3>1. Assigns(Current)
      BY <1>1, <1>4, <1>6, <2>2 DEF Assigns, Air
    <3>2. Sound /\ (Current.cmd # "set_sleep" => ~Dormant')
      BY <1>1, <2>2, <3>1, FittingSound
    <3> QED
      BY <1>6, <2>2, <3>2 DEF Sound
  <2> QED
    BY <2>1, <2>2
<1>8. Air' = Air
  BY <1>1 DEF Air
<1>9. Types'
  BY <1>1, <1>2, <1>3, <1>4, <1>7 DEF Types
<1>10. Base'
  BY <1>1, <1>4, <1>7, <1>8 DEF Base, AirOk
<1>11. Prepared'
  BY <1>4 DEF Prepared, Settled
<1>12. Air /\ call'.result = "Unbuilt" => Idle'
  <2> SUFFICES ASSUME Air, call'.result = "Unbuilt" PROVE Idle'
    OBVIOUS
  <2>1. call.op = "new"
    BY <1>2
  <2>2. Idle /\ Current.cmd \notin Starting
    <3>1. Idle
      BY <1>1, <2>1 DEF Guardless, Built, Building
    <3>2. InitTakes
      BY <1>1, <2>1, ScriptTakes DEF Guardless, Built, Building
    <3>3. Current \in {Do("reset"), Do("ensure_ready"), StandbyCmd, Do("init_lora"),
                       Set("power", "Init"), ColdDone}
      <4>1. Left \in 1 .. 6
        BY <3>2 DEF InitTakes, Takes
      <4> QED
        BY <3>2, <4>1 DEF InitTakes
    <3>4. Current.cmd \notin Starting
      BY <3>3 DEF Starting, StandbyCmd, ColdDone, Do, Set, Cmd
    <3> QED
      BY <3>1, <3>4
  <2>3. chip' = chip => Idle'
    BY <2>2 DEF Idle
  <2>4. chip' = After(Current) => Idle'
    BY <1>1, <1>5, <2>2, IdleStays
  <2> QED
    BY <2>3, <2>4
<1>13. Resting'
  BY <1>2, <1>4, <1>8, <1>12 DEF Resting
<1>14. Guardless' /\ Guarded'
  BY <1>2 DEF Guardless, Guarded, Methods, Building, Operating, Receiving
<1> QED
  BY <1>9, <1>10, <1>11, <1>13, <1>14 DEF IInv

-----------------------------------------------------------------------------
(* A method makes its next command and returns, or goes on.                *)

CallIs(op, t, seen, result) ==
    /\ call'.op = op /\ call'.todo = t /\ call'.seen = seen /\ call'.result = result
    /\ call' = [op |-> call'.op, todo |-> call'.todo, seen |-> call'.seen,
                result |-> call'.result]

\* What is left of the script decides.
Continues(rest) ==
    /\ rest # <<>> =>
          CallIs(call.op, rest, NoRead, call.result) /\ caller' = caller
    /\ rest = <<>> => CallIs("none", <<>>, NoRead, "Returned")
    /\ rest = <<>> /\ call.result = "Failing" => caller' = caller
    /\ rest = <<>> /\ call.result # "Failing" =>
          caller' = [standing |-> StandingAfter,
                     asked |-> IF call.op = "set_lora_sync_word" THEN {} ELSE caller.asked]

LEMMA UnderWay ==
    ASSUME IInv, Pending
    PROVE call.op # "none"
BY DEF IInv, Resting, Pending

LEMMA ContinueIs ==
    ASSUME IInv, Pending, NEW rest, Continue(rest)
    PROVE Continues(rest)
<1>1. call = [op |-> call.op, todo |-> call.todo, seen |-> call.seen, result |-> call.result]
  BY DEF IInv, Types
<1>2. CASE rest # <<>>
  <2>1. call' = [call EXCEPT !.todo = rest, !.seen = NoRead] /\ caller' = caller
    BY <1>2 DEF Continue
  <2>2. CallIs(call.op, rest, NoRead, call.result)
    BY <1>1, <2>1 DEF CallIs
  <2> QED
    BY <1>2, <2>1, <2>2 DEF Continues
<1>3. CASE rest = <<>>
  <2>1. call.result = "Failing" => call.op # "new"
    BY DEF IInv, Guardless, Methods
  <2>2. call' = Returned("Returned")
    BY <1>3, <2>1 DEF Continue, ReturnErr
  <2>3. CallIs("none", <<>>, NoRead, "Returned")
    BY <2>2 DEF CallIs, Returned
  <2> QED
    BY <1>3, <2>3 DEF Continue, Continues
<1> QED
  BY <1>2, <1>3

\* The last command of set_lora_sync_word writes the word.
LEMMA SyncWordLast ==
    ASSUME IInv, call.op = "set_lora_sync_word", Tail(call.todo) = <<>>
    PROVE Current.cmd = "set_lora_sync_word"
<1>1. PICK x \in Leads, w \in caller.asked : SyncAt(x, w)
  BY DEF IInv, Guardless
<1>2. Len(SyncScript(w)) = 1
  BY DEF SyncScript
<1>3. Moves(call.todo, x, SyncScript(w))
  BY <1>1, <1>2, ScriptMoves DEF SyncAt
<1>4. x = "Done"
  BY <1>3 DEF Moves, Leads
<1>5. Len(call.todo) \in 1 .. 1
  BY <1>2, <1>3, <1>4 DEF Moves
<1>6. Current = SyncScript(w)[1]
  BY <1>2, <1>3, <1>4, <1>5 DEF Moves, Current
<1> QED
  BY <1>6 DEF SyncScript, Cmd

\* What a command does, whichever method makes it.
Basics ==
    /\ call.op # "none" /\ Suited
    /\ Continues(Tail(call.todo))
    /\ Sound /\ Types'
    /\ Current.cmd # "set_sleep" => ~Dormant'
    /\ Dormant' => lora'.radio_mode = "Sleep"
    /\ Air' = Air
    /\ \A f \in Flags : chip.irq[f] = "Clear" => chip'.irq[f] = "Clear"
    /\ /\ kind = "Sx127x" /\ NoOld(chip.irq) /\ call.op \notin {"tx", "cad"}
       => NoOld(chip'.irq)

LEMMA StandingTypes ==
    ASSUME Types
    PROVE StandingAfter \in {"Fresh", "Started", "Wave", "Unknown"}
BY DEF Types, StandingAfter

LEMMA FlagsFall ==
    ASSUME Types, NEW c, Fitting(c)
    PROVE /\ \A f \in Flags : chip.irq[f] = "Clear" => After(c).irq[f] = "Clear"
          /\ /\ kind = "Sx127x" /\ NoOld(chip.irq) /\ call.op \notin {"tx", "cad"}
             => NoOld(After(c).irq)
<1>1. KindOk /\ chip \in RadioChip /\ lora \in LoRa
  BY DEF Types, KindOk
<1>2. \A f \in Flags : NoFlags[f] = "Clear"
  BY DEF NoFlags
<1>3. CASE c.cmd = "reset"
  BY <1>2, <1>3, AfterReset DEF IsBlank, ChipIs, NoOld
<1>4. CASE c.cmd # "reset" /\ Dormant
  BY <1>1, <1>4, AfterWakes DEF ModeIs, ChipIs
<1>5. CASE c.cmd # "reset" /\ ~Dormant
  <2>1. AwakeEffect(c)
    BY <1>1, <1>5, AfterAwake
  <2>2. CASE c.cmd \in {"do_tx", "do_cad", "do_rx"}
    <3>1. \E k \in {"do_tx", "do_cad", "do_rx"} : After(c).irq = FlagsAtStart(k) /\ c.cmd = k
      BY <2>1, <2>2 DEF AwakeEffect, ChipIs
    <3>2. PICK k \in {"do_tx", "do_cad", "do_rx"} : After(c).irq = FlagsAtStart(k) /\ c.cmd = k
      BY <3>1
    <3>3. \A f \in Flags : chip.irq[f] = "Clear" => FlagsAtStart(k)[f] = "Clear"
      BY <1>2 DEF FlagsAtStart, Aged
    <3>4. kind = "Sx127x" /\ k = "do_rx" => NoOld(FlagsAtStart(k))
      BY <1>2 DEF FlagsAtStart, NoOld
    <3>5. call.op \notin {"tx", "cad"} => k = "do_rx"
      BY <2>2, <3>2 DEF Fitting, Passive, StandbyCmd, ColdDone, Calibrate, Do, Cmd, Settings
    <3> QED
      BY <3>2, <3>3, <3>4, <3>5
  <2>3. CASE c.cmd \in {"set_standby", "init_lora", "calibrate_image", "set_sleep",
                        "set_irq_params", "clear_irq_status", "set_tx_continuous_wave_mode",
                        "ensure_ready", "get_irq_state", "await_irq", "get_rx_payload",
                        "get_rx_packet_status", "handle_implicit_header_mode"}
    BY <1>2, <2>1, <2>3 DEF AwakeEffect, ModeIs, IsBlank, ChipIs, NoOld
  <2>4. CASE c.cmd = "clear_irq_flags"
    BY <1>5, <2>4, AfterClears DEF ChipIs, NoOld
  <2>5. CASE c.cmd \in Settings /\ c.arg \in Purposes
    BY <2>1, <2>5 DEF AwakeEffect, ChipIs
  <2>6. CASE \E w \in caller.asked : c = Cmd("set_lora_sync_word", w, [sync_word |-> w])
    <3>1. c.cmd = "set_lora_sync_word" /\ c.arg \in SyncWords
      BY <2>6 DEF Cmd, Types
    <3> QED
      BY <2>1, <3>1 DEF AwakeEffect, ChipIs
  <2> QED
    BY <1>5, <2>2, <2>3, <2>4, <2>5, <2>6
       DEF Fitting, Passive, Starting, StandbyCmd, ColdDone, Calibrate, Do, Cmd
<1> QED
  BY <1>3, <1>4, <1>5

LEMMA CommandBasics ==
    ASSUME IInv, Command, kind' = kind
    PROVE Basics
<1>1. call.op # "none" /\ Suited
  BY UnderWay, CurrentFits DEF Command
<1>2. Continues(Tail(call.todo))
  BY ContinueIs DEF Command
<1>3. /\ caller'.asked = caller.asked \/ Current.cmd = "set_lora_sync_word"
      /\ caller' \in [standing : {"Fresh", "Started", "Wave", "Unknown"},
                      asked : SUBSET SyncWords]
  <2>0. caller \in [standing : {"Fresh", "Started", "Wave", "Unknown"}, asked : SUBSET SyncWords]
        /\ StandingAfter \in {"Fresh", "Started", "Wave", "Unknown"}
    BY StandingTypes DEF IInv, Types
  <2>1. CASE caller' = caller
    BY <2>0, <2>1
  <2>2. CASE /\ Tail(call.todo) = <<>>
             /\ caller' = [standing |-> StandingAfter,
                     asked |-> IF call.op = "set_lora_sync_word" THEN {} ELSE caller.asked]
    BY <2>0, <2>2, SyncWordLast
  <2> QED
    BY <1>2, <2>1, <2>2 DEF Continues
<1>4. Sound /\ (Current.cmd # "set_sleep" => ~Dormant')
  BY <1>1, <1>3, FittingSound DEF Command, Assigns
<1>5. Types'
  <2>1. NoRead \in [ok : BOOLEAN, irq : Irqs]
    BY DEF NoRead, NoFlags, Irqs
  <2>2. /\ call'.op \in Methods \cup {"none"} /\ call'.seen = NoRead
        /\ call' = [op |-> call'.op, todo |-> call'.todo, seen |-> call'.seen,
                    result |-> call'.result]
    BY <1>2 DEF Continues, CallIs, IInv, Types
  <2> QED
    BY <1>3, <1>4, <2>1, <2>2 DEF Types, Sound, IInv
<1>6. Current.cmd = "set_sleep" => lora'.radio_mode = "Sleep"
  <2> SUFFICES ASSUME Current.cmd = "set_sleep" PROVE lora'.radio_mode = "Sleep"
    OBVIOUS
  <2>1. PICK warm \in BOOLEAN :
          Current = Cmd("set_sleep", warm, [radio_mode |-> "Sleep",
                                            cold_start |-> lora.cold_start \/ ~warm])
    BY <1>1 DEF Suited, Fitting, Passive, StandbyCmd, ColdDone, Calibrate, Do, Cmd, Settings,
                Starting
  <2>2. lora \in LoRa /\ lora.cold_start \in BOOLEAN
    BY DEF IInv, Types, LoRa
  <2>3. PICK k \in BOOLEAN : k = (lora.cold_start \/ ~warm)
    BY <2>2
  <2>4. Assign([radio_mode |-> "Sleep", cold_start |-> k])
    BY <2>1, <2>3 DEF Command, Cmd
  <2> QED
    BY <2>2, <2>4, AssignIs DEF LoRaIs
<1>7. Air' = Air
  BY DEF Air
<1>8. /\ \A f \in Flags : chip.irq[f] = "Clear" => chip'.irq[f] = "Clear"
      /\ /\ kind = "Sx127x" /\ NoOld(chip.irq) /\ call.op \notin {"tx", "cad"}
         => NoOld(chip'.irq)
  BY <1>1, FlagsFall DEF Command, Suited, IInv
<1> QED
  BY <1>1, <1>2, <1>4, <1>5, <1>6, <1>7, <1>8 DEF Basics

LEMMA BasicsBase ==
    ASSUME IInv, Basics, kind' = kind,
           kind = "Sx127x" /\ caller'.standing = "Started" => NoOld(chip'.irq)
    PROVE Base'
<1>1. Air => AirOk'
  BY DEF Basics, Sound
<1> QED
  BY <1>1 DEF Basics, Base, AirOk

\* The caller's standing has not changed.
LEMMA SameStanding ==
    ASSUME IInv, Basics, kind' = kind, caller' = caller
    PROVE Base'
<1>1. caller.standing = "Started" => call.op \notin {"tx", "cad"}
  BY DEF IInv, Guarded, Operating
<1>2. kind = "Sx127x" /\ caller'.standing = "Started" => NoOld(chip'.irq)
  BY <1>1 DEF IInv, Base, Basics
<1> QED
  BY <1>2, BasicsBase

\* The method goes on.
LEMMA CommandOn ==
    ASSUME IInv, Basics, kind' = kind, Tail(call.todo) # <<>>
    PROVE /\ CallIs(call.op, Tail(call.todo), NoRead, call.result) /\ caller' = caller
          /\ Types' /\ Base' /\ Resting' /\ Settled' = Settled
<1>1. CallIs(call.op, Tail(call.todo), NoRead, call.result) /\ caller' = caller
  BY DEF Basics, Continues
<1>2. Base'
  BY <1>1, SameStanding
<1>3. Resting'
  BY <1>1 DEF Resting, CallIs, Basics
<1>4. Settled' = Settled
  BY <1>1 DEF Settled, CallIs
<1> QED
  BY <1>1, <1>2, <1>3, <1>4 DEF Basics

\* The method has returned.
LEMMA CommandEnds ==
    ASSUME IInv, Basics, kind' = kind, Tail(call.todo) = <<>>
    PROVE /\ CallIs("none", <<>>, NoRead, "Returned")
          /\ Types' /\ Guardless' /\ Guarded'
          /\ call.result = "Pending" => caller'.standing = StandingAfter
          /\ call.result = "Failing" => caller' = caller
<1>1. CallIs("none", <<>>, NoRead, "Returned")
  BY DEF Basics, Continues
<1>2. Guardless' /\ Guarded'
  BY <1>1 DEF Guardless, Guarded, Methods, Building, Operating, Receiving, CallIs
<1>3. /\ call.result = "Pending" => caller'.standing = StandingAfter
      /\ call.result = "Failing" => caller' = caller
  BY DEF Basics, Continues
<1> QED
  BY <1>1, <1>2, <1>3 DEF Basics

\* ... with nothing that the caller may expect of the chip.
LEMMA CommandEndsFresh ==
    ASSUME IInv, Basics, kind' = kind, Tail(call.todo) = <<>>, Prepared',
           caller'.standing # "Started"
    PROVE IInv'
<1>1. Base'
  BY BasicsBase
<1>2. CallIs("none", <<>>, NoRead, "Returned") /\ Types' /\ Guardless' /\ Guarded'
  BY CommandEnds
<1>3. Resting'
  BY <1>2 DEF Resting, CallIs
<1> QED
  BY <1>1, <1>2, <1>3 DEF IInv

\* What is prepared stays prepared.
LEMMA PreparedStays ==
    ASSUME IInv, Basics, kind' = kind, Settled' => Settled,
           chip'.mask = chip.mask, chip'.cfg = chip.cfg,
           lora'.radio_mode = lora.radio_mode, lora'.cold_start = lora.cold_start,
           lora'.calibrate_image = lora.calibrate_image,
           TxBegun' \/ (~TxBegun /\ (Idle => Idle')) \/ lora.radio_mode # "Transmit"
    PROVE Prepared'
<1>1. /\ Air' = Air /\ \A p, s : Uses(p, s)' = Uses(p, s)
      /\ \A r : Enabled(r)' = Enabled(r)
  BY DEF Basics, Uses, Enabled
<1>2. chip.irq["TxDone"] = "Clear" => chip'.irq["TxDone"] = "Clear"
  BY DEF Basics, Flags
<1> QED
  BY <1>1, <1>2 DEF IInv, Prepared

\* Nothing is prepared in standby.
LEMMA StandbyPrepared ==
    ASSUME lora'.radio_mode \in {"Standby", "Sleep"}
    PROVE Prepared'
BY DEF Prepared

\* Commands that write nothing.
Mute == {"ensure_ready", "get_rx_payload", "get_rx_packet_status",
         "handle_implicit_header_mode"}

LEMMA MuteAfter ==
    ASSUME Types, NEW c, c.cmd \in Mute
    PROVE ModeIs(After(c), chip.mode) \/ ModeIs(After(c), "Standby")
<1>1. KindOk /\ chip \in RadioChip /\ lora \in LoRa
  BY DEF Types, KindOk
<1>2. CASE Dormant
  BY <1>1, <1>2, AfterWakes DEF Mute
<1>3. CASE ~Dormant
  <2>1. After(c) = chip
    BY <1>1, <1>3, AfterAwake DEF AwakeEffect, Mute
  <2> QED
    BY <1>1, <2>1 DEF ModeIs, ChipIs
<1> QED
  BY <1>2, <1>3

LEMMA StandbyAfter ==
    ASSUME Types, NEW c, c.cmd = "set_standby"
    PROVE ModeIs(After(c), "Standby")
<1>1. KindOk /\ chip \in RadioChip /\ lora \in LoRa
  BY DEF Types, KindOk
<1>2. CASE Dormant
  BY <1>1, <1>2, AfterWakes
<1>3. CASE ~Dormant
  BY <1>1, <1>3, AfterAwake DEF AwakeEffect
<1> QED
  BY <1>2, <1>3

\* The step of a command that assigns nothing to LoRa, or only radio_mode.
LEMMA PlainCommand ==
    ASSUME IInv, Command
    PROVE /\ Current.upd = <<>> =>
                LoRaIs(lora.radio_mode, lora.sync_word, lora.cold_start, lora.calibrate_image)
          /\ \A m \in Modes : Current.upd = [radio_mode |-> m] =>
                LoRaIs(m, lora.sync_word, lora.cold_start, lora.calibrate_image)
BY AssignIs DEF IInv, Types, Command

\* ensure_ready, and the reads.
MuteStep ==
    /\ LoRaIs(lora.radio_mode, lora.sync_word, lora.cold_start, lora.calibrate_image)
    /\ ModeIs(chip', chip.mode) \/ ModeIs(chip', "Standby")

LEMMA MuteCommand ==
    ASSUME IInv, Command, NEW k \in Mute, Current = Do(k)
    PROVE MuteStep
<1>1. Current.cmd = k /\ Current.upd = <<>>
  BY DEF Do, Cmd
<1>2. LoRaIs(lora.radio_mode, lora.sync_word, lora.cold_start, lora.calibrate_image)
  BY <1>1, PlainCommand
<1>3. ModeIs(chip', chip.mode) \/ ModeIs(chip', "Standby")
  BY <1>1, MuteAfter DEF IInv, Command
<1> QED
  BY <1>2, <1>3 DEF MuteStep

\* set_standby with its assignment
LEMMA StandbyCommand ==
    ASSUME IInv, Command, Current = StandbyCmd
    PROVE /\ LoRaIs("Standby", lora.sync_word, lora.cold_start, lora.calibrate_image)
          /\ ModeIs(chip', "Standby")
<1>1. Current.cmd = "set_standby" /\ Current.upd = [radio_mode |-> "Standby"]
  BY DEF StandbyCmd, Cmd
<1>2. LoRaIs("Standby", lora.sync_word, lora.cold_start, lora.calibrate_image)
  BY <1>1, PlainCommand DEF Modes
<1>3. ModeIs(chip', "Standby")
  BY <1>1, StandbyAfter DEF IInv, Command
<1> QED
  BY <1>2, <1>3

LEMMA BuildCommand ==
    ASSUME IInv, Command, kind' = kind, call.op \in Building
    PROVE IInv'
<1>1. Basics
  BY CommandBasics
<1>2. Built /\ call.result = "Pending"
  BY DEF IInv, Guardless, Building, Methods
<1>3. InitTakes
  BY <1>2, ScriptTakes DEF Built
<1>4. Left \in 1 .. 6
  BY <1>3 DEF InitTakes, Takes
<1>5. Types /\ KindOk /\ chip \in RadioChip /\ lora \in LoRa /\ Fitting(Current)
  BY <1>1 DEF IInv, Types, KindOk, Basics, Suited
<1>6. chip' = After(Current)
  BY DEF Command
<1>7. CASE Left = 1
  <2>1. Tail(call.todo) = <<>> /\ Current = ColdDone
    BY <1>3, <1>7 DEF InitTakes, Takes
  <2>2. lora'.radio_mode = "Standby"
    <3>1. Assign([cold_start |-> FALSE, calibrate_image |-> TRUE])
      BY <2>1 DEF Command, ColdDone, Cmd
    <3> QED
      BY <1>2, <1>5, <1>7, <3>1, AssignIs DEF LoRaIs, Built
  <2>3. caller'.standing = "Fresh"
    BY <1>1, <1>2, <2>1, CommandEnds DEF StandingAfter, Building
  <2> QED
    BY <1>1, <2>1, <2>2, <2>3, StandbyPrepared, CommandEndsFresh
<1>8. CASE Left > 1
  <2>1. /\ Tail(call.todo) # <<>> /\ Stands(Tail(call.todo), "Done", InitScript)
        /\ Len(Tail(call.todo)) = Left - 1
    BY <1>3, <1>8 DEF InitTakes, Takes
  <2>2. /\ CallIs(call.op, Tail(call.todo), NoRead, call.result) /\ caller' = caller
        /\ Types' /\ Base' /\ Resting' /\ Settled' = Settled
    BY <1>1, <2>1, CommandOn
  <2>3. Prepared'
    BY <2>2 DEF Prepared, Settled
  <2>4. Left' = Left - 1 /\ Stands(call.todo, "Done", InitScript)' /\ Air' = Air
    BY <1>1, <2>1, <2>2 DEF CallIs, Left, Basics
  <2>5. Current.cmd # "set_sleep" /\ Current.cmd \notin Starting
        /\ (Current.upd = <<>> \/ Current = StandbyCmd)
    <3>1. Current \in {Do("reset"), Do("ensure_ready"), StandbyCmd, Do("init_lora"),
                       Set("power", "Init")}
      BY <1>3, <1>4, <1>8 DEF InitTakes
    <3> QED
      BY <3>1 DEF Do, Set, StandbyCmd, Cmd, Starting
  <2>6. ~Dormant'
    BY <1>1, <2>5 DEF Basics
  <2>7. /\ lora'.cold_start = lora.cold_start
        /\ lora.radio_mode = "Standby" => lora'.radio_mode = "Standby"
        /\ Left = 4 => lora'.radio_mode = "Standby"
    <3>1. CASE Current.upd = <<>>
      <4>1. Left # 4
        <5>1. PICK u : u = [radio_mode |-> "Standby"]
          OBVIOUS
        <5>2. DOMAIN u # {} /\ DOMAIN <<>> = {}
          BY <5>1
        <5> QED
          BY SMTT(30), <1>3, <3>1, <5>1, <5>2 DEF InitTakes, StandbyCmd, Cmd
      <4> QED
        BY <3>1, <4>1, PlainCommand DEF LoRaIs
    <3>2. CASE Current = StandbyCmd
      BY <3>2, StandbyCommand DEF LoRaIs
    <3> QED
      BY <2>5, <3>1, <3>2
  <2>8. Air => Idle'
    <3>1. CASE Left = 6
      <4>1. Current.cmd = "reset"
        BY <1>3, <3>1 DEF InitTakes, Do, Cmd
      <4>2. IsBlank(chip', IF HasBusy THEN "Standby" ELSE "Sleep")
        BY <1>6, <4>1, AfterReset
      <4> QED
        BY <4>2 DEF IsBlank, ChipIs, Idle
    <3>2. CASE Left <= 5
      <4>1. Air => Idle
        BY <1>2, <3>2 DEF Built
      <4> QED
        BY <1>5, <1>6, <2>5, <4>1, IdleStays
    <3> QED
      BY <1>4, <3>1, <3>2
  <2>9. Left <= 3 => (Air => chip'.init)
    <3>1. CASE Left = 3
      <4>1. ~Dormant /\ Current.cmd = "init_lora"
        BY <1>2, <1>3, <3>1 DEF Built, InitTakes, Do, Cmd
      <4>2. AwakeEffect(Current)
        BY <1>5, <4>1, AfterAwake
      <4> QED
        BY <1>6, <4>1, <4>2 DEF AwakeEffect, ChipIs
    <3>2. CASE Left = 2
      <4>1. /\ ~Dormant /\ Current.cmd = "power" /\ Current.arg = "Init"
            /\ Air => chip.init
        BY <1>2, <1>3, <3>2 DEF Built, InitTakes, Set, Cmd
      <4>2. AwakeEffect(Current)
        BY <1>5, <4>1, AfterAwake
      <4> QED
        BY <1>6, <4>1, <4>2 DEF AwakeEffect, ChipIs, Settings, Purposes
    <3> QED
      BY <1>4, <1>8, <3>1, <3>2
  <2>10. Built'
    BY <1>2, <1>4, <1>8, <2>4, <2>6, <2>7, <2>8, <2>9 DEF Built
  <2>11. Guardless' /\ Guarded'
    BY <1>2, <2>2, <2>10
       DEF CallIs, Guardless, Guarded, Building, Methods, Operating, Receiving
  <2> QED
    BY <2>2, <2>3, <2>11 DEF IInv
<1> QED
  BY <1>4, <1>7, <1>8

\* enter_standby and clear_irq_status
LEMMA ShortCommand ==
    ASSUME IInv, Command, kind' = kind, call.op \in {"enter_standby", "clear_irq_status"}
    PROVE IInv'
<1>1. Basics
  BY CommandBasics
<1>2. call.result = "Pending" /\ Types /\ Fitting(Current) /\ chip' = After(Current)
  BY <1>1 DEF IInv, Guardless, Methods, Basics, Suited, Command
<1>3. StandbyTakes \/ ClearTakes
  BY ScriptTakes DEF IInv, Guardless
<1>4. Left = 1 /\ Tail(call.todo) = <<>>
  <2>1. Left \in 1 .. 1 /\ (Left = 1 => Tail(call.todo) = <<>>)
    BY <1>3 DEF StandbyTakes, ClearTakes, Takes
  <2>2. Left = 1
    BY <2>1
  <2> QED
    BY <2>1, <2>2
<1>5. /\ Current.cmd \in {"set_standby", "clear_irq_status"} /\ Current.upd = <<>>
      /\ Current.cmd \notin Starting
  BY <1>3, <1>4 DEF StandbyTakes, ClearTakes, Do, Cmd, Starting
<1>6. /\ caller'.standing = IF caller.standing = "Started" THEN "Fresh" ELSE caller.standing
      /\ CallIs("none", <<>>, NoRead, "Returned")
  BY <1>1, <1>2, <1>4, CommandEnds DEF StandingAfter
<1>7. Settled' => Settled
  BY <1>6 DEF Settled, Building, Preparing
<1>8. chip'.mask = chip.mask /\ chip'.cfg = chip.cfg
  <2>1. CASE Current.cmd = "set_standby"
    BY <1>2, <2>1, StandbyAfter DEF ModeIs, ChipIs
  <2>2. CASE Current.cmd = "clear_irq_status" /\ Dormant
    BY <1>2, <2>2, AfterWakes DEF ModeIs, ChipIs, KindOk, Types
  <2>3. CASE Current.cmd = "clear_irq_status" /\ ~Dormant
    <3>1. AwakeEffect(Current)
      BY <1>2, <2>3, AfterAwake DEF KindOk, Types
    <3> QED
      BY <1>2, <2>3, <3>1 DEF AwakeEffect, ChipIs
  <2> QED
    BY <1>5, <2>1, <2>2, <2>3
<1>9. Idle => Idle'
  BY <1>2, <1>5, IdleStays
<1>10. LoRaIs(lora.radio_mode, lora.sync_word, lora.cold_start, lora.calibrate_image)
  BY <1>5, PlainCommand
<1>11. ~TxBegun
  BY DEF TxBegun
<1>12. Prepared'
  BY <1>1, <1>7, <1>8, <1>9, <1>10, <1>11, PreparedStays DEF LoRaIs
<1> QED
  BY <1>1, <1>4, <1>6, <1>12, CommandEndsFresh

\* ensure_ready and set_standby at the beginning of a method.
LeadEnd(x) == IF x = "Both" THEN "Standby" ELSE "Done"

LeadStep(x, F, k) ==
    /\ CallIs(call.op, Tail(call.todo), NoRead, call.result) /\ caller' = caller
    /\ Types' /\ Base' /\ Resting' /\ Prepared'
    /\ Stands(call.todo', LeadEnd(x), F)
    /\ Togo(call.todo', LeadEnd(x)) = Togo(call.todo, x)
    /\ LeadFacts(LeadEnd(x), k)'
    /\ lora'.cold_start = lora.cold_start /\ lora'.calibrate_image = lora.calibrate_image
    /\ chip'.init = chip.init /\ chip'.cfg = chip.cfg

LEMMA LeadCommand ==
    ASSUME IInv, Command, kind' = kind, NEW x, NEW F, Len(F) \in Nat, x # "Done",
           Stands(call.todo, x, F), NEW k \in Int, LeadFacts(x, k), call.op # "tx"
    PROVE LeadStep(x, F, k)
<1>1. Basics
  BY CommandBasics
<1>2. Moves(call.todo, x, F) /\ x \in {"Both", "Ready", "Standby"}
  BY ScriptMoves DEF Stands, Leads
<1>3. /\ Tail(call.todo) # <<>>
      /\ Current = IF x = "Standby" THEN StandbyCmd ELSE Do("ensure_ready")
      /\ Stands(Tail(call.todo), LeadEnd(x), F)
  BY <1>2 DEF Moves, Current, LeadEnd
<1>4. /\ CallIs(call.op, Tail(call.todo), NoRead, call.result) /\ caller' = caller
      /\ Types' /\ Base' /\ Resting' /\ Settled' = Settled
  BY <1>1, <1>3, CommandOn
<1>5. Stands(call.todo', LeadEnd(x), F) /\ Togo(call.todo', LeadEnd(x)) = Togo(call.todo, x)
  <2>1. call.todo' = Tail(call.todo) /\ Len(Tail(call.todo)) = Len(call.todo) - 1
        /\ Len(call.todo) \in Nat
    BY <1>2, <1>4 DEF CallIs, Moves
  <2>2. Len(Tail(call.todo)) - LeadLen(LeadEnd(x)) = Len(call.todo) - LeadLen(x)
    BY <1>2, <2>1 DEF LeadLen, LeadEnd
  <2> QED
    BY <1>3, <2>1, <2>2 DEF Togo
<1>6. k >= 0 /\ ~Dormant' /\ Air' = Air
  <2>1. Current.cmd # "set_sleep"
    BY <1>3 DEF StandbyCmd, Do, Cmd
  <2> QED
    BY <1>1, <1>2, <2>1 DEF LeadFacts, Basics
<1>7. ~TxBegun
  BY DEF TxBegun
<1>8. CASE x = "Standby"
  <2>1. /\ LoRaIs("Standby", lora.sync_word, lora.cold_start, lora.calibrate_image)
        /\ ModeIs(chip', "Standby")
    BY <1>3, <1>8, StandbyCommand
  <2>2. Prepared'
    BY <2>1, StandbyPrepared DEF LoRaIs
  <2>3. LeadFacts("Done", k)'
    BY <1>6, <2>1 DEF LeadFacts, LoRaIs, ModeIs, ChipIs, Idle
  <2> QED
    BY <1>4, <1>5, <1>8, <2>1, <2>2, <2>3 DEF LeadStep, LeadEnd, LoRaIs, ModeIs, ChipIs
<1>9. CASE x # "Standby"
  <2>1. MuteStep
    BY <1>3, <1>9, MuteCommand DEF Mute
  <2>2. /\ chip'.init = chip.init /\ chip'.cfg = chip.cfg /\ chip'.mask = chip.mask
        /\ Idle => Idle'
        /\ lora'.cold_start = lora.cold_start /\ lora'.calibrate_image = lora.calibrate_image
        /\ lora'.radio_mode = lora.radio_mode
    BY <2>1 DEF MuteStep, ModeIs, ChipIs, LoRaIs, Idle
  <2>3. Prepared'
    BY <1>1, <1>4, <1>7, <2>2, PreparedStays
  <2>4. x = "Ready" => lora'.radio_mode = "Standby"
    BY <1>6, <2>2 DEF LeadFacts
  <2>5. Air /\ x = "Ready" => Idle'
    <3>1. Air /\ x = "Ready" => OnAirReady' /\ lora'.radio_mode = "Standby"
      BY <1>1, <2>4 DEF Basics, Sound, AirOk
    <3>2. chip'.mode \in {"Sleep", "Standby", "Tx", "Wave", "RxSingle", "RxContinuous", "Cad"}
      BY <1>4 DEF Types, RadioChip
    <3> QED
      BY <3>1, <3>2 DEF OnAirReady, Idle
  <2>6. LeadFacts(LeadEnd(x), k)'
    BY <1>2, <1>6, <1>9, <2>4, <2>5 DEF LeadFacts, LeadEnd
  <2> QED
    BY <1>4, <1>5, <2>2, <2>3, <2>6 DEF LeadStep
<1> QED
  BY <1>8, <1>9

LEMMA SyncCommand ==
    ASSUME IInv, Command, kind' = kind, call.op = "set_lora_sync_word"
    PROVE IInv'
<1>1. Basics
  BY CommandBasics
<1>2. PICK x \in Leads, w \in caller.asked : SyncAt(x, w)
  BY DEF IInv, Guardless
<1>3. PICK F : F = SyncScript(w)
  OBVIOUS
<1>4. /\ Len(F) = 1 /\ F[1] = Cmd("set_lora_sync_word", w, [sync_word |-> w])
      /\ Stands(call.todo, x, F) /\ LeadFacts(x, Togo(call.todo, x) - 1)
      /\ Togo(call.todo, x) \in Nat
  <2>1. Len(F) = 1 /\ F[1] = Cmd("set_lora_sync_word", w, [sync_word |-> w])
    BY <1>3 DEF SyncScript
  <2>2. Stands(call.todo, x, F) /\ LeadFacts(x, Togo(call.todo, x) - 1)
    BY <1>2, <1>3 DEF SyncAt
  <2>3. Togo(call.todo, x) \in Nat
    BY <2>1, <2>2 DEF Stands, Togo
  <2> QED
    BY <2>1, <2>2, <2>3
<1>5. Moves(call.todo, x, F)
  BY <1>4, ScriptMoves
<1>6. call.result = "Pending"
  BY DEF IInv, Guardless, Methods
<1>7. CASE x # "Done"
  <2>0. PICK k \in Int : k = Togo(call.todo, x) - 1
    BY <1>4
  <2>1. LeadStep(x, F, k)
    BY <1>4, <1>7, <2>0, LeadCommand
  <2>2. LeadEnd(x) \in Leads /\ SyncAt(LeadEnd(x), w)'
    <3>1. Togo(call.todo, LeadEnd(x))' - 1 = k
      BY <2>0, <2>1 DEF LeadStep
    <3> QED
      BY <1>3, <2>1, <3>1 DEF LeadStep, SyncAt, LeadEnd, Leads
  <2>3. Guardless' /\ Guarded'
    BY <1>6, <2>1, <2>2
       DEF LeadStep, CallIs, Guardless, Guarded, Building, Methods, Operating, Receiving
  <2> QED
    BY <2>1, <2>3 DEF LeadStep, IInv
<1>8. CASE x = "Done"
  <2>1. Len(call.todo) = 1
    BY <1>4, <1>5, <1>8 DEF Moves
  <2>2. Tail(call.todo) = <<>> /\ Current = F[1] /\ lora.radio_mode = "Standby"
    <3>1. Tail(call.todo) = <<>> /\ Current = F[1]
      BY <1>4, <1>5, <1>8, <2>1 DEF Moves, Current
    <3>2. Togo(call.todo, x) - 1 = 0
      BY <1>8, <2>1 DEF Togo, LeadLen
    <3> QED
      BY <1>4, <1>8, <3>1, <3>2 DEF LeadFacts
  <2>3. lora'.radio_mode = "Standby"
    <3>1. Assign([sync_word |-> w]) /\ w \in SyncWords /\ lora \in LoRa
      BY <1>4, <2>2 DEF Command, Cmd, IInv, Types
    <3> QED
      BY <2>2, <3>1, AssignIs DEF LoRaIs
  <2>4. caller'.standing = "Fresh"
    BY <1>1, <1>6, <2>2, CommandEnds DEF StandingAfter
  <2> QED
    BY <1>1, <2>2, <2>3, <2>4, StandbyPrepared, CommandEndsFresh
<1> QED
  BY <1>7, <1>8

LEMMA SleepCommand ==
    ASSUME IInv, Command, kind' = kind, call.op = "sleep"
    PROVE IInv'
<1>1. Basics
  BY CommandBasics
<1>2. PICK x \in Leads, warm \in BOOLEAN : SleepAt(x, warm)
  BY DEF IInv, Guardless
<1>3. PICK cold : cold = (lora.cold_start \/ ~warm)
  OBVIOUS
<1>4. PICK F : F = SleepScript(warm, cold)
  OBVIOUS
<1>5. /\ Len(F) = 1 /\ F[1].cmd = "set_sleep" /\ Stands(call.todo, x, F)
      /\ x \in {"Ready", "Done"}
  BY <1>2, <1>3, <1>4 DEF SleepScript, SleepAt, Leads, Cmd
<1>6. Moves(call.todo, x, F)
  BY <1>5, ScriptMoves
<1>7. call.result = "Pending" /\ ~TxBegun
  BY DEF IInv, Guardless, Methods, TxBegun
<1>8. CASE x = "Ready"
  <2>1. Tail(call.todo) # <<>> /\ Current = Do("ensure_ready") /\ Stands(Tail(call.todo), "Done", F)
    BY <1>6, <1>8 DEF Moves, Current
  <2>2. /\ CallIs(call.op, Tail(call.todo), NoRead, call.result) /\ caller' = caller
        /\ Types' /\ Base' /\ Resting' /\ Settled' = Settled
    BY <1>1, <2>1, CommandOn
  <2>3. MuteStep
    BY <2>1, MuteCommand DEF Mute
  <2>4. /\ chip'.cfg = chip.cfg /\ chip'.mask = chip.mask
        /\ Idle => Idle'
        /\ lora'.cold_start = lora.cold_start /\ lora'.calibrate_image = lora.calibrate_image
        /\ lora'.radio_mode = lora.radio_mode
    BY <2>3 DEF MuteStep, ModeIs, ChipIs, LoRaIs, Idle
  <2>5. Prepared'
    BY <1>1, <1>7, <2>2, <2>4, PreparedStays
  <2>6. SleepAt("Done", warm)'
    BY <1>3, <1>4, <2>1, <2>2, <2>4 DEF SleepAt, CallIs
  <2>7. Guardless' /\ Guarded'
    BY <1>7, <2>2, <2>6
       DEF CallIs, Guardless, Guarded, Building, Methods, Operating, Receiving, Leads
  <2> QED
    BY <2>2, <2>5, <2>7 DEF IInv
<1>9. CASE x = "Done"
  <2>1. Len(call.todo) = 1
    BY <1>5, <1>6, <1>9 DEF Moves
  <2>2. Tail(call.todo) = <<>> /\ Current = F[1]
    BY <1>5, <1>6, <1>9, <2>1 DEF Moves, Current
  <2>3. lora'.radio_mode = "Sleep"
    <3>1. cold \in BOOLEAN /\ lora \in LoRa
      BY <1>3 DEF IInv, Types, LoRa
    <3>2. Assign([radio_mode |-> "Sleep", cold_start |-> cold])
      BY <1>4, <2>2 DEF Command, SleepScript, Cmd
    <3> QED
      BY <3>1, <3>2, AssignIs DEF LoRaIs
  <2>4. caller'.standing = "Fresh"
    BY <1>1, <1>7, <2>2, CommandEnds DEF StandingAfter
  <2> QED
    BY <1>1, <2>2, <2>3, <2>4, StandbyPrepared, CommandEndsFresh
<1> QED
  BY <1>5, <1>8, <1>9

\* A method that goes on and has its caller wait.
OnStep ==
    /\ CallIs(call.op, Tail(call.todo), NoRead, call.result) /\ caller' = caller
    /\ Types' /\ Base' /\ Resting' /\ Prepared'

\* The commands of prepare_modem.
ModemOn(F, len) ==
    OnStep /\ \E y \in Leads : ModemAt(y, F, len)' /\ Togo(call.todo', y) >= len

LEMMA ModemStep ==
    ASSUME IInv, Command, kind' = kind, NEW x, NEW F, NEW len \in Nat \ {0},
           ModemAt(x, F, len), Len(F) = len + 4,
           F[1] = Do("init_lora"), F[2] = Set("power", "Init"), F[3] = ColdDone,
           F[4] = Calibrate, call.op \in Preparing,
           x # "Done" \/ Togo(call.todo, x) > len
    PROVE ModemOn(F, len)
<1>1. Basics
  BY CommandBasics
<1>2. Moves(call.todo, x, F)
  BY ScriptMoves DEF ModemAt
<1>3. Togo(call.todo, x) \in Nat
  BY DEF ModemAt, Stands, Togo
<1>4. PICK k \in Int : k = Togo(call.todo, x) - len
  BY <1>3
<1>5. Stands(call.todo, x, F) /\ LeadFacts(x, k) /\ ColdFacts(k) /\ x \in Leads
  BY <1>4 DEF ModemAt, Stands
<1>6. Air' = Air /\ lora \in LoRa
  BY <1>1 DEF Basics, IInv, Types
<1>7. CASE x # "Done"
  <2>1. LeadStep(x, F, k)
    <3>1. call.op # "tx"
      BY DEF Preparing
    <3> QED
      BY <1>5, <1>7, <3>1, LeadCommand
  <2>2. ColdFacts(k)'
    BY <1>5, <1>6, <2>1 DEF LeadStep, ColdFacts
  <2>3. Togo(call.todo', LeadEnd(x)) - len = k /\ Togo(call.todo', LeadEnd(x)) >= len
    BY <1>3, <1>4, <1>5, <1>7, <2>1 DEF LeadStep, LeadFacts
  <2>4. LeadEnd(x) \in Leads /\ ModemAt(LeadEnd(x), F, len)'
    BY <2>1, <2>2, <2>3 DEF LeadStep, ModemAt, LeadEnd, Leads
  <2> QED
    BY <2>1, <2>3, <2>4 DEF LeadStep, ModemOn, OnStep
<1>8. CASE x = "Done"
  <2>1. Left = Len(call.todo) /\ Left \in Nat /\ Left = k + len /\ k \in 1 .. 4
    <3>1. Len(call.todo) \in 1 .. Len(F)
      BY <1>2, <1>8 DEF Moves
    <3>2. Togo(call.todo, x) = Len(call.todo)
      BY <1>8, <3>1 DEF Togo, LeadLen
    <3> QED
      BY <1>4, <1>8, <3>1, <3>2 DEF Left
  <2>2. Current = F[5 - k]
    <3>1. Head(call.todo) = F[Len(F) - Len(call.todo) + 1]
      BY <1>2, <1>8 DEF Moves
    <3>2. Len(F) - Len(call.todo) + 1 = 5 - k
      BY <2>1
    <3> QED
      BY <3>1, <3>2 DEF Current
  <2>3. /\ k = 4 => Current = Do("init_lora")
        /\ k = 3 => Current = Set("power", "Init")
        /\ k = 2 => Current = ColdDone
        /\ k = 1 => Current = Calibrate
    BY <2>2
  <2>4. Current \in {Do("init_lora"), Set("power", "Init"), ColdDone, Calibrate}
    <3>1. k = 1 \/ k = 2 \/ k = 3 \/ k = 4
      BY <2>1
    <3> QED
      BY <2>3, <3>1
  <2>5. Current.cmd # "set_sleep" /\ Current.cmd \notin Starting
    BY <2>4 DEF Do, Set, ColdDone, Calibrate, Cmd, Starting
  <2>6. /\ Tail(call.todo) # <<>> /\ Stands(Tail(call.todo), "Done", F)
        /\ Len(Tail(call.todo)) = Left - 1
    <3>1. Len(call.todo) > 1
      BY <2>1
    <3>2. Len(Tail(call.todo)) = Len(call.todo) - 1
      BY <1>2 DEF Moves
    <3>3. Tail(call.todo) # <<>> /\ Stands(Tail(call.todo), "Done", F)
      BY <1>2, <1>8, <3>1 DEF Moves
    <3> QED
      BY <2>1, <3>2, <3>3
  <2>7. /\ CallIs(call.op, Tail(call.todo), NoRead, call.result) /\ caller' = caller
        /\ Types' /\ Base' /\ Resting' /\ Settled' = Settled
    BY <1>1, <2>6, CommandOn
  <2>8. OnStep
    BY <2>7 DEF OnStep, Prepared, Settled
  <2>9. /\ ~Dormant /\ (Air => Idle) /\ lora.radio_mode = "Standby"
    BY <1>5, <1>8, <2>1 DEF LeadFacts
  <2>10. ~Dormant' /\ (Air => Idle')
    <3>1. ~Dormant'
      BY <1>1, <2>5 DEF Basics
    <3>2. Air => Idle'
      BY <1>1, <2>5, <2>9, IdleStays DEF Basics, Suited, IInv, Command
    <3> QED
      BY <3>1, <3>2
  <2>11. AwakeEffect(Current) /\ chip' = After(Current)
    BY <2>9, AfterAwake DEF KindOk, IInv, Types, Command
  <2>12. lora'.radio_mode = "Standby" /\ ColdFacts(k - 1)'
    <3>1. CASE k = 4
      <4>1. Current.cmd = "init_lora" /\ Current.upd = <<>>
        BY <2>3, <3>1 DEF Do, Cmd
      <4>2. LoRaIs(lora.radio_mode, lora.sync_word, lora.cold_start, lora.calibrate_image)
        BY <4>1, PlainCommand
      <4>3. chip'.init
        BY <2>11, <4>1 DEF AwakeEffect, ChipIs
      <4> QED
        BY <2>9, <3>1, <4>2, <4>3 DEF LoRaIs, ColdFacts
    <3>2. CASE k = 3
      <4>1. Current.cmd = "power" /\ Current.arg = "Init" /\ Current.upd = <<>>
        BY <2>3, <3>2 DEF Set, Cmd
      <4>2. LoRaIs(lora.radio_mode, lora.sync_word, lora.cold_start, lora.calibrate_image)
        BY <4>1, PlainCommand
      <4>3. chip'.init = chip.init
        BY <2>11, <4>1 DEF AwakeEffect, ChipIs, Settings, Purposes
      <4> QED
        BY <1>5, <1>6, <2>9, <3>2, <4>2, <4>3 DEF LoRaIs, ColdFacts
    <3>3. CASE k = 2
      <4>1. Assign([cold_start |-> FALSE, calibrate_image |-> TRUE])
        <5>1. Current.upd = [cold_start |-> FALSE, calibrate_image |-> TRUE]
          BY <2>3, <3>3 DEF ColdDone, Cmd
        <5>2. Assign(Current.upd)
          BY DEF Command
        <5> QED
          BY <5>1, <5>2
      <4>2. LoRaIs(lora.radio_mode, lora.sync_word, FALSE, TRUE)
        BY <1>6, <4>1, AssignIs
      <4> QED
        BY <2>9, <3>3, <4>2 DEF LoRaIs, ColdFacts
    <3>4. CASE k = 1
      <4>1. Assign([calibrate_image |-> FALSE])
        <5>1. Current.upd = [calibrate_image |-> FALSE]
          BY <2>3, <3>4 DEF Calibrate, Cmd
        <5>2. Assign(Current.upd)
          BY DEF Command
        <5> QED
          BY <5>1, <5>2
      <4>2. LoRaIs(lora.radio_mode, lora.sync_word, lora.cold_start, FALSE)
        BY <1>6, <4>1, AssignIs
      <4> QED
        BY <1>5, <1>6, <2>9, <3>4, <4>2 DEF LoRaIs, ColdFacts
    <3> QED
      BY <2>1, <3>1, <3>2, <3>3, <3>4
  <2>13. call.todo' = Tail(call.todo) /\ Togo(call.todo', "Done") = Left - 1
    <3>1. call.todo' = Tail(call.todo)
      BY <2>7 DEF CallIs
    <3> QED
      BY <2>1, <2>6, <3>1 DEF Togo, LeadLen
  <2>14. Togo(call.todo', "Done") - len = k - 1 /\ Togo(call.todo', "Done") >= len
    BY <2>1, <2>13
  <2>15. LeadFacts("Done", k - 1)'
    BY <1>6, <2>10, <2>12 DEF LeadFacts
  <2>16. ModemAt("Done", F, len)'
    BY <2>6, <2>12, <2>13, <2>14, <2>15 DEF ModemAt
  <2> QED
    BY <2>8, <2>14, <2>16 DEF ModemOn, Leads
<1> QED
  BY <1>7, <1>8

\* The commands that follow prepare_modem, but the last.
Plain(c) ==
    /\ c.upd = <<>> \/ \E m \in Modes : c.upd = [radio_mode |-> m]
    /\ c.cmd \notin Starting /\ c.cmd # "set_sleep"

TailOn(F, len) ==
    /\ OnStep /\ ModemAt("Done", F, len)'
    /\ Togo(call.todo', "Done") = Left - 1

LEMMA TailCommand ==
    ASSUME IInv, Command, kind' = kind, NEW F, NEW len \in Nat \ {0},
           ModemAt("Done", F, len), Len(F) = len + 4, Left <= len, Left > 1,
           call.op \in Preparing, Plain(Current)
    PROVE TailOn(F, len)
<1>1. Basics
  BY CommandBasics
<1>2. Moves(call.todo, "Done", F)
  BY ScriptMoves DEF ModemAt
<1>3. Left \in Nat /\ Togo(call.todo, "Done") = Left
  BY <1>2 DEF Moves, Left, Togo, LeadLen
<1>4. Stands(call.todo, "Done", F) /\ LeadFacts("Done", Left - len) /\ ColdFacts(Left - len)
  BY <1>3 DEF ModemAt
<1>5. /\ Tail(call.todo) # <<>> /\ Stands(Tail(call.todo), "Done", F)
      /\ Len(Tail(call.todo)) = Left - 1
  BY <1>2 DEF Moves, Left
<1>6. /\ CallIs(call.op, Tail(call.todo), NoRead, call.result) /\ caller' = caller
      /\ Types' /\ Base' /\ Resting' /\ Settled' = Settled
  BY <1>1, <1>5, CommandOn
<1>7. OnStep
  BY <1>6 DEF OnStep, Prepared, Settled
<1>8. ~Dormant' /\ (Air => Idle') /\ Air' = Air
  <2>1. ~Dormant'
    BY <1>1 DEF Basics, Plain
  <2>2. Air => Idle
    BY <1>4 DEF LeadFacts
  <2>3. Air => Idle'
    BY <1>1, <2>2, IdleStays DEF Basics, Suited, IInv, Command, Plain
  <2> QED
    BY <1>1, <2>1, <2>3 DEF Basics
<1>9. lora'.cold_start = lora.cold_start /\ lora'.calibrate_image = lora.calibrate_image
  BY PlainCommand DEF Plain, LoRaIs
<1>10. Air => ~lora.cold_start /\ ~lora.calibrate_image
  BY <1>3, <1>4 DEF ColdFacts
<1>11. call.todo' = Tail(call.todo) /\ Togo(call.todo', "Done") = Left - 1
  <2>1. call.todo' = Tail(call.todo)
    BY <1>6 DEF CallIs
  <2> QED
    BY <1>3, <1>5, <2>1 DEF Togo, LeadLen
<1>12. PICK k \in Int : k = Left - 1 - len
  BY <1>3
<1>13. LeadFacts("Done", k)' /\ ColdFacts(k)'
  <2>1. k < 0
    BY <1>3, <1>12
  <2>2. LeadFacts("Done", k)'
    BY <1>8, <2>1 DEF LeadFacts
  <2>3. ColdFacts(k)'
    BY <1>8, <1>9, <1>10, <2>1 DEF ColdFacts
  <2> QED
    BY <2>2, <2>3
<1>14. ModemAt("Done", F, len)'
  BY <1>5, <1>11, <1>12, <1>13 DEF ModemAt
<1> QED
  BY <1>7, <1>11, <1>14 DEF TailOn

\* A setting is written to a chip that is awake.
LEMMA SettingWritten ==
    ASSUME Types, ~Dormant, NEW s \in Settings, NEW p \in Purposes, NEW c,
           c.cmd = s, c.arg = p, chip' = After(c)
    PROVE /\ chip'.cfg.for = p /\ s \in chip'.cfg.set
          /\ chip.cfg.for = p => chip.cfg.set \subseteq chip'.cfg.set
<1>1. AwakeEffect(c)
  BY AfterAwake DEF Types, KindOk
<1>2. chip'.cfg = Written(s, p)
  BY <1>1 DEF AwakeEffect, ChipIs
<1> QED
  BY <1>2 DEF Written

\* The settings and interrupts of the operation are complete.
LEMMA EnabledAtEnd ==
    ASSUME Types, ~Dormant, NEW c, c = Do("set_irq_params"), chip' = After(c), kind' = kind
    PROVE /\ chip'.mask = Enabled(lora.radio_mode) /\ chip'.cfg = chip.cfg
          /\ kind = "Sx127x" => chip'.irq["TxDone"] = "Clear"
<1>1. c.cmd = "set_irq_params"
  BY DEF Do, Cmd
<1>2. AwakeEffect(c)
  BY AfterAwake DEF Types, KindOk
<1>3. /\ chip'.mask = Enabled(lora.radio_mode) /\ chip'.cfg = chip.cfg
      /\ kind = "Sx127x" => chip'.irq = NoFlags
  BY <1>1, <1>2 DEF AwakeEffect, ChipIs
<1> QED
  BY <1>3 DEF NoFlags, Flags

LEMMA TxPrepareCommand ==
    ASSUME IInv, Command, kind' = kind, call.op = "prepare_for_tx"
    PROVE IInv'
<1>1. Basics /\ Types /\ call.result = "Pending" /\ call.op \in Preparing
  BY CommandBasics DEF IInv, Guardless, Methods, Preparing
<1>2. PICK x \in Leads : TxAt(x)
  BY DEF IInv, Guardless
<1>3. PICK F : F = TxScript
  OBVIOUS
<1>4. /\ Len(F) = 7 + 4 /\ F[1] = Do("init_lora") /\ F[2] = Set("power", "Init")
      /\ F[3] = ColdDone /\ F[4] = Calibrate
      /\ 7 \in Nat \ {0} /\ ModemAt(x, F, 7)
  BY <1>2, <1>3 DEF TxScript, TxAt
<1>5. ModemCommand(x, F, 7)
  BY <1>4, ModemFits
<1>6. ASSUME OnStep, NEW y \in Leads, TxAt(y)'
      PROVE IInv'
  <2>1. Guardless' /\ Guarded'
    BY <1>1, <1>6
       DEF OnStep, CallIs, Guardless, Guarded, Building, Methods, Operating, Receiving
  <2> QED
    BY <1>6, <2>1 DEF OnStep, IInv
<1>7. CASE x # "Done" \/ Togo(call.todo, x) > 7
  <2>1. ModemOn(F, 7)
    BY <1>1, <1>4, <1>7, ModemStep
  <2>2. PICK y \in Leads : ModemAt(y, F, 7)' /\ Togo(call.todo', y) >= 7
    BY <2>1 DEF ModemOn
  <2>3. PICK n \in Int : n = Togo(call.todo', y)
    BY <2>2 DEF ModemAt, Stands, Togo
  <2>4. TxFacts(n)'
    BY <2>2, <2>3 DEF TxFacts
  <2>5. TxAt(y)'
    BY <1>3, <2>2, <2>3, <2>4 DEF TxAt
  <2> QED
    BY <1>6, <2>1, <2>5 DEF ModemOn
<1>8. CASE x = "Done" /\ Togo(call.todo, x) <= 7
  <2>1. /\ Left \in 1 .. 7 /\ Current = TxScript[12 - Left] /\ ~Dormant /\ (Air => Idle)
        /\ Air => ~lora.cold_start /\ ~lora.calibrate_image
        /\ chip' = After(Current)
    BY <1>3, <1>5, <1>8 DEF ModemCommand, Command
  <2>2. PICK n \in 1 .. 7 : n = Left
    BY <2>1
  <2>3. TxFacts(n)
    <3>1. Togo(call.todo, x) = n
      BY <1>8, <2>1, <2>2 DEF Togo, LeadLen, Left
    <3> QED
      BY <1>2, <3>1 DEF TxAt
  <2>4. /\ n = 7 => Current = Set("modulation", "Transmit")
        /\ n = 6 => Current = Set("power", "Transmit")
        /\ n = 5 => Current = Do("ensure_ready")
        /\ n = 4 => Current = Set("packet", "Transmit")
        /\ n = 3 => Current = Set("channel", "Transmit")
        /\ n = 2 => Current = Cmd("payload", "Transmit", [radio_mode |-> "Transmit"])
        /\ n = 1 => Current = Do("set_irq_params")
    BY <2>1, <2>2 DEF TxScript
  <2>5. CASE n > 1
    <3>1. /\ n = 7 => Current.cmd = "modulation" /\ Current.arg = "Transmit"
          /\ n = 6 => Current.cmd = "power" /\ Current.arg = "Transmit"
          /\ n = 4 => Current.cmd = "packet" /\ Current.arg = "Transmit"
          /\ n = 3 => Current.cmd = "channel" /\ Current.arg = "Transmit"
          /\ n = 2 => Current.cmd = "payload" /\ Current.arg = "Transmit"
      BY <2>4 DEF Set, Cmd
    <3>2. /\ n = 2 => Current.upd = [radio_mode |-> "Transmit"]
          /\ n \in 3 .. 7 => Current.upd = <<>>
          /\ n = 5 => Current.cmd = "ensure_ready"
      BY <2>4 DEF Set, Do, Cmd
    <3>3. Plain(Current)
      BY <2>5, <3>1, <3>2 DEF Plain, Starting, Modes
    <3>4. TailOn(F, 7)
      <4>1. Left <= 7 /\ Left > 1 /\ ModemAt("Done", F, 7)
        BY <1>4, <1>8, <2>2, <2>5
      <4> QED
        BY <1>1, <1>4, <3>3, <4>1, TailCommand
    <3>5. /\ n # 5 => chip'.cfg.for = "Transmit" /\ Current.cmd \in chip'.cfg.set
          /\ chip.cfg.for = "Transmit" => chip'.cfg.for = "Transmit"
                                          /\ chip.cfg.set \subseteq chip'.cfg.set
      <4>1. CASE n # 5
        <5>1. Current.cmd \in Settings /\ Current.arg = "Transmit" /\ "Transmit" \in Purposes
          BY <2>5, <3>1, <4>1 DEF Settings, Purposes
        <5> QED
          BY <1>1, <2>1, <5>1, SettingWritten
      <4>2. CASE n = 5
        <5>1. chip' = chip
          BY <1>1, <2>1, <3>2, <4>2, AfterAwake DEF AwakeEffect, Types, KindOk
        <5> QED
          BY <4>2, <5>1
      <4> QED
        BY <4>1, <4>2
    <3>6. n = 2 => lora'.radio_mode = "Transmit"
      BY <3>2, PlainCommand DEF LoRaIs, Modes
    <3>7. TxFacts(n - 1)'
      <4>1. n - 1 <= 1 => lora'.radio_mode = "Transmit"
        BY <2>5, <3>6
      <4>2. Air' = Air
        BY <1>1 DEF Basics
      <4>3. Air => /\ n <= 7 => Uses("Transmit", {"modulation"})'
                   /\ n <= 6 => "power" \in chip'.cfg.set
                   /\ n <= 4 => "packet" \in chip'.cfg.set
                   /\ n <= 3 => "channel" \in chip'.cfg.set
                   /\ n <= 2 => "payload" \in chip'.cfg.set
        <5> SUFFICES ASSUME Air
                     PROVE /\ Uses("Transmit", {"modulation"})'
                           /\ n <= 6 => "power" \in chip'.cfg.set
                           /\ n <= 4 => "packet" \in chip'.cfg.set
                           /\ n <= 3 => "channel" \in chip'.cfg.set
                           /\ n <= 2 => "payload" \in chip'.cfg.set
          OBVIOUS
        <5>1. CASE n = 7
          BY <3>1, <3>5, <5>1 DEF Uses
        <5>2. CASE n = 6
          BY <2>3, <3>1, <3>5, <5>2 DEF Uses, TxFacts
        <5>3. CASE n = 5
          BY <2>3, <3>1, <3>5, <5>3 DEF Uses, TxFacts
        <5>4. CASE n = 4
          BY <2>3, <3>1, <3>5, <5>4 DEF Uses, TxFacts
        <5>5. CASE n = 3
          BY <2>3, <3>1, <3>5, <5>5 DEF Uses, TxFacts
        <5>6. CASE n = 2
          BY <2>3, <3>1, <3>5, <5>6 DEF Uses, TxFacts
        <5> QED
          BY <2>5, <5>1, <5>2, <5>3, <5>4, <5>5, <5>6
      <4> QED
        BY <4>1, <4>2, <4>3 DEF TxFacts
    <3>8. TxAt("Done")'
      BY <1>3, <2>2, <3>4, <3>7 DEF TailOn, TxAt
    <3> QED
      BY <1>6, <3>4, <3>8 DEF TailOn, Leads
  <2>6. CASE n = 1
    <3>1. Current = Do("set_irq_params") /\ Tail(call.todo) = <<>>
      BY <1>5, <1>8, <2>2, <2>4, <2>6 DEF ModemCommand, Moves, Left
    <3>2. /\ chip'.mask = Enabled(lora.radio_mode) /\ chip'.cfg = chip.cfg
          /\ kind = "Sx127x" => chip'.irq["TxDone"] = "Clear"
      BY <1>1, <2>1, <3>1, EnabledAtEnd
    <3>3. LoRaIs(lora.radio_mode, lora.sync_word, lora.cold_start, lora.calibrate_image)
      BY <3>1, PlainCommand DEF Do, Cmd
    <3>4. Air => Idle'
      BY <1>1, <2>1, <3>1, IdleStays DEF Basics, Suited, Do, Cmd, Starting
    <3>5. lora.radio_mode = "Transmit" /\ (Air => Uses("Transmit", Settings))
      BY <2>3, <2>6 DEF TxFacts, Uses, Settings
    <3>6. Air' = Air /\ Enabled("Transmit")' = Enabled("Transmit")
          /\ (Uses("Transmit", Settings) => Uses("Transmit", Settings)')
      BY <1>1, <3>2 DEF Basics, Enabled, Uses
    <3>7. Prepared'
      BY <2>1, <3>2, <3>3, <3>4, <3>5, <3>6 DEF Prepared, LoRaIs
    <3>8. caller'.standing = "Fresh"
      BY <1>1, <3>1, CommandEnds DEF StandingAfter
    <3> QED
      BY <1>1, <3>1, <3>7, <3>8, CommandEndsFresh
  <2> QED
    BY <2>5, <2>6
<1>9. Togo(call.todo, x) \in Nat
  BY <1>4 DEF ModemAt, Stands, Togo
<1> QED
  BY <1>7, <1>8, <1>9

LEMMA RxPrepareCommand ==
    ASSUME IInv, Command, kind' = kind, call.op = "prepare_for_rx"
    PROVE IInv'
<1>1. Basics /\ Types /\ call.result = "Pending" /\ call.op \in Preparing
  BY CommandBasics DEF IInv, Guardless, Methods, Preparing
<1>2. PICK x \in Leads, m \in RxModes : RxAt(x, m)
  BY DEF IInv, Guardless
<1>3. PICK F : F = RxScript(m)
  OBVIOUS
<1>4. /\ Len(F) = 4 + 4 /\ F[1] = Do("init_lora") /\ F[2] = Set("power", "Init")
      /\ F[3] = ColdDone /\ F[4] = Calibrate
      /\ 4 \in Nat \ {0} /\ ModemAt(x, F, 4)
  BY <1>2, <1>3 DEF RxScript, RxAt
<1>5. ModemCommand(x, F, 4)
  BY <1>4, ModemFits
<1>6. ASSUME OnStep, NEW y \in Leads, RxAt(y, m)'
      PROVE IInv'
  <2>1. Guardless' /\ Guarded'
    BY <1>1, <1>6
       DEF OnStep, CallIs, Guardless, Guarded, Building, Methods, Operating, Receiving
  <2> QED
    BY <1>6, <2>1 DEF OnStep, IInv
<1>7. CASE x # "Done" \/ Togo(call.todo, x) > 4
  <2>1. ModemOn(F, 4)
    BY <1>1, <1>4, <1>7, ModemStep
  <2>2. PICK y \in Leads : ModemAt(y, F, 4)' /\ Togo(call.todo', y) >= 4
    BY <2>1 DEF ModemOn
  <2>3. PICK n \in Int : n = Togo(call.todo', y)
    BY <2>2 DEF ModemAt, Stands, Togo
  <2>4. RxFacts(n)'
    BY <2>2, <2>3 DEF RxFacts
  <2>5. RxAt(y, m)'
    BY <1>3, <2>2, <2>3, <2>4 DEF RxAt
  <2> QED
    BY <1>6, <2>1, <2>5 DEF ModemOn
<1>8. CASE x = "Done" /\ Togo(call.todo, x) <= 4
  <2>1. /\ Left \in 1 .. 4 /\ Current = F[9 - Left] /\ ~Dormant /\ (Air => Idle)
        /\ Air => ~lora.cold_start /\ ~lora.calibrate_image
        /\ chip' = After(Current)
    BY <1>5, <1>8 DEF ModemCommand, Command
  <2>2. PICK n \in 1 .. 4 : n = Left
    BY <2>1
  <2>3. RxFacts(n)
    <3>1. Togo(call.todo, x) = n
      BY <1>8, <2>1, <2>2 DEF Togo, LeadLen, Left
    <3> QED
      BY <1>2, <3>1 DEF RxAt
  <2>4. /\ n = 4 => Current = Set("modulation", "Receive")
        /\ n = 3 => Current = Set("packet", "Receive")
        /\ n = 2 => Current = Cmd("channel", "Receive", [radio_mode |-> m])
        /\ n = 1 => Current = Do("set_irq_params")
    BY <1>3, <2>1, <2>2 DEF RxScript
  <2>5. CASE n > 1
    <3>0. m \in Modes
      BY LoRaPhyAssumption DEF Modes
    <3>1. /\ n = 4 => Current.cmd = "modulation" /\ Current.arg = "Receive"
          /\ n = 3 => Current.cmd = "packet" /\ Current.arg = "Receive"
          /\ n = 2 => Current.cmd = "channel" /\ Current.arg = "Receive"
      BY <2>4 DEF Set, Cmd
    <3>2. /\ n = 2 => Current.upd = [radio_mode |-> m]
          /\ n \in {3, 4} => Current.upd = <<>>
      BY <2>4 DEF Set, Do, Cmd
    <3>3. Plain(Current)
      BY <2>5, <3>0, <3>1, <3>2 DEF Plain, Starting, Modes
    <3>4. TailOn(F, 4)
      <4>1. Left <= 4 /\ Left > 1 /\ ModemAt("Done", F, 4)
        BY <1>4, <1>8, <2>2, <2>5
      <4> QED
        BY <1>1, <1>4, <3>3, <4>1, TailCommand
    <3>5. /\ chip'.cfg.for = "Receive" /\ Current.cmd \in chip'.cfg.set
          /\ chip.cfg.for = "Receive" => chip'.cfg.for = "Receive"
                                          /\ chip.cfg.set \subseteq chip'.cfg.set
      <4>1. Current.cmd \in Settings /\ Current.arg = "Receive" /\ "Receive" \in Purposes
        BY <2>5, <3>1 DEF Settings, Purposes
      <4> QED
        BY <1>1, <2>1, <4>1, SettingWritten
    <3>6. n = 2 => lora'.radio_mode \in RxModes
      BY <3>2, <3>0, PlainCommand DEF LoRaIs, Modes
    <3>7. RxFacts(n - 1)'
      <4>1. n - 1 <= 1 => lora'.radio_mode \in RxModes
        BY <2>5, <3>6
      <4>2. Air' = Air
        BY <1>1 DEF Basics
      <4>3. Air => /\ Uses("Receive", {"modulation"})'
                   /\ n <= 3 => "packet" \in chip'.cfg.set
                   /\ n <= 2 => "channel" \in chip'.cfg.set
        <5> SUFFICES ASSUME Air
                     PROVE /\ Uses("Receive", {"modulation"})'
                           /\ n <= 3 => "packet" \in chip'.cfg.set
                           /\ n <= 2 => "channel" \in chip'.cfg.set
          OBVIOUS
        <5>1. CASE n = 4
          BY <3>1, <3>5, <5>1 DEF Uses
        <5>2. CASE n = 3
          BY <2>3, <3>1, <3>5, <5>2 DEF Uses, RxFacts
        <5>3. CASE n = 2
          BY <2>3, <3>1, <3>5, <5>3 DEF Uses, RxFacts
        <5> QED
          BY <2>5, <5>1, <5>2, <5>3
      <4> QED
        BY <4>1, <4>2, <4>3 DEF RxFacts
    <3>8. RxAt("Done", m)'
      BY <1>3, <2>2, <3>4, <3>7 DEF TailOn, RxAt
    <3> QED
      BY <1>6, <3>4, <3>8 DEF TailOn, Leads
  <2>6. CASE n = 1
    <3>1. Current = Do("set_irq_params") /\ Tail(call.todo) = <<>>
      BY <1>5, <1>8, <2>2, <2>4, <2>6 DEF ModemCommand, Moves, Left
    <3>2. chip'.mask = Enabled(lora.radio_mode) /\ chip'.cfg = chip.cfg
      BY <1>1, <2>1, <3>1, EnabledAtEnd
    <3>3. LoRaIs(lora.radio_mode, lora.sync_word, lora.cold_start, lora.calibrate_image)
      BY <3>1, PlainCommand DEF Do, Cmd
    <3>4. lora.radio_mode \in {"Single", "Continuous"} /\ (Air => Uses("Receive", {"modulation", "packet", "channel"}))
      <4>1. lora.radio_mode \in {"Single", "Continuous"}
        <5>1. lora.radio_mode \in RxModes
          BY <2>3, <2>6 DEF RxFacts
        <5>2. RxModes \subseteq {"Single", "Continuous"}
          BY LoRaPhyAssumption
        <5> QED
          BY <5>1, <5>2
      <4>2. Air => Uses("Receive", {"modulation", "packet", "channel"})
        BY <2>3, <2>6 DEF RxFacts, Uses
      <4> QED
        BY <4>1, <4>2
    <3>5. /\ Air' = Air /\ \A r : Enabled(r)' = Enabled(r)
          /\ Uses("Receive", {"modulation", "packet", "channel"}) => Uses("Receive", {"modulation", "packet", "channel"})'
      BY <1>1, <3>2 DEF Basics, Enabled, Uses
    <3>6. Prepared'
      BY <2>1, <3>2, <3>3, <3>4, <3>5 DEF Prepared, LoRaIs
    <3>7. caller'.standing = "Fresh"
      BY <1>1, <3>1, CommandEnds DEF StandingAfter
    <3> QED
      BY <1>1, <3>1, <3>6, <3>7, CommandEndsFresh
  <2> QED
    BY <2>5, <2>6
<1>9. Togo(call.todo, x) \in Nat
  BY <1>4 DEF ModemAt, Stands, Togo
<1> QED
  BY <1>7, <1>8, <1>9

LEMMA CadPrepareCommand ==
    ASSUME IInv, Command, kind' = kind, call.op = "prepare_for_cad"
    PROVE IInv'
<1>1. Basics /\ Types /\ call.result = "Pending" /\ call.op \in Preparing
  BY CommandBasics DEF IInv, Guardless, Methods, Preparing
<1>2. PICK x \in Leads : CadAt(x)
  BY DEF IInv, Guardless
<1>3. PICK F : F = CadScript
  OBVIOUS
<1>4. /\ Len(F) = 3 + 4 /\ F[1] = Do("init_lora") /\ F[2] = Set("power", "Init")
      /\ F[3] = ColdDone /\ F[4] = Calibrate
      /\ 3 \in Nat \ {0} /\ ModemAt(x, F, 3)
  BY <1>2, <1>3 DEF CadScript, CadAt
<1>5. ModemCommand(x, F, 3)
  BY <1>4, ModemFits
<1>6. ASSUME OnStep, NEW y \in Leads, CadAt(y)'
      PROVE IInv'
  <2>1. Guardless' /\ Guarded'
    BY <1>1, <1>6
       DEF OnStep, CallIs, Guardless, Guarded, Building, Methods, Operating, Receiving
  <2> QED
    BY <1>6, <2>1 DEF OnStep, IInv
<1>7. CASE x # "Done" \/ Togo(call.todo, x) > 3
  <2>1. ModemOn(F, 3)
    BY <1>1, <1>4, <1>7, ModemStep
  <2>2. PICK y \in Leads : ModemAt(y, F, 3)' /\ Togo(call.todo', y) >= 3
    BY <2>1 DEF ModemOn
  <2>3. PICK n \in Int : n = Togo(call.todo', y)
    BY <2>2 DEF ModemAt, Stands, Togo
  <2>4. CadFacts(n)'
    BY <2>2, <2>3 DEF CadFacts
  <2>5. CadAt(y)'
    BY <1>3, <2>2, <2>3, <2>4 DEF CadAt
  <2> QED
    BY <1>6, <2>1, <2>5 DEF ModemOn
<1>8. CASE x = "Done" /\ Togo(call.todo, x) <= 3
  <2>1. /\ Left \in 1 .. 3 /\ Current = F[8 - Left] /\ ~Dormant /\ (Air => Idle)
        /\ Air => ~lora.cold_start /\ ~lora.calibrate_image
        /\ chip' = After(Current)
    BY <1>5, <1>8 DEF ModemCommand, Command
  <2>2. PICK n \in 1 .. 3 : n = Left
    BY <2>1
  <2>3. CadFacts(n)
    <3>1. Togo(call.todo, x) = n
      BY <1>8, <2>1, <2>2 DEF Togo, LeadLen, Left
    <3> QED
      BY <1>2, <3>1 DEF CadAt
  <2>4. /\ n = 3 => Current = Set("modulation", "Cad")
        /\ n = 2 => Current = Cmd("channel", "Cad", [radio_mode |-> "Cad"])
        /\ n = 1 => Current = Do("set_irq_params")
    BY <1>3, <2>1, <2>2 DEF CadScript
  <2>5. CASE n > 1
    <3>1. /\ n = 3 => Current.cmd = "modulation" /\ Current.arg = "Cad"
          /\ n = 2 => Current.cmd = "channel" /\ Current.arg = "Cad"
      BY <2>4 DEF Set, Cmd
    <3>2. /\ n = 2 => Current.upd = [radio_mode |-> "Cad"]
          /\ n \in {3} => Current.upd = <<>>
      BY <2>4 DEF Set, Do, Cmd
    <3>3. Plain(Current)
      BY <2>5, <3>1, <3>2 DEF Plain, Starting, Modes
    <3>4. TailOn(F, 3)
      <4>1. Left <= 3 /\ Left > 1 /\ ModemAt("Done", F, 3)
        BY <1>4, <1>8, <2>2, <2>5
      <4> QED
        BY <1>1, <1>4, <3>3, <4>1, TailCommand
    <3>5. /\ chip'.cfg.for = "Cad" /\ Current.cmd \in chip'.cfg.set
          /\ chip.cfg.for = "Cad" => chip'.cfg.for = "Cad"
                                          /\ chip.cfg.set \subseteq chip'.cfg.set
      <4>1. Current.cmd \in Settings /\ Current.arg = "Cad" /\ "Cad" \in Purposes
        BY <2>5, <3>1 DEF Settings, Purposes
      <4> QED
        BY <1>1, <2>1, <4>1, SettingWritten
    <3>6. n = 2 => lora'.radio_mode = "Cad"
      BY <3>2, PlainCommand DEF LoRaIs, Modes
    <3>7. CadFacts(n - 1)'
      <4>1. n - 1 <= 1 => lora'.radio_mode = "Cad"
        BY <2>5, <3>6
      <4>2. Air' = Air
        BY <1>1 DEF Basics
      <4>3. Air => /\ Uses("Cad", {"modulation"})'
                   /\ n <= 2 => "channel" \in chip'.cfg.set
        <5> SUFFICES ASSUME Air
                     PROVE /\ Uses("Cad", {"modulation"})'
                           /\ n <= 2 => "channel" \in chip'.cfg.set
          OBVIOUS
        <5>1. CASE n = 3
          BY <3>1, <3>5, <5>1 DEF Uses
        <5>2. CASE n = 2
          BY <2>3, <3>1, <3>5, <5>2 DEF Uses, CadFacts
        <5> QED
          BY <2>5, <5>1, <5>2
      <4> QED
        BY <4>1, <4>2, <4>3 DEF CadFacts
    <3>8. CadAt("Done")'
      BY <1>3, <2>2, <3>4, <3>7 DEF TailOn, CadAt
    <3> QED
      BY <1>6, <3>4, <3>8 DEF TailOn, Leads
  <2>6. CASE n = 1
    <3>1. Current = Do("set_irq_params") /\ Tail(call.todo) = <<>>
      BY <1>5, <1>8, <2>2, <2>4, <2>6 DEF ModemCommand, Moves, Left
    <3>2. chip'.mask = Enabled(lora.radio_mode) /\ chip'.cfg = chip.cfg
      BY <1>1, <2>1, <3>1, EnabledAtEnd
    <3>3. LoRaIs(lora.radio_mode, lora.sync_word, lora.cold_start, lora.calibrate_image)
      BY <3>1, PlainCommand DEF Do, Cmd
    <3>4. lora.radio_mode = "Cad" /\ (Air => Uses("Cad", {"modulation", "channel"}))
      BY <2>3, <2>6 DEF CadFacts, Uses
    <3>5. /\ Air' = Air /\ \A r : Enabled(r)' = Enabled(r)
          /\ Uses("Cad", {"modulation", "channel"}) => Uses("Cad", {"modulation", "channel"})'
      BY <1>1, <3>2 DEF Basics, Enabled, Uses
    <3>6. Prepared'
      BY <2>1, <3>2, <3>3, <3>4, <3>5 DEF Prepared, LoRaIs
    <3>7. caller'.standing = "Fresh"
      BY <1>1, <3>1, CommandEnds DEF StandingAfter
    <3> QED
      BY <1>1, <3>1, <3>6, <3>7, CommandEndsFresh
  <2> QED
    BY <2>5, <2>6
<1>9. Togo(call.todo, x) \in Nat
  BY <1>4 DEF ModemAt, Stands, Togo
<1> QED
  BY <1>7, <1>8, <1>9

LEMMA ListenPrepareCommand ==
    ASSUME IInv, Command, kind' = kind, call.op = "listen"
    PROVE IInv'
<1>1. Basics /\ Types /\ call.result = "Pending" /\ call.op \in Preparing
  BY CommandBasics DEF IInv, Guardless, Methods, Preparing
<1>2. PICK x \in Leads : ListenAt(x)
  BY DEF IInv, Guardless
<1>3. PICK F : F = ListenScript
  OBVIOUS
<1>4. /\ Len(F) = 3 + 4 /\ F[1] = Do("init_lora") /\ F[2] = Set("power", "Init")
      /\ F[3] = ColdDone /\ F[4] = Calibrate
      /\ 3 \in Nat \ {0} /\ ModemAt(x, F, 3)
  BY <1>2, <1>3 DEF ListenScript, ListenAt
<1>5. ModemCommand(x, F, 3)
  BY <1>4, ModemFits
<1>6. ASSUME OnStep, NEW y \in Leads, ListenAt(y)'
      PROVE IInv'
  <2>1. Guardless' /\ Guarded'
    BY <1>1, <1>6
       DEF OnStep, CallIs, Guardless, Guarded, Building, Methods, Operating, Receiving
  <2> QED
    BY <1>6, <2>1 DEF OnStep, IInv
<1>7. CASE x # "Done" \/ Togo(call.todo, x) > 3
  <2>1. ModemOn(F, 3)
    BY <1>1, <1>4, <1>7, ModemStep
  <2>2. PICK y \in Leads : ModemAt(y, F, 3)' /\ Togo(call.todo', y) >= 3
    BY <2>1 DEF ModemOn
  <2>3. PICK n \in Int : n = Togo(call.todo', y)
    BY <2>2 DEF ModemAt, Stands, Togo
  <2>4. ListenFacts(n)'
    BY <2>2, <2>3 DEF ListenFacts
  <2>5. ListenAt(y)'
    BY <1>3, <2>2, <2>3, <2>4 DEF ListenAt
  <2> QED
    BY <1>6, <2>1, <2>5 DEF ModemOn
<1>8. CASE x = "Done" /\ Togo(call.todo, x) <= 3
  <2>1. /\ Left \in 1 .. 3 /\ Current = F[8 - Left] /\ ~Dormant /\ (Air => Idle)
        /\ Air => ~lora.cold_start /\ ~lora.calibrate_image
        /\ chip' = After(Current)
    BY <1>5, <1>8 DEF ModemCommand, Command
  <2>2. PICK n \in 1 .. 3 : n = Left
    BY <2>1
  <2>3. ListenFacts(n)
    <3>1. Togo(call.todo, x) = n
      BY <1>8, <2>1, <2>2 DEF Togo, LeadLen, Left
    <3> QED
      BY <1>2, <3>1 DEF ListenAt
  <2>4. /\ n = 3 => Current = Set("channel", "Listen")
        /\ n = 2 => Current = Cmd("modulation", "Listen", [radio_mode |-> "Listen"])
        /\ n = 1 => Current = Cmd("do_rx", "Continuous", <<>>)
    BY <1>3, <2>1, <2>2 DEF ListenScript
  <2>5. CASE n > 1
    <3>1. /\ n = 3 => Current.cmd = "channel" /\ Current.arg = "Listen"
          /\ n = 2 => Current.cmd = "modulation" /\ Current.arg = "Listen"
      BY <2>4 DEF Set, Cmd
    <3>2. /\ n = 2 => Current.upd = [radio_mode |-> "Listen"]
          /\ n \in {3} => Current.upd = <<>>
      BY <2>4 DEF Set, Do, Cmd
    <3>3. Plain(Current)
      BY <2>5, <3>1, <3>2 DEF Plain, Starting, Modes
    <3>4. TailOn(F, 3)
      <4>1. Left <= 3 /\ Left > 1 /\ ModemAt("Done", F, 3)
        BY <1>4, <1>8, <2>2, <2>5
      <4> QED
        BY <1>1, <1>4, <3>3, <4>1, TailCommand
    <3>5. /\ chip'.cfg.for = "Listen" /\ Current.cmd \in chip'.cfg.set
          /\ chip.cfg.for = "Listen" => chip'.cfg.for = "Listen"
                                          /\ chip.cfg.set \subseteq chip'.cfg.set
      <4>1. Current.cmd \in Settings /\ Current.arg = "Listen" /\ "Listen" \in Purposes
        BY <2>5, <3>1 DEF Settings, Purposes
      <4> QED
        BY <1>1, <2>1, <4>1, SettingWritten
    <3>6. n = 2 => lora'.radio_mode = "Listen"
      BY <3>2, PlainCommand DEF LoRaIs, Modes
    <3>7. ListenFacts(n - 1)'
      <4>1. n - 1 <= 1 => lora'.radio_mode = "Listen"
        BY <2>5, <3>6
      <4>2. Air' = Air
        BY <1>1 DEF Basics
      <4>3. Air => /\ Uses("Listen", {"channel"})'
                   /\ n <= 2 => "modulation" \in chip'.cfg.set
        <5> SUFFICES ASSUME Air
                     PROVE /\ Uses("Listen", {"channel"})'
                           /\ n <= 2 => "modulation" \in chip'.cfg.set
          OBVIOUS
        <5>1. CASE n = 3
          BY <3>1, <3>5, <5>1 DEF Uses
        <5>2. CASE n = 2
          BY <2>3, <3>1, <3>5, <5>2 DEF Uses, ListenFacts
        <5> QED
          BY <2>5, <5>1, <5>2
      <4> QED
        BY <4>1, <4>2, <4>3 DEF ListenFacts
    <3>8. ListenAt("Done")'
      BY <1>3, <2>2, <3>4, <3>7 DEF TailOn, ListenAt
    <3> QED
      BY <1>6, <3>4, <3>8 DEF TailOn, Leads
  <2>6. CASE n = 1
    <3>1. Current = Cmd("do_rx", "Continuous", <<>>) /\ Tail(call.todo) = <<>>
      BY <1>5, <1>8, <2>2, <2>4, <2>6 DEF ModemCommand, Moves, Left
    <3>2. LoRaIs(lora.radio_mode, lora.sync_word, lora.cold_start, lora.calibrate_image)
      BY <3>1, PlainCommand DEF Cmd
    <3>3. lora.radio_mode = "Listen" /\ Air' = Air
      BY <1>1, <2>3, <2>6 DEF ListenFacts, Basics
    <3>4. Prepared'
      BY <2>1, <3>2, <3>3 DEF Prepared, LoRaIs
    <3>5. caller'.standing = "Fresh"
      BY <1>1, <3>1, CommandEnds DEF StandingAfter
    <3> QED
      BY <1>1, <3>1, <3>4, <3>5, CommandEndsFresh
  <2> QED
    BY <2>5, <2>6
<1>9. Togo(call.todo, x) \in Nat
  BY <1>4 DEF ModemAt, Stands, Togo
<1> QED
  BY <1>7, <1>8, <1>9

LEMMA WavePrepareCommand ==
    ASSUME IInv, Command, kind' = kind, call.op = "continuous_wave"
    PROVE IInv'
<1>1. Basics /\ Types /\ call.result = "Pending" /\ call.op \in Preparing
  BY CommandBasics DEF IInv, Guardless, Methods, Preparing
<1>2. PICK x \in Leads : WaveAt(x)
  BY DEF IInv, Guardless
<1>3. PICK F : F = WaveScript
  OBVIOUS
<1>4. /\ Len(F) = 7 + 4 /\ F[1] = Do("init_lora") /\ F[2] = Set("power", "Init")
      /\ F[3] = ColdDone /\ F[4] = Calibrate
      /\ 7 \in Nat \ {0} /\ ModemAt(x, F, 7)
  BY <1>2, <1>3 DEF WaveScript, WaveAt
<1>5. ModemCommand(x, F, 7)
  BY <1>4, ModemFits
<1>6. ASSUME OnStep, NEW y \in Leads, WaveAt(y)'
      PROVE IInv'
  <2>1. Guardless' /\ Guarded'
    BY <1>1, <1>6
       DEF OnStep, CallIs, Guardless, Guarded, Building, Methods, Operating, Receiving
  <2> QED
    BY <1>6, <2>1 DEF OnStep, IInv
<1>7. CASE x # "Done" \/ Togo(call.todo, x) > 7
  <2>1. ModemOn(F, 7)
    BY <1>1, <1>4, <1>7, ModemStep
  <2>2. PICK y \in Leads : ModemAt(y, F, 7)' /\ Togo(call.todo', y) >= 7
    BY <2>1 DEF ModemOn
  <2>3. PICK n \in Int : n = Togo(call.todo', y)
    BY <2>2 DEF ModemAt, Stands, Togo
  <2>4. WaveFacts(n)'
    BY <2>2, <2>3 DEF WaveFacts
  <2>5. WaveAt(y)'
    BY <1>3, <2>2, <2>3, <2>4 DEF WaveAt
  <2> QED
    BY <1>6, <2>1, <2>5 DEF ModemOn
<1>8. CASE x = "Done" /\ Togo(call.todo, x) <= 7
  <2>1. /\ Left \in 1 .. 7 /\ Current = F[12 - Left] /\ ~Dormant /\ (Air => Idle)
        /\ Air => ~lora.cold_start /\ ~lora.calibrate_image
        /\ chip' = After(Current)
    BY <1>5, <1>8 DEF ModemCommand, Command
  <2>2. PICK n \in 1 .. 7 : n = Left
    BY <2>1
  <2>3. WaveFacts(n)
    <3>1. Togo(call.todo, x) = n
      BY <1>8, <2>1, <2>2 DEF Togo, LeadLen, Left
    <3> QED
      BY <1>2, <3>1 DEF WaveAt
  <2>4. /\ n = 7 => Current = Set("packet", "Wave")
        /\ n = 6 => Current = Set("modulation", "Wave")
        /\ n = 5 => Current = Set("power", "Wave")
        /\ n = 4 => Current = Do("ensure_ready")
        /\ n = 3 => Current = Cmd("channel", "Wave", [radio_mode |-> "Transmit"])
        /\ n = 2 => Current = Do("set_irq_params")
        /\ n = 1 => Current = Do("set_tx_continuous_wave_mode")
    BY <1>3, <2>1, <2>2 DEF WaveScript
  <2>5. CASE n > 1
    <3>1. /\ n = 7 => Current.cmd = "packet" /\ Current.arg = "Wave"
          /\ n = 6 => Current.cmd = "modulation" /\ Current.arg = "Wave"
          /\ n = 5 => Current.cmd = "power" /\ Current.arg = "Wave"
          /\ n = 3 => Current.cmd = "channel" /\ Current.arg = "Wave"
      BY <2>4 DEF Set, Cmd
    <3>2. /\ n = 3 => Current.upd = [radio_mode |-> "Transmit"]
          /\ n \in {2, 4, 5, 6, 7} => Current.upd = <<>>
          /\ n = 4 => Current.cmd = "ensure_ready"
          /\ n = 2 => Current.cmd = "set_irq_params"
      BY <2>4 DEF Set, Do, Cmd
    <3>3. Plain(Current)
      BY <2>5, <3>1, <3>2 DEF Plain, Starting, Modes
    <3>4. TailOn(F, 7)
      <4>1. Left <= 7 /\ Left > 1 /\ ModemAt("Done", F, 7)
        BY <1>4, <1>8, <2>2, <2>5
      <4> QED
        BY <1>1, <1>4, <3>3, <4>1, TailCommand
    <3>5. /\ n \notin {4, 2} => chip'.cfg.for = "Wave" /\ Current.cmd \in chip'.cfg.set
          /\ chip.cfg.for = "Wave" => chip'.cfg.for = "Wave"
                                          /\ chip.cfg.set \subseteq chip'.cfg.set
      <4>1. CASE n \notin {4, 2}
        <5>1. Current.cmd \in Settings /\ Current.arg = "Wave" /\ "Wave" \in Purposes
          BY <2>5, <3>1, <4>1 DEF Settings, Purposes
        <5> QED
          BY <1>1, <2>1, <5>1, SettingWritten
      <4>2. CASE n \in {4, 2}
        <5>1. AwakeEffect(Current)
          BY <1>1, <2>1, AfterAwake DEF Types, KindOk
        <5>2. chip'.cfg = chip.cfg
          BY <2>1, <3>2, <4>2, <5>1 DEF AwakeEffect, ChipIs
        <5> QED
          BY <4>2, <5>2
      <4> QED
        BY <4>1, <4>2
    <3>6. n <= 3 => lora'.radio_mode = "Transmit"
      <4>1. n = 3 => lora'.radio_mode = "Transmit"
        BY <3>2, PlainCommand DEF LoRaIs, Modes
      <4>2. n \in 2 .. 2 => lora'.radio_mode = "Transmit"
        BY <2>3, <3>2, PlainCommand DEF LoRaIs, WaveFacts
      <4> QED
        BY <2>5, <4>1, <4>2
    <3>7. WaveFacts(n - 1)'
      <4>1. n - 1 <= 2 => lora'.radio_mode = "Transmit"
        BY <2>5, <3>6
      <4>2. Air' = Air
        BY <1>1 DEF Basics
      <4>3. Air => /\ Uses("Wave", {"packet"})'
                   /\ n <= 6 => "modulation" \in chip'.cfg.set
                   /\ n <= 5 => "power" \in chip'.cfg.set
                   /\ n <= 3 => "channel" \in chip'.cfg.set
        <5> SUFFICES ASSUME Air
                     PROVE /\ Uses("Wave", {"packet"})'
                           /\ n <= 6 => "modulation" \in chip'.cfg.set
                           /\ n <= 5 => "power" \in chip'.cfg.set
                           /\ n <= 3 => "channel" \in chip'.cfg.set
          OBVIOUS
        <5>1. CASE n = 7
          BY <3>1, <3>5, <5>1 DEF Uses
        <5>2. CASE n = 6
          BY <2>3, <3>1, <3>5, <5>2 DEF Uses, WaveFacts
        <5>3. CASE n = 5
          BY <2>3, <3>1, <3>5, <5>3 DEF Uses, WaveFacts
        <5>4. CASE n = 4
          BY <2>3, <3>1, <3>5, <5>4 DEF Uses, WaveFacts
        <5>5. CASE n = 3
          BY <2>3, <3>1, <3>5, <5>5 DEF Uses, WaveFacts
        <5>6. CASE n = 2
          BY <2>3, <3>1, <3>5, <5>6 DEF Uses, WaveFacts
        <5> QED
          BY <2>5, <5>1, <5>2, <5>3, <5>4, <5>5, <5>6
      <4> QED
        BY <4>1, <4>2, <4>3 DEF WaveFacts
    <3>8. WaveAt("Done")'
      BY <1>3, <2>2, <3>4, <3>7 DEF TailOn, WaveAt
    <3> QED
      BY <1>6, <3>4, <3>8 DEF TailOn, Leads
  <2>6. CASE n = 1
    <3>1. Tail(call.todo) = <<>>
      BY <1>5, <1>8, <2>2, <2>6 DEF ModemCommand, Moves, Left
    <3>2. caller'.standing = "Wave"
      BY <1>1, <3>1, CommandEnds DEF StandingAfter
    <3>3. Prepared'
      BY <3>2 DEF Prepared, Settled
    <3> QED
      BY <1>1, <3>1, <3>2, <3>3, CommandEndsFresh
  <2> QED
    BY <2>5, <2>6
<1>9. Togo(call.todo, x) \in Nat
  BY <1>4 DEF ModemAt, Stands, Togo
<1> QED
  BY <1>7, <1>8, <1>9

-----------------------------------------------------------------------------
(* The commands of the operations.                                         *)

\* A caller that knows what it does finds a chip that listens.
LEMMA KnownAwake ==
    ASSUME IInv, Settled, lora.radio_mode # "Sleep"
    PROVE ~Dormant
BY DEF IInv, Base, Settled

LEMMA OperatingSettled ==
    ASSUME IInv, call.op \in Operating
    PROVE Settled
BY DEF IInv, Guarded, Operating, Receiving, Settled, Building, Preparing

\* Recover, which tx, cad and the receive methods end with after an error.
RecoverOn ==
    /\ Left = 2 => OnStep /\ MuteStep /\ Stands(call.todo', "Done", RecoverScript) /\ Left' = 1
    /\ Left = 1 => /\ CallIs("none", <<>>, NoRead, "Returned")
                   /\ lora'.radio_mode = "Standby"
                   /\ Types' /\ Base' /\ Prepared' /\ Guardless' /\ Guarded'
                   /\ caller' = caller

LEMMA RecoverCommand ==
    ASSUME IInv, Command, kind' = kind, Stands(call.todo, "Done", RecoverScript),
           call.op \in Operating, call.result = "Failing"
    PROVE Left \in 1 .. 2 /\ RecoverOn
<1>1. Basics /\ Settled
  BY CommandBasics, OperatingSettled
<1>2. RecoverTakes
  BY ScriptTakes
<1>3. Left \in 1 .. 2
  BY <1>2 DEF RecoverTakes, Takes
<1>4. CASE Left = 2
  <2>1. /\ Tail(call.todo) # <<>> /\ Stands(Tail(call.todo), "Done", RecoverScript)
        /\ Len(Tail(call.todo)) = 1 /\ Current = Do("ensure_ready")
    BY <1>2, <1>4 DEF RecoverTakes, Takes
  <2>2. /\ CallIs(call.op, Tail(call.todo), NoRead, call.result) /\ caller' = caller
        /\ Types' /\ Base' /\ Resting' /\ Settled' = Settled
    BY <1>1, <2>1, CommandOn
  <2>3. MuteStep
    BY <2>1, MuteCommand DEF Mute
  <2>4. /\ chip'.cfg = chip.cfg /\ chip'.mask = chip.mask
        /\ Idle => Idle'
        /\ lora'.cold_start = lora.cold_start /\ lora'.calibrate_image = lora.calibrate_image
        /\ lora'.radio_mode = lora.radio_mode
    BY <2>3 DEF MuteStep, ModeIs, ChipIs, LoRaIs, Idle
  <2>5. Left' = 1 /\ Stands(call.todo', "Done", RecoverScript)
    BY <2>1, <2>2 DEF CallIs, Left
  <2>6. TxBegun' \/ ~TxBegun
    BY <1>4, <2>2, <2>5 DEF TxBegun, CallIs
  <2>7. Prepared'
    BY <1>1, <2>2, <2>4, <2>6, PreparedStays
  <2> QED
    BY <1>4, <2>2, <2>3, <2>5, <2>7 DEF RecoverOn, OnStep
<1>5. CASE Left = 1
  <2>1. Tail(call.todo) = <<>> /\ Current = StandbyCmd
    BY <1>2, <1>5 DEF RecoverTakes, Takes
  <2>2. CallIs("none", <<>>, NoRead, "Returned") /\ Types' /\ Guardless' /\ Guarded'
        /\ caller' = caller
    BY <1>1, <2>1, CommandEnds
  <2>3. lora'.radio_mode = "Standby"
    BY <2>1, StandbyCommand DEF LoRaIs
  <2>4. Base' /\ Prepared'
    BY <1>1, <2>2, <2>3, SameStanding, StandbyPrepared
  <2> QED
    BY <1>5, <2>2, <2>3, <2>4 DEF RecoverOn
<1> QED
  BY <1>3, <1>4, <1>5 DEF RecoverOn

LEMMA TxCommand ==
    ASSUME IInv, Command, kind' = kind, call.op = "tx"
    PROVE IInv'
<1>1. Basics /\ Settled /\ call.op \in Operating
  BY CommandBasics, OperatingSettled DEF Operating
<1>2. TxOp /\ caller.standing \notin {"Unknown", "Wave", "Started"}
  BY <1>1 DEF IInv, Guarded
<1>3. ASSUME OnStep, TxOp'
      PROVE IInv'
  <2>1. Guardless' /\ Guarded'
    BY <1>2, <1>3
       DEF OnStep, CallIs, Guardless, Guarded, Building, Methods, Operating, Receiving
  <2> QED
    BY <1>3, <2>1 DEF OnStep, IInv
<1>4. CASE /\ call.result = "Failing" /\ Stands(call.todo, "Done", RecoverScript)
           /\ Air => chip.mode \in {"Tx", "Sleep", "Standby"}
  <2>1. Left \in 1 .. 2 /\ RecoverOn
    BY <1>1, <1>4, RecoverCommand
  <2>2. CASE Left = 2
    <3>1. TxOp'
      <4>1. Air' = Air /\ chip'.mode \in {chip.mode, "Standby"}
        BY <1>1, <2>1, <2>2 DEF Basics, RecoverOn, MuteStep, ModeIs, ChipIs
      <4>2. call'.result = "Failing" /\ Stands(call.todo', "Done", RecoverScript)
        BY <1>4, <2>1, <2>2 DEF RecoverOn, OnStep, CallIs
      <4> QED
        BY <1>4, <4>1, <4>2 DEF TxOp
    <3> QED
      BY <1>3, <2>1, <2>2, <3>1 DEF RecoverOn
  <2>3. CASE Left = 1
    BY <1>2, <2>1, <2>3 DEF RecoverOn, IInv, Resting, CallIs
  <2> QED
    BY <2>1, <2>2, <2>3
<1>5. CASE /\ call.result = "Pending" /\ Stands(call.todo, "Done", TxOpScript)
           /\ lora.radio_mode = "Transmit"
  <2>1. TxOpTakes
    BY <1>5, ScriptTakes
  <2>2. Left = 4
    <3>1. Left \in 1 .. 4
      BY <2>1 DEF TxOpTakes, Takes
    <3>2. Left # 4 => Current.cmd \in {"await_irq", "get_irq_state", "clear_irq_flags"}
      BY <2>1, <3>1 DEF TxOpTakes, Do, Cmd
    <3> QED
      BY <3>2 DEF Command
  <2>3. /\ Current.cmd = "do_tx" /\ Current.upd = <<>>
        /\ Tail(call.todo) # <<>> /\ Stands(Tail(call.todo), "Done", TxOpScript)
        /\ Len(Tail(call.todo)) = 3
    BY <2>1, <2>2 DEF TxOpTakes, Takes, Do, Cmd
  <2>4. /\ CallIs(call.op, Tail(call.todo), NoRead, call.result) /\ caller' = caller
        /\ Types' /\ Base' /\ Resting' /\ Settled' = Settled
    BY <1>1, <2>3, CommandOn
  <2>5. LoRaIs(lora.radio_mode, lora.sync_word, lora.cold_start, lora.calibrate_image)
    BY <2>3, PlainCommand
  <2>6. ~Dormant
    BY <1>1, <1>5, KnownAwake
  <2>7. chip'.mode = "Tx" /\ chip'.cfg = chip.cfg /\ chip'.mask = chip.mask
    BY <2>3, <2>6, AfterAwake DEF AwakeEffect, ChipIs, KindOk, IInv, Types, Command
  <2>8. Left' = 3 /\ TxBegun'
    BY SMTT(30), <2>3, <2>4 DEF Left, CallIs, TxBegun
  <2>9. Prepared'
    BY <1>1, <2>4, <2>5, <2>7, <2>8, PreparedStays DEF LoRaIs
  <2>10. TxOp'
    BY <1>5, <2>3, <2>4, <2>5, <2>7, <2>8 DEF TxOp, CallIs, LoRaIs
  <2> QED
    BY <1>3, <2>4, <2>9, <2>10 DEF OnStep
<1> QED
  BY <1>2, <1>4, <1>5 DEF TxOp

LEMMA CadCommand ==
    ASSUME IInv, Command, kind' = kind, call.op = "cad"
    PROVE IInv'
<1>1. Basics /\ Settled /\ call.op \in Operating
  BY CommandBasics, OperatingSettled DEF Operating
<1>2. CadOp /\ caller.standing \notin {"Unknown", "Wave", "Started"}
  BY <1>1 DEF IInv, Guarded
<1>3. ASSUME OnStep, CadOp'
      PROVE IInv'
  <2>1. Guardless' /\ Guarded'
    BY <1>2, <1>3
       DEF OnStep, CallIs, Guardless, Guarded, Building, Methods, Operating, Receiving
  <2> QED
    BY <1>3, <2>1 DEF OnStep, IInv
<1>4. CASE call.result = "Failing" /\ Stands(call.todo, "Done", RecoverScript)
  <2>1. Left \in 1 .. 2 /\ RecoverOn
    BY <1>1, <1>4, RecoverCommand
  <2>2. CASE Left = 2
    <3>1. CadOp'
      BY <1>4, <2>1, <2>2 DEF RecoverOn, OnStep, CallIs, CadOp
    <3> QED
      BY <1>3, <2>1, <2>2, <3>1 DEF RecoverOn
  <2>3. CASE Left = 1
    BY <1>2, <2>1, <2>3 DEF RecoverOn, IInv, Resting, CallIs
  <2> QED
    BY <2>1, <2>2, <2>3
<1>5. CASE call.result = "Pending" /\ Left = 1 /\ Stands(call.todo, "Done", RecoverScript)
  <2>1. RecoverTakes
    BY <1>5, ScriptTakes
  <2>2. Tail(call.todo) = <<>> /\ Current = StandbyCmd
    BY <1>5, <2>1 DEF RecoverTakes, Takes
  <2>3. lora'.radio_mode = "Standby"
    BY <2>2, StandbyCommand DEF LoRaIs
  <2>4. caller'.standing = "Fresh"
    BY <1>1, <1>5, <2>2, CommandEnds DEF StandingAfter
  <2> QED
    BY <1>1, <2>2, <2>3, <2>4, StandbyPrepared, CommandEndsFresh
<1>6. CASE /\ call.result = "Pending" /\ Stands(call.todo, "Done", CadOpScript)
           /\ lora.radio_mode = "Cad"
  <2>1. CadOpTakes
    BY <1>6, ScriptTakes
  <2>2. Left = 4
    <3>1. Left \in 1 .. 4
      BY <2>1 DEF CadOpTakes, Takes
    <3>2. Left # 4 => Current.cmd \in {"await_irq", "get_irq_state", "clear_irq_flags"}
      BY <2>1, <3>1 DEF CadOpTakes, Do, Cmd
    <3> QED
      BY <3>2 DEF Command
  <2>3. /\ Current.cmd = "do_cad" /\ Current.upd = <<>>
        /\ Tail(call.todo) # <<>> /\ Stands(Tail(call.todo), "Done", CadOpScript)
        /\ Len(Tail(call.todo)) = 3
    BY <2>1, <2>2 DEF CadOpTakes, Takes, Do, Cmd
  <2>4. /\ CallIs(call.op, Tail(call.todo), NoRead, call.result) /\ caller' = caller
        /\ Types' /\ Base' /\ Resting' /\ Settled' = Settled
    BY <1>1, <2>3, CommandOn
  <2>5. LoRaIs(lora.radio_mode, lora.sync_word, lora.cold_start, lora.calibrate_image)
    BY <2>3, PlainCommand
  <2>6. ~Dormant
    BY <1>1, <1>6, KnownAwake
  <2>7. chip'.mode = "Cad" /\ chip'.cfg = chip.cfg /\ chip'.mask = chip.mask
    BY <2>3, <2>6, AfterAwake DEF AwakeEffect, ChipIs, KindOk, IInv, Types, Command
  <2>8. Left' = 3
    BY <2>3, <2>4 DEF Left, CallIs
  <2>9. Prepared'
    BY <1>1, <1>6, <2>4, <2>5, <2>7, PreparedStays DEF LoRaIs
  <2>10. CadOp'
    BY <1>6, <2>3, <2>4, <2>5, <2>7, <2>8 DEF CadOp, CallIs, LoRaIs
  <2> QED
    BY <1>3, <2>4, <2>9, <2>10 DEF OnStep
<1> QED
  BY <1>2, <1>4, <1>5, <1>6 DEF CadOp

\* A receive is started.
LEMMA RxStarts ==
    ASSUME IInv, Command, kind' = kind, Settled, lora.radio_mode \in RxModes,
           Current = Cmd("do_rx", lora.radio_mode, <<>>)
    PROVE /\ LoRaIs(lora.radio_mode, lora.sync_word, lora.cold_start, lora.calibrate_image)
          /\ chip'.mask = chip.mask /\ chip'.cfg = chip.cfg
          /\ RxGoing'
          /\ kind = "Sx127x" => NoOld(chip'.irq)
<1>1. lora.radio_mode \in {"Single", "Continuous"}
  BY LoRaPhyAssumption
<1>2. Current.cmd = "do_rx" /\ Current.arg = lora.radio_mode /\ Current.upd = <<>>
  BY DEF Cmd
<1>3. ~Dormant
  BY <1>1, KnownAwake
<1>4. LoRaIs(lora.radio_mode, lora.sync_word, lora.cold_start, lora.calibrate_image)
  BY <1>2, PlainCommand
<1>5. AwakeEffect(Current) /\ chip' = After(Current)
  BY <1>3, AfterAwake DEF KindOk, IInv, Types, Command
<1>6. /\ chip'.mode = IF lora.radio_mode = "Single" THEN "RxSingle" ELSE "RxContinuous"
      /\ chip'.mask = chip.mask /\ chip'.cfg = chip.cfg
      /\ chip'.irq = FlagsAtStart("do_rx")
  BY <1>2, <1>5 DEF AwakeEffect, ChipIs
<1>7. RxGoing'
  BY <1>1, <1>4, <1>6 DEF RxGoing, LoRaIs
<1>8. kind = "Sx127x" => NoOld(chip'.irq)
  BY <1>6 DEF FlagsAtStart, NoOld, NoFlags
<1> QED
  BY <1>4, <1>6, <1>7, <1>8

\* The end of start_rx and rx_switch_channel.
LEMMA StartedIInv ==
    ASSUME IInv, Command, kind' = kind, call.op \in {"start_rx", "rx_switch_channel"},
           lora.radio_mode \in RxModes, Tail(call.todo) = <<>>,
           Current = Cmd("do_rx", lora.radio_mode, <<>>)
    PROVE IInv'
<1>1. Basics /\ Settled /\ call.result = "Pending"
  BY CommandBasics, OperatingSettled
     DEF Operating, Receiving, IInv, Guardless, Methods
<1>2. /\ LoRaIs(lora.radio_mode, lora.sync_word, lora.cold_start, lora.calibrate_image)
      /\ chip'.mask = chip.mask /\ chip'.cfg = chip.cfg
      /\ RxGoing'
      /\ kind = "Sx127x" => NoOld(chip'.irq)
  BY <1>1, RxStarts
<1>3. /\ CallIs("none", <<>>, NoRead, "Returned") /\ Types' /\ Guardless' /\ Guarded'
      /\ caller'.standing = "Started"
  BY <1>1, CommandEnds DEF StandingAfter
<1>4. Base'
  BY <1>1, <1>2, BasicsBase
<1>5. lora.radio_mode \in {"Single", "Continuous"}
  BY LoRaPhyAssumption
<1>6. Prepared'
  BY <1>1, <1>2, <1>5, PreparedStays DEF LoRaIs
<1>7. Resting'
  BY <1>2, <1>3, <1>5 DEF Resting, CallIs, LoRaIs
<1> QED
  BY <1>3, <1>4, <1>6, <1>7 DEF IInv

LEMMA StartRxCommand ==
    ASSUME IInv, Command, kind' = kind, call.op = "start_rx"
    PROVE IInv'
<1>1. lora.radio_mode \in RxModes /\ Stands(call.todo, "Done", StartScript(lora.radio_mode))
  BY DEF IInv, Guarded, Operating, Receiving
<1>2. StartTakes(lora.radio_mode)
  BY <1>1, ScriptTakes
<1>3. Left = 1 /\ Tail(call.todo) = <<>> /\ Current = Cmd("do_rx", lora.radio_mode, <<>>)
  <2>1. Left \in 1 .. 1
    BY <1>2 DEF StartTakes, Takes
  <2>2. Left = 1
    BY <2>1
  <2> QED
    BY <1>2, <2>2 DEF StartTakes, Takes
<1> QED
  BY <1>1, <1>3, StartedIInv

LEMMA SwitchCommand ==
    ASSUME IInv, Command, kind' = kind, call.op = "rx_switch_channel"
    PROVE IInv'
<1>1. Basics /\ Settled /\ call.result = "Pending"
  BY CommandBasics, OperatingSettled
     DEF Operating, Receiving, IInv, Guardless, Methods
<1>2. /\ lora.radio_mode \in RxModes /\ caller.standing \notin {"Unknown", "Wave"}
      /\ Stands(call.todo, "Done", SwitchScript(lora.radio_mode))
      /\ Air /\ Left <= 2 => Idle
  BY DEF IInv, Guarded, Operating, Receiving
<1>3. SwitchTakes(lora.radio_mode)
  BY <1>2, ScriptTakes
<1>4. Left \in 1 .. 3
  BY <1>3 DEF SwitchTakes, Takes
<1>5. lora.radio_mode \in {"Single", "Continuous"}
  BY <1>2, LoRaPhyAssumption
<1>6. ~Dormant
  BY <1>1, <1>5, KnownAwake
<1>7. CASE Left = 1
  BY <1>2, <1>3, <1>7, StartedIInv DEF SwitchTakes, Takes
<1>8. CASE Left > 1
  <2>1. /\ Tail(call.todo) # <<>>
        /\ Stands(Tail(call.todo), "Done", SwitchScript(lora.radio_mode))
        /\ Len(Tail(call.todo)) = Left - 1
    BY <1>3, <1>8 DEF SwitchTakes, Takes
  <2>2. /\ CallIs(call.op, Tail(call.todo), NoRead, call.result) /\ caller' = caller
        /\ Types' /\ Base' /\ Resting' /\ Settled' = Settled
    BY <1>1, <2>1, CommandOn
  <2>3. Current.upd = <<>>
    BY <1>3, <1>4, <1>8 DEF SwitchTakes, Do, Set, Cmd
  <2>4. LoRaIs(lora.radio_mode, lora.sync_word, lora.cold_start, lora.calibrate_image)
    BY <2>3, PlainCommand
  <2>5. Prepared' /\ (Air => Idle')
    <3>1. CASE Left = 3
      <4>1. Current.cmd = "set_standby"
        BY <1>3, <3>1 DEF SwitchTakes, Do, Cmd
      <4>2. ModeIs(chip', "Standby")
        BY <4>1, StandbyAfter DEF IInv, Command
      <4>3. Prepared'
        BY <1>1, <1>5, <2>2, <2>4, <4>2, PreparedStays DEF LoRaIs, ModeIs, ChipIs
      <4> QED
        BY <4>2, <4>3 DEF ModeIs, ChipIs, Idle
    <3>2. CASE Left = 2
      <4>1. Current.cmd = "channel" /\ Current.arg = "Receive" /\ "channel" \in Settings
            /\ "Receive" \in Purposes /\ chip' = After(Current)
        BY <1>3, <3>2 DEF SwitchTakes, Set, Cmd, Settings, Purposes, Command
      <4>2. /\ chip'.cfg.for = "Receive"
            /\ chip.cfg.for = "Receive" => chip.cfg.set \subseteq chip'.cfg.set
        BY <1>6, <4>1, SettingWritten DEF IInv
      <4>3. chip'.mask = chip.mask
        BY <1>6, <4>1, AfterAwake DEF AwakeEffect, ChipIs, KindOk, IInv, Types
      <4>4. Uses("Receive", {"modulation", "packet", "channel"}) =>
               Uses("Receive", {"modulation", "packet", "channel"})'
        BY <4>2 DEF Uses
      <4>5. Air' = Air /\ \A r : Enabled(r)' = Enabled(r)
        BY <1>1 DEF Basics, Enabled
      <4>6. Prepared'
        BY <1>1, <1>5, <2>2, <2>4, <4>3, <4>4, <4>5 DEF IInv, Prepared, LoRaIs
      <4>7. Air => Idle'
        BY <1>1, <1>2, <3>2, <4>1, IdleStays DEF IInv, Basics, Suited, Starting
      <4> QED
        BY <4>6, <4>7
    <3> QED
      BY <1>4, <1>8, <3>1, <3>2
  <2>6. Guardless' /\ Guarded'
    <3>1. Stands(call.todo, "Done", SwitchScript(lora.radio_mode))'
      BY <2>1, <2>2, <2>4 DEF CallIs, LoRaIs
    <3>2. Air' = Air
      BY <1>1 DEF Basics
    <3> QED
      BY <1>1, <1>2, <2>2, <2>4, <2>5, <3>1, <3>2
         DEF CallIs, LoRaIs, Guardless, Guarded, Building, Methods, Operating, Receiving
  <2> QED
    BY <2>2, <2>5, <2>6 DEF IInv
<1> QED
  BY <1>4, <1>7, <1>8

\* After do_rx, rx waits as complete_rx does.
LEMMA RxWaits ==
    ASSUME NEW t, NEW m, Stands(t, "Done", RxOpScript(m)), Len(t) = 2
    PROVE Stands(t, "Done", WaitScript)
<1>1. Len(RxOpScript(m)) = 3 /\ Len(WaitScript) = 3 /\ LeadLen("Done") = 0
  BY DEF RxOpScript, WaitScript, LeadLen
<1>2. IsSequence(t) /\ \A i \in 1 .. 2 : t[i] = RxOpScript(m)[i + 3 - 2]
  BY <1>1 DEF Stands
<1>3. RxOpScript(m)[2] = WaitScript[2] /\ RxOpScript(m)[3] = WaitScript[3]
  BY DEF RxOpScript, WaitScript
<1>4. t[1] = WaitScript[2] /\ t[2] = WaitScript[3]
  BY <1>2, <1>3
<1>5. \A i \in 1 .. 2 : t[i] = WaitScript[i + 3 - 2]
  BY <1>4
<1> QED
  BY <1>1, <1>2, <1>5 DEF Stands, Leads

LEMMA RxCommand ==
    ASSUME IInv, Command, kind' = kind, call.op \in {"rx", "complete_rx"}
    PROVE IInv'
<1>1. Basics /\ Settled /\ call.op \in Operating
  BY CommandBasics, OperatingSettled DEF Operating, Receiving
<1>2. /\ RxOp /\ caller.standing \notin {"Unknown", "Wave"}
      /\ call.op = "complete_rx" => caller.standing = "Started"
  BY <1>1 DEF IInv, Guarded
<1>3. ASSUME OnStep, RxOp'
      PROVE IInv'
  <2>1. Guardless' /\ Guarded'
    BY <1>2, <1>3
       DEF OnStep, CallIs, Guardless, Guarded, Building, Methods, Operating, Receiving
  <2> QED
    BY <1>3, <2>1 DEF OnStep, IInv
<1>4. CASE /\ call.result = "Failing" /\ Stands(call.todo, "Done", RecoverScript)
           /\ lora.radio_mode \notin {"Transmit", "Cad"}
           /\ kind = "Sx127x" => NoOld(chip.irq)
  <2>1. Left \in 1 .. 2 /\ RecoverOn
    BY <1>1, <1>4, RecoverCommand
  <2>2. kind = "Sx127x" => NoOld(chip.irq)'
    BY <1>1, <1>4 DEF Basics
  <2>3. CASE Left = 2
    <3>1. RxOp'
      BY <1>4, <2>1, <2>2, <2>3 DEF RecoverOn, OnStep, CallIs, RxOp, MuteStep, LoRaIs
    <3> QED
      BY <1>3, <2>1, <2>3, <3>1 DEF RecoverOn
  <2>4. CASE Left = 1
    <3>1. "Standby" \notin RxModes
      BY LoRaPhyAssumption
    <3>2. Resting'
      BY <2>1, <2>4, <3>1 DEF RecoverOn, Resting, CallIs
    <3> QED
      BY <2>1, <2>4, <3>2 DEF RecoverOn, IInv
  <2> QED
    BY <2>1, <2>3, <2>4
<1>5. CASE /\ call.result = "Pending" /\ lora.radio_mode \in RxModes
           /\ call.op = "rx" /\ Left = 3
           /\ Stands(call.todo, "Done", RxOpScript(lora.radio_mode))
  <2>1. RxOpTakes(lora.radio_mode)
    BY <1>5, ScriptTakes
  <2>2. /\ Tail(call.todo) # <<>> /\ Len(Tail(call.todo)) = 2
        /\ Stands(Tail(call.todo), "Done", RxOpScript(lora.radio_mode))
        /\ Current = Cmd("do_rx", lora.radio_mode, <<>>)
    BY <1>5, <2>1 DEF RxOpTakes, Takes
  <2>3. Stands(Tail(call.todo), "Done", WaitScript)
    BY <2>2, RxWaits
  <2>4. /\ CallIs(call.op, Tail(call.todo), NoRead, call.result) /\ caller' = caller
        /\ Types' /\ Base' /\ Resting' /\ Settled' = Settled
    BY <1>1, <2>2, CommandOn
  <2>5. /\ LoRaIs(lora.radio_mode, lora.sync_word, lora.cold_start, lora.calibrate_image)
        /\ chip'.mask = chip.mask /\ chip'.cfg = chip.cfg
        /\ RxGoing'
        /\ kind = "Sx127x" => NoOld(chip'.irq)
    BY <1>1, <1>5, <2>2, RxStarts
  <2>6. lora.radio_mode # "Transmit"
    BY <1>5, LoRaPhyAssumption
  <2>7. Prepared'
    BY <1>1, <2>4, <2>5, <2>6, PreparedStays DEF LoRaIs
  <2>8. SeenFresh'
    <3>1. NoOld(NoRead.irq)
      BY DEF NoOld, NoRead, NoFlags
    <3> QED
      BY <2>4, <2>5, <3>1 DEF SeenFresh, CallIs
  <2>9. RxOp'
    BY <1>5, <2>3, <2>4, <2>5, <2>8 DEF RxOp, CallIs, LoRaIs
  <2> QED
    BY <1>3, <2>4, <2>7, <2>9 DEF OnStep
<1>6. CASE Stands(call.todo, "Done", WaitScript)
  <2>1. WaitTakes
    BY <1>6, ScriptTakes
  <2>2. Left \in 1 .. 3
    BY <2>1 DEF WaitTakes, Takes
  <2>3. Current.cmd \in {"await_irq", "get_irq_state", "clear_irq_flags"}
    BY <2>1, <2>2 DEF WaitTakes, Do, Cmd
  <2> QED
    BY <2>3 DEF Command
<1>7. CASE /\ call.result = "Pending" /\ lora.radio_mode \in RxModes
           /\ Stands(call.todo, "Done", ReadScript)
           /\ SeenFresh
           /\ kind = "Lr1110" /\ lora.radio_mode = "Continuous" => RxGoing
  <2>1. ReadTakes
    BY <1>7, ScriptTakes
  <2>2. Left \in 1 .. 3
    BY <2>1 DEF ReadTakes, Takes
  <2>3. Current.upd = <<>> /\ Current.cmd \in {"handle_implicit_header_mode", "get_rx_payload",
                                               "get_rx_packet_status"}
    BY <2>1, <2>2 DEF ReadTakes, Do, Cmd
  <2>4. lora.radio_mode \in {"Single", "Continuous"}
    BY <1>7, LoRaPhyAssumption
  <2>5. ~Dormant
    BY <1>1, <2>4, KnownAwake
  <2>6. chip' = chip
    BY <2>3, <2>5, AfterAwake DEF AwakeEffect, KindOk, IInv, Types, Command
  <2>7. LoRaIs(lora.radio_mode, lora.sync_word, lora.cold_start, lora.calibrate_image)
    BY <2>3, PlainCommand
  <2>8. /\ kind = "Sx127x" => NoOld(chip.irq)'
        /\ kind = "Lr1110" /\ lora.radio_mode = "Continuous" => RxGoing'
    BY <1>7, <2>6, <2>7 DEF SeenFresh, RxGoing, LoRaIs
  <2>9. Settled' => Settled
    BY <1>1
  <2>10. Prepared'
    BY <1>1, <2>4, <2>6, <2>7, <2>9, PreparedStays DEF LoRaIs
  <2>11. CASE Left > 1
    <3>1. Tail(call.todo) # <<>> /\ Stands(Tail(call.todo), "Done", ReadScript)
      BY <2>1, <2>11 DEF ReadTakes, Takes
    <3>2. /\ CallIs(call.op, Tail(call.todo), NoRead, call.result) /\ caller' = caller
          /\ Types' /\ Base' /\ Resting' /\ Settled' = Settled
      BY <1>1, <3>1, CommandOn
    <3>3. SeenFresh'
      <4>1. NoOld(NoRead.irq)
        BY DEF NoOld, NoRead, NoFlags
      <4> QED
        BY <2>8, <3>2, <4>1 DEF SeenFresh, CallIs
    <3>4. RxOp'
      BY <1>7, <2>7, <2>8, <3>1, <3>2, <3>3 DEF RxOp, CallIs, LoRaIs
    <3> QED
      BY <1>3, <2>10, <3>2, <3>4 DEF OnStep
  <2>12. CASE Left = 1
    <3>1. Tail(call.todo) = <<>>
      BY <2>1, <2>12 DEF ReadTakes, Takes
    <3>2. /\ CallIs("none", <<>>, NoRead, "Returned") /\ Types' /\ Guardless' /\ Guarded'
          /\ caller'.standing = IF lora.radio_mode = "Continuous" THEN "Started" ELSE "Fresh"
      BY <1>1, <1>7, <3>1, CommandEnds DEF StandingAfter
    <3>3. Base'
      BY <1>1, <2>8, BasicsBase
    <3>4. Resting'
      BY <2>4, <2>7, <2>8, <3>2 DEF Resting, CallIs, LoRaIs
    <3> QED
      BY <2>10, <3>2, <3>3, <3>4 DEF IInv
  <2> QED
    BY <2>2, <2>11, <2>12
<1> QED
  BY <1>2, <1>4, <1>5, <1>6, <1>7 DEF RxOp

LEMMA CommandKeepsIInv ==
    ASSUME IInv, Command, UNCHANGED kind
    PROVE IInv'
<1>1. call.op # "none" /\ call.op \in Methods
  BY UnderWay DEF Command, IInv, Types
<1> QED
  BY <1>1, BuildCommand, ShortCommand, SyncCommand, SleepCommand, TxPrepareCommand,
     RxPrepareCommand, CadPrepareCommand, ListenPrepareCommand, WavePrepareCommand,
     TxCommand, CadCommand, RxCommand, StartRxCommand, SwitchCommand
     DEF Methods, Building

-----------------------------------------------------------------------------
(* The interrupt of an operation: waiting for it, reading it, clearing it.  *)

Waiting == {"tx", "cad", "rx", "complete_rx"}

\* The commands that can lead to an error of process_irq_event.
IrqPath == IrqCmds \cup {"handle_implicit_header_mode"}

LEMMA Elsewhere ==
    ASSUME NEW x, NEW F, NEW n \in Nat, Len(F) = n, Stands(call.todo, x, F),
           \A i \in 1 .. n : F[i].cmd \notin IrqPath
    PROVE Current.cmd \notin IrqPath
<1>1. Moves(call.todo, x, F)
  BY ScriptMoves
<1>2. x \in Leads
  BY DEF Stands
<1>3. CASE x # "Done"
  <2>1. Current \in {Do("ensure_ready"), StandbyCmd}
    BY <1>1, <1>2, <1>3 DEF Moves, Current, Leads
  <2> QED
    BY <2>1 DEF Do, StandbyCmd, Cmd, IrqPath, IrqCmds
<1>4. CASE x = "Done"
  <2>1. Len(call.todo) \in 1 .. n /\ Current = F[n - Len(call.todo) + 1]
    BY <1>1, <1>4 DEF Moves, Current
  <2>2. n - Len(call.todo) + 1 \in 1 .. n
    BY <2>1
  <2> QED
    BY <2>1, <2>2
<1> QED
  BY <1>3, <1>4

\* Only these methods have them.
LEMMA IrqOps ==
    ASSUME IInv, Pending, Current.cmd \in IrqPath
    PROVE call.op \in Waiting
<1>1. call.op # "none" /\ call.op \in Methods /\ Guardless /\ Guarded
  BY UnderWay DEF IInv, Types
<1>2. call.op \notin Building
  <2>1. Len(InitScript) = 6 /\ \A i \in 1 .. 6 : InitScript[i].cmd \notin IrqPath
    BY DEF InitScript, Do, Set, StandbyCmd, ColdDone, Cmd, IrqPath, IrqCmds
  <2> QED
    BY <1>1, <2>1, Elsewhere DEF Guardless, Built
<1>3. call.op # "enter_standby" /\ call.op # "clear_irq_status"
  <2>1. Len(StandbyScript) = 1 /\ \A i \in 1 .. 1 : StandbyScript[i].cmd \notin IrqPath
    BY DEF StandbyScript, Do, Cmd, IrqPath, IrqCmds
  <2>2. Len(ClearScript) = 1 /\ \A i \in 1 .. 1 : ClearScript[i].cmd \notin IrqPath
    BY DEF ClearScript, Do, Cmd, IrqPath, IrqCmds
  <2> QED
    BY <1>1, <2>1, <2>2, Elsewhere DEF Guardless
<1>4. call.op # "set_lora_sync_word"
  <2> SUFFICES ASSUME call.op = "set_lora_sync_word" PROVE FALSE
    OBVIOUS
  <2>1. PICK x \in Leads, w \in caller.asked : Stands(call.todo, x, SyncScript(w))
    BY <1>1 DEF Guardless, SyncAt
  <2>2. Len(SyncScript(w)) = 1 /\ \A i \in 1 .. 1 : SyncScript(w)[i].cmd \notin IrqPath
    BY DEF SyncScript, Cmd, IrqPath, IrqCmds
  <2> QED
    BY <2>1, <2>2, Elsewhere
<1>5. call.op # "sleep"
  <2> SUFFICES ASSUME call.op = "sleep" PROVE FALSE
    OBVIOUS
  <2>1. PICK x \in Leads, warm \in BOOLEAN :
          Stands(call.todo, x, SleepScript(warm, lora.cold_start \/ ~warm))
    BY <1>1 DEF Guardless, SleepAt
  <2>2. PICK F : F = SleepScript(warm, lora.cold_start \/ ~warm)
    OBVIOUS
  <2>3. Len(F) = 1 /\ \A i \in 1 .. 1 : F[i].cmd \notin IrqPath
    BY <2>2 DEF SleepScript, Cmd, IrqPath, IrqCmds
  <2> QED
    BY <2>1, <2>2, <2>3, Elsewhere
<1>6. call.op # "prepare_for_tx"
  <2>1. Len(TxScript) = 11 /\ \A i \in 1 .. 11 : TxScript[i].cmd \notin IrqPath
    BY DEF TxScript, Do, Set, ColdDone, Calibrate, Cmd, IrqPath, IrqCmds
  <2> QED
    BY <1>1, <2>1, Elsewhere DEF Guardless, TxAt, ModemAt
<1>7. call.op # "prepare_for_rx"
  <2> SUFFICES ASSUME call.op = "prepare_for_rx" PROVE FALSE
    OBVIOUS
  <2>1. PICK x \in Leads, m \in RxModes : Stands(call.todo, x, RxScript(m))
    BY <1>1 DEF Guardless, RxAt, ModemAt
  <2>2. Len(RxScript(m)) = 8 /\ \A i \in 1 .. 8 : RxScript(m)[i].cmd \notin IrqPath
    BY DEF RxScript, Do, Set, ColdDone, Calibrate, Cmd, IrqPath, IrqCmds
  <2> QED
    BY <2>1, <2>2, Elsewhere
<1>8. call.op # "prepare_for_cad"
  <2>1. Len(CadScript) = 7 /\ \A i \in 1 .. 7 : CadScript[i].cmd \notin IrqPath
    BY DEF CadScript, Do, Set, ColdDone, Calibrate, Cmd, IrqPath, IrqCmds
  <2> QED
    BY <1>1, <2>1, Elsewhere DEF Guardless, CadAt, ModemAt
<1>9. call.op # "listen"
  <2>1. Len(ListenScript) = 7 /\ \A i \in 1 .. 7 : ListenScript[i].cmd \notin IrqPath
    BY DEF ListenScript, Do, Set, ColdDone, Calibrate, Cmd, IrqPath, IrqCmds
  <2> QED
    BY <1>1, <2>1, Elsewhere DEF Guardless, ListenAt, ModemAt
<1>10. call.op # "continuous_wave"
  <2>1. Len(WaveScript) = 11 /\ \A i \in 1 .. 11 : WaveScript[i].cmd \notin IrqPath
    BY DEF WaveScript, Do, Set, ColdDone, Calibrate, Cmd, IrqPath, IrqCmds
  <2> QED
    BY <1>1, <2>1, Elsewhere DEF Guardless, WaveAt, ModemAt
<1>11. call.op # "start_rx"
  <2> SUFFICES ASSUME call.op = "start_rx" PROVE FALSE
    OBVIOUS
  <2>1. PICK m : Stands(call.todo, "Done", StartScript(m))
    BY <1>1 DEF Guarded, Operating, Receiving
  <2>2. Len(StartScript(m)) = 1 /\ \A i \in 1 .. 1 : StartScript(m)[i].cmd \notin IrqPath
    BY DEF StartScript, Cmd, IrqPath, IrqCmds
  <2> QED
    BY <2>1, <2>2, Elsewhere
<1>12. call.op # "rx_switch_channel"
  <2> SUFFICES ASSUME call.op = "rx_switch_channel" PROVE FALSE
    OBVIOUS
  <2>1. PICK m : Stands(call.todo, "Done", SwitchScript(m))
    BY <1>1 DEF Guarded, Operating, Receiving
  <2>2. Len(SwitchScript(m)) = 3 /\ \A i \in 1 .. 3 : SwitchScript(m)[i].cmd \notin IrqPath
    BY DEF SwitchScript, Do, Set, Cmd, IrqPath, IrqCmds
  <2> QED
    BY <2>1, <2>2, Elsewhere
<1> QED
  BY <1>1, <1>2, <1>3, <1>4, <1>5, <1>6, <1>7, <1>8, <1>9, <1>10, <1>11, <1>12
     DEF Methods, Waiting, Building

\* The three methods while their interrupt is awaited, read or cleared.
TxWaits ==
    /\ call.result = "Pending" /\ lora.radio_mode = "Transmit"
    /\ TxOpTakes /\ Left \in 1 .. 3
    /\ kind = "Lr1110" => chip.mode = "Tx" \/ chip.irq["TxDone"] # "Clear"
    /\ Air => /\ chip.mode \in {"Tx", "Sleep", "Standby"}
              /\ Left = 2 => chip.irq # NoFlags
              /\ Left = 1 /\ call.seen.ok =>
                    /\ call.seen.irq # NoFlags
                    /\ chip.mode = "Tx" => call.seen.irq["TxDone"] = "Clear"

CadWaits ==
    /\ call.result = "Pending" /\ lora.radio_mode = "Cad"
    /\ CadOpTakes /\ Left \in 1 .. 3
    /\ kind = "Lr1110" => chip.mode = "Cad" \/ chip.irq["CadDone"] # "Clear"
    /\ Left = 2 => chip.irq["CadDone"] # "Clear"
    /\ Left = 1 /\ call.seen.ok => call.seen.irq["CadDone"] # "Clear"

RxAwaits ==
    /\ call.result = "Pending" /\ lora.radio_mode \in RxModes
    /\ SeenFresh
    /\ \/ /\ WaitTakes /\ Left \in 1 .. 3
          /\ kind = "Lr1110" => RxGoing
       \/ /\ ReadTakes /\ Left = 3
          /\ kind = "Lr1110" /\ lora.radio_mode = "Continuous" => RxGoing

Waits ==
    /\ call.op \in Waiting /\ Settled /\ ~Dormant
    /\ call.op = "tx" => TxWaits
    /\ call.op = "cad" => CadWaits
    /\ call.op \in {"rx", "complete_rx"} => RxAwaits
    /\ Current.cmd = "await_irq" => Left = 3
    /\ Current.cmd = "get_irq_state" => Left = 2
    /\ Current.cmd = "clear_irq_flags" => Left = 1

LEMMA IrqWaits ==
    ASSUME IInv, Pending, Current.cmd \in IrqPath
    PROVE Waits
<1>1. call.op \in Waiting /\ call.op \in Operating
  BY IrqOps DEF Waiting, Operating, Receiving
<1>2. Settled /\ Guarded
  BY <1>1, OperatingSettled DEF IInv
<1>3. RecoverTakes => Current.cmd \notin IrqPath
  <2>1. RecoverTakes => Left \in 1 .. 2
    BY DEF RecoverTakes, Takes
  <2>2. RecoverTakes => Current \in {Do("ensure_ready"), StandbyCmd}
    BY <2>1 DEF RecoverTakes
  <2> QED
    BY <2>2 DEF Do, StandbyCmd, Cmd, IrqPath, IrqCmds
<1>4. ~Stands(call.todo, "Done", RecoverScript)
  BY <1>3, ScriptTakes
<1>5. ASSUME call.op = "tx"
      PROVE TxWaits
  <2>1. TxOpTakes /\ TxOp
    BY <1>1, <1>2, <1>4, <1>5, ScriptTakes DEF Guarded, TxOp
  <2>2. Left \in 1 .. 4
    BY <2>1 DEF TxOpTakes, Takes
  <2>3. Left # 4
    BY <2>1 DEF TxOpTakes, Do, Cmd, IrqPath, IrqCmds
  <2>4. Left \in 1 .. 3 /\ Left < 4
    BY <2>2, <2>3
  <2> QED
    BY <1>4, <2>1, <2>4 DEF TxOp, TxWaits
<1>6. ASSUME call.op = "cad"
      PROVE CadWaits
  <2>1. CadOpTakes /\ CadOp
    BY <1>1, <1>2, <1>4, <1>6, ScriptTakes DEF Guarded, CadOp
  <2>2. Left \in 1 .. 4
    BY <2>1 DEF CadOpTakes, Takes
  <2>3. Left # 4
    BY <2>1 DEF CadOpTakes, Do, Cmd, IrqPath, IrqCmds
  <2>4. Left \in 1 .. 3 /\ Left < 4
    BY <2>2, <2>3
  <2> QED
    BY <1>4, <2>1, <2>4 DEF CadOp, CadWaits
<1>7. ASSUME call.op \in {"rx", "complete_rx"}
      PROVE RxAwaits
  <2>1. RxOp
    BY <1>1, <1>2, <1>7 DEF Guarded
  <2>2. ~(Left = 3 /\ Stands(call.todo, "Done", RxOpScript(lora.radio_mode)))
    <3> SUFFICES ASSUME Left = 3, Stands(call.todo, "Done", RxOpScript(lora.radio_mode))
                 PROVE FALSE
      OBVIOUS
    <3>1. Current = Cmd("do_rx", lora.radio_mode, <<>>)
      BY ScriptTakes DEF RxOpTakes
    <3> QED
      BY <3>1 DEF Cmd, IrqPath, IrqCmds
  <2>3. Stands(call.todo, "Done", WaitScript) => WaitTakes /\ Left \in 1 .. 3
    BY ScriptTakes DEF WaitTakes, Takes
  <2>4. Stands(call.todo, "Done", ReadScript) => ReadTakes /\ Left = 3
    <3> SUFFICES ASSUME Stands(call.todo, "Done", ReadScript) PROVE ReadTakes /\ Left = 3
      OBVIOUS
    <3>1. ReadTakes /\ Left \in 1 .. 3
      BY ScriptTakes DEF ReadTakes, Takes
    <3>2. Left # 3 => Current \in {Do("get_rx_payload"), Do("get_rx_packet_status")}
      BY <3>1 DEF ReadTakes
    <3>3. Left = 3
      BY <3>2 DEF Do, Cmd, IrqPath, IrqCmds
    <3> QED
      BY <3>1, <3>3
  <2> QED
    BY <1>4, <2>1, <2>2, <2>3, <2>4 DEF RxOp, RxAwaits
<1>8. lora.radio_mode # "Sleep"
  <2>1. "Sleep" \notin RxModes
    BY LoRaPhyAssumption
  <2> QED
    BY <1>1, <1>5, <1>6, <1>7, <2>1 DEF TxWaits, CadWaits, RxAwaits, Waiting
<1>9. ~Dormant
  BY <1>2, <1>8, KnownAwake
<1>10. /\ Current.cmd = "await_irq" => Left = 3
       /\ Current.cmd = "get_irq_state" => Left = 2
       /\ Current.cmd = "clear_irq_flags" => Left = 1
  <2>1. CASE call.op = "tx"
    BY <1>5, <2>1 DEF TxWaits, TxOpTakes, Do, Cmd
  <2>2. CASE call.op = "cad"
    BY <1>6, <2>2 DEF CadWaits, CadOpTakes, Do, Cmd
  <2>3. CASE call.op \in {"rx", "complete_rx"}
    BY <1>7, <2>3 DEF RxAwaits, WaitTakes, ReadTakes, Do, Cmd
  <2> QED
    BY <1>1, <2>1, <2>2, <2>3 DEF Waiting
<1> QED
  BY <1>1, <1>2, <1>5, <1>6, <1>7, <1>9, <1>10 DEF Waits

\* The chip keeps everything, but for flags that are cleared.
Lowers ==
    /\ ChipIs(chip', chip.mode, chip.init, chip.sync, chip.calibrated, chip.cfg, chip.mask,
              chip'.irq)
    /\ \A f \in Flags : chip'.irq[f] \in {"Clear", chip.irq[f]}

\* Not one that the Lr1110 has not shown.
Spares == \A f \in Flags : kind = "Lr1110" /\ call.seen.irq[f] = "Clear" =>
              chip'.irq[f] = chip.irq[f]

LEMMA IrqLowers ==
    ASSUME IInv, Waits, Current.cmd \in IrqPath, chip' = chip \/ chip' = After(Current)
    PROVE /\ Lowers
          /\ Current.cmd = "clear_irq_flags" => Spares
          /\ Current.cmd # "clear_irq_flags" => chip' = chip
<1>1. Types /\ KindOk /\ ~Dormant /\ chip \in RadioChip /\ lora \in LoRa
  BY DEF IInv, Types, KindOk, Waits
<1>2. CASE chip' = chip
  BY <1>1, <1>2 DEF Lowers, Spares, ChipIs
<1>3. CASE chip' = After(Current) /\ Current.cmd = "clear_irq_flags"
  BY <1>1, <1>3, AfterClears DEF Lowers, Spares, ChipIs
<1>4. CASE chip' = After(Current) /\ Current.cmd # "clear_irq_flags"
  <2>1. chip' = chip
    BY <1>1, <1>4, AfterAwake DEF AwakeEffect, IrqPath, IrqCmds
  <2> QED
    BY <1>2, <1>4, <2>1
<1> QED
  BY <1>2, <1>3, <1>4

\* The method goes on, with what it has seen.
LEMMA IrqStep ==
    ASSUME IInv, Waits, Lowers, UNCHANGED <<kind, lora, caller>>,
           NEW t, NEW seen \in [ok : BOOLEAN, irq : Irqs], NEW r, CallIs(call.op, t, seen, r),
           call.op = "tx" => TxBegun' /\ TxOp',
           call.op = "cad" => CadOp',
           call.op \in {"rx", "complete_rx"} => RxOp'
    PROVE IInv'
<1>1. /\ Types /\ Base /\ Prepared /\ Guarded /\ call.op \in Waiting
      /\ kind' = kind /\ lora' = lora /\ caller' = caller /\ call'.op = call.op
  BY DEF IInv, Waits, CallIs
<1>2. /\ chip' \in RadioChip /\ chip'.mode = chip.mode /\ chip'.init = chip.init
      /\ chip'.sync = chip.sync /\ chip'.calibrated = chip.calibrated /\ chip'.cfg = chip.cfg
      /\ chip'.mask = chip.mask
      /\ \A f \in Flags : chip.irq[f] = "Clear" => chip'.irq[f] = "Clear"
      /\ NoOld(chip.irq) => NoOld(chip'.irq)
  BY DEF Lowers, ChipIs, NoOld
<1>3. Types'
  BY <1>1, <1>2 DEF Types, CallIs, Waiting, Methods
<1>4. /\ Dormant' = Dormant /\ Air' = Air /\ Idle' = Idle
      /\ \A p, s : Uses(p, s)' = Uses(p, s)
      /\ \A q : Enabled(q)' = Enabled(q)
  BY <1>1, <1>2 DEF Dormant, HasBusy, Air, Idle, Uses, Enabled
<1>5. Base'
  <2>1. Kept => Kept'
    BY <1>1, <1>2 DEF Kept
  <2>2. OnAirReady => OnAirReady'
    BY <1>1, <1>2, <1>4 DEF OnAirReady
  <2>3. chip.irq["TxDone"] = "Clear" => chip'.irq["TxDone"] = "Clear"
    BY <1>2 DEF Flags
  <2> QED
    BY <1>1, <1>2, <1>4, <2>1, <2>2, <2>3 DEF Base
<1>6. Prepared'
  <2>1. call.op = "tx" => TxBegun'
    OBVIOUS
  <2>2. Settled' = Settled
    BY <1>1 DEF Settled
  <2>3. call.op # "tx" => lora.radio_mode # "Transmit"
    <3>1. CASE call.op = "cad"
      BY <3>1 DEF Waits, CadWaits
    <3>2. CASE call.op \in {"rx", "complete_rx"}
      BY <3>2, LoRaPhyAssumption DEF Waits, RxAwaits
    <3> QED
      BY <1>1, <3>1, <3>2 DEF Waiting
  <2>4. chip.irq["TxDone"] = "Clear" => chip'.irq["TxDone"] = "Clear"
    BY <1>2 DEF Flags
  <2> QED
    BY <1>1, <1>2, <1>4, <2>1, <2>2, <2>3, <2>4 DEF Prepared
<1>7. Resting' /\ Guardless'
  BY <1>1 DEF Resting, Guardless, Waiting, Building
<1>8. Guarded'
  BY <1>1 DEF Guarded, Waiting, Operating, Receiving
<1> QED
  BY <1>3, <1>5, <1>6, <1>7, <1>8 DEF IInv

LEMMA NoReadFresh == NoOld(NoRead.irq) /\ NoRead \in [ok : BOOLEAN, irq : Irqs]
BY DEF NoOld, NoRead, NoFlags, Irqs

LEMMA AwaitKeepsIInv ==
    ASSUME IInv, AwaitIrq, UNCHANGED kind
    PROVE IInv'
<1>1. Pending /\ Current.cmd = "await_irq"
  BY DEF AwaitIrq, At
<1>2. Waits /\ Left = 3 /\ Types
  BY <1>1, IrqWaits DEF IrqPath, IrqCmds, Waits, IInv
<1>3. UNCHANGED <<kind, lora, chip>>
  BY DEF AwaitIrq
<1>4. Lowers
  BY <1>2, <1>3 DEF Lowers, ChipIs, Types
<1>5. Continues(Tail(call.todo))
  BY <1>1, ContinueIs DEF AwaitIrq
<1>6. chip.irq \in Irqs /\ \E f \in Flags : f \in chip.mask /\ chip.irq[f] # "Clear"
  BY <1>2 DEF AwaitIrq, Dio, Types, RadioChip, Irqs
<1>7. chip.irq # NoFlags
  BY <1>6 DEF NoFlags
<1>8. ASSUME Tail(call.todo) # <<>>, Len(Tail(call.todo)) = 2
      PROVE /\ CallIs(call.op, Tail(call.todo), NoRead, call.result) /\ caller' = caller
            /\ Left' = 2
  BY <1>5, <1>8 DEF Continues, CallIs, Left
<1>9. Air' = Air /\ RxGoing' = RxGoing
  BY <1>3 DEF Air, RxGoing
<1>10. CASE call.op = "tx"
  <2>1. TxWaits
    BY <1>2, <1>10 DEF Waits
  <2>2. /\ Tail(call.todo) # <<>> /\ Len(Tail(call.todo)) = 2
        /\ Stands(Tail(call.todo), "Done", TxOpScript)
    BY <1>2, <2>1 DEF TxWaits, TxOpTakes, Takes
  <2>3. /\ CallIs(call.op, Tail(call.todo), NoRead, call.result) /\ caller' = caller
        /\ Left' = 2
    BY <1>8, <2>2
  <2>4. TxOp'
    BY <1>3, <1>7, <1>9, <2>1, <2>2, <2>3 DEF TxOp, TxWaits, CallIs
  <2>5. TxBegun'
    BY <1>10, <2>3 DEF TxBegun, CallIs
  <2> QED
    BY <1>2, <1>3, <1>4, <1>10, <2>3, <2>4, <2>5, IrqStep, NoReadFresh
<1>11. CASE call.op = "cad"
  <2>1. CadWaits
    BY <1>2, <1>11 DEF Waits
  <2>2. /\ Tail(call.todo) # <<>> /\ Len(Tail(call.todo)) = 2
        /\ Stands(Tail(call.todo), "Done", CadOpScript)
    BY <1>2, <2>1 DEF CadWaits, CadOpTakes, Takes
  <2>3. /\ CallIs(call.op, Tail(call.todo), NoRead, call.result) /\ caller' = caller
        /\ Left' = 2
    BY <1>8, <2>2
  <2>4. chip.mask = {"CadDone"}
    BY <1>2, <2>1 DEF Waits, CadWaits, IInv, Prepared, Enabled
  <2>5. chip.irq["CadDone"] # "Clear"
    BY <1>6, <2>4
  <2>6. CadOp'
    BY <1>3, <2>1, <2>2, <2>3, <2>5 DEF CadOp, CadWaits, CallIs
  <2> QED
    BY <1>2, <1>3, <1>4, <1>11, <2>2, <2>3, <2>6, IrqStep, NoReadFresh
<1>12. CASE call.op \in {"rx", "complete_rx"}
  <2>1. RxAwaits
    BY <1>2, <1>12 DEF Waits
  <2>2. WaitTakes /\ (kind = "Lr1110" => RxGoing)
    BY <1>1, <1>2, <2>1 DEF RxAwaits, ReadTakes, Do, Cmd
  <2>3. /\ Tail(call.todo) # <<>> /\ Len(Tail(call.todo)) = 2
        /\ Stands(Tail(call.todo), "Done", WaitScript)
    BY <1>2, <2>2 DEF WaitTakes, Takes
  <2>4. /\ CallIs(call.op, Tail(call.todo), NoRead, call.result) /\ caller' = caller
        /\ Left' = 2
    BY <1>8, <2>3
  <2>5. SeenFresh'
    BY <1>3, <2>1, <2>4, NoReadFresh DEF SeenFresh, RxAwaits, CallIs
  <2>6. RxOp'
    BY <1>3, <1>9, <2>1, <2>2, <2>3, <2>4, <2>5 DEF RxOp, RxAwaits, CallIs
  <2> QED
    BY <1>2, <1>3, <1>4, <1>12, <2>3, <2>4, <2>6, IrqStep, NoReadFresh
<1> QED
  BY <1>2, <1>10, <1>11, <1>12 DEF Waits, Waiting

\* get_irq_state has returned, with what it read or with an error.
LEMMA ReadKeepsIInv ==
    ASSUME IInv, Pending, Current.cmd = "get_irq_state", UNCHANGED <<kind, lora, chip, caller>>,
           NEW seen \in [ok : BOOLEAN, irq : Irqs],
           call' = [call EXCEPT !.todo = Tail(call.todo), !.seen = seen],
           seen.ok => seen.irq = chip.irq
    PROVE IInv'
<1>1. Waits /\ Left = 2 /\ Types
  BY IrqWaits DEF IrqPath, IrqCmds, Waits, IInv
<1>2. Lowers
  BY <1>1 DEF Lowers, ChipIs, Types
<1>3. CallIs(call.op, Tail(call.todo), seen, call.result)
  BY <1>1 DEF CallIs, Types
<1>4. Air' = Air /\ RxGoing' = RxGoing
  BY DEF Air, RxGoing
<1>5. CASE call.op = "tx"
  <2>1. TxWaits
    BY <1>1, <1>5 DEF Waits
  <2>2. /\ Tail(call.todo) # <<>> /\ Len(Tail(call.todo)) = 1
        /\ Stands(Tail(call.todo), "Done", TxOpScript)
    BY <1>1, <2>1 DEF TxWaits, TxOpTakes, Takes
  <2>3. Left' = 1
    BY <1>3, <2>2 DEF CallIs, Left
  <2>4. Air /\ chip.mode = "Tx" => chip.irq["TxDone"] = "Clear"
    BY DEF IInv, Base
  <2>5. TxOp'
    BY <1>1, <1>3, <1>4, <2>1, <2>2, <2>3, <2>4 DEF TxOp, TxWaits, CallIs
  <2>6. TxBegun'
    BY <1>3, <1>5, <2>3 DEF TxBegun, CallIs
  <2> QED
    BY <1>1, <1>2, <1>3, <1>5, <2>5, <2>6, IrqStep
<1>6. CASE call.op = "cad"
  <2>1. CadWaits
    BY <1>1, <1>6 DEF Waits
  <2>2. /\ Tail(call.todo) # <<>> /\ Len(Tail(call.todo)) = 1
        /\ Stands(Tail(call.todo), "Done", CadOpScript)
    BY <1>1, <2>1 DEF CadWaits, CadOpTakes, Takes
  <2>3. Left' = 1
    BY <1>3, <2>2 DEF CallIs, Left
  <2>4. CadOp'
    BY <1>1, <1>3, <2>1, <2>2, <2>3 DEF CadOp, CadWaits, CallIs
  <2> QED
    BY <1>1, <1>2, <1>3, <1>6, <2>2, <2>4, IrqStep
<1>7. CASE call.op \in {"rx", "complete_rx"}
  <2>1. RxAwaits
    BY <1>1, <1>7 DEF Waits
  <2>2. WaitTakes /\ (kind = "Lr1110" => RxGoing)
    BY <1>1, <2>1 DEF RxAwaits, ReadTakes, Do, Cmd
  <2>3. /\ Tail(call.todo) # <<>> /\ Len(Tail(call.todo)) = 1
        /\ Stands(Tail(call.todo), "Done", WaitScript)
    BY <1>1, <2>2 DEF WaitTakes, Takes
  <2>4. SeenFresh'
    BY <1>3, <2>1 DEF SeenFresh, RxAwaits, CallIs
  <2>5. RxOp'
    BY <1>3, <1>4, <2>1, <2>2, <2>3, <2>4 DEF RxOp, RxAwaits, CallIs
  <2> QED
    BY <1>1, <1>2, <1>3, <1>7, <2>3, <2>5, IrqStep
<1> QED
  BY <1>1, <1>5, <1>6, <1>7 DEF Waits, Waiting

LEMMA GetKeepsIInv ==
    ASSUME IInv, GetIrqState, UNCHANGED kind
    PROVE IInv'
<1>1. PICK seen : seen = [ok |-> TRUE, irq |-> chip.irq]
  OBVIOUS
<1>2. seen \in [ok : BOOLEAN, irq : Irqs] /\ seen.irq = chip.irq
  BY <1>1 DEF IInv, Types, RadioChip, Irqs
<1>3. call' = [call EXCEPT !.todo = Tail(call.todo), !.seen = seen]
  BY <1>1 DEF GetIrqState
<1> QED
  BY <1>2, <1>3, ReadKeepsIInv DEF GetIrqState, At

\* An error of process_irq_event: the method stops the chip before it returns,
\* but for a continuous receive, which goes on.
LEMMA ErrorKeepsIInv ==
    ASSUME IInv, Pending, Current.cmd \in IrqPath, chip' = chip \/ chip' = After(Current),
           IrqError, UNCHANGED kind
    PROVE IInv'
<1>1. Waits /\ Lowers /\ Types
  BY IrqWaits, IrqLowers DEF IInv
<1>2. kind' = kind /\ lora' = lora /\ caller' = caller /\ call.op \in Waiting
  BY <1>1 DEF IrqError, Waits
<1>3. /\ chip' \in RadioChip /\ chip'.mode = chip.mode /\ chip'.init = chip.init
      /\ chip'.sync = chip.sync /\ chip'.calibrated = chip.calibrated /\ chip'.cfg = chip.cfg
      /\ chip'.mask = chip.mask
      /\ NoOld(chip.irq) => NoOld(chip'.irq)
  BY <1>1 DEF Lowers, ChipIs, NoOld
<1>4. /\ Dormant' = Dormant /\ Air' = Air /\ Idle' = Idle
      /\ \A p, s : Uses(p, s)' = Uses(p, s)
      /\ \A q : Enabled(q)' = Enabled(q)
  BY <1>2, <1>3 DEF Dormant, HasBusy, Air, Idle, Uses, Enabled
<1>5. CASE lora.radio_mode = "Continuous"
  <2>1. RxAwaits
    BY <1>1, <1>2, <1>5 DEF Waits, TxWaits, CadWaits, Waiting
  <2>2. kind = "Lr1110" => RxGoing
    BY <1>5, <2>1 DEF RxAwaits
  <2>3. CallIs("none", <<>>, NoRead, "Returned")
    BY <1>2, <1>5 DEF IrqError, ReturnErr, Returned, Waiting, CallIs
  <2>4. Types'
    BY <1>1, <1>2, <1>3, <2>3, NoReadFresh DEF Types, CallIs
  <2>5. Base'
    <3>1. Kept => Kept'
      BY <1>2, <1>3 DEF Kept
    <3>2. OnAirReady => OnAirReady'
      BY <1>2, <1>3, <1>4 DEF OnAirReady
    <3>3. chip.irq["TxDone"] = "Clear" => chip'.irq["TxDone"] = "Clear"
      BY <1>1 DEF Flags, Lowers
    <3> QED
      BY <1>2, <1>3, <1>4, <3>1, <3>2, <3>3 DEF IInv, Base
  <2>6. Prepared'
    BY <1>1, <1>2, <1>3, <1>4, <1>5 DEF IInv, Prepared, Waits
  <2>7. Resting'
    BY <1>2, <1>3, <1>5, <2>2, <2>3 DEF Resting, RxGoing, CallIs
  <2>8. Guardless' /\ Guarded'
    BY <2>3 DEF Guardless, Guarded, Methods, Building, Operating, Receiving, CallIs
  <2> QED
    BY <2>4, <2>5, <2>6, <2>7, <2>8 DEF IInv
<1>6. CASE lora.radio_mode # "Continuous"
  <2>1. CallIs(call.op, Recover, NoRead, "Failing")
    BY <1>1, <1>6 DEF IrqError, CallIs, Types
  <2>2. Stands(call.todo', "Done", RecoverScript) /\ Left' = 2
    BY <2>1, FixedStarts DEF Starts, Togo, LeadLen, CallIs, Left
  <2>3. call.op = "tx" => TxBegun' /\ TxOp'
    BY <1>1, <1>3, <1>4, <2>1, <2>2 DEF Waits, TxWaits, TxBegun, TxOp, CallIs
  <2>4. call.op = "cad" => CadOp'
    BY <2>1, <2>2 DEF CadOp, CallIs
  <2>5. call.op \in {"rx", "complete_rx"} => RxOp'
    <3> SUFFICES ASSUME call.op \in {"rx", "complete_rx"} PROVE RxOp'
      OBVIOUS
    <3>1. RxAwaits
      BY <1>1 DEF Waits
    <3>2. lora.radio_mode \in {"Single", "Continuous"}
      BY <3>1, LoRaPhyAssumption DEF RxAwaits
    <3>3. kind = "Sx127x" => NoOld(chip'.irq)
      BY <1>3, <3>1 DEF RxAwaits, SeenFresh
    <3> QED
      BY <1>2, <2>1, <2>2, <3>2, <3>3 DEF RxOp, CallIs
  <2> QED
    BY <1>1, <1>2, <2>1, <2>3, <2>4, <2>5, IrqStep, NoReadFresh
<1> QED
  BY <1>5, <1>6

\* The script that waits again is the end of tx's.
LEMMA WaitsAgain ==
    ASSUME NEW t, Stands(t, "Done", WaitScript), Len(t) = 3
    PROVE Stands(t, "Done", TxOpScript)
<1>1. Len(TxOpScript) = 4 /\ Len(WaitScript) = 3 /\ LeadLen("Done") = 0
  BY DEF TxOpScript, WaitScript, LeadLen
<1>2. IsSequence(t) /\ \A i \in 1 .. 3 : t[i] = WaitScript[i + 3 - 3]
  BY <1>1 DEF Stands
<1>3. /\ TxOpScript[2] = WaitScript[1] /\ TxOpScript[3] = WaitScript[2]
      /\ TxOpScript[4] = WaitScript[3]
  BY DEF TxOpScript, WaitScript
<1>4. t[1] = TxOpScript[2] /\ t[2] = TxOpScript[3] /\ t[3] = TxOpScript[4]
  BY <1>2, <1>3
<1>5. \A i \in 1 .. 3 : t[i] = TxOpScript[i + 4 - 3]
  BY <1>4
<1> QED
  BY <1>1, <1>2, <1>5 DEF Stands, Leads

\* What the outcome says about what was seen.
LEMMA OutcomeIs ==
    /\ IrqOutcome = "TxDone" =>
          /\ call.seen.ok /\ lora.radio_mode = "Transmit"
          /\ call.seen.irq["TxDone"] # "Clear" \/ call.seen.irq = NoFlags
    /\ IrqOutcome = "RxDone" => lora.radio_mode \in {"Single", "Continuous"}
    /\ IrqOutcome = "CadDone" => lora.radio_mode = "Cad"
    /\ IrqOutcome = "None" =>
          /\ call.seen.ok
          /\ lora.radio_mode = "Transmit" => call.seen.irq["TxDone"] = "Clear"
          /\ lora.radio_mode \in {"Single", "Continuous"} =>
                call.seen.irq["RxDone"] = "Clear" /\ call.seen.irq["Timeout"] = "Clear"
          /\ lora.radio_mode = "Cad" => call.seen.irq["CadDone"] = "Clear"
BY DEF IrqOutcome, Decisive

\* Transmitted: the chip has left the air.
LEMMA TxDoneKeepsIInv ==
    ASSUME IInv, At("clear_irq_flags"), chip' = After(Current), UNCHANGED kind,
           IrqOutcome = "TxDone", Assign([radio_mode |-> "Standby"]), Continue(<<>>)
    PROVE IInv'
<1>1. Pending /\ Current.cmd = "clear_irq_flags" /\ Current.cmd \in IrqPath
  BY DEF At, IrqPath, IrqCmds
<1>2. Waits /\ Lowers /\ Types /\ Left = 1
  BY <1>1, IrqWaits, IrqLowers DEF IInv, Waits
<1>3. /\ call.seen.ok /\ lora.radio_mode = "Transmit"
      /\ call.seen.irq["TxDone"] # "Clear" \/ call.seen.irq = NoFlags
  BY OutcomeIs
<1>4. "Transmit" \notin RxModes
  BY LoRaPhyAssumption
<1>5. call.op = "tx" /\ TxWaits
  BY <1>2, <1>3, <1>4 DEF Waits, CadWaits, RxAwaits, Waiting
<1>6. Air => Idle
  BY <1>2, <1>3, <1>5 DEF TxWaits, Idle
<1>7. /\ chip' \in RadioChip /\ chip'.mode = chip.mode /\ chip'.init = chip.init
      /\ chip'.sync = chip.sync /\ chip'.calibrated = chip.calibrated
  BY <1>2 DEF Lowers, ChipIs
<1>8. LoRaIs("Standby", lora.sync_word, lora.cold_start, lora.calibrate_image)
  BY <1>2, AssignIs DEF Types, Modes
<1>9. Continues(<<>>)
  BY <1>1, ContinueIs
<1>10. /\ CallIs("none", <<>>, NoRead, "Returned")
       /\ caller' = [standing |-> "Fresh", asked |-> caller.asked]
  BY <1>5, <1>9 DEF Continues, TxWaits, StandingAfter
<1>11. Types'
  BY <1>2, <1>7, <1>8, <1>10, NoReadFresh DEF Types, LoRaIs, CallIs
<1>12. Base'
  <2>1. Dormant' = Dormant /\ Air' = Air /\ Idle' = Idle /\ ~Dormant
    BY <1>2, <1>7 DEF Dormant, HasBusy, Air, Idle, Waits
  <2>2. Kept => Kept'
    BY <1>7, <1>8, <1>10 DEF Kept, LoRaIs
  <2>3. Idle' => OnAirReady' /\ chip'.mode # "Tx"
    BY DEF Idle, OnAirReady
  <2> QED
    BY <1>6, <1>10, <2>1, <2>2, <2>3 DEF IInv, Base
<1>13. Prepared'
  BY <1>8, StandbyPrepared DEF LoRaIs
<1>14. Resting'
  BY <1>10 DEF Resting, CallIs
<1>15. Guardless' /\ Guarded'
  BY <1>10 DEF Guardless, Guarded, Methods, Building, Operating, Receiving, CallIs
<1> QED
  BY <1>11, <1>12, <1>13, <1>14, <1>15 DEF IInv

\* Received, or scanned: the method goes on.
LEMMA DoneKeepsIInv ==
    ASSUME IInv, At("clear_irq_flags"), chip' = After(Current), UNCHANGED <<kind, lora>>,
           \/ IrqOutcome = "RxDone" /\ Continue(ReadPacket)
           \/ IrqOutcome = "CadDone" /\ Continue(<<StandbyCmd>>)
    PROVE IInv'
<1>1. Pending /\ Current.cmd = "clear_irq_flags" /\ Current.cmd \in IrqPath
  BY DEF At, IrqPath, IrqCmds
<1>2. Waits /\ Lowers /\ Types /\ Left = 1
  BY <1>1, IrqWaits, IrqLowers DEF IInv, Waits
<1>3. chip'.mode = chip.mode /\ (NoOld(chip.irq) => NoOld(chip'.irq))
  BY <1>2 DEF Lowers, ChipIs, NoOld
<1>4. CASE IrqOutcome = "RxDone" /\ Continue(ReadPacket)
  <2>1. Continues(ReadPacket) /\ ReadPacket # <<>> /\ Stands(ReadPacket, "Done", ReadScript)
    BY <1>1, <1>4, ContinueIs, FixedStarts
  <2>2. CallIs(call.op, ReadPacket, NoRead, call.result) /\ caller' = caller
    BY <2>1 DEF Continues
  <2>3. lora.radio_mode \in {"Single", "Continuous"}
    BY <1>4, OutcomeIs
  <2>4. call.op \in {"rx", "complete_rx"} /\ RxAwaits
    BY <1>2, <2>3 DEF Waits, Waiting, TxWaits, CadWaits
  <2>5. SeenFresh'
    BY <1>3, <2>2, <2>4, NoReadFresh DEF SeenFresh, RxAwaits, CallIs
  <2>6. kind = "Lr1110" /\ lora.radio_mode = "Continuous" => RxGoing'
    BY <1>3, <2>4 DEF RxAwaits, RxGoing
  <2>7. RxOp'
    BY <2>1, <2>2, <2>4, <2>5, <2>6 DEF RxOp, RxAwaits, CallIs
  <2> QED
    BY <1>2, <2>2, <2>4, <2>7, IrqStep, NoReadFresh
<1>5. CASE IrqOutcome = "CadDone" /\ Continue(<<StandbyCmd>>)
  <2>1. PICK t : t = <<StandbyCmd>>
    OBVIOUS
  <2>2. t # <<>> /\ Stands(t, "Done", RecoverScript) /\ Len(t) = 1
    BY <2>1, FixedStarts DEF Starts, Togo, LeadLen
  <2>3. CallIs(call.op, t, NoRead, call.result) /\ caller' = caller
    BY <1>1, <1>5, <2>1, <2>2, ContinueIs DEF Continues
  <2>4. lora.radio_mode = "Cad" /\ "Cad" \notin RxModes
    BY <1>5, OutcomeIs, LoRaPhyAssumption
  <2>5. call.op = "cad" /\ CadWaits
    BY <1>2, <2>4 DEF Waits, Waiting, TxWaits, RxAwaits
  <2>6. CadOp'
    BY <2>2, <2>3, <2>5 DEF CadOp, CadWaits, CallIs, Left
  <2> QED
    BY <1>2, <2>3, <2>5, <2>6, IrqStep, NoReadFresh
<1> QED
  BY <1>4, <1>5

\* An interrupt that ends nothing: the method waits again, and cad never does.
LEMMA NoneKeepsIInv ==
    ASSUME IInv, At("clear_irq_flags"), chip' = After(Current), UNCHANGED <<kind, lora, caller>>,
           IrqOutcome = "None",
           IF call.op = "cad" THEN call' = Returned("Panic")
           ELSE call' = [call EXCEPT !.todo = AwaitAndProcess, !.seen = NoRead]
    PROVE IInv'
<1>1. Pending /\ Current.cmd = "clear_irq_flags" /\ Current.cmd \in IrqPath
  BY DEF At, IrqPath, IrqCmds
<1>2. Waits /\ Lowers /\ Spares /\ Types /\ Left = 1
  BY <1>1, IrqWaits, IrqLowers DEF IInv, Waits
<1>3. /\ call.seen.ok
      /\ lora.radio_mode = "Transmit" => call.seen.irq["TxDone"] = "Clear"
      /\ lora.radio_mode \in {"Single", "Continuous"} =>
            call.seen.irq["RxDone"] = "Clear" /\ call.seen.irq["Timeout"] = "Clear"
      /\ lora.radio_mode = "Cad" => call.seen.irq["CadDone"] = "Clear"
  BY OutcomeIs
<1>4. call.op # "cad"
  BY <1>2, <1>3 DEF Waits, CadWaits
<1>5. CallIs(call.op, AwaitAndProcess, NoRead, call.result)
  BY <1>2, <1>4 DEF CallIs, Types
<1>6. Stands(AwaitAndProcess, "Done", WaitScript) /\ Len(AwaitAndProcess) = 3
  BY FixedStarts DEF Starts, Togo, LeadLen
<1>7. Left' = 3
  BY <1>5, <1>6 DEF Left, CallIs
<1>8. chip'.mode = chip.mode /\ (NoOld(chip.irq) => NoOld(chip'.irq)) /\ Air' = Air
  BY <1>2 DEF Lowers, ChipIs, NoOld, Air
<1>9. CASE call.op = "tx"
  <2>1. TxWaits
    BY <1>2, <1>9 DEF Waits
  <2>2. kind = "Lr1110" => chip'.irq["TxDone"] = chip.irq["TxDone"]
    BY <1>2, <1>3, <2>1 DEF Spares, Flags, TxWaits
  <2>3. Stands(AwaitAndProcess, "Done", TxOpScript)
    BY <1>6, WaitsAgain
  <2>4. TxOp' /\ TxBegun'
    BY <1>5, <1>7, <1>8, <1>9, <2>1, <2>2, <2>3 DEF TxOp, TxWaits, TxBegun, CallIs
  <2> QED
    BY <1>2, <1>5, <1>9, <2>4, IrqStep, NoReadFresh
<1>10. CASE call.op \in {"rx", "complete_rx"}
  <2>1. RxAwaits
    BY <1>2, <1>10 DEF Waits
  <2>2. kind = "Lr1110" => RxGoing
    BY <1>1, <1>2, <2>1 DEF RxAwaits, ReadTakes
  <2>3. lora.radio_mode \in {"Single", "Continuous"}
    BY <2>1, LoRaPhyAssumption DEF RxAwaits
  <2>4. kind = "Lr1110" => /\ chip'.irq["RxDone"] = chip.irq["RxDone"]
                           /\ chip'.irq["Timeout"] = chip.irq["Timeout"]
    BY <1>2, <1>3, <2>3 DEF Spares, Flags
  <2>5. kind = "Lr1110" => RxGoing'
    BY <1>8, <2>2, <2>4 DEF RxGoing
  <2>6. SeenFresh'
    BY <1>5, <1>8, <2>1, NoReadFresh DEF SeenFresh, RxAwaits, CallIs
  <2>7. RxOp'
    BY <1>5, <1>6, <2>1, <2>5, <2>6 DEF RxOp, RxAwaits, CallIs
  <2> QED
    BY <1>2, <1>5, <1>10, <2>7, IrqStep, NoReadFresh
<1> QED
  BY <1>2, <1>4, <1>9, <1>10 DEF Waits, Waiting

LEMMA ClearKeepsIInv ==
    ASSUME IInv, ClearIrqFlags, UNCHANGED kind
    PROVE IInv'
<1>1. At("clear_irq_flags") /\ chip' = After(Current)
  BY DEF ClearIrqFlags
<1>2. Pending /\ Current.cmd \in IrqPath
  BY <1>1 DEF At, IrqPath, IrqCmds
<1> QED
  BY <1>1, <1>2, TxDoneKeepsIInv, DoneKeepsIInv, ErrorKeepsIInv, NoneKeepsIInv
     DEF ClearIrqFlags, StandbyCmd

-----------------------------------------------------------------------------
(* Failures.                                                               *)

LEMMA FaultKeepsIInv ==
    ASSUME IInv, Fault, UNCHANGED kind
    PROVE IInv'
<1>1. Pending /\ call.op # "none" /\ (chip' = chip \/ chip' = After(Current))
      /\ (chip' = chip \/ Current.cmd # "set_sleep")
  BY UnderWay DEF Fault, ErrsBeforeEffect
<1>2. CASE Current.cmd = "get_irq_state" /\ kind # "Lr1110"
  <2>1. /\ call' = [call EXCEPT !.todo = Tail(@), !.seen.ok = FALSE]
        /\ UNCHANGED <<lora, caller>>
    BY <1>2 DEF Fault
  <2>2. Current.cmd \in IrqPath
    BY <1>2 DEF IrqPath, IrqCmds
  <2>3. chip' = chip
    BY <1>1, <1>2, <2>2, IrqWaits, IrqLowers
  <2>4. PICK seen : seen = [call.seen EXCEPT !.ok = FALSE]
    OBVIOUS
  <2>5. seen \in [ok : BOOLEAN, irq : Irqs] /\ ~seen.ok
    BY <2>4 DEF IInv, Types
  <2>6. call' = [call EXCEPT !.todo = Tail(call.todo), !.seen = seen]
    BY <2>1, <2>4
  <2> QED
    BY <1>1, <1>2, <2>1, <2>3, <2>5, <2>6, ReadKeepsIInv
<1>3. CASE \/ Current.cmd = "get_irq_state" /\ kind = "Lr1110"
           \/ Current.cmd \in {"clear_irq_flags", "handle_implicit_header_mode"}
  <2>1. IrqError
    BY <1>3 DEF Fault
  <2>2. Current.cmd \in IrqPath
    BY <1>3 DEF IrqPath, IrqCmds
  <2> QED
    BY <1>1, <2>1, <2>2, ErrorKeepsIInv
<1>4. CASE Current.cmd \notin {"get_irq_state", "clear_irq_flags", "handle_implicit_header_mode"}
  <2>1. /\ call' = ReturnErr
        /\ caller' = [caller EXCEPT !.standing = "Unknown"]
        /\ UNCHANGED lora
    BY <1>4 DEF Fault
  <2> QED
    BY <1>1, <2>1, AbortKeepsIInv
<1> QED
  BY <1>2, <1>3, <1>4

LEMMA DropKeepsIInv ==
    ASSUME IInv, Drop, UNCHANGED kind
    PROVE IInv'
BY UnderWay, AbortKeepsIInv DEF Drop

-----------------------------------------------------------------------------
(* The invariant.                                                          *)

LEMMA InitIInv ==
    ASSUME Init
    PROVE IInv
<1>1. PICK w \in SyncWords : Construct(w)
  BY DEF Init
<1>2. kind \in {"Sx126x", "Sx127x", "Lr1110"}
  BY LoRaPhyAssumption DEF Init
<1>3. /\ lora \in LoRa /\ lora.radio_mode = "Sleep" /\ lora.sync_word = w
      /\ lora.cold_start = TRUE
  BY <1>1 DEF Construct, NewLoRa, LoRa, Modes
<1>4. IsBlank(chip, "Standby")
  <2>1. chip = BlankChip
    BY <1>1 DEF Construct
  <2>2. BlankChip.mode = "Standby"
    BY DEF BlankChip
  <2> QED
    BY <2>1, <2>2, FlagTypes, FlagTypes DEF BlankChip, IsBlank, ChipIs, RadioChip, NoFlags,
                                            Purposes, Settings, Flags
<1>5. /\ call.op = "new" /\ call.todo = LoRaInit /\ call.seen = NoRead
      /\ call.result = "Pending"
      /\ call = [op |-> call.op, todo |-> call.todo, seen |-> call.seen,
                 result |-> call.result]
  BY <1>1 DEF Construct
<1>6. caller.standing = "Unknown" /\ caller.asked = {}
      /\ caller \in [standing : {"Fresh", "Started", "Wave", "Unknown"},
                     asked : SUBSET SyncWords]
  BY <1>1 DEF Construct
<1>7. Types
  BY <1>2, <1>3, <1>4, <1>5, <1>6, NoReadFresh DEF Types, IsBlank, ChipIs, Methods
<1>8. Idle /\ ~Dormant /\ ~chip.init
  BY <1>4 DEF IsBlank, ChipIs, Idle, Dormant
<1>9. Base
  <2>1. Kept
    BY <1>3, <1>8 DEF Kept
  <2>2. OnAirReady /\ chip.mode # "Tx"
    BY <1>8 DEF OnAirReady, Idle
  <2> QED
    BY <1>6, <1>8, <2>1, <2>2 DEF Base
<1>10. Prepared /\ Resting
  BY <1>5, <1>6 DEF Prepared, Settled, Resting
<1>11. Built
  <2>1. Stands(call.todo, "Done", InitScript) /\ Left = 6
    BY <1>5, FixedStarts DEF Starts, Togo, LeadLen, Left
  <2> QED
    BY <1>3, <1>8, <2>1 DEF Built
<1>12. Guardless /\ Guarded
  BY <1>5, <1>11 DEF Guardless, Guarded, Building, Operating, Receiving
<1> QED
  BY <1>7, <1>9, <1>10, <1>12 DEF IInv

LEMMA StutterKeepsIInv ==
    ASSUME IInv, UNCHANGED vars
    PROVE IInv'
<1>1. kind' = kind /\ lora' = lora /\ chip' = chip /\ call' = call /\ caller' = caller
  BY DEF vars
<1>2. /\ Dormant' = Dormant /\ Air' = Air /\ Idle' = Idle /\ Left' = Left /\ RxGoing' = RxGoing
      /\ \A p, s : Uses(p, s)' = Uses(p, s)
      /\ \A q : Enabled(q)' = Enabled(q)
  BY <1>1 DEF Dormant, HasBusy, Air, Idle, Left, RxGoing, Uses, Enabled
<1>3. Types'
  BY <1>1 DEF IInv, Types
<1>4. Base'
  <2>1. Kept' = Kept
    BY <1>1 DEF Kept
  <2>2. OnAirReady' = OnAirReady
    BY <1>1, <1>2 DEF OnAirReady
  <2> QED
    BY <1>1, <1>2, <2>1, <2>2 DEF IInv, Base
<1>5. Prepared'
  <2>1. Settled' = Settled /\ TxBegun' = TxBegun
    BY <1>1, <1>2 DEF Settled, TxBegun
  <2> QED
    BY <1>1, <1>2, <2>1 DEF IInv, Prepared
<1>6. Resting'
  BY <1>1, <1>2 DEF IInv, Resting
<1>7. Guardless'
  <2>1. Built' = Built
    BY <1>1, <1>2 DEF Built
  <2>2. /\ \A x, k : LeadFacts(x, k)' = LeadFacts(x, k)
        /\ \A k : ColdFacts(k)' = ColdFacts(k)
        /\ \A n : TxFacts(n)' = TxFacts(n)
        /\ \A n : RxFacts(n)' = RxFacts(n)
        /\ \A n : CadFacts(n)' = CadFacts(n)
        /\ \A n : ListenFacts(n)' = ListenFacts(n)
        /\ \A n : WaveFacts(n)' = WaveFacts(n)
    BY <1>1, <1>2 DEF LeadFacts, ColdFacts, TxFacts, RxFacts, CadFacts, ListenFacts, WaveFacts
  <2>3. /\ \A x, w : SyncAt(x, w)' = SyncAt(x, w)
        /\ \A x, warm : SleepAt(x, warm)' = SleepAt(x, warm)
        /\ \A x : TxAt(x)' = TxAt(x)
        /\ \A x, m : RxAt(x, m)' = RxAt(x, m)
        /\ \A x : CadAt(x)' = CadAt(x)
        /\ \A x : ListenAt(x)' = ListenAt(x)
        /\ \A x : WaveAt(x)' = WaveAt(x)
    BY <1>1, <2>2 DEF SyncAt, SleepAt, ModemAt, TxAt, RxAt, CadAt, ListenAt, WaveAt
  <2> QED
    BY <1>1, <2>1, <2>3 DEF IInv, Guardless
<1>8. Guarded'
  <2>1. TxOp' = TxOp /\ CadOp' = CadOp
    BY <1>1, <1>2 DEF TxOp, CadOp
  <2>2. SeenFresh' = SeenFresh
    BY <1>1 DEF SeenFresh, At, Pending, Current
  <2>3. RxOp' = RxOp
    BY <1>1, <1>2, <2>2 DEF RxOp
  <2> QED
    BY <1>1, <1>2, <2>1, <2>3 DEF IInv, Guarded
<1> QED
  BY <1>3, <1>4, <1>5, <1>6, <1>7, <1>8 DEF IInv

LEMMA ChipStepKeepsIInv ==
    ASSUME IInv, ChipHears \/ ChipEnds, UNCHANGED kind
    PROVE IInv'
<1>1. chip \in RadioChip
  BY DEF IInv, Types
<1>2. UNCHANGED <<lora, call, caller>>
  BY <1>1, ChipGoes
<1>3. PICK f \in Flags, m \in {"Standby", "RxSingle", "RxContinuous"} :
        Goes(f, m) /\ Rises(f, m)
  BY <1>1, ChipGoes
<1> QED
  BY <1>2, <1>3, ChipKeepsIInv

LEMMA NextKeepsIInv ==
    ASSUME IInv, [Next]_vars
    PROVE IInv'
<1>1. CASE UNCHANGED vars
  BY <1>1, StutterKeepsIInv
<1>2. CASE New \/ InitLoRa \/ SetSyncWord \/ Configure \/ Operate
  BY <1>1, <1>2, BuildCalled, SyncWordCalled, GuardlessCalled, GuardedCalled DEF Next
<1>3. CASE Run
  BY <1>1, <1>3, CommandKeepsIInv, AwaitKeepsIInv, GetKeepsIInv, ClearKeepsIInv DEF Next, Run
<1>4. CASE Fault \/ Drop
  BY <1>1, <1>4, FaultKeepsIInv, DropKeepsIInv DEF Next
<1>5. CASE ChipHears \/ ChipEnds
  BY <1>1, <1>5, ChipStepKeepsIInv DEF Next
<1> QED
  BY <1>1, <1>2, <1>3, <1>4, <1>5 DEF Next

LEMMA Invariance == Spec => []IInv
<1>1. Init => IInv
  BY InitIInv
<1>2. IInv /\ [Next]_vars => IInv'
  BY NextKeepsIInv
<1> QED
  BY <1>1, <1>2, PTL DEF Spec

-----------------------------------------------------------------------------
(* What follows from it.                                                   *)

\* Every variable of the driver, the chip and the call keeps its type, and a
\* method has RadioKind calls left exactly while it is under way.
THEOREM LoRaPhyTypeOK == Spec => []TypeOK
<1>1. ASSUME IInv PROVE TypeOK
  <2>1. Types /\ Resting
    BY <1>1 DEF IInv
  <2>2. call.op = "none" => call.todo = <<>> /\ call.result \in {"Returned", "Unbuilt"}
    BY <2>1 DEF Resting
  <2>3. call.op # "none" => call.todo # <<>> /\ call.result \in {"Pending", "Failing"}
    BY <1>1, CurrentFits, FreeMeansNone DEF Suited
  <2>4. caller.standing \in {"Fresh", "Started", "Wave", "Unknown"} /\ caller.asked \subseteq SyncWords
    BY <2>1 DEF Types
  <2> QED
    BY <2>1, <2>2, <2>3, <2>4 DEF Types, TypeOK, Irqs
<1> QED
  BY <1>1, Invariance, PTL

\* cad's unreachable!() is not reached, whichever methods fail or are dropped:
\* the line is raised during a scan only by the flag of a scan, which is
\* the only one that prepare_for_cad enables.
THEOREM LoRaPhyNoPanic == Spec => []NoPanic
<1>1. ASSUME IInv PROVE NoPanic
  BY <1>1, FreeMeansNone DEF IInv, Resting, NoPanic
<1> QED
  BY <1>1, Invariance, PTL

\* A reception that the Sx127x reports was raised after the receive was started:
\* do_rx clears the flags, and none that was latched before is seen by rx or
\* complete_rx.
THEOREM LoRaPhyRxResultFresh == Spec => []RxResultFresh
<1>1. ASSUME IInv PROVE RxResultFresh
  <2> SUFFICES ASSUME kind = "Sx127x", At("clear_irq_flags"), call.op \in {"rx", "complete_rx"},
                      call.seen.ok, NEW f, f = Decisive(lora.radio_mode, call.seen.irq),
                      f # "None"
               PROVE call.seen.irq[f] = "New"
    BY DEF RxResultFresh
  <2>1. Pending /\ Current.cmd \in IrqPath
    BY DEF At, IrqPath, IrqCmds
  <2>2. RxAwaits
    BY <1>1, <2>1, IrqWaits DEF Waits
  <2>3. NoOld(call.seen.irq)
    BY <2>2 DEF RxAwaits, SeenFresh
  <2>4. lora.radio_mode \in {"Single", "Continuous"}
    BY <2>2, LoRaPhyAssumption DEF RxAwaits
  <2>5. f \in {"RxDone", "Timeout"} /\ call.seen.irq[f] # "Clear"
    BY <2>4 DEF Decisive
  <2>6. call.seen.irq[f] \in {"Clear", "Old", "New"} /\ f \in Flags
    BY <1>1, <2>5 DEF IInv, Types, Irqs, Flags
  <2> QED
    BY <2>3, <2>5, <2>6 DEF NoOld
<1> QED
  BY <1>1, Invariance, PTL

\* The Lr1110's driver clears no flag that it has not read, so a method that
\* waits for an operation that has ended finds the line raised.
THEOREM LoRaPhyWakeUpComes == Spec => []WakeUpComes
<1>1. ASSUME IInv PROVE WakeUpComes
  <2> SUFFICES ASSUME kind = "Lr1110", At("await_irq"), chip.mode \in {"Sleep", "Standby"}
               PROVE Dio
    BY DEF WakeUpComes, WakeUpComesAnywhere
  <2>1. Pending /\ Current.cmd \in IrqPath /\ Current.cmd = "await_irq"
    BY DEF At, IrqPath, IrqCmds
  <2>2. Waits /\ Left = 3 /\ Prepared
    BY <1>1, <2>1, IrqWaits DEF Waits, IInv
  <2>3. CASE call.op = "tx"
    <3>1. lora.radio_mode = "Transmit" /\ chip.irq["TxDone"] # "Clear"
      BY <2>2, <2>3 DEF Waits, TxWaits
    <3>2. "TxDone" \in chip.mask
      BY <2>2, <3>1 DEF Prepared, Waits, Enabled
    <3> QED
      BY <3>1, <3>2 DEF Dio
  <2>4. CASE call.op = "cad"
    <3>1. lora.radio_mode = "Cad" /\ chip.irq["CadDone"] # "Clear"
      BY <2>2, <2>4 DEF Waits, CadWaits
    <3>2. "CadDone" \in chip.mask
      BY <2>2, <3>1 DEF Prepared, Waits, Enabled
    <3> QED
      BY <3>1, <3>2 DEF Dio
  <2>5. CASE call.op \in {"rx", "complete_rx"}
    <3>1. RxAwaits
      BY <2>2, <2>5 DEF Waits
    <3>2. RxGoing
      BY <2>1, <2>2, <3>1 DEF RxAwaits, ReadTakes, Do, Cmd
    <3>3. lora.radio_mode \in {"Single", "Continuous"}
      BY <3>1, LoRaPhyAssumption DEF RxAwaits
    <3>4. chip.irq["RxDone"] # "Clear" \/ chip.irq["Timeout"] # "Clear"
      BY <3>2 DEF RxGoing
    <3>5. chip.mask = Flags
      BY <2>2, <3>3 DEF Prepared, Waits, Enabled
    <3> QED
      BY <3>4, <3>5 DEF Dio, Flags
  <2> QED
    BY <2>2, <2>3, <2>4, <2>5 DEF Waits, Waiting
<1> QED
  BY <1>1, Invariance, PTL

\* A chip with a BUSY line never sleeps unknown to radio_mode, so ensure_ready
\* never waits for ever, if the caller lets sleep finish.
THEOREM LoRaPhyAsleepKnown ==
    ASSUME "sleep" \notin Droppable
    PROVE Spec => []AsleepKnown
<1>1. ASSUME IInv PROVE AsleepKnown
  BY <1>1 DEF IInv, Base, Dormant, AsleepKnown
<1> QED
  BY <1>1, Invariance, PTL

\* Whatever calls fail, and whatever methods other than sleep the caller drops
\* at any await: when the Sx127x or the Lr1110 is on the air, it is initialised,
\* calibrated, configured for this operation and radio_mode says so.
THEOREM LoRaPhyOnAirReady ==
    ASSUME "sleep" \notin Droppable
    PROVE Spec => [](kind # "Sx126x" => OnAirReady)
<1>1. ASSUME IInv PROVE kind # "Sx126x" => OnAirReady
  BY <1>1 DEF IInv, Base, Air
<1> QED
  BY <1>1, Invariance, PTL
=============================================================================
