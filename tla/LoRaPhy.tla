------------------------------- MODULE LoRaPhy -------------------------------
(***************************************************************************)
(* The physical layer (lora-phy/src/lib.rs) and the chip it drives through *)
(* RadioKind (sx126x/mod.rs, sx127x/mod.rs, lr1110/mod.rs).                *)
(*                                                                         *)
(* A method of LoRa is a sequence of RadioKind calls.  `call.todo` holds   *)
(* those still to make: every one is an await, at which the chip may raise *)
(* interrupts, the call may fail and the caller may drop the future.  What *)
(* the method assigns once an await has returned is part of that step.     *)
(*                                                                         *)
(* Of the settings the chip keeps the purpose of the last ones written and *)
(* which of them were written for it, of an interrupt flag whether it was  *)
(* raised before or after the last start of an operation.                  *)
(* RxMode::DutyCycle is left out.                                          *)
(***************************************************************************)
EXTENDS Sequences

CONSTANTS
    Chips,       \* the RadioKinds considered
    SyncWords,   \* LoRa sync words the caller uses
    RxModes,     \* RxMode values the caller uses
    Droppable,   \* methods whose future the caller may drop
    Faulty       \* methods whose RadioKind calls may fail

Modes == {"Sleep", "Standby", "Transmit", "Single", "Continuous", "Listen",
          "Cad"}

Methods == {"new", "init", "enter_standby", "set_lora_sync_word", "sleep",
            "prepare_for_tx", "tx", "prepare_for_rx", "rx_switch_channel",
            "start_rx", "complete_rx", "rx", "clear_irq_status", "listen",
            "prepare_for_cad", "cad", "continuous_wave"}

ASSUME LoRaPhyAssumption ==
    /\ Chips \subseteq {"Sx126x", "Sx127x", "Lr1110"}
    /\ SyncWords # {}
    /\ RxModes \subseteq {"Single", "Continuous"}
    /\ Droppable \subseteq Methods
    /\ Faulty \subseteq Methods

VARIABLES
    kind,        \* the RadioKind in use
    lora,        \* struct LoRa
    chip,        \* the radio chip
    call,        \* the method under way, and how the last one returned
    caller       \* what the caller has to respect, and words it asked for

vars == <<kind, lora, chip, call, caller>>

Flags == {"TxDone", "RxDone", "Timeout", "Preamble", "CadDone"}
Settings == {"modulation", "packet", "channel", "payload", "power"}
Purposes == {"None", "Init", "Transmit", "Receive", "Listen", "Cad", "Wave"}

\* Sx126x and Lr1110 hold BUSY high while asleep.
HasBusy == kind # "Sx127x"

NoFlags == [f \in Flags |-> "Clear"]
NoRead == [ok |-> TRUE, irq |-> NoFlags]

LoRa == [radio_mode : Modes, sync_word : SyncWords, cold_start : BOOLEAN,
         calibrate_image : BOOLEAN]

RadioChip == [
    mode : {"Sleep", "Standby", "Tx", "Wave", "RxSingle", "RxContinuous",
            "Cad"},
    heard : BOOLEAN,                  \* a packet is coming in
    init : BOOLEAN, sync : SyncWords \cup {"None"}, calibrated : BOOLEAN,
    cfg : [for : Purposes, set : SUBSET Settings],
    mask : SUBSET Flags,              \* flags that may be latched, and raise DIO
    irq : [Flags -> {"Clear", "Old", "New"}]]

\* As after power-up.
BlankChip == [
    mode |-> "Standby", heard |-> FALSE, init |-> FALSE, sync |-> "None",
    calibrated |-> FALSE, cfg |-> [for |-> "None", set |-> {}], mask |-> {},
    irq |-> NoFlags]

\* standing: Started = a receive was started and not completed; Unknown = a
\* call failed or was dropped, so the caller prepares again before it starts
\* an operation; Wave = continuous_wave was called last.  asked: sync words of
\* the calls of set_lora_sync_word since the last that returned Ok.
TypeOK ==
    /\ lora \in LoRa
    /\ chip \in RadioChip
    /\ call.op \in Methods \cup {"none"}
    /\ call.seen \in [ok : BOOLEAN, irq : [Flags -> {"Clear", "Old", "New"}]]
    /\ call.result \in {"Pending", "Failing", "Returned", "Unbuilt", "Panic"}
    /\ (call.op # "none") <=> (call.result \in {"Pending", "Failing"})
    /\ (call.op # "none") <=> (call.todo # <<>>)
    /\ caller.standing \in {"Fresh", "Started", "Wave", "Unknown"}
    /\ caller.asked \subseteq SyncWords

-----------------------------------------------------------------------------
(* The methods as sequences of RadioKind calls.  upd: fields of LoRa that   *)
(* are assigned before the next await.                                     *)

Cmd(c, a, upd) == [cmd |-> c, arg |-> a, upd |-> upd]
Do(c) == Cmd(c, "None", <<>>)
Set(s, p) == Cmd(s, p, <<>>)

\* set_standby unless radio_mode is Standby
ToStandby ==
    IF lora.radio_mode = "Standby" THEN <<>>
    ELSE <<Cmd("set_standby", "None", [radio_mode |-> "Standby"])>>

\* Mutant: the calibration is not repeated.
ColdStartNoCalibration ==
    <<Do("init_lora"), Set("power", "Init"),
      Cmd("set_irq_params", "None", [cold_start |-> FALSE])>>

DoColdStart ==
    <<Do("init_lora"), Set("power", "Init"),
      Cmd("set_irq_params", "None",
          [cold_start |-> FALSE, calibrate_image |-> TRUE])>>

LoRaInit ==
    <<Do("reset"), Do("ensure_ready"),
      Cmd("set_standby", "None", [radio_mode |-> "Standby"])>> \o DoColdStart

PrepareModem ==
    <<Do("ensure_ready")>> \o ToStandby
    \o (IF lora.cold_start THEN DoColdStart ELSE <<>>)
    \o (IF lora.cold_start \/ lora.calibrate_image
        THEN <<Cmd("calibrate_image", "None", [calibrate_image |-> FALSE])>>
        ELSE <<>>)

EnterStandby == <<Do("set_standby")>>

SetLoraSyncWord(w) ==
    <<Do("ensure_ready")>> \o ToStandby
    \o <<Cmd("set_lora_sync_word", w, [sync_word |-> w])>>

\* Mutant: radio_mode is not updated.
SleepModeKept(warm) ==
    IF lora.radio_mode = "Sleep" THEN <<>>
    ELSE <<Do("ensure_ready"),
           Cmd("set_sleep", warm, [cold_start |-> lora.cold_start \/ ~warm])>>

Sleep(warm) ==
    IF lora.radio_mode = "Sleep" THEN <<>>
    ELSE <<Do("ensure_ready"),
           Cmd("set_sleep", warm,
               [radio_mode |-> "Sleep",
                cold_start |-> lora.cold_start \/ ~warm])>>

\* The payload length check returns as a failed ensure_ready does.
PrepareForTx ==
    PrepareModem
    \o <<Set("modulation", "Transmit"), Set("power", "Transmit"),
         Do("ensure_ready"),
         Set("packet", "Transmit"), Set("channel", "Transmit"),
         Cmd("payload", "Transmit", [radio_mode |-> "Transmit"]),
         Do("set_irq_params")>>

PrepareForRx(m) ==
    PrepareModem
    \o <<Set("modulation", "Receive"), Set("packet", "Receive"),
         Cmd("channel", "Receive", [radio_mode |-> m]),
         Do("set_irq_params")>>

\* Mutant: the interrupts stay as they were.
PrepareForCadUnmasked ==
    PrepareModem
    \o <<Set("modulation", "Cad"),
         Cmd("channel", "Cad", [radio_mode |-> "Cad"])>>

PrepareForCad ==
    PrepareModem
    \o <<Set("modulation", "Cad"),
         Cmd("channel", "Cad", [radio_mode |-> "Cad"]),
         Do("set_irq_params")>>

Listen ==
    PrepareModem
    \o <<Set("channel", "Listen"),
         Cmd("modulation", "Listen", [radio_mode |-> "Listen"]),
         Cmd("do_rx", "Continuous", <<>>)>>

ContinuousWave ==
    PrepareModem
    \o <<Set("packet", "Wave"), Set("modulation", "Wave"), Set("power", "Wave"),
         Do("ensure_ready"),
         Cmd("channel", "Wave", [radio_mode |-> "Transmit"]),
         Do("set_irq_params"), Do("set_tx_continuous_wave_mode")>>

\* process_irq_event with clear_interrupts
ProcessIrq == <<Do("get_irq_state"), Do("clear_irq_flags")>>
AwaitAndProcess == <<Do("await_irq")>> \o ProcessIrq

Tx == <<Do("do_tx")>> \o AwaitAndProcess
DoCad == <<Do("do_cad")>> \o AwaitAndProcess
StartRx == <<Cmd("do_rx", lora.radio_mode, <<>>)>>
RxSwitchChannel ==
    <<Do("set_standby"), Set("channel", "Receive")>> \o StartRx

\* After an error of process_irq_event: the chip is stopped.
Recover ==
    <<Do("ensure_ready"),
      Cmd("set_standby", "None", [radio_mode |-> "Standby"])>>

-----------------------------------------------------------------------------
(* The chip.                                                               *)

\* set_irq_params: the flags enabled for a mode
Enabled(m) ==
    CASE m = "Transmit" ->
            IF kind = "Sx127x" THEN {"TxDone"} ELSE {"TxDone", "Timeout"}
      [] m \in {"Single", "Continuous"} ->
            IF kind = "Sx127x" THEN {"RxDone", "Timeout", "Preamble"} ELSE Flags
      [] m = "Cad" -> {"CadDone"}
      [] m = "Standby" -> IF kind = "Sx127x" THEN {} ELSE Flags
      [] OTHER -> {}

\* An operation starts: what is latched belongs to an earlier one.
Aged(irq) == [f \in Flags |-> IF irq[f] = "New" THEN "Old" ELSE irq[f]]

\* Mutant: no flag is cleared.
FlagsKeptAtStart(c) == Aged(chip.irq)

\* sx127x clears in do_rx, lr1110 in do_tx.
FlagsAtStart(c) ==
    IF <<kind, c>> \in {<<"Sx127x", "do_rx">>, <<"Lr1110", "do_tx">>}
    THEN NoFlags ELSE Aged(chip.irq)

Started(c, m) == [chip EXCEPT !.mode = m, !.heard = FALSE,
                              !.irq = FlagsAtStart(c)]

\* Mutant: flags are cleared unseen.
FlagsAllCleared == NoFlags

\* clear_irq_status clears every flag; lr1110's process_irq_event the ones read.
FlagsCleared ==
    IF kind = "Lr1110"
    THEN [f \in Flags |-> IF call.seen.irq[f] # "Clear" THEN "Clear"
                          ELSE chip.irq[f]]
    ELSE NoFlags

\* Only the sx126x and the lr1110 lose their settings in a cold sleep.
Asleep(warm) ==
    IF warm \/ ~HasBusy THEN [chip EXCEPT !.mode = "Sleep"]
    ELSE [BlankChip EXCEPT !.mode = "Sleep"]

\* A setting is written: the ones of another purpose count no longer.
Written(s, p) ==
    [for |-> p, set |-> {s} \cup IF chip.cfg.for = p THEN chip.cfg.set ELSE {}]

\* The chip after a RadioKind call.  The first one that a sleeping chip with a
\* BUSY line gets wakes it and does nothing more.
After(c) ==
    CASE c.cmd = "reset" ->
            [BlankChip EXCEPT !.mode = IF HasBusy THEN "Standby" ELSE "Sleep"]
      [] c.cmd # "reset" /\ HasBusy /\ chip.mode = "Sleep" ->
            [chip EXCEPT !.mode = "Standby"]
      [] OTHER ->
         CASE c.cmd = "set_standby" -> [chip EXCEPT !.mode = "Standby"]
           [] c.cmd = "set_sleep" -> Asleep(c.arg)
           [] c.cmd = "init_lora" ->
                 [chip EXCEPT !.init = TRUE, !.sync = lora.sync_word]
           [] c.cmd = "set_lora_sync_word" -> [chip EXCEPT !.sync = c.arg]
           [] c.cmd = "calibrate_image" -> [chip EXCEPT !.calibrated = TRUE]
           [] c.cmd = "set_irq_params" ->
                 [chip EXCEPT !.mask = Enabled(lora.radio_mode),
                              !.irq = IF kind = "Sx127x" THEN NoFlags ELSE @]
           [] c.cmd \in Settings -> [chip EXCEPT !.cfg = Written(c.cmd, c.arg)]
           [] c.cmd = "do_tx" -> Started("do_tx", "Tx")
           [] c.cmd = "do_rx" ->
                 Started("do_rx", IF c.arg = "Single" THEN "RxSingle"
                                  ELSE "RxContinuous")
           [] c.cmd = "do_cad" -> Started("do_cad", "Cad")
           [] c.cmd = "set_tx_continuous_wave_mode" ->
                 [chip EXCEPT !.mode = "Wave"]
           [] c.cmd = "clear_irq_flags" -> [chip EXCEPT !.irq = FlagsCleared]
           [] c.cmd = "clear_irq_status" -> [chip EXCEPT !.irq = NoFlags]
           [] OTHER -> chip

\* The level await_irq waits for.
Dio == \E f \in chip.mask : chip.irq[f] # "Clear"

Raise(f, m, heard) ==
    chip' = [chip EXCEPT !.mode = m, !.heard = heard,
                         !.irq[f] = IF f \in chip.mask THEN "New" ELSE @]

\* The receive timer stops at the preamble.
ChipHears ==
    /\ chip.mode \in {"RxSingle", "RxContinuous"} /\ ~chip.heard
    /\ Raise("Preamble", chip.mode, TRUE)
    /\ UNCHANGED <<lora, call, caller>>

ChipEnds ==
    /\ \/ /\ chip.mode \in {"RxSingle", "RxContinuous"} /\ chip.heard
          /\ Raise("RxDone",
                   IF chip.mode = "RxSingle" THEN "Standby" ELSE chip.mode,
                   FALSE)
       \/ /\ chip.mode = "RxSingle" /\ ~chip.heard
          /\ Raise("Timeout", "Standby", FALSE)
       \/ /\ chip.mode = "Tx"
          /\ Raise("TxDone", "Standby", FALSE)
       \/ /\ chip.mode = "Cad"
          /\ Raise("CadDone", "Standby", FALSE)
    /\ UNCHANGED <<lora, call, caller>>

-----------------------------------------------------------------------------
(* Calls.                                                                  *)

Returned(result) ==
    [op |-> "none", todo |-> <<>>, seen |-> NoRead, result |-> result]

\* Only sleep has nothing to do at times.
Invoke(op, script) ==
    call' = IF script = <<>> THEN Returned("Returned")
            ELSE [op |-> op, todo |-> script, seen |-> NoRead,
                  result |-> "Pending"]

\* LoRa::with_syncword_raw
NewLoRa(w) == [radio_mode |-> "Sleep", sync_word |-> w, cold_start |-> TRUE,
               calibrate_image |-> TRUE]

Construct(w) ==
    /\ lora = NewLoRa(w)
    /\ chip = BlankChip
    /\ call = [op |-> "new", todo |-> LoRaInit, seen |-> NoRead,
               result |-> "Pending"]
    /\ caller = [standing |-> "Unknown", asked |-> {}]

\* The constructor failed and is called again.
New ==
    /\ call.result = "Unbuilt"
    /\ Invoke("new", LoRaInit)
    /\ lora' = NewLoRa(lora.sync_word)
    /\ UNCHANGED <<chip, caller>>

Free == call.result = "Returned"

InitLoRa ==
    /\ Free
    /\ Invoke("init", LoRaInit)
    /\ lora' = [lora EXCEPT !.cold_start = TRUE]
    /\ UNCHANGED <<chip, caller>>

SetSyncWord ==
    /\ Free
    /\ \E w \in SyncWords :
          /\ Invoke("set_lora_sync_word", SetLoraSyncWord(w))
          /\ caller' = [caller EXCEPT !.asked = @ \cup {w}]
    /\ UNCHANGED <<lora, chip>>

Configure ==
    /\ Free
    /\ \/ Invoke("enter_standby", EnterStandby)
       \/ \E warm \in BOOLEAN : Invoke("sleep", Sleep(warm))
       \/ Invoke("prepare_for_tx", PrepareForTx)
       \/ \E m \in RxModes : Invoke("prepare_for_rx", PrepareForRx(m))
       \/ Invoke("prepare_for_cad", PrepareForCad)
       \/ Invoke("listen", Listen)
       \/ Invoke("continuous_wave", ContinuousWave)
       \/ Invoke("clear_irq_status", <<Do("clear_irq_status")>>)
    /\ UNCHANGED <<lora, chip, caller>>

\* The guards of these methods look at radio_mode only.
Operate ==
    /\ Free
    /\ caller.standing \notin {"Unknown", "Wave"}
    /\ \/ lora.radio_mode = "Transmit" /\ Invoke("tx", Tx)
       \/ lora.radio_mode = "Cad" /\ Invoke("cad", DoCad)
       \/ /\ lora.radio_mode \in RxModes
          /\ \/ Invoke("start_rx", StartRx)
             \/ Invoke("rx_switch_channel", RxSwitchChannel)
             \/ Invoke("rx", StartRx \o ProcessIrq)
             \/ caller.standing = "Started" /\ Invoke("complete_rx", ProcessIrq)
    /\ UNCHANGED <<lora, chip, caller>>

-----------------------------------------------------------------------------
(* The method under way.                                                   *)

Pending == call.todo # <<>>
Current == Head(call.todo)
At(c) == Pending /\ Current.cmd = c

\* What the caller may do after a method has returned Ok.
StandingAfter ==
    CASE call.op \in {"start_rx", "rx_switch_channel"} -> "Started"
      [] call.op \in {"rx", "complete_rx"} ->
            IF lora.radio_mode = "Continuous" THEN "Started" ELSE "Fresh"
      [] call.op = "continuous_wave" -> "Wave"
      [] call.op \in {"enter_standby", "clear_irq_status"} ->
            IF caller.standing = "Started" THEN "Fresh" ELSE caller.standing
      [] OTHER -> "Fresh"

\* A constructor that fails returns no LoRa.
ReturnErr == Returned(IF call.op = "new" THEN "Unbuilt" ELSE "Returned")

\* The method goes on with `rest`, or returns.
Continue(rest) ==
    IF rest # <<>>
    THEN /\ call' = [call EXCEPT !.todo = rest, !.seen = NoRead]
         /\ UNCHANGED caller
    ELSE IF call.result = "Failing"
    THEN /\ call' = ReturnErr
         /\ UNCHANGED caller
    ELSE /\ call' = Returned("Returned")
         /\ caller' = [standing |-> StandingAfter,
                       asked |-> IF call.op = "set_lora_sync_word" THEN {}
                                 ELSE caller.asked]

Assign(upd) ==
    lora' = [f \in DOMAIN lora |-> IF f \in DOMAIN upd THEN upd[f] ELSE lora[f]]

\* ensure_ready waits for BUSY, and wakes the chip only if radio_mode is Sleep.
Blocked ==
    /\ Current.cmd = "ensure_ready"
    /\ HasBusy /\ chip.mode = "Sleep" /\ lora.radio_mode # "Sleep"

Command ==
    /\ Pending
    /\ Current.cmd \notin {"await_irq", "get_irq_state", "clear_irq_flags"}
    /\ ~Blocked
    /\ chip' = After(Current)
    /\ Assign(Current.upd)
    /\ Continue(Tail(call.todo))

AwaitIrq ==
    /\ At("await_irq")
    /\ Dio
    /\ Continue(Tail(call.todo))
    /\ UNCHANGED <<lora, chip>>

GetIrqState ==
    /\ At("get_irq_state")
    /\ call' = [call EXCEPT !.todo = Tail(@),
                            !.seen = [ok |-> TRUE, irq |-> chip.irq]]
    /\ UNCHANGED <<lora, chip, caller>>

\* get_irq_state, interpret_irq_flags: the flag that decides
Decisive(m, irq) ==
    LET Is(f) == irq[f] # "Clear" IN
    CASE m = "Transmit" /\ Is("TxDone") -> "TxDone"
      [] m = "Transmit" /\ Is("Timeout") /\ kind # "Sx127x" /\ ~Is("TxDone") ->
            "Timeout"
      [] m = "Transmit" /\ kind = "Lr1110" /\ irq = NoFlags -> "TxDone"
      [] m \in {"Single", "Continuous"} /\ Is("RxDone") -> "RxDone"
      [] m \in {"Single", "Continuous"} /\ Is("Timeout") /\ ~Is("RxDone") ->
            "Timeout"
      [] m = "Cad" /\ Is("CadDone") -> "CadDone"
      [] OTHER -> "None"

IrqOutcome ==
    IF ~call.seen.ok THEN "Timeout" ELSE Decisive(lora.radio_mode, call.seen.irq)

\* The branch of tx, complete_rx and cad for an error of process_irq_event.
IrqError ==
    /\ IF lora.radio_mode = "Continuous"
       THEN call' = ReturnErr
       ELSE call' = [call EXCEPT !.todo = Recover, !.seen = NoRead,
                                 !.result = "Failing"]
    /\ UNCHANGED <<lora, caller>>

\* handle_implicit_header_mode is sx126x's.
ReadPacket ==
    (IF kind = "Sx126x" /\ lora.radio_mode = "Single"
     THEN <<Do("handle_implicit_header_mode")>> ELSE <<>>)
    \o <<Do("get_rx_payload"), Do("get_rx_packet_status")>>

ClearIrqFlags ==
    /\ At("clear_irq_flags")
    /\ chip' = After(Current)
    /\ \/ /\ IrqOutcome = "TxDone"
          /\ Assign([radio_mode |-> "Standby"])
          /\ Continue(<<>>)
       \/ /\ IrqOutcome = "RxDone"
          /\ Continue(ReadPacket)
          /\ UNCHANGED lora
       \/ /\ IrqOutcome = "CadDone"
          /\ Continue(<<Cmd("set_standby", "None", [radio_mode |-> "Standby"])>>)
          /\ UNCHANGED lora
       \/ /\ IrqOutcome = "Timeout"
          /\ IrqError
       \/ /\ IrqOutcome = "None"
          /\ IF call.op = "cad"
             THEN call' = Returned("Panic")
             ELSE call' = [call EXCEPT !.todo = AwaitAndProcess, !.seen = NoRead]
          /\ UNCHANGED <<lora, caller>>

\* A call that fails has either had no effect or failed in what it awaits after
\* its command (BUSY, the RF switch): nothing follows these commands.
ErrsBeforeEffect ==
    {"set_sleep"} \cup (IF HasBusy THEN {} ELSE {"do_tx", "do_rx", "do_cad"})

Fault ==
    /\ Pending /\ call.op \in Faulty
    /\ chip' = chip
       \/ /\ Current.cmd \notin ErrsBeforeEffect \cup {"await_irq"}
          /\ ~Blocked
          /\ chip' = After(Current)
    /\ CASE Current.cmd = "get_irq_state" /\ kind # "Lr1110" ->
               /\ call' = [call EXCEPT !.todo = Tail(@), !.seen.ok = FALSE]
               /\ UNCHANGED <<lora, caller>>
         [] \/ Current.cmd = "get_irq_state" /\ kind = "Lr1110"
            \/ Current.cmd \in {"clear_irq_flags", "handle_implicit_header_mode"}
            -> IrqError
         [] OTHER ->
               /\ call' = ReturnErr
               /\ caller' = [caller EXCEPT !.standing = "Unknown"]
               /\ UNCHANGED lora

Drop ==
    /\ Pending /\ call.op \in Droppable
    /\ chip' = chip \/ (~Blocked /\ chip' = After(Current))
    /\ call' = ReturnErr
    /\ caller' = [caller EXCEPT !.standing = "Unknown"]
    /\ UNCHANGED lora

Run == Command \/ AwaitIrq \/ GetIrqState \/ ClearIrqFlags

Init == kind \in Chips /\ \E w \in SyncWords : Construct(w)

Next ==
    /\ UNCHANGED kind
    /\ \/ New \/ InitLoRa \/ SetSyncWord \/ Configure \/ Operate
       \/ Run \/ Fault \/ Drop
       \/ ChipHears \/ ChipEnds

Spec == Init /\ [][Next]_vars

\* A future that is polled goes on, and a chip that has started ends.
FairSpec ==
    /\ Spec
    /\ WF_vars(Run /\ UNCHANGED kind)
    /\ WF_vars((ChipHears \/ ChipEnds) /\ UNCHANGED kind)

-----------------------------------------------------------------------------
(* Properties.                                                             *)

Uses(p, settings) == chip.cfg.for = p /\ settings \subseteq chip.cfg.set

\* Whatever calls were made before, whichever of them failed, and whatever the
\* chip forgot in its sleep: when it sends, receives or scans, it has been
\* initialised since, its image rejection is calibrated, its sync word is the
\* one in force, its settings were all written for this operation, the
\* interrupts that end the operation are enabled, and radio_mode says so.
OnAirReady ==
    /\ chip.mode \notin {"Sleep", "Standby"} =>
          /\ chip.init /\ chip.calibrated
          /\ chip.sync \in {lora.sync_word} \cup caller.asked
    /\ chip.mode = "Tx" =>
          /\ lora.radio_mode = "Transmit" /\ Uses("Transmit", Settings)
          /\ "TxDone" \in chip.mask
    /\ chip.mode = "Wave" =>
          /\ lora.radio_mode = "Transmit"
          /\ Uses("Wave", Settings \ {"payload"})
    /\ chip.mode = "Cad" =>
          /\ lora.radio_mode = "Cad" /\ Uses("Cad", {"modulation", "channel"})
          /\ "CadDone" \in chip.mask
    /\ chip.mode \in {"RxSingle", "RxContinuous"} =>
          \/ /\ lora.radio_mode = "Listen" /\ chip.mode = "RxContinuous"
             /\ Uses("Listen", {"modulation", "channel"})
          \/ /\ lora.radio_mode = IF chip.mode = "RxSingle" THEN "Single"
                                  ELSE "Continuous"
             /\ Uses("Receive", {"modulation", "packet", "channel"})
             /\ {"RxDone", "Timeout"} \subseteq chip.mask

\* ensure_ready wakes the chip only if radio_mode is Sleep, and otherwise waits
\* for a BUSY line that a sleeping chip never releases: radio_mode must never
\* be anything else while the chip sleeps, but inside sleep itself.
AsleepKnown ==
    HasBusy /\ chip.mode = "Sleep" =>
        lora.radio_mode = "Sleep" \/ (call.op = "sleep" /\ Pending)

\* `lr1110/mod.rs`: an interrupt that fires between the status read and the
\* clear must not be wiped unseen.  A method that waits for the interrupt of an
\* operation that the chip has ended finds the line raised, on every chip and
\* on the Lr1110, whose driver clears no more than it has read.
WakeUpComesAnywhere ==
    At("await_irq") /\ chip.mode \in {"Sleep", "Standby"} => Dio
WakeUpComes == kind = "Lr1110" => WakeUpComesAnywhere

\* cad's unreachable!() is not reached: when the line is raised during a scan,
\* the scan has ended, whatever earlier operations left latched.
NoPanic == call.result # "Panic"

\* `sx127x/mod.rs`, do_rx: a flag left over from an earlier operation cannot
\* read as a result of this one.  What rx and complete_rx report was raised
\* after the receive was started, on the chip whose do_rx clears the flags.
RxResultFresh ==
    kind = "Sx127x" /\ At("clear_irq_flags") /\ call.op \in {"rx", "complete_rx"} /\ call.seen.ok =>
        LET f == Decisive(lora.radio_mode, call.seen.irq) IN
        f # "None" => call.seen.irq[f] = "New"

\* On the Lr1110 tx, cad and a single receive return, whichever interrupts were
\* left over and however the chip's interrupts fall between the steps of process_irq_event.
OperationEnds ==
    (kind = "Lr1110" /\ Pending /\ call.op \in {"tx", "cad", "rx", "complete_rx"}
             /\ lora.radio_mode # "Continuous")
        ~> ~Pending
=============================================================================
