# lora-rs in TLA+

This directory holds TLA+ specifications of the core logic of lora-rs, the TLC
configurations that model-check them on small instances, and TLAPS proofs of
their main properties for every value of the constants. `PROJECT.json` is the
machine-readable index: components, runs, mutants, the map from definitions to
source lines, findings, hazards and theorems.

Paths below are relative to the repository root (`src/` in `PROJECT.json`).

## 1. The system

lora-rs is a set of Rust crates for LoRaWAN end devices.

| Part | Where | State | Operations |
|---|---|---|---|
| Session | `lorawan-device/src/mac/session.rs`, `mac/uplink/mod.rs` | uplink and downlink counters, ADR count, pending MAC answers, acknowledgement owed | `handle_rx`, `rx2_complete`, `prepare_buffer`, `handle_downlink_macs` |
| MAC | `mac/mod.rs`, `mac/otaa.rs` | join state, session, configuration (data rate, delays, ADR) | `join_otaa`, `join_abp`, `set_session`, `send`, `handle_rx`, `rx2_complete`, `get_rx_delay` |
| Non-blocking device | `nb_device/` | state machine Idle, SendingData, WaitingForRxWindow, WaitingForRx | `handle_event`, `join`, `send`, `get_session`, `set_session`, ... |
| Async device | `async_device/` | MAC, radio buffer, downlink queue, class C flag | `join`, `send`, `rx_downlink`, `between_windows`, `rxc_listen` |
| Multicast, certification | `mac/multicast.rs`, `mac/certification.rs` | group sessions and pending setup answers; test-mode overrides | setup messages, multicast frames, test commands |
| Regions | `region/` | channel plan, channel mask, join channel rotation | channel selection, `channel_mask_update`, `process_join_accept`, `handle_new_channel` |
| PHY driver | `lora-phy/src/lib.rs`, `lorawan_radio.rs` | radio mode, calibration and cold-start flags | `init`, `sleep`, `prepare_for_tx`, `tx`, `prepare_for_rx`, `complete_rx` |
| Radio chips | `lora-phy/src/{sx126x,sx127x,lr1110}` | chip registers | `RadioKind` methods, IRQ processing |
| Encoding | `lorawan-encoding/` | none | parse and build frames and MAC commands, keys |
| Modulation | `lora-modulation/` | none | symbol time, time on air |

How they interact: the application calls the device; the device calls the MAC
(`&mut Mac`, synchronously) to build uplinks and to interpret what the radio
heard, and the radio (`PhyRxTx`) to transmit and receive; the MAC calls the
region for channels, data rates and masks. The non-blocking device never waits:
it answers every event with a `Response`, among them `TimeoutRequest(t)`, and
relies on its client to deliver `TimeoutFired`. Nothing here runs in parallel,
but everything outside the MAC can interleave: the radio's events, the timer,
frames on the air and the application's calls arrive in any order.

What is hard here, and what makes each part correct:

- *Downlink counter.* Only 16 of 32 bits are on the wire. Correct: no frame is
  accepted twice or out of order, and no genuine frame within `MAX_FCNT_GAP`
  is lost, across wraps.
- *Uplink counter.* It moves at the end of an exchange, which can end in many
  ways (downlink, oversized frame, empty windows, radio errors, a new session,
  a restored one, a reboot). Correct: a counter is never reused in a session.
- *MAC answers.* Sticky answers are repeated until confirmed, others are sent
  once. Correct: an answer is not lost before it had its chance.
- *ADR.* Backoff after `ADR_ACK_LIMIT + k * ADR_ACK_DELAY` silent uplinks.
  Correct: it happens at all steps, and never before the network was asked.
- *Windows.* RX1 and RX2 are fixed times after the end of the transmission, on
  a clock that wraps. Correct: both are kept, RX1 makes room for RX2, and the
  exchange ends.
- *Class C.* Frames arrive between the windows of an exchange. Correct: they
  neither move the windows nor end the exchange, and every call returns.
- *Radio driver.* The driver keeps its own idea of the chip's mode and setup
  while commands fail, futures are dropped and interrupts arrive between any
  two commands. Correct: the chip is on the air only when completely set up for
  the operation, no interrupt is lost, and what is reported belongs to this
  operation.
- *MAC commands and channels.* A downlink carries a stream of commands; a block
  of LinkADRReq is decided by its last one and told apart by peeking. Masks are
  validated against channels and rates that change later, and the choice of a
  channel draws until it finds one. Correct: every request is answered as far as
  there is room, the network's mask is obeyed, the draw ends, and the
  configuration is usable whatever was received.
- *Joining.* A fixed plan rotates over its banks, possibly starting in a
  preferred sub-band. Correct: the banks are used up evenly.
- *Packages.* Multicast and certification answer from inside a reception, with
  the uplink counter of that moment. Correct: a multicast count is delivered
  once, an answer belongs to its request, counters are not repeated.
- *Codecs.* Several fields share a byte, or a register of the radio, and are
  written in any order; lengths decide where fields lie. Correct: what is
  written is what is read, and a damaged frame is refused.

`PROJECT.json` lists the hazards at their lines with the properties that cover
them.

## 2. Modules

```
FrameCounter            next_fcnt_down on counters of any width
  DownlinkFreshness     a network, a faulty link and Session.fcnt_down
  SessionContract       abstract: what a device promises about its counters
  MacSession            the MAC as operators: mac -> [mac, response, data]
    NbDevice            the event-driven device, its radio, client and link
    AsyncDevice         the async device at its awaits, class A and class C
Regions                 data rates, powers, frequencies, offsets of all regions
  ChannelPlan           dynamic and fixed plans: channels, masks, join rotation
    MacCommands         streams of MAC commands, joins, the uplinks that follow
Packages                multicast and certification over the async device
LoRaPhy                 the radio driver, await by await, and the chip
CommandStream           streams of MAC commands, the command sets, saved answers
  CommandCodec          creators and payloads, bit by bit
FrameCodec              data frames, join requests, join accepts
ChipRegisters           what the drivers write into the chips; air time
MCDownlinkFreshness, MCNbDevice, MCAsyncDevice, MCMacCommands, MCPackages,
MCCodecs (CommandCodec, FrameCodec and ChipRegisters)      instances for TLC
FrameCounterProofs      lemmas on % and \div; next_fcnt_down is exact
  WireProofs            counters, frames and command streams on the wire
  MacSessionProofs      what each MAC operator may change
    NbDeviceProofs      invariants of NbDevice; it implements SessionContract
    AsyncDeviceProofs   the same for AsyncDevice
MacCommandsProofs       command streams, joins and the choice of channels
PackagesProofs          multicast counts, uplink counters of the packages
LoRaPhyProofs           the radio driver, command by command
```

A question is asked of the module that keeps the state it is about, and the
modules meet in the operators: `MacSession` has the counters and one MAC command
per carrier, `MacCommands` whole streams and the region behind them, `Packages`
the two application protocols on top of an accepted frame.

Definitions marked `Mutant:` are plausible bugs of the definition that follows
them. No specification uses them; each one shows that some property would
notice (`PROJECT.json`, `mutants`).

### FrameCounter, DownlinkFreshness

`NextFcntDown` is `next_fcnt_down`: `Reconstruct` rebuilds the counter (the high
half wraps as `wrapping_add` does), `Fresh` is `checked_sub` and the match on the
gap. `WireMod` stands for 2^16, `WireMod * Epochs` for 2^32. The MIC covers the
whole counter, so it is valid exactly when the rebuilt counter is the sender's.

`DownlinkFreshness` adds a network that counts (`NetworkSend`, external) and a
link that delivers any frame sent so far at any time and any number of times.
`delivered` is a history variable.

### MacSession

The MAC is a library of synchronous methods on one `Mac`, so each method is an
operator that returns the new MAC, the `Response` and whether application data
was pushed. `SessionHandleRx`, `SessionRx2Complete`, `PrepareBuffer`,
`OtaaHandleRx`, `HandleRx`, `Rx2Complete`, `GetRxDelay` have the order and the
early returns of the code: for instance an oversized frame ends the exchange
through `rx2_complete`, and the answers are cleared before the counter and the
MIC are looked at.

Abstractions:
- default features: `certification` and `multicast` are in `Packages`;
- a frame is a record; `genuine` says that it was made with this session's (or
  this join's) keys, `fcnt` is the sender's whole counter;
- the queue of answers is the set of their kinds. At most one MAC command per
  carrier (FOpts, port-0 payload), so at most two answers are queued, six bytes
  of the fifteen that fit (`MacCommands` has streams and the queue in bytes). `LinkADRReq.valid` is the region's verdict on mask
  and power; the parameters of the channel commands are left out, because
  nothing here depends on them;
- key derivation, RF parameters and power are left out;
- `fport` is left out: 0 moves the answers from FOpts to the payload, with the
  same effect on the queue (data on port 0 panics, a precondition of `send`).

### NbDevice

State: `device` (the state and its fields), `mac`, `downlink` (length of the
queue), `timer` (the client's), `saved` (the session the application keeps) and
the history `hist`, which no guard reads.

| Action | Code |
|---|---|
| `Join`, `Send` | `Idle::handle_event`, `Event::Join` and `Event::SendDataRequest` with the call to the radio: `TxAccepted` (Txing, TxDone) or `TxRefused` (error or other answer) |
| `TxComplete`, `TxUnexpected` | `SendingData::handle_event`, with its panic |
| `OpenWindow` | `WaitingForRxWindow::handle_event` on `TimeoutFired` |
| `CloseWindow1`, `CloseWindow2` | `WaitingForRx::handle_event` on `TimeoutFired` |
| `Receive` | `WaitingForRx::handle_event` on `RadioEvent` with `RxDone` |
| `StaleTimeout` | `TimeoutFired` in the other states |
| `JoinAbp`, `GetSession`, `SetSession`, `SetAdrEnabled`, `SetDatarate`, `TakeDownlink` | the methods of `Device`, in any state |
| `Reboot` | power loss, or a watchdog after the panic: `Device::new` |

Events a state refuses (an error or `NoUpdate`) change nothing and are the
stuttering steps of the specification; so are events on which the radio returns
an error, apart from `TxRefused`, where the MAC has already changed.

Environment:
- the radio may refuse any request; an uplink is on the air when `TxRequest`
  answers `Txing` or `TxDone`, and not otherwise;
- the client keeps one timer, set to the last `TimeoutRequest`. A failed
  `RxRequest` or `CancelRx` asks for no new timeout, so the client fires again;
- arithmetic on times wraps, as in builds without overflow checks;
- the application sets data rates the region has (others panic at the next
  uplink) and may take a snapshot of the session at any time. A snapshot taken
  while idle with nothing sent since is `current`; restoring any other starts a
  new history, because the counters used meanwhile are lost by the
  application, not by the device.

### AsyncDevice

`join`, `send` and `rxc_listen` borrow the device for as long as their future
lives, so one of them at most is under way (`fut.call`), and nothing else runs
meanwhile. `fut.at` is the await it stands at; an action is the code from one
await to the next.

| Action | Code |
|---|---|
| `Join`, `Send`, `RxcListen` | the calls, up to their first await |
| `TxDone` | `radio.tx` is over: `timer.reset`, RX1's start |
| `Armed` | `between_windows` has put the radio to sleep (class A) or into the RXC window (class C) |
| `TimerFires`, `RxcError` | the other outcomes of `rxc_listen_until_timeout` |
| `RxcFrame`, `RxcNotJoined` | a frame in the RXC window, before RX1 or RX2 or in `rxc_listen` |
| `SetupDone`, `RxFrame`, `RxTimeout` | `setup_rx` and `rx_single` of RX1 or RX2 |
| `Answered`, `Rx1Empty`, `Rx2Empty` | after `window_complete`: return, go on with RX2, or `rx2_complete` |
| `Abort` | the radio fails, or the application drops the future, at any await |
| `SetClassC`, `JoinAbp`, `GetSession`, `SetAdrEnabled`, `SetDatarate`, `TakeDownlink` | the methods that do not wait |
| `Reboot` | power loss, or a watchdog after a panic: `new_with_session` |

A response that a call's result type cannot express panics (`Return`,
`Convertible`). An uplink counts as on the air from the call of `radio.tx` on.
RF parameters are left out: the link may deliver any frame in any window.

### LoRaPhy

A method of `LoRa` is a sequence of `RadioKind` calls with assignments in
between. `call.todo` holds the calls still to make; `Command` makes the next one
and carries out the assignments that follow it, so that the chip's steps, a
failure (`Fault`) or the end of the caller's patience (`Drop`) can come at every
await.

| Action | Code |
|---|---|
| `New`, `InitLoRa`, `SetSyncWord`, `Configure` | the constructor, `init`, `set_lora_sync_word`; `enter_standby`, `sleep`, `prepare_for_tx`, `prepare_for_rx`, `prepare_for_cad`, `listen`, `continuous_wave`, `clear_irq_status` |
| `Operate` | `tx`, `cad`, `start_rx`, `rx_switch_channel`, `rx`, `complete_rx`, with their guards on `radio_mode` |
| `Command` | the next `RadioKind` call |
| `AwaitIrq`, `GetIrqState`, `ClearIrqFlags` | `wait_for_irq` and the two commands of `process_irq_event`, with what the method does with the outcome |
| `Fault`, `Drop` | a call returns an error, before or after its effect; the future is dropped |
| `ChipHears`, `ChipEnds` | the chip (external) |

The chip keeps its mode, whether it was initialised and calibrated, its sync
word, for which purpose which settings were written last, the interrupt mask
and the latched flags. A flag is `New` if it was raised since the last start of
an operation and `Old` otherwise. `kind`, chosen from `Chips` at the start, is the driver: which interrupts a
mode enables, which calls clear flags, whether a sleeping chip holds BUSY.
`chip.mask` is both what may be latched and what raises the DIO line; on the
sx127x all lines in use are taken as connected (`new_with_secondary_irq`).

`caller` holds what a caller has to respect: it prepares again after an error
or a dropped future, it does not send after `continuous_wave`, and it calls
`complete_rx` for a reception it has started. Without the first, `tx` after a
failed `prepare_for_tx` would start with another mode's interrupts. The async
device keeps to it except in `rxc_listen`, which calls `rx` without preparing:
what that does after a failed or dropped preparation is not covered (section 5).
Left out: `RxMode::DutyCycle`, `get_rssi`, `get_rx_result` and `get_irq_state` of
`LoRa` (they change nothing). The values of frequencies and parameters are in
`ChipRegisters`.

### Regions, ChannelPlan, MacCommands

`Regions` is the tables of `region/`: data rates, payload limits, powers,
frequency ranges, RX1 offsets and defaults of the nine regions, with the numbers
of the code. `ChannelPlan` is the two kinds of plan as operators on a record with
the channels, the mask and the `JoinChannels`: `GetNextChannel` is the rotation,
`ChannelMaskUpdate` and `ChannelMaskValidate` the two halves of LinkADRReq,
`SelectJoinChannel` and `SelectDataChannel` return the set of outcomes of the
random draw, empty if the draw never ends.

| Action of `MacCommands` | Code |
|---|---|
| `JoinOtaa`, `JoinAccept` | `Mac::join_otaa`, `Otaa::handle_rx` with CFList, delay, offset and RX2 rate |
| `Send`, `SendSpins` | `prepare_buffer` and the choice of the channel, which may not end |
| `SetDatarate` | the application, or the ADR backoff of `rx2_complete` |
| `Downlink`, `StreamEnds` | the start of `handle_downlink_macs` for FOpts and for a port 0 payload, and its end |
| `LinkADRReq`, `DevStatusReq`, `DlChannelReq`, `NewChannelReq`, `RXParamSetupReq`, `RXTimingSetupReq`, `IgnoredCommand` | the arms of its match |
| `Halted` | a panic, or a draw without end: nothing more happens |

The loop over a stream takes a step per command, chosen as it goes; `loop.peek`
is the kind of the next one, which is all the code looks at. A bank has
`BankSize` channels (8) and there are `Banks` of them (8) with 125 kHz and one
with 500 kHz; the queue of answers counts bytes up to `FoptsMaxLen` (15). Three
history variables: `asked` counts the requests of a downlink, `maskHere` and
`eroded` say whether the network installed a mask in this session and whether
something it was validated against has changed since.

### Packages

The async device with the `multicast` and `certification` features. Frames for
the device are authentic and fresh here (that is `MacSession`'s subject); kept are
the group sessions, the pending setup answers, the overrides of the test mode,
the uplink counter and the await at which `send` or `rxc_listen` stands
(`task.at`), with the answer the radio is sending there (`task.airing`).

| Action | Code |
|---|---|
| `SetMulticastKeKey`, `SetMulticastSession`, `SetRemoteSetupPort`, `EnableClassC`, `TakeDownlink` | the methods that do not wait |
| `Send`, `TxDone`, `WindowOpens`, `RxTimeout` | `send` and its windows |
| `ReceiveApp`, `ReceiveSetup`, `ReceiveCertification`, `ReceiveMulticast` | a frame in RX1, RX2, between them in class C, or in `rxc_listen`: `handle_rx`, then `handle_mac_response` up to its transmission |
| `AnswerSent` | the rest of `handle_mac_response` |
| `Fail` | the radio fails, or the future is dropped |

`Resolve` is what each caller does with the response. A setup message is a
sequence of commands, `WellFormed` its part before the first that does not parse;
answers have their lengths, so that the buffer of 256 bytes overflows as in the
code. A multicast count is the sender's 32 bits, of which the device sees
`count % WireModulus` (2^16). Keys are names; deriving them is external.

### CommandStream, CommandCodec, FrameCodec, ChipRegisters

`CommandCodec` describes every creator as its setters (field, accepted
arguments, stored bits) and every payload as its readers (field and meaning), on
bytes; `New` and `Set` use a creator in any order of its setters. A number of
several bytes is the tuple of its bytes, the least significant first. `SetTotal`,
`PushGroup` and `EchoPayload` are the setters of the two creators of variable
length, whose octets the parser of `CommandStream` has to find again.

`CommandStream` has the commands that the derive macro makes of the six sets,
with their lengths. `Push`, the `Send...` actions and `NextCommand` build a
stream, cut or garble it or take it through `serialize` and `deserialize`, and
split it with the iterator. It uses no bits, so it can be proved about.

`FrameCodec` builds a frame octet by octet. An octet is a *cell*: the field it
belongs to, its value where the parser looks at it, and what it was encrypted
with. AES and CMAC are ideal (equal outputs mean equal keys and inputs), so two
frames are equal exactly if the code would produce equal bytes, and
`EncryptFrmDataPayload` applied twice with the same block counters is the
identity, as XOR is. `Damage` cuts, lengthens or alters the frame.

`ChipRegisters` is the settings of the drivers in any order: modulation, packet,
power, channel, image calibration, symbol timeout and continuous wave. The
registers of the sx127x are bytes that each setting reads, masks and writes
back; sx126x and lr1110 take commands, whose arguments are kept. `asked` holds
what the caller wanted, and the `...Reads` formulas say what the chip makes of
the registers, from the chips' own encoding of them. `TimeOnAirUs` is compared
with the usual formula, rounded up.

### SessionContract

What an application may rely on: the uplink counter moves by one, the downlink
counter forward by at most the gap, a downlink moves both, and nothing but a
new or a restored session replaces them. `NbDevice` implements it under
`counters <- Counters(mac.session)`, `saved <- Counters(saved)`, and so does
`AsyncDevice`.

## 3. Runs

| Run | Shows | Instance |
|---|---|---|
| `downlink_freshness` | `NoReplay`, `InGapAccepted`, `DeliveredBelow` | wire counter of 4 values, 3 epochs, gap 2: two wraps, then the counter runs out (no deadlock check: it really stops) |
| `nb_counters` | `TypeOK`, `UplinkCounterUnused`, `AdrAckCntBounded`, `StickyQueued`, `ImplementsContract` | counters of 4 values, so that sessions expire; snapshots, ABP, reboots |
| `nb_adr` | `AdrBackoffReached`, `AskedBeforeBackoff` | data rates 0, 1, 3 (a gap at 2), limit 2, delay 2, ten uplinks: both backoff steps, interrupted by LinkADRReq, `set_adr`, new sessions |
| `nb_timing` | `WindowSchedule`, `Rx1ClosesForRx2`, `ExchangeCompletes` | a clock of 64 ticks with transmissions ending just before its wrap, offset -1, windows shorter and longer than the second between RX1 and RX2 |
| `mac_commands` | `TypeOK`, `AdrAnswered`, `JoinChannelsKept`, `DrawEnds`, `MaskObeyed`, `JoinBalanced`, `OnlyKnownPanics`, `ConfigurationUsable` | AS923 (dynamic) and US915 (fixed, with and without a bias) with banks of two channels, an answer queue of six bytes, three commands over any number of downlinks, seven join attempts |
| `async_device` | `UplinkCounterUnused`, `StickyQueued`, `Rx2FollowsRx1`, `ExchangeAnswers`, `ImplementsContract`, `ExchangeCompletes` | counters of two values, so that sessions expire; class A and C, delays that the network changes, a radio that reports the end of the transmission late, failing and dropped calls, restarts with and without a snapshot |
| `phy` | `OnAirReady`, `AsleepKnown`, `WakeUpComes`, `NoPanic`, `RxResultFresh`, `OperationEnds` | lr1110 and sx127x, two sync words, single and continuous reception; calls of the constructor, `set_lora_sync_word`, `sleep`, `prepare_for_rx`, `tx` and `rx` fail, `rx` is dropped |
| `codecs` | `ReadBack`, `StreamParsed`, `FrameAuthentic`, `SettingsAccurate` | three setters on every creator (of the status answer up to three groups, with the total set before, between or after them); streams of up to three commands of every set; all frame types with FOpts of 0, 1, 15 and 16 bytes and payloads of 0, 1 and 17 bytes (two cipher blocks); three settings in any order on eight variants of the chips |
| `packages` | `McFresh`, `AnswersMatchRequest`, `CounterReuseExplained` | six setup messages (one overflows the answers), seven test messages, two sessions of one address with different keys, counts around the wrap of the wire, the setup port inside the multicast range |
| `phy_swallowed` | finding: `WakeUpComesAnywhere` is violated | sx126x |
| `mc_counter_reuse` | finding: `UplinkCounterFresh` is violated | no failures |
| `ldro` | finding: `LdroAgrees` is violated | sx1276 |

`mac_commands` and `phy` have over a million distinct states, `async_device` over
800 000, `codecs` under 500 000, `packages` 170 000; each takes one to three
minutes.

`LoRaPhy` has no counters: its runs need no bound and cover every sequence of
calls. `WakeUpComes` and `OperationEnds` are stated for the lr1110 and
`RxResultFresh` for the sx127x, the drivers whose comments say so: the sx127x
clears all flags as the sx126x does (finding 1), and the sx126x does not clear
them before it starts. On the sx126x `OnAirReady` fails as well, because a stale
flag ends a transmission that is still on the air.

No deadlock check in `downlink_freshness` (the counter runs out), `phy` (a
reception on the sx127x may wait for ever), `codecs` (a behaviour ends when the
frame is read or the bound on the settings is reached) and `packages` (a panic
is the end). `AsyncDevice.TypeOK` and `LoRaPhy.TypeOK` are proved instead of
checked (section 4).

`nb_adr` leaves out snapshots, `set_datarate` and reboots: a restored
`adr_ack_cnt` with a data rate chosen by somebody else starts the count in the
middle, and the backoff steps are then not tied to it.

Why the bounds are enough: counters enter the code only through equality with
the maximum, increments, the split into halves and the gap test, and all of
these occur in the instances (expiry, wrap of the low half, a gap at, below and
above the bound). A bank or a mask is only ever looked at bit by bit, bank by
bank or as a whole, so two channels a bank and two banks show all the cases a
control distinguishes, and the queue's six bytes are full after two or three
answers as the code's fifteen are after five to seven. Setters touch one field
each, so that three calls cover a field, its neighbour and the field again. ADR
compares the count with two thresholds, and the instance
passes both of them twice. The timing instance contains a wrap before, inside
and after a window. The proofs below remove the bounds altogether for the
invariants of the devices, the MAC commands, the packages, the radio driver, the
frames and the command streams.

Fairness (`FairSpec`): weak fairness of `TimeoutFired`, because the client's
contract is to deliver the timeouts it was asked for, again after an error, and
of `TxComplete`, because a radio that began to transmit reports the end. Nothing
is assumed of the network or the application. Frames may arrive in a window
for ever; the window's timer ends it all the same. For `AsyncDevice`: weak
fairness of `Progress`, the steps a call takes of itself, because the radio ends
what it was asked to do, the timer fires and the executor polls the future. The
`select` over radio and timer prefers the radio, but receiving a frame takes far
longer than handling one, so the timer is not starved. Errors, dropped futures
and frames are not assumed. For `LoRaPhy`: a future that is polled takes its next
step, and a chip that has started an operation ends it, by itself or by its own
timer (a preamble that was detected is followed by the end of its packet).

## 4. Proofs

| Theorem | Statement |
|---|---|
| `NextFcntDownSound`, `NextFcntDownExact` | `NextFcntDown` returns only counters ahead by at most the gap, and all of them |
| `FrameCounterTypeOK`, `FrameCounterDeliveredBelow`, `FrameCounterNoReplay`, `FrameCounterInGapAccepted` | the properties of `DownlinkFreshness` |
| `NbDeviceTypeOK`, `NbDeviceUplinkCounterUnused`, `NbDeviceAdrAckCntBounded`, `NbDeviceStickyQueued` | the invariants of `nb_counters` |
| `NbDeviceWindowSchedule`, `NbDeviceRx1ClosesForRx2` | the invariants of `nb_timing` |
| `NbDeviceAdrBackoffReached` | as in `nb_adr`, provided the application neither sets the data rate nor restores sessions |
| `NbDeviceAskedBeforeBackoff` | as in `nb_adr`, with snapshots and reboots too, provided the application does not set the data rate |
| `NbDeviceImplementsContract`, `AsyncDeviceImplementsContract` | refinement of `SessionContract` by both devices |
| `AsyncDeviceTypeOK`, `AsyncDeviceUplinkCounterUnused`, `AsyncDeviceStickyQueued`, `AsyncDeviceRx2FollowsRx1`, `AsyncDeviceExchangeAnswers` | the invariants of `async_device` |
| `MacCommandsTypeOK`, `MacCommandsAdrAnswered`, `MacCommandsJoinChannelsKept`, `MacCommandsDrawEnds`, `MacCommandsMaskObeyed`, `MacCommandsJoinBalanced`, `MacCommandsOnlyKnownPanics`, `MacCommandsConfigurationUsable` | all properties of `mac_commands` |
| `PackagesMcFresh`, `PackagesCounterReuseExplained`, `PackagesAnswersMatchRequest` | the invariants of `packages` |
| `FrameCodecAuthentic` | `FrameAuthentic` of `codecs`, for all lengths, flags and counters |
| `CommandStreamParsed` | `StreamParsed` of `codecs`, for streams of any number of commands, with any payloads, status octets and buffers |
| `LoRaPhyTypeOK`, `LoRaPhyNoPanic`, `LoRaPhyRxResultFresh`, `LoRaPhyWakeUpComes` | the types of `LoRaPhy` and three invariants of `phy`, whichever methods fail or are dropped, on all chips |
| `LoRaPhyAsleepKnown` | as in `phy`, provided `sleep` is not dropped |
| `LoRaPhyOnAirReady` | as in `phy` for sx127x and lr1110, provided `sleep` is not dropped |

The constants are arbitrary up to these assumptions, which TLC evaluates in the
runs: `FrameCounterAssumption` (the gap is smaller than the wire's modulus),
`MacSessionAssumption` (the default data rate is supported, the ADR constants are
positive), `NbDeviceAssumption` and `AsyncDeviceAssumption` (types of the
parameters), `ChannelPlanAssumption` and `MacCommandsAssumption` (an even number
of banks, not more of them than a bank has channels; no more join channels than
channels, rates of four bits), `PackagesAssumption` (counts are naturals, messages
are sequences), `FrameAssumption` (lengths and counters are naturals, flags are
flags) and `LoRaPhyAssumption` (the names of chips, receive modes and methods). So the
counters have any width, a plan any number of banks and the answer queue any
length, and any set of methods of the radio driver may fail or be dropped.

The hypotheses stated with theorems are there because the property fails without
them. A restored `adr_ack_cnt` says nothing of the data rate in use; a data rate
raised from the lowest one makes a backoff step possible that no uplink could
have asked about (TLC finds both when `Api` of `nb_adr` is widened). A `sleep` that is dropped between the command and its book-keeping leaves a
sleeping chip that `radio_mode` does not know; and on the sx126x a stale flag
ends a transmission that is still on the air (section 3).

*NbDevice.* `UplinkCounterUnused` speaks of idle states only and is not
inductive: while an exchange is in flight the counter of the uplink on the air
*is* `fcnt_up`. The inductive invariant `IInv` adds `UplinkInStep` (`lastUp <=
fcnt_up` always), `SnapshotInStep` (a current snapshot is as good as the session
itself, which `SetSession` needs) and `SavedAdrBounded` (the snapshot's ADR
count, for the same reason). `MacSessionProofs` says once what each MAC operator
may change (`SessionHandleRxEffect`: a frame is dropped, oversized or accepted),
and one lemma per group of actions uses it. The windows: `TimingInv` holds
`WindowSchedule` and `Rx1ClosesForRx2`; RX2's time is derived from RX1's, so the
step that closes RX1 needs `WrapSum` (a wrapped sum may be continued), and the
one that opens it `WrapDifference`.

*ADR backoff.* `AdrBackoffReached` is inductive as it stands: the count passes a
threshold in single steps, `BackoffDue` holds exactly there (`ModOfSum`), and a
step takes one element from the set of lower data rates (`NextLowerCount`).
`AskedBeforeBackoff` needs `AskInv`: `AskedInStep` (the uplinks with ADRACKReq
are no fewer than the count above the limit, and one more while an exchange of a
session with counters left is in flight), `AskedWhenOff` (ADR may be switched off
and on in mid-exchange) and `ExpiredUsedUp` with `SnapshotInFlight` (an uplink
that repeats a counter asks nothing new, and only a used-up session sends one).
`StepOutcome` sorts the steps of the device by what they do to the count.

*AsyncDevice.* The lemmas of `MacSessionProofs` again, and for the await at which
the call stands: `FutureInStep` (the call, its await, its response and the state
of the MAC agree), `CountersInStep` (the uplink counter is past the last uplink
unless that one is in flight or was given up, and a current snapshot is as good)
and `WindowsInStep` (until RX1 has given a response, RX1's time is the one the
delays give). The refinement takes each action to one step of the contract or to
none.

*MacCommands.* The invariant has three parts: `Stream` (the loop over the
downlink and the queue it fills; the requests of a block that is not over are
counted and not yet answered), `Settings` (every rate, frequency and offset of
the configuration is one the region has; unless something was taken away since,
the mask serves the data rate; the rotation over the banks has done so many full
rounds and stands at such a bank) and `Control`. `JoinBalanced` follows from the
rotation, `DrawEnds` from the mask.

*Packages.* The last count heard in a multicast session is the one the session
stands at, and between two exchanges the last uplink is behind `fcnt_up` or what
kept it there is on record. A setup message is a fold over its commands; for the
counts nothing needs to be known of it, for a session that it leaves equal goes
on with its history and any other starts a new one. `AnswersMatchRequest` does
need it. That a recursive function on `0 .. n` is what its equation says has to
be shown each time (`SetupRunDef`, `AskedDef`, from the least number principle),
and then the run of a message answers, command by command, what `Asked` collects
(`MessageAnswered`). The inductive invariant is `Answering`: an answer on the air,
or one still to be sent, goes with its request in this way.

*Frames.* `FrameInv` says that what is on the wire is the frame that was built, or
that frame cut short, lengthened or with one octet altered, and that what was
made of it satisfies the property. The work is in the octets. `HeadCells`,
`OutCells`, `DataWire`, `PlainCells` and `JoinAcceptWire` say what stands where in
each kind of frame; `CipherTwice` and `BlockUndone` that the receiver recovers it,
so that an undamaged frame is read as it was built (`...Parsed`). For the others
(`...Rejected`): a MIC remembers the octets it was computed over, so one that is
found in a frame (`HasMic`) is there because nothing before it changed. A cut or
lengthened frame has no MIC in its last four octets; an altered one has it in
place, over other octets; and in a join accept one altered octet garbles its
block of sixteen, or leaves the MIC in clear sight of the wrong octets.

*Streams.* What was built is a concatenation, and a recursive function on `0 .. n`
again, this time inside `FlattenSeq`: from its equation, one more command adds
its own octets at the end (`BuildAppend`). So `LaidOut`, which says where each
command stands, survives every `Push` (`PushKeeps`), and in what is sent, or cut,
or followed by an unknown CID, or restored, the same holds up to its end
(`Arrived`). `StreamInv` adds where the iterator can be: behind as many commands
as it has yielded (`Framed`), at the end after a command that took the rest
(`TookRest`), or behind its one error (`Failed`). `NextCommandKeeps` is the proof
that the length `parse_one` takes from the table, and for a status answer from the
payload itself, is that of the command which stands there; it needs that no two
entries of a table share a CID and none has 255 (`TablesOK`).

*LoRaPhy.* The invariants are about what the chip was told several calls ago, so
the inductive invariant has to say where each method stands. `Stands(todo, x, F)`
says that what is left is a lead (`ensure_ready`, `set_standby`) and an end of
the script `F`; the facts that hold there are indexed by the commands left
(`TxFacts(n)`: n commands before the end, these settings are written).
`Prepared` carries them from a preparation to the operation that relies on it,
`Kept` says that what the chip has lost LoRa knows to repeat, `RxGoing` and
`TxOp` that an operation is going on or has left its flag. `Fitting` collects
what every command of every script has in common, so that one lemma
(`FittingSound`) covers a call that fails after its effect or is dropped there,
wherever that happens; the methods then take a lemma each.

Only model-checked:
- `ExchangeCompletes` and `OperationEnds`: liveness under fairness is out of the
  prover's reach;
- `ReadBack` and `SettingsAccurate`: what bytes and registers hold after shifts
  and masks, in modules that use bitwise operators.

## 5. Findings

Violated by the code, with a run:

1. `phy_swallowed`: the sx126x driver reads the interrupt flags and clears all of
   them; one raised in between is lost, and `complete_rx` waits for ever. The
   lr1110 driver clears what it has read, and says why.
2. `mc_counter_reuse`: `rx2_complete` says that there is no case where FCntUp
   should not be incremented. The answer to a multicast setup request received
   in class C is sent without it, and the next uplink repeats the counter.
3. `ldro`: at SF11 and 125 kHz the sx127x driver's two integer divisions give 16
   ms, and the low data rate optimisation stays off; `lora-modulation` has it on
   from 16.38 ms and names this very case.

Visible in the modules, without a run of their own:

- `session.rs` says of `next_fcnt_down` that the gap bound rejects stale frames
  before the MIC is checked. A frame that is at least 2^16 - `MAX_FCNT_GAP`
  counters old is rebuilt to a counter within the gap; it is the MIC, computed
  over that counter, that rejects it (`NoReplay` holds all the same).
- `uplink/mod.rs` says that certain answers are retained until their
  acknowledgement is confirmed. `handle_rx` clears them on any data frame that
  parses, before counter and MIC are looked at; `StickyQueued` makes that
  exception (`hist.cleared`).
- A `send` that fails at the radio, or is dropped, after its frame went on the
  air does not move the counter either (`UplinkCounterUnused` and
  `CounterReuseExplained` make that exception).
- An oversized frame is meant to be dropped, but is answered with the response of
  `rx2_complete`: `rxc_listen` cannot convert it and panics, and between the
  windows of a class C device it counts as an unanswered uplink.
- With class C enabled, any frame heard while a join waits for its windows ends
  the join with `NotJoined` (`RxcNotJoined`).
- `enter_standby` wakes the chip and leaves `radio_mode` at `Sleep`; a `sleep`
  that follows returns Ok and does nothing.
- sx126x and lr1110 do not clear the flags an abandoned reception left; `do_rx` of
  the sx127x does, and says why.
- *MAC commands.* ChMaskCntl 4 of a fixed plan addresses bank 9 of nine and
  panics; so does DR15 in a join accept. A refused LinkADRReq block leaves its
  mask as the start of the next block of the same downlink. Data
  frames that still follow a join bias go out in the bank of the join, whatever
  the bandwidth of the configured rate. When channels are deleted, or the rate of a fixed plan changes, after
  the mask was validated, the draw of a channel may not end (`eroded`).
- *Radio use.* `rxc_listen` calls `rx_continuous` without `setup_rx`: after a call
  that failed or was dropped while preparing, `rx` starts by `radio_mode` alone,
  which is assigned before `set_irq_params`. Callers in `LoRaPhy` prepare first.
- *Packages.* A multicast frame with count 0 is always accepted and opens the
  counts again, and so does a new setup of the group; a session expires only on the exact maximum. Two groups with one
  address shadow each other. The setup port may be put into the multicast range,
  where setup messages are never seen. More answers than 256 bytes, a
  certification answer completed inside `rxc_listen` and the commands handed to
  the device handler panic. In `between_windows` the `continue` after a new
  session leaves the loop, whose timer is then gone, before the timeout, and what
  it returns is dropped by `rx_downlink`. `rx_app_cnt` is 16 bits wide and overflows.
- *Codecs.* `set_seconds` of `DeviceTimeAns` writes the least significant byte
  first (`maccommandcreator.rs:598`) and `seconds()` takes the first byte for the
  most significant one (`maccommands.rs:507`), so it does not return what was
  set. The two tests pin the two orders: `tests/maccommandcreator.rs:216` lists the
  octets 64, 226, 1, 0 for 123456, and `tests/maccommands.rs:266` reads the octets
  1, 2, 3, 4 as 16909060 (`0x01020304`). A full second of nanoseconds is accepted
  by `set_nano_seconds` and stored as 0. `McGroupDeleteReqCreator` does not clear
  what an earlier call set. These three are the exceptions of `ReadBack` (`Lost`),
  which holds with or without them fixed. `McGroupStatusAnsPayload::new`
  takes a payload one byte short; the parser uses `len`, which is right. `push` of
  `McGroupStatusAnsCreator` does not look for a group pushed before, whose second
  item the parser would leave unread; the device pushes each group once.
- *Chips.* The continuous-wave bit of the sx1276 is never cleared; bandwidths
  below 62.5 kHz keep the errata settings of the last one; the low data rate
  optimisation of sx126x and lr1110 ignores bandwidths below 125 kHz;
  `time_on_air` counts a block where no payload bits are left; `snr`
  overflows at 126 and 127; continuous wave on the sx1272 is a `todo!()`.
  `LorawanRadio::get_rx_window_buffer` returns the lead time.

## 6. Not modelled

- AES and CMAC (ideal in `FrameCodec`), SPI and GPIO access, delays, logging and
  formatting; the embassy timer; the random numbers (every outcome is allowed).
- `RxMode::DutyCycle`; of the lr1110 GFSK, LR-FHSS, the bootloader, Wi-Fi, GNSS and
  direct register and memory access: commands with no state in the driver.
- The fields of a saved session other than the pending answers, which serde
  derives. The parsing of what the derive macros generate is in `CommandCodec`;
  the macros themselves are not.
- Periodic uplinks of the certification (the application's timer), class B.
- The examples and the board support.
- The order of several class C downlinks in the queue (the newest is handed over
  first): the modules keep its length only.

## 7. Running

```
tlc -workers 2 -config MCNbCounters.cfg MCNbDevice
tlapm NbDeviceProofs.tla
```

## 8. Plan

Done: counters, MAC, non-blocking device and contract with their proofs; the
async device; the radio driver; channel plans, MAC commands and join rotation;
packages; codecs and registers.

Proved: every invariant of the runs except those listed at the end of section 4,
for all values of the constants, and both refinements. Left to do: the same for
the bits of `CommandCodec` and the registers of `ChipRegisters`, which needs a
theory of bitwise operators that the prover has not.
