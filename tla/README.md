# esp-platform: specifications, model checks and proofs

TLA+ models of the firmware of a two-chip thermostat: an ESP32-C6 that controls
the relays, keeps the state store and serves BACnet, and an ESP32-H2 that
coordinates the Zigbee network and talks to the C6 over a UART. Each module is
written from the C source named in its header comment.

To check a run: `tlc -config MCControlLoop.cfg MCControlLoop.tla`.
To check the proofs of a module: `tlapm ControlLoopProofs.tla`.

## 1. Inventory

### C6 firmware (`firmware-c6/`)

| Part | State | Operations | What makes it correct |
|---|---|---|---|
| `control/control_loop.c` | `s_relays` (hysteresis memory), relay lines | `control_loop_init`, `_decide`, `_run`, `_run_once` | lockout before mode before hysteresis; heat and cool never together; air with every call; no short cycles; failed writes heal |
| `control/control_task.c` | none of its own | `control_loop_tick`, every 1 s, priority 5 | decides on copies that belong together closely enough: off-orders obeyed, silent H2 not trusted, fallback to the local sensor |
| `sensor_state` | devices, attributes, equipment, spaces, recipe, local sensor, counters | add / register / update / set / get, each under one mutex | aggregates follow the layers below them; tables stay in bounds |
| `cluster_map` | constant table | lookup, category | only plausible values get in |
| `zigbee_bridge` | heartbeat time, RX loop | RX task (priority 6), `is_h2_online`, commands to the H2 | a fresh H2 is online, a dead one offline, its loss logged in time |
| `uart_bridge_framing.c` (both chips) | none, the RX loops keep the frame they read | encode, decode, CRC-16 | hands over only what was sent, in order; resynchronises after noise |
| `bsp/hal_nvs.c` | NVS cache, dirty flag, commit counter (RAM), one-shot timer | set / erase / flush, timer callback, boot and recovery | every change is committed; a reset never goes behind the last commit |
| `io_scan` | DI/DO/AI/AO images, ADC channel | `io_scan_tick` (in the control task), safety interrupt, `set_do`, `set_ao` | images come from their own channel, and become right again after an interrupted or failed transaction; outputs too, when their pins were set up |
| `bacnet/` | BACnet objects, registered transports | `bacnet_task` (priority 4): poll transports, refresh | published values are the store's and catch up; no transport is starved by a later one |
| `main/main.c` | none | start-up sequence, `enter_fault` | nothing runs before what it needs |
| `bsp/hal_wdt.c` | the task watchdog, one timer for the idle task, `bacnet_task` and the control task | configure, subscribe, reset | a control task that hangs does not leave relays closed for long |
| other `bsp/` | drivers | thin wrappers | none of their own |

### H2 firmware (`firmware-h2/`)

| Part | State | Operations | What makes it correct |
|---|---|---|---|
| `uart_bridge/uart_bridge.c` | TX mutex, counters | RX task, heartbeat task, `send_*` | each sender gets through; a damaged command is refused, a good one executed |
| `main.c`, `zigbee_coordinator.c` | network state, join window, stack lock | start and formation, Zigbee callbacks, permit-join, poll | a device that keeps trying gets in; a callback and a command never block each other |
| `zigbee_cluster_handler.c` | constant table | decode of ZCL attributes | raw values scaled and signed correctly |

### How the parts interact

* The RX task, the control task and the BACnet task meet in the store. Each
  store call is atomic; a sequence of calls is not.
* The control task asks `zigbee_bridge_is_h2_online`, which reads the RX task's
  variables without a lock.
* The H2 and the C6 exchange frames: reports, joins and heartbeats one way,
  permit-join and poll commands the other. Nothing is acknowledged or repeated.
* `hal_nvs` callers race with its timer callback, and both with resets.
* Commissioning calls (`add_space`, `add_equipment`, `set_recipe`,
  `set_device_online`, the NVS writers) have no caller in the firmware yet; the
  tests and the headers define how they are used, and the models let them
  happen at any time. `MCThermostat` alone follows the firmware of today in that
  no device is ever reported offline.

Hard behaviours: preemption between two unlocked reads; copies taken under
different locks; partial failure of the three relay writes and of the
transactions of set-up and scan; a register pointer two contexts share; a watchdog
timer three tasks share; the wrapping
millisecond clock; resets between a write and its commit; damaged and lost
frames; commands before the coordinator is up; start-up that fails half-way
while a task it started goes on. They are listed at their lines in
`PROJECT.json`, "hazards".

## 2. Modules

| Module | Source | State and actions |
|---|---|---|
| `ControlDecision` | `control_loop.c:24-81` | no state; `HeatDecision`, `CoolDecision`, `Decide` |
| `ControlLoop` | `control_loop.c` | `relays` is `s_relays`, `pin` the lines. `Run` ends where `apply_relays` starts; `WriteHeat`, `WriteCool`, `WriteFan`, `WriteFails` are its `hal_gpio_set` calls; `LoopInit`, `Reset` |
| `ClusterMap` | `cluster_map.c` | no state |
| `SensorState` | `sensor_state.c`, layers 1-3 | one action per call; a call that is refused changes nothing and is a false guard |
| `H2Presence` | the contract of `is_h2_online` | abstract: `Beat`, `Fade`, `Ask`, `Answer` |
| `H2Link` | `zigbee_bridge.c`, `zigbee_bridge_io.c` | the RX loop's rounds, the reads inside `is_h2_online` one by one, the clock |
| `RelayCycles` | the hysteresis of `control_loop.c` | history of `ControlLoop`: where the watched call changed last; `NoShortCycle` |
| `Thermostat` | `control_task.c` | extends `SensorState`, composes `H2Presence` and `ControlLoop`; one action per call of `control_loop_tick` |
| `ClusterHandler` | `zigbee_cluster_handler.c` | no state; `Forwarded`, `ReportValue` |
| `BridgeSession` | H2 `main.c`, `uart_bridge.c`, `zigbee_coordinator.c`; C6 `zigbee_bridge.c` and the commands of `zigbee_bridge_io.c` | program counters of the three H2 tasks that send, `s_tx_mutex`, the stack lock, the Zigbee network from boot on and who it admitted, the two wires, and layer 1 of `SensorState` |
| `Crc16` | `bridge_crc16` | no state; a fold over the bytes |
| `FrameFifo` | what the framing promises | abstract: `Send`, `Deliver`, `Lose` |
| `BridgeFraming` | `uart_bridge_framing.c`, the RX loops of both chips | the bytes under way and the receiver's buffer; one action per outcome of a byte read (`Sync`, `ReadByte`, `DropBogus`, `HandOver`, `Reject`), `Send`, `Damage`, `Silence` |
| `BacnetServer` | `components/bacnet` | extends `SensorState`; `turn` is where `bacnet_task` is; `Receive`, `NothingReceived` poll a transport, `Refresh` publishes a row; `AddTransport`, `Start` |
| `IoScan` | `io_scan.c`, `hal_i2c*.c`, `hal_sensor_local.c` | the images, the chips, and `at`, the transaction of the tick that comes next; one action per transaction, and the calls from outside the tick; `Setup` is `io_scan_init` |
| `TaskWatchdog` | `hal_wdt.c` and the ESP-IDF timer behind it | `subscribed` tasks, those that have `checked` in this round, `fed`: the age of the timer; `Start`, `Subscribe`, `Check`, `Elapse` |
| `ControlTask` | `main.c`, `control_task.c` | composes `IoScan` and `TaskWatchdog`: `Boot` is a call of `app_main`, then the task's steps; the other subscribers (`BacnetTaskEnters`, `OtherTaskChecks`), `PeriodPasses`, `WatchdogFires`, `Reset` |
| `HalNvs` | `hal_nvs.c` | `Set`, `Erase`, `Flush`, `Expire`, `Callback`, `Count`, `Commit`, `Boot`, `Recover`, `Reset` |
| `MC*` | | small instances |
| `*Proofs` | | theorems |

`H2Link` implements `H2Presence` (property `KeepsPromise`, refinement
`fresh <- Fresh, asking <- Calling`), so `Thermostat` composes the abstract
module and needs no clock. The exception written into `H2Presence!Answer` is the
code's: a call that a heartbeat overlapped can answer "offline" of a healthy H2.

`BridgeSession` joins the two firmwares. The H2 boots, starts its coordinator and
forms a network (`CoordinatorStarts`, `NetworkForms`); its RX task runs before
that, so a command may come too early (`ExecuteEarly`: no effect, or an abort).
A device's announcement or report reaches the Zigbee stack's task of the H2
(`Announce`, `Report`), which holds the stack lock until `send_frame` has written
the frame (`TakeTx`, `WriteFrame`); the C6 takes it off the wire and updates the
store (`TakeFrame`). Only a device the network admitted, through a join window
the C6 asked for, is heard. Commands go the other way (`SendCommand`,
`TakeCommand`, `Execute`). The frame handlers ignore the results of the store, so
a refused join or report changes nothing.

`BridgeFraming` implements `FrameFifo` (property `FramesInOrder`): a link that may
lose frames, hands over only what was sent, in order and once. The wires of
`BridgeSession` are queues whose head may get lost, which is that promise;
`FrameArrives` adds that a whole frame is not kept waiting.

`Thermostat` and `BacnetServer` are the two tasks that live on copies of the store.
Each extends `SensorState` and names its own parts `ThermostatInit`, `ThermostatNext`,
`ThermostatSpec` and `ServerInit`, `ServerNext`, `ServerSpec`: the store's definitions
keep their names, and its theorems hold in both (`ThermostatUsesStore`,
`ServerUsesStore`). `Thermostat` takes the steps of `H2Presence` and of `ControlLoop`
besides, from any recipe and any `control_inputs_t`; that its own behaviours are
behaviours of these two is proved (`ThermostatAsksH2`, `ThermostatRunsLoop`), so what
`H2Link` implements is what the tick relies on, and the theorems about the relays
hold of the tick.

`ControlTask` and `Thermostat` are two views of the same task. `ControlTask` keeps
the time: the period, the ticks that run back to back after a delay, the watchdog
and the scan; what a tick decides is left open. `Thermostat` keeps what a tick
reads and decides, and `ControlLoop` what it does to the relays.

Abstractions, and why they lose nothing the properties need:

* Temperatures are integers; both sides of the hysteresis comparisons are
  doubled, so odd deadbands are exact. Averages use integer division (the MC
  readings are chosen so that it is exact where it matters). NaN is left out.
* Ids, keys and values are model values. A (cluster, attribute) pair has the
  name of its row; all pairs without a row are `"unmapped"`.
* Timestamps that no code reads back are left out.
* `H2Link`: a round of the RX loop is one step (nothing preempts priority 6);
  the heartbeat is processed when it is complete.
* `BridgeSession`: a frame is on the wire as a whole, arrives good or damaged or
  not at all; `BridgeFraming` has the bytes. Windows are not timed: they may close
  at any moment. A reset of the C6 resets the H2 too, because `hal_gpio_init` pulls `H2_EN` low. Floats a device
  sends as type "single" are the number they encode.
* `BridgeFraming`: one direction; the two are alike. The bytes of a frame are sent
  back to back, so a silence longer than the frame timeout can only begin when no
  byte is under way. Damage changes, removes or adds single bytes. A receive
  buffer that overruns loses bytes, which is damage.
* `BacnetServer`: requests are served between two refreshes by the same task and
  change nothing the firmware's objects keep, so a PDU is only one that ends the
  poll. A call of the store that finds the mutex taken is a row that is skipped.
* `IoScan`: of a value only its origin is kept: the channel it was taken on after
  the inputs came to rest, or `NoValue` for older ones. The build has no expansion
  chips configured (their counts are 0 and the tick skips them); the model has
  them fitted, which is what the code is written for. Of the digital inputs,
  eight of a port read in one transaction, it keeps whether they were taken from
  port A after it came to rest. `directed` stands for the direction of all pins of
  port B: one that `hal_mcp23017_configure_pin` failed to set stays an input until
  some later `io_scan_init`, so a reset of the program alone leaves it as it is and
  a power cycle makes all pins inputs again.
* `TaskWatchdog`: ESP-IDF restarts the timer when every subscriber has reset since
  it did last. A round therefore ends with the slowest task, and a task that was
  the first of one round and the last of the next is silent for nearly two timeouts.
* `ControlTask`: time is counted in control periods; a conversion of the ADC is
  over when the next period begins, but not necessarily when the next tick of a
  late task does. A delay inside a scan counts when the scan has ended: it neither
  reads the clock nor touches a relay. How far a task is behind is counted up to
  `MaxLag`, and its silence up to one period more than what the property allows.
* `HalNvs`: the 2 s window is not timed; the timer may expire at any moment
  while armed, which includes every real timing. The NVS library is external:
  an uncommitted entry may or may not be in flash after a reset. A reset may
  fall anywhere, between the counter and the commit included. The library's limit
  of 15 characters for a key is external as well; the counter's key has 16, so its
  entry is neither written nor read and only `s_write_count` is left of it.

## 3. Runs

| Run | What it asks | Instance |
|---|---|---|
| `control` | relay safety, interlock, hysteresis, healing, all three lines failing at will | 4 recipes (one whose bands overlap the wrong way, one where they coincide), 3 Zigbee temperatures around the setpoints, one local, or none |
| `store` | aggregates under every order of calls | 3 devices for a table of 2, 2 attribute slots, 2 equipment for a table of 1, 2 spaces for a table of 1 |
| `h2link` | heartbeat supervision and refinement of `H2Presence` | clock modulo 16, timeout 3, sync wait 1, calls up to 2 long, silence up to 6 (twice the timeout) |
| `thermostat` | the tick over changing inputs | 1 zone, 1 device with temperature and contact, 2 recipes (AUTO with lockout, OFF), 1 local reading |
| `bridge` | both chips over lossy wires: locks, network, joins, forwarding | 2 devices for a table of 1; temperature messages at and beyond the lower bound and beyond the upper one, a truncated one, one of an unknown type; one window length; 1 frame each way under way; resets and losses until `calm` |
| `nvs` | durability over races, errors and resets | 2 keys, 2 values, 2 commits |
| `framing` | frames byte by byte, the real CRC, over a line that damages bytes | 2 frames (one whose payload is a start byte, one without payload), up to 7 bytes of payload, 13 bytes and 3 frames under way, 2 damaged bytes between silences, garbage 7 (a length longer than what follows; an impossible one as the high byte) and 170 (a start byte) |
| `bacnet` | what the objects show while the store changes | all of `SensorState` with 1 device and 1 zone, 2 transports, 8 objects, a commit counter that boots with 0 |
| `c6` | start-up, delays, watchdog and the scan's transactions | 2 ADC channels on 1 chip, local sensor every 2nd tick, a watchdog of 2 periods shared with two other tasks, any delay (at most 1 period behind is told apart) |

Why the bounds are enough: tables are one entry short of the field, so both
insertion into a full table and replacement in one occur; the clock wraps
several times within a behaviour and the silence outlasts the timeout; two keys
show entries that survive separately; two commits show a value that could fall
back. `control` is finite without a bound. In `bridge` a wire with one frame is
full at once, so a task holds its locks while it waits for room, and the three
tasks can be in any combination of waits. Only temperature messages are sent in
that run: each further attribute doubles it. In `framing` two damaged bytes are
enough to turn a payload into a header and to break the frame behind it; the CRC
accepts none of the damaged frames of this size. In `c6` two channels on a chip
make a value filed under the wrong one visible, and one period behind makes
ticks run back to back; being further behind only makes more of them do so. The deadline
misses are not counted in that run (`MaxMisses` is 0): no step of the task depends on
their number, and `bacnet` counts them. With a
timeout of 2 periods a silence of 4 occurs, which is the bound of `NoUnattendedRelay`;
the theorem has it for every timeout.

Three runs expect a violation. Each is a statement of a comment or header that
the code does not keep; `PROJECT.json`, "findings", quotes it:

* `h2_alarm`: a heartbeat between the two reads of `is_h2_online` makes a
  healthy H2 look offline for that one call. `KeepsPromise` is what holds.
* `thermostat_reading`: a device that joined and has not reported yet makes the
  loop heat on 0.0 degrees.
* `nvs_counter`: the counter of commits is lost at each reset, because the NVS library
  refuses a key of 16 characters. The rest of the store does not depend on it.

Behaviours of the code the models keep and no property is stated about:

* A join leaves `online_count` of a zone stale until the next report of a member.
  `CatchesUp` is what holds.
* The answer to a poll has a callback id of its own, which the coordinator does
  not handle, so it never becomes a report (`ReadResponse`).
* `ESP_OK` of an NVS write is returned before the commit; the same header
  describes the coalescing.
* Recipe and space are copied under separate locks: when the contact opens while
  the mode turns to OFF a tick can miss both orders, hence "one of the two all
  along" in `OffOrdersObeyed`.
* BACnet's commit counter (AI 303) is copied once, at boot, when it reads 0: it
  always shows 0.
* With no temperature source the held relay state is re-applied and the lockout not
  looked at. `control_loop.h:89` documents the hold, `control_loop.c:50` says that the
  interlock takes precedence over everything else. `InterlockOpensRelays` is about runs
  that know a temperature.
* `hal_wdt.h:26` says that "a subscribed task that fails to reset within the timeout
  triggers a panic", and `rt-rules-v2.md:181` derives a watchdog of twice the period.
  The timeout is 4 s for a period of 1 s, and since the timer is shared nearly 8 s can
  pass before the relays of a hung control task open. Twice the timeout is what
  `NoUnattendedRelay` says.
* `bacnet_server.c:119` keeps the last value of a row that does not resolve "rather than
  publish a misleading zero". A row of a zone that exists without any reading does
  resolve, to an average of 0.0 (`sensor_state.c:162`), and that is published.
* A network of the H2 that fails to form is not tried again while the heartbeats
  go on, and an expansion bus that could not be brought up is not reported by
  `io_scan_init`; nor is an output pin whose direction could not be set, and nothing
  sets it again. `JoinAgainHeals` and `ScanHeals` exclude the three.
* `RELAY_CYCLE_DEBOUNCE_MS` is defined and not used; `NoShortCycle` is about what
  the deadband gives.

### Fairness

* `ControlLoop`, `Thermostat`: weak fairness of the control task's steps. It has
  a period, and its lock and GPIO calls are bounded. Nothing is assumed of the
  environment: `FaultHeals`, `LastingOffOrders` and `FallsBackToLocal` are about
  behaviours in which the faults do end.
* `H2Link`: time passes, the sync wait times out, and the control task runs to
  the end of its call. No fairness for heartbeats or any other byte.
* `BridgeSession`: a task that has a frame to write writes it, the C6 processes
  what arrives (weak fairness), and a task that waits for the transmit mutex or
  the stack lock gets it some day (strong fairness). The last holds because
  FreeRTOS mutexes wake the waiter of highest priority and because the load is
  small: heartbeats come every 5 s, reports of an attribute at most every
  10 s, and each lock is held for one frame. The coordinator starts, and its
  network forms or fails (weak fairness). Nothing is assumed of devices, commands
  or the wires: `JoinAgainHeals` is about devices that announce themselves, and a
  C6 that asks for a join window, again and again.
* `BridgeFraming`: the receive task, woken by the UART driver, takes bytes that
  have come. Senders, damage and silences are free.
* `BacnetServer`: `bacnet_task` is scheduled (weak fairness of its steps as a
  whole, so it may find each store call contended until `calm`).
* `ControlTask`: `app_main` and the control task are scheduled, time passes or the
  watchdog fires (weak fairness of these together), the other subscribers of the
  watchdog are scheduled too, and conversions end. Until `calm`, time may pass
  between any two steps of the task and any number of periods may go by; then a
  tick and a round of each other task fit into a period, which is the load the
  firmware is written for.
* `HalNvs`: timers expire, callbacks run, a commit ends. `ChangeReachesFlash`
  supposes that writes, errors and resets end (`calm`); under continuous writes
  the code re-arms its timer for ever.

## 4. Proofs

For all values of the constants, from the named assumptions of each module. The
assumptions say what the code fixes: the finite field and table sizes, that
setpoints and readings are numbers, that a call is short against the turn of the
clock, that a frame fits `BRIDGE_MAX_PAYLOAD`, and, in `BridgeSession`, that a
device has at most `MAX_ZB_CLUSTERS` attributes (five rows of the table, 8 slots).

| Module | Theorems | Properties of a run they state |
|---|---|---|
| `ControlLoopProofs` | `TypeCorrect`, `OpposingCallsApart`, `CallsAlwaysHaveAir`, `InterlockIsSafe`, `MemoryFollowsPins`, `DeadbandPreventsCycling` | all safety properties of `control` |
| `SensorStateProofs` | `StoreTypeCorrect`, `ReadingsStayCurrent`, `BatteryMinStaysCurrent`, `OnlineCountCatchesUp`, `TablesNeverOverflow`, `AveragesStayWithin` | all of `store` |
| `H2LinkProofs` | `LinkTypeCorrect`, `LinkKeepsPromise`, `LossIsLoggedInTime`, `NoLossLoggedEarly` | all but liveness of `h2link` |
| `HalNvsProofs` | `NvsTypeCorrect`, `NoChangeForgotten`, `CleanStoreIsDurable`, `CommitsSurviveResets` | all but liveness of `nvs` |
| `ControlTaskProofs` | `TaskTypeCorrect`, `TaskRunsOnCompleteSetUp`, `NoRelayStaysUnattended` | all but liveness of `c6` |
| `StoreReaderProofs` | `ThermostatTypeCorrect`, `LastingOrdersObeyed`, `ZigbeeOnlyFromLiveH2`, `ThermostatUsesStore`, `ThermostatAsksH2`, `ThermostatRunsLoop`; `ServerTypeCorrect`, `ServerUsesStore` | all but liveness of `thermostat` and `bacnet` |
| `BridgeSessionProofs` | `SessionTypeCorrect`, `ForwardedReportsAreStored`, `LocksHaveRunningHolders` | all but liveness of `bridge` |
| `BridgeFramingProofs` | `DecodeUndoesEncode`, `FramingTypeCorrect`, `UndamagedLineSkipsNothing`, `UndamagedLineIsFifo` | `TypeOK` and `NothingSkipped` of `framing` |

### How they go

* `ControlLoopProofs`: `LoopInv` relates pins, target and memory at each program
  point. It is needed because between two writes the pins are a mixture: it says
  which prefix of the target they already show, unless a line is stuck.
  `DeadbandPreventsCycling` adds `DecidedTarget` (the target is what the command
  decided) and `SwingInv`: after a change by the hysteresis the watched call stands
  on the side of its band that the change implies (`HeatSide`, `CoolSide`). The next
  change needs the other side, and the sides are a deadband apart when
  `setpoint_heat <= setpoint_cool`. A write that fails leaves memory, and so the
  sides, alone.
* `SensorStateProofs`: `ReadingsCurrent` follows from `LayersOK` and the fact that a
  device without an entry has no attributes, so that a join cannot change an
  average; likewise `BatteryMinCurrent`. `CatchesUp` is an action property on top.
  `TablesNeverOverflow` is the cardinality argument for every table. For the types
  of the aggregates, a sum over a set of bindings must be known to be a number, and
  for `AveragesStayWithin` (an average never leaves the span of the readings that the
  bindings of the zone's enabled equipment resolve to, whether or not their devices
  are online) it must be bounded by them. Both are inductions over the finite set, told as a smallest
  counterexample: the strict subsets of a finite set are well founded, so a set
  whose sum goes wrong has a smallest one, and taking one element off it gives a
  contradiction. `AveragesWithin` is stated as a theorem only; no run repeats it.
* `H2LinkProofs`: `LinkInv` says that `lastBeat` is `age` behind the clock modulo
  `Wrap`, and the same of an operand already read and `callAge`; the assumption
  `Timeout + MaxCall < Wrap` makes the modular difference the true one. It gives the
  refinement `KeepsPromise`. `LossIsLoggedInTime` adds `LossDue`: the time since the
  last heartbeat is below the timeout plus what the sync wait has idled, because the
  service has run since. `NoLossLoggedEarly`: the service compares exactly the age.
* `HalNvsProofs`: one invariant gives all four: the properties themselves, and that only a
  running store is inside `do_commit_locked`, so that a boot never meets half a commit.
* `ControlTaskProofs`: `RunsFullyInitialised` from the fact that the
  initialisations that succeeded are exactly those before the next one, and that
  the task is made by the ninth. `NoUnattendedRelay` from an invariant about the
  silence of the control task and the shared timer: a task that runs is subscribed; its
  silence is at most the age of the timer when it has reset in this round, and at most
  a whole timeout more when it has not; and the timer never gets older than a
  timeout. Only a tick closes relays. `TaskTypeCorrect` covers the scan too: the
  channel index never leaves its table.
* `StoreReaderProofs`: `OrdersInv` follows a tick from copy to copy: an order to be
  off that has stood since the tick began is in each copy made so far, and once the
  run has decided, in the target. Nothing relates the copies to each other, and
  nothing needs to. `FreshnessHeard`: an answer "online" is tied to a moment of this tick
  when the H2 was fresh. That every step of either task is a step or a stutter of the
  store carries the store's types over to the copies and to the published values.
  `ThermostatRunsLoop` rests on `GatheredTyped`: the copies make a `control_inputs_t`
  at the moment of the run, because no tick gets there without a copy of the space.
* `BridgeSessionProofs`: `LinkInv` says what is in flight: tasks hold frames that fit
  what they do, and every report that waits for the mutex or travels carries a
  plausible value (`Believable`). The root is `TablesAgree`: what the H2's
  `ATTR_MAP` lets pass is, scaled, in the range of the C6's `CLUSTER_MAP`, row by row.
  `LocksHaveRunningHolders` is `LocksAccounted`, the part of it about the two locks:
  what makes `SendersGetThrough` possible. The batteries' minimum needs the smallest
  counterexample again.
* `BridgeFramingProofs`: `TypedInv` adds to the types that a header which was kept
  announces a legal length and something is still to be read, so the buffer of
  `BRIDGE_MAX_FRAME` bytes is never overrun, whatever the line does. `QuietInv`: as
  long as nothing is damaged, buffer and wire together can be cut into the encodings
  of the frames in flight, and the first has not come as a whole. So the length read is
  that of the first frame, the last byte completes it, and `DecodeUndoesEncode`
  applies. The cuts are a function of the frame's number, because a recursive
  concatenation could not be unfolded here.

`MemoryFollowsPins`, `TablesNeverOverflow`, `AveragesStayWithin`,
`LocksHaveRunningHolders`, `DecodeUndoesEncode`,
`UndamagedLineIsFifo`, `ThermostatAsksH2`, `ThermostatRunsLoop` and the two
`...UsesStore` are theorems whose properties no run
repeats.

### Only model-checked

* Liveness: the prover has no rules for fairness and `ENABLED`.
* `FramesInOrder` over a damaged line. It does not hold of every checksum: a damaged
  frame must not pass it, which for CRC-16 and two damaged places is a computation
  over the bytes of the frames (the run makes it). `UndamagedLineIsFifo` is the part
  that holds of every checksum.
* What the bitwise loop of `bridge_crc16` computes: only the run evaluates it.

## 5. Not modelled, and the plan

Proofs planned, in this order:

* `BridgeSession`: but for a reset of the C6, the store behind the link takes steps of
  `SensorState` only, and its batteries' minimum is current at all times.
* `ControlTask`: a tick that begins has ended the scan of the one before, and the
  outputs that a scan has written stay applied until a caller sets others.

Partly modelled, and what is missing:

* `sensor_state`: timestamps and the recovery flag, which the firmware writes and
  does not read.
* `bacnet`: the protocol. ReadProperty and what the stack's timers do belong to
  bacnet-stack, whose source is not in this repository (the firmware has only
  its glue); the MS/TP transport is a driver set-up without framing of its own.
* `bsp`: UART, timer and I2C wrappers keep no state beyond a handle; their
  failures appear where they are called.
* `data_model`: its types appear as the sets of values the properties tell apart;
  string lengths and identifiers do not.

Left out for good: the Zigbee stack, bacnet-stack and ESP-IDF (external
libraries, modelled where the firmware meets them), driver wrappers without
logic, mocks and unit tests, and the parts the documents describe that have no
code yet (OTA, display, BLE commissioning, BACnet/SC, history buffer, and the
C6's recovery of the H2 through H2_EN).
