---------------------------- MODULE BridgeSession ----------------------------
(***************************************************************************)
(* The two chips over their UART: firmware-h2 main.c, uart_bridge.c and    *)
(* zigbee_coordinator.c on one side; the commands of zigbee_bridge_io.c    *)
(* and the frame handlers of zigbee_bridge.c, down to the store, on the    *)
(* other.                                                                  *)
(*                                                                         *)
(* Three tasks of the H2 send frames: the Zigbee stack's (joins and        *)
(* reports, from callbacks that run inside the stack), the RX task (NACKs) *)
(* and the heartbeat task.  The RX task also calls into the stack to       *)
(* execute commands.  Two locks are involved, the stack's and s_tx_mutex.  *)
(*                                                                         *)
(* A frame is on the wire as a whole.  On arrival it is good, or damaged   *)
(* (its CRC does not match), or it never gets there: bytes were lost, or   *)
(* swallowed by a broken frame before it.  A CRC that matches by accident  *)
(* is left out.  Time is not modelled: the join window may close, and a    *)
(* read request be answered, at any moment or never.                       *)
(***************************************************************************)
EXTENDS ClusterHandler, FiniteSets

CONSTANTS
  Device,      \* Zigbee devices
  Readings,    \* <<device, attribute message>> pairs that devices send
  Polled,      \* devices the C6 polls
  Durations,   \* join windows the C6 asks for, in seconds; 0 closes the network
  MaxDevices,  \* MAX_ZB_DEVICES
  MaxSlots,    \* MAX_ZB_CLUSTERS
  MaxWire,     \* bound: frames under way in one direction
  NoValue      \* see SensorState; also: no frame

ASSUME WireAssumption ==
  /\ IsFiniteSet(Device) /\ Polled \subseteq Device /\ Durations \subseteq Nat
  /\ MaxDevices \in Nat /\ MaxSlots \in Nat /\ MaxWire \in Nat
  /\ NoValue \notin Int
  /\ Cardinality(Mapped) <= MaxSlots  \* five rows, MAX_ZB_CLUSTERS is 8

VARIABLES
  devices, online, attributes, equipment, spaces, batteryMin, \* SensorState
  pc,     \* what each H2 task does
  frame,  \* the frame it sends, or the command it executes
  tx,     \* holder of s_tx_mutex
  lock,   \* holder of the stack lock
  up,     \* frames on their way to the C6
  down,   \* commands on their way to the H2
  net,    \* the Zigbee network of the H2
  joined, \* devices the network has admitted, in the stack's own storage
  asked,  \* devices with a read request of the H2 outstanding
  calm    \* environment: no frame is lost or damaged and nobody resets

\* Layer 1 of the C6's store.
Store == INSTANCE SensorState
           WITH Space <- {}, Equip <- {}, Descriptors <- {}, Reports <- {},
                MaxEquipment <- 0, MaxSpaces <- 0

storeVars == <<devices, online, attributes, equipment, spaces, batteryMin>>
zigbee == <<net, joined, asked>>
h2Vars == <<pc, frame, tx, lock, zigbee>>
wires == <<up, down>>
vars == <<storeVars, h2Vars, wires, calm>>

Task == {"zb", "rx", "hb"}

UpFrame ==
  [type: {"join"}, device: Device]
  \union [type: {"report"}, device: Device, attr: Mapped, value: Int]
  \union [type: {"heartbeat", "nack"}]
Command == [type: {"permit"}, duration: Durations] \union [type: {"poll"}, device: Polled]

TypeOK ==
  /\ Store!TypeOK
  /\ pc \in [Task -> {"idle", "wait", "write", "execute"}]
  /\ frame \in [Task -> UpFrame \union Command \union {NoValue}]
  /\ tx \in Task \union {"free"} /\ lock \in Task \union {"free"}
  /\ up \in Seq(UpFrame) /\ Len(up) <= MaxWire
  /\ down \in Seq(Command) /\ Len(down) <= MaxWire
  /\ net \in {"booting", "starting", "closed", "open", "failed"}
  /\ joined \subseteq Device /\ asked \subseteq Polled
  /\ calm \in BOOLEAN

\* The tasks of uart_bridge_init run; app_main has the coordinator still to set
\* up.  The stack may remember its network or form a new one.
H2Boots ==
  /\ pc' = [t \in Task |-> "idle"]
  /\ frame' = [t \in Task |-> NoValue]
  /\ tx' = "free" /\ lock' = "free"
  /\ net' = "booting" /\ joined' \in {joined, {}} /\ asked' = {}

Init ==
  /\ Store!Init
  /\ pc = [t \in Task |-> "idle"]
  /\ frame = [t \in Task |-> NoValue]
  /\ tx = "free" /\ lock = "free"
  /\ net = "booting" /\ joined = {} /\ asked = {}
  /\ up = <<>> /\ down = <<>>
  /\ calm = FALSE

-----------------------------------------------------------------------------
(* H2: sending a frame.                                                    *)

\* Task t has frame f to send.
Send(t, f) ==
  /\ pc' = [pc EXCEPT ![t] = "wait"]
  /\ frame' = [frame EXCEPT ![t] = f]

\* send_frame gets s_tx_mutex.
TakeTx(t) ==
  /\ pc[t] = "wait"
  /\ tx = "free"
  /\ tx' = t
  /\ pc' = [pc EXCEPT ![t] = "write"]
  /\ UNCHANGED <<storeVars, frame, lock, zigbee, wires, calm>>

\* hal_uart_write returns, the mutex is given back.  The stack's task then also
\* leaves its callback, after configure_device_reporting when it was a join.
WriteFrame(t) ==
  /\ pc[t] = "write"
  /\ Len(up) < MaxWire
  /\ up' = Append(up, frame[t])
  /\ tx' = "free"
  /\ lock' = IF t = "zb" THEN "free" ELSE lock
  /\ pc' = [pc EXCEPT ![t] = "idle"]
  /\ frame' = [frame EXCEPT ![t] = NoValue]
  /\ UNCHANGED <<storeVars, zigbee, down, calm>>

-----------------------------------------------------------------------------
(* H2: what makes its tasks send.                                          *)

\* The stack's task delivers a signal, its lock held.
StackSends(f) ==
  /\ pc["zb"] = "idle"
  /\ lock = "free"
  /\ lock' = "zb"
  /\ Send("zb", f)
  /\ UNCHANGED <<storeVars, tx, net, asked, wires, calm>>

\* ESP_ZB_ZDO_SIGNAL_DEVICE_ANNCE: a device joined while the network was open,
\* or came back.
Announce(d) ==
  /\ net = "open" \/ (net = "closed" /\ d \in joined)
  /\ StackSends([type |-> "join", device |-> d])
  /\ joined' = joined \union {d}

\* An attribute report that the cluster handler understands and believes.
Report(d, r) ==
  /\ net \in {"closed", "open"} /\ d \in joined
  /\ Forwarded(r)
  /\ StackSends([type |-> "report", device |-> d, attr |-> r.attr,
                 value |-> ReportValue(r)])
  /\ UNCHANGED joined

\* heartbeat_task, every 5 s.
HeartbeatDue ==
  /\ pc["hb"] = "idle"
  /\ Send("hb", [type |-> "heartbeat"])
  /\ UNCHANGED <<storeVars, tx, lock, zigbee, wires, calm>>

\* A device answers a read request: ESP_ZB_CORE_CMD_READ_ATTR_RESP_CB_ID, which
\* zb_action_handler leaves to its default.
ReadResponse(d) ==
  /\ d \in asked
  /\ pc["zb"] = "idle"
  /\ lock = "free"
  /\ asked' = asked \ {d}
  /\ UNCHANGED <<storeVars, pc, frame, tx, lock, net, joined, wires, calm>>

-----------------------------------------------------------------------------
(* Commands of the C6.                                                     *)

\* send_cmd, under the C6's own transmit mutex.
SendCommand(c) ==
  /\ Len(down) < MaxWire
  /\ down' = Append(down, c)
  /\ UNCHANGED <<storeVars, h2Vars, up, calm>>

CommandArrives == pc["rx"] = "idle" /\ down # <<>> /\ down' = Tail(down)

\* rx_task decodes a good frame and calls on_bridge_cmd.
TakeCommand ==
  /\ CommandArrives
  /\ pc' = [pc EXCEPT !["rx"] = "execute"]
  /\ frame' = [frame EXCEPT !["rx"] = Head(down)]
  /\ UNCHANGED <<storeVars, tx, lock, zigbee, up, calm>>

\* BRIDGE_DECODE_ERR_BAD_CRC: rx_task answers with a NACK.
RejectCommand ==
  /\ CommandArrives /\ ~calm
  /\ Send("rx", [type |-> "nack"])
  /\ UNCHANGED <<storeVars, tx, lock, zigbee, up, calm>>

LoseCommand ==
  /\ CommandArrives /\ ~calm
  /\ UNCHANGED <<storeVars, h2Vars, up, calm>>

\* What the stack makes of the command of the RX task.  It has to know a device
\* to ask it, and needs its network to open it.
Obey(c) ==
  /\ asked' = asked \union {d \in Polled \cap joined : c = [type |-> "poll", device |-> d]}
  /\ net' = IF c.type = "permit" /\ net \in {"closed", "open"}
            THEN IF c.duration = 0 THEN "closed" ELSE "open"
            ELSE net

\* A return between acquire and release.
ExecuteKeepingLock ==
  /\ pc["rx"] = "execute" /\ net # "booting"
  /\ lock = "free"
  /\ lock' = "rx"
  /\ Obey(frame["rx"])
  /\ pc' = [pc EXCEPT !["rx"] = "idle"]
  /\ frame' = [frame EXCEPT !["rx"] = NoValue]
  /\ UNCHANGED <<storeVars, tx, joined, wires, calm>>

\* permit_join or poll_attr: the stack lock acquired, the stack asked, the lock
\* released.  What the stack answers is not looked at.
Execute ==
  /\ pc["rx"] = "execute" /\ net # "booting"
  /\ lock = "free"
  /\ Obey(frame["rx"])
  /\ pc' = [pc EXCEPT !["rx"] = "idle"]
  /\ frame' = [frame EXCEPT !["rx"] = NoValue]
  /\ UNCHANGED <<storeVars, tx, lock, joined, wires, calm>>

\* A command before zigbee_coordinator_init calls into a stack that is not up:
\* it goes by without effect, or the program aborts.
ExecuteEarly ==
  /\ pc["rx"] = "execute" /\ net = "booting"
  /\ \/ /\ pc' = [pc EXCEPT !["rx"] = "idle"]
        /\ frame' = [frame EXCEPT !["rx"] = NoValue]
        /\ UNCHANGED <<tx, lock, zigbee, down>>
     \/ H2Boots /\ down' = <<>>
  /\ UNCHANGED <<storeVars, up, calm>>

-----------------------------------------------------------------------------
(* H2: the coordinator's network.                                          *)

\* zigbee_coordinator_init and _start.  When one fails, ESP_ERROR_CHECK resets
\* the H2.
CoordinatorStarts ==
  /\ net = "booting"
  /\ net' = "starting"
  /\ UNCHANGED <<storeVars, pc, frame, tx, lock, joined, asked, wires, calm>>

\* DEVICE_FIRST_START or DEVICE_REBOOT, then FORMATION.  A failure of either is
\* logged and nothing is tried again.
NetworkForms ==
  /\ net = "starting"
  /\ net' \in {"closed"} \union (IF calm THEN {} ELSE {"failed"})
  /\ UNCHANGED <<storeVars, pc, frame, tx, lock, joined, asked, wires, calm>>

\* ESP_ZB_BDB_SIGNAL_STEERING: the join window is over.
WindowCloses ==
  /\ net = "open"
  /\ net' = "closed"
  /\ UNCHANGED <<storeVars, pc, frame, tx, lock, joined, asked, wires, calm>>

-----------------------------------------------------------------------------
(* Frames of the H2, at the C6.                                            *)

FrameArrives == up # <<>> /\ up' = Tail(up)

\* handle_device_join into a table whose limit is not looked at.
HandleJoinUnchecked(d) ==
  /\ devices' = devices \union {d}
  /\ online' = [online EXCEPT ![d] = TRUE]
  /\ UNCHANGED <<attributes, equipment, spaces, batteryMin>>

\* handle_device_join refusing the last free entry.
HandleJoinShort(d) ==
  IF d \in devices \/ Cardinality(devices) < MaxDevices - 1
  THEN Store!Join(d) ELSE UNCHANGED storeVars

\* handle_device_join, the result of register_device not looked at.
HandleJoin(d) ==
  IF d \in devices \/ Cardinality(devices) < MaxDevices
  THEN Store!Join(d) ELSE UNCHANGED storeVars

\* handle_sensor_report, the result of update_attribute not looked at.
HandleReport(f) ==
  IF Store!Accepts(f.device, f.attr, f.value)
  THEN Store!UpdateAttribute(f.device, f.attr, f.value) ELSE UNCHANGED storeVars

\* zigbee_bridge_process_frame of a good frame.
TakeFrame ==
  /\ FrameArrives
  /\ CASE Head(up).type = "join"   -> HandleJoin(Head(up).device)
       [] Head(up).type = "report" -> HandleReport(Head(up))
       [] OTHER                    -> UNCHANGED storeVars
  /\ UNCHANGED <<h2Vars, down, calm>>

\* A damaged frame is dropped without an answer, a lost one never seen; a whole
\* one is lost too when the store's mutex cannot be had in time.
LoseFrame ==
  /\ FrameArrives /\ ~calm
  /\ UNCHANGED <<storeVars, h2Vars, down, calm>>

-----------------------------------------------------------------------------
(* Environment.                                                            *)

\* The H2 alone resets.
H2Reset ==
  /\ ~calm
  /\ H2Boots
  /\ down' = <<>>
  /\ UNCHANGED <<storeVars, up, calm>>

\* The C6 resets: a new store, and hal_gpio_init holds the H2 in reset too.
C6Reset ==
  /\ ~calm
  /\ devices' = {}
  /\ online' = [d \in Device |-> FALSE]
  /\ attributes' = [d \in Device |-> [a \in Mapped |-> NoValue]]
  /\ batteryMin' = 0
  /\ H2Boots
  /\ up' = <<>> /\ down' = <<>>
  /\ UNCHANGED <<equipment, spaces, calm>>

CalmDown == ~calm /\ calm' = TRUE /\ UNCHANGED <<storeVars, h2Vars, wires>>

-----------------------------------------------------------------------------
Next ==
  \/ \E t \in Task : TakeTx(t) \/ WriteFrame(t)
  \/ \E d \in Device : Announce(d) \/ ReadResponse(d)
  \/ \E m \in Readings : Report(m[1], m[2])
  \/ HeartbeatDue
  \/ \E c \in Command : SendCommand(c)
  \/ TakeCommand \/ RejectCommand \/ LoseCommand \/ Execute \/ ExecuteEarly
  \/ CoordinatorStarts \/ NetworkForms \/ WindowCloses
  \/ TakeFrame \/ LoseFrame
  \/ H2Reset \/ C6Reset \/ CalmDown

\* The tasks run.  Who waits for a mutex gets it some day: the bursts of frames
\* and commands that keep the higher tasks busy are short against their pauses.
Fairness ==
  /\ \A t \in Task : SF_vars(TakeTx(t)) /\ WF_vars(WriteFrame(t))
  /\ SF_vars(Execute) /\ WF_vars(TakeCommand)
  /\ WF_vars(CoordinatorStarts) /\ WF_vars(NetworkForms)
  /\ WF_vars(TakeFrame)

Spec == Init /\ [][Next]_vars
FairSpec == Spec /\ Fairness

-----------------------------------------------------------------------------
\* Whatever the H2 forwards of a known device, the C6 stores when it processes
\* the frame: the two tables, kept by hand, mirror each other, signs, scales and
\* bounds included.
ForwardedIsStored ==
  [][LET f == Head(up)
     IN /\ up # <<>> /\ f.type = "report" /\ f.device \in devices
        /\ TakeFrame
        => attributes'[f.device][f.attr] = f.value]_vars

\* No task waits for ever: stack lock and transmit mutex cannot block each
\* other.
SendersGetThrough == \A t \in Task : pc[t] # "idle" ~> pc[t] = "idle"

\* Commissioning heals: once frames and chips stay whole, a device that tries to
\* join, over and over, while the C6 asks for the network to be opened, over and
\* over, becomes known, unless the table is full of others.  Neither a command or
\* a join that was lost before, nor other commands between, nor a window that
\* closes early is in the way.  (A network that failed to form is: nobody tries
\* again before the next reset, while heartbeats tell the C6 that all is well.)
JoinAgainHeals ==
  \A d \in Device :
    (/\ <>[](calm /\ net \notin {"booting", "failed"})
     /\ []<><<\E s \in Durations \ {0} : SendCommand([type |-> "permit", duration |-> s])>>_vars
     /\ SF_vars(Announce(d)))
      => <>(d \in devices \/ Cardinality(devices) = MaxDevices)
=============================================================================
