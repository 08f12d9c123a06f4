------------------------- MODULE BridgeSessionProofs -------------------------
(***************************************************************************)
(* Theorems about BridgeSession, for any devices, readings and table       *)
(* sizes.  The invariant says what is in flight: a report that waits at    *)
(* the H2's mutex or travels on the wire carries a value that the C6's own *)
(* table takes for plausible, whatever is lost, damaged or reset on the    *)
(* way.  That is a fact about the two tables (TablesAgree), carried from   *)
(* the callback that made the report to the handler that stores it.        *)
(***************************************************************************)
EXTENDS BridgeSession, FiniteSetTheorems, WellFoundedInduction, TLAPS

Sending == {"wait", "write"}

\* Frames whose value the C6 believes.
Believable == {f \in UpFrame : f.type = "report" => f.value \in PlausibleRange(f.attr)}

TasksTyped ==
  /\ pc \in [Task -> {"idle", "wait", "write", "execute"}]
  /\ frame \in [Task -> UpFrame \union Command \union {NoValue}]

\* What a task holds fits what it does.
FramesFit ==
  \A t \in Task : /\ pc[t] \in Sending => frame[t] \in Believable
                  /\ pc[t] = "execute" => t = "rx" /\ frame[t] \in Command

WiresTyped ==
  /\ up \in Seq(Believable) /\ Len(up) <= MaxWire
  /\ down \in Seq(Command) /\ Len(down) <= MaxWire

NetTyped ==
  /\ net \in {"booting", "starting", "closed", "open", "failed"}
  /\ joined \subseteq Device /\ asked \subseteq Polled
  /\ calm \in BOOLEAN

\* s_tx_mutex belongs to the task that writes, the stack lock to the stack's
\* task from its callback to the end of its frame.
LocksAccounted ==
  /\ tx \in Task \union {"free"} /\ lock \in {"zb", "free"}
  /\ \A t \in Task : tx = t <=> pc[t] = "write"
  /\ lock = "zb" <=> pc["zb"] # "idle"

LinkInv == TasksTyped /\ FramesFit /\ WiresTyped /\ NetTyped /\ LocksAccounted

StoreTyped ==
  /\ Store!LayersOK
  /\ Cardinality(devices) <= MaxDevices
  /\ DOMAIN spaces = {} /\ spaces = [x \in {} |-> spaces[x]]
  /\ batteryMin \in Int

-----------------------------------------------------------------------------
(* The two tables.                                                         *)

\* A raw value in the scaled range of ATTR_MAP is in CLUSTER_MAP's range once
\* it is divided by the scale.
LEMMA TablesAgree ==
  ASSUME NEW a \in Mapped \ Binary, NEW raw, Plausible(a, raw)
  PROVE  raw \div Divisor(a) \in PlausibleRange(a)
<1>1. CASE a = "temperature"
  <2>1. raw \in -4000..8000 /\ Divisor(a) = 100
    <3>1. Divisor(a) = 100
      BY <1>1 DEF Divisor
    <3>2. ForwardRange(a)[1] = -40 /\ ForwardRange(a)[2] = 80
      BY <1>1 DEF ForwardRange
    <3>3. QED
      BY <3>1, <3>2 DEF Plausible
  <2>2. raw \div 100 \in -40..80
    BY <2>1
  <2>3. QED
    BY <1>1, <2>1, <2>2 DEF PlausibleRange
<1>2. CASE a = "humidity"
  <2>1. raw \in 0..10000 /\ Divisor(a) = 100
    <3>1. Divisor(a) = 100
      BY <1>2 DEF Divisor
    <3>2. ForwardRange(a)[1] = 0 /\ ForwardRange(a)[2] = 100
      BY <1>2 DEF ForwardRange
    <3>3. QED
      BY <3>1, <3>2 DEF Plausible
  <2>2. raw \div 100 \in 0..100
    BY <2>1
  <2>3. QED
    BY <1>2, <2>1, <2>2 DEF PlausibleRange
<1>3. CASE a = "co2"
  <2>1. raw \in 0..5000 /\ Divisor(a) = 1
    <3>1. Divisor(a) = 1
      BY <1>3 DEF Divisor
    <3>2. ForwardRange(a)[1] = 0 /\ ForwardRange(a)[2] = 5000
      BY <1>3 DEF ForwardRange
    <3>3. QED
      BY <3>1, <3>2 DEF Plausible
  <2>2. raw \div 1 \in 0..5000
    BY <2>1
  <2>3. QED
    BY <1>3, <2>1, <2>2 DEF PlausibleRange
<1>4. CASE a = "battery"
  <2>1. raw \in 0..200 /\ Divisor(a) = 2
    BY <1>4 DEF Plausible, ForwardRange, Divisor
  <2>2. raw \div 2 \in 0..100
    BY <2>1
  <2>3. QED
    BY <1>4, <2>1, <2>2 DEF PlausibleRange
<1>5. QED
  BY <1>1, <1>2, <1>3, <1>4 DEF Mapped, Binary

\* Whatever bytes a device sends: what the H2 forwards, the C6 believes.
LEMMA ReportIsPlausible ==
  ASSUME NEW r, Forwarded(r)
  PROVE  r.attr \in Mapped /\ ReportValue(r) \in PlausibleRange(r.attr)
<1>1. r.attr \in Mapped
  BY DEF Forwarded
<1>2. CASE r.attr \in Binary
  <2>1. ReportValue(r) \in 0..1
    BY <1>2 DEF ReportValue
  <2>2. QED
    BY <1>1, <1>2, <2>1 DEF PlausibleRange, Binary
<1>3. CASE r.attr \notin Binary
  <2>1. Plausible(r.attr, RawValue(r))
    BY <1>3 DEF Forwarded
  <2>2. ReportValue(r) = RawValue(r) \div Divisor(r.attr)
    BY <1>3 DEF ReportValue
  <2>3. RawValue(r) \div Divisor(r.attr) \in PlausibleRange(r.attr)
    BY <1>1, <1>3, <2>1, TablesAgree
  <2>4. QED
    BY <1>1, <2>2, <2>3
<1>4. QED
  BY <1>2, <1>3

\* A plausible value is a number.
LEMMA RangesAreNumbers ==
  ASSUME NEW a \in Mapped, NEW v, v \in PlausibleRange(a)
  PROVE  v \in Int
<1>1. CASE a = "temperature"
  BY <1>1 DEF PlausibleRange
<1>2. CASE a = "co2"
  <2>1. v \in 0..5000
    BY <1>2 DEF PlausibleRange
  <2>2. QED
    BY <2>1
<1>3. CASE a = "dry_contact"
  BY <1>3 DEF PlausibleRange
<1>4. CASE a \in {"humidity", "battery"}
  BY <1>4 DEF PlausibleRange
<1>5. QED
  BY <1>1, <1>2, <1>3, <1>4 DEF Mapped

\* What a task of the H2 forwards is a frame the C6 can believe.
LEMMA ReportIsBelievable ==
  ASSUME NEW d \in Device, NEW r, Forwarded(r)
  PROVE  [type |-> "report", device |-> d, attr |-> r.attr, value |-> ReportValue(r)]
           \in Believable
<1> DEFINE f == [type |-> "report", device |-> d, attr |-> r.attr, value |-> ReportValue(r)]
<1>1. r.attr \in Mapped /\ ReportValue(r) \in PlausibleRange(r.attr)
  BY ReportIsPlausible
<1>2. ReportValue(r) \in Int
  BY <1>1, RangesAreNumbers
<1>3. f \in [type: {"report"}, device: Device, attr: Mapped, value: Int]
  BY <1>1, <1>2
<1>4. f \in UpFrame
  BY <1>3, Zenon DEF UpFrame
<1>5. f.value \in PlausibleRange(f.attr)
  BY <1>1
<1>6. QED
  BY <1>4, <1>5 DEF Believable

\* So is every other frame the H2 sends.
LEMMA OthersAreBelievable ==
  /\ \A d \in Device : [type |-> "join", device |-> d] \in Believable
  /\ [type |-> "heartbeat"] \in Believable
  /\ [type |-> "nack"] \in Believable
<1>1. ASSUME NEW d \in Device PROVE [type |-> "join", device |-> d] \in Believable
  <2>1. [type |-> "join", device |-> d] \in [type: {"join"}, device: Device]
    OBVIOUS
  <2>2. [type |-> "join", device |-> d] \in UpFrame
    BY <2>1, Zenon DEF UpFrame
  <2>3. QED
    BY <2>2 DEF Believable
<1>2. ASSUME NEW k \in {"heartbeat", "nack"} PROVE [type |-> k] \in Believable
  <2>1. [type |-> k] \in [type: {"heartbeat", "nack"}]
    OBVIOUS
  <2>2. [type |-> k] \in UpFrame
    BY <2>1, Zenon DEF UpFrame
  <2>3. QED
    BY <2>2 DEF Believable
<1>3. QED
  BY <1>1, <1>2

-----------------------------------------------------------------------------
(* The link.                                                               *)

\* Nothing is under way when the chips start.
LEMMA LinkInit == Init => LinkInv
<1> SUFFICES ASSUME Init PROVE LinkInv
  OBVIOUS
<1>1. TasksTyped /\ FramesFit
  BY DEF Init, TasksTyped, FramesFit, Sending
<1>2. WiresTyped
  BY WireAssumption DEF Init, WiresTyped
<1>3. NetTyped /\ LocksAccounted
  BY DEF Init, NetTyped, LocksAccounted, Task
<1>4. QED
  BY <1>1, <1>2, <1>3 DEF LinkInv

\* A reset of the H2 leaves its tasks idle and its locks free.
LEMMA BootKeeps ==
  ASSUME LinkInv, H2Boots
  PROVE  TasksTyped' /\ FramesFit' /\ LocksAccounted'
         /\ net' = "booting" /\ joined' \subseteq Device /\ asked' = {}
<1>1. TasksTyped' /\ FramesFit'
  BY DEF H2Boots, TasksTyped, FramesFit, Sending
<1>2. LocksAccounted'
  BY DEF H2Boots, LocksAccounted, Task
<1>3. QED
  BY <1>1, <1>2 DEF H2Boots, LinkInv, NetTyped

\* A task with something believable to send.
LEMMA SendKeeps ==
  ASSUME TasksTyped, FramesFit, NEW t \in Task, NEW f \in Believable, Send(t, f)
  PROVE  TasksTyped' /\ FramesFit'
<1>1. f \in UpFrame
  BY DEF Believable
<1>2. TasksTyped'
  <2>1. pc' \in [Task -> {"idle", "wait", "write", "execute"}]
    BY DEF Send, TasksTyped
  <2>2. frame' \in [Task -> UpFrame \union Command \union {NoValue}]
    BY <1>1 DEF Send, TasksTyped
  <2>3. QED
    BY <2>1, <2>2 DEF TasksTyped
<1>3. /\ pc'[t] = "wait" /\ frame'[t] = f
      /\ \A u \in Task : u # t => pc'[u] = pc[u] /\ frame'[u] = frame[u]
  BY DEF Send, TasksTyped
<1>4. QED
  BY <1>2, <1>3 DEF FramesFit

\* A task that is done.
LEMMA DoneKeeps ==
  ASSUME TasksTyped, FramesFit, NEW t \in Task,
         pc' = [pc EXCEPT ![t] = "idle"], frame' = [frame EXCEPT ![t] = NoValue]
  PROVE  TasksTyped' /\ FramesFit'
<1>1. TasksTyped'
  BY DEF TasksTyped
<1>2. /\ pc'[t] = "idle"
      /\ \A u \in Task : u # t => pc'[u] = pc[u] /\ frame'[u] = frame[u]
  BY DEF TasksTyped
<1>3. QED
  BY <1>1, <1>2 DEF FramesFit, Sending

\* The frame at the head of a queue leaves it.
LEMMA TailKeeps ==
  ASSUME NEW S, NEW q \in Seq(S), q # <<>>, NEW m \in Nat, Len(q) <= m
  PROVE  Head(q) \in S /\ Tail(q) \in Seq(S) /\ Len(Tail(q)) <= m
  OBVIOUS

\* Every step of the link, one case per action.
LEMMA LinkStep == LinkInv /\ [Next]_vars => LinkInv'
<1> SUFFICES ASSUME LinkInv, [Next]_vars PROVE LinkInv'
  OBVIOUS
<1> USE DEF LinkInv
<1>1. ASSUME NEW t \in Task, TakeTx(t) PROVE LinkInv'
  <2>1. /\ pc[t] = "wait" /\ pc'[t] = "write"
        /\ \A u \in Task : u # t => pc'[u] = pc[u]
    BY <1>1 DEF TakeTx, TasksTyped
  <2>2. TasksTyped'
    BY <1>1 DEF TakeTx, TasksTyped
  <2>3. FramesFit'
    BY <1>1, <2>1 DEF TakeTx, FramesFit, Sending
  <2>4. LocksAccounted'
    BY <1>1, <2>1 DEF TakeTx, LocksAccounted, Task
  <2>5. WiresTyped' /\ NetTyped'
    BY <1>1 DEF TakeTx, WiresTyped, NetTyped, wires, zigbee
  <2>6. QED
    BY <2>2, <2>3, <2>4, <2>5
<1>2. ASSUME NEW t \in Task, WriteFrame(t) PROVE LinkInv'
  <2>1. TasksTyped' /\ FramesFit'
    BY <1>2, DoneKeeps DEF WriteFrame
  <2>2. WiresTyped'
    <3>1. frame[t] \in Believable
      BY <1>2 DEF WriteFrame, FramesFit, Sending
    <3>2. up' \in Seq(Believable) /\ Len(up') <= MaxWire
      BY <1>2, <3>1, WireAssumption DEF WriteFrame, WiresTyped
    <3>3. QED
      BY <1>2, <3>2 DEF WriteFrame, WiresTyped
  <2>3. LocksAccounted'
    <3>1. /\ pc[t] = "write" /\ pc'[t] = "idle"
          /\ \A u \in Task : u # t => pc'[u] = pc[u]
      BY <1>2 DEF WriteFrame, TasksTyped
    <3>2. QED
      BY <1>2, <3>1 DEF WriteFrame, LocksAccounted, Task
  <2>4. NetTyped'
    BY <1>2 DEF WriteFrame, NetTyped, zigbee
  <2>5. QED
    BY <2>1, <2>2, <2>3, <2>4
<1>3. ASSUME NEW f \in Believable, StackSends(f), joined' \subseteq Device PROVE LinkInv'
  <2>1. TasksTyped' /\ FramesFit'
    BY <1>3, SendKeeps DEF StackSends, Task
  <2>2. LocksAccounted'
    <3>1. /\ pc["zb"] = "idle" /\ pc'["zb"] = "wait"
          /\ \A u \in Task : u # "zb" => pc'[u] = pc[u]
      BY <1>3 DEF StackSends, Send, TasksTyped, Task
    <3>2. QED
      BY <1>3, <3>1 DEF StackSends, LocksAccounted, Task
  <2>3. WiresTyped' /\ NetTyped'
    BY <1>3 DEF StackSends, WiresTyped, NetTyped, wires
  <2>4. QED
    BY <2>1, <2>2, <2>3
<1>4. ASSUME NEW d \in Device, Announce(d) PROVE LinkInv'
  BY <1>3, <1>4, OthersAreBelievable DEF Announce, NetTyped
<1>5. ASSUME NEW m \in Readings, Report(m[1], m[2]) PROVE LinkInv'
  <2>1. m[1] \in Device /\ Forwarded(m[2]) /\ joined' = joined
    BY <1>5 DEF Report, NetTyped
  <2>2. [type |-> "report", device |-> m[1], attr |-> m[2].attr, value |-> ReportValue(m[2])]
          \in Believable
    BY <2>1, ReportIsBelievable
  <2>3. QED
    BY <1>3, <1>5, <2>1, <2>2 DEF Report, NetTyped
<1>6. CASE HeartbeatDue
  <2>1. TasksTyped' /\ FramesFit'
    BY <1>6, SendKeeps, OthersAreBelievable DEF HeartbeatDue, Task
  <2>2. LocksAccounted'
    <3>1. /\ pc["hb"] = "idle" /\ pc'["hb"] = "wait"
          /\ \A u \in Task : u # "hb" => pc'[u] = pc[u]
      BY <1>6 DEF HeartbeatDue, Send, TasksTyped, Task
    <3>2. QED
      BY <1>6, <3>1 DEF HeartbeatDue, LocksAccounted, Task
  <2>3. WiresTyped' /\ NetTyped'
    BY <1>6 DEF HeartbeatDue, WiresTyped, NetTyped, wires, zigbee
  <2>4. QED
    BY <2>1, <2>2, <2>3
<1>7. ASSUME NEW d \in Device, ReadResponse(d) PROVE LinkInv'
  BY <1>7 DEF ReadResponse, TasksTyped, FramesFit, WiresTyped, NetTyped, LocksAccounted, wires
<1>8. ASSUME NEW c \in Command, SendCommand(c) PROVE LinkInv'
  <2>1. down' \in Seq(Command) /\ Len(down') <= MaxWire
    BY <1>8, WireAssumption DEF SendCommand, WiresTyped
  <2>2. QED
    BY <1>8, <2>1 DEF SendCommand, h2Vars, zigbee, TasksTyped, FramesFit, WiresTyped,
      NetTyped, LocksAccounted
<1>9. ASSUME CommandArrives, up' = up PROVE WiresTyped' /\ Head(down) \in Command
  BY <1>9, TailKeeps, WireAssumption DEF CommandArrives, WiresTyped
<1>10. CASE TakeCommand
  <2>1. WiresTyped' /\ Head(down) \in Command
    BY <1>9, <1>10 DEF TakeCommand
  <2>2. /\ pc["rx"] = "idle" /\ pc'["rx"] = "execute" /\ frame'["rx"] = Head(down)
        /\ \A u \in Task : u # "rx" => pc'[u] = pc[u] /\ frame'[u] = frame[u]
    BY <1>10 DEF TakeCommand, CommandArrives, TasksTyped, Task
  <2>3. TasksTyped'
    BY <1>10, <2>1 DEF TakeCommand, TasksTyped
  <2>4. FramesFit'
    BY <2>1, <2>2 DEF FramesFit, Sending
  <2>5. LocksAccounted'
    BY <1>10, <2>2 DEF TakeCommand, LocksAccounted, Task
  <2>6. NetTyped'
    BY <1>10 DEF TakeCommand, NetTyped, zigbee
  <2>7. QED
    BY <2>1, <2>3, <2>4, <2>5, <2>6
<1>11. CASE RejectCommand
  <2>1. TasksTyped' /\ FramesFit'
    BY <1>11, SendKeeps, OthersAreBelievable DEF RejectCommand, Task
  <2>2. WiresTyped'
    BY <1>9, <1>11 DEF RejectCommand
  <2>3. LocksAccounted'
    <3>1. /\ pc["rx"] = "idle" /\ pc'["rx"] = "wait"
          /\ \A u \in Task : u # "rx" => pc'[u] = pc[u]
      BY <1>11 DEF RejectCommand, CommandArrives, Send, TasksTyped, Task
    <3>2. QED
      BY <1>11, <3>1 DEF RejectCommand, LocksAccounted, Task
  <2>4. NetTyped'
    BY <1>11 DEF RejectCommand, NetTyped, zigbee
  <2>5. QED
    BY <2>1, <2>2, <2>3, <2>4
<1>12. CASE LoseCommand
  <2>1. WiresTyped'
    BY <1>9, <1>12 DEF LoseCommand
  <2>2. QED
    BY <1>12, <2>1 DEF LoseCommand, h2Vars, zigbee, TasksTyped, FramesFit, NetTyped,
      LocksAccounted
<1>13. ASSUME pc["rx"] = "execute", pc' = [pc EXCEPT !["rx"] = "idle"],
              frame' = [frame EXCEPT !["rx"] = NoValue], UNCHANGED <<tx, lock>>
       PROVE  TasksTyped' /\ FramesFit' /\ LocksAccounted'
  <2>1. TasksTyped' /\ FramesFit'
    BY <1>13, DoneKeeps DEF Task
  <2>2. pc'["rx"] = "idle" /\ \A u \in Task : u # "rx" => pc'[u] = pc[u]
    BY <1>13 DEF TasksTyped, Task
  <2>3. LocksAccounted'
    BY <1>13, <2>2 DEF LocksAccounted, Task
  <2>4. QED
    BY <2>1, <2>3
<1>14. CASE Execute
  <2>1. NetTyped'
    <3>1. asked' \subseteq Polled
      BY <1>14 DEF Execute, Obey, NetTyped
    <3>2. net' \in {"booting", "starting", "closed", "open", "failed"}
      BY <1>14 DEF Execute, Obey, NetTyped
    <3>3. QED
      BY <1>14, <3>1, <3>2 DEF Execute, NetTyped
  <2>2. WiresTyped'
    BY <1>14 DEF Execute, WiresTyped, wires
  <2>3. QED
    BY <1>13, <1>14, <2>1, <2>2 DEF Execute
<1>15. ASSUME H2Boots, up' \in {up, <<>>}, down' = <<>>, calm' = calm PROVE LinkInv'
  <2>1. WiresTyped'
    <3>1. down' \in Seq(Command) /\ Len(down') <= MaxWire
      BY <1>15, WireAssumption
    <3>2. CASE up' = up
      BY <1>15, <3>1, <3>2 DEF WiresTyped
    <3>3. CASE up' = <<>>
      BY <3>1, <3>3, WireAssumption DEF WiresTyped
    <3>4. QED
      BY <1>15, <3>2, <3>3
  <2>2. NetTyped'
    BY <1>15, BootKeeps DEF NetTyped
  <2>3. QED
    BY <1>15, <2>1, <2>2, BootKeeps
<1>16. CASE ExecuteEarly
  <2>1. CASE H2Boots /\ down' = <<>>
    BY <1>15, <1>16, <2>1 DEF ExecuteEarly
  <2>2. CASE /\ pc' = [pc EXCEPT !["rx"] = "idle"]
             /\ frame' = [frame EXCEPT !["rx"] = NoValue]
             /\ UNCHANGED <<tx, lock, zigbee, down>>
    <3>1. WiresTyped' /\ NetTyped'
      BY <1>16, <2>2 DEF ExecuteEarly, WiresTyped, NetTyped, zigbee
    <3>2. QED
      BY <1>13, <1>16, <2>2, <3>1 DEF ExecuteEarly
  <2>3. QED
    BY <1>16, <2>1, <2>2 DEF ExecuteEarly
<1>17. ASSUME CoordinatorStarts \/ NetworkForms \/ WindowCloses PROVE LinkInv'
  <2>1. net' \in {"starting", "closed", "failed"}
        /\ UNCHANGED <<pc, frame, tx, lock, joined, asked, wires, calm>>
    BY <1>17 DEF CoordinatorStarts, NetworkForms, WindowCloses
  <2>2. QED
    BY <2>1 DEF TasksTyped, FramesFit, WiresTyped, NetTyped, LocksAccounted, wires
<1>18. ASSUME FrameArrives, UNCHANGED <<h2Vars, down, calm>> PROVE LinkInv'
  <2>1. WiresTyped'
    BY <1>18, TailKeeps, WireAssumption DEF FrameArrives, WiresTyped
  <2>2. QED
    BY <1>18, <2>1 DEF h2Vars, zigbee, TasksTyped, FramesFit, NetTyped, LocksAccounted
<1>19. CASE TakeFrame \/ LoseFrame
  BY <1>18, <1>19 DEF TakeFrame, LoseFrame
<1>20. CASE H2Reset
  BY <1>15, <1>20 DEF H2Reset
<1>21. CASE C6Reset
  BY <1>15, <1>21 DEF C6Reset
<1>22. CASE CalmDown
  BY <1>22 DEF CalmDown, h2Vars, zigbee, wires, TasksTyped, FramesFit, WiresTyped,
    NetTyped, LocksAccounted
<1>23. CASE UNCHANGED vars
  BY <1>23 DEF vars, h2Vars, zigbee, wires, TasksTyped, FramesFit, WiresTyped,
    NetTyped, LocksAccounted
<1>24. QED
  BY <1>1, <1>2, <1>4, <1>5, <1>6, <1>7, <1>8, <1>10, <1>11, <1>12, <1>14, <1>16, <1>17,
     <1>19, <1>20, <1>21, <1>22, <1>23 DEF Next

\* Tasks, wires, network and locks are as LinkInv says in every reachable
\* state.
LEMMA LinkAlways == Spec => []LinkInv
  BY LinkInit, LinkStep, PTL DEF Spec

-----------------------------------------------------------------------------
(* The store behind the link.                                              *)

\* The store's table, cardinalities and sets are those of this module.
LEMMA StoreNames ==
  /\ Store!Mapped = Mapped
  /\ \A a : Store!PlausibleRange(a) = PlausibleRange(a)
  /\ \A S : Store!Cardinality(S) = Cardinality(S)
<1>1. Store!Mapped = Mapped
  BY DEF Store!Mapped, Mapped
<1>2. ASSUME NEW a PROVE Store!PlausibleRange(a) = PlausibleRange(a)
  BY Zenon DEF Store!PlausibleRange, PlausibleRange
<1>3. ASSUME NEW S PROVE Store!Cardinality(S) = Cardinality(S)
  BY Zenon DEF Store!Cardinality, Cardinality
<1>4. QED
  BY <1>1, <1>2, <1>3

\* The attributes of a device never need more slots than it has.
LEMMA SlotsSuffice ==
  ASSUME NEW f, DOMAIN f = Mapped, NEW a \in Mapped
  PROVE  /\ Cardinality(Store!Configured(f)) <= MaxSlots
         /\ f[a] # NoValue \/ Cardinality(Store!Configured(f)) < MaxSlots
<1>1. IsFiniteSet(Mapped)
  <2>1. IsFiniteSet({} \union {"temperature"} \union {"humidity"} \union {"co2"}
                       \union {"dry_contact"} \union {"battery"})
    BY FS_EmptySet, FS_AddElement, Zenon
  <2>2. Mapped = {} \union {"temperature"} \union {"humidity"} \union {"co2"}
                   \union {"dry_contact"} \union {"battery"}
    BY DEF Mapped
  <2>3. QED
    BY <2>1, <2>2
<1>2. Store!Configured(f) \in SUBSET Mapped
  BY DEF Store!Configured
<1>3. /\ Cardinality(Mapped) \in Nat /\ Cardinality(Store!Configured(f)) \in Nat
      /\ Cardinality(Store!Configured(f)) <= Cardinality(Mapped)
      /\ Cardinality(Mapped) = Cardinality(Store!Configured(f)) => Mapped = Store!Configured(f)
  BY <1>1, <1>2, FS_Subset, FS_CardinalityType
<1>4. f[a] = NoValue => a \notin Store!Configured(f)
  BY DEF Store!Configured
<1>5. QED
  BY <1>3, <1>4, WireAssumption

\* A report the C6 believes, of a device it knows, is not refused.
LEMMA BelievableIsAccepted ==
  ASSUME StoreTyped, NEW f \in Believable, f.type = "report", f.device \in devices
  PROVE  Store!Accepts(f.device, f.attr, f.value)
<1>1. f.attr \in Mapped /\ f.value \in PlausibleRange(f.attr)
  BY DEF Believable, UpFrame
<1>2. attributes[f.device] \in [Mapped -> Int \union {NoValue}]
  BY StoreNames DEF StoreTyped, Store!LayersOK
<1>3. Store!HasSlot(f.device, f.attr)
  BY <1>1, <1>2, SlotsSuffice, StoreNames DEF Store!HasSlot
<1>4. QED
  BY <1>1, <1>3, StoreNames DEF Store!Accepts

\* The battery minimum of finitely many devices is a number.
LEMMA FiniteHasLeast ==
  ASSUME NEW S \in SUBSET Int, IsFiniteSet(S)
  PROVE  Store!Least(S) \in Int
<1> DEFINE HasLeast(T) == \E m \in T : \A v \in T : m <= v
           Bad == {T \in SUBSET S : T # {} /\ ~HasLeast(T)}
<1>1. ASSUME NEW T \in SUBSET S, \A U \in SUBSET T : U # T => U \notin Bad
      PROVE  T \notin Bad
  <2> SUFFICES ASSUME T # {} PROVE HasLeast(T)
    OBVIOUS
  <2>1. PICK x \in T : TRUE
    OBVIOUS
  <2>2. CASE T \ {x} = {}
    BY <2>2
  <2>3. CASE T \ {x} # {}
    <3>1. T \ {x} \in SUBSET T /\ T \ {x} # T
      OBVIOUS
    <3>2. HasLeast(T \ {x})
      BY <1>1, <2>3, <3>1
    <3>3. PICK m \in T \ {x} : \A v \in T \ {x} : m <= v
      BY <3>2
    <3>4. QED
      BY <3>3
  <2>4. QED
    BY <2>2, <2>3
<1>2. Bad = {}
  <2> SUFFICES ASSUME Bad # {} PROVE FALSE
    OBVIOUS
  <2>1. Bad \subseteq FiniteSubsetsOf(S)
    BY FS_Subset DEF FiniteSubsetsOf
  <2>2. PICK T \in Bad : \A U \in Bad : ~(<<U, T>> \in StrictSubsetOrdering(S))
    BY <2>1, FS_StrictSubsetOrderingWellFounded, WFMin
  <2>3. \A U \in SUBSET T : U # T => U \notin Bad
    BY <2>2 DEF StrictSubsetOrdering
  <2>4. QED
    BY <1>1, <2>3
<1>3. CASE S = {}
  BY <1>3 DEF Store!Least
<1>4. CASE S # {}
  <2>1. HasLeast(S)
    BY <1>2, <1>4
  <2>2. Store!Least(S) = CHOOSE m \in S : \A v \in S : m <= v
    BY <1>4, Zenon DEF Store!Least
  <2>3. Store!Least(S) \in S
    BY <2>1, <2>2, Zenon
  <2>4. QED
    BY <2>3
<1>5. QED
  BY <1>3, <1>4

\* The lowest battery level of a zone is a number, with no device in it as
\* well.
LEMMA BatteryMinIsNumber ==
  ASSUME NEW devs \in SUBSET Device, NEW attrs \in [Device -> [Mapped -> Int \union {NoValue}]]
  PROVE  Store!BatteryMin(devs, attrs) \in Int
<1> DEFINE levels == {attrs[d]["battery"] : d \in devs}
           level == [d \in devs |-> attrs[d]["battery"]]
<1>1. IsFiniteSet(levels)
  <2>1. IsFiniteSet(devs)
    BY WireAssumption, FS_Subset
  <2>2. level \in Surjection(devs, levels)
    BY DEF Surjection
  <2>3. QED
    BY <2>1, <2>2, FS_Surjection
<1>2. Store!BatteryReadings(devs, attrs) \subseteq levels
  BY DEF Store!BatteryReadings
<1>3. Store!BatteryReadings(devs, attrs) \in SUBSET Int
  BY DEF Store!BatteryReadings, Mapped
<1>4. QED
  BY <1>1, <1>2, <1>3, FS_Subset, FiniteHasLeast DEF Store!BatteryMin

\* What StoreTyped leaves out of the store's type invariant holds of itself: no
\* space and no equipment is configured, the slots suffice.
LEMMA StoreTypedSuffices == StoreTyped => Store!TypeOK
<1> SUFFICES ASSUME StoreTyped PROVE Store!TypeOK
  OBVIOUS
<1>1. Store!LayersOK
  BY DEF StoreTyped
<1>2. Store!Configured(spaces) = {} /\ Store!Configured(equipment) = {}
  <2>1. DOMAIN spaces = {} /\ DOMAIN equipment = {}
    BY <1>1 DEF StoreTyped, Store!LayersOK
  <2>2. QED
    BY <2>1 DEF Store!Configured
<1>3. \A d \in Device : Cardinality(Store!Configured(attributes[d])) <= MaxSlots
  <2> SUFFICES ASSUME NEW d \in Device
               PROVE  Cardinality(Store!Configured(attributes[d])) <= MaxSlots
    OBVIOUS
  <2>1. attributes[d] \in [Mapped -> Int \union {NoValue}]
    BY <1>1, StoreNames DEF Store!LayersOK
  <2>2. "battery" \in Mapped
    BY DEF Mapped
  <2>3. QED
    BY <2>1, <2>2, SlotsSuffice
<1>4. Store!TablesFit
  <2>1. Cardinality(Store!Configured(equipment)) = 0
        /\ Cardinality(Store!Configured(spaces)) = 0
    BY <1>2, FS_EmptySet, Zenon
  <2>2. QED
    BY <1>3, <2>1, StoreNames DEF StoreTyped, Store!TablesFit
<1>5. spaces \in [{} -> Store!Aggregated \union {NoValue}]
  BY DEF StoreTyped
<1>6. QED
  BY <1>1, <1>4, <1>5 DEF StoreTyped, Store!TypeOK

\* The store starts well typed.
LEMMA StoreInit == Init => StoreTyped
<1> SUFFICES ASSUME Init PROVE StoreTyped
  OBVIOUS
<1>1. Store!LayersOK
  BY DEF Init, Store!Init, Store!LayersOK
<1>2. QED
  BY <1>1, FS_EmptySet, WireAssumption DEF Init, Store!Init, StoreTyped

\* handle_device_join.
LEMMA HandleJoinKeeps ==
  ASSUME StoreTyped, NEW d \in Device, HandleJoin(d)
  PROVE  StoreTyped'
<1>1. CASE UNCHANGED storeVars
  BY <1>1 DEF storeVars, StoreTyped, Store!LayersOK
<1>2. CASE Store!Join(d)
  <2>1. /\ d \in devices \/ Cardinality(devices) < MaxDevices
        /\ devices' = devices \union {d} /\ online' = [online EXCEPT ![d] = TRUE]
        /\ UNCHANGED <<attributes, equipment, spaces, batteryMin>>
    BY <1>2, StoreNames DEF Store!Join, Store!RegisterDevice
  <2>2. Store!LayersOK'
    BY <2>1 DEF StoreTyped, Store!LayersOK
  <2>3. Cardinality(devices') <= MaxDevices
    <3>1. IsFiniteSet(devices)
      BY FS_Subset, WireAssumption DEF StoreTyped, Store!LayersOK
    <3>2. Cardinality(devices) \in Nat
      BY <3>1, FS_CardinalityType
    <3>3. Cardinality(devices \union {d})
            = IF d \in devices THEN Cardinality(devices) ELSE Cardinality(devices) + 1
      BY <3>1, FS_AddElement
    <3>4. QED
      BY <2>1, <3>2, <3>3, WireAssumption DEF StoreTyped
  <2>4. QED
    BY <2>1, <2>2, <2>3 DEF StoreTyped
<1>3. QED
  BY <1>1, <1>2 DEF HandleJoin

\* handle_sensor_report.
LEMMA HandleReportKeeps ==
  ASSUME StoreTyped, NEW f \in Believable, f.type = "report", HandleReport(f)
  PROVE  StoreTyped'
<1>1. CASE UNCHANGED storeVars
  BY <1>1 DEF storeVars, StoreTyped, Store!LayersOK
<1>2. CASE Store!UpdateAttribute(f.device, f.attr, f.value)
  <2>1. f.attr \in Mapped /\ f.value \in Int /\ f.device \in Device
    BY DEF Believable, UpFrame
  <2>2. /\ attributes' = [attributes EXCEPT ![f.device][f.attr] = f.value]
        /\ batteryMin' = Store!BatteryMin(devices, attributes') \/ batteryMin' = batteryMin
        /\ spaces' = Store!AggregateAll(devices, online, attributes', equipment)
        /\ UNCHANGED <<devices, online, equipment>>
    BY <1>2 DEF Store!UpdateAttribute
  <2>3. attributes' \in [Device -> [Mapped -> Int \union {NoValue}]]
    BY <2>1, <2>2, StoreNames DEF StoreTyped, Store!LayersOK
  <2>4. Store!LayersOK'
    BY <2>2, <2>3, StoreNames DEF StoreTyped, Store!LayersOK
  <2>5. batteryMin' \in Int
    <3>1. devices \in SUBSET Device
      BY DEF StoreTyped, Store!LayersOK
    <3>2. Store!BatteryMin(devices, attributes') \in Int
      BY <2>3, <3>1, BatteryMinIsNumber
    <3>3. QED
      BY <2>2, <3>2 DEF StoreTyped
  <2>6. DOMAIN spaces' = {} /\ spaces' = [x \in {} |-> spaces'[x]]
    BY <2>2 DEF Store!AggregateAll
  <2>7. QED
    BY <2>2, <2>4, <2>5, <2>6 DEF StoreTyped
<1>3. QED
  BY <1>1, <1>2 DEF HandleReport

\* Only believable frames reach the store, so every step leaves it well typed.
LEMMA StoreStep == LinkInv /\ StoreTyped /\ [Next]_vars => StoreTyped'
<1> SUFFICES ASSUME LinkInv, StoreTyped, [Next]_vars PROVE StoreTyped'
  OBVIOUS
<1>1. CASE TakeFrame
  <2>1. Head(up) \in Believable
    BY <1>1, TailKeeps, WireAssumption DEF TakeFrame, FrameArrives, LinkInv, WiresTyped
  <2>2. CASE Head(up).type = "join"
    <3>1. Head(up).device \in Device
      BY <2>1, <2>2 DEF Believable, UpFrame
    <3>2. HandleJoin(Head(up).device)
      BY <1>1, <2>2 DEF TakeFrame
    <3>3. QED
      BY <3>1, <3>2, HandleJoinKeeps
  <2>3. CASE Head(up).type = "report"
    <3>1. HandleReport(Head(up))
      BY <1>1, <2>3 DEF TakeFrame
    <3>2. QED
      BY <2>1, <2>3, <3>1, HandleReportKeeps
  <2>4. CASE Head(up).type \notin {"join", "report"}
    <3>1. UNCHANGED storeVars
      BY <1>1, <2>4 DEF TakeFrame
    <3>2. QED
      BY <3>1 DEF storeVars, StoreTyped, Store!LayersOK
  <2>5. QED
    BY <2>2, <2>3, <2>4
<1>2. CASE C6Reset
  <2>1. Store!LayersOK'
    BY <1>2, StoreNames DEF C6Reset, StoreTyped, Store!LayersOK
  <2>2. QED
    BY <1>2, <2>1, FS_EmptySet, WireAssumption DEF C6Reset, StoreTyped
<1>3. ASSUME UNCHANGED storeVars PROVE StoreTyped'
  BY <1>3 DEF storeVars, StoreTyped, Store!LayersOK
<1>4. QED
  BY <1>1, <1>2, <1>3
  DEF Next, TakeTx, WriteFrame, Announce, ReadResponse, Report, StackSends, HeartbeatDue,
      SendCommand, TakeCommand, RejectCommand, LoseCommand, Execute, ExecuteEarly,
      CoordinatorStarts, NetworkForms, WindowCloses, LoseFrame, H2Reset, CalmDown, vars

\* The two chips keep their types: tables, queues, frames and programs, through
\* every loss and every reset.
THEOREM SessionTypeCorrect == Spec => []TypeOK
<1>1. LinkInv /\ StoreTyped => TypeOK
  <2> SUFFICES ASSUME LinkInv, StoreTyped PROVE TypeOK
    OBVIOUS
  <2>1. up \in Seq(UpFrame)
    <3>1. Believable \subseteq UpFrame
      BY DEF Believable
    <3>2. QED
      BY <3>1 DEF LinkInv, WiresTyped
  <2>2. Store!TypeOK
    BY StoreTypedSuffices
  <2>3. QED
    BY <2>1, <2>2 DEF LinkInv, TasksTyped, WiresTyped, NetTyped, LocksAccounted, TypeOK, Task
<1>2. Init => StoreTyped
  BY StoreInit
<1>3. QED
  BY <1>1, <1>2, LinkAlways, StoreStep, PTL DEF Spec

\* zigbee_cluster_handler.c and cluster_map.c, the two tables kept by hand:
\* whatever the H2 forwards of a device the C6 knows is stored, for every device,
\* every message and any number of frames lost, damaged or overtaken by resets.
THEOREM ForwardedReportsAreStored == Spec => ForwardedIsStored
<1>1. LinkInv /\ StoreTyped /\ [Next]_vars
        => LET f == Head(up)
           IN /\ up # <<>> /\ f.type = "report" /\ f.device \in devices
              /\ TakeFrame
              => attributes'[f.device][f.attr] = f.value
  <2> SUFFICES ASSUME LinkInv, StoreTyped, up # <<>>, NEW f, f = Head(up), f.type = "report",
                      f.device \in devices, TakeFrame
               PROVE  attributes'[f.device][f.attr] = f.value
    BY Zenon
  <2>1. f \in Believable
    BY TailKeeps, WireAssumption DEF LinkInv, WiresTyped
  <2>2. Store!Accepts(f.device, f.attr, f.value)
    BY <2>1, BelievableIsAccepted
  <2>3. HandleReport(f)
    BY DEF TakeFrame
  <2>4. attributes' = [attributes EXCEPT ![f.device][f.attr] = f.value]
    BY <2>2, <2>3 DEF HandleReport, Store!UpdateAttribute
  <2>5. f.device \in DOMAIN attributes /\ f.attr \in DOMAIN attributes[f.device]
    <3>1. f.attr \in Mapped
      BY <2>1 DEF Believable, UpFrame
    <3>2. QED
      BY <3>1, StoreNames DEF StoreTyped, Store!LayersOK
  <2>6. QED
    BY <2>4, <2>5
<1>2. Init => StoreTyped
  BY StoreInit
<1>3. QED
  BY <1>1, <1>2, LinkAlways, StoreStep, PTL DEF Spec, ForwardedIsStored

\* uart_bridge.c: one frame at a time is written, and each lock is held exactly
\* by the task whose program is inside it, so that a task that waits for a lock
\* waits for one that runs.
THEOREM LocksHaveRunningHolders == Spec => []LocksAccounted
  BY LinkAlways, PTL DEF LinkInv
=============================================================================
