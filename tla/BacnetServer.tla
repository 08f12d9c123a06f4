----------------------------- MODULE BacnetServer -----------------------------
(***************************************************************************)
(* firmware-c6/components/bacnet over the store it publishes: the object   *)
(* map, the projection of a row onto the store (bacnet_objects.c), the     *)
(* transport registry, the datalink glue and bacnet_task.                  *)
(*                                                                         *)
(* bacnet_task answers requests and refreshes the present values in turn,  *)
(* so a request never sees half a refresh; but the rows of a refresh are   *)
(* read from the store one by one, while other tasks write to it.  What a  *)
(* request asks for, and the protocol stack, are left out.                 *)
(***************************************************************************)
EXTENDS SensorState, Sequences

CONSTANTS
  Zone,           \* ZONE_A
  MaxTransports,  \* BACNET_MAX_TRANSPORTS
  NvsCounts,      \* commit counts hal_nvs_get_write_count can boot with
  MaxMisses       \* bound: deadline misses counted

VARIABLES
  misses,     \* rt_deadline_miss_count of the store
  nvsWrites,  \* nvs_write_count of the store
  links,      \* number of registered transports
  started,    \* bacnet_server_start was called
  pending,    \* transports with a PDU to read
  turn,       \* what bacnet_task does: poll a transport or refresh a row
  shown,      \* present value of each object, by row of the object map
  calm        \* environment: the store rests and its mutex is free

ASSUME BacnetAssumption ==
  /\ Zone \in Space
  /\ MaxTransports \in Nat /\ MaxMisses \in Nat /\ NvsCounts \subseteq Nat

published == <<vars, misses, nvsWrites>>
taskVars == <<turn, shown>>
serverVars == <<published, links, started, pending, taskVars, calm>>

-----------------------------------------------------------------------------
(* Object map.                                                             *)

Row(instance, type, category) ==
  [instance |-> instance, type |-> type, category |-> category]

\* BACNET_OBJECT_MAP.  A category other than UNKNOWN belongs to ZONE_A.
ObjectMap ==
  << Row(0, "AI", "TEMPERATURE"), Row(1, "AI", "HUMIDITY"), Row(2, "AI", "CO2"),
     Row(10, "BI", "DRY_CONTACT"),
     Row(300, "AI", "UNKNOWN"), Row(301, "AI", "UNKNOWN"),
     Row(302, "AI", "UNKNOWN"), Row(303, "AI", "UNKNOWN") >>

\* sensor_state_get_bacnet_value; NoValue for ESP_ERR_NOT_FOUND.  Nobody writes
\* zigbee_avg_lqi.
StoreValue(instance) ==
  CASE instance = 300 -> misses
    [] instance = 301 -> 0
    [] instance = 302 -> batteryMin
    [] instance = 303 -> nvsWrites
    [] OTHER -> NoValue

\* sensor_state_get_space and the field of the category.
SpaceValue(category) ==
  IF category = "UNKNOWN" \/ spaces[Zone] = NoValue THEN NoValue
  ELSE IF category = "DRY_CONTACT" THEN (IF spaces[Zone].dry THEN 1 ELSE 0)
  ELSE spaces[Zone].avg[category]

\* bacnet_object_present_value; NoValue when the row does not resolve.
PresentValue(row) ==
  IF StoreValue(row.instance) # NoValue THEN StoreValue(row.instance)
  ELSE SpaceValue(row.category)

-----------------------------------------------------------------------------
Rows == DOMAIN ObjectMap
Polling(i) == turn = [step |-> "poll", n |-> i]
Refreshing(i) == turn = [step |-> "refresh", n |-> i]

ServerTypeOK ==
  /\ TypeOK
  /\ misses \in 0..MaxMisses /\ nvsWrites \in NvsCounts
  /\ links \in 0..MaxTransports /\ pending \subseteq 1..links
  /\ started \in BOOLEAN /\ calm \in BOOLEAN
  /\ turn \in [step: {"poll"}, n: 1..(MaxTransports + 1)] \union [step: {"refresh"}, n: Rows]
  /\ shown \in [Rows -> Int]

\* bacnet_server_init: objects are created with present value 0.  The commit
\* count of the NVS was copied to the store before, and is not copied again.
ServerInit ==
  /\ Init
  /\ misses = 0 /\ nvsWrites \in NvsCounts
  /\ links = 0 /\ started = FALSE
  /\ pending = {}
  /\ turn = [step |-> "poll", n |-> 1]
  /\ shown = [r \in Rows |-> 0]
  /\ calm = FALSE

-----------------------------------------------------------------------------
(* Start-up and the rest of the program.                                   *)

\* The registry without its limit.
AddTransportUnlimited ==
  /\ ~started /\ links <= MaxTransports
  /\ links' = links + 1
  /\ UNCHANGED <<published, started, pending, taskVars, calm>>

\* bacnet_server_add_transport of a transport that comes up.
AddTransport ==
  /\ ~started
  /\ links < MaxTransports
  /\ links' = links + 1
  /\ UNCHANGED <<published, started, pending, taskVars, calm>>

\* bacnet_server_start; app_main calls it when a transport came up.
Start ==
  /\ ~started
  /\ links > 0
  /\ started' = TRUE
  /\ UNCHANGED <<published, links, pending, taskVars, calm>>

StoreChanges ==
  /\ ~calm
  /\ Next
  /\ UNCHANGED <<misses, nvsWrites, links, started, pending, taskVars, calm>>

\* sensor_state_increment_deadline_miss that gets the mutex.
IncrementDeadlineMiss ==
  /\ ~calm
  /\ misses < MaxMisses
  /\ misses' = misses + 1
  /\ UNCHANGED <<vars, nvsWrites, links, started, pending, taskVars, calm>>

PduArrives(i) ==
  /\ i \in 1..links
  /\ pending' = pending \union {i}
  /\ UNCHANGED <<published, links, started, taskVars, calm>>

CalmDown ==
  /\ ~calm
  /\ calm' = TRUE
  /\ UNCHANGED <<published, links, started, pending, taskVars>>

-----------------------------------------------------------------------------
(* bacnet_task.                                                            *)

\* datalink_receive returns the PDU of transport i, npdu_handler handles it.
Receive(i) ==
  /\ started
  /\ Polling(i)
  /\ i \in pending
  /\ pending' = pending \ {i}
  /\ turn' = [step |-> "refresh", n |-> 1]
  /\ UNCHANGED <<published, links, started, shown, calm>>

\* No transport but the first is asked.
NothingReceivedFirstOnly(i) ==
  /\ started
  /\ Polling(i)
  /\ i \in 1..links \ pending
  /\ turn' = [step |-> "refresh", n |-> 1]
  /\ UNCHANGED <<published, links, started, pending, shown, calm>>

\* Nothing comes on transport i within the timeout; the next one is asked.
NothingReceived(i) ==
  /\ started
  /\ Polling(i)
  /\ i \in 1..links \ pending
  /\ turn' = IF i < links THEN [step |-> "poll", n |-> i + 1]
           ELSE [step |-> "refresh", n |-> 1]
  /\ UNCHANGED <<published, links, started, pending, shown, calm>>

\* The row after i, or the next round of the task.
Advance(i) ==
  turn' = IF i < Len(ObjectMap) THEN [step |-> "refresh", n |-> i + 1]
        ELSE [step |-> "poll", n |-> 1]

\* A row that does not resolve ends the round.
RefreshEndingEarly(i) ==
  /\ Refreshing(i)
  /\ LET v == PresentValue(ObjectMap[i])
     IN IF v = NoValue
        THEN shown' = shown /\ turn' = [step |-> "poll", n |-> 1]
        ELSE shown' = [shown EXCEPT ![i] = v] /\ Advance(i)
  /\ UNCHANGED <<published, links, started, pending, calm>>

\* refresh_present_values, row i.  A row that does not resolve, or whose store
\* call times out, keeps its value.
Refresh(i) ==
  /\ Refreshing(i)
  /\ Advance(i)
  /\ LET v == PresentValue(ObjectMap[i])
     IN \/ v # NoValue /\ shown' = [shown EXCEPT ![i] = v]
        \/ (v = NoValue \/ ~calm) /\ shown' = shown
  /\ UNCHANGED <<published, links, started, pending, calm>>

Task ==
  \/ \E i \in 1..MaxTransports : Receive(i) \/ NothingReceived(i)
  \/ \E i \in Rows : Refresh(i)

ServerNext ==
  \/ AddTransport \/ Start
  \/ StoreChanges \/ IncrementDeadlineMiss \/ CalmDown
  \/ \E i \in 1..MaxTransports : PduArrives(i)
  \/ Task

ServerSpec == ServerInit /\ [][ServerNext]_serverVars

\* bacnet_task is scheduled.
FairServerSpec == ServerSpec /\ WF_serverVars(Task)

-----------------------------------------------------------------------------
\* Once the store rests, every object shows the store's value, and keeps showing
\* it, whatever was skipped before and however busy the transports are.
ShownCatchesUp ==
  calm /\ started
    ~> [](\A i \in Rows : PresentValue(ObjectMap[i]) # NoValue
                            => shown[i] = PresentValue(ObjectMap[i]))

\* A PDU is read, unless a transport registered earlier always has one.
EveryLinkServed ==
  \A i \in 1..MaxTransports :
    (\A j \in 1..(i - 1) : []<><<NothingReceived(j)>>_serverVars)
      => (started /\ i \in pending ~> i \notin pending)
=============================================================================
