-------------------------------- MODULE IoScan --------------------------------
(***************************************************************************)
(* firmware-c6/components/io_scan over the chips of the expansion bus: an  *)
(* MCP23017 (port A in, port B out), ADS1115 converters and the SHT40.     *)
(*                                                                         *)
(* A tick is a sequence of I2C transactions and any of them may fail.      *)
(* Between two of them the safety interrupt may use the MCP23017 as well,  *)
(* whose register pointer the two share; a conversion that the previous    *)
(* tick started may be running still.  Of a value only its origin is kept: *)
(* the input or channel it was taken on, once the inputs rest; an earlier  *)
(* one is out of date in any case.                                         *)
(***************************************************************************)
EXTENDS Integers

CONSTANTS
  Channels,  \* ai_channel_count(), at least 1
  PerChip,   \* channels of an ADS1115
  Interval,  \* IO_SCAN_SHT40_INTERVAL
  NoValue    \* no value, or one from before the inputs came to rest

VARIABLES
  pointer,  \* register pointer of the MCP23017
  adc,      \* of each ADS1115: conversion register, conversion in progress
  directed, \* the pins of port B are outputs (IODIRB)
  bus,      \* hal_i2c is initialised
  di,       \* s_di is port A as it is since the inputs came to rest
  held,     \* so is what the tick has read and not stored yet
  applied,  \* output latches and DAC carry s_do and s_ao
  adcCh,    \* s_adc_ch
  ai,       \* s_ai_raw, s_ai_volt: where each value is from
  count,    \* s_tick modulo Interval
  local,    \* the local reading of the store is from after the inputs came to rest
  at,       \* the transaction of the tick that comes next
  calm      \* environment: the inputs rest, no transaction fails any more

chips == <<pointer, adc, directed>>
images == <<bus, di, held, applied, adcCh, ai, count, local>>

Channel == 0..(Channels - 1)
AdsAddr(c) == c \div PerChip
Chip == {AdsAddr(c) : c \in Channel}
Sample == Channel \union {NoValue}

TypeOK ==
  /\ pointer \in {"GPIOA", "GPIOB"}
  /\ adc \in [Chip -> [result: Sample, busy: Sample]]
  /\ directed \in BOOLEAN
  /\ bus \in BOOLEAN /\ di \in BOOLEAN /\ held \in BOOLEAN /\ applied \in BOOLEAN
  /\ adcCh \in Channel /\ ai \in [Channel -> Sample]
  /\ count \in 0..(Interval - 1)
  /\ local \in BOOLEAN
  /\ at \in {"off", "idle", "point", "read", "store", "result", "start", "write", "sht40"}
  /\ calm \in BOOLEAN

NoValues == [c \in Channel |-> NoValue]
Resting == [a \in Chip |-> [result |-> NoValue, busy |-> NoValue]]

\* Power has just come up: all pins are inputs, and the program's memory, before
\* io_scan_init, is cleared.
Init ==
  /\ pointer = "GPIOA" /\ directed = FALSE
  /\ adc = Resting
  /\ bus = FALSE /\ di = FALSE /\ held = FALSE /\ applied = FALSE
  /\ adcCh = 0 /\ ai = NoValues /\ count = 0 /\ local = FALSE /\ at = "off"
  /\ calm = FALSE

\* hal_i2c reports an error: the bus is not up, or the device does not answer.
Fails == ~bus \/ ~calm

-----------------------------------------------------------------------------
(* The chips.                                                              *)

\* What the ADS1115s are after a start on channel c.  One that is converting
\* already may ignore it.
Started(c) ==
  LET a == AdsAddr(c)
  IN {[adc EXCEPT ![a].busy = c]} \union (IF adc[a].busy = NoValue THEN {} ELSE {adc})

\* A conversion ends.
Convert(a) ==
  /\ adc[a].busy # NoValue
  /\ adc' = [adc EXCEPT ![a] = [result |-> IF calm THEN adc[a].busy ELSE NoValue,
                               busy |-> NoValue]]
  /\ UNCHANGED <<pointer, directed, images, at, calm>>

\* Inputs, callers and bus come to rest.
CalmDown ==
  /\ ~calm
  /\ calm' = TRUE
  /\ UNCHANGED <<chips, images, at>>

\* The program starts anew.  The chips of the bus are as they were, or begin
\* anew as well when it is the power that comes back.
Restart ==
  /\ bus' = FALSE /\ di' = FALSE /\ held' = FALSE /\ applied' = FALSE
  /\ adcCh' = 0 /\ ai' = NoValues /\ count' = 0 /\ local' = FALSE /\ at' = "off"
  /\ \/ UNCHANGED <<pointer, adc, directed>>
     \/ pointer' = "GPIOA" /\ adc' = Resting /\ directed' = FALSE
  /\ UNCHANGED calm

-----------------------------------------------------------------------------
(* Calls from outside the tick.                                            *)

\* io_scan_init.  No result is looked at: not that of hal_sensor_local_init,
\* which brings up the bus, not those of hal_mcp23017_configure_pin, three
\* transactions per pin that nothing repeats, not that of the first conversion.
\* A pin that is an output already stays one whatever fails.
Setup ==
  /\ at = "off"
  /\ at' = "idle"
  /\ bus' \in (IF calm THEN {TRUE} ELSE BOOLEAN)
  /\ IF bus'
     THEN /\ directed' \in {TRUE} \union (IF calm THEN {} ELSE {directed})
          /\ adc' \in Started(0) \union (IF calm THEN {} ELSE {adc})
     ELSE UNCHANGED <<directed, adc>>
  /\ UNCHANGED <<pointer, di, held, applied, adcCh, ai, count, local, calm>>

\* io_scan_safety_interrupt: register pointer, port and s_di in one go, or an
\* error before the port is read.
SafetyInterrupt ==
  /\ at # "off" /\ ~calm /\ bus
  /\ pointer' \in {"GPIOA", "GPIOB"}
  /\ UNCHANGED <<adc, directed, images, at, calm>>

\* io_scan_set_do, io_scan_set_ao.
SetOutput ==
  /\ at # "off" /\ ~calm
  /\ applied' = FALSE
  /\ UNCHANGED <<chips, bus, di, held, adcCh, ai, count, local, at, calm>>

-----------------------------------------------------------------------------
(* io_scan_tick.                                                           *)

Begin ==
  /\ at = "idle"
  /\ count' = (count + 1) % Interval
  /\ at' = "point"
  /\ UNCHANGED <<chips, bus, di, held, applied, adcCh, ai, local, calm>>

\* hal_mcp23017_read_port: the pointer is written...
PointAtA ==
  /\ at = "point"
  /\ \/ bus /\ pointer' = "GPIOA" /\ at' = "read"
     \/ Fails /\ pointer' = pointer /\ at' = "result"
  /\ UNCHANGED <<adc, directed, images, calm>>

\* ... and the register it points at is read; the pointer moves on by itself.
\* Port B is something else.
ReadPort ==
  /\ at = "read"
  /\ \/ /\ bus
        /\ held' = (calm /\ pointer = "GPIOA")
        /\ pointer' = "GPIOB" /\ at' = "store"
     \/ /\ Fails
        /\ held' = held /\ pointer' = pointer /\ at' = "result"
  /\ UNCHANGED <<adc, directed, bus, di, applied, adcCh, ai, count, local, calm>>

StoreDi ==
  /\ at = "store"
  /\ di' = held
  /\ held' = FALSE
  /\ at' = "result"
  /\ UNCHANGED <<chips, bus, applied, adcCh, ai, count, local, calm>>

\* The result filed under the channel that comes next.
ReadResultAhead ==
  /\ at = "result"
  /\ \/ bus /\ ai' = [ai EXCEPT ![(adcCh + 1) % Channels] = adc[AdsAddr(adcCh)].result]
     \/ Fails /\ ai' = ai
  /\ adcCh' = (adcCh + 1) % Channels
  /\ at' = "start"
  /\ UNCHANGED <<chips, bus, di, held, applied, count, local, calm>>

\* The channel index runs past the last channel before it returns to the first.
ReadResultPastEnd ==
  /\ at = "result"
  /\ \/ bus /\ ai' = [ai EXCEPT ![adcCh] = adc[AdsAddr(adcCh)].result]
     \/ Fails /\ ai' = ai
  /\ adcCh' = (adcCh + 1) % (Channels + 1)
  /\ at' = "start"
  /\ UNCHANGED <<chips, bus, di, held, applied, count, local, calm>>

\* hal_ads1115_read_result.  The channel index advances in any case.
ReadResult ==
  /\ at = "result"
  /\ \/ bus /\ ai' = [ai EXCEPT ![adcCh] = adc[AdsAddr(adcCh)].result]
     \/ Fails /\ ai' = ai
  /\ adcCh' = (adcCh + 1) % Channels
  /\ at' = "start"
  /\ UNCHANGED <<chips, bus, di, held, applied, count, local, calm>>

\* hal_ads1115_start_conversion, whose result is not looked at.
StartNext ==
  /\ at = "start"
  /\ \/ bus /\ adc' \in Started(adcCh)
     \/ Fails /\ adc' = adc
  /\ at' = "write"
  /\ UNCHANGED <<pointer, directed, images, calm>>

\* The writes of the DO port and of the four DAC channels.
WriteOutputs ==
  /\ at = "write"
  /\ \/ bus /\ applied' = TRUE
     \/ Fails /\ applied' = applied
  /\ at' = "sht40"
  /\ UNCHANGED <<chips, bus, di, held, adcCh, ai, count, local, calm>>

\* Every Interval-th tick: hal_sensor_local_read and sensor_state_update_local.
ReadLocal ==
  /\ at = "sht40"
  /\ \/ count = 0 /\ bus /\ local' = calm
     \/ (count # 0 \/ Fails) /\ local' = local
  /\ at' = "idle"
  /\ UNCHANGED <<chips, bus, di, held, applied, adcCh, ai, count, calm>>

Scan ==
  \/ PointAtA \/ ReadPort \/ StoreDi \/ ReadResult \/ StartNext
  \/ WriteOutputs \/ ReadLocal

Outside ==
  \/ \E a \in Chip : Convert(a)
  \/ CalmDown \/ SafetyInterrupt \/ SetOutput

\* Every image shows what its input is.
InputsRight ==
  /\ di
  /\ \A c \in Channel : ai[c] = c
  /\ local

\* The output lines are what the program set: latched, and by pins that drive.
OutputsRight == applied /\ directed
=============================================================================
