SPECIFICATION FairSpec
CONSTANTS
  d1 = d1
  d2 = d2
  NoValue = NoValue
  Device = {d1, d2}
  Polled = {d1}
  Durations = {254}
  Readings <- MCReadings
  MaxDevices = 1
  MaxSlots = 5
  MaxWire = 1
INVARIANT TypeOK
PROPERTIES
  ForwardedIsStored
  SendersGetThrough
  JoinAgainHeals
