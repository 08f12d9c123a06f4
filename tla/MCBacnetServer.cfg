SPECIFICATION FairServerSpec
CONSTANTS
  d1 = d1
  x1 = x1
  e1 = e1
  NoValue = NoValue
  Device = {d1}
  Space = {x1}
  Equip = {e1}
  Descriptors <- MCDescriptors
  Reports <- MCReports
  MaxDevices = 1
  MaxSlots = 3
  MaxEquipment = 1
  MaxSpaces = 1
  Zone = x1
  MaxTransports = 2
  NvsCounts = {0}
  MaxMisses = 1
INVARIANT ServerTypeOK
PROPERTIES
  ShownCatchesUp
  EveryLinkServed
