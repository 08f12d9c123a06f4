SPECIFICATION Spec
CONSTANTS
  d1 = d1
  d2 = d2
  d3 = d3
  e1 = e1
  e2 = e2
  x1 = x1
  x2 = x2
  NoValue = NoValue
  Device = {d1, d2, d3}
  Space = {x1, x2}
  Equip = {e1, e2}
  Descriptors <- MCDescriptors
  Reports <- MCReports
  MaxDevices = 2
  MaxSlots = 2
  MaxEquipment = 1
  MaxSpaces = 1
INVARIANTS
  TypeOK
  ReadingsCurrent
  BatteryMinCurrent
PROPERTIES
  CatchesUp
SYMMETRY MCSymmetry
