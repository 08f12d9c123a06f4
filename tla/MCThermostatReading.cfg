SPECIFICATION MCSpec
CONSTANTS
  d1 = d1
  x1 = x1
  e1 = e1
  NoValue = NoValue
  Device = {d1}
  Space = {x1}
  Equip = {e1}
  Descriptors <- MCDescriptors
  Reports <- MCReports
  MaxDevices = 1
  MaxSlots = 2
  MaxEquipment = 1
  MaxSpaces = 1
  ControlSpace = x1
  Recipes <- MCRecipes
  LocalTemps <- MCLocalTemps
  FaultyPins = {}
PROPERTIES
  ZigbeeMeansReading
