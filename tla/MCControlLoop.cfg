SPECIFICATION FairCycleSpec
CONSTANTS
  NoSwing = NoSwing
  Inputs <- MCInputs
  Recipes <- MCRecipes
  FaultyPins = {"heat", "cool", "fan"}
INVARIANTS
  TypeOK
  OpposingOnlyBetweenWrites
  CallsHaveAir
  InterlockOpensRelays
PROPERTIES
  NoShortCycle
  FaultHeals
