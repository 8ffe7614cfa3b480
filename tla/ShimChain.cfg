SPECIFICATION Spec
CONSTANTS
  Layouts <- AllLayouts
  MaxSetups = 2
  MaxUpgrades = 2
INVARIANTS
  TypeOK
  AlwaysBoots
  FallbackIsWhole
CHECK_DEADLOCK FALSE
