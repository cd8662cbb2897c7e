SPECIFICATION Spec
CONSTANTS
  Sources <- MCSources
  Lower <- MCLower
  Listed <- MCListed
  Refs <- MCRefs
  OptionsGiven <- MCOptions
  PlanUnits = 2
  MaxFailures = 1
INVARIANTS
  HandleIsTransparent
  TransferIsConsistent
  GeneratorDeliversAll
