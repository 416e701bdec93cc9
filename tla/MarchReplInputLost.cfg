\* A chip's setup code and an input want the same pending slot.
CONSTANTS
  Inputs <- MCInputs
  Kind <- MCKind
  Texts <- MCTexts
  Files <- MCFiles
  Core <- MCCore
  Unavailable <- MCUnavailable
  ModulesNeeded <- MCModulesNeeded
  SetupCode = "setup"
  NoInput = "no input"
  HistMax = 2
  MaxInputs = 3
  MaxClicks = 2
SPECIFICATION Spec
INVARIANTS InputHeld
