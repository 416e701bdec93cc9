\* The playground: error-demo chips beside the textarea.
CONSTANTS
  Inputs <- MCInputs
  Kind <- MCKind
  Texts <- MCTexts
  Files <- MCFiles
  Core <- MCCore
  Unavailable <- MCUnavailable
  ModulesNeeded <- MCModulesNeeded
  SetupCode = "setup"
  NoInput = "no input"
  HistMax = 2
  MaxInputs = 3
  MaxClicks = 2
SPECIFICATION FairSpec
INVARIANTS TypeOK StrictOrder CallbacksOK HistoryOK PendingIsEnough
PROPERTIES EvaluatesWithModules ImplementsContract EveryInputAnswered
