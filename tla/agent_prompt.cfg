CONSTANTS
  Setups <- SoundSetups
  MaxAttempts = 3
  MaxPrompts = 2
SPECIFICATION PromptSpec
INVARIANTS PromptTypeOK CloseEndsAgent
PROPERTIES ImplementsTurn PastedIntoComposer PromptEnds
CHECK_DEADLOCK FALSE
