CONSTANTS
  Setups <- StaleTitle
  MaxAttempts = 3
  MaxPrompts = 2
SPECIFICATION PromptSpec
PROPERTIES AnswerMeansFinished
CHECK_DEADLOCK FALSE
