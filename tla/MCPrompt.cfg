SPECIFICATION PromptSpec
CONSTANTS
  Lengths = {20, 300, 400, 880, 1200}
  MaxMessages = 7
  PromptChars = 1000
  ChatChars = 700
  ChatMessages = 4
INVARIANT
  PromptFits
PROPERTY
  ForgottenForGood
CHECK_DEADLOCK FALSE
