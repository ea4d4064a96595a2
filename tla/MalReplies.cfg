CONSTANTS
  MaxTokens = 13
  Cap = 2
  Entries = 7
  Fields <- MCFields
  Tails <- MCTails
  Texts <- MCTexts
SPECIFICATION Spec
INVARIANT ReplyRead
INVARIANT ValueAnswered
PROPERTY ImplementsNesting
CHECK_DEADLOCK FALSE
