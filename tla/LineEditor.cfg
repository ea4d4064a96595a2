CONSTANTS
  LineLen = 5
  RingLen = 5
  TokenNmb = 3
  Users = {"enters", "completes"}
  Typed <- MCTyped
  Keys <- MCKeys
  Capital <- MCCapital
  Commands <- MCCommands
SPECIFICATION Spec
 
INVARIANT ExecutesShown
PROPERTY ImplementsHistory
PROPERTY NewLineRestores
PROPERTY CompletionKeeps
CHECK_DEADLOCK FALSE
