SPECIFICATION FairSpec
CONSTANTS
  MaxCommands = 2
  MaxPieces = 2
  Modes <- MCModes
INVARIANTS
  CommandsAfterLogin
  RepliesMatchInTurn
PROPERTIES
  RepliesComplete
  CallsSettle
