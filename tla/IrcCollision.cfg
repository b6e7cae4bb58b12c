SPECIFICATION Spec
CONSTANTS
  MaxTyped = 0
  MaxLines = 2
  Typed = {"cmd"}
  Lines = {"PING", "376"}
  Channels = 1
  MayLose = FALSE
INVARIANT WritesSerialized
