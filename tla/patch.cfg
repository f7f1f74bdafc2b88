SPECIFICATION Spec
CONSTANTS
  Paths = {"", "a", "b", "p", "q", "ro"}
  Blank = ""
  DevNull = "null"
  Refused = {"", "ro"}
  NoFile = NoFile
  Intents <- MCIntents
  Disks <- MCDisks
CHECK_DEADLOCK FALSE
INVARIANTS
   LinesSurvive
