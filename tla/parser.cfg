SPECIFICATION Spec
CONSTANTS
  Sources <- ShortSources
  None = none
  BaseAddress = 4
  MemorySize = 16
  MaxLines = 5
  L = l
  D = d
INVARIANTS
  AllAssembled
  JumpsLand
  LabelsNameData
  DataApart
CHECK_DEADLOCK FALSE
