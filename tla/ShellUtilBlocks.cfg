CONSTANTS
  PipeSize = 2
  MaxWrites = 6
SPECIFICATION Spec
PROPERTY Returns
CHECK_DEADLOCK FALSE
