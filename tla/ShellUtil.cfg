\* A process that was left by a failed call may stay blocked for ever, and a
\* call that has ended does nothing more.
CONSTANTS
  PipeSize = 2
  MaxWrites = 6
SPECIFICATION Spec
INVARIANT ResultIsComplete
PROPERTY ReturnsIfErrorFits
CHECK_DEADLOCK FALSE
