CONSTANTS
  h1 = h1
  h2 = h2
  a1 = a1
  a2 = a2
  a3 = a3
  Handles <- MCHandles
  Arrays <- MCArrays
  Byte = {0, 1}
  Zero = 0
  Initial = 1
  Big = 3
  MaxCap = 4
SPECIFICATION QueueSpec
SYMMETRY Sym
INVARIANT InBounds
PROPERTY ImplementsFifo
