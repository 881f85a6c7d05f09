CONSTANTS
  MaxRows = 13
  Sizes = {1}
SPECIFICATION pagingSpec
INVARIANT FlagsTellOmitted
