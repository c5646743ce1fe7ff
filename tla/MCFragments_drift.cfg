SPECIFICATION FragmentsSpec
CONSTANTS
  Fragment <- MCFragment
  FragmentTimeout = 2
  MaxBufferSize = 4
  MaxRepeats = 2
INVARIANT
  SizeTracked
CHECK_DEADLOCK FALSE
