SPECIFICATION Spec
CONSTANTS
  PAGE = 2
  TOP = 11
  Regions <- MCRegions
  MaxHeld = 3
  CanFail = {"madvise", "rollback"}
  MaxNoMem = 1
CHECK_DEADLOCK FALSE
INVARIANTS Partition LeavesNoTrace KeepsFromChild
PROPERTY RegistrationRollsBack
