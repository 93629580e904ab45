CONSTANTS
  maxPolicyVersions = 5
  MaxUpdates = 7
SPECIFICATION Spec
INVARIANT RoomIsMade
CHECK_DEADLOCK FALSE
