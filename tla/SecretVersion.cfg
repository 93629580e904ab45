\* Two resources, four versions, one label of the user's, one fault, one change of mind.
CONSTANTS
  Resources = {"r1", "r2"}
  MaxVersions = 4
  Custom = {"blue"}
  Wishes = {{}, {"AWSCURRENT"}, {"AWSCURRENT", "blue"}, {"blue"}}
  Unset = Unset
  Absent = Absent
  MaxGoals = 1
  MaxFaults = 1
SPECIFICATION Spec
INVARIANTS TypeOK
PROPERTIES CurrentNeverLost PromotionSeen DeletedIsBare Converges
CHECK_DEADLOCK FALSE
