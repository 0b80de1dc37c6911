CONSTANTS
  a = a
  r1 = r1
  Package = {a}
  Archived = {a}
  Ref = {r1}
  Absent = Absent
  Torn = Torn
  NoPath = NoPath
  MaxFaults = 2
SPECIFICATION FairSpec
INVARIANTS ProjectIsAccountedFor
PROPERTIES InstallsAtomically PendingIsRecoveredUnlessLost
CHECK_DEADLOCK FALSE
