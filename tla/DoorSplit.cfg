SPECIFICATION DoorSpec
CONSTANTS
  Tabs = {one}
  Users = {ann}
  Visitor = Nobody
  Deployments <- TheDeployments
  MaxSessions = 1
  MaxMishaps = 0
INVARIANTS SignedInMayWrite
CHECK_DEADLOCK FALSE
