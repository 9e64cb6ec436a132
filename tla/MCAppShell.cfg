SPECIFICATION Spec
CONSTANTS
  Profiles <- MCProfiles
  Listings <- MCListings
  SameMount <- MCSameMount
  Policies <- MCPolicies
  MaxSessions = 2
  MaxTotal = 2
  MaxChan = 2
INVARIANTS
  FiguresAreTheSessions
  
  WarningsStand
  JobKnowsItsCaster
PROPERTIES
  DisconnectCompletes
CHECK_DEADLOCK FALSE
