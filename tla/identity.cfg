CONSTANTS
  ann = ann
  bob = bob
  home = home
  other = other
  r1 = r1
  r2 = r2
  r3 = r3
  r4 = r4
  People <- MCPeople
  Founder = ann
  Invited = bob
  Orgs <- MCOrgs
  Home = home
  Requests <- MCRequests
  Nobody = Nobody
  MaxTokens = 4
  MaxLinks = 2
  MaxInvites = 2
  MaxLapses = 1
SYMMETRY Symmetry
SPECIFICATION Spec
INVARIANTS OnceButForRaces EndedStaysEnded MembersWereInvited
PROPERTY OwnerKept
CHECK_DEADLOCK FALSE
