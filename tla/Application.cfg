CONSTANTS
  u1 = u1
  u2 = u2
  Units = {u1, u2}
  First = u1
  MaxMoves <- MCMaxMoves
  MaxFaults <- MCMaxFaults
  MaxChanges <- MCMaxChanges
  MaxNumber = 4
  h1 = h1
  h2 = h2
  d = d
  Options <- MCOptions
  Addresses <- MCAddresses
SPECIFICATION FairSpec
INVARIANTS
  TypeOK
  RefusedOnlyAfterRotation
  TokensAgree
  UrlsServed
  TracesFollowTempo
  ScrapedWhereTheyAre
  DashboardsOfTheLeader
PROPERTIES
  LeaderPlansCurrentToken
  EventuallyConsistent
