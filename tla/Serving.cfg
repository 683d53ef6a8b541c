\* Two consumers that come and go, a configuration that changes once, two faults.
SPECIFICATION FairSpec
CONSTANTS
  r1 = r1
  r2 = r2
  anyUser = anyUser
  alice = alice
  upperAlice = upperAlice
  noGroup = noGroup
  admins = admins
  c1 = c1
  c2 = c2
  Nil = Nil
  Relations <- MCRelations
  Users <- MCOneUser
  Slug <- MCOneSlug
  Groups <- MCOneGroup
  NoGroup = noGroup
  AuthentikGroups <- MCNoGroups
  Configs <- MCConfigs
  ProviderPks <- MCProviderPks
  Passwords <- MCPasswords
  MaxPk = 2
  MaxFaults = 2
  MaxChanges = 1
  MaxLosses = 0
  Losses = {}
PROPERTIES
  EventuallyServed
  OrphansDeleted
