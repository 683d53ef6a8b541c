\* Two consumers that ask for nothing in particular, a configuration that changes
\* once, one loss of any kind between any two steps, and up to two faults.
SPECIFICATION Spec
CONSTANTS
  r1 = r1
  r2 = r2
  anyUser = anyUser
  alice = alice
  upperAlice = upperAlice
  noGroup = noGroup
  admins = admins
  c1 = c1
  c2 = c2
  Nil = Nil
  Relations <- MCRelations
  Users <- MCOneUser
  Slug <- MCOneSlug
  Groups <- MCOneGroup
  NoGroup = noGroup
  AuthentikGroups <- MCNoGroups
  Configs <- MCConfigs
  ProviderPks <- MCProviderPks
  Passwords <- MCPasswords
  MaxPk = 3
  MaxFaults = 2
  MaxChanges = 1
  MaxLosses = 1
  Losses = {"database", "outpost", "role"}
SYMMETRY Symmetric
INVARIANTS
  TypeOK
  GrantCacheSound
  RoleCacheSound
  KnownOutpostIsComplete
  TrackedAccountIsUsable
PROPERTIES
  ActsOnOwnAccounts
