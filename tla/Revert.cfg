\* A requirer changes its mind back after a hook renamed the account and failed.
SPECIFICATION Spec
CONSTANTS
  r1 = r1
  r2 = r2
  anyUser = anyUser
  alice = alice
  upperAlice = upperAlice
  noGroup = noGroup
  admins = admins
  c1 = c1
  c2 = c2
  Nil = Nil
  Relations <- MCOneRelation
  Users <- MCUsers
  Slug <- MCSlug
  Groups <- MCGroups
  NoGroup = noGroup
  AuthentikGroups <- MCAuthentikGroups
  Configs <- MCOneConfig
  ProviderPks <- MCProviderPks
  Passwords <- MCPasswords
  MaxPk = 3
  MaxFaults = 1
  MaxChanges = 2
  MaxLosses = 0
  Losses = {}
INVARIANTS
  PublishedNameIsReal
