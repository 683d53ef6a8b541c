\* The outpost is lost while the deletion of an orphan is pending.
SPECIFICATION Spec
CONSTANTS
  r1 = r1
  r2 = r2
  anyUser = anyUser
  alice = alice
  upperAlice = upperAlice
  noGroup = noGroup
  admins = admins
  c1 = c1
  c2 = c2
  Nil = Nil
  Relations <- MCOneRelation
  Users <- MCOneUser
  Slug <- MCOneSlug
  Groups <- MCOneGroup
  NoGroup = noGroup
  AuthentikGroups <- MCNoGroups
  Configs <- MCOneConfig
  ProviderPks <- MCProviderPks
  Passwords <- MCPasswords
  MaxPk = 3
  MaxFaults = 1
  MaxChanges = 0
  MaxLosses = 1
  Losses = {"outpost"}
PROPERTIES
  OrphanDeletionIsResumable
