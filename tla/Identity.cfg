\* One consumer that changes what it asks for up to two times, with two faults and
\* a lost database or outpost.
SPECIFICATION Spec
CONSTANTS
  r1 = r1
  r2 = r2
  anyUser = anyUser
  alice = alice
  upperAlice = upperAlice
  noGroup = noGroup
  admins = admins
  c1 = c1
  c2 = c2
  Nil = Nil
  Relations <- MCOneRelation
  Users <- MCUsers
  Slug <- MCSlug
  Groups <- MCGroups
  NoGroup = noGroup
  AuthentikGroups <- MCAuthentikGroups
  Configs <- MCOneConfig
  ProviderPks <- MCProviderPks
  Passwords <- MCPasswords
  MaxPk = 4
  MaxFaults = 2
  MaxChanges = 2
  MaxLosses = 1
  Losses = {"database", "outpost"}
INVARIANTS
  PublishedIsAuthorized
PROPERTIES
  TrackingKeptUntilGone
