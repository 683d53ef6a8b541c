\* One consumer, a database lost up to two times at any step, and one change of what
\* is asked for.  No request fails.
SPECIFICATION FairSpec
CONSTANTS
  r1 = r1
  r2 = r2
  anyUser = anyUser
  alice = alice
  upperAlice = upperAlice
  noGroup = noGroup
  admins = admins
  c1 = c1
  c2 = c2
  Nil = Nil
  Relations <- MCOneRelation
  Users <- MCThreeUsers
  Slug <- MCThreeSlug
  Groups <- MCGroups
  NoGroup = noGroup
  AuthentikGroups <- MCAuthentikGroups
  Configs <- MCOneConfig
  ProviderPks <- MCProviderPks
  Passwords <- MCPasswords
  MaxPk = 3
  MaxFaults = 0
  MaxChanges = 1
  MaxLosses = 2
  Losses = {"database"}
PROPERTIES
  EventuallyServed
  RequestsHonoured
