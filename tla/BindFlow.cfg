CONSTANTS
  Deployments = {d1, d2}
  Stages <- MCStages
  PageOf <- MCPageOf
  Invalidation = 0
  MaxPages = 3
  MaxAttempts = 2
  MaxFaults = 2
SPECIFICATION FairSpec
INVARIANTS
  TypeOK
  ProviderAuthenticates
PROPERTIES
  KeepsPromise
  UnreadyOnlyIfMissing
  EventuallyProvided
