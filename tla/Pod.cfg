CONSTANTS
  s1 = s1
  l1 = l1
  l2 = l2
  l3 = l3
  r1 = r1
  r2 = r2
  Settings = {s1, s2}
  LokiUnits = {l1, l2, l3}
  RelationOf <- MCRelationOf
  Limits <- MCLimits
  Invalid = 7
  MemoryRequest = 2000
  CpuRequest = 100
  Pods = {0, 1}
  This = 0
  Usual <- MCUsual
  Initial <- MCInitial
  MaxFaults = 1
  MaxChanges = 2
SPECIFICATION FairSpec
INVARIANTS
  TypeOK
  NeverPlannedBlank
  FailedStartReported
  TargetsCurrent
  TemplateSchedulable
PROPERTIES
  ActiveMeansInEffect
  EventuallyServes
  LimitsTakeEffect
