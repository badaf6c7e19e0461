CONSTANTS
  Threads = {t1, t2}
  GroupSets = {gA, gB}
  Groups <- MC_Groups
  P1 = P1
  PW = PW
  PE = PE
  T = T
  Partitions = {P1, PW, PE}
  Wildcards = {PW}
  EmptyPartition = PE
  Topics = {T}
  GroupOf <- MC_GroupOf
  Qoss <- MC_Qoss
  VisitorResults <- MC_VisitorResults
  AddPairs <- MC_AddPairs
  gA = gA
  gB = gB
  NoGroup = NoGroup
  NoOwner = NoOwner
SPECIFICATION FairSpec
PROPERTY
  LockReleased
