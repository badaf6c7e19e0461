CONSTANTS
  dp = dp
  pub = pub
  dw = dw
  sub = sub
  dr = dr
  topic = topic
  Entities <- MC_Entities
  Kind <- MC_Kind
  Parent <- MC_Parent
  NoParent = NoParent
  TopicOf <- MC_TopicOf
  MayFail = TRUE

SPECIFICATION Spec
\* The application exits once every entity has been deleted.
CHECK_DEADLOCK FALSE
INVARIANTS
  TypeOK
  UsesBalanced
  NoPreconditionFailure
PROPERTIES
  Reclaimed
