SPECIFICATION Spec
CONSTANTS
  c1 = c1
  c2 = c2
  m1 = m1
  m2 = m2
  r1 = r1
  k1 = k1
  k2 = k2
  p1 = p1
  p2 = p2
  p3 = p3
  BadName = BadName
  NoRights = NoRights
  NoKey = NoKey
  ContentIds <- MCContentIds
  RightsIds <- MCRightsIds
  MetaKeys <- MCMetaKeys
  PlaceHolderIds <- MCPlaceHolderIds
  Containers <- TicketlessContainers
  Chunk = 2
  MaxGen = 2
  CountValues = 4
  KeyFiles <- TwoKeyFiles
  NoKeyset = NoKeyset
  MaxAttempts = 1
INVARIANTS
  TicketlessRightsFail
CHECK_DEADLOCK FALSE
