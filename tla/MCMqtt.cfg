SPECIFICATION LiveSpec
CONSTANTS
  s1 = s1
  s2 = s2
  d1 = d1
  d2 = d2
  d3 = d3
  p1 = p1
  p2 = p2
  none = none
  ended = ended
  Sessions = {s1, s2}
  Deliveries = {d1, d2, d3}
  Publishes = {p1, p2}
  None = none
  Ended = ended
  MaxPacketId = 2
  PacketChan = 1
  WriteChan = 1
  IngestChan = 1
  OutChan = 1
  Scenes <- AllScenes
INVARIANTS
  TypeOK
  CompletedMeansSettled
  AckMeansIngested
  RegistryNewest
PROPERTIES
  SessionEnds
CHECK_DEADLOCK FALSE
