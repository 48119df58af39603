CONSTANTS
  Receivers = {r1}
  FullDuplex = TRUE
  QueueMax = 1
SPECIFICATION Spec
INVARIANTS TypeOK VoxHasARelease AirIsAccountedFor PttLetsGo ReceiversResume
PROPERTIES VoxLetsGo
