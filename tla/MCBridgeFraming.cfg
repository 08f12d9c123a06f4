SPECIFICATION FairSpec
CONSTANTS
  Crc <- bridge_crc16
  Frame <- MCFrames
  Garbage <- MCGarbage
  MaxPayload = 7
  MaxLine = 13
  MaxBurst = 3
  MaxFaults = 2
  NoFrame = NoFrame
INVARIANT TypeOK
PROPERTIES
  FramesInOrder
  NothingSkipped
  FrameArrives
