SPECIFICATION Spec
CONSTANTS
  KeyPositions <- MCKeys
  ReleaseCnt = 6
  KeyMax = 1
  MaxChanges = 6
  MaxHolds = 6
  Half = 2
  PacketNum = 2
  MicDelay = 2
  MaxSamples = 16
  MaxSwitches = 4
  SampleValues <- MCSamples
  PacketSamples = 4
  MaxPackets = 3
  MailKeys = {k1, k2}
  NoMailKey = none
  MaxReports = 6
  PacketSize = 2
  DescriptorSize <- MCDescriptorSize
  Values = {v1}
  InitialValue = iv
  SetupBytes = sb
  MaxTransfers = 3
  Blocks = {b1, b2, b3}
  MmemSize = 3
  BlockSizes = {0, 1, 2}
  PoolCount = 2
INVARIANTS
  TypeOK
  CodecFollows
  DoneMeansDone
  MemoryIsSound
PROPERTIES
  KeysSettle
  KeyRingIsLossyQueue
  VoiceInOrder
  ReleaseReachesTool
  TransferEnds
CHECK_DEADLOCK FALSE
