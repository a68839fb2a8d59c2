SPECIFICATION Spec
CONSTANTS
  OtherBytes <- MCOtherBytes
  FrameMax = 2
  Configs <- MCConfigs
  Envelopes <- MCEnvelopes
  Packets <- MCPackets
  Payloads <- MCPayloads
  ModemFrames <- MCModemFrames
  Backlog = 1
INVARIANTS WholeFramesArrive ReadyMeansFree
PROPERTIES NothingElseArrives SentIsReadable PollsReturn
