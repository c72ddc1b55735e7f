SPECIFICATION RingFairSpec
CONSTANTS
  A = A
  B = B
  WindowA = 2
  WindowB = 2
  BytesA = 4
  BytesB = 5
  FramesA = 4
  FramesB = 0
  MsgSize = 1
  MaxNet = 2
  RecvWindowSize <- MCRecvWindowSize
  RecvWindowSizeBytes <- MCRecvWindowSizeBytes
  MaxFrames <- MCMaxFrames
INVARIANT WithinReceiveBuffer
INVARIANT RingsMatchSets
PROPERTY ImplementsStream
PROPERTY StreamContinues
PROPERTY WindowReopens
