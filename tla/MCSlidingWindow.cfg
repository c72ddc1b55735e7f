SPECIFICATION Spec
CONSTANTS
  A = A
  B = B
  WindowA = 1
  WindowB = 3
  BytesA = 2
  BytesB = 3
  FramesA = 5
  FramesB = 0
  MsgSize = 2
  MaxNet = 2
  RecvWindowSize <- MCRecvWindowSize
  RecvWindowSizeBytes <- MCRecvWindowSizeBytes
  MaxFrames <- MCMaxFrames
 
 
INVARIANT AcceptedFramesHeld
