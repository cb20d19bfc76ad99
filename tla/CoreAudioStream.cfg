CONSTANTS
  BufferSize = 6
  Chunk = 2
  TargetSize = 6
  CallbackSizes = {2, 7}
  RefillSizes = {2}
  MaxInputs = {1, 2}
  MaxFrames = 8
SPECIFICATION Spec
INVARIANT NoFrameIsShared
PROPERTY ImplementsAudioQueue
PROPERTY FullRingIsDrained
