\* Short frames; up to two bytes lost or garbled anywhere.
SPECIFICATION FairSpec
CONSTANTS
  SendLength = 4
  DataLength = 4
  BufferLength = 7
  FieldEnd <- ShortFields
  BytesPerTick = 3
  InitLag = 2
  MaxFrames = 6
  MaxFaults = 2
INVARIANT TypeOK
INVARIANT ResyncAfterFault
PROPERTY RegisterSpec
PROPERTY FramesGetThrough
