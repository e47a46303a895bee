\* A short text, up to three bytes lost anywhere.
SPECIFICATION Spec
CONSTANTS
  SendLength = 3
  BufferLength = 7
  FieldEnd <- ShortFields
  BytesPerTick = 4
  Rests <- CodeRests
  MaxFrames = 6
  MaxLost = 3
INVARIANT TypeOK
INVARIANT NoneSkipped
INVARIANT TerminatorInBuffer
PROPERTY RegisterSpec
