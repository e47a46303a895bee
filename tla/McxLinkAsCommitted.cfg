\* The sender as committed: 29 characters, no "l:" field.
SPECIFICATION FairSpec
CONSTANTS
  SendLength = 29
  DataLength = 36
  BufferLength = 64
  FieldEnd <- CodeFields
  BytesPerTick = 20
  InitLag = 10
  MaxFrames = 3
  MaxFaults = 0
PROPERTY DataIsReceived
