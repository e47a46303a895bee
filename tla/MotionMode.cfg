\* Cube after cube, with all readings and two headings.
SPECIFICATION FairSpec
CONSTANTS
  Readings <- AllReadings
  Faces <- ToolOrMouse
  Headings <- TwoHeadings
  IdentifyWait = 3
  ListSize = 1
INVARIANT TypeOK
INVARIANT IdentifyWaitsFull
INVARIANT AlignedToOwnTarget
PROPERTY IdentifyEnds
PROPERTY LostCubeGivesUp
