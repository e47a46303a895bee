\* Is the track heading kept for the way back?
SPECIFICATION Spec
CONSTANTS
  Readings <- TwoReadings
  Faces <- ToolOrMouse
  Headings <- FiveHeadings
  IdentifyWait = 1
  ListSize = 1
INVARIANT LineAngleIsTracks
