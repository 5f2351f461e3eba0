SPECIFICATION Spec
CONSTANTS
  MaxPushed = 2
  MaxStarts = 2
  MaxUpsets = 1
PROPERTIES UndrainedNotReplayed
