SPECIFICATION Spec
CONSTANTS
  small = small
  large = large
  oversize = oversize
  unframeable = unframeable
  Keys = {small, large, oversize, unframeable}
  Devices = {device}
  SizeOf <- MCSizeOf
  Found = {large, oversize, unframeable}
  Fixed = 1
  Cap = 7
  MaxBlob = 8
  MaxKeys = 3
  Gone = Gone
  None = None
INVARIANTS AnswersAreTrue ResponsesAreCapped
PROPERTIES EveryBlobArrives
CHECK_DEADLOCK FALSE
