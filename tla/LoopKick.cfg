\* Three callers, and a timer that need not fire.
SPECIFICATION LiveSpec
CONSTANTS
  i1 = i1
  i2 = i2
  i3 = i3
  Items = {i1, i2, i3}
CHECK_DEADLOCK FALSE
PROPERTIES KickedIsDone CancelStops
