SPECIFICATION MCSpec
CONSTANTS
  LeftTab = left
  RightTab = right
  FirstCall = first
  LateCall = late
  OtherCall = other
  MaxRow = 3
CHECK_DEADLOCK FALSE
INVARIANT TwoTabsAreNoTheft
