SPECIFICATION Spec
CONSTANTS
  t1 = t1
  Free = Free
  Turns = {t1}
  QuietPolls = 3
  MaxFaults = 1
INVARIANT AcceptedWasTaken
