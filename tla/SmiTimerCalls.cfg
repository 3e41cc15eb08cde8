SPECIFICATION FairSpec
CONSTANTS
  Rec = {r1, r2}
  End = End
  Timer = {"PERIODIC_TIMER", "SWSMI_TIMER"}
  SwsmiTimer = "SWSMI_TIMER"
  Interval = {1, 2, 3}
  TimerOf <- MCTimerOf
  Period = {1, 3}
  DriverOps = {"pause", "resume"}
  CallbackOps = {"pause", "resume"}
  MaxReal = 6
  MaxOps = 4
INVARIANT NeverAhead
PROPERTY ChildCalled
