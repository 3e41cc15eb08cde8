SPECIFICATION Spec
CONSTANTS
  Rec = {r1, r2, r3}
  End = End
  Timer = {"PERIODIC_TIMER", "SWSMI_TIMER"}
  SwsmiTimer = "SWSMI_TIMER"
  Interval = {1, 2, 3}
  TimerOf <- MCTimerOf
  Period = {1, 3}
  DriverOps = {"unregister"}
  CallbackOps = {"register", "unregisterSelf"}
  MaxReal = 6
  MaxOps = 4
SYMMETRY Symmetry
INVARIANTS TimersFollowChildren RateAgrees
