CONSTANTS
  Cpu = {c1, c2}
  Vec = {v}
  Timer = t
  WithIpi = FALSE
  HcFail = {"setup"}
  Delayed = FALSE
  MaxPosts = 1
  TimerCpu = {c1}
SPECIFICATION FairSpec
INVARIANTS  TimerRequestKept
PROPERTY DueIsServed
