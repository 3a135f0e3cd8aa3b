CONSTANTS
  Cpu = {c1}
  Vec = {v}
  Timer = t
  WithIpi = FALSE
  HcFail = {}
  Delayed = FALSE
  MaxPosts = 1
  TimerCpu = {c1}
SPECIFICATION Spec
INVARIANT NoRequestLost
