CONSTANTS
  Cpu = {c1, c2}
  Vec = {v}
  Timer = t
  WithIpi = TRUE
  HcFail = {}
  Delayed = FALSE
  MaxPosts = 1
  TimerCpu = {c1}
SPECIFICATION Spec
INVARIANTS NoOops 
PROPERTY IpisReachTheirCpus
