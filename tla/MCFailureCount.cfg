SPECIFICATION Spec
CONSTANTS
  Threads = {t1, t2, t3}
  NoThread = NoThread
  IPs = {ip1}
  Thresholds = {2, 3}
  MaxCalls = 5
SYMMETRY Symmetry
INVARIANTS BanNeedsFailures CountsEarned 
CHECK_DEADLOCK FALSE
