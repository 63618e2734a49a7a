SPECIFICATION FairSpec
CONSTANTS
  Threads = {t1, t2}
  Consumer = Consumer
  Task = Task
  Nobody = Nobody
  Hosts = {host1}
  IPs = {ip1}
  DynamicExpirySeconds = 1
  MaxTime = 3
  MaxRequests = 3
  MaxMessages = 2
  MaxTasks = 2
INVARIANT HostIteratorValid
PROPERTIES NoEarlyExpiry CallsComplete
CHECK_DEADLOCK FALSE
