SPECIFICATION Spec
CONSTANTS
  Threads = {t1}
  Consumer = Consumer
  Task = Task
  Nobody = Nobody
  Hosts = {host1}
  IPs = {ip1}
  DynamicExpirySeconds = 1
  MaxTime = 3
  MaxRequests = 1
  MaxMessages = 1
  MaxTasks = 1
INVARIANT IpIteratorValid
CHECK_DEADLOCK FALSE
