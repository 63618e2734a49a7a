SPECIFICATION MCSpec
CONSTANTS
  Browsers = {b1}
  IPs <- IpStrings
  Texts <- TextStrings
  GloballyWhiteListed <- LastIp
  Configurations <- MixedAndSwitching
  CaptchaTime = 1
  MaxTime = 3
  MaxRequests = 5
  MaxReloads = 2
INVARIANTS TypeOK CaptchaSolved
PROPERTIES  EventuallyServed
CHECK_DEADLOCK FALSE
