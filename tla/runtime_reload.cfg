SPECIFICATION RuntimeSpec
CONSTANTS
  Requests = {r1}
  MaxVersions = 2
  MaxReloads = 3
  MaxFailures = 1
PROPERTIES
  NeverGoesBack
  AnsweredIsInForce
  ReloadsEnd
CHECK_DEADLOCK FALSE
