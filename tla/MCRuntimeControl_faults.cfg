\* One controller and an operator who scales by hand; every fault.
SPECIFICATION FairSpec
CONSTANTS
  Free = free
  IOFaults = TRUE
  Crashes = TRUE
  Controller = {c1}
  Outsider = {worker}
  AllowActions = TRUE
  AllowScaleDown = TRUE
  Watch = TRUE
  Manual = TRUE
  DockerFaults = TRUE
  HostMax = 4
INVARIANT LogMatchesReplicas
PROPERTIES ThreeLowSamples OnlyLoggedSteps CapacityFollowsLoad
CHECK_DEADLOCK FALSE
