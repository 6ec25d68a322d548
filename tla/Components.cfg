CONSTANTS
  Policies <- MCPolicies
  Interfaces <- MCInterfaces
  NoService = NoService
  Threads = {t1, t2}
SPECIFICATION Spec
INVARIANTS ServicesFound LoginServed DiesOnlyInStop ServerGoneBeforeUnload
PROPERTIES StopEnds
CHECK_DEADLOCK FALSE
