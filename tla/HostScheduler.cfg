SPECIFICATION Spec
CONSTANTS
  MaxCalls = 3
  MaxInternal = 1
  Capacities = {0, 1, 2}
  MaxChanges = 2
INVARIANTS NoInternalError CallsConserved PermitsBalanced NoLostWakeup
PROPERTIES AdmittedWithinCapacity EveryCallDelivered
