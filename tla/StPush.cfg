SPECIFICATION Spec
CONSTANTS
  Hosts = {h1}
  Ports = {p1, p2}
  QueueCapacity = 1
  MaxFailures = 3
  MaxIds = 2
  MaxEvents = 3
  MaxRenewals = 1
INVARIANT LastChangeTold
PROPERTIES InEmitOrder RenewalCounts DeliveriesEnd
CHECK_DEADLOCK FALSE
