SPECIFICATION Spec
CONSTANTS
  Launches = {l1, l2}
  StrayClients = TRUE
INVARIANT TypeOK
INVARIANT OpenIsTimed
INVARIANT ConnectDeadlineIsOver
INVARIANT PortIsTimed
PROPERTY LaunchEnds
