SPECIFICATION Spec
CONSTANTS
  Launches = {l1}
  StrayClients = FALSE
PROPERTY LateLaunchFails
