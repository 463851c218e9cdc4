CONSTANTS
  None = None
  Namespaces = {1, 2, 3}
  Starts <- MCStarts
  Settings <- MCSettings
  MaxUserSteps = 1
  MaxFaults = 1
SPECIFICATION FairSpec
INVARIANTS TypeOK IInv OnePlace Accounted NoSendAfterClose Capped
PROPERTIES NeverClobbers Independent Terminates
\* A fan-out ends.
CHECK_DEADLOCK FALSE
