\* One gateway through the relay without older credentials, one continuation at a time.
SPECIFICATION FairSpec
CONSTANTS
  Configs = {relay}
  Relay = {relay}
  Complete = {relay}
  Bootstrap = {relay}
  Legacy = {}
  None = None
  Tasks = {1}
PROPERTIES
  Retried
CHECK_DEADLOCK FALSE
