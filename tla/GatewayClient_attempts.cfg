\* A direct gateway and one through the relay, two continuations at a time.
SPECIFICATION Spec
CONSTANTS
  Configs = {direct, relay}
  Relay = {relay}
  Complete = {relay}
  Bootstrap = {relay}
  Legacy = {relay}
  None = None
  Tasks = {1, 2}
INVARIANTS
  Pursued
  NoSocketLeaks
PROPERTIES
  NoStaleConnect
  QuietUntilAsked
CHECK_DEADLOCK FALSE
