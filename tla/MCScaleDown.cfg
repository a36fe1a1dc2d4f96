\* A scale action verified while old pods are still ready.
SPECIFICATION Spec
CONSTANTS
  Callers = {c1}
  Actions <- MCScale
  RestartWindow = 3
  ResponseWindow = 2
  MaxReplicas = 2
  MaxRestarts = 1
PROPERTY ReadyEqualsDesired
CHECK_DEADLOCK FALSE
