\* Pods are replaced while the restart count is watched.
SPECIFICATION Spec
CONSTANTS
  Callers = {c1}
  Actions <- MCRestart
  RestartWindow = 3
  ResponseWindow = 2
  MaxReplicas = 2
  MaxRestarts = 1
PROPERTY StableForWindow
CHECK_DEADLOCK FALSE
