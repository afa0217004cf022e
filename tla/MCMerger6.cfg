SPECIFICATION Spec
CONSTANTS
  Top = 4
  Records = {1, 2}
PROPERTIES
  ImplementsMerger4
CHECK_DEADLOCK FALSE
