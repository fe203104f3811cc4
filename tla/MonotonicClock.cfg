SPECIFICATION Spec
CONSTANTS
  Hosts = {"posix", "arduino"}
  Width = 3
  Failing = FALSE
  MaxUptime = 20
INVARIANT AlwaysIncreasing
