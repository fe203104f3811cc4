SPECIFICATION Spec
CONSTANTS
  Hosts = {"posix", "windows", "arduino"}
  Servers = {s1, s2}
  Callers = {c1, c2}
  Gone = Gone
  Ports = {1, 2}
  Configured = {0, 1}
  Backlog = 2
INVARIANT ReachesWhoItAsked
PROPERTY Served
