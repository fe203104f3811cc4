--------------------------- MODULE MonotonicClock ---------------------------
(***************************************************************************)
(* The monotonic clock of each platform (arduino/ArduinoTime.h,            *)
(* posix/PosixTime.h), read by a program from time to time.                *)
(***************************************************************************)
EXTENDS Naturals

CONSTANTS
  Hosts,     \* the builds: a subset of {"posix", "arduino"}
  Width,     \* the bits of what Arduino's millis returns; 32, here scaled down
  Failing,   \* whether clock_gettime may fail, which Linux lets it do for no clock it has
  MaxUptime  \* bound: milliseconds the system has been up

VARIABLES
  host,      \* the build that runs
  uptime,    \* milliseconds since the system started
  previous,  \* the last two values the program read
  reading

vars == <<host, uptime, previous, reading>>

Init == host \in Hosts /\ uptime = 0 /\ previous = 0 /\ reading = 0

\* CLOCK_MONOTONIC in milliseconds, in 64 bits; 0 when it could not be read.
PosixNow == IF Failing THEN {uptime, 0} ELSE {uptime}

\* millis() is an unsigned of Width bits, widened to 64.
ArduinoNow == {uptime % 2^Width}

Elapse ==
  /\ uptime < MaxUptime
  /\ uptime' = uptime + 1
  /\ UNCHANGED <<host, previous, reading>>

Read ==
  /\ previous' = reading
  /\ reading' \in IF host = "arduino" THEN ArduinoNow ELSE PosixNow
  /\ UNCHANGED <<host, uptime>>

Next == Elapse \/ Read

Spec == Init /\ [][Next]_vars

-----------------------------------------------------------------------------

\* What Clock.h says of monotonicNow, whose value is 64 bits wide: "Returns
\* always-increasing relative milliseconds suitable for measuring elapsed time
\* and scheduling". No value a program reads is below one it read before.
AlwaysIncreasing == previous <= reading
=============================================================================
