-------------------------------- MODULE MCPpoll --------------------------------
(* Ppoll with two interrupting signals, a restarting and an ignored one,   *)
(* and a second of two milliseconds of three nanoseconds.                  *)
EXTENDS Ppoll

MCSignals == {"usr1", "usr2", "chld", "winch"}
MCCaught == {"usr1", "usr2"}
MCRestarting == {"chld"}

T(s, ns) == [tv_sec |-> s, tv_nsec |-> ns]
\* Zero, less than a millisecond, one and a half, almost a second, beyond
\* INT_MAX, and two invalid ones.
MCTimeouts == {T(0, 0), T(0, 1), T(0, 4), T(1, 5), T(2, 0), T(-1, 0), T(0, 6)}
================================================================================
