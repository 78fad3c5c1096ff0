----------------------------- MODULE MCWatchdog -----------------------------
(* The instance of Watchdog for TLC.  There is no symmetry in it: EveryGoroutineEnds is    *)
(* checked in the same run, and liveness does not go with symmetry.                       *)
EXTENDS Watchdog

=============================================================================
