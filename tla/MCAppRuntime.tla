----------------------------- MODULE MCAppRuntime -----------------------------
(* Two messages, one worker and one slot of the tracker's group: the second *)
(* summary finds the worker busy, and a task waits for its own slot.  All   *)
(* of the configuration is on; every kind of transport.                     *)
EXTENDS AppRuntime
CONSTANTS m1, m2
==============================================================================
