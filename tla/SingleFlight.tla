---------------------------- MODULE SingleFlight ----------------------------
(***************************************************************************)
(* What the Coupang tracker promises of the work it coalesces by track:    *)
(* at most one actor at a time works on a track, it leaves before another  *)
(* one enters, and nobody takes over work that is going on.  The flight    *)
(* maps of CoupangTracker (registrationFlights, refreshFlights) are how    *)
(* the code keeps the promise; CoupangRegistration and CoupangRefresh      *)
(* implement this module.                                                  *)
(***************************************************************************)
CONSTANTS Keys, Workers

VARIABLE working   \* working[k]: the actors at work on k

Init == working = [k \in Keys |-> {}]

Enter(k, w) ==
  /\ working[k] = {}
  /\ working' = [working EXCEPT ![k] = {w}]

Leave(k, w) ==
  /\ working[k] = {w}
  /\ working' = [working EXCEPT ![k] = {}]

(* The process restarts: all work is gone.                                  *)
Abandon == working' = [k \in Keys |-> {}]

Next == Abandon \/ \E k \in Keys, w \in Workers : Enter(k, w) \/ Leave(k, w)

Spec == Init /\ [][Next]_working
==============================================================================
