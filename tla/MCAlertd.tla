------------------------------ MODULE MCAlertd ------------------------------
(* The first message makes its user active, the second is a return or ends *)
(* in a failed reply; a queue and a batch that one message can fill.  A    *)
(* day has two ticks.  Raw events are kept for one tick and daily rollups  *)
(* for two, so the cutoff of the last tick cuts through the first day;     *)
(* that tick also takes the events of the first out of the alert window.   *)
EXTENDS Alertd
MCOutcomes == <<{"activation"}, {"retention_return", "reply_failed"}>>
MCDay == [t \in 0 .. 2 |-> t \div 2]
==============================================================================
