------------------------------- MODULE Alertd -------------------------------
(***************************************************************************)
(* cmd/alertd over the table Metrics describes.  A tick is what lies       *)
(* between two of its polls: each tells of failed replies in its window,   *)
(* but not again within the window of the Deduper (internal/alerting).     *)
(* The alerts of the error rate and of the latency differ in the query     *)
(* only.  A restart of alertd, which empties the Deduper and so only says  *)
(* more, is left out.                                                      *)
(***************************************************************************)
EXTENDS Metrics

CONSTANTS
  CriticalWindow,  \* how far back a poll looks, 3 polls in the code
  DedupWindow      \* how long an alert is not repeated, 15 polls in the code

ASSUME AlertdAssumption == CriticalWindow \in Nat \ {0, 1} /\ DedupWindow \in Nat \ {0}

VARIABLES
  lastAt,     \* Deduper.lastAt of the failed replies, -1 if there is none
  attempts    \* history: polls that tried to send that alert, or failed

alertVars == <<lastAt, attempts>>

AlertInit == Init /\ lastAt = -1 /\ attempts = {}

MutInWindow(e) == e.at = clock  \* Defect: the window is the interval of the polls

InWindow(e) == clock - e.at < CriticalWindow

Failures == {e \in Named("reply_failed") : InWindow(e)}

(* Deduper.Allow.  What becomes of the message is not looked at again.      *)
Allowed == lastAt = -1 \/ clock - lastAt >= DedupWindow

RunOnce ==
  /\ UNCHANGED faults
  /\ IF Failures # {} /\ Allowed
     THEN lastAt' = clock /\ attempts' = attempts \cup {clock}
     ELSE UNCHANGED alertVars

(* A query fails and the round ends.                                        *)
RunOnceFails == Fault /\ attempts' = attempts \cup {clock} /\ UNCHANGED lastAt

AlertNext ==
  \/ Tick /\ (RunOnce \/ RunOnceFails)
  \/ Work /\ UNCHANGED alertVars

AlertSpec == AlertInit /\ [][AlertNext]_<<vars, alertVars>>
------------------------------------------------------------------------------
AlertTypeOK == TypeOK /\ lastAt \in Ticks \cup {-1} /\ attempts \subseteq Ticks

(* Of every failed reply that is stored alertd tries to tell, at the latest *)
(* before it leaves the critical window, unless it did within the dedup     *)
(* window before: the delays of the recorder and of the polls together do   *)
(* not let one slip by.                                                     *)
FailuresAlerted ==
  \A e \in accepted :
    e.name = "reply_failed" /\ clock >= e.at + CriticalWindow =>
      \E t \in attempts : t > e.at - DedupWindow /\ t < e.at + CriticalWindow

(* Stronger, and inductive: the poll that ends the tick after the failure   *)
(* tries, fails or falls into the dedup window.                             *)
AlertOK ==
  /\ lastAt # -1 => lastAt \in attempts /\ lastAt <= clock
  /\ \A e \in accepted : e.name = "reply_failed" /\ clock > e.at + 1 =>
       \E t \in attempts : t > e.at - DedupWindow /\ t <= e.at + 1

AlertIInv == IInv /\ AlertTypeOK /\ AlertOK
==============================================================================
