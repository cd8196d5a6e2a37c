---------------------------- MODULE MCDashboard ----------------------------
(* An operator, who sees all rooms, and a customer with two.  Two lookups   *)
(* at a time, in one room or two: of one the reply fails and the command is *)
(* slow; the other, found in a text that names no command, succeeds though  *)
(* a part of its reply fails.  Meanwhile the tracker times out and defers.  *)
EXTENDS Dashboard
CONSTANTS r1, r2
MCScopes == "customer@" :> [role |-> "customer", rooms |-> {r1, r2}]
MCKinds ==
  LET Event(run, name) == [name |-> name, run |-> run, command |-> "coupang", user |-> "u", latency |-> 0, detail |-> "none"]
      Timed(run, name, l) == [Event(run, name) EXCEPT !.latency = l]
      Noted(run, name, detail) == [Event(run, name) EXCEPT !.detail = detail]
  IN  << Event(1, "message_received"), Event(2, "message_received"), Event(1, "activation"),
         Noted(0, "coupang_lookup_coalesced", "timedOut"), Timed(1, "reply_failed", 2500),
         Timed(1, "command_failed", 2000), Event(1, "churn_signal"), Event(2, "activation"),
         Noted(0, "coupang_registration_path", "deferred"), Timed(2, "reply_sent", 100), Timed(2, "reply_failed", 0),
         Noted(2, "reply_composite_outcome", "partial"), Timed(2, "command_succeeded", 100), Event(2, "conversion"),
         Event(2, "retention_return") >>
MCSymmetry == Permutations({r1, r2})
==============================================================================
