------------------------------- MODULE Metrics -------------------------------
(***************************************************************************)
(* The metrics of the bot (internal/metrics, cmd/adminbackfill).  Handlers *)
(* put events in the queue of AsyncRecorder, whose goroutine buffers them, *)
(* inserts them in batches and keeps the rollups; the backfill command, a  *)
(* process of its own over the same SQLite database, inserts what the chat *)
(* database has and the table has not.  A step is one transaction or one   *)
(* channel operation.  Module Alertd adds the poller of failed replies.    *)
(*                                                                         *)
(* Time is in ticks of a minute, as is retention: what matters is which of *)
(* two events is older than a cutoff, and on which day each falls.  A day  *)
(* has several ticks, so a cutoff may cut through it.  One user, one room, *)
(* one feature: rollup rows of others are computed in the same way beside  *)
(* theirs, as are the hourly, the error and the funnel rollups.            *)
(***************************************************************************)
EXTENDS Integers, Sequences, SequencesExt, FiniteSets

CONSTANTS
  Outcomes,        \* of each message, the names of what its handler may record
  QueueCap,        \* capacity of the queue, 2048 in the code
  BatchCap,        \* events inserted at once, 256 in the code
  RawRetention, DailyRetention,  \* 90 and 395 days in the code
  Day,             \* of each tick, the day it falls on
  MaxTick,         \* bound: time
  MaxRequests,     \* bound: messages in the chat database
  MaxBackfills,    \* bound: runs of adminbackfill
  MaxFaults        \* bound: statements that fail, crashes, frames that are lost

ASSUME MetricsAssumption ==
  /\ QueueCap \in Nat \ {0} /\ BatchCap \in Nat \ {0}
  /\ RawRetention \in Nat \ {0} /\ DailyRetention \in Nat
  /\ MaxTick \in Nat /\ MaxRequests \in Nat /\ MaxBackfills \in {0, 1} /\ MaxFaults \in Nat
  /\ Day \in [0 .. MaxTick -> Nat] /\ \A t, u \in 0 .. MaxTick : t <= u => Day[t] <= Day[u]
  /\ Outcomes \in [1 .. MaxRequests -> SUBSET STRING]
  /\ \A request \in 1 .. MaxRequests : "message_received" \notin Outcomes[request]

VARIABLES
  clock,      \* the time
  recorder,   \* where the goroutine AsyncRecorder.run is
  chatLogs,   \* the chat database: the time of each message
  inbox,      \* messages on their way to Router.Dispatch: connection, room queue
  handling,   \* messages whose handler will record another event
  queue,      \* AsyncRecorder.queue
  buffer,     \* its batch
  rows,       \* metrics_events, with who inserted them
  rollup,     \* the daily and the retention rollups
  backfill,   \* where adminbackfill is
  fetched,    \* messages it has read from the chat database
  accepted,   \* history: events queued before the end of the context, but
              \* for those of a failed batch or a crashed bot
  overlap,    \* history: messages that were on their way to the table, from the
              \* connection on, when backfill inserted them
  faults      \* how many faults there were

recVars == <<recorder, inbox, handling, queue, buffer, accepted>>
dbVars == <<rows, rollup>>
fillVars == <<backfill, fetched, overlap>>
vars == <<clock, recVars, chatLogs, dbVars, fillVars, faults>>

Ticks == 0 .. MaxTick
Days == {Day[t] : t \in Ticks}
Requests == 1 .. MaxRequests
Names == {"message_received"} \cup UNION {Outcomes[r] : r \in Requests}
Event == [request : Requests, name : Names, at : Ticks]
Row == [event : Event, by : {"recorder", "backfill"}]

Stored == {row.event : row \in rows}
Waiting == ToSet(queue) \cup ToSet(buffer)
Arrival(request, time) == [request |-> request, name |-> "message_received", at |-> time]
OnItsWay(request) == request \in inbox \/ \E t \in Ticks : Arrival(request, t) \in Waiting

Init ==
  /\ clock = 0 /\ recorder = "loop"
  /\ chatLogs = <<>> /\ inbox = {} /\ handling = {}
  /\ queue = <<>> /\ buffer = <<>>
  /\ rows = {} /\ rollup = [received |-> [d \in Days |-> 0], retained |-> {}]
  /\ backfill = "none" /\ fetched = {} /\ overlap = {}
  /\ accepted = {} /\ faults = 0

(* A flush comes every two seconds: what was recorded in a minute has left   *)
(* the queue and the buffer by the end of the next.                         *)
Tick ==
  /\ clock < MaxTick
  /\ \A e \in Waiting : e.at = clock
  /\ clock' = clock + 1
  /\ UNCHANGED <<recVars, chatLogs, dbVars, fillVars>>

Fault == faults < MaxFaults /\ faults' = faults + 1

------------------------------------------------------------------------------
(* Handlers record events: one for the message and, here, one more.         *)

Running == recorder \in {"loop", "rebuild", "cleanup"}

Record(e) ==
  IF Len(queue) < QueueCap
  THEN /\ queue' = Append(queue, e)
       /\ accepted' = IF Running THEN accepted \cup {e} ELSE accepted
  ELSE UNCHANGED <<queue, accepted>>

RecordEvent(request, name) == Record([request |-> request, name |-> name, at |-> clock])

(* A message reaches the chat database and, if the bot runs, it too, unless *)
(* the frame is lost with its connection.  Nothing is recorded yet.         *)
Receive ==
  /\ Len(chatLogs) < MaxRequests
  /\ chatLogs' = Append(chatLogs, clock)
  /\ \/ recorder # "down" /\ inbox' = inbox \cup {Len(chatLogs')} /\ UNCHANGED faults
     \/ recorder = "down" /\ UNCHANGED <<inbox, faults>>
     \/ recorder # "down" /\ Fault /\ UNCHANGED inbox
  /\ UNCHANGED <<clock, recorder, handling, queue, buffer, accepted, dbVars, fillVars>>

(* Its turn in the queue of its room has come.                              *)
Dispatch(request) ==
  /\ request \in inbox /\ recorder # "down"
  /\ RecordEvent(request, "message_received")
  /\ inbox' = inbox \ {request} /\ handling' = handling \cup {request}
  /\ UNCHANGED <<clock, recorder, chatLogs, buffer, dbVars, fillVars, faults>>

RecordOutcome(request) ==
  /\ request \in handling /\ recorder # "down"
  /\ \E name \in Outcomes[request] : RecordEvent(request, name)
  /\ handling' = handling \ {request}
  /\ UNCHANGED <<clock, recorder, inbox, chatLogs, buffer, dbVars, fillVars, faults>>

------------------------------------------------------------------------------
(* AsyncRecorder.run.                                                       *)

Take ==
  /\ recorder = "loop" /\ queue # <<>> /\ Len(buffer) < BatchCap
  /\ buffer' = Append(buffer, Head(queue))
  /\ queue' = Tail(queue)
  /\ UNCHANGED <<clock, accepted, recorder, inbox, handling, chatLogs, dbVars, fillVars, faults>>

(* A batch whose insert fails is discarded.                                 *)
InsertEvents(next) ==
  /\ recorder' = next
  /\ buffer' = <<>>
  /\ \/ /\ rows' = rows \cup {[event |-> e, by |-> "recorder"] : e \in ToSet(buffer)}
        /\ UNCHANGED <<accepted, faults>>
     \/ /\ buffer # <<>> /\ Fault
        /\ accepted' = accepted \ ToSet(buffer)
        /\ UNCHANGED rows
  /\ UNCHANGED <<clock, inbox, handling, queue, chatLogs, rollup, fillVars>>

(* The batch is full or the flush ticker fires; the rollup ticker fires.    *)
Flush == recorder = "loop" /\ buffer # <<>> /\ InsertEvents("loop")
FlushForRollup == recorder = "loop" /\ Len(buffer) < BatchCap /\ InsertEvents("rebuild")

MutDrain ==  \* Defect: what is in the queue at the end of the context stays there
  /\ recorder = "loop" /\ Len(buffer) < BatchCap
  /\ recorder' = "flushing"
  /\ UNCHANGED <<clock, accepted, queue, buffer, inbox, handling, chatLogs, dbVars, fillVars, faults>>

(* The context of the process is done.                                      *)
Drain ==
  /\ recorder = "loop" /\ Len(buffer) < BatchCap
  /\ recorder' = "flushing"
  /\ buffer' = buffer \o queue /\ queue' = <<>>
  /\ UNCHANGED <<clock, accepted, inbox, handling, chatLogs, dbVars, fillVars, faults>>

LastFlush == recorder = "flushing" /\ InsertEvents("lastRebuild")

(* RebuildRollups: everything anew from the raw events.                     *)
Named(name) == {row.event : row \in {r \in rows : r.event.name = name}}
Cohort == CHOOSE d \in Days : /\ \E e \in Named("activation") : Day[e.at] = d
                              /\ \A e \in Named("activation") : Day[e.at] >= d

Rebuilt ==
  [received |-> [d \in Days |-> Cardinality({row \in rows : row.event.name = "message_received" /\ Day[row.event.at] = d})],
   retained |-> IF Named("activation") = {} THEN {}
                ELSE {<<Cohort, Day[e.at]>> : e \in {r \in Named("retention_return") : Day[r.at] >= Cohort}}]

RebuildRollups ==
  /\ recorder \in {"rebuild", "lastRebuild"}
  /\ recorder' = IF recorder = "rebuild" THEN "cleanup" ELSE "lastCleanup"
  /\ \/ rollup' = Rebuilt /\ UNCHANGED faults
     \/ Fault /\ UNCHANGED rollup
  /\ UNCHANGED <<clock, accepted, inbox, handling, queue, buffer, chatLogs, rows, fillVars>>

MutKept(retention) == {t \in Ticks : t > clock - retention}  \* Defect: one tick short

(* Raw events go by their time, rollups by their day.                       *)
Kept(retention) == {t \in Ticks : t >= clock - retention}
KeptDays(retention) == {d \in Days : \A t \in Ticks : t = clock - retention => d >= Day[t]}

Cleanup ==
  /\ recorder \in {"cleanup", "lastCleanup"}
  /\ recorder' = IF recorder = "cleanup" THEN "loop" ELSE "ended"
  /\ \/ Fault /\ UNCHANGED dbVars
     \/ /\ UNCHANGED faults
        /\ rows' = {row \in rows : row.event.at \in Kept(RawRetention)}
        /\ rollup' = [received |-> [d \in Days |-> IF d \in KeptDays(DailyRetention) THEN rollup.received[d] ELSE 0],
                      retained |-> {pair \in rollup.retained : pair[2] \in KeptDays(DailyRetention)}]
  /\ UNCHANGED <<clock, accepted, inbox, handling, queue, buffer, chatLogs, fillVars>>

(* The process ends, after the recorder has or by a crash, and with it what *)
(* was in its memory.                                                       *)
Stop ==
  /\ recorder # "down"
  /\ recorder' = "down"
  /\ IF recorder = "ended" THEN UNCHANGED <<accepted, faults>> ELSE Fault /\ accepted' = accepted \ Waiting
  /\ queue' = <<>> /\ buffer' = <<>> /\ inbox' = {} /\ handling' = {}
  /\ UNCHANGED <<clock, chatLogs, dbVars, fillVars>>

------------------------------------------------------------------------------
(* cmd/adminbackfill, run once.                                             *)

QueryMessageRows ==
  /\ backfill = "none" /\ MaxBackfills = 1
  /\ backfill' = "insert" /\ fetched' = DOMAIN chatLogs
  /\ UNCHANGED <<clock, recVars, chatLogs, dbVars, overlap, faults>>

MutAbsent(e) ==  \* Defect: looks only at its own rows
  \A row \in rows : row.by = "backfill" => <<row.event.request, row.event.name>> # <<e.request, e.name>>

(* The pair of request and event name is not in the table.                  *)
Absent(e) == \A stored \in Stored : <<stored.request, stored.name>> # <<e.request, e.name>>

(* The time of these rows is that of the chat database.                     *)
InsertEventsIfAbsent ==
  /\ backfill = "insert"
  /\ LET new == {e \in {Arrival(r, chatLogs[r]) : r \in fetched} : Absent(e)}
     IN  /\ rows' = rows \cup {[event |-> e, by |-> "backfill"] : e \in new}
         /\ overlap' = overlap \cup {r \in {e.request : e \in new} : OnItsWay(r)}
         /\ backfill' = IF new = {} THEN "done" ELSE "rebuild"
  /\ fetched' = {}
  /\ UNCHANGED <<clock, recVars, chatLogs, rollup, faults>>

BackfillRebuilds ==
  /\ backfill = "rebuild"
  /\ backfill' = "done"
  /\ \/ rollup' = Rebuilt /\ UNCHANGED faults
     \/ Fault /\ UNCHANGED rollup
  /\ UNCHANGED <<clock, recVars, chatLogs, rows, fetched, overlap>>

Handlers == Receive \/ \E r \in Requests : Dispatch(r) \/ RecordOutcome(r)
Recorder == Take \/ Flush \/ FlushForRollup \/ Drain \/ LastFlush \/ RebuildRollups \/ Cleanup
Backfill == QueryMessageRows \/ InsertEventsIfAbsent \/ BackfillRebuilds

Work == Handlers \/ Recorder \/ Stop \/ Backfill

Next == (Tick /\ UNCHANGED faults) \/ Work

Spec == Init /\ [][Next]_vars
------------------------------------------------------------------------------
TypeOK ==
  /\ clock \in Ticks
  /\ recorder \in {"loop", "rebuild", "cleanup", "flushing", "lastRebuild", "lastCleanup", "ended", "down"}
  /\ inbox \subseteq DOMAIN chatLogs /\ handling \subseteq DOMAIN chatLogs
  /\ chatLogs \in BoundedSeq(Ticks, MaxRequests)
  /\ queue \in BoundedSeq(Event, QueueCap) /\ ToSet(buffer) \subseteq Event
  /\ accepted \subseteq Event /\ rows \subseteq Row /\ overlap \subseteq Requests
  /\ rollup.received \in [Days -> Nat] /\ rollup.retained \subseteq Days \X Days
  /\ backfill \in {"none", "insert", "rebuild", "done"} /\ fetched \subseteq Requests /\ faults \in 0 .. MaxFaults

(* Every event that was queued before the context ended is on its way to    *)
(* the table, in it, or too old, but for those of a failed batch or of a    *)
(* bot that crashed: the end of the context loses none.                     *)
EventsReachTheTable ==
  \A e \in accepted : e \in Waiting \cup Stored \/ e.at < clock - RawRetention

(* A message is counted twice only if it was on its way to the table when   *)
(* backfill found it missing: not yet dispatched, in the queue or in the    *)
(* buffer.  Nothing else, such as a bot that is down, a failed batch or the *)
(* two times of a message, lets both writers count it.                      *)
DuplicatesNeedOverlap ==
  \A x, y \in rows :
    x.by # y.by /\ x.event.request = y.event.request /\ x.event.name = y.event.name => x.event.request \in overlap

(* Rebuilding from what is left of the raw events takes nothing from the    *)
(* days whose raw events are all still kept: their counts do not fall, and  *)
(* a cohort of such a day keeps the days its users came back.  A day that   *)
(* the cutoff cuts through is rebuilt from a part of its events.            *)
Complete(d, now) == \A t \in Ticks : Day[t] = d => t >= now - RawRetention

RecentDaysKept ==
  [][/\ \A d \in Days : Complete(d, clock') => rollup'.received[d] >= rollup.received[d]
     /\ \A pair \in rollup.retained : Complete(pair[1], clock') => pair \in rollup'.retained]_vars

(* "daily_retention: 9480h" beside "raw_retention: 2160h"                   *)
(* (configs/config.yaml:105-107): daily rollups outlive the raw events.     *)
DailyHistoryKept ==
  [][\A t \in Ticks : t >= clock' - DailyRetention => rollup'.received[Day[t]] >= rollup.received[Day[t]]]_vars

(* What the proofs need beside the types.  Events pass the queue and the    *)
(* buffer in the order of their times; when the context has ended, those    *)
(* that count as accepted are past the queue, and past the buffer once it   *)
(* is flushed.                                                              *)
LineOK ==
  /\ buffer \in Seq(Event)
  /\ recorder \notin {"loop", "flushing"} => buffer = <<>>
  /\ ~Running => \A e \in accepted : e \in ToSet(buffer) \cup Stored \/ e.at < clock - RawRetention
  /\ \A i, j \in DOMAIN queue : i <= j => queue[i].at <= queue[j].at
  /\ \A b \in ToSet(buffer), e \in ToSet(queue) : b.at <= e.at
  /\ \A e \in Waiting : e.at <= clock
  /\ \A row \in rows : row.by = "recorder" =>
       row.event.at <= clock /\ \A e \in Waiting : row.event.at <= e.at

(* Backfill inserts arrivals of messages only; of a message it inserted,    *)
(* the recorder's arrival is still to come only where they overlapped.      *)
FillOK ==
  /\ IsFiniteSet(rows)
  /\ fetched \subseteq DOMAIN chatLogs
  /\ \A row \in rows : row.by = "backfill" =>
       /\ row.event.name = "message_received" /\ row.event.request \in DOMAIN chatLogs
       /\ OnItsWay(row.event.request) => row.event.request \in overlap

(* What the rollups say of the days that are still complete, the rows say   *)
(* too: at least as many messages, the same first day, the same returns.    *)
FirstActive(d) == /\ \E e \in Named("activation") : Day[e.at] = d
                  /\ \A e \in Named("activation") : Day[e.at] >= d

RollupOK ==
  /\ \A d \in Days : Complete(d, clock) => rollup.received[d] <= Rebuilt.received[d]
  /\ \A pair \in rollup.retained : Complete(pair[1], clock) =>
       /\ FirstActive(pair[1]) /\ pair[1] <= pair[2]
       /\ \E e \in Named("retention_return") : Day[e.at] = pair[2]

(* The inductive invariant behind the three properties above.               *)
IInv == TypeOK /\ LineOK /\ FillOK /\ RollupOK /\ EventsReachTheTable /\ DuplicatesNeedOverlap
==============================================================================
