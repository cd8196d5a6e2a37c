----------------------------- MODULE AlertdProofs -----------------------------
(***************************************************************************)
(* What holds of the metrics and of the alert daemon over them for any     *)
(* traffic, any capacities of queue and batch, any retentions and windows, *)
(* with backfill, failing statements and crashes.                          *)
(***************************************************************************)
EXTENDS Alertd, FiniteSetTheorems, WellFoundedInduction, TLAPS

------------------------------------------------------------------------------
(* Sequences and sets.                                                      *)

LEMMA BoundedSeqIs ==
  ASSUME NEW S, NEW n \in Nat, NEW q
  PROVE  q \in BoundedSeq(S, n) <=> q \in Seq(S) /\ Len(q) <= n
<1>1. ASSUME q \in BoundedSeq(S, n) PROVE q \in Seq(S) /\ Len(q) <= n
  BY <1>1 DEF BoundedSeq, SeqOf
<1>2. ASSUME q \in Seq(S), Len(q) <= n PROVE q \in BoundedSeq(S, n)
  <2>1. Len(q) \in 0 .. n /\ q \in [1 .. Len(q) -> S]
    BY <1>2
  <2> QED
    BY <2>1 DEF BoundedSeq, SeqOf
<1> QED
  BY <1>1, <1>2

LEMMA ElementsAre ==
  ASSUME NEW S, NEW q \in Seq(S)
  PROVE  /\ ToSet(q) = {q[i] : i \in 1 .. Len(q)} /\ ToSet(q) \subseteq S
         /\ DOMAIN q = 1 .. Len(q) /\ Len(q) \in Nat /\ ToSet(<<>>) = {}
BY DEF ToSet

LEMMA AppendIs ==
  ASSUME NEW S, NEW q \in Seq(S), NEW e \in S
  PROVE  /\ Append(q, e) \in Seq(S) /\ Len(Append(q, e)) = Len(q) + 1
         /\ \A i \in 1 .. Len(q) : Append(q, e)[i] = q[i]
         /\ Append(q, e)[Len(q) + 1] = e
         /\ ToSet(Append(q, e)) = ToSet(q) \cup {e}
<1> DEFINE r == Append(q, e)
<1>1. r \in Seq(S) /\ Len(r) = Len(q) + 1 /\ Len(q) \in Nat
  OBVIOUS
<1>2. r[Len(q) + 1] = e /\ \A i \in 1 .. Len(q) : r[i] = q[i]
  OBVIOUS
<1> HIDE DEF r
<1>3. ToSet(r) \subseteq ToSet(q) \cup {e}
  BY <1>1, <1>2, ElementsAre
<1>4. ToSet(q) \subseteq ToSet(r) /\ e \in ToSet(r)
  <2>1. \A i \in 1 .. Len(q) : q[i] \in ToSet(r)
    BY <1>1, <1>2, ElementsAre
  <2>2. r[Len(q) + 1] \in ToSet(r)
    BY <1>1, ElementsAre
  <2> QED
    BY <1>2, <2>1, <2>2, ElementsAre
<1> QED
  BY <1>1, <1>2, <1>3, <1>4 DEF r

LEMMA HeadTailAre ==
  ASSUME NEW S, NEW q \in Seq(S), q # <<>>
  PROVE  /\ Head(q) \in ToSet(q) /\ Head(q) = q[1] /\ Tail(q) \in Seq(S) /\ Len(Tail(q)) = Len(q) - 1
         /\ \A i \in 1 .. Len(q) - 1 : Tail(q)[i] = q[i + 1]
         /\ ToSet(q) = {Head(q)} \cup ToSet(Tail(q))
<1> DEFINE r == Tail(q)
<1>1. r \in Seq(S) /\ Len(r) = Len(q) - 1 /\ Len(q) \in Nat \ {0} /\ Head(q) = q[1]
  OBVIOUS
<1>2. \A i \in 1 .. Len(q) - 1 : r[i] = q[i + 1]
  OBVIOUS
<1> HIDE DEF r
<1>3. Head(q) \in ToSet(q)
  BY <1>1, ElementsAre
<1>4. ToSet(r) \subseteq ToSet(q)
  BY <1>1, <1>2, ElementsAre
<1>5. ASSUME NEW i \in 1 .. Len(q), i # 1 PROVE q[i] \in ToSet(r)
  <2>1. i - 1 \in 1 .. Len(r) /\ r[i - 1] = q[i]
    BY <1>1, <1>2, <1>5
  <2> QED
    BY <1>1, <2>1, ElementsAre
<1> QED
  BY <1>1, <1>2, <1>3, <1>4, <1>5, ElementsAre DEF r

LEMMA ConcatIs ==
  ASSUME NEW S, NEW p \in Seq(S), NEW q \in Seq(S)
  PROVE  p \o q \in Seq(S) /\ ToSet(p \o q) = ToSet(p) \cup ToSet(q)
<1> DEFINE r == p \o q
<1>1. r \in Seq(S) /\ Len(r) = Len(p) + Len(q) /\ Len(p) \in Nat /\ Len(q) \in Nat
  OBVIOUS
<1>2. /\ \A i \in 1 .. Len(p) : r[i] = p[i]
      /\ \A i \in 1 .. Len(q) : r[Len(p) + i] = q[i]
  OBVIOUS
<1> HIDE DEF r
<1>3. ASSUME NEW i \in 1 .. Len(r) PROVE r[i] \in ToSet(p) \cup ToSet(q)
  <2>1. CASE i <= Len(p)
    BY <1>1, <1>2, <2>1, ElementsAre
  <2>2. CASE i > Len(p)
    <3>1. i - Len(p) \in 1 .. Len(q) /\ r[Len(p) + (i - Len(p))] = q[i - Len(p)]
      BY <1>1, <1>2, <2>2
    <3> QED
      BY <1>1, <3>1, ElementsAre
  <2> QED
    BY <1>1, <2>1, <2>2
<1>4. ToSet(p) \subseteq ToSet(r)
  BY <1>1, <1>2, ElementsAre
<1>5. ToSet(q) \subseteq ToSet(r)
  <2> SUFFICES ASSUME NEW i \in 1 .. Len(q) PROVE q[i] \in ToSet(r)
    BY ElementsAre
  <2>1. Len(p) + i \in 1 .. Len(r) /\ r[Len(p) + i] = q[i]
    BY <1>1, <1>2
  <2>2. \A k \in 1 .. Len(r) : r[k] \in ToSet(r)
    BY <1>1, ElementsAre
  <2> QED
    BY <2>1, <2>2
<1>6. ToSet(r) \subseteq ToSet(p) \cup ToSet(q)
  BY <1>1, <1>3, ElementsAre
<1> QED
  BY <1>1, <1>4, <1>5, <1>6 DEF r

LEMMA ElementsFinite ==
  ASSUME NEW S, NEW q \in Seq(S)
  PROVE  IsFiniteSet(ToSet(q))
<1>1. q \in Surjection(1 .. Len(q), ToSet(q))
  BY ElementsAre DEF Surjection
<1> QED
  BY <1>1, ElementsAre, FS_Interval, FS_Surjection

(* Rows made of finitely many events are finitely many.                     *)
LEMMA RowsFinite ==
  ASSUME NEW E, IsFiniteSet(E), NEW by
  PROVE  IsFiniteSet({[event |-> e, by |-> by] : e \in E})
<1> DEFINE R == {[event |-> e, by |-> by] : e \in E}
           f == [e \in E |-> [event |-> e, by |-> by]]
<1>1. f \in Surjection(E, R)
  BY DEF Surjection
<1> QED
  BY <1>1, FS_Surjection

(* A set of times that is not empty has a first.                            *)
LEMMA FirstTime ==
  ASSUME NEW T \in SUBSET Nat, T # {}
  PROVE  \E t \in T : \A u \in T : t <= u
<1> DEFINE R == {ss \in Nat \X Nat : ss[1] < ss[2]}
<1>1. IsWellFoundedOn(R, Nat)
  BY NatLessThanWellFounded DEF OpToRel
<1> HIDE DEF R
<1>2. \E t \in T : \A u \in T : ~(<<u, t>> \in R)
  BY <1>1, WFMin
<1>3. \A t, u \in Nat : u < t => <<u, t>> \in R
  BY DEF R
<1>4. \A t, u \in T : ~(u < t) => t <= u
  OBVIOUS
<1> QED
  BY <1>2, <1>3, <1>4

------------------------------------------------------------------------------
(* What Rebuilt computes, before and after a step.                          *)

Arrivals(d) == {row \in rows : row.event.name = "message_received" /\ Day[row.event.at] = d}

Returns == {e \in Named("retention_return") : Day[e.at] >= Cohort}

(* Days of times, in their order; a complete day is one of times that are   *)
(* kept.                                                                    *)
LEMMA DaysAre ==
  /\ Days \subseteq Nat /\ \A t \in Ticks : Day[t] \in Days /\ Day[t] \in Nat
  /\ \A t, u \in Ticks : t <= u => Day[t] <= Day[u]
  /\ \A t \in Ticks : \A now : Complete(Day[t], now) => t >= now - RawRetention
<1>1. Ticks = 0 .. MaxTick /\ Day \in [Ticks -> Nat] /\ \A t, u \in Ticks : t <= u => Day[t] <= Day[u]
  BY MetricsAssumption DEF Ticks
<1> QED
  BY <1>1 DEF Days, Complete

LEMMA RebuiltIs ==
  /\ \A d \in Days : Rebuilt.received[d] = Cardinality(Arrivals(d))
  /\ \A pair \in Rebuilt.retained : Named("activation") # {} /\ \E e \in Returns : pair = <<Cohort, Day[e.at]>>
  /\ Named("activation") # {} => \A e \in Returns : <<Cohort, Day[e.at]>> \in Rebuilt.retained
BY DEF Rebuilt, Arrivals, Returns

LEMMA RebuiltIsNext ==
  \A d \in Days : Rebuilt'.received[d] = Cardinality(Arrivals(d)')
BY DEF Rebuilt, Arrivals

LEMMA ArrivalsFinite ==
  ASSUME IsFiniteSet(rows), NEW d
  PROVE  IsFiniteSet(Arrivals(d)) /\ Cardinality(Arrivals(d)) \in Nat
<1>1. Arrivals(d) \in SUBSET rows
  BY DEF Arrivals
<1> QED
  BY <1>1, FS_Subset, FS_CardinalityType

LEMMA RowTypes ==
  ASSUME TypeOK
  PROVE  /\ \A row \in rows : row.event \in Event /\ row.event.at \in Ticks /\ row.event.name \in Names
                              /\ row.event.request \in Requests /\ row.by \in {"recorder", "backfill"}
                              /\ row = [event |-> row.event, by |-> row.by]
         /\ \A e \in Waiting : e \in Event
         /\ \A e \in Event : e.at \in Ticks /\ e.name \in Names /\ e.request \in Requests
         /\ \A name : \A e \in Named(name) : e \in Event /\ e.at \in Ticks
         /\ Ticks \subseteq Nat /\ clock \in Ticks
         /\ queue \in Seq(Event) /\ Len(queue) <= QueueCap
<1>1. \A row \in rows : row.event \in Event /\ row.by \in {"recorder", "backfill"}
                        /\ row = [event |-> row.event, by |-> row.by]
  BY DEF TypeOK, Row
<1>2. \A e \in Event : e.at \in Ticks /\ e.name \in Names /\ e.request \in Requests
  BY DEF Event
<1>3. queue \in Seq(Event) /\ Len(queue) <= QueueCap
  BY BoundedSeqIs, MetricsAssumption DEF TypeOK
<1>4. \A e \in Waiting : e \in Event
  BY <1>3, ElementsAre DEF TypeOK, Waiting
<1>5. Ticks \subseteq Nat /\ clock \in Ticks
  BY MetricsAssumption DEF TypeOK, Ticks
<1> QED
  BY <1>1, <1>2, <1>3, <1>4, <1>5 DEF Named

(* The first day of a cohort is there if anyone was active, and is one.     *)
LEMMA CohortIs ==
  ASSUME TypeOK
  PROVE  /\ Named("activation") # {} => Cohort \in Days /\ FirstActive(Cohort)
         /\ \A d, e \in Days : FirstActive(d) /\ FirstActive(e) => d = e
<1>1. ASSUME Named("activation") # {} PROVE Cohort \in Days /\ FirstActive(Cohort)
  <2> DEFINE T == {Day[e.at] : e \in Named("activation")}
  <2>1. T \in SUBSET Nat /\ T # {} /\ T \subseteq Days
    BY <1>1, RowTypes, DaysAre
  <2>2. \E d \in T : \A u \in T : d <= u
    BY <2>1, FirstTime
  <2>3. \E d \in Days : FirstActive(d)
    <3>1. PICK d \in T : \A u \in T : d <= u
      BY <2>2
    <3>2. \A e \in Named("activation") : Day[e.at] >= d
      BY <2>1, <3>1
    <3> QED
      BY <2>1, <3>1, <3>2 DEF FirstActive
  <2>4. Cohort = CHOOSE d \in Days : FirstActive(d)
    BY DEF Cohort, FirstActive
  <2> QED
    BY <2>3, <2>4
<1>2. ASSUME NEW d \in Days, NEW u \in Days, FirstActive(d), FirstActive(u) PROVE d = u
  <2>1. d >= u /\ u >= d /\ d \in Nat /\ u \in Nat
    BY <1>2, DaysAre DEF FirstActive
  <2> QED
    BY <2>1
<1> QED
  BY <1>1, <1>2

(* Who is on its way: what is left of the line carries no more.             *)
LEMMA OnTheirWay ==
  ASSUME NEW request
  PROVE  /\ inbox' \subseteq inbox /\ Waiting' \subseteq Waiting => (OnItsWay(request)' => OnItsWay(request))
         /\ \A e \in Waiting : e.at \in Ticks /\ e = Arrival(request, e.at) => OnItsWay(request)
BY DEF OnItsWay

------------------------------------------------------------------------------
LEMMA InitHolds == Init => IInv
<1> SUFFICES ASSUME Init PROVE IInv
  OBVIOUS
<1>0. 0 \in Ticks /\ Ticks \subseteq Nat /\ <<>> \in Seq(Ticks) /\ <<>> \in Seq(Event)
  BY MetricsAssumption DEF Ticks
<1>1. ToSet(queue) = {} /\ ToSet(buffer) = {} /\ Waiting = {} /\ Stored = {}
  BY ElementsAre DEF Init, Waiting, Stored, ToSet
<1>2. chatLogs \in BoundedSeq(Ticks, MaxRequests) /\ queue \in BoundedSeq(Event, QueueCap)
  <2>1. chatLogs = <<>> /\ queue = <<>> /\ Len(<<>>) = 0 /\ MaxRequests \in Nat /\ QueueCap \in Nat
    BY MetricsAssumption DEF Init
  <2>2. Len(chatLogs) <= MaxRequests /\ chatLogs \in Seq(Ticks) /\ Len(queue) <= QueueCap /\ queue \in Seq(Event)
    BY <1>0, <2>1
  <2> QED
    BY <2>1, <2>2, BoundedSeqIs
<1>3. /\ rollup.received \in [Days -> Nat] /\ rollup.retained = {}
      /\ \A d \in Days : rollup.received[d] = 0
  BY DEF Init
<1>4. TypeOK
  BY <1>0, <1>1, <1>2, <1>3, MetricsAssumption DEF Init, TypeOK
<1>5. LineOK
  BY <1>0, <1>1 DEF Init, LineOK, Running
<1>6. FillOK
  BY <1>1, FS_EmptySet DEF Init, FillOK
<1>7. RollupOK
  <2>1. \A d \in Days : Rebuilt.received[d] \in Nat
    BY <1>6, RebuiltIs, ArrivalsFinite DEF FillOK
  <2> QED
    BY <1>3, <2>1 DEF RollupOK
<1>8. EventsReachTheTable /\ DuplicatesNeedOverlap
  BY DEF Init, EventsReachTheTable, DuplicatesNeedOverlap
<1> QED
  BY <1>4, <1>5, <1>6, <1>7, <1>8 DEF IInv

(* Steps that leave the table and its rollups alone.                        *)
LEMMA TablesStay ==
  ASSUME RollupOK, DuplicatesNeedOverlap, UNCHANGED <<clock, rows, rollup, overlap>>
  PROVE  RollupOK' /\ DuplicatesNeedOverlap' /\ Stored' = Stored
BY DEF RollupOK, DuplicatesNeedOverlap, Rebuilt, Cohort, Named, FirstActive, Stored, Complete

(* An event of this tick joins the queue, or finds it full: the outcome of  *)
(* a message, or the arrival of one that is dispatched.                     *)
LEMMA RecordKeeps ==
  ASSUME IInv, NEW e \in Event, e.at = clock, Record(e),
         e.name = "message_received" => e.request \in inbox, inbox' \subseteq inbox,
         UNCHANGED <<clock, recorder, chatLogs, buffer, dbVars, fillVars, faults>>,
         handling' \subseteq DOMAIN chatLogs
  PROVE  IInv'
<1> USE DEF dbVars, fillVars
<1>0. TypeOK /\ LineOK /\ FillOK /\ RollupOK /\ EventsReachTheTable /\ DuplicatesNeedOverlap
  BY DEF IInv
<1>1. RollupOK' /\ DuplicatesNeedOverlap' /\ Stored' = Stored
  BY <1>0, TablesStay
<1>2. queue \in Seq(Event) /\ Len(queue) <= QueueCap
  BY <1>0, RowTypes
<1>3. CASE UNCHANGED <<queue, accepted>>
  <2>1. TypeOK'
    BY <1>0, <1>3 DEF TypeOK
  <2>2. LineOK' /\ FillOK' /\ EventsReachTheTable'
    <3>1. Waiting' = Waiting
      BY <1>3 DEF Waiting
    <3>2. \A request : OnItsWay(request)' => OnItsWay(request)
      BY <3>1, OnTheirWay
    <3>3. FillOK'
      BY <1>0, <3>2 DEF FillOK
    <3> QED
      BY <1>0, <1>1, <1>3, <3>1, <3>3 DEF LineOK, EventsReachTheTable, Running
  <2> QED
    BY <1>1, <2>1, <2>2 DEF IInv
<1>4. CASE /\ Len(queue) < QueueCap /\ queue' = Append(queue, e)
           /\ accepted' = IF Running THEN accepted \cup {e} ELSE accepted
  <2>1. queue' \in Seq(Event) /\ Len(queue') = Len(queue) + 1 /\ ToSet(queue') = ToSet(queue) \cup {e}
    BY <1>2, <1>4, AppendIs
  <2>2. Waiting' = Waiting \cup {e}
    BY <2>1 DEF Waiting
  <2>3. queue' \in BoundedSeq(Event, QueueCap)
    <3>1. Len(queue') <= QueueCap /\ QueueCap \in Nat
      BY <1>2, <1>4, <2>1, MetricsAssumption
    <3> QED
      BY <2>1, <3>1, BoundedSeqIs
  <2>4. TypeOK'
    BY <1>0, <1>4, <2>3 DEF TypeOK
  <2>5. LineOK'
    <3>1. \A i, j \in DOMAIN queue' : i <= j => queue'[i].at <= queue'[j].at
      <4>1. \A i \in 1 .. Len(queue) : queue[i] \in Waiting /\ queue[i].at <= clock
        BY <1>0, <1>2, ElementsAre DEF LineOK, Waiting
      <4>2. DOMAIN queue' = 1 .. Len(queue) + 1 /\ DOMAIN queue = 1 .. Len(queue) /\ Len(queue) \in Nat
        BY <1>2, <2>1, ElementsAre
      <4>3. queue'[Len(queue) + 1] = e /\ \A i \in 1 .. Len(queue) : queue'[i] = queue[i]
        BY <1>2, <1>4, AppendIs
      <4>4. clock <= clock
        BY <1>0, RowTypes
      <4> QED
        BY <1>0, <4>1, <4>2, <4>3, <4>4 DEF LineOK
    <3>2. \A b \in ToSet(buffer), q \in ToSet(queue') : b.at <= q.at
      BY <1>0, <2>1 DEF LineOK, Waiting
    <3>3. \A w \in Waiting' : w.at <= clock
      BY <1>0, <2>2, RowTypes DEF LineOK
    <3>4. \A row \in rows : row.by = "recorder" => row.event.at <= clock /\ \A w \in Waiting' : row.event.at <= w.at
      BY <1>0, <2>2 DEF LineOK
    <3>5. ~Running => accepted' = accepted
      BY <1>4
    <3> QED
      BY <1>0, <1>1, <3>1, <3>2, <3>3, <3>4, <3>5 DEF LineOK, Running
  <2>6. EventsReachTheTable'
    BY <1>0, <1>1, <1>4, <2>2 DEF EventsReachTheTable
  <2>7. ASSUME NEW request, OnItsWay(request)' PROVE OnItsWay(request)
    <3>1. CASE request \in inbox
      BY <3>1 DEF OnItsWay
    <3>2. CASE request \notin inbox
      <4>1. PICK t \in Ticks : Arrival(request, t) \in Waiting'
        BY <2>7, <3>2 DEF OnItsWay
      <4>2. Arrival(request, t) # e
        BY <3>2 DEF Arrival
      <4> QED
        BY <2>2, <4>1, <4>2 DEF OnItsWay
    <3> QED
      BY <3>1, <3>2
  <2>8. FillOK'
    BY <1>0, <2>7 DEF FillOK
  <2> QED
    BY <1>1, <2>4, <2>5, <2>6, <2>8 DEF IInv
<1> QED
  BY <1>3, <1>4 DEF Record

LEMMA ReceiveKeeps ==
  ASSUME IInv, Receive
  PROVE  IInv'
<1> USE DEF dbVars, fillVars
<1>0. TypeOK /\ LineOK /\ FillOK /\ RollupOK /\ EventsReachTheTable /\ DuplicatesNeedOverlap /\ clock \in Ticks
  BY RowTypes DEF IInv
<1>1. /\ chatLogs \in Seq(Ticks) /\ Len(chatLogs) < MaxRequests /\ chatLogs' = Append(chatLogs, clock)
      /\ UNCHANGED <<clock, recorder, handling, queue, buffer, accepted, dbVars, fillVars>>
  BY <1>0, BoundedSeqIs, MetricsAssumption DEF Receive, TypeOK
<1>2. /\ chatLogs' \in Seq(Ticks) /\ Len(chatLogs') = Len(chatLogs) + 1 /\ Len(chatLogs) \in Nat
      /\ DOMAIN chatLogs = 1 .. Len(chatLogs) /\ DOMAIN chatLogs' = 1 .. Len(chatLogs) + 1
  BY <1>0, <1>1, AppendIs, ElementsAre
<1>3. Len(chatLogs) + 1 <= MaxRequests /\ Len(chatLogs') \notin DOMAIN chatLogs
      /\ DOMAIN chatLogs \subseteq DOMAIN chatLogs' /\ Len(chatLogs') \in DOMAIN chatLogs'
  BY <1>1, <1>2, MetricsAssumption
<1>4. chatLogs' \in BoundedSeq(Ticks, MaxRequests)
  BY <1>2, <1>3, BoundedSeqIs, MetricsAssumption
<1>5. inbox' \in {inbox, inbox \cup {Len(chatLogs')}} /\ faults' \in 0 .. MaxFaults
  BY <1>0, MetricsAssumption DEF Receive, Fault, TypeOK
<1>6. TypeOK'
  BY <1>0, <1>1, <1>3, <1>4, <1>5 DEF TypeOK
<1>7. Waiting' = Waiting /\ Stored' = Stored /\ RollupOK' /\ DuplicatesNeedOverlap'
  BY <1>0, <1>1, TablesStay DEF Waiting
<1>8. LineOK' /\ EventsReachTheTable'
  BY <1>0, <1>1, <1>7 DEF LineOK, EventsReachTheTable, Running
<1>9. \A request \in DOMAIN chatLogs : OnItsWay(request)' => OnItsWay(request)
  BY <1>3, <1>5, <1>7 DEF OnItsWay
<1>10. FillOK'
  BY <1>0, <1>1, <1>3, <1>9 DEF FillOK
<1> QED
  BY <1>6, <1>7, <1>8, <1>10 DEF IInv

LEMMA HandlersKeep ==
  ASSUME IInv, Handlers
  PROVE  IInv'
<1>0. TypeOK /\ FillOK /\ clock \in Ticks
  BY RowTypes DEF IInv
<1>1. ASSUME NEW request \in Requests, Dispatch(request) PROVE IInv'
  <2> DEFINE e == [request |-> request, name |-> "message_received", at |-> clock]
  <2>1. e \in Event
    BY <1>0 DEF Event, Names
  <2>2. /\ Record(e) /\ request \in inbox /\ inbox' \subseteq inbox
        /\ UNCHANGED <<clock, recorder, chatLogs, buffer, dbVars, fillVars, faults>>
    BY <1>1 DEF Dispatch, RecordEvent
  <2>3. handling' \subseteq DOMAIN chatLogs
    BY <1>0, <1>1 DEF Dispatch, TypeOK
  <2> QED
    BY <2>1, <2>2, <2>3, RecordKeeps
<1>2. ASSUME NEW request \in Requests, RecordOutcome(request) PROVE IInv'
  <2>1. PICK name \in Outcomes[request] : RecordEvent(request, name)
    BY <1>2 DEF RecordOutcome
  <2> DEFINE e == [request |-> request, name |-> name, at |-> clock]
  <2>2. e \in Event
    BY <1>0, <2>1 DEF Event, Names
  <2>3. name # "message_received"
    BY <2>1, MetricsAssumption DEF Requests
  <2>4. /\ Record(e) /\ UNCHANGED <<clock, recorder, inbox, chatLogs, buffer, dbVars, fillVars, faults>>
        /\ handling' \subseteq DOMAIN chatLogs
    BY <1>0, <1>2, <2>1 DEF RecordOutcome, RecordEvent, TypeOK
  <2> QED
    BY <2>2, <2>3, <2>4, RecordKeeps
<1> QED
  BY <1>1, <1>2, ReceiveKeeps DEF Handlers

(* Events go on from the queue to the buffer, one or all.                   *)
LEMMA BufferKeeps ==
  ASSUME IInv, Take \/ Drain
  PROVE  IInv'
<1> USE DEF dbVars, fillVars
<1>0. TypeOK /\ LineOK /\ FillOK /\ RollupOK /\ EventsReachTheTable /\ DuplicatesNeedOverlap
  BY DEF IInv
<1>1. RollupOK' /\ DuplicatesNeedOverlap' /\ Stored' = Stored
  BY <1>0, TablesStay DEF Take, Drain
<1>2. queue \in Seq(Event) /\ Len(queue) <= QueueCap /\ buffer \in Seq(Event)
  BY <1>0, RowTypes DEF LineOK
<1>3. ASSUME queue' \in Seq(Event), Len(queue') <= QueueCap, buffer' \in Seq(Event),
             recorder' \in {"loop", "flushing"},
             ToSet(buffer') \cup ToSet(queue') = Waiting,
             \A i, j \in DOMAIN queue' : i <= j => queue'[i].at <= queue'[j].at,
             \A b \in ToSet(buffer'), e \in ToSet(queue') : b.at <= e.at,
             recorder' = "flushing" => ToSet(buffer') = Waiting,
             UNCHANGED <<clock, accepted, inbox, handling, chatLogs, dbVars, fillVars, faults>>
      PROVE  IInv'
  <2>1. Waiting' = Waiting
    BY <1>3 DEF Waiting
  <2>2. queue' \in BoundedSeq(Event, QueueCap) /\ ToSet(buffer') \subseteq Event
    BY <1>3, BoundedSeqIs, ElementsAre, MetricsAssumption
  <2>3. TypeOK'
    BY <1>0, <1>3, <2>2 DEF TypeOK
  <2>4. ~Running' => \A e \in accepted : e \in ToSet(buffer') \cup Stored \/ e.at < clock - RawRetention
    BY <1>0, <1>3 DEF EventsReachTheTable, Running
  <2>5. LineOK'
    BY <1>0, <1>1, <1>3, <2>1, <2>4 DEF LineOK
  <2>6. FillOK' /\ EventsReachTheTable'
    BY <1>0, <1>1, <1>3, <2>1 DEF FillOK, EventsReachTheTable, OnItsWay
  <2> QED
    BY <1>1, <2>3, <2>5, <2>6 DEF IInv
<1>4. CASE Take
  <2>1. /\ queue # <<>> /\ buffer' = Append(buffer, Head(queue)) /\ queue' = Tail(queue)
        /\ recorder' = "loop"
        /\ UNCHANGED <<clock, accepted, inbox, handling, chatLogs, dbVars, fillVars, faults>>
    BY <1>4 DEF Take
  <2>2. /\ queue' \in Seq(Event) /\ Len(queue') = Len(queue) - 1 /\ Len(queue) \in Nat
        /\ ToSet(queue) = {Head(queue)} \cup ToSet(queue') /\ Head(queue) \in Event /\ Head(queue) = queue[1]
        /\ \A i \in 1 .. Len(queue) - 1 : queue'[i] = queue[i + 1]
        /\ DOMAIN queue = 1 .. Len(queue) /\ DOMAIN queue' = 1 .. Len(queue) - 1
    BY <1>2, <2>1, HeadTailAre, ElementsAre
  <2>3. buffer' \in Seq(Event) /\ ToSet(buffer') = ToSet(buffer) \cup {Head(queue)}
    BY <1>2, <2>1, <2>2, AppendIs
  <2>4. ASSUME NEW i \in DOMAIN queue', NEW j \in DOMAIN queue', i <= j
        PROVE  queue'[i].at <= queue'[j].at
    <3>1. i + 1 \in DOMAIN queue /\ j + 1 \in DOMAIN queue /\ i + 1 <= j + 1
      BY <2>2, <2>4
    <3> QED
      BY <1>0, <2>2, <3>1 DEF LineOK
  <2>5. \A e \in ToSet(queue') : Head(queue).at <= e.at
    <3>1. \A i \in DOMAIN queue' : i + 1 \in DOMAIN queue /\ 1 \in DOMAIN queue /\ 1 <= i + 1
      BY <2>2
    <3>2. \A i \in DOMAIN queue' : Head(queue).at <= queue'[i].at
      BY <1>0, <2>2, <3>1 DEF LineOK
    <3> QED
      BY <2>2, <3>2, ElementsAre
  <2>6. ToSet(buffer') \cup ToSet(queue') = Waiting
    BY <2>2, <2>3 DEF Waiting
  <2>7. \A b \in ToSet(buffer'), e \in ToSet(queue') : b.at <= e.at
    BY <1>0, <2>2, <2>3, <2>5 DEF LineOK
  <2> QED
    <3>1. Len(queue') <= QueueCap
      BY <1>2, <2>2, MetricsAssumption
    <3>2. recorder' \in {"loop", "flushing"} /\ recorder' # "flushing"
      BY <2>1
    <3> QED
      BY <1>3, <2>1, <2>2, <2>3, <2>4, <2>6, <2>7, <3>1, <3>2
<1>5. CASE Drain
  <2>1. /\ buffer' = buffer \o queue /\ queue' = <<>> /\ recorder' = "flushing"
        /\ UNCHANGED <<clock, accepted, inbox, handling, chatLogs, dbVars, fillVars, faults>>
    BY <1>5 DEF Drain
  <2>2. buffer' \in Seq(Event) /\ ToSet(buffer') = Waiting
    BY <1>2, <2>1, ConcatIs DEF Waiting
  <2>3. queue' \in Seq(Event) /\ ToSet(queue') = {} /\ DOMAIN queue' = {} /\ Len(queue') <= QueueCap
    <3>1. Len(queue') = 0 /\ queue' \in Seq(Event) /\ ToSet(queue') = {} /\ DOMAIN queue' = {}
      BY <2>1 DEF ToSet
    <3> QED
      BY <3>1, MetricsAssumption
  <2> QED
    BY <1>3, <2>1, <2>2, <2>3
<1> QED
  BY <1>4, <1>5

------------------------------------------------------------------------------
(* More rows, of arrivals or of events that do not come before those that   *)
(* are there, leave true what the rollups say.                              *)
LEMMA MoreRows ==
  ASSUME TypeOK, TypeOK', LineOK, FillOK, FillOK', RollupOK, UNCHANGED <<clock, rollup>>, rows \subseteq rows',
         \A row \in rows' \ rows :
           \/ row.event.name = "message_received"
           \/ \A old \in rows : old.by = "recorder" => old.event.at <= row.event.at
  PROVE  RollupOK'
<1>1. ASSUME NEW d \in Days, Complete(d, clock) PROVE rollup'.received[d] <= Rebuilt'.received[d]
  <2>1. Arrivals(d) \subseteq Arrivals(d)'
    BY DEF Arrivals
  <2>2. Arrivals(d)' \in SUBSET rows' /\ IsFiniteSet(rows')
    BY DEF Arrivals, FillOK
  <2>3. IsFiniteSet(Arrivals(d)') /\ Cardinality(Arrivals(d)') \in Nat
    BY <2>2, FS_Subset, FS_CardinalityType
  <2>4. Cardinality(Arrivals(d)) <= Cardinality(Arrivals(d)') /\ Cardinality(Arrivals(d)) \in Nat
    BY <2>1, <2>3, FS_Subset, FS_CardinalityType
  <2>5. rollup.received[d] <= Cardinality(Arrivals(d)) /\ rollup'.received[d] \in Nat
    BY <1>1, RebuiltIs DEF RollupOK, TypeOK
  <2> QED
    BY <2>3, <2>4, <2>5, RebuiltIsNext
<1>2. ASSUME NEW pair \in rollup.retained, Complete(pair[1], clock)
      PROVE  /\ FirstActive(pair[1])' /\ pair[1] <= pair[2]
             /\ \E e \in Named("retention_return")' : Day[e.at] = pair[2]
  <2>1. /\ FirstActive(pair[1]) /\ pair[1] <= pair[2]
        /\ \E e \in Named("retention_return") : Day[e.at] = pair[2]
    BY <1>2 DEF RollupOK
  <2>2. \A name : Named(name) \subseteq Named(name)'
    BY DEF Named
  <2>3. PICK first \in rows : first.event.name = "activation" /\ Day[first.event.at] = pair[1]
    BY <2>1 DEF FirstActive, Named
  <2>4. first.by = "recorder"
    BY <2>3, RowTypes DEF FillOK
  <2>5. \A row \in rows' : row.event.name = "activation" => Day[row.event.at] >= pair[1]
    <3> SUFFICES ASSUME NEW row \in rows', row.event.name = "activation" PROVE Day[row.event.at] >= pair[1]
      OBVIOUS
    <3>1. CASE row \in rows
      BY <2>1, <3>1 DEF FirstActive, Named
    <3>2. CASE row \notin rows
      <4>1. first.event.at <= row.event.at
        BY <2>3, <2>4, <3>2
      <4>2. first.event.at \in Ticks /\ row.event.at \in Ticks
        BY <2>3, RowTypes DEF TypeOK, Row, Event
      <4>3. Day[first.event.at] <= Day[row.event.at]
        BY <4>1, <4>2, DaysAre
      <4> QED
        BY <2>3, <4>2, <4>3, DaysAre
    <3> QED
      BY <3>1, <3>2
  <2>6. FirstActive(pair[1])'
    BY <2>1, <2>2, <2>5 DEF FirstActive, Named
  <2> QED
    BY <2>1, <2>2, <2>6
<1>3. \A d : Complete(d, clock)' <=> Complete(d, clock)
  BY DEF Complete
<1> QED
  BY <1>1, <1>2, <1>3 DEF RollupOK

LEMMA InsertKeeps ==
  ASSUME IInv, Flush \/ FlushForRollup \/ LastFlush
  PROVE  IInv'
<1> USE DEF fillVars
<1>0. TypeOK /\ LineOK /\ FillOK /\ RollupOK /\ EventsReachTheTable /\ DuplicatesNeedOverlap
  BY DEF IInv
<1>1. PICK next \in {"loop", "rebuild", "lastRebuild"} :
        InsertEvents(next) /\ (next = "lastRebuild" => recorder = "flushing") /\ recorder \in {"loop", "flushing"}
                           /\ (next # "lastRebuild" => recorder = "loop")
  BY DEF Flush, FlushForRollup, LastFlush
<1>2. /\ buffer' = <<>> /\ recorder' = next
      /\ UNCHANGED <<clock, inbox, handling, queue, chatLogs, rollup, fillVars>>
  BY <1>1 DEF InsertEvents
<1>3. Waiting = ToSet(buffer) \cup Waiting' /\ Waiting' = ToSet(queue) /\ ToSet(buffer') = {} /\ buffer' \in Seq(Event)
  BY <1>2 DEF Waiting, ToSet
<1>b. buffer \in Seq(Event) /\ ToSet(buffer) \subseteq Event /\ IsFiniteSet(ToSet(buffer))
  BY <1>0, ElementsAre, ElementsFinite DEF LineOK
<1>c. clock \in Ticks /\ Ticks \subseteq Nat
  BY <1>0, RowTypes
<1>4. CASE /\ rows' = rows \cup {[event |-> e, by |-> "recorder"] : e \in ToSet(buffer)}
           /\ UNCHANGED <<accepted, faults>>
  <2>1. Stored' = Stored \cup ToSet(buffer) /\ rows \subseteq rows'
    <3> DEFINE new == {[event |-> e, by |-> "recorder"] : e \in ToSet(buffer)}
    <3>1. {row.event : row \in new} = ToSet(buffer)
      <4>1. \A row \in new : row.event \in ToSet(buffer)
        OBVIOUS
      <4>2. ASSUME NEW e \in ToSet(buffer) PROVE \E row \in new : row.event = e
        <5>1. [event |-> e, by |-> "recorder"] \in new
          OBVIOUS
        <5>2. [event |-> e, by |-> "recorder"].event = e
          OBVIOUS
        <5> HIDE DEF new
        <5> QED
          BY <5>1, <5>2
      <4> HIDE DEF new
      <4> QED
        BY <4>1, <4>2
    <3>2. rows' = rows \cup new
      BY <1>4
    <3> HIDE DEF new
    <3> QED
      BY <3>1, <3>2 DEF Stored
  <2>2. \A row \in rows' \ rows : row.event \in ToSet(buffer) /\ row.by = "recorder" /\ row \in Row
    BY <1>4, <1>b DEF Row
  <2>3. TypeOK'
    BY <1>0, <1>2, <1>3, <1>4, <2>2 DEF TypeOK
  <2>4. LineOK'
    <3>1. \A row \in rows' : row.by = "recorder" =>
            row.event.at <= clock /\ \A e \in Waiting' : row.event.at <= e.at
      BY <1>0, <1>3, <2>2 DEF LineOK, Waiting
    <3>2. ~Running' => \A e \in accepted : e \in Stored' \/ e.at < clock - RawRetention
      BY <1>0, <1>1, <1>2, <2>1 DEF LineOK, Running
    <3>3. ToSet(buffer') \cup Stored' = Stored'
      BY <1>3
    <3> QED
      BY <1>0, <1>2, <1>3, <1>4, <3>1, <3>2, <3>3 DEF LineOK
  <2>5. FillOK'
    <3>1. IsFiniteSet(rows')
      BY <1>0, <1>4, <1>b, RowsFinite, FS_Union DEF FillOK
    <3>2. \A row \in rows' : row.by = "backfill" => row \in rows
      BY <2>2
    <3>3. \A request : OnItsWay(request)' => OnItsWay(request)
      BY <1>2, <1>3, OnTheirWay
    <3> QED
      BY <1>0, <1>2, <3>1, <3>2, <3>3 DEF FillOK
  <2>6. RollupOK'
    <3>1. \A row \in rows' \ rows, old \in rows : old.by = "recorder" => old.event.at <= row.event.at
      BY <1>0, <1>3, <2>2 DEF LineOK
    <3> QED
      BY <1>0, <1>2, <2>1, <2>3, <2>5, <3>1, MoreRows
  <2>7. EventsReachTheTable'
    BY <1>0, <1>2, <1>3, <1>4, <2>1 DEF EventsReachTheTable
  <2>8. DuplicatesNeedOverlap'
    <3>1. ASSUME NEW x \in rows', NEW y \in rows', x.by # y.by, x.event.request = y.event.request,
                 x.event.name = y.event.name, x \notin rows
          PROVE  x.event.request \in overlap
      <4>1. x.event \in Waiting /\ y.by = "backfill" /\ y \in rows
        BY <1>0, <1>3, <2>2, <2>3, <3>1, RowTypes DEF TypeOK, Row
      <4>2. x.event = Arrival(y.event.request, x.event.at) /\ x.event.at \in Ticks
        BY <1>0, <3>1, <4>1, RowTypes DEF FillOK, Arrival, Event
      <4>3. OnItsWay(y.event.request)
        BY <4>1, <4>2, OnTheirWay
      <4> QED
        BY <1>0, <3>1, <4>1, <4>3 DEF FillOK
    <3> QED
      BY <1>0, <1>2, <3>1 DEF DuplicatesNeedOverlap
  <2> QED
    BY <2>3, <2>4, <2>5, <2>6, <2>7, <2>8 DEF IInv
<1>5. CASE Fault /\ accepted' = accepted \ ToSet(buffer) /\ UNCHANGED rows
  <2>1. RollupOK' /\ DuplicatesNeedOverlap' /\ Stored' = Stored
    BY <1>0, <1>2, <1>5, TablesStay
  <2>2. faults' \in 0 .. MaxFaults
    BY <1>0, <1>5, MetricsAssumption DEF Fault, TypeOK
  <2>3. TypeOK'
    BY <1>0, <1>2, <1>3, <1>5, <2>2 DEF TypeOK
  <2>4. EventsReachTheTable'
    BY <1>0, <1>2, <1>3, <1>5, <2>1 DEF EventsReachTheTable
  <2>5. ~Running' => \A e \in accepted' : e \in Stored \/ e.at < clock - RawRetention
    BY <1>0, <1>1, <1>2, <1>5 DEF LineOK, Running
  <2>6. LineOK'
    BY <1>0, <1>2, <1>3, <1>5, <2>1, <2>5 DEF LineOK
  <2>7. FillOK'
    BY <1>0, <1>2, <1>3, <1>5, OnTheirWay DEF FillOK
  <2> QED
    BY <2>1, <2>3, <2>4, <2>6, <2>7 DEF IInv
<1> QED
  BY <1>1, <1>4, <1>5 DEF InsertEvents

(* Rebuilding and purging the rollups.                                      *)
LEMMA RebuildKeeps ==
  ASSUME IInv, RebuildRollups \/ BackfillRebuilds
  PROVE  IInv'
<1>0. TypeOK /\ LineOK /\ FillOK /\ RollupOK /\ EventsReachTheTable /\ DuplicatesNeedOverlap
  BY DEF IInv
<1>1. /\ UNCHANGED <<clock, accepted, inbox, handling, queue, buffer, chatLogs, rows, fetched, overlap>>
      /\ rollup' \in {rollup, Rebuilt} /\ (faults' = faults \/ Fault)
  BY DEF RebuildRollups, BackfillRebuilds, recVars, fillVars
<1>2. \/ recorder' = recorder /\ backfill' = "done"
      \/ /\ recorder \in {"rebuild", "lastRebuild"} /\ backfill' = backfill
         /\ recorder' = IF recorder = "rebuild" THEN "cleanup" ELSE "lastCleanup"
  BY DEF RebuildRollups, BackfillRebuilds, recVars, fillVars
<1>3. Rebuilt.received \in [Days -> Nat] /\ \A d \in Days : Rebuilt.received[d] \in Nat
  <2>1. \A d \in Days : Rebuilt.received[d] \in Nat
    BY <1>0, RebuiltIs, ArrivalsFinite DEF FillOK
  <2> QED
    BY <2>1 DEF Rebuilt
<1>4. ASSUME NEW pair \in Rebuilt.retained
      PROVE  /\ pair \in Days \X Days /\ FirstActive(pair[1]) /\ pair[1] <= pair[2]
             /\ \E e \in Named("retention_return") : Day[e.at] = pair[2]
  <2>1. PICK e \in Returns : pair = <<Cohort, Day[e.at]>>
    BY RebuiltIs
  <2>2. Named("activation") # {}
    BY RebuiltIs
  <2>3. e \in Named("retention_return") /\ Day[e.at] >= Cohort /\ Day[e.at] \in Days
    BY <1>0, RowTypes, DaysAre DEF Returns
  <2>4. Cohort \in Days /\ FirstActive(Cohort) /\ Days \subseteq Nat
    BY <1>0, <2>2, CohortIs, DaysAre
  <2> QED
    BY <2>1, <2>3, <2>4
<1>5. rollup'.received \in [Days -> Nat] /\ rollup'.retained \subseteq Days \X Days
  BY <1>0, <1>1, <1>3, <1>4 DEF TypeOK
<1>6. TypeOK'
  <2>1. faults' \in 0 .. MaxFaults
    BY <1>0, <1>1, MetricsAssumption DEF Fault, TypeOK
  <2> QED
    BY <1>0, <1>1, <1>2, <1>5, <2>1 DEF TypeOK
<1>7. Stored' = Stored /\ Waiting' = Waiting /\ (Running' <=> Running)
      /\ (recorder' \notin {"loop", "flushing"} <=> recorder \notin {"loop", "flushing"})
  BY <1>1, <1>2 DEF Stored, Waiting, Running
<1>8. LineOK'
  BY <1>0, <1>1, <1>7 DEF LineOK
<1>9. FillOK' /\ EventsReachTheTable' /\ DuplicatesNeedOverlap'
  BY <1>0, <1>1, <1>7 DEF FillOK, EventsReachTheTable, DuplicatesNeedOverlap, OnItsWay
<1>10. RollupOK'
  <2>1. /\ \A d \in Days : Complete(d, clock) => rollup'.received[d] <= Rebuilt.received[d]
        /\ \A pair \in rollup'.retained : Complete(pair[1], clock) =>
             /\ FirstActive(pair[1]) /\ pair[1] <= pair[2]
             /\ \E e \in Named("retention_return") : Day[e.at] = pair[2]
    BY <1>0, <1>1, <1>3, <1>4 DEF RollupOK
  <2>2. Rebuilt' = Rebuilt /\ (\A d : (FirstActive(d)' <=> FirstActive(d)) /\ (Complete(d, clock)' <=> Complete(d, clock)))
        /\ Named("retention_return")' = Named("retention_return")
    BY <1>1 DEF Rebuilt, Cohort, Named, FirstActive, Complete
  <2> QED
    BY <1>1, <2>1, <2>2 DEF RollupOK
<1> QED
  BY <1>6, <1>8, <1>9, <1>10 DEF IInv

LEMMA CleanupKeeps ==
  ASSUME IInv, Cleanup
  PROVE  IInv'
<1> USE DEF dbVars, fillVars
<1>0. TypeOK /\ LineOK /\ FillOK /\ RollupOK /\ EventsReachTheTable /\ DuplicatesNeedOverlap
  BY DEF IInv
<1>c. clock \in Ticks /\ Ticks \subseteq Nat /\ RawRetention \in Nat /\ DailyRetention \in Nat
  BY <1>0, RowTypes, MetricsAssumption
<1>1. /\ UNCHANGED <<clock, accepted, inbox, handling, queue, buffer, chatLogs, fillVars>>
      /\ recorder \in {"cleanup", "lastCleanup"}
      /\ recorder' = IF recorder = "cleanup" THEN "loop" ELSE "ended"
  BY DEF Cleanup
<1>2. /\ rows' \subseteq rows
      /\ \A row \in rows : row.event.at >= clock - RawRetention => row \in rows'
      /\ rollup'.received \in [Days -> Nat] /\ rollup'.retained \subseteq rollup.retained
      /\ \A d \in Days : rollup'.received[d] <= rollup.received[d]
      /\ faults' = faults \/ Fault
  <2>1. CASE Fault /\ UNCHANGED dbVars
    BY <1>0, <2>1 DEF TypeOK
  <2>2. CASE /\ UNCHANGED faults
             /\ rows' = {row \in rows : row.event.at \in Kept(RawRetention)}
             /\ rollup' = [received |-> [d \in Days |-> IF d \in KeptDays(DailyRetention) THEN rollup.received[d] ELSE 0],
                           retained |-> {pair \in rollup.retained : pair[2] \in KeptDays(DailyRetention)}]
    <3>1. \A row \in rows : row.event.at >= clock - RawRetention => row \in rows'
      BY <1>0, <2>2, RowTypes DEF Kept
    <3>2. \A d \in Days : rollup.received[d] \in Nat
      BY <1>0 DEF TypeOK
    <3> QED
      BY <2>2, <3>1, <3>2
  <2> QED
    BY <2>1, <2>2 DEF Cleanup
<1>3. Waiting' = Waiting /\ Stored' \subseteq Stored /\ ToSet(buffer) = {}
      /\ \A e \in Stored : e \in Stored' \/ e.at < clock - RawRetention
  <2>1. buffer = <<>>
    BY <1>0, <1>1 DEF LineOK
  <2>2. Waiting' = Waiting /\ Stored' \subseteq Stored
    BY <1>1, <1>2 DEF Waiting, Stored
  <2>3. \A row \in rows : row.event.at >= clock - RawRetention \/ row.event.at < clock - RawRetention
    BY <1>0, <1>c, RowTypes
  <2>4. \A e \in Stored : e \in Stored' \/ e.at < clock - RawRetention
    BY <1>2, <2>3 DEF Stored
  <2> QED
    BY <2>1, <2>2, <2>4 DEF ToSet
<1>4. TypeOK'
  <2>1. faults' \in 0 .. MaxFaults
    BY <1>0, <1>2, MetricsAssumption DEF Fault, TypeOK
  <2> QED
    BY <1>0, <1>1, <1>2, <2>1 DEF TypeOK
<1>5. LineOK'
  <2>1. recorder' \notin {"loop", "flushing"} => buffer' = <<>>
    BY <1>0, <1>1 DEF LineOK
  <2>2. ~Running' => \A e \in accepted : e \in ToSet(buffer') \cup Stored' \/ e.at < clock - RawRetention
    BY <1>0, <1>1, <1>3 DEF LineOK, Running
  <2>3. ToSet(buffer') = ToSet(buffer) /\ ToSet(queue') = ToSet(queue)
    BY <1>1
  <2> QED
    BY <1>0, <1>1, <1>2, <1>3, <2>1, <2>2, <2>3 DEF LineOK
<1>6. FillOK'
  <2>1. IsFiniteSet(rows')
    BY <1>0, <1>2, FS_Subset DEF FillOK
  <2> QED
    BY <1>0, <1>1, <1>2, <1>3, <2>1, OnTheirWay DEF FillOK
<1>7. EventsReachTheTable' /\ DuplicatesNeedOverlap'
  BY <1>0, <1>1, <1>2, <1>3 DEF EventsReachTheTable, DuplicatesNeedOverlap
<1>8. RollupOK'
  <2>1. ASSUME NEW d \in Days, Complete(d, clock) PROVE rollup'.received[d] <= Rebuilt'.received[d]
    <3>1. Arrivals(d)' = Arrivals(d)
      <4>1. \A row \in Arrivals(d) : row \in rows /\ row.event.at >= clock - RawRetention
        BY <1>0, <2>1, RowTypes DEF Arrivals, Complete
      <4> QED
        BY <1>2, <4>1 DEF Arrivals
    <3>2. rollup.received[d] <= Cardinality(Arrivals(d)) /\ Cardinality(Arrivals(d)) \in Nat
      BY <1>0, <2>1, RebuiltIs, ArrivalsFinite DEF RollupOK, FillOK
    <3>3. rollup'.received[d] <= rollup.received[d] /\ rollup'.received[d] \in Nat /\ rollup.received[d] \in Nat
      BY <1>0, <1>2 DEF TypeOK
    <3> QED
      BY <3>1, <3>2, <3>3, RebuiltIsNext
  <2>2. ASSUME NEW pair \in rollup'.retained, Complete(pair[1], clock)
        PROVE  /\ FirstActive(pair[1])' /\ pair[1] <= pair[2]
               /\ \E e \in Named("retention_return")' : Day[e.at] = pair[2]
    <3>1. /\ FirstActive(pair[1]) /\ pair[1] <= pair[2] /\ pair[1] \in Days
          /\ \E e \in Named("retention_return") : Day[e.at] = pair[2]
      BY <1>0, <1>2, <2>2 DEF RollupOK, TypeOK
    <3>2. \A name : Named(name)' \subseteq Named(name)
      BY <1>2 DEF Named
    <3>3. ASSUME NEW name, NEW e \in Named(name), Day[e.at] >= pair[1] PROVE e \in Named(name)'
      <4>1. e.at \in Ticks /\ Day[e.at] \in Nat /\ pair[1] \in Nat
        BY <1>0, <3>1, RowTypes, DaysAre
      <4>2. PICK t \in Ticks : Day[t] = pair[1] /\ t >= clock - RawRetention
        BY <2>2, <3>1, DaysAre DEF Days, Complete
      <4>3. t \in Nat /\ e.at \in Nat /\ clock \in Nat /\ RawRetention \in Nat /\ t >= clock - RawRetention
        BY <1>c, <4>1, <4>2
      <4>4. ASSUME e.at >= t PROVE e.at >= clock - RawRetention
        BY <4>3, <4>4
      <4>5. ASSUME e.at < t PROVE e.at >= clock - RawRetention
        <5>1. Day[e.at] <= Day[t]
          BY <4>1, <4>2, <4>3, <4>5, DaysAre
        <5>2. Day[e.at] = pair[1]
          BY <3>3, <4>1, <4>2, <5>1
        <5> QED
          BY <2>2, <4>1, <5>2 DEF Complete
      <4>6. e.at >= clock - RawRetention
        BY <4>3, <4>4, <4>5
      <4> QED
        BY <1>2, <4>6 DEF Named
    <3>4. PICK e \in Named("retention_return") : Day[e.at] = pair[2]
      BY <3>1
    <3>5. e \in Named("retention_return")'
      BY <3>1, <3>3, <3>4
    <3>6. \E f \in Named("activation")' : Day[f.at] = pair[1]
      <4>1. PICK f \in Named("activation") : Day[f.at] = pair[1]
        BY <3>1 DEF FirstActive
      <4>2. Day[f.at] >= pair[1]
        <5>1. pair[1] \in Nat
          BY <3>1, DaysAre
        <5> QED
          BY <4>1, <5>1
      <4> QED
        BY <3>3, <4>1, <4>2
    <3> QED
      BY <3>1, <3>2, <3>4, <3>5, <3>6 DEF FirstActive
  <2>3. \A d : Complete(d, clock)' <=> Complete(d, clock)
    BY <1>1 DEF Complete
  <2> QED
    BY <1>1, <2>1, <2>2, <2>3 DEF RollupOK
<1> QED
  BY <1>4, <1>5, <1>6, <1>7, <1>8 DEF IInv

------------------------------------------------------------------------------
(* The process ends: in order, then nothing that counts is in its memory,   *)
(* or by a crash.                                                           *)
LEMMA StopKeeps ==
  ASSUME IInv, Stop
  PROVE  IInv'
<1> USE DEF dbVars, fillVars
<1>0. TypeOK /\ LineOK /\ FillOK /\ RollupOK /\ EventsReachTheTable /\ DuplicatesNeedOverlap
  BY DEF IInv
<1>1. /\ recorder' = "down" /\ queue' = <<>> /\ buffer' = <<>> /\ inbox' = {} /\ handling' = {}
      /\ UNCHANGED <<clock, chatLogs, dbVars, fillVars>>
      /\ \/ recorder = "ended" /\ UNCHANGED <<accepted, faults>>
         \/ Fault /\ accepted' = accepted \ Waiting
  BY DEF Stop
<1>2. RollupOK' /\ DuplicatesNeedOverlap' /\ Stored' = Stored
  BY <1>0, <1>1, TablesStay
<1>3. /\ Waiting' = {} /\ ToSet(buffer') = {} /\ ToSet(queue') = {} /\ DOMAIN queue' = {}
      /\ buffer' \in Seq(Event) /\ queue' \in Seq(Event) /\ Len(queue') = 0
  BY <1>1 DEF Waiting, ToSet
<1>4. queue' \in BoundedSeq(Event, QueueCap)
  <2>1. Len(queue') <= QueueCap /\ QueueCap \in Nat
    BY <1>3, MetricsAssumption
  <2> QED
    BY <1>3, <2>1, BoundedSeqIs
<1>5. accepted' \subseteq accepted
      /\ \A e \in accepted' : e \in Stored \/ e.at < clock - RawRetention
  <2>1. CASE recorder = "ended" /\ UNCHANGED <<accepted, faults>>
    <3>1. buffer = <<>> /\ ToSet(buffer) = {} /\ ~Running
      BY <1>0, <2>1 DEF LineOK, Running, ToSet
    <3> QED
      BY <1>0, <2>1, <3>1 DEF LineOK
  <2>2. CASE Fault /\ accepted' = accepted \ Waiting
    BY <1>0, <2>2 DEF EventsReachTheTable
  <2> QED
    BY <1>1, <2>1, <2>2
<1>6. TypeOK'
  <2>1. faults' \in 0 .. MaxFaults
    BY <1>0, <1>1, MetricsAssumption DEF Fault, TypeOK
  <2> QED
    BY <1>0, <1>1, <1>3, <1>4, <1>5, <2>1 DEF TypeOK
<1>7. LineOK' /\ FillOK' /\ EventsReachTheTable'
  BY <1>0, <1>1, <1>2, <1>3, <1>5, OnTheirWay DEF LineOK, FillOK, EventsReachTheTable
<1> QED
  BY <1>2, <1>6, <1>7 DEF IInv

(* Backfill reads the chat database, and inserts what the table has not.    *)
LEMMA FillKeeps ==
  ASSUME IInv, QueryMessageRows \/ InsertEventsIfAbsent
  PROVE  IInv'
<1> USE DEF dbVars, recVars
<1>0. TypeOK /\ LineOK /\ FillOK /\ RollupOK /\ EventsReachTheTable /\ DuplicatesNeedOverlap
  BY DEF IInv
<1>s. chatLogs \in Seq(Ticks) /\ Len(chatLogs) <= MaxRequests /\ DOMAIN chatLogs = 1 .. Len(chatLogs)
      /\ DOMAIN chatLogs \subseteq Requests
  <2>1. chatLogs \in Seq(Ticks) /\ Len(chatLogs) <= MaxRequests
    BY <1>0, BoundedSeqIs, MetricsAssumption DEF TypeOK
  <2> QED
    BY <2>1, ElementsAre, MetricsAssumption DEF Requests
<1>1. CASE QueryMessageRows
  <2>1. /\ backfill' = "insert" /\ fetched' = DOMAIN chatLogs
        /\ UNCHANGED <<clock, recVars, chatLogs, dbVars, overlap, faults>>
    BY <1>1 DEF QueryMessageRows
  <2>2. RollupOK' /\ DuplicatesNeedOverlap' /\ Stored' = Stored
    BY <1>0, <2>1, TablesStay
  <2>3. TypeOK'
    BY <1>0, <1>s, <2>1 DEF TypeOK
  <2>4. LineOK' /\ FillOK' /\ EventsReachTheTable'
    BY <1>0, <2>1, <2>2 DEF LineOK, FillOK, EventsReachTheTable, OnItsWay, Waiting, Running
  <2> QED
    BY <2>2, <2>3, <2>4 DEF IInv
<1>2. CASE InsertEventsIfAbsent
  <2> DEFINE received == {Arrival(r, chatLogs[r]) : r \in fetched}
             new == {e \in received : Absent(e)}
  <2>1. /\ rows' = rows \cup {[event |-> e, by |-> "backfill"] : e \in new}
        /\ overlap' = overlap \cup {r \in {e.request : e \in new} : OnItsWay(r)}
        /\ backfill' \in {"done", "rebuild"} /\ fetched' = {}
        /\ UNCHANGED <<clock, recVars, chatLogs, rollup, faults>>
    BY <1>2 DEF InsertEventsIfAbsent
  <2>2. \A r \in fetched : LET e == Arrival(r, chatLogs[r])
                           IN  e \in Event /\ e.name = "message_received" /\ e.request = r /\ r \in DOMAIN chatLogs
    BY <1>0, <1>s DEF FillOK, Arrival, Event, Names
  <2>3. new \subseteq received
        /\ (\A e \in new, stored \in Stored : ~(stored.request = e.request /\ stored.name = e.name))
        /\ \A e \in received : e \in Event /\ e.name = "message_received" /\ e.request \in DOMAIN chatLogs
    BY <2>2 DEF Absent
  <2>4. IsFiniteSet(received)
    <3>1. IsFiniteSet(fetched)
      <4>1. IsFiniteSet(1 .. MaxRequests)
        BY FS_Interval, MetricsAssumption
      <4> QED
        BY <1>0, <4>1, FS_Subset DEF TypeOK, Requests
    <3>2. [r \in fetched |-> Arrival(r, chatLogs[r])] \in Surjection(fetched, received)
      BY DEF Surjection
    <3> QED
      BY <3>1, <3>2, FS_Surjection
  <2>5. IsFiniteSet(new)
    BY <2>3, <2>4, FS_Subset
  <2> HIDE DEF new, received
  <2>6. \A row \in rows' \ rows : row.event \in new /\ row.by = "backfill" /\ row \in Row
    BY <2>1, <2>3 DEF Row
  <2>7. rows \subseteq rows' /\ Stored \subseteq Stored' /\ Waiting' = Waiting /\ (Running' <=> Running)
    BY <2>1 DEF Stored, Waiting, Running
  <2>8. TypeOK'
    <3>1. {r \in {e.request : e \in new} : OnItsWay(r)} \subseteq Requests
      BY <1>s, <2>3
    <3> QED
      BY <1>0, <2>1, <2>6, <3>1 DEF TypeOK
  <2>9. LineOK'
    <3>1. \A row \in rows' : row.by = "recorder" => row \in rows
      BY <2>6
    <3>2. ~Running => \A e \in accepted : e \in ToSet(buffer) \cup Stored' \/ e.at < clock - RawRetention
      BY <1>0, <2>7 DEF LineOK
    <3> QED
      BY <1>0, <2>1, <2>7, <3>1, <3>2 DEF LineOK
  <2>10. FillOK'
    <3>1. IsFiniteSet(rows')
      BY <1>0, <2>1, <2>5, RowsFinite, FS_Union DEF FillOK
    <3>2. \A row \in rows' : row.by = "backfill" =>
            row.event.name = "message_received" /\ row.event.request \in DOMAIN chatLogs
      BY <1>0, <2>3, <2>6 DEF FillOK
    <3>3. ASSUME NEW row \in rows', row.by = "backfill", OnItsWay(row.event.request)'
          PROVE  row.event.request \in overlap'
      <4>0. OnItsWay(row.event.request)
        BY <2>1, <2>7, <3>3 DEF OnItsWay
      <4>1. CASE row \in rows
        BY <1>0, <2>1, <3>3, <4>0, <4>1 DEF FillOK
      <4>2. CASE row \notin rows
        BY <2>1, <2>6, <4>0, <4>2
      <4> QED
        BY <4>1, <4>2
    <3> QED
      BY <2>1, <2>7, <3>1, <3>2, <3>3 DEF FillOK
  <2>11. RollupOK'
    <3>1. \A row \in rows' \ rows : row.event.name = "message_received"
      BY <2>3, <2>6
    <3> QED
      BY <1>0, <2>1, <2>7, <2>8, <2>10, <3>1, MoreRows
  <2>12. EventsReachTheTable'
    BY <1>0, <2>1, <2>7 DEF EventsReachTheTable
  <2>13. DuplicatesNeedOverlap'
    <3>1. \A row \in rows' : row \notin rows =>
            /\ row.by = "backfill"
            /\ \A stored \in Stored : ~(stored.request = row.event.request /\ stored.name = row.event.name)
      BY <2>3, <2>6
    <3>2. \A row \in rows : row.event \in Stored
      BY DEF Stored
    <3> QED
      BY <1>0, <2>1, <3>1, <3>2 DEF DuplicatesNeedOverlap
  <2> QED
    BY <2>8, <2>9, <2>10, <2>11, <2>12, <2>13 DEF IInv
<1> QED
  BY <1>1, <1>2

LEMMA TickKeeps ==
  ASSUME IInv, Tick, faults' \in 0 .. MaxFaults
  PROVE  IInv'
<1> USE DEF dbVars, recVars, fillVars
<1>0. TypeOK /\ LineOK /\ FillOK /\ RollupOK /\ EventsReachTheTable /\ DuplicatesNeedOverlap
  BY DEF IInv
<1>1. /\ clock' = clock + 1 /\ UNCHANGED <<recVars, chatLogs, dbVars, fillVars>>
      /\ clock < MaxTick
  BY DEF Tick
<1>c. clock \in Nat /\ clock' \in Ticks /\ RawRetention \in Nat /\ Ticks \subseteq Nat
  BY <1>0, <1>1, RowTypes, MetricsAssumption DEF Ticks
<1>2. Waiting' = Waiting /\ Stored' = Stored /\ (Running' <=> Running)
  BY <1>1 DEF Waiting, Stored, Running
<1>3. \A n \in Nat : /\ n < clock - RawRetention => n < clock' - RawRetention
                     /\ n >= clock' - RawRetention => n >= clock - RawRetention
                     /\ n <= clock => n <= clock'
  BY <1>1, <1>c
<1>4. TypeOK'
  BY <1>0, <1>1, <1>c DEF TypeOK
<1>5. (\A e \in accepted : e.at \in Nat) /\ (\A e \in Waiting : e.at \in Nat) /\ (\A row \in rows : row.event.at \in Nat)
  BY <1>0, RowTypes DEF TypeOK
<1>6. LineOK' /\ EventsReachTheTable'
  BY <1>0, <1>1, <1>2, <1>3, <1>5 DEF LineOK, EventsReachTheTable
<1>7. FillOK' /\ DuplicatesNeedOverlap'
  BY <1>0, <1>1, <1>2 DEF FillOK, DuplicatesNeedOverlap, OnItsWay
<1>8. RollupOK'
  <2>1. Rebuilt' = Rebuilt /\ (\A d : FirstActive(d)' <=> FirstActive(d))
        /\ Named("retention_return")' = Named("retention_return") /\ rollup' = rollup
    BY <1>1 DEF Rebuilt, Cohort, Named, FirstActive
  <2>2. \A d : Complete(d, clock') => Complete(d, clock)
    BY <1>3, <1>c DEF Complete
  <2>3. \A d : Complete(d, clock)' <=> Complete(d, clock')
    BY DEF Complete
  <2> QED
    BY <1>0, <2>1, <2>2, <2>3 DEF RollupOK
<1> QED
  BY <1>4, <1>6, <1>7, <1>8 DEF IInv

LEMMA WorkKeeps == IInv /\ Work => IInv'
BY HandlersKeep, BufferKeeps, InsertKeeps, RebuildKeeps, CleanupKeeps, StopKeeps, FillKeeps
DEF Work, Recorder, Backfill

------------------------------------------------------------------------------
(* What is accepted was recorded in this tick.                              *)
LEMMA AcceptedNow ==
  ASSUME Work
  PROVE  clock' = clock /\ \A e \in accepted' \ accepted : e.at = clock
<1>1. CASE Handlers
  <2>1. CASE Receive
    BY <2>1 DEF Receive, RecordEvent, Record
  <2>2. ASSUME NEW r \in Requests, Dispatch(r) \/ RecordOutcome(r)
        PROVE  clock' = clock /\ \A e \in accepted' \ accepted : e.at = clock
    <3>1. clock' = clock /\ \E name : RecordEvent(r, name)
      BY <2>2 DEF Dispatch, RecordOutcome
    <3> QED
      BY <3>1 DEF RecordEvent, Record
  <2> QED
    BY <1>1, <2>1, <2>2 DEF Handlers
<1>2. CASE Recorder
  BY <1>2 DEF Recorder, Take, Flush, FlushForRollup, Drain, LastFlush, InsertEvents, RebuildRollups, Cleanup
<1>3. CASE Stop \/ Backfill
  BY <1>3 DEF Stop, Backfill, QueryMessageRows, InsertEventsIfAbsent, BackfillRebuilds, recVars
<1> QED
  BY <1>1, <1>2, <1>3 DEF Work

LEMMA PollKeeps ==
  ASSUME AlertIInv, Tick, RunOnce \/ RunOnceFails
  PROVE  AlertTypeOK' /\ AlertOK' /\ faults' \in 0 .. MaxFaults
<1>0. TypeOK /\ EventsReachTheTable /\ AlertOK /\ lastAt \in Ticks \cup {-1} /\ attempts \subseteq Ticks
  BY DEF AlertIInv, IInv, AlertTypeOK
<1>c. /\ clock \in Ticks /\ Ticks \subseteq Nat /\ clock' = clock + 1 /\ accepted' = accepted
      /\ \A e \in Waiting : e.at = clock
      /\ RawRetention \in Nat \ {0} /\ CriticalWindow \in Nat \ {0, 1} /\ DedupWindow \in Nat \ {0}
  BY <1>0, RowTypes, MetricsAssumption, AlertdAssumption DEF Tick, recVars
<1>f. faults' \in 0 .. MaxFaults
  BY <1>0, MetricsAssumption DEF RunOnce, RunOnceFails, Fault, TypeOK
<1>1. /\ lastAt' \in {lastAt, clock} /\ attempts' \in {attempts, attempts \cup {clock}}
      /\ lastAt' # lastAt => clock \in attempts'
  BY DEF RunOnce, RunOnceFails, alertVars
<1>2. AlertTypeOK'
  <2>1. IInv'
    BY <1>f, TickKeeps DEF AlertIInv
  <2> QED
    BY <1>0, <1>1, <1>c, <2>1 DEF AlertTypeOK, IInv
<1>3. lastAt' # -1 => lastAt' \in attempts' /\ lastAt' <= clock'
  <2>1. lastAt # -1 => lastAt \in attempts /\ lastAt <= clock /\ lastAt \in Nat
    BY <1>0, <1>c DEF AlertOK
  <2> QED
    BY <1>1, <1>c, <2>1
<1>4. ASSUME NEW e \in accepted, e.name = "reply_failed", clock' > e.at + 1
      PROVE  \E t \in attempts' : t > e.at - DedupWindow /\ t <= e.at + 1
  <2>0. e \in Event /\ e.at \in Nat /\ clock \in Nat
    BY <1>0, <1>c, RowTypes DEF TypeOK
  <2>1. CASE clock > e.at + 1
    <3>1. PICK t \in attempts : t > e.at - DedupWindow /\ t <= e.at + 1
      BY <1>0, <1>4, <2>1 DEF AlertOK
    <3> QED
      BY <1>1, <3>1
  <2>2. CASE clock = e.at + 1
    <3>1. e \in Stored
      <4>1. e \notin Waiting /\ ~(e.at < clock - RawRetention)
        BY <1>c, <2>0, <2>2
      <4> QED
        BY <1>0, <4>1 DEF EventsReachTheTable
    <3>2. e \in Failures
      <4>1. InWindow(e)
        BY <1>c, <2>0, <2>2 DEF InWindow
      <4> QED
        BY <1>4, <3>1, <4>1 DEF Failures, Named, Stored
    <3>3. CASE clock \in attempts'
      <4>1. clock > e.at - DedupWindow /\ clock <= e.at + 1
        BY <1>c, <2>0, <2>2
      <4> QED
        BY <3>3, <4>1
    <3>4. CASE clock \notin attempts'
      <4>1. ~Allowed
        BY <3>2, <3>4 DEF RunOnce, RunOnceFails
      <4>2. lastAt \in attempts /\ lastAt \in Nat /\ lastAt <= clock /\ clock - lastAt < DedupWindow
        BY <1>0, <1>c, <2>0, <4>1 DEF Allowed, AlertOK
      <4>3. lastAt > e.at - DedupWindow /\ lastAt <= e.at + 1
        BY <1>c, <2>0, <2>2, <4>2
      <4> QED
        BY <1>1, <4>2, <4>3
    <3> QED
      BY <3>3, <3>4
  <2> QED
    BY <1>4, <1>c, <2>0, <2>1, <2>2
<1>5. AlertOK'
  BY <1>3, <1>4, <1>c DEF AlertOK
<1> QED
  BY <1>2, <1>5, <1>f

(* The invariant holds at first and every step keeps it.                    *)
THEOREM Inductive == AlertSpec => []AlertIInv
<1>1. AlertInit => AlertIInv
  <2> SUFFICES ASSUME AlertInit PROVE AlertIInv
    OBVIOUS
  <2>1. IInv
    BY InitHolds DEF AlertInit
  <2>2. AlertTypeOK /\ AlertOK
    BY <2>1 DEF AlertInit, Init, AlertTypeOK, AlertOK, IInv
  <2> QED
    BY <2>1, <2>2 DEF AlertIInv
<1>2. AlertIInv /\ [AlertNext]_<<vars, alertVars>> => AlertIInv'
  <2> SUFFICES ASSUME AlertIInv, [AlertNext]_<<vars, alertVars>> PROVE AlertIInv'
    OBVIOUS
  <2>1. CASE Tick /\ (RunOnce \/ RunOnceFails)
    BY <2>1, PollKeeps, TickKeeps DEF AlertIInv
  <2>2. CASE Work /\ UNCHANGED alertVars
    <3>1. IInv'
      BY <2>2, WorkKeeps DEF AlertIInv
    <3>2. AlertTypeOK'
      BY <2>2, <3>1 DEF AlertIInv, AlertTypeOK, IInv, alertVars
    <3>3. ASSUME NEW e \in accepted', e.name = "reply_failed", clock > e.at + 1
          PROVE  \E t \in attempts : t > e.at - DedupWindow /\ t <= e.at + 1
      <4>1. clock \in Nat
        BY RowTypes DEF AlertIInv, IInv
      <4>2. e \in accepted
        BY <2>2, <3>3, <4>1, AcceptedNow
      <4> QED
        BY <3>3, <4>2 DEF AlertIInv, AlertOK
    <3>4. clock' = clock /\ UNCHANGED <<lastAt, attempts>>
      BY <2>2, AcceptedNow DEF alertVars
    <3>5. AlertOK'
      BY <3>3, <3>4 DEF AlertIInv, AlertOK
    <3> QED
      BY <3>1, <3>2, <3>5 DEF AlertIInv
  <2>3. CASE UNCHANGED <<vars, alertVars>>
    <3> USE <2>3 DEF vars, recVars, dbVars, fillVars, alertVars, AlertIInv, IInv
    <3>1. TypeOK' /\ AlertTypeOK' /\ AlertOK'
      BY DEF TypeOK, AlertTypeOK, AlertOK
    <3>2. LineOK' /\ FillOK' /\ EventsReachTheTable'
      BY DEF LineOK, FillOK, EventsReachTheTable, OnItsWay, Waiting, Stored, Running
    <3>3. RollupOK' /\ DuplicatesNeedOverlap'
      BY TablesStay
    <3> QED
      BY <3>1, <3>2, <3>3
  <2> QED
    BY <2>1, <2>2, <2>3 DEF AlertNext
<1> QED
  BY <1>1, <1>2, PTL DEF AlertSpec

(* Types of the recorder, of backfill and of the alert daemon.              *)
THEOREM TypeCorrect == AlertSpec => []AlertTypeOK
<1>1. AlertIInv => AlertTypeOK
  BY DEF AlertIInv
<1> QED
  BY <1>1, Inductive, PTL

(* The end of the context loses no event that was queued before: the loop   *)
(* drains the queue, flushes and only then ends.                            *)
THEOREM AcceptedEventsAreKept == AlertSpec => []EventsReachTheTable
<1>1. AlertIInv => EventsReachTheTable
  BY DEF AlertIInv, IInv
<1> QED
  BY <1>1, Inductive, PTL

(* Backfill counts a message twice only where it overlapped the way of the  *)
(* message from the connection to the table.                                *)
THEOREM OnlyOverlapDuplicates == AlertSpec => []DuplicatesNeedOverlap
<1>1. AlertIInv => DuplicatesNeedOverlap
  BY DEF AlertIInv, IInv
<1> QED
  BY <1>1, Inductive, PTL

(* No failed reply slips by the alert daemon: the window of a poll reaches  *)
(* back far enough for what the recorder had not inserted at the last.      *)
THEOREM EveryFailureAlerted == AlertSpec => []FailuresAlerted
<1>1. AlertIInv => FailuresAlerted
  <2> SUFFICES ASSUME AlertIInv, NEW e \in accepted, e.name = "reply_failed", clock >= e.at + CriticalWindow
               PROVE  \E t \in attempts : t > e.at - DedupWindow /\ t < e.at + CriticalWindow
    BY DEF FailuresAlerted
  <2>0. e.at \in Nat /\ clock \in Nat /\ CriticalWindow \in Nat \ {0, 1} /\ attempts \subseteq Nat
        /\ DedupWindow \in Nat
    BY RowTypes, AlertdAssumption DEF AlertIInv, IInv, TypeOK, AlertTypeOK
  <2>1. clock > e.at + 1
    BY <2>0
  <2>2. PICK t \in attempts : t > e.at - DedupWindow /\ t <= e.at + 1
    BY <2>1 DEF AlertIInv, AlertOK
  <2> QED
    BY <2>0, <2>2
<1> QED
  BY <1>1, Inductive, PTL

------------------------------------------------------------------------------
(* Rebuilding finds at least what the rollups say of complete days.         *)
LEMMA RebuiltCovers ==
  ASSUME IInv
  PROVE  /\ \A d \in Days : Complete(d, clock) => Rebuilt.received[d] >= rollup.received[d]
         /\ \A pair \in rollup.retained : Complete(pair[1], clock) => pair \in Rebuilt.retained
<1>0. TypeOK /\ FillOK /\ RollupOK
  BY DEF IInv
<1>1. ASSUME NEW d \in Days, Complete(d, clock) PROVE Rebuilt.received[d] >= rollup.received[d]
  <2>1. Rebuilt.received[d] \in Nat /\ rollup.received[d] \in Nat
    BY <1>0, RebuiltIs, ArrivalsFinite DEF FillOK, TypeOK
  <2> QED
    BY <1>0, <1>1, <2>1 DEF RollupOK
<1>2. ASSUME NEW pair \in rollup.retained, Complete(pair[1], clock) PROVE pair \in Rebuilt.retained
  <2>1. FirstActive(pair[1]) /\ pair[1] <= pair[2] /\ pair[1] \in Days /\ pair = <<pair[1], pair[2]>>
    BY <1>0, <1>2 DEF RollupOK, TypeOK
  <2>2. PICK e \in Named("retention_return") : Day[e.at] = pair[2]
    BY <1>0, <1>2 DEF RollupOK
  <2>3. Named("activation") # {}
    BY <2>1 DEF FirstActive
  <2>4. Cohort = pair[1]
    BY <1>0, <2>1, <2>3, CohortIs
  <2>5. e \in Returns
    <3>1. Day[e.at] \in Nat /\ Cohort \in Nat
      BY <1>0, <2>1, <2>2, <2>4, RowTypes, DaysAre
    <3> QED
      BY <2>1, <2>2, <2>4, <3>1 DEF Returns
  <2> QED
    BY <2>1, <2>2, <2>3, <2>4, <2>5, RebuiltIs
<1> QED
  BY <1>1, <1>2

(* Rebuilding from what is left of the raw events takes nothing from the    *)
(* days that the cutoff has not reached, where the daily rollups are kept   *)
(* as long as the raw events (the configuration has 395 and 90 days).       *)
THEOREM CompleteDaysKept ==
  ASSUME RawRetention <= DailyRetention
  PROVE  AlertSpec => RecentDaysKept
<1> DEFINE RecentKept ==
      /\ \A d \in Days : Complete(d, clock') => rollup'.received[d] >= rollup.received[d]
      /\ \A pair \in rollup.retained : Complete(pair[1], clock') => pair \in rollup'.retained
<1>1. AlertIInv /\ [AlertNext]_<<vars, alertVars>> => [RecentKept]_vars
  <2> SUFFICES ASSUME AlertIInv, [AlertNext]_<<vars, alertVars>> PROVE RecentKept
    OBVIOUS
  <2>0. IInv /\ TypeOK /\ RollupOK /\ \A d \in Days : rollup.received[d] \in Nat
    BY DEF AlertIInv, IInv, TypeOK
  <2>1. CASE rollup' = rollup
    BY <2>0, <2>1
  <2>2. CASE rollup' = Rebuilt /\ clock' = clock
    BY <2>0, <2>2, RebuiltCovers
  <2>3. CASE Cleanup
    <3>1. clock' = clock /\ clock \in Nat /\ RawRetention \in Nat /\ DailyRetention \in Nat /\ Ticks \subseteq Nat
      BY <2>0, <2>3, RowTypes, MetricsAssumption DEF Cleanup
    <3>2. CASE rollup' = [received |-> [d \in Days |-> IF d \in KeptDays(DailyRetention) THEN rollup.received[d] ELSE 0],
                          retained |-> {pair \in rollup.retained : pair[2] \in KeptDays(DailyRetention)}]
      <4>1. ASSUME NEW d \in Days, Complete(d, clock), NEW f \in Days, d <= f PROVE f \in KeptDays(DailyRetention)
        <5> SUFFICES ASSUME NEW t \in Ticks, t = clock - DailyRetention PROVE f >= Day[t]
          BY DEF KeptDays
        <5>1. PICK u \in Ticks : d = Day[u] /\ u >= clock - RawRetention
          BY <4>1 DEF Days, Complete
        <5>2. t <= u /\ t \in Nat /\ u \in Nat
          BY <3>1, <5>1
        <5>3. Day[t] <= d /\ Day[t] \in Nat /\ d \in Nat /\ f \in Nat
          BY <5>1, <5>2, DaysAre
        <5> QED
          BY <4>1, <5>3
      <4>2. \A d \in Days : d <= d
        BY DaysAre
      <4>3. \A pair \in rollup.retained : Complete(pair[1], clock) => pair[1] \in Days /\ pair[2] \in Days /\ pair[1] <= pair[2]
        BY <2>0 DEF RollupOK, TypeOK
      <4> QED
        BY <2>0, <3>1, <3>2, <4>1, <4>2, <4>3
    <3> QED
      BY <2>1, <2>3, <3>2 DEF Cleanup, dbVars
  <2>4. CASE Work /\ ~Cleanup
    <3>1. clock' = clock /\ rollup' \in {rollup, Rebuilt}
      BY <2>4
      DEF Work, Handlers, Receive, Dispatch, RecordOutcome, Recorder, Take, Flush, FlushForRollup, Drain, LastFlush,
          InsertEvents, RebuildRollups, Stop, Backfill, QueryMessageRows, InsertEventsIfAbsent,
          BackfillRebuilds, dbVars
    <3> QED
      BY <2>1, <2>2, <3>1
  <2> QED
    BY <2>1, <2>3, <2>4 DEF AlertNext, Tick, dbVars, vars
<1> QED
  BY <1>1, Inductive, PTL DEF AlertSpec, RecentDaysKept
==============================================================================
