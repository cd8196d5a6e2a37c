----------------------------- MODULE LottoProofs -----------------------------
(***************************************************************************)
(* What holds of the lotto feature for any rooms, users, numbers of lines  *)
(* and bounds.                                                             *)
(***************************************************************************)
EXTENDS Lotto, TLAPS

(* The calendar: a phase sells tickets for the draw after the last one held.*)
LEMMA Calendar ==
  ASSUME NEW p \in Nat
  PROVE  /\ ExpectedDraw(p) \in Nat \ {0} /\ HeldDraw(p) \in Nat \ {0}
         /\ OpenDraw(p) = HeldDraw(p) + 1
         /\ HeldDraw(p) <= p + 1
         /\ HeldDraw(p) <= HeldDraw(p + 1)
BY DEF ExpectedDraw, HeldDraw, OpenDraw

(* The round of a request is above every draw held when it came.            *)
LEMMA OpenRound ==
  ASSUME NEW r \in Requests, r.draw <= HeldDraw(r.at)
  PROVE  /\ RegistrationRound(r) \in Rounds
         /\ RegistrationRound(r) > HeldDraw(r.at)
<1>1. r.at \in Nat /\ r.at <= MaxPhase /\ r.draw \in Nat /\ MaxPhase \in Nat
  BY LottoAssumption DEF Requests, Phases, Rounds
<1>2. OpenDraw(r.at) = HeldDraw(r.at) + 1 /\ HeldDraw(r.at) \in Nat /\ HeldDraw(r.at) <= r.at + 1
  BY <1>1, Calendar
<1>3. RegistrationRound(r) = OpenDraw(r.at)
  BY <1>1, <1>2 DEF RegistrationRound, WeeksAhead, Max2
<1> QED
  BY <1>1, <1>2, <1>3 DEF Rounds

(* Deactivated tickets are tickets, and only their activity is another.     *)
LEMMA Deactivated ==
  ASSUME NEW t \in Ticket
  PROVE  LET x == [t EXCEPT !.active = FALSE]
         IN  /\ x \in Ticket /\ ~x.active
             /\ x.user = t.user /\ x.round = t.round /\ x.line = t.line /\ x.source = t.source
BY DEF Ticket

(* A step of a room changes its own request alone.                          *)
LEMMA OwnRequest ==
  ASSUME TypeOK, NEW c \in Rooms, Step(c)
  PROVE  /\ req' \in [Rooms -> {req'[d] : d \in Rooms}]
         /\ \A d \in Rooms \ {c} : req'[d] = req[d]
<1>1. req \in [Rooms -> {Idle} \cup Requests]
  BY DEF TypeOK
<1>2. \E r : req' = [req EXCEPT ![c] = r]
  BY <1>1 DEF Step, Start, Reply, Fail, RememberProfile, LatestDraw, FetchDraw, FetchFails, Touch,
     UpsertDraw, SyncShops, SummaryShops, SummaryFetchShops, SummaryTickets, QueryMine, Query,
     List, NextLineNo, InsertTickets, SelectTickets, Deactivate, To, Work
<1> QED
  BY <1>1, <1>2

(* A running request is a request, and its rounds are rounds.               *)
LEMMA RunningRequest ==
  ASSUME TypeOK, CalendarOK, NEW c \in Rooms, Running(c)
  PROVE  /\ req[c] \in Requests
         /\ RegistrationRound(req[c]) \in Rounds
         /\ RegistrationRound(req[c]) > published
<1>1. req[c] \in Requests
  BY DEF TypeOK, Running, Idle
<1>2. published \in Nat /\ published <= HeldDraw(req[c].at) /\ req[c].draw <= published
  BY DEF CalendarOK, TypeOK, Rounds
<1>3. req[c].at \in Nat /\ req[c].draw \in Nat
  BY <1>1, LottoAssumption DEF Requests, Phases, Rounds
<1>4. HeldDraw(req[c].at) \in Nat
  BY <1>3, Calendar
<1>5. req[c].draw <= HeldDraw(req[c].at)
  BY <1>2, <1>3, <1>4
<1>6. RegistrationRound(req[c]) \in Rounds /\ RegistrationRound(req[c]) > HeldDraw(req[c].at)
  BY <1>1, <1>5, OpenRound
<1>7. RegistrationRound(req[c]) \in Nat
  BY <1>6, LottoAssumption DEF Rounds
<1> QED
  BY <1>1, <1>2, <1>4, <1>6, <1>7

(* A recommendation, or the lines of a message, are tickets of the round    *)
(* the request registers for.                                               *)
LEMMA NewTicketTypes ==
  ASSUME TypeOK, CalendarOK, FlowOK, NEW c \in Rooms, req[c].step = "insert"
  PROVE  /\ NewTickets(req[c]) \in SUBSET Ticket
         /\ \A t \in NewTickets(req[c]) :
              /\ t.user = req[c].user /\ t.round = RegistrationRound(req[c])
              /\ t.source = req[c].op /\ t.active
         /\ \A t, x \in NewTickets(req[c]) : t.line = x.line => t = x
<1> DEFINE r == req[c]
           count == IF r.op = "recommend" THEN RecommendLines ELSE r.n
<1>1. Running(c)
  BY DEF Running
<1>2. r \in Requests /\ RegistrationRound(r) \in Rounds
  BY <1>1, RunningRequest
<1>3. r.op \in {"recommend", "manual"} /\ r.user \in Users /\ r.next \in Nat /\ count \in Nat
  BY <1>2, LottoAssumption DEF FlowOK, Requests
<1>4. NewTickets(r) = {[user |-> r.user, round |-> RegistrationRound(r), line |-> r.next + i,
                        source |-> r.op, active |-> TRUE] : i \in 0 .. count - 1}
  BY DEF NewTickets
<1>5. \A t \in NewTickets(r) :
        \E i \in 0 .. count - 1 :
          t = [user |-> r.user, round |-> RegistrationRound(r), line |-> r.next + i,
               source |-> r.op, active |-> TRUE]
  BY <1>4
<1>6. \A i \in 0 .. count - 1 : r.next + i \in Nat
  BY <1>3
<1> HIDE DEF r, count
<1>7. ASSUME NEW t \in NewTickets(r) PROVE t \in Ticket
  <2>1. PICK i \in 0 .. count - 1 :
          t = [user |-> r.user, round |-> RegistrationRound(r), line |-> r.next + i,
               source |-> r.op, active |-> TRUE]
    BY <1>5
  <2>2. r.next + i \in Nat
    BY <1>6
  <2> QED
    BY <1>2, <1>3, <2>1, <2>2 DEF Ticket
<1>8. \A t \in NewTickets(r) :
        t.user = r.user /\ t.round = RegistrationRound(r) /\ t.source = r.op /\ t.active
  BY <1>5
<1>9. ASSUME NEW t \in NewTickets(r), NEW x \in NewTickets(r), t.line = x.line PROVE t = x
  <2>1. PICK i \in 0 .. count - 1 :
          t = [user |-> r.user, round |-> RegistrationRound(r), line |-> r.next + i,
               source |-> r.op, active |-> TRUE]
    BY <1>5
  <2>2. PICK j \in 0 .. count - 1 :
          x = [user |-> r.user, round |-> RegistrationRound(r), line |-> r.next + j,
               source |-> r.op, active |-> TRUE]
    BY <1>5
  <2>3. r.next + i = r.next + j
    BY <1>9, <2>1, <2>2
  <2>4. i = j
    BY <1>3, <2>3
  <2> QED
    BY <2>1, <2>2, <2>4
<1> QED
  BY <1>7, <1>8, <1>9 DEF r

(* What a step leaves in the request of its room.                           *)
LEMMA RequestType ==
  ASSUME TypeOK, CalendarOK, FlowOK, NEW c \in Rooms, Step(c)
  PROVE  req'[c] \in {Idle} \cup Requests
<1> USE DEF TypeOK
<1>1. CASE Start(c)
  <2>1. PICK op \in Ops, u \in Users, n \in ManualSets \cup {t.line : t \in tickets} :
          req' = [req EXCEPT ![c] = Request(op, u, n)]
    BY <1>1 DEF Start
  <2>2. n \in Nat
    BY LottoAssumption DEF Ticket
  <2>3. Request(op, u, n) \in Requests
    BY <2>2, LottoAssumption DEF Request, Requests, Steps, NoDraw, Rounds
  <2> QED
    BY <2>1, <2>3
<1>2. CASE Reply(c) \/ Fail(c)
  BY <1>2 DEF Reply, Fail
<1>3. CASE Running(c)
  <2>1. req[c] \in Requests
    BY <1>3, RunningRequest
  <2>2. CASE RememberProfile(c) \/ FetchFails(c) \/ SummaryShops(c) \/ SummaryFetchShops(c) \/ SummaryTickets(c)
             \/ UpsertDraw(c) \/ Deactivate(c)
    BY <2>1, <2>2 DEF RememberProfile, FetchFails, SummaryShops, SummaryFetchShops, SummaryTickets,
       UpsertDraw, Deactivate, To, Requests, Steps
  <2>3. \A d \in Rounds : Work(c, d) => req'[c] \in Requests
    <3> SUFFICES ASSUME NEW d \in Rounds, Work(c, d)
                 PROVE  req'[c] \in Requests
      OBVIOUS
    <3>1. First[req[c].op] \in Steps
      BY <2>1 DEF Requests, First, Steps, Ops
    <3>2. req'[c] = [req[c] EXCEPT !.draw = d, !.step = First[req[c].op]]
      BY DEF Work
    <3> QED
      BY <2>1, <3>1, <3>2 DEF Requests
  <2>4. CASE LatestDraw(c)
    BY <2>1, <2>3, <2>4 DEF LatestDraw, Requests, Steps
  <2>5. CASE Touch(c) \/ SyncShops(c)
    <3>1. req[c].draw \in Rounds
      BY <2>1 DEF Requests
    <3> QED
      BY <2>3, <2>5, <3>1 DEF Touch, SyncShops
  <2>6. CASE FetchDraw(c)
    BY <2>1, <2>6 DEF FetchDraw, Requests, Steps
  <2>7. CASE QueryMine(c)
    <3>1. \A from, to, rounds : to \in Steps /\ Query(c, from, to, rounds) => req'[c] \in Requests
      <4> SUFFICES ASSUME NEW from, NEW to \in Steps, NEW rounds, Query(c, from, to, rounds)
                   PROVE  req'[c] \in Requests
        OBVIOUS
      <4>1. req[c].seen \cup UNION {ActiveOf(req[c], x) : x \in rounds} \in SUBSET Ticket
        BY <2>1 DEF ActiveOf, Requests
      <4>2. req'[c] = [req[c] EXCEPT !.seen = req[c].seen \cup UNION {ActiveOf(req[c], x) : x \in rounds},
                                     !.step = to]
        BY DEF Query
      <4> QED
        BY <2>1, <4>1, <4>2 DEF Requests
    <3> QED
      BY <2>7, <3>1 DEF QueryMine, Steps
  <2>8. CASE List(c)
    <3>1. Existing(req[c]) \subseteq Ticket
      BY DEF Existing, ActiveOf
    <3> QED
      BY <2>1, <2>8, <3>1 DEF List, To, Requests, Steps
  <2>9. CASE NextLineNo(c)
    <3> DEFINE lines == {t.line : t \in {x \in tickets : /\ x.user = req[c].user
                                                           /\ x.round = RegistrationRound(req[c])}}
    <3>1. lines \subseteq Nat
      BY DEF Ticket
    <3>2. PICK top \in lines \cup {0} : req' = [req EXCEPT ![c].next = top + 1, ![c].step = "insert"]
      BY <2>9 DEF NextLineNo
    <3>3. top + 1 \in Nat /\ "insert" \in Steps
      BY <3>1, <3>2 DEF Steps
    <3>4. req'[c] = [req[c] EXCEPT !.next = top + 1, !.step = "insert"]
      BY <3>2
    <3> QED
      BY <2>1, <3>3, <3>4 DEF Requests
  <2>10. CASE SelectTickets(c)
    <3>1. Doomed(req[c]) \subseteq Ticket
      BY DEF Doomed, ActiveOf
    <3> QED
      BY <2>1, <2>10, <3>1 DEF SelectTickets, Requests, Steps
  <2>11. CASE InsertTickets(c)
    <3>1. NewTickets(req[c]) \in SUBSET Ticket /\ "reply" \in Steps /\ "conflict" \in Steps
      BY <1>3, <2>11, NewTicketTypes DEF InsertTickets, Steps
    <3>2. \/ req'[c] = [req[c] EXCEPT !.step = "conflict"]
          \/ req'[c] = [req[c] EXCEPT !.seen = NewTickets(req[c]), !.step = "reply"]
      BY <2>11 DEF InsertTickets, To
    <3> QED
      BY <2>1, <3>1, <3>2 DEF Requests
  <2> QED
    BY <1>1, <1>2, <2>2, <2>4, <2>5, <2>6, <2>7, <2>8, <2>9, <2>10, <2>11 DEF Step
<1>4. ~Running(c) => Start(c)
  BY DEF Running, Step, Reply, Fail, RememberProfile, LatestDraw, FetchDraw, FetchFails, Touch,
     UpsertDraw, SyncShops, SummaryShops, SummaryFetchShops, SummaryTickets, QueryMine, Query,
     List, NextLineNo, InsertTickets, SelectTickets, Deactivate
<1> QED
  BY <1>1, <1>3, <1>4

(* The lines of a user in a round stay unique.                              *)
Unique(S) == \A t, x \in S : t.user = x.user /\ t.round = x.round /\ t.line = x.line => t = x

(* Which tickets a step leaves: those that were, deactivated ones, and new  *)
(* ones of the round of the request.                                        *)
LEMMA TicketsAfter ==
  ASSUME TypeOK, CalendarOK, FlowOK, NEW c \in Rooms, Step(c)
  PROVE  /\ tickets' \subseteq Ticket /\ Unique(tickets')
         /\ \A t \in tickets' \ tickets :
              /\ Running(c) /\ t.user = req[c].user /\ t.round = RegistrationRound(req[c])
              /\ t.active => req[c].step = "insert" /\ t \in NewTickets(req[c])
<1>1. CASE UNCHANGED tickets
  BY <1>1 DEF TypeOK, Unique
<1>2. CASE InsertTickets(c) /\ ~Taken(req[c])
  <2>1. tickets' = tickets \cup NewTickets(req[c]) /\ req[c].step = "insert"
    BY <1>2 DEF InsertTickets
  <2>2. /\ NewTickets(req[c]) \subseteq Ticket
        /\ \A t \in NewTickets(req[c]) :
             t.user = req[c].user /\ t.round = RegistrationRound(req[c]) /\ t.active
        /\ \A t, x \in NewTickets(req[c]) : t.line = x.line => t = x
    BY <2>1, NewTicketTypes
  <2>3. Unique(tickets')
    BY <1>2, <2>1, <2>2 DEF TypeOK, Unique, Taken
  <2> QED
    BY <2>1, <2>2, <2>3 DEF TypeOK, Running
<1>3. CASE Deactivate(c)
  <2> DEFINE off(t) == [t EXCEPT !.active = FALSE]
             D == Doomed(req[c])
  <2>1. tickets' = (tickets \ D) \cup {off(t) : t \in D} /\ req[c].step = "deactivate"
    BY <1>3 DEF Deactivate
  <2>2. D \subseteq tickets /\ \A t \in D : t.user = req[c].user /\ t.round = RegistrationRound(req[c])
    BY DEF Doomed, ActiveOf
  <2>3. \A t \in D : /\ off(t) \in Ticket /\ ~off(t).active
                     /\ off(t).user = t.user /\ off(t).round = t.round /\ off(t).line = t.line
    BY <2>2, Deactivated DEF TypeOK
  <2> HIDE DEF off, D
  <2>4. \A x \in tickets' : \/ x \in tickets \ D
                            \/ \E t \in D : x = off(t)
    BY <2>1
  <2>5. Unique(tickets')
    <3> SUFFICES ASSUME NEW x \in tickets', NEW y \in tickets',
                        x.user = y.user, x.round = y.round, x.line = y.line
                 PROVE  x = y
      BY DEF Unique
    <3>1. PICK t \in tickets : t.user = x.user /\ t.round = x.round /\ t.line = x.line
                               /\ (IF t \in D THEN x = off(t) ELSE x = t)
      BY <2>2, <2>3, <2>4
    <3>2. PICK u \in tickets : u.user = y.user /\ u.round = y.round /\ u.line = y.line
                               /\ (IF u \in D THEN y = off(u) ELSE y = u)
      BY <2>2, <2>3, <2>4
    <3>3. t = u
      BY <3>1, <3>2 DEF TypeOK
    <3> QED
      BY <3>1, <3>2, <3>3
  <2> QED
    BY <2>1, <2>2, <2>3, <2>4, <2>5 DEF TypeOK, Running
<1>4. UNCHANGED tickets \/ (InsertTickets(c) /\ ~Taken(req[c])) \/ Deactivate(c)
  BY DEF Step, Start, Reply, Fail, RememberProfile, LatestDraw, FetchDraw, FetchFails, Touch,
     UpsertDraw, SyncShops, SummaryShops, SummaryFetchShops, SummaryTickets, QueryMine, Query,
     List, NextLineNo, InsertTickets, SelectTickets
<1> QED
  BY <1>1, <1>2, <1>3, <1>4

(* The draw a step leaves in its request, and the steps it leads to.        *)
Flows(c) ==
  /\ req'[c].user = req[c].user /\ req'[c].at = req[c].at /\ req'[c].op = req[c].op
  /\ req'[c].draw \in draws \cup {NoDraw, req[c].draw, published}
  /\ req'[c].step \in {"touch", "sync", "shops", "fetchShops"} => req'[c].draw \in draws'
  /\ req'[c].step = "fetch" => req'[c].draw \in draws' \cup {NoDraw}
  /\ req'[c].step = "store" => req'[c].draw # NoDraw
  /\ req'[c].step \in {"list", "number", "insert"} => req[c].op \in {"recommend", "manual"}

(* A request that goes on does so with a draw of the table or the site.     *)
LEMMA RequestFlow ==
  ASSUME TypeOK, CalendarOK, FlowOK, NEW c \in Rooms, Step(c), Running(c), req'[c].step # "idle"
  PROVE  Flows(c)
<1>1. req[c] \in Requests
  BY RunningRequest
<1>2. ~Start(c) /\ ~Reply(c) /\ ~Fail(c)
  BY DEF Start, Reply, Fail, TypeOK, Idle
<1>3. \A d \in draws : Work(c, d) /\ draws \subseteq draws' => Flows(c)
  <2> SUFFICES ASSUME NEW d \in draws, Work(c, d), draws \subseteq draws'
               PROVE  Flows(c)
    OBVIOUS
  <2>1. req[c].op \in Ops
    BY <1>1 DEF Requests
  <2>2. /\ First[req[c].op] \in {"shops", "list", "results", "select"}
        /\ First[req[c].op] = "list" => req[c].op \in {"recommend", "manual"}
    BY <2>1 DEF First, Ops
  <2>3. req'[c] = [req[c] EXCEPT !.draw = d, !.step = First[req[c].op]]
    BY DEF Work, TypeOK
  <2> QED
    BY <1>1, <2>2, <2>3 DEF Flows, Requests
<1>4. CASE LatestDraw(c)
  <2>1. PICK d \in Rounds :
          /\ Latest(d)
          /\ \/ d = ExpectedDraw(req[c].at) /\ Work(c, d)
             \/ d # NoDraw /\ Work(c, d)
             \/ req' = [req EXCEPT ![c].draw = d, ![c].step = "fetch"]
    BY <1>4 DEF LatestDraw
  <2>2. ExpectedDraw(req[c].at) # NoDraw
    <3>1. req[c].at \in Nat
      BY <1>1, LottoAssumption DEF Requests, Phases
    <3> QED
      BY <3>1, Calendar DEF NoDraw
  <2>3. draws' = draws
    BY <1>4 DEF LatestDraw
  <2>4. CASE Work(c, d) /\ d # NoDraw
    BY <1>3, <2>1, <2>3, <2>4 DEF Latest
  <2>5. CASE req' = [req EXCEPT ![c].draw = d, ![c].step = "fetch"]
    <3>1. req'[c] = [req[c] EXCEPT !.draw = d, !.step = "fetch"]
      BY <2>5 DEF TypeOK
    <3>2. d \in draws \/ d = NoDraw
      BY <2>1 DEF Latest
    <3> QED
      BY <1>1, <2>3, <3>1, <3>2 DEF Flows, Requests, NoDraw
  <2> QED
    BY <2>1, <2>2, <2>4, <2>5
<1>5. CASE FetchDraw(c)
  <2>1. req'[c] = [req[c] EXCEPT !.draw = published, !.step = "store"]
    BY <1>5 DEF FetchDraw, TypeOK
  <2>2. published # NoDraw
    BY DEF CalendarOK, NoDraw, TypeOK, Rounds
  <2> QED
    BY <1>1, <2>1, <2>2 DEF Flows, Requests
<1>6. CASE Touch(c) \/ SyncShops(c)
  BY <1>3, <1>6 DEF Touch, SyncShops, FlowOK
<1>7. CASE UpsertDraw(c)
  <2>1. req'[c] = [req[c] EXCEPT !.step = "sync"] /\ req[c].draw \in draws'
    BY <1>7 DEF UpsertDraw, To, TypeOK
  <2> QED
    BY <1>1, <2>1 DEF Flows, Requests
<1>8. CASE FetchFails(c) \/ SummaryShops(c) \/ SummaryFetchShops(c)
  <2>1. \E s : /\ req'[c] = [req[c] EXCEPT !.step = s]
               /\ s \in {"touch", "players", "fetchShops"}
    BY <1>8 DEF FetchFails, SummaryShops, SummaryFetchShops, To, TypeOK
  <2>2. req[c].draw \in draws /\ draws' = draws
    BY <1>8 DEF FetchFails, SummaryShops, SummaryFetchShops, FlowOK
  <2> QED
    BY <1>1, <2>1, <2>2 DEF Flows, Requests
<1>9. CASE RememberProfile(c) \/ SummaryTickets(c) \/ Deactivate(c)
  <2>1. \E s : /\ req'[c] = [req[c] EXCEPT !.step = s]
               /\ s \in {"reply", "latest", "waiting"}
    BY <1>9 DEF RememberProfile, SummaryTickets, Deactivate, To, TypeOK
  <2> QED
    BY <1>1, <2>1 DEF Flows, Requests
<1>10. CASE QueryMine(c) \/ SelectTickets(c)
  <2>1. \E s, S : /\ req'[c] = [req[c] EXCEPT !.seen = S, !.step = s]
                  /\ s \in {"pending", "current", "reply", "deactivate"}
    BY <1>10 DEF QueryMine, Query, SelectTickets, TypeOK
  <2> QED
    BY <1>1, <2>1 DEF Flows, Requests
<1>11. CASE List(c) \/ NextLineNo(c) \/ InsertTickets(c)
  <2>1. \/ \E s : /\ req'[c] = [req[c] EXCEPT !.step = s] /\ s \in {"number", "conflict"}
        \/ \E S : req'[c] = [req[c] EXCEPT !.seen = S, !.step = "reply"]
        \/ \E k : req'[c] = [req[c] EXCEPT !.next = k, !.step = "insert"]
    <3>1. CASE List(c)
      BY <3>1 DEF List, To, TypeOK
    <3>2. CASE NextLineNo(c)
      BY <3>2 DEF NextLineNo, TypeOK
    <3>3. CASE InsertTickets(c)
      BY <3>3 DEF InsertTickets, To, TypeOK
    <3> QED
      BY <1>11, <3>1, <3>2, <3>3
  <2>2. req[c].op \in {"recommend", "manual"}
    BY <1>11 DEF List, NextLineNo, InsertTickets, FlowOK
  <2> QED
    BY <1>1, <2>1, <2>2 DEF Flows, Requests
<1> QED
  BY <1>2, <1>4, <1>5, <1>6, <1>7, <1>8, <1>9, <1>10, <1>11 DEF Step

(* What a step does beside its request and the tickets.                     *)
LEMMA OtherState ==
  ASSUME TypeOK, CalendarOK, FlowOK, NEW c \in Rooms, Step(c)
  PROVE  /\ clock' = clock /\ published' = published
         /\ draws \subseteq draws'
         /\ \/ draws' = draws
            \/ Running(c) /\ req[c].draw # NoDraw /\ draws' = draws \cup {req[c].draw}
         /\ shops' \subseteq draws
         /\ written' \in Phases
         /\ made' \in 0 .. MaxRequests
         /\ met' \subseteq Rooms /\ met \ {c} \subseteq met'
<1> USE DEF TypeOK
<1>1. CASE Start(c)
  BY <1>1, LottoAssumption DEF Start
<1>2. CASE Reply(c) \/ Fail(c)
  BY <1>2 DEF Reply, Fail
<1>3. CASE Touch(c)
  <2>1. req[c].at \in Phases
    BY <1>3, RunningRequest DEF Touch, Running, Requests
  <2> QED
    BY <1>3, <2>1 DEF Touch
<1>4. CASE UpsertDraw(c)
  BY <1>4 DEF UpsertDraw, Running, FlowOK
<1>5. CASE SyncShops(c) \/ SummaryFetchShops(c)
  <2>1. req[c].draw \in draws
    BY <1>5 DEF SyncShops, SummaryFetchShops, FlowOK
  <2> QED
    BY <1>5, <2>1 DEF SyncShops, SummaryFetchShops, ReplacedShops
<1>6. \/ UNCHANGED <<clock, published, draws, written, shops, made, met>>
      \/ Start(c) \/ Reply(c) \/ Fail(c) \/ Touch(c) \/ UpsertDraw(c) \/ SyncShops(c) \/ SummaryFetchShops(c)
  BY DEF Step, RememberProfile, LatestDraw, FetchDraw, FetchFails, SummaryShops, SummaryTickets, QueryMine,
     Query, List, NextLineNo, InsertTickets, SelectTickets, Deactivate
<1> QED
  BY <1>1, <1>2, <1>3, <1>4, <1>5, <1>6

(* The step of a room keeps the types.                                      *)
LEMMA StepTypes ==
  ASSUME TypeOK, CalendarOK, FlowOK, NEW c \in Rooms, Step(c)
  PROVE  TypeOK'
<1>1. req' \in [Rooms -> {Idle} \cup Requests]
  BY OwnRequest, RequestType DEF TypeOK
<1>2. tickets' \subseteq Ticket /\ Unique(tickets')
  BY TicketsAfter
<1>3. draws' \subseteq Rounds \ {NoDraw}
  BY OtherState, RunningRequest DEF TypeOK, Requests
<1> QED
  BY <1>1, <1>2, <1>3, OtherState DEF TypeOK, Unique

(* A new request knows no draw; the others keep their time and learn of     *)
(* published draws only.                                                    *)
LEMMA StepCalendar ==
  ASSUME TypeOK, CalendarOK, FlowOK, NEW c \in Rooms, Step(c)
  PROVE  CalendarOK'
<1> USE DEF TypeOK
<1>1. clock' = clock /\ published' = published /\ clock \in Nat /\ published \in Nat
  BY OtherState, LottoAssumption DEF Phases, Rounds
<1>2. \A d \in draws' : d <= published
  BY OtherState DEF CalendarOK
<1>3. ASSUME NEW d \in Rooms, req'[d].step # "idle"
      PROVE  req'[d].at <= clock /\ published <= HeldDraw(req'[d].at) /\ req'[d].draw <= published
  <2>1. CASE d # c
    BY <1>3, <2>1, OwnRequest DEF CalendarOK, Running
  <2>2. CASE d = c /\ Running(c)
    <3>1. Flows(c)
      BY <1>3, <2>2, RequestFlow
    <3>2. NoDraw <= published /\ req[c].draw <= published /\ published <= published
      BY <1>1, <2>2 DEF CalendarOK, NoDraw
    <3>3. req'[c].draw <= published
      BY <3>1, <3>2 DEF Flows, CalendarOK
    <3> QED
      BY <2>2, <3>1, <3>3 DEF Flows, CalendarOK
  <2>3. CASE d = c /\ ~Running(c)
    <3>1. Start(c)
      BY <2>3 DEF Running, Step, Reply, Fail, RememberProfile, LatestDraw, FetchDraw, FetchFails, Touch,
         UpsertDraw, SyncShops, SummaryShops, SummaryFetchShops, SummaryTickets, QueryMine, Query,
         List, NextLineNo, InsertTickets, SelectTickets, Deactivate
    <3>2. PICK op \in Ops, u \in Users : \E n : req'[c] = Request(op, u, n)
      BY <3>1 DEF Start
    <3>3. req'[c].at = clock /\ req'[c].draw = 0
      BY <3>2 DEF Request, NoDraw
    <3> QED
      BY <1>1, <2>3, <3>3 DEF CalendarOK
  <2> QED
    BY <2>1, <2>2, <2>3
<1> QED
  BY <1>1, <1>2, <1>3 DEF CalendarOK, Running

(* A request reaches the steps that use a stored draw with a stored one.     *)
LEMMA StepFlow ==
  ASSUME TypeOK, CalendarOK, FlowOK, NEW c \in Rooms, Step(c)
  PROVE  FlowOK'
<1> SUFFICES ASSUME NEW d \in Rooms
             PROVE  /\ req'[d].step \in {"touch", "sync", "shops", "fetchShops"} => req'[d].draw \in draws'
                    /\ req'[d].step = "fetch" => req'[d].draw \in draws' \cup {NoDraw}
                    /\ req'[d].step = "store" => req'[d].draw # NoDraw
                    /\ req'[d].step \in {"list", "number", "insert"} => req'[d].op \in {"recommend", "manual"}
  BY DEF FlowOK
<1>1. draws \subseteq draws'
  BY OtherState
<1>2. CASE d # c
  BY <1>1, <1>2, OwnRequest DEF FlowOK
<1>3. CASE d = c /\ Running(c) /\ req'[c].step # "idle"
  BY <1>3, RequestFlow DEF Flows
<1>4. CASE d = c /\ ~Running(c)
  <2>1. Start(c)
    BY <1>4 DEF Running, Step, Reply, Fail, RememberProfile, LatestDraw, FetchDraw, FetchFails, Touch,
       UpsertDraw, SyncShops, SummaryShops, SummaryFetchShops, SummaryTickets, QueryMine, Query,
       List, NextLineNo, InsertTickets, SelectTickets, Deactivate
  <2>2. PICK op \in Ops, u \in Users : \E n : req'[c] = Request(op, u, n)
    BY <2>1 DEF Start, TypeOK
  <2>3. req'[c].step \in {"latest", "profile"}
    BY <2>2 DEF Request
  <2> QED
    BY <1>4, <2>3
<1> QED
  BY <1>2, <1>3, <1>4

(* A request that goes on keeps what it knows of others, and only one that  *)
(* saw no recommendation goes on to insert one.                             *)
LEMMA Inserting ==
  ASSUME TypeOK, CalendarOK, FlowOK, NEW c \in Rooms, Step(c), req'[c].step \in {"number", "insert"}
  PROVE  /\ Running(c) /\ met' = met /\ tickets' = tickets
         /\ Existing(req'[c]) = Existing(req[c])
         /\ req'[c].op = req[c].op
         /\ \/ req[c].step = "list" /\ (req[c].op = "recommend" => Existing(req[c]) = {})
            \/ req[c].step = "number"
<1>1. ASSUME NEW d, Work(c, d), Running(c) PROVE FALSE
  <2>1. req[c].op \in Ops
    BY <1>1, RunningRequest DEF Requests
  <2>2. First[req[c].op] \in {"shops", "list", "results", "select"}
    BY <2>1 DEF First, Ops
  <2>3. req'[c].step = First[req[c].op]
    BY <1>1, RunningRequest DEF Work, TypeOK, Requests
  <2> QED
    BY <2>2, <2>3
<1>2. CASE List(c)
  <2>1. req'[c] = [req[c] EXCEPT !.step = "number"] /\ (req[c].op = "recommend" => Existing(req[c]) = {})
    <3>1. req[c] \in Requests
      BY <1>2, RunningRequest DEF List, Running
    <3>2. [req[c] EXCEPT !.seen = Existing(req[c]), !.step = "reply"].step = "reply"
      BY <3>1 DEF Requests
    <3> QED
      BY <1>2, <3>2 DEF List, To, TypeOK
  <2>2. Running(c) /\ req[c] \in Requests
    BY <1>2, RunningRequest DEF List, Running
  <2>3. Existing(req'[c]) = Existing(req[c])
    BY <2>1, <2>2 DEF Existing, ActiveOf, RegistrationRound, WeeksAhead, Requests
  <2> QED
    BY <1>2, <2>1, <2>2, <2>3 DEF List, Requests
<1>3. CASE NextLineNo(c)
  <2>1. PICK k : req'[c] = [req[c] EXCEPT !.next = k, !.step = "insert"]
    BY <1>3 DEF NextLineNo, TypeOK
  <2>2. Running(c) /\ req[c] \in Requests
    BY <1>3, RunningRequest DEF NextLineNo, Running
  <2>3. Existing(req'[c]) = Existing(req[c])
    BY <2>1, <2>2 DEF Existing, ActiveOf, RegistrationRound, WeeksAhead, Requests
  <2> QED
    BY <1>3, <2>1, <2>2, <2>3 DEF NextLineNo, Requests
<1>4. ~Start(c) /\ ~Reply(c) /\ ~Fail(c)
  BY DEF Start, Request, Reply, Fail, Idle, TypeOK
<1>5. ~LatestDraw(c) /\ ~Touch(c) /\ ~SyncShops(c)
  <2>1. ASSUME LatestDraw(c) PROVE FALSE
    <3>1. Running(c)
      BY <2>1 DEF LatestDraw, Running
    <3>2. PICK d : req' = [req EXCEPT ![c].draw = d, ![c].step = "fetch"]
      BY <1>1, <2>1, <3>1 DEF LatestDraw
    <3> QED
      BY <3>1, <3>2, RunningRequest DEF TypeOK, Requests
  <2> QED
    BY <1>1, <2>1 DEF Touch, SyncShops, Running
<1>6. ~QueryMine(c) /\ ~SelectTickets(c)
  <2>1. ASSUME NEW S, NEW s, Running(c), req' = [req EXCEPT ![c].seen = S, ![c].step = s] PROVE req'[c].step = s
    BY <2>1, RunningRequest DEF TypeOK, Requests
  <2>2. ASSUME NEW from, NEW to, NEW rounds, from # "idle", Query(c, from, to, rounds) PROVE req'[c].step = to
    BY <2>1, <2>2 DEF Query, Running
  <2> QED
    BY <2>1, <2>2 DEF QueryMine, SelectTickets, Running
<1>7. ~InsertTickets(c)
  <2> SUFFICES ASSUME InsertTickets(c) PROVE FALSE
    OBVIOUS
  <2>1. req[c] \in Requests
    BY RunningRequest DEF InsertTickets, Running
  <2> QED
    BY <2>1 DEF InsertTickets, To, TypeOK, Requests
<1>8. ~FetchDraw(c)
  <2> SUFFICES ASSUME FetchDraw(c) PROVE FALSE
    OBVIOUS
  <2>1. req[c] \in Requests
    BY RunningRequest DEF FetchDraw, Running
  <2> QED
    BY <2>1 DEF FetchDraw, TypeOK, Requests
<1>9. /\ ~RememberProfile(c) /\ ~FetchFails(c) /\ ~UpsertDraw(c) /\ ~SummaryShops(c)
      /\ ~SummaryFetchShops(c) /\ ~SummaryTickets(c) /\ ~Deactivate(c)
  <2> SUFFICES ASSUME \/ RememberProfile(c) \/ FetchFails(c) \/ UpsertDraw(c) \/ SummaryShops(c)
                      \/ SummaryFetchShops(c) \/ SummaryTickets(c) \/ Deactivate(c)
               PROVE  FALSE
    OBVIOUS
  <2>1. req[c] \in Requests
    BY RunningRequest DEF RememberProfile, FetchFails, UpsertDraw, SummaryShops, SummaryFetchShops,
       SummaryTickets, Deactivate, Running
  <2>2. PICK s \in {"reply", "latest", "touch", "sync", "players", "fetchShops", "waiting"} : To(c, s)
    BY DEF RememberProfile, FetchFails, UpsertDraw, SummaryShops, SummaryFetchShops, SummaryTickets, Deactivate
  <2> QED
    BY <2>1, <2>2 DEF To, TypeOK, Requests
<1> QED
  BY <1>2, <1>3, <1>4, <1>5, <1>6, <1>7, <1>8, <1>9 DEF Step

(* A request that starts beside another of its user marks both, and without *)
(* such a mark no other request inserts the recommendation it saw missing.  *)
LEMMA StepOverlap ==
  ASSUME TypeOK, CalendarOK, FlowOK, OverlapOK, NEW c \in Rooms, Step(c)
  PROVE  OverlapOK'
<1>1. ASSUME NEW d \in Rooms, NEW e \in Rooms, d # e,
             req'[d].step # "idle", req'[e].step # "idle", req'[d].user = req'[e].user
      PROVE  d \in met'
  <2>1. CASE Running(c)
    <3>1. Running(d) /\ Running(e) /\ req[d].user = req[e].user
      <4>1. \A x \in {d, e} : x = c => Running(x) /\ req'[x].user = req[x].user
        BY <1>1, <2>1, RequestFlow DEF Flows
      <4>2. \A x \in {d, e} : x # c => Running(x) /\ req'[x].user = req[x].user
        BY <1>1, OwnRequest DEF Running
      <4> QED
        BY <1>1, <4>1, <4>2
    <3>2. d \in met
      BY <1>1, <3>1 DEF OverlapOK
    <3>3. CASE d # c
      BY <3>2, <3>3, OtherState
    <3>4. CASE d = c
      <4>1. ~Start(c) /\ ~Reply(c) /\ ~Fail(c)
        BY <1>1, <2>1, <3>4 DEF Start, Reply, Fail, TypeOK, Idle
      <4>2. met' = met
        BY <4>1 DEF Step, RememberProfile, LatestDraw, FetchDraw, FetchFails, Touch, UpsertDraw, SyncShops,
           SummaryShops, SummaryFetchShops, SummaryTickets, QueryMine, Query, List, NextLineNo,
           InsertTickets, SelectTickets, Deactivate
      <4> QED
        BY <3>2, <4>2
    <3> QED
      BY <3>3, <3>4
  <2>2. CASE ~Running(c)
    <3>1. Start(c)
      BY <2>2 DEF Running, Step, Reply, Fail, RememberProfile, LatestDraw, FetchDraw, FetchFails, Touch,
         UpsertDraw, SyncShops, SummaryShops, SummaryFetchShops, SummaryTickets, QueryMine, Query,
         List, NextLineNo, InsertTickets, SelectTickets, Deactivate
    <3>2. PICK op \in Ops, u \in Users, n \in ManualSets \cup {t.line : t \in tickets} :
            /\ req' = [req EXCEPT ![c] = Request(op, u, n)]
            /\ LET others == {x \in Rooms \ {c} : Running(x) /\ req[x].user = u}
               IN  met' = IF others = {} THEN met ELSE met \cup others \cup {c}
      BY <3>1 DEF Start
    <3>3. req'[c].user = u
      BY <3>2 DEF Request, TypeOK
    <3>4. CASE d # c /\ e # c
      <4>1. d \in met
        BY <1>1, <3>4, OwnRequest DEF OverlapOK, Running
      <4> QED
        BY <3>4, <4>1, OtherState
    <3>5. CASE d = c \/ e = c
      BY <1>1, <3>2, <3>3, <3>5, OwnRequest DEF Running
    <3> QED
      BY <3>4, <3>5
  <2> QED
    BY <2>1, <2>2
<1>2. ASSUME NEW d \in Rooms, d \notin met',
             req'[d].step \in {"number", "insert"}, req'[d].op = "recommend",
             NEW t \in tickets', t.user = req'[d].user, t.round = RegistrationRound(req'[d]), t.active,
             t.source = "recommend"
      PROVE  FALSE
  <2>1. CASE d = c
    <3>1. Existing(req[c]) = {}
      BY <1>2, <2>1, Inserting DEF OverlapOK
    <3>2. t \in Existing(req'[c])
      BY <1>2, <2>1, Inserting DEF Existing, ActiveOf
    <3> QED
      BY <1>2, <2>1, <3>1, <3>2, Inserting
  <2>2. CASE d # c
    <3>1. req'[d] = req[d] /\ d \notin met
      BY <1>2, <2>2, OwnRequest, OtherState
    <3>2. Existing(req[d]) = {}
      BY <1>2, <3>1 DEF OverlapOK
    <3>3. t \notin tickets
      BY <1>2, <3>1, <3>2 DEF Existing, ActiveOf
    <3>4. Running(c) /\ req[d].user = req[c].user
      BY <1>2, <3>1, <3>3, TicketsAfter
    <3>5. Running(d)
      BY <1>2, <3>1 DEF Running
    <3> QED
      BY <2>2, <3>1, <3>4, <3>5 DEF OverlapOK
  <2> QED
    BY <2>1, <2>2
<1>3. \A d \in Rooms \ met' :
        req'[d].step \in {"number", "insert"} /\ req'[d].op = "recommend"
        => {t \in {x \in tickets' : x.user = req'[d].user /\ x.round = RegistrationRound(req'[d]) /\ x.active} :
              t.source = "recommend"} = {}
  BY <1>2
<1> QED
  BY <1>1, <1>3 DEF OverlapOK, Running, Existing, ActiveOf

------------------------------------------------------------------------------
(* What Told and Answered say of a table of tickets.                        *)
ActiveIn(T, r, round) == {t \in T : t.user = r.user /\ t.round = round /\ t.active}
HeldIn(T, r) == {t \in T : t.user = r.user /\ t.active}
DoomedIn(T, r) == {t \in ActiveIn(T, r, RegistrationRound(r)) : r.op = "delete" => t.line = r.n}

ToldIn(T, r) ==
  CASE r.step = "pending" -> ActiveIn(T, r, r.draw)
    [] r.step = "current" -> {t \in HeldIn(T, r) : t.round \in {r.draw} \cup PendingRounds(r)}
    [] r.step = "deactivate" -> DoomedIn(T, r)
    [] OTHER -> {}

AnsweredIn(T, r) ==
  CASE r.op \in {"recommend", "manual"} -> r.seen \subseteq HeldIn(T, r)
    [] r.op = "delete" -> r.seen \cap T = {}
    [] r.op = "deleteAll" -> r.seen \cap T = {} /\ ActiveIn(T, r, RegistrationRound(r)) = {}
    [] r.op = "query" -> OpenDraw(r.at) <= r.draw + 2 => r.seen = {t \in HeldIn(T, r) : t.round >= r.draw}
    [] r.op = "summary" -> TRUE

(* They say the same of the table before and after a step.                  *)
LEMMA InTables ==
  ASSUME NEW c \in Rooms
  PROVE  /\ Told(req[c]) = ToldIn(tickets, req[c])
         /\ Told(req[c])' = ToldIn(tickets', req'[c])
         /\ Answered(req[c]) = AnsweredIn(tickets, req[c])
         /\ Answered(req[c])' = AnsweredIn(tickets', req'[c])
BY DEF Told, ToldIn, Answered, AnsweredIn, ActiveOf, ActiveIn, Held, HeldIn, Doomed, DoomedIn

(* Another user's tickets are no part of either.                            *)
LEMMA OthersTickets ==
  ASSUME NEW T, NEW U, NEW r, \A t : t.user = r.user => (t \in T <=> t \in U)
  PROVE  /\ ToldIn(T, r) = ToldIn(U, r)
         /\ HeldIn(T, r) = HeldIn(U, r)
         /\ \A round : ActiveIn(T, r, round) = ActiveIn(U, r, round)
<1>1. \A round : ActiveIn(T, r, round) = ActiveIn(U, r, round)
  BY DEF ActiveIn
<1>2. HeldIn(T, r) = HeldIn(U, r)
  BY DEF HeldIn
<1>3. DoomedIn(T, r) = DoomedIn(U, r)
  BY <1>1 DEF DoomedIn
<1> QED
  BY <1>1, <1>2, <1>3 DEF ToldIn

(* Sales open later for later phases, and a request registers for the round *)
(* open when it came.                                                       *)
LEMMA OpenRises ==
  ASSUME NEW p \in Nat, NEW q \in Nat, p <= q
  PROVE  OpenDraw(p) <= OpenDraw(q) /\ OpenDraw(p) \in Nat
BY DEF OpenDraw

LEMMA RegistersOpen ==
  ASSUME TypeOK, CalendarOK, NEW c \in Rooms, Running(c)
  PROVE  /\ RegistrationRound(req[c]) = OpenDraw(req[c].at)
         /\ req[c].draw \in Nat /\ OpenDraw(req[c].at) \in Nat /\ req[c].draw < OpenDraw(req[c].at)
         /\ WeeksAhead(req[c]) = OpenDraw(req[c].at) - req[c].draw
         /\ req[c].at \in Nat /\ req[c].at <= clock /\ clock \in Nat
<1>1. req[c].at \in Nat /\ req[c].draw \in Nat /\ published \in Nat /\ clock \in Nat
  BY RunningRequest, LottoAssumption DEF TypeOK, Requests, Phases, Rounds
<1>2. OpenDraw(req[c].at) = HeldDraw(req[c].at) + 1 /\ HeldDraw(req[c].at) \in Nat
  BY <1>1, Calendar
<1>3. req[c].draw <= published /\ published <= HeldDraw(req[c].at) /\ req[c].at <= clock
  BY DEF CalendarOK
<1> QED
  BY <1>1, <1>2, <1>3 DEF RegistrationRound, WeeksAhead, Max2

(* A step of a room touches the tickets of its request's user only.         *)
LEMMA OwnTickets ==
  ASSUME TypeOK, CalendarOK, FlowOK, NEW c \in Rooms, Step(c)
  PROVE  /\ ~Running(c) => tickets' = tickets
         /\ \A t : t.user # req[c].user => (t \in tickets' <=> t \in tickets)
         /\ \A t \in tickets : t \notin tickets' => Deactivate(c)
<1>1. CASE UNCHANGED tickets
  BY <1>1
<1>2. CASE InsertTickets(c) /\ ~Taken(req[c])
  BY <1>2, NewTicketTypes DEF InsertTickets, Running
<1>3. CASE Deactivate(c)
  <2>1. \A t \in Doomed(req[c]) : t \in Ticket /\ t.user = req[c].user
    BY DEF Doomed, ActiveOf, TypeOK
  <2>2. \A t \in Doomed(req[c]) : [t EXCEPT !.active = FALSE].user = req[c].user
    BY <2>1, Deactivated
  <2> QED
    BY <1>3, <2>1, <2>2 DEF Deactivate, Running
<1>4. UNCHANGED tickets \/ (InsertTickets(c) /\ ~Taken(req[c])) \/ Deactivate(c)
  BY DEF Step, Start, Reply, Fail, RememberProfile, LatestDraw, FetchDraw, FetchFails, Touch,
     UpsertDraw, SyncShops, SummaryShops, SummaryFetchShops, SummaryTickets, QueryMine, Query,
     List, NextLineNo, InsertTickets, SelectTickets
<1> QED
  BY <1>1, <1>2, <1>3, <1>4

(* What a request that goes on knows to tell, if it knew before.            *)
Knows(T, r) ==
  /\ \A t \in r.seen : t.user = r.user
  /\ r.step \notin {"reply", "conflict"} => r.seen = ToldIn(T, r)
  /\ r.step = "reply" => AnsweredIn(T, r)

AtSteps(r) ==
  /\ r.step \in {"results", "pending", "current"} => r.op = "query"
  /\ r.step \in {"select", "deactivate"} => r.op \in {"delete", "deleteAll"}
  /\ r.step \in {"shops", "fetchShops", "players", "waiting"} => r.op = "summary"

(* Before the tables are read for the answer there is nothing to tell.      *)
LEMMA NothingToTell ==
  ASSUME NEW T, NEW r, r.step \notin {"pending", "current", "deactivate"}
  PROVE  ToldIn(T, r) = {}
BY DEF ToldIn

(* The statements of QueryMine find the tickets of the draw and of every    *)
(* round up to the open one.                                                *)
LEMMA QueryKnows ==
  ASSUME TypeOK, CalendarOK, NEW c \in Rooms, QueryMine(c), AtSteps(req[c]),
         \A t \in tickets : t.user = req[c].user => t.round <= OpenDraw(req[c].at),
         Knows(tickets, req[c])
  PROVE  Knows(tickets', req'[c])
<1>1. req[c] \in Requests /\ Running(c) /\ tickets' = tickets /\ req[c].op = "query"
  <2>1. Running(c) /\ tickets' = tickets /\ req[c].op = "query"
    BY DEF QueryMine, Query, Running, AtSteps
  <2> QED
    BY <2>1, RunningRequest
<1> DEFINE r == req[c]
           got(rounds) == {t \in HeldIn(tickets, r) : t.round \in rounds}
           read(rounds) == UNION {ActiveOf(r, x) : x \in rounds}
<1>2. \A rounds : read(rounds) = got(rounds)
  <2>1. \A rounds, t : t \in read(rounds) <=> t \in got(rounds)
    BY DEF ActiveOf, HeldIn
  <2> QED
    BY <2>1
<1>3. CASE Query(c, "results", "pending", {r.draw})
  <2>1. r.seen = {}
    BY <1>3, NothingToTell DEF Query, Knows
  <2>2. req'[c] = [r EXCEPT !.seen = r.seen \cup read({r.draw}), !.step = "pending"]
    BY <1>3 DEF Query, TypeOK
  <2>3. /\ req'[c].user = r.user /\ req'[c].draw = r.draw /\ req'[c].step = "pending"
        /\ req'[c].seen = got({r.draw})
    <3>1. /\ req'[c].user = r.user /\ req'[c].draw = r.draw /\ req'[c].step = "pending"
          /\ req'[c].seen = r.seen \cup read({r.draw})
      BY <1>1, <2>2 DEF Requests
    <3>2. read({r.draw}) = got({r.draw})
      BY <1>2
    <3> HIDE DEF read, got
    <3> QED
      BY <2>1, <3>1, <3>2
  <2> QED
    BY <1>1, <2>3 DEF Knows, ToldIn, ActiveIn, HeldIn
<1>4. CASE Query(c, "pending", "current", PendingRounds(r))
  <2>1. r.seen = got({r.draw})
    BY <1>4 DEF Query, Knows, ToldIn, ActiveIn, HeldIn
  <2>2. req'[c] = [r EXCEPT !.seen = r.seen \cup read(PendingRounds(r)), !.step = "current"]
    BY <1>4 DEF Query, TypeOK
  <2>3. /\ req'[c].user = r.user /\ req'[c].draw = r.draw /\ req'[c].step = "current"
        /\ PendingRounds(req'[c]) = PendingRounds(r)
        /\ req'[c].seen = got({r.draw}) \cup got(PendingRounds(r))
    <3>1. /\ req'[c].user = r.user /\ req'[c].draw = r.draw /\ req'[c].step = "current" /\ req'[c].at = r.at
          /\ req'[c].seen = r.seen \cup read(PendingRounds(r))
      BY <1>1, <2>2 DEF Requests
    <3>2. PendingRounds(req'[c]) = PendingRounds(r)
      BY <3>1 DEF PendingRounds, WeeksAhead
    <3> QED
      BY <1>2, <2>1, <3>1, <3>2
  <2>4. req'[c].seen = got({r.draw} \cup PendingRounds(r))
    BY <2>3
  <2>5. HeldIn(tickets', req'[c]) = HeldIn(tickets, r)
    BY <1>1, <2>3 DEF HeldIn
  <2> QED
    BY <1>1, <2>3, <2>4, <2>5 DEF Knows, ToldIn, HeldIn
<1>5. CASE Query(c, "current", "reply", {RegistrationRound(r)})
  <2>1. r.seen = got({r.draw} \cup PendingRounds(r))
    BY <1>5 DEF Query, Knows, ToldIn
  <2>2. req'[c] = [r EXCEPT !.seen = r.seen \cup read({RegistrationRound(r)}), !.step = "reply"]
    BY <1>5 DEF Query, TypeOK
  <2>3. /\ req'[c].user = r.user /\ req'[c].draw = r.draw /\ req'[c].step = "reply" /\ req'[c].op = "query"
        /\ req'[c].at = r.at
        /\ req'[c].seen = got({r.draw} \cup PendingRounds(r)) \cup got({RegistrationRound(r)})
    BY <1>1, <1>2, <2>1, <2>2 DEF Requests
  <2>4. /\ RegistrationRound(r) = OpenDraw(r.at) /\ r.draw \in Nat /\ OpenDraw(r.at) \in Nat
        /\ r.draw < OpenDraw(r.at) /\ WeeksAhead(r) = OpenDraw(r.at) - r.draw
    BY <1>1, RegistersOpen
  <2>5. HeldIn(tickets', req'[c]) = HeldIn(tickets, r)
    BY <1>1, <2>3 DEF HeldIn
  <2>6. ASSUME OpenDraw(r.at) <= r.draw + 2
        PROVE  req'[c].seen = {t \in HeldIn(tickets, r) : t.round >= r.draw}
    <3>1. \A x \in Nat : r.draw <= x /\ x <= OpenDraw(r.at)
                         <=> x = r.draw \/ x \in PendingRounds(r) \/ x = RegistrationRound(r)
      BY <2>4, <2>6 DEF PendingRounds
    <3>2. \A t \in HeldIn(tickets, r) : t.round \in Nat /\ t.round <= OpenDraw(r.at)
      BY LottoAssumption DEF TypeOK, Ticket, Rounds, HeldIn
    <3>3. \A t \in HeldIn(tickets, r) :
            t.round >= r.draw
            <=> t.round = r.draw \/ t.round \in PendingRounds(r) \/ t.round = RegistrationRound(r)
      BY <2>4, <3>1, <3>2
    <3> QED
      BY <2>3, <3>3
  <2>7. \A t \in req'[c].seen : t.user = req'[c].user
    BY <2>3 DEF HeldIn
  <2> QED
    BY <2>3, <2>5, <2>6, <2>7 DEF Knows, AnsweredIn
<1> QED
  BY <1>3, <1>4, <1>5 DEF QueryMine

(* Registering: the tickets told are held.                                  *)
LEMMA RegisterKnows ==
  ASSUME TypeOK, CalendarOK, FlowOK, NEW c \in Rooms, List(c) \/ NextLineNo(c) \/ InsertTickets(c),
         Knows(tickets, req[c])
  PROVE  Knows(tickets', req'[c])
<1>1. /\ req[c] \in Requests /\ Running(c) /\ req[c].op \in {"recommend", "manual"} /\ req[c].seen = {}
  <2>1. Running(c) /\ req[c].step \in {"list", "number", "insert"}
    BY DEF List, NextLineNo, InsertTickets, Running
  <2> QED
    BY <2>1, RunningRequest, NothingToTell DEF FlowOK, Knows
<1>2. ASSUME NEW S \in SUBSET HeldIn(tickets', req[c]), req'[c] = [req[c] EXCEPT !.seen = S, !.step = "reply"]
      PROVE  Knows(tickets', req'[c])
  <2>1. req'[c].op = req[c].op /\ req'[c].step = "reply" /\ req'[c].seen = S /\ req'[c].user = req[c].user
    BY <1>1, <1>2 DEF Requests
  <2> QED
    BY <1>1, <2>1 DEF Knows, AnsweredIn, HeldIn
<1>3. ASSUME req'[c].step \in {"number", "insert", "conflict"}, req'[c].seen = {}
      PROVE  Knows(tickets', req'[c])
  BY <1>3, NothingToTell DEF Knows
<1>4. CASE List(c)
  <2>1. CASE req' = [req EXCEPT ![c].seen = Existing(req[c]), ![c].step = "reply"]
    <3>1. Existing(req[c]) \in SUBSET HeldIn(tickets', req[c])
      BY <1>4 DEF List, Existing, ActiveOf, HeldIn
    <3> QED
      BY <1>2, <2>1, <3>1 DEF TypeOK
  <2>2. CASE To(c, "number")
    BY <1>1, <1>3, <2>2 DEF To, TypeOK, Requests
  <2> QED
    BY <1>4, <2>1, <2>2 DEF List
<1>5. CASE NextLineNo(c)
  <2>1. PICK k : req'[c] = [req[c] EXCEPT !.next = k, !.step = "insert"]
    BY <1>5 DEF NextLineNo, TypeOK
  <2> QED
    BY <1>1, <1>3, <2>1 DEF Requests
<1>6. CASE InsertTickets(c)
  <2>1. CASE Taken(req[c])
    BY <1>1, <1>3, <1>6, <2>1 DEF InsertTickets, To, TypeOK, Requests
  <2>2. CASE ~Taken(req[c])
    <3>1. NewTickets(req[c]) \in SUBSET HeldIn(tickets', req[c])
      BY <1>6, <2>2, NewTicketTypes DEF InsertTickets, HeldIn
    <3> QED
      BY <1>2, <1>6, <2>2, <3>1 DEF InsertTickets, TypeOK
  <2> QED
    BY <2>1, <2>2
<1> QED
  BY <1>4, <1>5, <1>6

(* Deleting: what is told is what was deactivated.                          *)
LEMMA DeleteKnows ==
  ASSUME TypeOK, CalendarOK, NEW c \in Rooms, SelectTickets(c) \/ Deactivate(c), AtSteps(req[c]),
         Knows(tickets, req[c])
  PROVE  Knows(tickets', req'[c])
<1> DEFINE r == req[c]
           D == Doomed(r)
<1>1. r \in Requests /\ Running(c) /\ r.op \in {"delete", "deleteAll"}
  <2>1. Running(c) /\ r.step \in {"select", "deactivate"}
    BY DEF SelectTickets, Deactivate, Running
  <2> QED
    BY <2>1, RunningRequest DEF AtSteps
<1>2. D = DoomedIn(tickets, r) /\ D \subseteq tickets /\ \A t \in D : t \in Ticket /\ t.active /\ t.user = r.user
  BY DEF Doomed, DoomedIn, ActiveOf, ActiveIn, TypeOK
<1>3. r.op = "deleteAll" => D = ActiveIn(tickets, r, RegistrationRound(r))
  BY <1>2 DEF DoomedIn
<1>4. CASE SelectTickets(c)
  <2>1. req'[c] = [r EXCEPT !.seen = D, !.step = IF D = {} THEN "reply" ELSE "deactivate"] /\ tickets' = tickets
    BY <1>4 DEF SelectTickets, TypeOK
  <2>2. /\ req'[c].op = r.op /\ req'[c].user = r.user /\ req'[c].seen = D /\ req'[c].n = r.n
        /\ req'[c].step = IF D = {} THEN "reply" ELSE "deactivate"
        /\ RegistrationRound(req'[c]) = RegistrationRound(r)
    BY <1>1, <2>1 DEF Requests, RegistrationRound, WeeksAhead
  <2>3. DoomedIn(tickets', req'[c]) = D
    BY <1>2, <2>1, <2>2 DEF DoomedIn, ActiveIn
  <2>4. ActiveIn(tickets', req'[c], RegistrationRound(req'[c])) = ActiveIn(tickets, r, RegistrationRound(r))
    BY <2>1, <2>2 DEF ActiveIn
  <2>5. CASE D = {}
    BY <1>1, <1>2, <1>3, <2>2, <2>4, <2>5 DEF Knows, AnsweredIn
  <2>6. CASE D # {}
    BY <1>2, <2>2, <2>3, <2>6 DEF Knows, ToldIn
  <2> QED
    BY <2>5, <2>6
<1>5. CASE Deactivate(c)
  <2>1. r.seen = D
    BY <1>2, <1>5 DEF Deactivate, Knows, ToldIn
  <2>2. req'[c] = [r EXCEPT !.step = "reply"]
    BY <1>5 DEF Deactivate, To, TypeOK
  <2>3. /\ req'[c].op = r.op /\ req'[c].user = r.user /\ req'[c].seen = D /\ req'[c].step = "reply"
        /\ RegistrationRound(req'[c]) = RegistrationRound(r)
    BY <1>1, <2>1, <2>2 DEF Requests, RegistrationRound, WeeksAhead
  <2>4. \A t \in tickets' : t \in tickets \ D \/ ~t.active
    <3>1. \A t \in D : ~[t EXCEPT !.active = FALSE].active
      BY <1>2, Deactivated
    <3> QED
      BY <1>5, <3>1 DEF Deactivate
  <2>5. D \cap tickets' = {}
    BY <1>2, <2>4
  <2>6. r.op = "deleteAll" => ActiveIn(tickets', req'[c], RegistrationRound(req'[c])) = {}
    BY <1>3, <2>3, <2>4 DEF ActiveIn
  <2> QED
    BY <1>1, <1>2, <2>3, <2>5, <2>6 DEF Knows, AnsweredIn
<1> QED
  BY <1>4, <1>5

(* The steps before the tables are read, and those of a summary.            *)
Preparing(c) ==
  \/ RememberProfile(c) \/ LatestDraw(c) \/ FetchDraw(c) \/ FetchFails(c) \/ Touch(c) \/ UpsertDraw(c)
  \/ SyncShops(c) \/ SummaryShops(c) \/ SummaryFetchShops(c) \/ SummaryTickets(c)

(* They tell nothing yet: only a message without numbers, and a summary,    *)
(* are answered by them.                                                    *)
LEMMA PrepareKnows ==
  ASSUME TypeOK, CalendarOK, FlowOK, NEW c \in Rooms, Preparing(c), AtSteps(req[c])
  PROVE  /\ AtSteps(req'[c])
         /\ Knows(tickets, req[c]) => Knows(tickets', req'[c])
<1> DEFINE r == req[c]
           early == {"latest", "fetch", "touch", "store", "sync"}
           shown == {"shops", "fetchShops", "players", "waiting"}
<1>1. r \in Requests /\ tickets' = tickets /\ r.step \in {"profile"} \cup early \cup shown
  <2>1. Running(c) /\ tickets' = tickets /\ r.step \in {"profile"} \cup early \cup shown
    BY DEF Preparing, RememberProfile, LatestDraw, FetchDraw, FetchFails, Touch, UpsertDraw, SyncShops,
       SummaryShops, SummaryFetchShops, SummaryTickets, Running
  <2> QED
    BY <2>1, RunningRequest
<1>2. Knows(tickets, r) => r.seen = {}
  BY <1>1, NothingToTell DEF Knows
<1>3. /\ req'[c].op = r.op /\ req'[c].seen = r.seen
      /\ \/ req'[c].step \in early
         \/ req'[c].step = First[r.op]
         \/ req'[c].step = "reply" /\ r.op = "manual"
         \/ req'[c].step \in shown \cup {"reply"} /\ r.op = "summary"
  <2>1. ASSUME NEW d, NEW s, \/ req' = [req EXCEPT ![c].draw = d, ![c].step = s]
                             \/ req' = [req EXCEPT ![c].step = s]
        PROVE  req'[c].op = r.op /\ req'[c].seen = r.seen /\ req'[c].step = s
    <3>1. req'[c] = [r EXCEPT !.draw = d, !.step = s] \/ req'[c] = [r EXCEPT !.step = s]
      BY <2>1 DEF TypeOK
    <3> QED
      BY <1>1, <3>1 DEF Requests
  <2>2. ASSUME NEW d, Work(c, d)
        PROVE  req'[c].op = r.op /\ req'[c].seen = r.seen /\ req'[c].step = First[r.op]
    BY <2>1, <2>2 DEF Work
  <2>3. ASSUME NEW s, To(c, s)
        PROVE  req'[c].op = r.op /\ req'[c].seen = r.seen /\ req'[c].step = s
    BY <2>1, <2>3 DEF To
  <2>4. CASE LatestDraw(c) \/ Touch(c) \/ SyncShops(c)
    <3>1. \E d : Work(c, d) \/ req' = [req EXCEPT ![c].draw = d, ![c].step = "fetch"]
      BY <2>4 DEF LatestDraw, Touch, SyncShops
    <3> QED
      BY <2>1, <2>2, <3>1
  <2>5. CASE FetchDraw(c)
    BY <2>1, <2>5 DEF FetchDraw
  <2>6. CASE RememberProfile(c)
    <3>1. To(c, "latest") \/ (To(c, "reply") /\ r.op = "manual")
      BY <2>6 DEF RememberProfile
    <3> QED
      BY <2>3, <3>1
  <2>7. CASE FetchFails(c) \/ UpsertDraw(c)
    BY <2>3, <2>7 DEF FetchFails, UpsertDraw
  <2>8. CASE SummaryShops(c) \/ SummaryFetchShops(c) \/ SummaryTickets(c)
    <3>1. r.op = "summary"
      BY <2>8 DEF SummaryShops, SummaryFetchShops, SummaryTickets, AtSteps
    <3>2. PICK s \in {"players", "fetchShops", "waiting", "reply"} : To(c, s)
      BY <2>8 DEF SummaryShops, SummaryFetchShops, SummaryTickets
    <3> QED
      BY <2>3, <3>1, <3>2
  <2> QED
    BY <2>4, <2>5, <2>6, <2>7, <2>8 DEF Preparing
<1>4. /\ First[r.op] \in {"shops", "list", "results", "select"}
      /\ First[r.op] = "shops" => r.op = "summary"
      /\ First[r.op] = "results" => r.op = "query"
      /\ First[r.op] = "select" => r.op \in {"delete", "deleteAll"}
  <2>1. r.op \in Ops
    BY <1>1 DEF Requests
  <2> QED
    BY <2>1 DEF First, Ops
<1>5. AtSteps(req'[c])
  BY <1>3, <1>4 DEF AtSteps
<1>6. ASSUME Knows(tickets, r) PROVE Knows(tickets', req'[c])
  <2>1. req'[c].seen = {} /\ req'[c].step \notin {"pending", "current", "deactivate"}
    BY <1>2, <1>3, <1>4, <1>6
  <2>2. ToldIn(tickets', req'[c]) = {}
    BY <2>1, NothingToTell
  <2>3. req'[c].step = "reply" => r.op \in {"manual", "summary"}
    BY <1>3, <1>4
  <2> QED
    BY <1>3, <2>1, <2>2, <2>3 DEF Knows, AnsweredIn
<1> QED
  BY <1>5, <1>6

(* A command's steps are of that command.                                   *)
LEMMA StepAt ==
  ASSUME TypeOK, CalendarOK, FlowOK, NEW c \in Rooms, Step(c), AtSteps(req[c])
  PROVE  AtSteps(req'[c])
<1>1. CASE Start(c) \/ Reply(c) \/ Fail(c)
  <2>1. req'[c].step \in {"idle", "latest", "profile"}
    BY <1>1 DEF Start, Reply, Fail, Request, Idle, TypeOK
  <2> QED
    BY <2>1 DEF AtSteps
<1>2. CASE Preparing(c)
  BY <1>2, PrepareKnows
<1>3. CASE QueryMine(c) \/ SelectTickets(c)
  <2>1. PICK S : \E s \in {"pending", "current", "reply", "deactivate"} :
          /\ req'[c] = [req[c] EXCEPT !.seen = S, !.step = s]
          /\ s \in {"pending", "current"} => req[c].step \in {"results", "pending"}
          /\ s = "deactivate" => req[c].step = "select"
    BY <1>3 DEF QueryMine, Query, SelectTickets, TypeOK
  <2>2. req[c] \in Requests
    BY <1>3, RunningRequest DEF QueryMine, Query, SelectTickets, Running
  <2> QED
    BY <2>1, <2>2 DEF AtSteps, Requests
<1>4. CASE List(c) \/ NextLineNo(c) \/ InsertTickets(c) \/ Deactivate(c)
  <2>1. req[c] \in Requests
    BY <1>4, RunningRequest DEF List, NextLineNo, InsertTickets, Deactivate, Running
  <2>2. req'[c].step \in {"reply", "number", "insert", "conflict"}
    <3>1. ASSUME NEW s, To(c, s) PROVE req'[c].step = s
      BY <2>1, <3>1 DEF To, TypeOK, Requests
    <3>2. ASSUME NEW S, NEW s, req' = [req EXCEPT ![c].seen = S, ![c].step = s] PROVE req'[c].step = s
      BY <2>1, <3>2 DEF TypeOK, Requests
    <3>3. CASE NextLineNo(c)
      BY <2>1, <3>3 DEF NextLineNo, TypeOK, Requests
    <3> QED
      BY <1>4, <3>1, <3>2, <3>3 DEF List, InsertTickets, Deactivate
  <2> QED
    BY <2>2 DEF AtSteps
<1> QED
  BY <1>1, <1>2, <1>3, <1>4 DEF Step, Preparing

(* The step of a room keeps every answer true: its own request reads and    *)
(* writes what the tables hold, and another request of that user would be   *)
(* known to have met it.                                                    *)
LEMMA StepAnswer ==
  ASSUME TypeOK, CalendarOK, FlowOK, OverlapOK, AnswerOK, NEW c \in Rooms, Step(c)
  PROVE  AnswerOK'
<1>1. clock' = clock /\ clock \in Nat /\ \A d \in Rooms : AtSteps(req[d])
  BY OtherState, LottoAssumption DEF AnswerOK, AtSteps, TypeOK, Phases
<1>2. \A t \in tickets' \ tickets : t.round = OpenDraw(req[c].at) /\ t.user = req[c].user /\ Running(c)
  BY TicketsAfter, RegistersOpen
<1>3. ASSUME NEW t \in tickets' PROVE t.round <= OpenDraw(clock)
  <2>1. CASE t \in tickets
    BY <2>1 DEF AnswerOK
  <2>2. CASE t \notin tickets
    BY <1>2, <2>2, RegistersOpen, OpenRises
  <2> QED
    BY <2>1, <2>2
<1>4. \A d \in Rooms : AtSteps(req'[d])
  BY <1>1, StepAt, OwnRequest
<1>5. ASSUME NEW d \in Rooms \ met', req'[d].step # "idle"
      PROVE  /\ \A t \in tickets' : t.user = req'[d].user => t.round <= OpenDraw(req'[d].at)
             /\ Knows(tickets', req'[d])
  <2>1. CASE d # c
    <3>1. req'[d] = req[d] /\ d \notin met /\ Running(d)
      BY <1>5, <2>1, OwnRequest, OtherState DEF Running
    <3>2. \A t : t.user = req[d].user => (t \in tickets <=> t \in tickets')
      <4>1. CASE Running(c)
        <5>1. req[c].user # req[d].user
          BY <2>1, <3>1, <4>1 DEF OverlapOK
        <5> QED
          BY <5>1, OwnTickets
      <4>2. CASE ~Running(c)
        BY <4>2, OwnTickets
      <4> QED
        BY <4>1, <4>2
    <3>3. Knows(tickets, req[d])
      BY <3>1, InTables DEF AnswerOK, AnswersAreTrue, Knows
    <3>4. Knows(tickets', req[d])
      <4>1. /\ ToldIn(tickets, req[d]) = ToldIn(tickets', req[d])
            /\ HeldIn(tickets, req[d]) = HeldIn(tickets', req[d])
            /\ \A round : ActiveIn(tickets, req[d], round) = ActiveIn(tickets', req[d], round)
        <5> DEFINE T == tickets
                   U == tickets'
                   x == req[d]
        <5>1. \A t : t.user = x.user => (t \in T <=> t \in U)
          BY <3>2
        <5> HIDE DEF T, U, x
        <5>2. /\ ToldIn(T, x) = ToldIn(U, x)
              /\ HeldIn(T, x) = HeldIn(U, x)
              /\ \A round : ActiveIn(T, x, round) = ActiveIn(U, x, round)
          BY <5>1, OthersTickets
        <5> QED
          BY <5>2 DEF T, U, x
      <4>2. req[d].op \in {"delete", "deleteAll"} /\ req[d].step = "reply" /\ req[d].seen \cap tickets = {}
            => req[d].seen \cap tickets' = {}
        BY <3>2, <3>3 DEF Knows
      <4> QED
        <5>1. req[d].op \in Ops
          BY <3>1, RunningRequest DEF Requests
        <5>2. req[d].step = "reply" /\ AnsweredIn(tickets, req[d]) => AnsweredIn(tickets', req[d])
          BY <4>1, <4>2, <5>1 DEF AnsweredIn, Ops
        <5> QED
          BY <3>3, <4>1, <5>2 DEF Knows
    <3> QED
      BY <3>1, <3>2, <3>4 DEF AnswerOK
  <2>2. CASE d = c /\ ~Running(c)
    <3>1. Start(c)
      BY <2>2 DEF Running, Step, Reply, Fail, RememberProfile, LatestDraw, FetchDraw, FetchFails, Touch,
         UpsertDraw, SyncShops, SummaryShops, SummaryFetchShops, SummaryTickets, QueryMine, Query,
         List, NextLineNo, InsertTickets, SelectTickets, Deactivate
    <3>2. PICK op \in Ops, u \in Users : \E n : req'[c] = Request(op, u, n)
      BY <3>1 DEF Start, TypeOK
    <3>3. req'[c].seen = {} /\ req'[c].at = clock /\ req'[c].step \in {"latest", "profile"}
      BY <3>2 DEF Request
    <3> QED
      BY <1>3, <2>2, <3>3, NothingToTell DEF Knows
  <2>3. CASE d = c /\ Running(c)
    <3>1. ~Start(c) /\ ~Reply(c) /\ ~Fail(c)
      BY <1>5, <2>3 DEF Start, Reply, Fail, TypeOK, Idle
    <3>2. met' = met
      BY <3>1 DEF Step, RememberProfile, LatestDraw, FetchDraw, FetchFails, Touch, UpsertDraw, SyncShops,
         SummaryShops, SummaryFetchShops, SummaryTickets, QueryMine, Query, List, NextLineNo,
         InsertTickets, SelectTickets, Deactivate
    <3>3. req'[c].user = req[c].user /\ req'[c].at = req[c].at
      BY <1>5, <2>3, RequestFlow DEF Flows
    <3>4. \A t \in tickets : t.user = req[c].user => t.round <= OpenDraw(req[c].at)
      BY <1>5, <2>3, <3>2 DEF AnswerOK
    <3>5. \A t \in tickets' : t.user = req'[c].user => t.round <= OpenDraw(req'[c].at)
      <4>1. OpenDraw(req[c].at) <= OpenDraw(req[c].at)
        BY <2>3, RegistersOpen
      <4> QED
        BY <1>2, <3>3, <3>4, <4>1
    <3>6. Knows(tickets, req[c])
      BY <1>5, <2>3, <3>2, InTables DEF AnswerOK, AnswersAreTrue, Knows
    <3>7. Knows(tickets', req'[c])
      <4>1. AtSteps(req[c])
        BY <1>1
      <4>2. CASE Preparing(c)
        BY <3>6, <4>1, <4>2, PrepareKnows
      <4>3. CASE QueryMine(c)
        BY <3>4, <3>6, <4>1, <4>3, QueryKnows
      <4>4. CASE List(c) \/ NextLineNo(c) \/ InsertTickets(c)
        BY <3>6, <4>4, RegisterKnows
      <4>5. CASE SelectTickets(c) \/ Deactivate(c)
        BY <3>6, <4>1, <4>5, DeleteKnows
      <4> QED
        BY <3>1, <4>2, <4>3, <4>4, <4>5 DEF Step, Preparing
    <3> QED
      BY <2>3, <3>5, <3>7
  <2> QED
    BY <2>1, <2>2, <2>3
<1>6. ASSUME NEW d \in Rooms, req'[d].step = "reply", d \notin met' PROVE Answered(req[d])'
  <2>1. Knows(tickets', req'[d])
    BY <1>5, <1>6
  <2> QED
    BY <1>6, <2>1, InTables DEF Knows
<1>7. ASSUME NEW d \in Rooms, d \notin met', req'[d].step \notin {"idle", "reply", "conflict"}
      PROVE  req'[d].seen = Told(req[d])'
  <2>1. Knows(tickets', req'[d])
    BY <1>5, <1>7
  <2> QED
    BY <1>7, <2>1, InTables DEF Knows
<1>8. \A d \in Rooms \ met' : req'[d].step # "idle" => \A t \in req'[d].seen : t.user = req'[d].user
  BY <1>5 DEF Knows
<1>9. AnswersAreTrue'
  BY <1>6 DEF AnswersAreTrue
<1> QED
  BY <1>1, <1>3, <1>4, <1>5, <1>7, <1>8, <1>9 DEF AnswerOK, AtSteps, Running

------------------------------------------------------------------------------
(* No request runs, and the tables hold the first draw or nothing.          *)
LEMMA Initially == Init => IInv
<1> SUFFICES ASSUME Init PROVE IInv
  OBVIOUS
<1> USE LottoAssumption DEF Init
<1>1. TypeOK
  BY DEF TypeOK, Phases, Rounds, NoDraw, Idle
<1>2. \A c \in Rooms : ~Running(c) /\ req[c].step = "idle"
  BY DEF Running, Idle
<1>3. CalendarOK
  BY <1>2 DEF CalendarOK, HeldDraw
<1>4. FlowOK /\ OverlapOK
  BY <1>2 DEF FlowOK, OverlapOK
<1>5. AnswerOK
  BY <1>2 DEF AnswerOK, AnswersAreTrue
<1> QED
  BY <1>1, <1>3, <1>4, <1>5 DEF IInv

(* A phase goes by: no draw published was held later than it.               *)
LEMMA TickPreserves == IInv /\ Tick => IInv'
<1> SUFFICES ASSUME IInv, Tick PROVE IInv'
  OBVIOUS
<1> USE DEF IInv, Tick
<1>1. clock \in Nat /\ MaxPhase \in Nat /\ clock < MaxPhase /\ clock' = clock + 1
  BY LottoAssumption DEF TypeOK, Phases
<1>2. UNCHANGED <<published, draws, written, shops, tickets, req, made, met>>
  OBVIOUS
<1>3. TypeOK'
  BY <1>1, <1>2 DEF TypeOK, Phases
<1>4. HeldDraw(clock) \in Nat /\ HeldDraw(clock') \in Nat /\ HeldDraw(clock) <= HeldDraw(clock')
  BY <1>1, Calendar
<1>5. published \in Nat
  BY <1>1 DEF TypeOK, Rounds
<1>6. 1 <= published /\ published <= HeldDraw(clock')
  BY <1>4, <1>5 DEF CalendarOK
<1>7. \A c \in Rooms : Running(c) => req[c].at <= clock'
  BY <1>1
<1>8. CalendarOK'
  BY <1>2, <1>6, <1>7 DEF CalendarOK, Running
<1>9. FlowOK' /\ OverlapOK'
  BY <1>2 DEF FlowOK, OverlapOK, Running, Existing, ActiveOf
<1>10. \A t \in tickets' : t.round <= OpenDraw(clock')
  <2>1. OpenDraw(clock) \in Nat /\ OpenDraw(clock') \in Nat /\ OpenDraw(clock) <= OpenDraw(clock')
    BY <1>1, OpenRises
  <2>2. \A t \in tickets : t.round \in Nat /\ t.round <= OpenDraw(clock)
    BY LottoAssumption DEF AnswerOK, TypeOK, Ticket, Rounds
  <2> QED
    BY <1>2, <2>1, <2>2
<1>11. AnswersAreTrue' /\ \A c \in Rooms : Told(req[c])' = Told(req[c])
  BY <1>2, InTables DEF AnswerOK, AnswersAreTrue
<1>12. AnswerOK'
  BY <1>2, <1>10, <1>11 DEF AnswerOK, Running
<1> QED
  BY <1>3, <1>8, <1>9, <1>12

(* The site shows the next draw, which every running request may know.      *)
LEMMA PublishPreserves == IInv /\ Publish => IInv'
<1> SUFFICES ASSUME IInv, Publish PROVE IInv'
  OBVIOUS
<1> USE DEF IInv, Publish
<1>1. clock \in Nat /\ clock <= MaxPhase /\ MaxPhase \in Nat /\ published \in Nat
  BY LottoAssumption DEF TypeOK, Phases, Rounds
<1>2. UNCHANGED <<clock, draws, written, shops, tickets, req, made, met>> /\ published' = published + 1
  OBVIOUS
<1>3. HeldDraw(clock) \in Nat /\ HeldDraw(clock) <= clock + 1 /\ published' <= HeldDraw(clock)
  BY <1>1, <1>2, Calendar
<1>4. TypeOK'
  BY <1>1, <1>2, <1>3 DEF TypeOK, Rounds
<1>5. \A d \in draws : d \in Nat /\ d <= published'
  BY <1>1, <1>2 DEF CalendarOK, TypeOK, Rounds
<1>6. ASSUME NEW c \in Rooms, Running(c)
      PROVE  published' <= HeldDraw(req[c].at) /\ req[c].draw <= published'
  <2>1. req[c].at \in Nat /\ req[c].draw \in Nat
    BY <1>6, RunningRequest, <1>1 DEF Requests, Phases, Rounds
  <2>2. HeldDraw(req[c].at) \in Nat /\ published < HeldDraw(req[c].at) /\ req[c].draw <= published
    BY <1>6, <2>1, Calendar DEF CalendarOK
  <2> QED
    BY <1>1, <1>2, <2>1, <2>2
<1>7. CalendarOK'
  BY <1>1, <1>2, <1>3, <1>5, <1>6 DEF CalendarOK, Running
<1>8. FlowOK' /\ OverlapOK'
  BY <1>2 DEF FlowOK, OverlapOK, Running, Existing, ActiveOf
<1>9. AnswersAreTrue' /\ \A c \in Rooms : Told(req[c])' = Told(req[c])
  BY <1>2, InTables DEF AnswerOK, AnswersAreTrue
<1>10. AnswerOK'
  BY <1>2, <1>9 DEF AnswerOK, Running
<1> QED
  BY <1>4, <1>7, <1>8, <1>10

(* Types, calendar, flow, overlaps and answers hold of every reachable      *)
(* state, for any rooms, users, numbers of lines and bounds.                *)
THEOREM Inductive == Spec => []IInv
<1>1. Init => IInv
  BY Initially
<1>2. IInv /\ [Next]_vars => IInv'
  <2>1. ASSUME IInv, NEW c \in Rooms, Step(c) PROVE IInv'
    BY <2>1, StepTypes, StepCalendar, StepFlow, StepOverlap, StepAnswer DEF IInv
  <2>2. ASSUME IInv, UNCHANGED vars PROVE IInv'
    <3>1. TypeOK' /\ CalendarOK' /\ FlowOK' /\ OverlapOK'
      BY <2>2 DEF vars, IInv, TypeOK, CalendarOK, FlowOK, OverlapOK, Running, Existing, ActiveOf
    <3>2. AnswersAreTrue' /\ \A c \in Rooms : Told(req[c])' = Told(req[c])
      BY <2>2, InTables DEF vars, IInv, AnswerOK, AnswersAreTrue
    <3>3. AnswerOK'
      BY <2>2, <3>2 DEF vars, IInv, AnswerOK, Running
    <3> QED
      BY <3>1, <3>3 DEF IInv
  <2> QED
    BY <2>1, <2>2, TickPreserves, PublishPreserves DEF Next, Rest
<1> QED
  BY <1>1, <1>2, PTL DEF Spec

(* The tables hold rounds, tickets of users and one ticket a line, shops    *)
(* only of stored draws, and every request is one of the commands.          *)
THEOREM TypeCorrect == Spec => []TypeOK
<1>1. IInv => TypeOK
  BY DEF IInv
<1> QED
  BY <1>1, Inductive, PTL

(* Where the tickets of a step come from, in any state of the invariant.    *)
LEMMA NewTicketsAreOpen ==
  ASSUME IInv, [Next]_vars, NEW t \in tickets' \ tickets
  PROVE  \E b \in Rooms :
           /\ Running(b) /\ t.user = req[b].user
           /\ t.round = RegistrationRound(req[b]) /\ t.round > published
           /\ t.active => req[b].step = "insert" /\ t \in NewTickets(req[b])
<1>1. PICK b \in Rooms : Step(b)
  BY DEF Next, Tick, Publish, Rest, vars
<1> QED
  BY <1>1, TicketsAfter, RunningRequest DEF IInv

(* No ticket of a round is added or taken back once its draw is published:  *)
(* for however many requests, rooms, users and weeks.                       *)
THEOREM DrawnRounds == Spec => DrawnRoundsAreClosed
<1> DEFINE A == \A t \in tickets' \ tickets : t.round > published
<1>1. IInv /\ [Next]_vars => A
  BY NewTicketsAreOpen
<1>2. DrawnRoundsAreClosed <=> [][A]_vars
  BY DEF DrawnRoundsAreClosed
<1>3. Spec => [][A]_vars
  BY <1>1, Inductive, PTL DEF Spec
<1> QED
  BY <1>2, <1>3

(* A user gets a second recommendation of a round only if two requests of   *)
(* that user ran together.                                                  *)
THEOREM OneRecommendation == Spec => RecommendedOnce
<1> DEFINE A == \A c \in Rooms, t \in tickets' \ tickets :
                  /\ req[c].step = "insert" /\ req'[c].step = "reply"
                  /\ t.user = req[c].user /\ t.source = "recommend" /\ t.active
                  /\ \E x \in Held(req[c]) : x.round = t.round /\ x.source = "recommend"
                  => c \in met
<1>1. IInv /\ [Next]_vars => A
  <2> SUFFICES ASSUME IInv, [Next]_vars, NEW c \in Rooms, NEW t \in tickets' \ tickets,
                      req[c].step = "insert", t.user = req[c].user, t.source = "recommend", t.active,
                      NEW x \in Held(req[c]), x.round = t.round, x.source = "recommend"
               PROVE  c \in met
    OBVIOUS
  <2>1. PICK b \in Rooms : /\ Running(b) /\ t.user = req[b].user /\ t.round = RegistrationRound(req[b])
                           /\ req[b].step = "insert" /\ t \in NewTickets(req[b])
    BY NewTicketsAreOpen
  <2>2. CASE b # c
    BY <2>1, <2>2 DEF IInv, OverlapOK, Running
  <2>3. CASE b = c
    <3>1. req[c].op = "recommend"
      BY <2>1, <2>3, NewTicketTypes DEF IInv
    <3>2. x \in Existing(req[c])
      BY <2>1, <2>3 DEF Held, Existing, ActiveOf
    <3> QED
      BY <3>1, <3>2 DEF IInv, OverlapOK
  <2> QED
    BY <2>2, <2>3
<1>2. RecommendedOnce <=> [][A]_vars
  BY DEF RecommendedOnce
<1>3. Spec => [][A]_vars
  BY <1>1, Inductive, PTL DEF Spec
<1> QED
  BY <1>2, <1>3

(* The answer to a request that met no other of its user is what the tables *)
(* hold: the recommendation, the lines registered, the lines deleted, and   *)
(* every ticket of the draw and the rounds after it.                        *)
THEOREM TrueAnswers == Spec => []AnswersAreTrue
<1>1. IInv => AnswersAreTrue
  BY DEF IInv, AnswerOK
<1> QED
  BY <1>1, Inductive, PTL
==============================================================================
