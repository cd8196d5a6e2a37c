-------------------------------- MODULE Lotto --------------------------------
(***************************************************************************)
(* The lotto feature: internal/lotto/service.go over the SQLite tables of  *)
(* internal/store/lotto.go and the lottery's site (providers/dhlottery.go).*)
(* Messages of one chat room are handled one after the other, those of     *)
(* different rooms together, and nothing orders the requests that a user   *)
(* makes in two rooms.  A step is one SQL statement or transaction, or one *)
(* call of the site.                                                       *)
(*                                                                         *)
(* Time is a sequence of phases.  Phase 2k is the week up to Saturday      *)
(* 20:00, where tickets for draw k + 2 are sold and draw k + 1 is expected *)
(* to be published; phase 2k + 1 is that Saturday from 20:00 to 21:30,     *)
(* where draw k + 2 is held and tickets are for draw k + 3.  A draw is     *)
(* named by its round; rounds and Saturdays correspond one to one.         *)
(* Numbers, prizes, shops and profiles are data and left out.              *)
(***************************************************************************)
EXTENDS Naturals, FiniteSets

CONSTANTS
  Rooms, Users,
  RecommendLines,   \* lines of a recommendation, 5 in the code
  ManualSets,       \* how many sets of six numbers a message may hold; 0 if they are invalid
  MaxPhase,         \* bound: phases
  MaxRequests       \* bound: requests made

ASSUME LottoAssumption ==
  /\ RecommendLines \in Nat \ {0} /\ ManualSets \subseteq Nat
  /\ MaxPhase \in Nat /\ MaxRequests \in Nat

VARIABLES
  clock,      \* the phase
  published,  \* the last round the site shows
  draws,      \* rounds in lotto_draws
  written,    \* the phase of the update_time of the latest draw
  shops,      \* rounds with rows in lotto_draw_first_prize_shops
  tickets,    \* lotto_tickets
  req,        \* req[c]: the request that room c is handling
  made,       \* requests made
  met         \* history: rooms whose request overlapped another of its user

vars == <<clock, published, draws, written, shops, tickets, req, made, met>>

Ops == {"summary", "recommend", "manual", "query", "delete", "deleteAll"}
NoDraw == 0
Rounds == 0 .. MaxPhase + 3
Phases == 0 .. MaxPhase

Ticket == [user : Users, round : Rounds, line : Nat, source : {"recommend", "manual"}, active : BOOLEAN]

Idle == [step |-> "idle"]
Running(c) == req[c].step # "idle"

(* n: the sets of numbers of "manual", the line of "delete".  at: the phase *)
(* when the command took its time.  seen: the tickets the answer will tell. *)
Request(op, u, n) ==
  [step |-> IF op = "summary" THEN "latest" ELSE "profile",
   op |-> op, user |-> u, n |-> n, at |-> clock, draw |-> NoDraw, seen |-> {}, next |-> 0]

Max2(a, b) == IF a >= b THEN a ELSE b

(* ORDER BY round DESC LIMIT 1; NoDraw if there is no row.                  *)
Latest(d) == d \in draws \cup {NoDraw} /\ \A s \in draws : s <= d

Init ==
  /\ clock = 0 /\ published = 1
  /\ draws \in {{}, {1}} /\ written = 0 /\ shops = {} /\ tickets = {}
  /\ req = [c \in Rooms |-> Idle]
  /\ made = 0 /\ met = {}

------------------------------------------------------------------------------
(* The calendar.                                                            *)

ExpectedDraw(p) == (p \div 2) + 1

MutOpenDraw(p) == (p \div 2) + 2  \* Defect: sales close at the end of Saturday

OpenDraw(p) == (p \div 2) + 2 + (p % 2)

(* weeksBetween, at least one.                                              *)
WeeksAhead(r) == Max2(1, IF OpenDraw(r.at) > r.draw THEN OpenDraw(r.at) - r.draw ELSE 0)

(* The round a request registers for, and the one between it and the draw   *)
(* it knows, if there is one.                                               *)
RegistrationRound(r) == r.draw + WeeksAhead(r)

MutPendingRounds(r) ==  \* Defect: only once two draws are missing
  IF WeeksAhead(r) > 2 THEN {r.draw + 1} ELSE {}

PendingRounds(r) == IF WeeksAhead(r) > 1 THEN {r.draw + 1} ELSE {}

(* Time passes and the site publishes the draws held.  A request makes at   *)
(* most three HTTP calls of ten seconds each: it does not outlast the phase *)
(* after its own, and one that began before sales closed is over when the   *)
(* draw, held half an hour later, is published.                             *)
HeldDraw(p) == (p \div 2) + 1 + (p % 2)

Tick ==
  /\ clock < MaxPhase
  /\ \A c \in Rooms : Running(c) => req[c].at = clock
  /\ clock' = clock + 1
  /\ UNCHANGED <<published, draws, written, shops, tickets, req, made, met>>

Publish ==
  /\ published < HeldDraw(clock)
  /\ \A c \in Rooms : Running(c) => published < HeldDraw(req[c].at)
  /\ published' = published + 1
  /\ UNCHANGED <<clock, draws, written, shops, tickets, req, made, met>>

------------------------------------------------------------------------------
(* A command arrives, is answered, or one of its calls fails.               *)

Start(c) ==
  /\ ~Running(c) /\ made < MaxRequests
  /\ \E op \in Ops, u \in Users, n \in ManualSets \cup {t.line : t \in tickets} :
       /\ op = "manual" => n \in ManualSets
       /\ op \notin {"manual", "delete"} => n = 0
       /\ op = "delete" => n > 0
       /\ req' = [req EXCEPT ![c] = Request(op, u, n)]
       /\ LET others == {d \in Rooms \ {c} : Running(d) /\ req[d].user = u}
          IN  met' = IF others = {} THEN met ELSE met \cup others \cup {c}
  /\ made' = made + 1
  /\ UNCHANGED <<clock, published, draws, written, shops, tickets>>

Reply(c) ==
  /\ req[c].step \in {"reply", "conflict"}
  /\ req' = [req EXCEPT ![c] = Idle]
  /\ met' = met \ {c}
  /\ UNCHANGED <<clock, published, draws, written, shops, tickets, made>>

To(c, step) == req' = [req EXCEPT ![c].step = step]

(* Errors of these calls end the command with an error message; those of    *)
(* TouchDrawUpdateTime and of the shop sync behind a fetch are ignored.     *)
Fail(c) ==
  /\ Running(c)
  /\ req[c].step \notin {"touch", "sync", "reply", "conflict"}
  /\ req[c].step = "fetch" => req[c].draw = NoDraw
  /\ req' = [req EXCEPT ![c] = Idle]
  /\ met' = met \ {c}
  /\ UNCHANGED <<clock, published, draws, written, shops, tickets, made>>

RememberProfile(c) ==
  /\ req[c].step = "profile"
  /\ To(c, IF req[c].op = "manual" /\ req[c].n = 0 THEN "reply" ELSE "latest")
  /\ UNCHANGED <<clock, published, draws, written, shops, tickets, made, met>>

------------------------------------------------------------------------------
(* latestState: the draw a command works with.                              *)

First == [summary |-> "shops", recommend |-> "list", manual |-> "list",
          query |-> "results", delete |-> "select", deleteAll |-> "select"]

Work(c, d) == req' = [req EXCEPT ![c].draw = d, ![c].step = First[req[c].op]]

(* The stored draw serves if it is the expected one, or if its row was      *)
(* written within the cooldown, which may be so in the phase it was written *)
(* in and the one after.                                                    *)
LatestDraw(c) ==
  /\ req[c].step = "latest"
  /\ \E d \in Rounds :
       /\ Latest(d)
       /\ \/ d = ExpectedDraw(req[c].at) /\ Work(c, d)
          \/ d \notin {NoDraw, ExpectedDraw(req[c].at)} /\ written + 1 >= clock /\ Work(c, d)
          \/ d # ExpectedDraw(req[c].at) /\ req' = [req EXCEPT ![c].draw = d, ![c].step = "fetch"]
  /\ UNCHANGED <<clock, published, draws, written, shops, tickets, made, met>>

FetchDraw(c) ==
  /\ req[c].step = "fetch"
  /\ req' = [req EXCEPT ![c].draw = published, ![c].step = "store"]
  /\ UNCHANGED <<clock, published, draws, written, shops, tickets, made, met>>

(* The stored draw serves when the site does not.                           *)
FetchFails(c) ==
  /\ req[c].step = "fetch" /\ req[c].draw # NoDraw
  /\ To(c, "touch")
  /\ UNCHANGED <<clock, published, draws, written, shops, tickets, made, met>>

Touch(c) ==
  /\ req[c].step = "touch"
  /\ \E ok \in BOOLEAN : written' = IF ok /\ Latest(req[c].draw) THEN req[c].at ELSE written
  /\ Work(c, req[c].draw)
  /\ UNCHANGED <<clock, published, draws, shops, tickets, made, met>>

UpsertDraw(c) ==
  /\ req[c].step = "store"
  /\ draws' = draws \cup {req[c].draw}
  /\ written' = IF \A s \in draws : s <= req[c].draw THEN clock ELSE written
  /\ To(c, "sync")
  /\ UNCHANGED <<clock, published, shops, tickets, made, met>>

(* The site's list of shops replaces the stored one, also when it is empty. *)
ReplacedShops(c) == {shops \cup {req[c].draw}, shops \ {req[c].draw}}

SyncShops(c) ==
  /\ req[c].step = "sync"
  /\ shops' \in ReplacedShops(c) \cup {shops}
  /\ Work(c, req[c].draw)
  /\ UNCHANGED <<clock, published, draws, written, tickets, made, met>>

------------------------------------------------------------------------------
(* Summary, which tells of every user: the shops, fetched now if there are  *)
(* none, the tickets of the draw and those of the open round; what it       *)
(* counts in them is left out.                                              *)

SummaryShops(c) ==
  /\ req[c].step = "shops"
  /\ To(c, IF req[c].draw \in shops THEN "players" ELSE "fetchShops")
  /\ UNCHANGED <<clock, published, draws, written, shops, tickets, made, met>>

SummaryFetchShops(c) ==
  /\ req[c].step = "fetchShops"
  /\ shops' \in ReplacedShops(c)
  /\ To(c, "players")
  /\ UNCHANGED <<clock, published, draws, written, tickets, made, met>>

ActiveOf(r, round) == {t \in tickets : t.user = r.user /\ t.round = round /\ t.active}

SummaryTickets(c) ==
  /\ req[c].step \in {"players", "waiting"}
  /\ To(c, IF req[c].step = "players" THEN "waiting" ELSE "reply")
  /\ UNCHANGED <<clock, published, draws, written, shops, tickets, made, met>>

------------------------------------------------------------------------------
(* QueryMine: the tickets of the draw, of the pending and of the open round.*)

Query(c, from, to, rounds) ==
  /\ req[c].step = from
  /\ req' = [req EXCEPT ![c].seen = @ \cup UNION {ActiveOf(req[c], x) : x \in rounds},
                        ![c].step = to]
  /\ UNCHANGED <<clock, published, draws, written, shops, tickets, made, met>>

QueryMine(c) ==
  \/ Query(c, "results", "pending", {req[c].draw})
  \/ Query(c, "pending", "current", PendingRounds(req[c]))
  \/ Query(c, "current", "reply", {RegistrationRound(req[c])})

------------------------------------------------------------------------------
(* Recommend and RegisterManual.                                            *)

MutExisting(r) ==  \* Defect: the manual lines of the round
  {t \in ActiveOf(r, RegistrationRound(r)) : t.source = "manual"}

(* filterTicketsBySource: the recommendation the user already has.          *)
Existing(r) == {t \in ActiveOf(r, RegistrationRound(r)) : t.source = "recommend"}

List(c) ==
  /\ req[c].step = "list"
  /\ IF req[c].op = "recommend" /\ Existing(req[c]) # {}
     THEN req' = [req EXCEPT ![c].seen = Existing(req[c]), ![c].step = "reply"]
     ELSE To(c, "number")
  /\ UNCHANGED <<clock, published, draws, written, shops, tickets, made, met>>

(* MAX(line_no) + 1, deleted lines included.                                *)
NextLineNo(c) ==
  /\ req[c].step = "number"
  /\ LET lines == {t.line : t \in {x \in tickets : /\ x.user = req[c].user
                                                   /\ x.round = RegistrationRound(req[c])}} IN
       \E top \in lines \cup {0} :
         /\ \A l \in lines : l <= top
         /\ req' = [req EXCEPT ![c].next = top + 1, ![c].step = "insert"]
  /\ UNCHANGED <<clock, published, draws, written, shops, tickets, made, met>>

NewTickets(r) ==
  LET lines == IF r.op = "recommend" THEN RecommendLines ELSE r.n
  IN  {[user |-> r.user, round |-> RegistrationRound(r), line |-> r.next + i,
        source |-> r.op, active |-> TRUE] : i \in 0 .. lines - 1}

(* (user_id, round, line_no) is unique: all lines go in or none.            *)
Taken(r) == \E t \in tickets, x \in NewTickets(r) :
              t.user = x.user /\ t.round = x.round /\ t.line = x.line

InsertTickets(c) ==
  /\ req[c].step = "insert"
  /\ IF Taken(req[c])
     THEN To(c, "conflict") /\ UNCHANGED tickets
     ELSE /\ tickets' = tickets \cup NewTickets(req[c])
          /\ req' = [req EXCEPT ![c].seen = NewTickets(req[c]), ![c].step = "reply"]
  /\ UNCHANGED <<clock, published, draws, written, shops, made, met>>

------------------------------------------------------------------------------
(* DeleteMine: the active lines are read, and then all lines that are still *)
(* active are deactivated; the answer lists those read.                     *)

Doomed(r) ==
  {t \in ActiveOf(r, RegistrationRound(r)) : r.op = "delete" => t.line = r.n}

SelectTickets(c) ==
  /\ req[c].step = "select"
  /\ req' = [req EXCEPT ![c].seen = Doomed(req[c]),
                        ![c].step = IF Doomed(req[c]) = {} THEN "reply" ELSE "deactivate"]
  /\ UNCHANGED <<clock, published, draws, written, shops, tickets, made, met>>

Deactivate(c) ==
  /\ req[c].step = "deactivate"
  /\ tickets' = (tickets \ Doomed(req[c])) \cup {[t EXCEPT !.active = FALSE] : t \in Doomed(req[c])}
  /\ To(c, "reply")
  /\ UNCHANGED <<clock, published, draws, written, shops, made, met>>

(* The bound on requests, not the system.                                   *)
Rest ==
  /\ made = MaxRequests /\ \A c \in Rooms : ~Running(c)
  /\ UNCHANGED vars

Step(c) ==
  \/ Start(c) \/ Reply(c) \/ Fail(c) \/ RememberProfile(c)
  \/ LatestDraw(c) \/ FetchDraw(c) \/ FetchFails(c) \/ Touch(c) \/ UpsertDraw(c) \/ SyncShops(c)
  \/ SummaryShops(c) \/ SummaryFetchShops(c) \/ SummaryTickets(c) \/ QueryMine(c)
  \/ List(c) \/ NextLineNo(c) \/ InsertTickets(c) \/ SelectTickets(c) \/ Deactivate(c)

Next == Tick \/ Publish \/ Rest \/ \E c \in Rooms : Step(c)

Spec == Init /\ [][Next]_vars
------------------------------------------------------------------------------
Steps == {"profile", "latest", "fetch", "touch", "store", "sync", "shops", "fetchShops", "players",
          "waiting", "results", "pending", "current", "list", "number", "insert", "select",
          "deactivate", "reply", "conflict"}

Requests == [step : Steps, op : Ops, user : Users, n : Nat, at : Phases, draw : Rounds,
             seen : SUBSET Ticket, next : Nat]

(* The types, the foreign key of the shops and the unique lines.            *)
TypeOK ==
  /\ clock \in Phases /\ written \in Phases /\ published \in Rounds
  /\ draws \subseteq Rounds \ {NoDraw} /\ shops \subseteq draws
  /\ tickets \subseteq Ticket
  /\ \A t, x \in tickets : t.user = x.user /\ t.round = x.round /\ t.line = x.line => t = x
  /\ req \in [Rooms -> {Idle} \cup Requests]
  /\ made \in 0 .. MaxRequests /\ met \subseteq Rooms

(* Once the site has published a draw nobody gets a ticket of that round    *)
(* and none is taken back, whichever draw the command knew, stored or       *)
(* stale, fetched before or after the close of sales.                       *)
DrawnRoundsAreClosed == [][\A t \in tickets' \ tickets : t.round > published]_vars

(* The answer a user reads is what the tables hold: the recommendation or   *)
(* the lines just registered are active; the lines called deleted are gone, *)
(* and after "delete" of all nothing of the open round is left; a query     *)
(* shows every active ticket of the draw and of the rounds not drawn yet,   *)
(* unless the stored draws lag two rounds behind.  Two requests of one user *)
(* at a time are the exception.                                             *)
Held(r) == {t \in tickets : t.user = r.user /\ t.active}

Answered(r) ==
  CASE r.op \in {"recommend", "manual"} -> r.seen \subseteq Held(r)
    [] r.op = "delete" -> r.seen \cap tickets = {}
    [] r.op = "deleteAll" -> r.seen \cap tickets = {} /\ ActiveOf(r, RegistrationRound(r)) = {}
    [] r.op = "query" -> OpenDraw(r.at) <= r.draw + 2 => r.seen = {t \in Held(r) : t.round >= r.draw}
    [] r.op = "summary" -> TRUE

AnswersAreTrue ==
  \A c \in Rooms : req[c].step = "reply" /\ c \notin met => Answered(req[c])

(* A second recommendation of the same round is added to one the user still *)
(* holds only by a request that ran together with another of that user.     *)
RecommendedOnce ==
  [][\A c \in Rooms, t \in tickets' \ tickets :
       /\ req[c].step = "insert" /\ req'[c].step = "reply"
       /\ t.user = req[c].user /\ t.source = "recommend" /\ t.active
       /\ \E x \in Held(req[c]) : x.round = t.round /\ x.source = "recommend"
       => c \in met]_vars

(* What the proofs need beside the types.  No draw is published before the  *)
(* one a running request expects is held, and none is known before that.    *)
CalendarOK ==
  /\ 1 <= published /\ published <= HeldDraw(clock)
  /\ \A d \in draws : d <= published
  /\ \A c \in Rooms : Running(c) =>
       /\ req[c].at <= clock /\ published <= HeldDraw(req[c].at)
       /\ req[c].draw <= published

(* A request works with a stored draw, and is at the steps of its command.  *)
FlowOK ==
  \A c \in Rooms :
    /\ req[c].step \in {"touch", "sync", "shops", "fetchShops"} => req[c].draw \in draws
    /\ req[c].step = "fetch" => req[c].draw \in draws \cup {NoDraw}
    /\ req[c].step = "store" => req[c].draw # NoDraw
    /\ req[c].step \in {"list", "number", "insert"} => req[c].op \in {"recommend", "manual"}

(* Two running requests of a user know to have met; one that met no other   *)
(* and goes on to insert a recommendation still has none.                   *)
OverlapOK ==
  /\ \A c, d \in Rooms : c # d /\ Running(c) /\ Running(d) /\ req[c].user = req[d].user => c \in met
  /\ \A c \in Rooms \ met :
       req[c].step \in {"number", "insert"} /\ req[c].op = "recommend" => Existing(req[c]) = {}

(* What a request that met no other has to tell before it is answered.      *)
Told(r) ==
  CASE r.step = "pending" -> ActiveOf(r, r.draw)
    [] r.step = "current" -> {t \in Held(r) : t.round \in {r.draw} \cup PendingRounds(r)}
    [] r.step = "deactivate" -> Doomed(r)
    [] OTHER -> {}

(* No ticket is of a round not open yet; a request that met no other finds  *)
(* the tickets of its user as its earlier statements left them.             *)
AnswerOK ==
  /\ \A t \in tickets : t.round <= OpenDraw(clock)
  /\ \A c \in Rooms :
       /\ req[c].step \in {"results", "pending", "current"} => req[c].op = "query"
       /\ req[c].step \in {"select", "deactivate"} => req[c].op \in {"delete", "deleteAll"}
       /\ req[c].step \in {"shops", "fetchShops", "players", "waiting"} => req[c].op = "summary"
  /\ \A c \in Rooms \ met : Running(c) =>
       /\ \A t \in tickets : t.user = req[c].user => t.round <= OpenDraw(req[c].at)
       /\ \A t \in req[c].seen : t.user = req[c].user
       /\ req[c].step \notin {"reply", "conflict"} => req[c].seen = Told(req[c])
  /\ AnswersAreTrue

(* The inductive invariant behind DrawnRoundsAreClosed, RecommendedOnce and *)
(* AnswersAreTrue.                                                          *)
IInv == TypeOK /\ CalendarOK /\ FlowOK /\ OverlapOK /\ AnswerOK
==============================================================================
