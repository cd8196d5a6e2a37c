------------------------------ MODULE Dashboard ------------------------------
(***************************************************************************)
(* The admin dashboard: the page (the script of internal/admin/server.go), *)
(* the scope the server gives to what the page asks, and the queries over  *)
(* the metrics tables (internal/metrics/sqlite_queries.go).  The table is  *)
(* written by the recorder of module Metrics; here a row is one event, with *)
(* its own time, stored at once, and none is dropped or purged.            *)
(*                                                                         *)
(* Time is in ticks of an hour.  An event of tick t lies before "now" when *)
(* the clock is t, so a window of w ticks has the events after clock - w.  *)
(* What a query returns is the set of the answers its ORDER BY and LIMIT   *)
(* leave open where there are any.                                         *)
(* A load is all fetches of one panel, answered together.  Of two loads    *)
(* that were overtaken and ask the same, one is kept.                      *)
(***************************************************************************)
EXTENDS Integers, FiniteSetsExt, Functions, TLC

CONSTANTS
  Rooms, NoRoom,   \* NoRoom is the "" of state.room, and of an event without a room
  AllowedEmails,   \* AdminConfig.AllowedEmails
  AudienceScopes,  \* AdminConfig.AudienceScopes: of an email, its role and rooms, "*" for all
  Windows,         \* values of the select, 24h, 168h and 720h in the page
  Selected,        \* the one selected at first, 168h
  Commands, Users,
  Kinds,           \* the events in the order in which they are recorded, see Kind
  DayLength,       \* ticks of a day
  Zone,            \* by how many of them UTC is ahead of the server, modulo a day
  OverviewLimit, RoomLimit,  \* rooms that the page asks for, 5 and 50
  IssueLimit,      \* issues of a room, 20
  SpikeCount, SpikeRise,  \* least failures or denials of an anomaly and their rise, 10 and 5
  MaxClock,        \* bound: time
  OpenRows,        \* bound: the page is opened over a table of so many rows
  MaxActs          \* bound: clicks, changes of the window and failures

(* What happens to a room, and what only follows the tracker.               *)
RoomIssues == {"command_failed", "access_denied", "policy_skip", "unmatched_message", "rate_limited", "reply_failed",
               "transport_overload"}
OfTracker == {"coupang_lookup_coalesced", "coupang_registration_path", "coupang_refresh_failed"}
EventName == RoomIssues \cup OfTracker \cup {"message_received", "activation", "command_succeeded", "conversion",
               "churn_signal", "retention_return", "reply_sent", "reply_composite_outcome"}

(* run: of the events of a message, those of one execution of a command.    *)
(* detail: how a lookup was joined, a registration or a card ended.         *)
Kind == [name : EventName, run : Nat, command : Commands, user : Users, latency : Nat,
         detail : {"none", "led", "joined", "timedOut", "resolved", "deferred", "full", "partial", "skipped"}]
Profile == [role : {"operator", "partner", "customer"}, rooms : SUBSET Rooms, allRooms : BOOLEAN]
MaxRows == Cardinality(DOMAIN Kinds)  \* bound: rows of the table

(* A command that is executed is recorded when it starts, and once when it  *)
(* ends.                                                                    *)
Endings == {"conversion", "churn_signal"}
RunsInOrder ==
  \A n \in DOMAIN Kinds : Kinds[n].name \in Endings =>
    /\ \E k \in 1 .. n : Kinds[k].name = "activation" /\ Kinds[k].run = Kinds[n].run
    /\ \A k \in DOMAIN Kinds : Kinds[k].name \in Endings /\ Kinds[k].run = Kinds[n].run => k = n

ASSUME DashboardAssumption ==
  /\ NoRoom \notin Rooms
  /\ \A e \in DOMAIN AudienceScopes :
       /\ AudienceScopes[e] \in [role : {"operator", "partner", "customer"}, rooms : SUBSET (Rooms \cup {"*"})]
       /\ IsFiniteSet(AudienceScopes[e].rooms)
       /\ AudienceScopes[e].rooms = {} => AudienceScopes[e].role = "operator"
  /\ IsFiniteSet(DOMAIN Kinds) /\ Kinds \in [1 .. MaxRows -> Kind] /\ RunsInOrder
  /\ OverviewLimit \in Nat \ {0} /\ RoomLimit \in Nat \ {0} /\ IssueLimit \in Nat \ {0}
  /\ SpikeCount \in Nat /\ SpikeRise \in Nat
  /\ Windows \subseteq Nat \ {0} /\ Selected \in Windows /\ DayLength \in Nat \ {0} /\ Zone \in Nat
  /\ MaxClock \in Nat /\ MaxActs \in Nat /\ OpenRows \in Nat

VARIABLES
  clock,    \* the time
  rows,     \* metrics_events
  profile,  \* the audience of the user of the page
  me,       \* state.me is set
  room,     \* state.room
  window,   \* the selected window
  loads,    \* loads that wait for their answers
  shown,    \* the window of each panel, the rooms of the two lists and of the detail
  acts,     \* of these, how many there were
  lost      \* history: panels whose last load failed or was overtaken

tableVars == <<clock, rows>>
pageVars == <<profile, me, room, window, loads, shown, acts, lost>>
dashboardVars == <<tableVars, pageVars>>

Row == [id : 1 .. MaxRows, room : Rooms \cup {NoRoom}, at : 0 .. MaxClock, kind : Range(Kinds)]
------------------------------------------------------------------------------
(* The table.                                                               *)

Opening == ~me /\ acts = 0
Building == Opening /\ UNCHANGED pageVars  \* bound: the table changes before the page has loaded

Tick == Building /\ clock < MaxClock /\ clock' = clock + 1 /\ UNCHANGED rows

(* An event is of the room of the message, or of none.                      *)
InsertEvents ==
  /\ Building
  /\ Cardinality(rows) < MaxRows
  /\ \E r \in Rooms \cup {NoRoom} :
       LET n == Cardinality(rows) + 1
       IN  /\ r = NoRoom <=> Kinds[n].name \in OfTracker
           /\ \A m \in rows : m.kind.run = Kinds[n].run => m.room = r
           /\ rows' = rows \cup {[id |-> n, room |-> r, at |-> clock, kind |-> Kinds[n]]}
  /\ UNCHANGED clock

------------------------------------------------------------------------------
(* The queries.                                                             *)

Within(table, w) == {m \in table : m.at > clock - w}

(* Under the filter by room, if there is one; and of one group by room.     *)
OfRoom(events, r) == {m \in events : r \in {m.room, NoRoom}}
In(events, r) == {m \in events : m.room = r}

Named(events, names) == {m \in events : m.kind.name \in names}
Requests(events) == Cardinality(Named(events, {"message_received"}))
Completed(events) == Cardinality(Named(events, {"command_succeeded", "command_failed"}))
FailedOf(events) == Cardinality(Named(events, {"command_failed"}))

(* ORDER BY rank DESC LIMIT limit: of equal ranks any.                      *)
Top(limit, rank) ==
  {s \in SUBSET DOMAIN rank :
     /\ Cardinality(s) <= limit /\ (s # DOMAIN rank => Cardinality(s) = limit)
     /\ \A x \in s, y \in DOMAIN rank \ s : rank[y] <= rank[x]}

Day(t) == (t + Zone) \div DayLength  \* of UTC
LocalDay(t) == t \div DayLength  \* of the server
InDays(rolled, w) == {m \in rolled : Day(m.at) >= Day(clock - w)}

(* The days of the rollups that the window touches, and the hours.  Rollups  *)
(* are computed from the rows there are at a rebuild.                       *)
RolledUp == {{m \in rows : m.id <= last} : last \in 0 .. MaxRows}

Trend(rolled, r, w) ==
  [d \in {Day(m.at) : m \in InDays(In(rolled, r), w)} |-> Requests({m \in In(rolled, r) : Day(m.at) = d})]

Hourly(rolled, r, w) ==
  [h \in {m.at : m \in {n \in In(rolled, r) : n.at >= clock - w}} |-> Requests({m \in In(rolled, r) : m.at = h})]

Counts(events) == [requests |-> Requests(events), errors |-> FailedOf(events), completed |-> Completed(events)]

(* The rooms with most requests in the window, of those that have any.      *)
QueryRooms(r, w, limit) ==
  LET events == OfRoom(Within(rows, w), r)
      asked == {m.room : m \in Named(events, {"message_received"})}
  IN  {[x \in listed |-> Counts(In(events, x))] : listed \in Top(limit, [x \in asked |-> Requests(In(events, x))])}

MutRoomDetail(r, w) ==  \* Defect: from the hour the window begins in, as the hours beside it
  Counts(OfRoom({m \in rows : m.at >= clock - w}, r))

QueryRoomDetail(r, w) == Counts(OfRoom(Within(rows, w), r))

(* Rounded down: of fewer than 21 values never the greatest.                *)
latencyPercentile(events) ==
  LET timed == {m \in Named(events, {"command_succeeded", "command_failed", "reply_sent", "reply_failed"}) : m.kind.latency > 0}
      AtMost(l) == Cardinality({m \in timed : m.kind.latency <= l})
      index == (95 * (Cardinality(timed) - 1)) \div 100
  IN  [p95 |-> IF timed = {} THEN 0 ELSE Min({l \in {m.kind.latency : m \in timed} : AtMost(l) > index}),
       samples |-> Cardinality(timed)]

QueryReliability(r, w) ==
  LET events == OfRoom(Within(rows, w), r)
  IN  [total |-> Completed(events), latency |-> latencyPercentile(events),
       count |-> [name \in {"command_failed", "rate_limited", "access_denied", "reply_failed", "transport_overload"} |->
                    Cardinality(Named(events, {name}))]]

(* Of each command, its requests and errors: in the panel, under the filter *)
(* of every query, and beside the detail, of the events of that room.       *)
Usage(events) ==
  LET done == Named(events, {"command_succeeded", "command_failed"})
  IN  [c \in {m.kind.command : m \in done} |->
         LET of == {m \in done : m.kind.command = c} IN [requests |-> Cardinality(of), errors |-> FailedOf(of)]]
QueryFeatureUsage(r, w) == Usage(OfRoom(Within(rows, w), r))
queryRoomCommands(r, w) == Usage(In(Within(rows, w), r))

(* The newest.                                                              *)
queryRoomIssues(r, w) ==
  Top(IssueLimit, [m \in In(Named(Within(rows, w), RoomIssues \cup {"coupang_refresh_failed"}), r) |-> m.at])

JoinStats(events) ==
  LET joins == {m \in Named(events, {"coupang_lookup_coalesced"}) : m.kind.detail \in {"joined", "timedOut"}}
  IN  [joins |-> Cardinality(joins), timeouts |-> Cardinality({m \in joins : m.kind.detail = "timedOut"})]

RegistrationStats(events) ==
  LET registered == Named(events, {"coupang_registration_path"})
  IN  [registrations |-> Cardinality(registered), deferred |-> Cardinality({m \in registered : m.kind.detail = "deferred"})]

CompositeStats(events) ==
  LET cards == Named(events, {"reply_composite_outcome"})
  IN  [cards |-> Cardinality(cards), partial |-> Cardinality({m \in cards : m.kind.detail = "partial"}),
       skipped |-> Cardinality({m \in cards : m.kind.detail = "skipped"})]

(* What follows the tracker is of no room: a filter by room hides it.       *)
QueryCoupangRefreshStats(r, w) ==
  LET events == OfRoom(Within(rows, w), r)
  IN  [failures |-> Cardinality(Named(events, {"coupang_refresh_failed"})),
       join |-> JoinStats(events), registration |-> RegistrationStats(events), card |-> CompositeStats(events)]

DayFigures(events) ==
  [completed |-> Completed(events), failed |-> FailedOf(events), latency |-> latencyPercentile(events),
   denied |-> Cardinality(Named(events, {"access_denied"}))]

isErrorRateSpike(now, before) ==  \* a tenth, and a twentieth more than before
  LET of == IF before.completed = 0 THEN 1 ELSE before.completed
  IN  /\ now.completed >= SpikeCount /\ 10 * now.failed >= now.completed
      /\ 20 * now.failed * of > (20 * before.failed + of) * now.completed
isLatencyRegression(now, before) == now.latency.p95 >= 1500 /\ now.latency.p95 > before.latency.p95 + 500
isAccessDeniedSpike(now, before) == now.denied >= SpikeCount /\ now.denied > before.denied + SpikeRise

detectOverviewAnomalies(now, before) ==
  {a \in {"errors", "latency", "denials"} :
     CASE a = "errors" -> isErrorRateSpike(now, before)
       [] a = "latency" -> isLatencyRegression(now, before)
       [] a = "denials" -> isAccessDeniedSpike(now, before)}

(* All rooms and, whatever the window, the last day against the day before. *)
QueryOverview ==
  LET last == Within(rows, DayLength)
      today == {m \in rows : LocalDay(m.at) = LocalDay(clock)}
      now == DayFigures(last)
      before == DayFigures(Within(rows, 2 * DayLength) \ last)
  IN  [requests |-> Requests(today), users |-> Cardinality({m.kind.user : m \in Named(today, {"message_received"})}),
       today |-> DayFigures(today), last |-> now, before |-> before, anomalies |-> detectOverviewAnomalies(now, before)]

(* The events of a command have the audience "customer"; the audience a     *)
(* query is for is the role of the user of the page.                        *)
OfAudience(events, r) == {m \in OfRoom(events, r) : profile.role = "customer"}

QueryProductFunnel(rolled, r, w) ==
  LET events == InDays(OfAudience(rolled, r), w)
      Stage(name) == Cardinality(Named(events, {name}))
  IN  [activation |-> Stage("activation"), conversion |-> Stage("conversion"), retention |-> Stage("retention_return"),
       churn |-> Stage("churn_signal")]

(* Of each day, its users, from the events.                                 *)
QueryProductCohorts(r, w) ==
  LET events == Named(Within(OfAudience(rows, r), w), {"activation"})
  IN  [d \in {Day(m.at) : m \in events} |-> Cardinality({m.kind.user : m \in {n \in events : Day(n.at) = d}})]

(* Of each first day in a room and each day with returns, in any room, of   *)
(* its users, from the rollups.                                             *)
QueryProductRetention(rolled, r, w) ==
  LET activated == Named(OfAudience(rolled, r), {"activation"})
      returned == Named(rolled, {"retention_return"})
      First(u) == Min({Day(m.at) : m \in {n \in activated : n.kind.user = u}})
      users == {m.kind.user : m \in activated}
      Back(u, d) == \E m \in returned : m.kind.user = u /\ Day(m.at) = d /\ d >= First(u)
      cells == {[cohort |-> First(u), bucket |-> Day(m.at), size |-> Cardinality({v \in users : First(v) = First(u)}),
                 retained |-> Cardinality({v \in users : First(v) = First(u) /\ Back(v, Day(m.at))})] :
                  u \in users, m \in InDays(returned, w)}
  IN  {cell \in cells : cell.retained > 0}
------------------------------------------------------------------------------
(* Who is served, and the scope of a fetch.                                 *)

audienceFromScope(scope) ==
  [role |-> scope.role, rooms |-> scope.rooms \ {"*"}, allRooms |-> "*" \in scope.rooms]

(* An email without a scope is an operator's.                               *)
audiencesByEmail ==
  [e \in AllowedEmails \cup DOMAIN AudienceScopes |->
     IF e \in DOMAIN AudienceScopes THEN audienceFromScope(AudienceScopes[e])
     ELSE [role |-> "operator", rooms |-> {}, allRooms |-> TRUE]]

(* What a request comes with that reaches a handler.                        *)
Profiles == Range(audiencesByEmail)

(* Of two scopes, room and audience, the page sends only a room, and the    *)
(* audience is then that of the profile.                                    *)
parseScopeFromRequest(r) == [audience |-> profile.role, room |-> r]
validateAudienceScope(scope) == scope.audience = profile.role

assignSingleAllowedRoom(scope) ==
  IF scope.room = NoRoom /\ Cardinality(profile.rooms) = 1
  THEN [scope EXCEPT !.room = CHOOSE x \in profile.rooms : TRUE] ELSE scope

Unrestricted == profile.role = "operator" \/ profile.allRooms

(* The room that is asked for, or none.                                     *)
resolveRoomScope(scope) == IF Unrestricted THEN {scope.room} ELSE {assignSingleAllowedRoom(scope).room} \cap profile.rooms

resolveScope(r) ==
  LET scope == parseScopeFromRequest(r)
  IN  IF profile.role = "operator" \/ validateAudienceScope(scope) THEN resolveRoomScope(scope) ELSE {}

(* What each path answers: nothing where the scope is denied.               *)
handleMe == profile.rooms
handleOverview == QueryOverview
handleRooms(r, w, limit) == UNION {QueryRooms(x, w, limit) : x \in resolveScope(r)}
handleRoomDetail(r, w) ==
  UNION {{[counts |-> QueryRoomDetail(x, w), commands |-> queryRoomCommands(x, w), issues |-> issues] : issues \in queryRoomIssues(x, w)} :
           x \in {y \in resolveScope(r) : OfRoom(Within(rows, w), y) # {}}}
handleReliability(r, w) == {QueryReliability(x, w) : x \in resolveScope(r)}
handleFeatures(r, w) == {[usage |-> QueryFeatureUsage(x, w), coupang |-> QueryCoupangRefreshStats(x, w)] : x \in resolveScope(r)}
handleProductFunnel(rolled, r, w) == {QueryProductFunnel(rolled, x, w) : x \in resolveScope(r)}
handleProductCohorts(r, w) == {QueryProductCohorts(x, w) : x \in resolveScope(r)}
handleProductRetention(rolled, r, w) == {QueryProductRetention(rolled, x, w) : x \in resolveScope(r)}

Listed(load) ==
  {DOMAIN list : list \in handleRooms(load.room, load.window, IF load.panel = "overview" THEN OverviewLimit ELSE RoomLimit)}
Answers(load) ==
  CASE load.panel = "me" -> TRUE
    [] load.panel = "detail" -> handleRoomDetail(load.room, load.window) # {}
    [] load.panel \in {"overview", "rooms", "figures"} -> resolveScope(load.room) # {}
------------------------------------------------------------------------------
(* The page.                                                                *)

Tabs == {"overview", "rooms", "figures"}
Panels == Tabs \cup {"detail"}
Shown == [panels : [Panels -> Windows \cup {0}], listed : [{"overview", "rooms"} -> SUBSET Rooms], detail : Rooms \cup {NoRoom}]

PageInit ==
  /\ clock = 0 /\ rows = {}
  /\ profile \in Profiles
  /\ me = FALSE /\ room = NoRoom /\ window = Selected
  /\ loads = {[panel |-> "me", window |-> window, room |-> NoRoom, latest |-> TRUE]}
  /\ shown = [panels |-> [p \in Panels |-> 0], listed |-> [p \in {"overview", "rooms"} |-> {}], detail |-> NoRoom]
  /\ acts = 0 /\ lost = {}

(* The loads of some panels begin; those under way are overtaken.           *)
StartedLoads(ps, pending, r, w) ==
  {[load EXCEPT !.latest = @ /\ load.panel \notin ps] : load \in pending}
    \cup {[panel |-> p, window |-> w, room |-> r, latest |-> TRUE] : p \in ps}

refreshAll(pending, r, w) == loads' = StartedLoads(IF me' THEN Tabs ELSE {"me"}, pending, r, w)

PickWindow ==
  /\ acts < MaxActs
  /\ acts' = acts + 1
  /\ window' \in Windows \ {window}
  /\ UNCHANGED <<profile, me, room, shown, lost, tableVars>>
  /\ refreshAll(loads, room, window')

(* A room of a list is chosen.                                              *)
ClickRoom ==
  /\ acts < MaxActs
  /\ acts' = acts + 1
  /\ room' \in UNION Range(shown.listed)
  /\ loads' = StartedLoads({"detail"}, loads, room', window)
  /\ UNCHANGED <<profile, me, window, shown, lost, tableVars>>

(* The rooms of the profile come in the order of a map.                     *)
LoadMe(load) ==
  /\ me' = TRUE
  /\ room' \in IF room = NoRoom /\ handleMe # {} THEN handleMe ELSE {room}
  /\ UNCHANGED <<shown, lost>>
  /\ refreshAll(loads \ {load}, room', window)

Late(load) == lost' = IF load.latest THEN lost \ {load.panel} ELSE lost \cup {load.panel}

LoadFigures(load) ==
  /\ shown' = [shown EXCEPT !.panels["figures"] = load.window]
  /\ Late(load)
  /\ loads' = loads \ {load}
  /\ UNCHANGED <<me, room>>

LoadOverview(load) ==
  /\ \E listed \in Listed(load) :
       shown' = [shown EXCEPT !.panels["overview"] = load.window, !.listed["overview"] = listed]
  /\ Late(load)
  /\ loads' = loads \ {load}
  /\ UNCHANGED <<me, room>>

LoadRoomDetail(load) ==
  /\ shown' = [shown EXCEPT !.panels["detail"] = load.window, !.detail = load.room]
  /\ Late(load)
  /\ loads' = loads \ {load}
  /\ UNCHANGED <<me, room>>

(* The list is shown and then the detail is loaded, or emptied.             *)
DetailAfter(load, r) ==
  /\ \E rooms \in Listed(load) :
       LET listed == [shown EXCEPT !.panels["rooms"] = load.window, !.listed["rooms"] = rooms]
       IN  shown' = IF r # NoRoom THEN listed ELSE [listed EXCEPT !.panels["detail"] = window, !.detail = NoRoom]
  /\ loads' = IF r # NoRoom THEN StartedLoads({"detail"}, loads \ {load}, r, window) ELSE loads \ {load}
  /\ Late(load)
  /\ UNCHANGED <<me, room>>

MutLoadRooms(load) == DetailAfter(load, load.room)  \* Defect: of the room when the load began

MutDetail(load) ==  \* Defect: the detail is only emptied
  /\ \E rooms \in Listed(load) :
       shown' = [shown EXCEPT !.panels["rooms"] = load.window, !.listed["rooms"] = rooms]
  /\ Late(load)
  /\ loads' = loads \ {load}
  /\ UNCHANGED <<me, room>>

(* Of the room that is selected when the list has come.                     *)
LoadRooms(load) == DetailAfter(load, room)

AnswerLoad(load) ==
  /\ Answers(load)
  /\ CASE load.panel = "me" -> LoadMe(load)
       [] load.panel = "overview" -> LoadOverview(load)
       [] load.panel = "rooms" -> LoadRooms(load)
       [] load.panel = "detail" -> LoadRoomDetail(load)
       [] load.panel = "figures" -> LoadFigures(load)
  /\ UNCHANGED <<profile, window, acts, tableVars>>

(* A fetch fails: its load throws, the panel stays and so does the detail   *)
(* that would have been loaded after the list.                              *)
Fail(load) ==
  /\ loads' = {[other EXCEPT !.latest = @ /\ ~(load.panel = "rooms" /\ other.panel = "detail")] : other \in loads \ {load}}
  /\ lost' = lost \cup {load.panel} \cup IF load.panel = "rooms" THEN {"detail"} ELSE {}
  /\ acts < MaxActs /\ acts' = acts + 1
  /\ UNCHANGED <<profile, me, room, window, shown, tableVars>>

Opened == Opening => Cardinality(rows) = OpenRows

PageNext ==
  \/ Tick \/ InsertEvents
  \/ Opened /\ (PickWindow \/ ClickRoom)
  \/ Opened /\ \E load \in loads : AnswerLoad(load) \/ Fail(load)

PageSpec == PageInit /\ [][PageNext]_dashboardVars
------------------------------------------------------------------------------
PageTypeOK ==
  /\ clock \in 0 .. MaxClock /\ rows \subseteq Row
  /\ profile \in Profiles /\ me \in BOOLEAN
  /\ room \in Rooms \cup {NoRoom} /\ window \in Windows /\ acts \in 0 .. MaxActs
  /\ loads \subseteq [panel : Panels \cup {"me"}, window : Windows, room : Rooms \cup {NoRoom}, latest : BOOLEAN]
  /\ shown \in Shown /\ lost \subseteq Panels \cup {"me"}

Quiet == loads = {} /\ me

(* When all loads have ended, every panel shows the window that is selected *)
(* unless its last load failed or was overtaken by an answer to an earlier  *)
(* one: no change of the window is forgotten by a load that was waiting.    *)
PanelsFollowWindow ==
  Quiet => \A p \in Panels \ lost : shown.panels[p] = window

(* The detail beside the list is then of the room that is selected, though  *)
(* the load of the list that also loads it began before the room was chosen.*)
DetailIsSelected == Quiet /\ "detail" \notin lost => shown.detail = room

(* The days of the trend and the hours beside them cover the window: of a   *)
(* day, all requests, of which the window may have a part.                  *)
DaysCovered(rolled, w) == \A m \in Within(rolled, w) :
  LET trend == Trend(rolled, m.room, w)
      hourly == Hourly(rolled, m.room, w)
      OfDay(d) == {n \in In(Within(rolled, w), m.room) : Day(n.at) = d}
  IN  /\ m.at \in DOMAIN hourly
      /\ Day(m.at) \in DOMAIN trend /\ Requests(OfDay(Day(m.at))) <= trend[Day(m.at)]

(* An anomaly is of a day that differs from the day before, and no event is *)
(* of both; today is a part of the last day.                                *)
OverviewAgrees ==
  LET o == handleOverview
  IN  /\ \A day \in {o.today, o.last, o.before} :
           day.failed <= day.completed /\ (day.latency.p95 > 0 <=> day.latency.samples > 0)
      /\ o.anomalies # {} => o.last # o.before
      /\ o.users <= o.requests
      /\ o.today.completed <= o.last.completed /\ o.last.completed + o.before.completed <= Completed(rows)

(* The requests of all commands.                                            *)
Requested(usage) == MapThenSumSet(LAMBDA c : usage[c].requests, DOMAIN usage)

(* A room is listed with what its detail says, unless the window has only   *)
(* events of earlier requests of it or the list is full of rooms with as    *)
(* many.                                                                    *)
ListAgrees(r, list, limit, counts) ==
  IF r \in DOMAIN list THEN list[r] = counts
  ELSE \/ counts.requests = 0
       \/ Cardinality(DOMAIN list) = limit /\ \A x \in DOMAIN list : counts.requests <= list[x].requests

(* The issues are what the reliability counts of their names, or the list   *)
(* of them is full; the commands have, all together, what was completed.    *)
DetailAgrees(r, w, detail) ==
  /\ \A asked \in {r, NoRoom}, limit \in {OverviewLimit, RoomLimit} :
       /\ resolveScope(asked) # {} => handleRooms(asked, w, limit) # {}
       /\ \A list \in handleRooms(asked, w, limit) : ListAgrees(r, list, limit, detail.counts)
  /\ \A reliability \in handleReliability(r, w) :
       /\ reliability.total = detail.counts.completed /\ reliability.count["command_failed"] = detail.counts.errors
       /\ \A name \in DOMAIN reliability.count :
            LET shownOf == Cardinality(Named(detail.issues, {name}))
            IN  /\ shownOf <= reliability.count[name]
                /\ shownOf = reliability.count[name] \/ Cardinality(detail.issues) = IssueLimit
  /\ \A features \in handleFeatures(r, w) :
       /\ features.usage = detail.commands
       /\ Requested(features.usage) = detail.counts.completed

(* Those who came back are of a cohort, which has no more users than the    *)
(* list of cohorts says, if its day is within the window.                   *)
RetentionAgrees(rolled, r, w) ==
  \A cells \in handleProductRetention(rolled, r, w) : \A cell \in cells :
    /\ cell.cohort <= cell.bucket /\ cell.retained <= cell.size
    /\ \A cohorts \in handleProductCohorts(r, w) :
         cell.cohort >= Day(clock - w) + 1 => cell.cohort \in DOMAIN cohorts /\ cell.size <= cohorts[cell.cohort]

(* What ended in the days of the window and was started before them.        *)
UnderWay(rolled, r, w) ==
  {m \in InDays(Named(In(rolled, r), Endings), w) :
     \E start \in Named(rows, {"activation"}) : start.kind.run = m.kind.run /\ start \notin InDays(rows, w)}

(* Commands convert or are lost once, after they were activated.            *)
FunnelAgrees(rolled, r, w) == \A funnel \in handleProductFunnel(rolled, r, w) :
  funnel.conversion + funnel.churn <= funnel.activation + Cardinality(UnderWay(rolled, r, w))

PartsOfStats(w) ==
  LET stats == QueryCoupangRefreshStats(NoRoom, w)
  IN  /\ stats.join.timeouts <= stats.join.joins
      /\ stats.registration.deferred <= stats.registration.registrations
      /\ stats.card.partial + stats.card.skipped <= stats.card.cards

(* What the panels show of a room that the user may see agrees: the list,   *)
(* the detail and the reliability, three queries with three filters, count  *)
(* the same of it, up to the limits of the list and of the issues, and so do *)
(* the commands of the detail and of the features; a partial result is a    *)
(* part: failures of what was completed, timeouts of the joins, what         *)
(* converted or was lost of the activations (but for the commands under way *)
(* when the window's first day began), those who came back of a cohort; and *)
(* every room that is listed has a detail.  An event may fall in the window *)
(* or the day and the request it is of not.                                 *)
(* (Of the table as the page finds it: it does not change after.)           *)
FiguresAgree == Opening =>
  /\ OverviewAgrees
  /\ \A w \in Windows :
       /\ PartsOfStats(w)
       /\ \A rolled \in RolledUp :
            /\ DaysCovered(rolled, w)
            /\ \A r \in Rooms : RetentionAgrees(rolled, r, w) /\ FunnelAgrees(rolled, r, w)
       /\ \A r \in Rooms : \A detail \in handleRoomDetail(r, w) : DetailAgrees(r, w, detail)
       /\ \A asked \in Rooms \cup {NoRoom}, limit \in {OverviewLimit, RoomLimit} :
            \A list \in handleRooms(asked, w, limit) : \A r \in DOMAIN list : handleRoomDetail(r, w) # {}
------------------------------------------------------------------------------
(* The inductive invariant behind the first two.                            *)

(* The loads of a panel that no later one has overtaken.                    *)
Pending(p) == {load \in loads : load.panel = p /\ load.latest}

(* Before the user is known nothing else is loaded, and nothing is shown.   *)
MeFirst == ~me => /\ \A load \in loads : load.panel = "me"
                  /\ \A p \in {"overview", "rooms"} : shown.listed[p] = {}

(* A tab is being loaded for the window, or was, or its last load failed.   *)
TabsOK == me => \A p \in Tabs :
  /\ \A load \in Pending(p) : load.window = window
  /\ Pending(p) # {} \/ p \in lost \/ shown.panels[p] = window

(* The list, when it comes, loads the detail again: until then the one that *)
(* is loaded may be of another window or room.  Without a room there is     *)
(* none, and a room once selected stays until another is.                   *)
DetailOK ==
  /\ me => \/ Pending("rooms") # {}
           \/ /\ \A load \in Pending("detail") : load.window = window /\ load.room = room
              /\ \/ Pending("detail") # {} \/ "detail" \in lost
                 \/ shown.panels["detail"] = window /\ shown.detail = room
  /\ room = NoRoom => \A load \in loads : load.panel # "detail"

(* The rows are the first events, each once, and those of a run are of one  *)
(* room.                                                                    *)
RowsOK ==
  /\ IsFiniteSet(rows)
  /\ \A m \in rows : /\ m.kind = Kinds[m.id] /\ m.id <= Cardinality(rows)
                     /\ m.room = NoRoom <=> m.kind.name \in OfTracker
  /\ \A k \in 1 .. Cardinality(rows) : \E m \in rows : m.id = k
  /\ \A m \in rows, n \in rows :
       /\ m.id = n.id => m = n
       /\ m.kind.run = n.kind.run => m.room = n.room

PageIInv == PageTypeOK /\ RowsOK /\ MeFirst /\ TabsOK /\ DetailOK
==============================================================================
