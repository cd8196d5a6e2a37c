---------------------------- MODULE SportsPoller ----------------------------
(***************************************************************************)
(* The schedules of football, esports and baseball: one adaptive poller    *)
(* fills the cache of its sport (internal/scraper/sports_poller.go,        *)
(* sports_cache.go) through the poll function of the sport                 *)
(* (internal/app/build_modules_sports.go), and the handlers answer from    *)
(* the cache alone.  The three pollers share nothing: a behaviour is about *)
(* one sport.                                                              *)
(*                                                                         *)
(* Time is in ticks of half an hour since a midnight of UTC.  A match is   *)
(* what the planner and the lists look at: league, start, status, goals.   *)
(* Odds, the goal scorers API-Football adds and DetectScoreChanges, whose  *)
(* answer nothing uses, are left out.                                      *)
(***************************************************************************)
EXTENDS Integers, Sequences, FiniteSets, FiniteSetsExt

CONSTANTS
  Fixtures,       \* the matches there are
  Starts,         \* when they may start
  Boots,          \* when the program may start
  Horizon,        \* bound: time
  MaxGoals,       \* bound: goals of a match
  MaxFailures,    \* bound: polls of a league in which a fetch fails
  MaxCrossings    \* bound: half hours that end while a round of polls is on

ASSUME SportsAssumption ==
  /\ Starts \subseteq Nat /\ Boots \subseteq Nat /\ \A b \in Boots : b <= Horizon
  /\ {Horizon, MaxGoals, MaxFailures, MaxCrossings} \subseteq Nat

VARIABLES
  sport,      \* which of the pollers this is
  fixture,    \* league and start of each match
  now,
  goals,      \* goals of each match so far
  round,      \* the date of the round of polls and the leagues left, or none
  nextTick,   \* when the ticker fires
  matches,    \* the cached lists: per league and date, or NotCached
  nextMatches,\* the cached next matches: per league, with their date
  events,     \* cached events of a match, counted; -1 if none are cached
  missed,     \* history: leagues whose last poll did not get every answer
  lastLive,   \* history: goals when a poll last read a live match, or -1
  failures, crossings  \* for the bounds

world == <<sport, fixture>>
cache == <<matches, nextMatches, events>>
bounds == <<failures, crossings>>
sportsVars == <<world, now, goals, round, nextTick, cache, missed, lastLive, bounds>>

------------------------------------------------------------------------------
(* Days and dates.                                                          *)

TicksPerDay == 48
UTCDate(t) == t \div TicksPerDay
KSTDate(t) == (t + 18) \div TicksPerDay
USDate(t) == (t - 8) \div TicksPerDay
Dates == 0 .. KSTDate(Horizon)

LiveInterval == 1       \* half a minute, rounded up
MatchDayInterval == 2
IdleDayInterval == 12
PreMatchLeadTime == 1
footballNextSearchDays == 14
baseballNextSearchDays == 7
MatchLength == 4

Leagues ==
  CASE sport = "football" -> <<"epl", "kleague">>
    [] sport = "esports" -> <<"lck", "lpl">>
    [] sport = "baseball" -> <<"mlb", "kbo", "npb">>

LeagueSet == {Leagues[i] : i \in DOMAIN Leagues}
NotCached == {[match |-> "none", status |-> "not cached"]}
NoRound == [date |-> -1, todo |-> <<>>]

Start(f) == fixture[f].start

(* What a provider says of the status of a match.                           *)
Status(f) ==
  IF now < Start(f) THEN "scheduled"
  ELSE IF now < Start(f) + MatchLength THEN "live" ELSE "finished"

AsListed(f) == [match |-> f, status |-> Status(f)]

SportsInit ==
  /\ sport \in {"football", "esports", "baseball"}
  /\ fixture \in [Fixtures -> [league : LeagueSet, start : Starts]]
  /\ now \in Boots
  /\ goals = [f \in Fixtures |-> 0]
  /\ round = [date |-> KSTDate(now), todo |-> Leagues]
  /\ nextTick = now
  /\ matches = [l \in LeagueSet |-> [d \in Dates |-> NotCached]]
  /\ nextMatches = [l \in LeagueSet |-> [matches |-> {}, date |-> -1]]
  /\ events = [f \in Fixtures |-> -1]
  /\ missed = {} /\ lastLive = [f \in Fixtures |-> -1]
  /\ failures = 0 /\ crossings = 0

(* Time passes: up to the ticker's next tick, or while a round is on.       *)
Elapse ==
  /\ now < Horizon
  /\ IF round = NoRound
     THEN now < nextTick /\ UNCHANGED crossings
     ELSE crossings < MaxCrossings /\ crossings' = crossings + 1
  /\ now' = now + 1
  /\ UNCHANGED <<world, goals, round, nextTick, cache, missed, lastLive, failures>>

Goal(f) ==
  /\ sport = "football" /\ Status(f) = "live" /\ goals[f] < MaxGoals
  /\ goals' = [goals EXCEPT ![f] = @ + 1]
  /\ UNCHANGED <<world, now, round, nextTick, cache, missed, lastLive, bounds>>

------------------------------------------------------------------------------
(* The interval between polls.                                              *)

(* GetMatches: the list of a league for a date, empty if there is none.     *)
Cached(l, date) == IF matches[l][date] = NotCached THEN {} ELSE matches[l][date]

GetNextMatches(l) == nextMatches[l]
SetNextMatches(l, next) == nextMatches' = [nextMatches EXCEPT ![l] = next]

GetEvents(f) == events[f] # -1

HasLiveMatches(l, date) == \E m \in Cached(l, date) : m.status = "live"

AboutToStart(l, date) ==
  \E m \in Cached(l, date) :
    m.status = "scheduled" /\ Start(m.match) - now <= PreMatchLeadTime

matchDayDecision(l, date) ==
  CASE Cached(l, date) = {}                           -> IdleDayInterval
    [] sport # "esports" /\ AboutToStart(l, date)     -> LiveInterval
    [] OTHER                                          -> MatchDayInterval

MutInterval(date) ==  \* Defect: a match day only if the first league has a match
  IF \E l \in LeagueSet : HasLiveMatches(l, date) THEN LiveInterval
  ELSE matchDayDecision(Leagues[1], date)

(* Without a live match the first league that has matches decides.          *)
Interval(date) ==
  LET busy == {i \in DOMAIN Leagues : Cached(Leagues[i], date) # {}}
  IN  IF \E l \in LeagueSet : HasLiveMatches(l, date) THEN LiveInterval
      ELSE IF busy = {} THEN IdleDayInterval
      ELSE matchDayDecision(Leagues[Min(busy)], date)

------------------------------------------------------------------------------
(* What the polls of a league fetch.                                        *)

InLeague(l) == {f \in Fixtures : fixture[f].league = l}

(* ESPN and Livescore file a match under its UTC date, MLB under the date   *)
(* of the United States, KBO and NPB under the Korean one.                  *)
ScoreboardOn(l, date) == {f \in InLeague(l) : UTCDate(Start(f)) = date}
MLBScheduleOn(date) == {f \in InLeague("mlb") : USDate(Start(f)) = date}
KBOScheduleOn(date) == {f \in InLeague("kbo") : KSTDate(Start(f)) = date}
NPBScheduleOn(date) == {f \in InLeague("npb") : KSTDate(Start(f)) = date}

BaseballScheduleOn(l, date) ==
  CASE l = "mlb" -> MLBScheduleOn(date)
    [] l = "kbo" -> KBOScheduleOn(date)
    [] l = "npb" -> NPBScheduleOn(date)

(* LoL Esports answers with the whole schedule, filtered by the date.       *)
EsportsScheduleOn(l, date) == {f \in InLeague(l) : KSTDate(Start(f)) = date}

OnESPN(l) == l = "epl"

(* Football fetches the UTC dates of today and yesterday, and the Korean    *)
(* date if the league is Livescore's.                                       *)
FetchDates(l) ==
  LET utcToday == UTCDate(now)
  IN  {utcToday, utcToday - 1} \cup (IF OnESPN(l) THEN {} ELSE {KSTDate(now)})

MutDedupe(fetched) == fetched  \* Defect: whatever the UTC dates hold is today's

dedupeFootballMatchesByDate(fetched) ==
  {f \in fetched : KSTDate(Start(f)) = KSTDate(now)}

CollectFootballMatches(l, lost) ==
  dedupeFootballMatchesByDate(UNION {ScoreboardOn(l, d) : d \in FetchDates(l) \ lost})

MutStop(futureDate, nextDate) == TRUE  \* Defect: stops at the first date that has a match

shouldStopNextFootballSearch(futureDate, nextDate) == futureDate > nextDate

(* The search for the next football matches goes through the UTC dates from *)
(* today.  It keeps the Korean day of the first coming match it reads, and  *)
(* on the first date that has some, any of them may be listed first.        *)
NextFootballMatches(l, lost) ==
  LET dates == {d \in UTCDate(now) .. UTCDate(now) + footballNextSearchDays : d \notin lost}
      later(d) == {f \in ScoreboardOn(l, d) : KSTDate(Start(f)) > KSTDate(now)}
      found == {d \in dates : later(d) # {}}
      read(day) == {d \in found : d = Min(found) \/ ~shouldStopNextFootballSearch(d - 1, day)}
      kept(day) == {g \in UNION {later(d) : d \in read(day)} : KSTDate(Start(g)) = day}
  IN  IF found = {} THEN {GetNextMatches(l)}
      ELSE {[matches |-> {AsListed(g) : g \in kept(KSTDate(Start(f)))}, date |-> KSTDate(Start(f))] :
              f \in later(Min(found))}

(* Baseball takes the first of the coming dates that has matches.           *)
NextBaseballMatches(l) ==
  LET coming == KSTDate(now) + 1 .. KSTDate(now) + baseballNextSearchDays
      found == {d \in coming : BaseballScheduleOn(l, d) # {}}
  IN  IF found = {} THEN GetNextMatches(l)
      ELSE [matches |-> {AsListed(f) : f \in BaseballScheduleOn(l, Min(found))}, date |-> Min(found)]

MutFetchEvents(f) == Status(f) # "scheduled" /\ ~GetEvents(f)  \* Defect: nor are those of a live one

(* The events of a finished match are not fetched again once it has some.   *)
FetchesEvents(f) == Status(f) = "live" \/ (Status(f) = "finished" /\ ~GetEvents(f))

(* The scoring plays ESPN lists with a match; the incidents Livescore gives *)
(* when it is asked for a match.                                            *)
ScoringPlays(f) == goals[f]
Incidents(f) == goals[f]
EventsOf(l, f) == IF OnESPN(l) THEN ScoringPlays(f) ELSE Incidents(f)

(* Asked for the matches that have events, Livescore may fail.              *)
EventsRead(l, played) == IF OnESPN(l) THEN {played} ELSE SUBSET played

------------------------------------------------------------------------------
(* The rounds of polls.                                                     *)

(* The ticker fires: the date of the round is read once.                    *)
BeginRound ==
  /\ round = NoRound /\ now = nextTick
  /\ round' = [date |-> KSTDate(now), todo |-> Leagues]
  /\ UNCHANGED <<world, now, goals, nextTick, cache, missed, lastLive, bounds>>

(* The poll of the next league is over; fetches failed in it or did not.    *)
Polled(l, failed) ==
  /\ round' = [round EXCEPT !.todo = Tail(@)]
  /\ failures' = failures + (IF failed THEN 1 ELSE 0)
  /\ failures' <= MaxFailures
  /\ missed' = IF failed THEN missed \cup {l} ELSE missed \ {l}
  /\ UNCHANGED <<world, now, goals, nextTick, crossings>>

SetMatches(l, list) ==
  matches' = [matches EXCEPT ![l][round.date] = {AsListed(f) : f \in list}]

(* A match without events leaves what is cached.                            *)
enrichFootballEvents(l, today) ==
  \E answered \in EventsRead(l, {f \in today : EventsOf(l, f) > 0}) :
    /\ events' = [f \in Fixtures |-> IF f \in answered /\ FetchesEvents(f)
                                    THEN EventsOf(l, f) ELSE events[f]]
    /\ lastLive' = [f \in Fixtures |-> IF f \in answered /\ Status(f) = "live"
                                      THEN goals[f] ELSE lastLive[f]]

(* Fetches that fail are dates that answer nothing.  What remains is cached *)
(* all the same, be it an empty list.                                       *)
PollFootball(l) ==
  \E lost \in SUBSET (UTCDate(now) - 1 .. UTCDate(now) + 2) :
    LET today == CollectFootballMatches(l, lost)
    IN  /\ Polled(l, lost # {})
        /\ SetMatches(l, today)
        /\ IF today = {} THEN \E next \in NextFootballMatches(l, lost) : SetNextMatches(l, next)
           ELSE UNCHANGED nextMatches
        /\ enrichFootballEvents(l, today)

(* A failed fetch leaves the list as it is.                                 *)
PollEsports(l) ==
  /\ \/ Polled(l, TRUE) /\ UNCHANGED matches
     \/ Polled(l, FALSE) /\ SetMatches(l, EsportsScheduleOn(l, round.date))
  /\ UNCHANGED <<nextMatches, events, lastLive>>

BaseballMatches(l) ==
  {f \in BaseballScheduleOn(l, round.date) : l = "mlb" => KSTDate(Start(f)) = KSTDate(now)}

PollBaseball(l) ==
  /\ \/ Polled(l, TRUE) /\ UNCHANGED <<matches, nextMatches>>
     \/ \E failed \in BOOLEAN :
          /\ Polled(l, failed)
          /\ SetMatches(l, BaseballMatches(l))
          /\ IF BaseballMatches(l) = {} /\ ~failed
             THEN SetNextMatches(l, NextBaseballMatches(l)) ELSE UNCHANGED nextMatches
  /\ UNCHANGED <<events, lastLive>>

PollOnce ==
  /\ round.todo # <<>>
  /\ LET l == Head(round.todo)
     IN  CASE sport = "football" -> PollFootball(l)
           [] sport = "esports" -> PollEsports(l)
           [] sport = "baseball" -> PollBaseball(l)

ResetTicker ==
  /\ round.todo = <<>> /\ round # NoRound
  /\ nextTick' = now + Interval(round.date)
  /\ round' = NoRound
  /\ UNCHANGED <<world, now, goals, cache, missed, lastLive, bounds>>

SportsNext == Elapse \/ (\E f \in Fixtures : Goal(f)) \/ BeginRound \/ PollOnce \/ ResetTicker

SportsSpec == SportsInit /\ [][SportsNext]_sportsVars
------------------------------------------------------------------------------
(* What a handler shows of a league: today's list, or the next matches.     *)
ShownToday(l) == Cached(l, KSTDate(now))
ShownNext(l) == IF ShownToday(l) = {} THEN GetNextMatches(l) ELSE [matches |-> {}, date |-> -1]

(* A match is shown with the cached events.                                 *)
ShownEvents(m) == IF GetEvents(m.match) THEN {events[m.match]} ELSE {}

ListEntry == [match : Fixtures, status : {"scheduled", "live", "finished"}]

(* What may be left of a round: the leagues come in their order.            *)
Rests == {Leagues, Tail(Leagues), Tail(Tail(Leagues)), <<>>}

SportsTypeOK ==
  /\ sport \in {"football", "esports", "baseball"}
  /\ fixture \in [Fixtures -> [league : LeagueSet, start : Starts]]
  /\ now \in Nat /\ now <= Horizon /\ goals \in [Fixtures -> 0 .. MaxGoals]
  /\ round \in {NoRound} \cup [date : Dates, todo : Rests] /\ nextTick \in Nat
  /\ matches \in [LeagueSet -> [Dates -> {NotCached} \cup SUBSET ListEntry]]
  /\ nextMatches \in [LeagueSet -> [matches : SUBSET ListEntry, date : Int]]
  /\ events \in [Fixtures -> -1 .. MaxGoals] /\ lastLive \in [Fixtures -> -1 .. MaxGoals]
  /\ missed \subseteq LeagueSet /\ failures \in 0 .. MaxFailures /\ crossings \in 0 .. MaxCrossings

(* A list shown as today's holds matches of the league that start on this   *)
(* Korean day, though providers file them under other dates and a round may *)
(* end on another day than it began.                                        *)
ShownIsToday ==
  \A l \in LeagueSet : \A m \in ShownToday(l) :
    fixture[m.match].league = l /\ KSTDate(Start(m.match)) = KSTDate(now)

(* A match on today's list is not shown as still to come for longer than    *)
(* the match day interval after its start, whichever leagues the planner    *)
(* looks at, unless the last poll of its league failed.                     *)
StartNoticedInTime ==
  \A l \in LeagueSet \ missed : \A m \in ShownToday(l) :
    m.status = "scheduled" => now <= Start(m.match) + MatchDayInterval + crossings

(* The days of which the search for the next matches is sure to read all.   *)
SearchDays == IF sport = "football" THEN footballNextSearchDays - 2 ELSE baseballNextSearchDays
Later(l) == {f \in InLeague(l) : KSTDate(Start(f)) > KSTDate(now)}
Coming(l) == {f \in Later(l) : KSTDate(Start(f)) <= KSTDate(now) + SearchDays}

(* The date the search finds a match under.                                 *)
FiledOn(f) == IF sport = "football" THEN UTCDate(Start(f)) ELSE KSTDate(Start(f))
FiledFirst(l) == {f \in Later(l) : \A g \in Later(l) : FiledOn(f) <= FiledOn(g)}
MatchDay(l, f) == {g \in Later(l) : KSTDate(Start(g)) = KSTDate(Start(f))}
NextMatchDays(l) == {MatchDay(l, f) : f \in FiledFirst(l)}

(* When today's list was fetched and is empty, the next matches shown are   *)
(* one whole day in Korea, across the dates its matches are filed under.    *)
(* Its first match is among those filed first: in baseball the day is the   *)
(* nearest, in football either of the two days which the first date that    *)
(* has matches may belong to.                                               *)
NextIsWholeDay ==
  \A l \in LeagueSet \ (missed \cup {"mlb"}) :
    sport # "esports" /\ matches[l][KSTDate(now)] = {} /\ Coming(l) # {} =>
      {m.match : m \in ShownNext(l).matches} \in NextMatchDays(l)

(* The events shown of a finished match are its final ones or those of the  *)
(* last poll that read them live: what is lost is what came after it.       *)
FinalEvents ==
  \A l \in LeagueSet : \A m \in ShownToday(l) :
    m.status = "finished" => ShownEvents(m) \subseteq {goals[m.match], lastLive[m.match]}

(* GetNextMatches "returns the next upcoming matches for a league"          *)
(* (internal/scraper/sports_cache.go:87).                                   *)
NextIsUpcoming == \A l \in LeagueSet : \A m \in ShownNext(l).matches : now < Start(m.match)

(* "switch to live polling this long before match start"                    *)
(* (internal/scraper/sports_poller.go:16): with the lead time begun, a      *)
(* listed match waits for the next poll no longer than the live interval.   *)
LeadTimeKept ==
  \A l \in LeagueSet : \A m \in ShownToday(l) :
    round = NoRound /\ m.status = "scheduled" /\ now < Start(m.match)
      /\ Start(m.match) - now <= PreMatchLeadTime => nextTick - now <= LiveInterval
------------------------------------------------------------------------------
(* The inductive invariant behind these properties, in parts.               *)

(* A round is of a day that has begun; between rounds the ticker is ahead.  *)
RoundOK == IF round = NoRound THEN now <= nextTick ELSE round.date <= KSTDate(now)

(* No list is cached for a day later than the last round's.                 *)
LastDate == IF round = NoRound THEN KSTDate(now) ELSE round.date
DatesOK == \A l \in LeagueSet, d \in Dates : d > LastDate => matches[l][d] = NotCached

(* What is listed as still to come is read again two intervals after its    *)
(* start at the latest, and the half hours that rounds took; of a league    *)
(* polled in this round, it had not begun.                                  *)
ToPoll(l) == \E i \in DOMAIN round.todo : round.todo[i] = l
NoticedOK ==
  \A l \in LeagueSet \ missed : \A m \in ShownToday(l) : m.status = "scheduled" =>
    IF round = NoRound THEN nextTick < Start(m.match) + MatchDayInterval + crossings
    ELSE IF ToPoll(l) THEN now < Start(m.match) + MatchDayInterval + crossings
    ELSE now < Start(m.match) + crossings

(* Events that are cached are those last read live, or final.               *)
EventsOK ==
  \A f \in Fixtures :
    events[f] \in {-1, lastLive[f]} \/ (Status(f) = "finished" /\ events[f] = goals[f])

SportsIInv ==
  /\ SportsTypeOK /\ RoundOK /\ DatesOK /\ NoticedOK /\ EventsOK
  /\ ShownIsToday /\ NextIsWholeDay
==============================================================================
