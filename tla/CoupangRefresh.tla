--------------------------- MODULE CoupangRefresh ---------------------------
(***************************************************************************)
(* Refreshing the price of tracked products, internal/coupang: a Lookup    *)
(* that finds its product stale refreshes it while the user waits          *)
(* (tryReadThroughRefresh) or asks for a background refresh                *)
(* (ScheduleRefresh), and the watchlist sweeps all products at startup     *)
(* (WarmupStale) and on a ticker (RefreshDue).  All of them go through the *)
(* refresh flight of the track; the row also carries a persisted           *)
(* refresh_in_flight mark.  Rows come and go under them (registration,     *)
(* eviction), and the process may be killed: the rows and their marks      *)
(* survive it, the flights do not.                                         *)
(*                                                                         *)
(* A step is one store call, one fetch or one wait.  The clock is reduced  *)
(* to one fact about a row: it was observed within the freshness window.   *)
(* Whether its last attempt is too recent for a sweep is for the sweep to  *)
(* choose: time may have passed or not.                                    *)
(***************************************************************************)
EXTENDS CoupangResolution, FiniteSets

CONSTANTS
  Lookups,      \* Lookup calls for a tracked product
  Tracks,       \* track ids
  AsyncLimit,   \* SetLimit of the errgroup (10 in the code)
  Coalescing,   \* coupang.lookup_coalescing_enabled
  MaxCrashes,   \* bound: how often the process is killed
  NoActor,      \* no leader
  Watchlist     \* the watchlist goroutine

ASSUME RefreshAssumption ==
  /\ AsyncLimit \in Nat \ {0}
  /\ Coalescing \in BOOLEAN
  /\ MaxCrashes \in Nat

Reader(l) == <<"read", l>>   \* the goroutine of the Lookup
Task(l)   == <<"task", l>>   \* the background refresh it schedules
Readers == {"read"} \X Lookups
BackgroundTasks == {"task"} \X Lookups
Actors == Readers \cup BackgroundTasks \cup {Watchlist}

ASSUME ActorsAssumption ==
  /\ Watchlist \notin Readers \cup BackgroundTasks
  /\ NoActor \notin Actors

VARIABLES
  rows,       \* tracks with a row in coupang_products
  fresh,      \* rows observed within the freshness window
  verified,   \* rows whose source mapping is verified
  marked,     \* rows with refresh_in_flight set
  flight,     \* refreshFlights: the actor that began t's flight
  at,         \* where an actor is
  asks,       \* asks[l]: the track of lookup l
  sweeping,   \* the track the watchlist refreshes
  todo,       \* the listed products its sweep still has to visit
  phase,      \* "warmup" until WarmupStale has returned, then "ticking"
  told,       \* told[l]: the flight l joined is done
  outcome,    \* outcome[l]: how l's read-through refresh ended
  busy,       \* slots of the errgroup held by chart backfills and by refreshes of other products
  waiting,    \* slots held by refreshes of other products that wait for one more
  crashes,    \* times the process was killed
  leftover    \* history: marks left by a killed process or a failing clear

dbVars == <<rows, fresh, verified, marked, leftover>>
sweepVars == <<sweeping, todo, phase>>
replyVars == <<told, outcome>>
slots == <<busy, waiting>>
vars == <<asks, dbVars, flight, at, sweepVars, replyVars, slots, crashes>>

On(a) == IF a = Watchlist THEN sweeping ELSE asks[a[2]]
Goto(a, place) == at' = [at EXCEPT ![a] = place]

(* The part of refreshProduct and readThroughRefresh between the begin and  *)
(* the end of the flight.                                                   *)
WorkPlaces == {"budget", "submit", "load", "fetch", "apply", "chart", "clear", "finish"}
Holding(a) == at[a] \in WorkPlaces

(* The errgroup's slots: background refreshes that run, chart backfills,    *)
(* and background refreshes of products that no lookup here asks for, with  *)
(* which these share nothing else.                                          *)
Running == {l \in Lookups : at[Task(l)] \in WorkPlaces \ {"budget", "submit"}}
HasSlot == Cardinality(Running) + busy + waiting < AsyncLimit

------------------------------------------------------------------------------
(* The row of a product in the price store, the updates of a refresh.  An   *)
(* UPDATE of a row that is gone changes nothing.                            *)

UpdateProductMetadata(t) == rows' = rows \cup {t}

(* The observed price; refresh_in_flight is false with it.                  *)
UpdateSnapshot(t) ==
  /\ fresh' = fresh \cup {t}
  /\ marked' = marked \ {t}
  /\ leftover' = leftover \ {t}

MarkRefreshState(t, inFlight) == marked' = IF inFlight THEN marked \cup {t} ELSE marked \ {t}

UpsertSourceMapping(t, mapping) ==
  verified' = IF mapping = "verified" THEN verified \cup {t} ELSE verified \ {t}

(* needs_recheck, or failed.                                                *)
MarkSourceMappingState(t) == verified' = verified \ {t}

isStale(t) == t \notin fresh

(* Whether the interval of its tier has passed, and the backoff of a failed *)
(* mapping, is a matter of time: any of the products may be due.            *)
DueForRefresh(products) == SUBSET products

(* beginRefreshFlight, by who finds no flight of the track.                 *)
BeginFlight(t, a) == flight[t] = NoActor /\ flight' = [flight EXCEPT ![t] = a]

Init ==
  /\ asks \in [Lookups -> Tracks]
  /\ rows \in SUBSET Tracks
  /\ fresh = {} /\ marked = {} /\ leftover = {}
  /\ verified \in SUBSET rows
  /\ flight = [t \in Tracks |-> NoActor]
  /\ at = [a \in Actors |-> IF a = Watchlist THEN "list" ELSE IF a \in Readers THEN "start" ELSE "none"]
  /\ sweeping \in Tracks
  /\ todo = {} /\ phase = "warmup"
  /\ told = [l \in Lookups |-> FALSE]
  /\ outcome = [l \in Lookups |-> "none"]
  /\ busy = 0 /\ waiting = 0
  /\ crashes = 0

------------------------------------------------------------------------------
(* A Lookup of a tracked product.                                           *)

(* finishLookupProduct: a fresh product is answered as it is.               *)
LookupStarts(l) ==
  LET t == asks[l] IN
  /\ at[Reader(l)] = "start" /\ t \in rows
  /\ Goto(Reader(l), IF isStale(t) THEN "try" ELSE "done")
  /\ UNCHANGED <<asks, dbVars, flight, sweepVars, replyVars, slots, crashes>>

(* tryReadThroughRefresh: only a verified mapping is worth the wait; the    *)
(* first to begin the flight leads, the others join it or, without          *)
(* coalescing, go on with the stale product.  So does who cannot load it.   *)
TryReadThrough(l) ==
  LET t == asks[l] IN
  /\ at[Reader(l)] = "try"
  /\ \/ Goto(Reader(l), "schedule") /\ UNCHANGED flight
     \/ /\ t \in verified /\ BeginFlight(t, Reader(l))
        /\ Goto(Reader(l), "budget")
     \/ /\ t \in verified /\ flight[t] # NoActor /\ Coalescing
        /\ Goto(Reader(l), "join")
        /\ UNCHANGED flight
  /\ UNCHANGED <<asks, dbVars, sweepVars, replyVars, slots, crashes>>

(* The flight is done: readRefreshStatusFromLatest, whose load may fail.    *)
Joined(l) ==
  /\ at[Reader(l)] = "join" /\ told[l]
  /\ told' = [told EXCEPT ![l] = FALSE]
  /\ \/ asks[l] \in fresh /\ Goto(Reader(l), "require")
     \/ Goto(Reader(l), "schedule")
  /\ UNCHANGED <<asks, dbVars, flight, sweepVars, outcome, slots, crashes>>

(* read_refresh_join_wait passes.                                           *)
JoinTimesOut(l) ==
  /\ at[Reader(l)] = "join"
  /\ told' = [told EXCEPT ![l] = FALSE]
  /\ Goto(Reader(l), "schedule")
  /\ UNCHANGED <<asks, dbVars, flight, sweepVars, outcome, slots, crashes>>

(* requireTrackedProduct after a refresh: without the row Lookup returns an *)
(* error, with it IsStale is asked once more.                               *)
Require(l) ==
  LET t == asks[l] IN
  /\ at[Reader(l)] = "require"
  /\ Goto(Reader(l), IF t \in rows \ fresh THEN "schedule" ELSE "done")
  /\ UNCHANGED <<asks, dbVars, flight, sweepVars, replyVars, slots, crashes>>

(* Lookup's ScheduleRefresh begins the flight the task will end.            *)
Schedule(l) ==
  LET t == asks[l] IN
  /\ at[Reader(l)] = "schedule"
  /\ IF flight[t] # NoActor
     THEN Goto(Reader(l), "done") /\ UNCHANGED flight
     ELSE /\ BeginFlight(t, Task(l))
          /\ at' = [at EXCEPT ![Reader(l)] = "scheduling", ![Task(l)] = "budget"]
  /\ UNCHANGED <<asks, dbVars, sweepVars, replyVars, slots, crashes>>

(* goAsync returns once the errgroup has a slot for the task.               *)
Submit(l) ==
  /\ at[Task(l)] = "submit" /\ HasSlot
  /\ at' = [at EXCEPT ![Task(l)] = "load", ![Reader(l)] = "done"]
  /\ UNCHANGED <<asks, dbVars, flight, sweepVars, replyVars, slots, crashes>>

(* A store call of the lookup fails: of the touch or the tier, of the       *)
(* reload after a refresh, of the price history read before ScheduleRefresh.*)
LookupFails(l) ==
  /\ at[Reader(l)] \in {"start", "require", "schedule"}
  /\ Goto(Reader(l), "done")
  /\ UNCHANGED <<asks, dbVars, flight, sweepVars, replyVars, slots, crashes>>

------------------------------------------------------------------------------
(* One refresh, of whichever actor: refreshProduct, readThroughRefresh.     *)

(* What a reader learns of its own refresh.                                 *)
Ends(a, how) ==
  outcome' = IF a \in Readers THEN [outcome EXCEPT ![a[2]] = how] ELSE outcome

(* refreshes.Allow.                                                         *)
Budget(a) ==
  /\ at[a] = "budget"
  /\ \/ Goto(a, IF a \in BackgroundTasks THEN "submit" ELSE "load") /\ UNCHANGED outcome
     \/ Goto(a, "finish") /\ Ends(a, "failed")
  /\ UNCHANGED <<asks, dbVars, flight, sweepVars, told, slots, crashes>>

(* GetProduct, for a reader canReadThroughRefresh once more, and then       *)
(* MarkRefreshState(true), an UPDATE that finds the row or not.             *)
LoadProduct(a) ==
  /\ at[a] = "load"
  /\ On(a) \in rows /\ (a \in Readers => On(a) \in verified)
  /\ MarkRefreshState(On(a), TRUE)
  /\ Goto(a, "fetch")
  /\ UNCHANGED <<asks, rows, fresh, verified, leftover, flight, sweepVars, replyVars, slots, crashes>>

(* There is no such product, or a store call fails.                         *)
LoadFails(a) ==
  /\ at[a] = "load"
  /\ Goto(a, "finish")
  /\ Ends(a, "failed")
  /\ UNCHANGED <<asks, dbVars, flight, sweepVars, told, slots, crashes>>

(* The fetch gives a price, after a detail that did not verify or not.      *)
Fetched(a) ==
  /\ at[a] = "fetch"
  /\ Goto(a, "apply")
  /\ \/ UNCHANGED verified
     \/ a \notin Readers /\ MarkSourceMappingState(On(a))
  /\ UNCHANGED <<asks, rows, fresh, marked, leftover, flight, sweepVars, replyVars, slots, crashes>>

(* The fetch fails.  The mapping is put to needs_recheck or failed, unless  *)
(* a background refresh had none or the write fails as well (its context    *)
(* may be what ended the fetch).                                            *)
FetchFails(a) ==
  /\ at[a] = "fetch"
  /\ Goto(a, "clear")
  /\ Ends(a, "failed")
  /\ MarkSourceMappingState(On(a)) \/ UNCHANGED verified
  /\ UNCHANGED <<asks, rows, fresh, marked, leftover, flight, sweepVars, told, slots, crashes>>

(* Fallcent answers with another product: fetchVerifiedRefresh returns no   *)
(* product and no error, and applyRefreshedProduct dereferences the nil.    *)
FetchMismatches(a) ==
  /\ at[a] = "fetch" /\ a \in Readers /\ "nothing" \in ReadThroughs
  /\ Goto(a, "clear")
  /\ Ends(a, "panic")
  /\ MarkSourceMappingState(On(a)) \/ UNCHANGED verified
  /\ UNCHANGED <<asks, rows, fresh, marked, leftover, flight, sweepVars, told, slots, crashes>>

(* applyRefreshedProduct: an upsert of the metadata (which brings back a    *)
(* row deleted since LoadProduct), the snapshot with refresh_in_flight      *)
(* false, the price, the mapping: verified or, from the auxiliary provider, *)
(* failed.  A verified refresh may be due for a chart backfill.             *)
Apply(a) ==
  LET t == On(a) IN
  /\ at[a] = "apply"
  /\ UpdateProductMetadata(t)
  /\ UpdateSnapshot(t)
  /\ \E mapping \in Resolved \cap (IF a \in Readers THEN ReadThroughs ELSE Refreshes) :
       /\ UpsertSourceMapping(t, mapping)
       /\ Goto(a, "clear") \/ (mapping = "verified" /\ Goto(a, "chart"))
  /\ Ends(a, "ok")
  /\ UNCHANGED <<asks, flight, sweepVars, told, slots, crashes>>

MutApplyFails(a) ==  \* the error return comes before the defer is set up
  /\ at[a] = "apply"
  /\ Goto(a, "finish")
  /\ Ends(a, "failed")
  /\ UNCHANGED <<asks, dbVars, flight, sweepVars, told, slots, crashes>>

(* One of its writes fails: the first, the second or a later one.           *)
ApplyFails(a) ==
  LET t == On(a) IN
  /\ at[a] = "apply"
  /\ \/ UNCHANGED dbVars
     \/ UpdateProductMetadata(t) /\ UNCHANGED <<fresh, marked, leftover>>
     \/ UpdateProductMetadata(t) /\ UpdateSnapshot(t)
  /\ Goto(a, "clear")
  /\ Ends(a, "failed")
  /\ UNCHANGED <<asks, verified, flight, sweepVars, told, slots, crashes>>

(* maybeBackfillChart waits for a slot with the flight, and for a           *)
(* background refresh its own slot, still held.                             *)
SubmitChart(a) ==
  /\ at[a] = "chart" /\ HasSlot
  /\ busy' = busy + 1
  /\ Goto(a, "clear")
  /\ UNCHANGED <<asks, dbVars, flight, sweepVars, replyVars, waiting, crashes>>

(* The deferred MarkRefreshState(false).                                    *)
Clear(a) ==
  LET t == On(a) IN
  /\ at[a] = "clear"
  /\ MarkRefreshState(t, FALSE)
  /\ leftover' = leftover \ {t}
  /\ Goto(a, "finish")
  /\ UNCHANGED <<asks, rows, fresh, verified, flight, sweepVars, replyVars, slots, crashes>>

(* Its error is ignored.                                                    *)
ClearFails(a) ==
  /\ at[a] = "clear"
  /\ leftover' = leftover \cup ({On(a)} \cap marked)
  /\ Goto(a, "finish")
  /\ UNCHANGED <<asks, rows, fresh, verified, marked, flight, sweepVars, replyVars, slots, crashes>>

(* finishRefresh: close the flight under the track, and go on.              *)
FinishRefresh(t) ==
  /\ flight' = [flight EXCEPT ![t] = NoActor]
  /\ told' = [m \in Lookups |->
                told[m] \/ (flight[t] # NoActor /\ asks[m] = t /\ at[Reader(m)] = "join")]

MutReaderFinishes(l) ==  \* a failed refresh is tried again
  /\ at[Reader(l)] = "finish"
  /\ FinishRefresh(asks[l])
  /\ Goto(Reader(l), IF outcome[l] = "ok" THEN "require" ELSE "try")
  /\ outcome' = [outcome EXCEPT ![l] = "none"]
  /\ UNCHANGED <<asks, dbVars, sweepVars, slots, crashes>>

ReaderFinishes(l) ==
  /\ at[Reader(l)] = "finish"
  /\ FinishRefresh(asks[l])
  /\ Goto(Reader(l), CASE outcome[l] = "ok" -> "require"
                       [] outcome[l] = "failed" -> "schedule"
                       [] OTHER -> "done")
  /\ outcome' = [outcome EXCEPT ![l] = "none"]
  /\ UNCHANGED <<asks, dbVars, sweepVars, slots, crashes>>

(* A refused task ends ScheduleRefresh too.                                 *)
TaskFinishes(l) ==
  /\ at[Task(l)] = "finish"
  /\ FinishRefresh(asks[l])
  /\ at' = [at EXCEPT ![Task(l)] = "none",
                      ![Reader(l)] = IF @ = "scheduling" THEN "done" ELSE @]
  /\ UNCHANGED <<asks, dbVars, sweepVars, outcome, slots, crashes>>

SweepFinishes ==
  /\ at[Watchlist] = "finish"
  /\ FinishRefresh(sweeping)
  /\ Goto(Watchlist, "pick")
  /\ UNCHANGED <<asks, dbVars, sweepVars, outcome, slots, crashes>>

(* A chart backfill replaces the seed prices, or fails to; or the refresh   *)
(* of another product ends.                                                 *)
ChartEnds ==
  /\ busy > 0
  /\ busy' = busy - 1
  /\ UNCHANGED <<asks, dbVars, flight, at, sweepVars, replyVars, waiting, crashes>>

(* A refresh of another product gets a slot, waits with it for one for its  *)
(* chart, and gets that.                                                    *)
OtherRefresh ==
  /\ \/ HasSlot /\ busy' = busy + 1 /\ UNCHANGED waiting
     \/ busy > 0 /\ busy' = busy - 1 /\ waiting' = waiting + 1
     \/ waiting > 0 /\ HasSlot /\ busy' = busy + 2 /\ waiting' = waiting - 1
  /\ UNCHANGED <<asks, dbVars, flight, at, sweepVars, replyVars, crashes>>

------------------------------------------------------------------------------
(* The watchlist: refreshSweep.                                             *)

(* ListWatchedProducts; whether to refresh is decided on the listed copies. *)
(* WarmupStale takes the stale ones, RefreshDue those whose tier's interval *)
(* has passed; neither one that is marked, or tried too recently.           *)
SweepList ==
  /\ at[Watchlist] = "list"
  /\ \E late \in DueForRefresh(IF phase = "warmup" THEN {t \in rows : isStale(t)} ELSE rows) :
       todo' = late \ marked
  /\ Goto(Watchlist, "pick")
  /\ UNCHANGED <<asks, dbVars, flight, sweeping, phase, replyVars, slots, crashes>>

MutSweepPick(t) ==  \* finishes the refresh whether or not it began it
  /\ at[Watchlist] = "pick" /\ t \in todo
  /\ todo' = todo \ {t}
  /\ IF flight[t] # NoActor
     THEN flight' = [flight EXCEPT ![t] = NoActor] /\ UNCHANGED <<at, sweeping>>
     ELSE /\ flight' = [flight EXCEPT ![t] = Watchlist]
          /\ sweeping' = t
          /\ Goto(Watchlist, "budget")
  /\ UNCHANGED <<asks, dbVars, phase, replyVars, slots, crashes>>

(* prepareSweepRefresh: a product somebody else refreshes is passed over.   *)
SweepPick(t) ==
  /\ at[Watchlist] = "pick" /\ t \in todo
  /\ todo' = todo \ {t}
  /\ IF flight[t] # NoActor THEN UNCHANGED <<flight, at, sweeping>>
     ELSE /\ BeginFlight(t, Watchlist)
          /\ sweeping' = t
          /\ Goto(Watchlist, "budget")
  /\ UNCHANGED <<asks, dbVars, phase, replyVars, slots, crashes>>

SweepEnds ==
  /\ at[Watchlist] = "pick" /\ todo = {}
  /\ phase' = "ticking"
  /\ Goto(Watchlist, "list")
  /\ UNCHANGED <<asks, dbVars, flight, sweeping, todo, replyVars, slots, crashes>>

------------------------------------------------------------------------------
(* Time, other goroutines, and the end of the process.                      *)

PriceAges(t) ==
  /\ t \in fresh
  /\ fresh' = fresh \ {t}
  /\ UNCHANGED <<asks, rows, verified, marked, leftover, flight, at, sweepVars, replyVars, slots, crashes>>

(* EvictStaleProducts or DeleteProducts takes the row.                      *)
Evict(t) ==
  /\ t \in rows
  /\ rows' = rows \ {t} /\ fresh' = fresh \ {t} /\ verified' = verified \ {t}
  /\ marked' = marked \ {t} /\ leftover' = leftover \ {t}
  /\ UNCHANGED <<asks, flight, at, sweepVars, replyVars, slots, crashes>>

(* A registration (module CoupangRegistration) writes the row.              *)
Register(t) ==
  /\ t \notin rows
  /\ rows' = rows \cup {t} /\ fresh' = fresh \cup {t}
  /\ verified' = verified \cup {t} \/ UNCHANGED verified
  /\ UNCHANGED <<asks, marked, leftover, flight, at, sweepVars, replyVars, slots, crashes>>

(* The process is killed and started again: what was in memory is gone.     *)
Crash ==
  /\ crashes < MaxCrashes
  /\ crashes' = crashes + 1
  /\ leftover' = marked
  /\ flight' = [t \in Tracks |-> NoActor]
  /\ at' = [a \in Actors |-> IF a = Watchlist THEN "list"
                             ELSE IF a \in BackgroundTasks THEN "none"
                             ELSE IF at[a] = "start" THEN "start" ELSE "done"]
  /\ todo' = {} /\ phase' = "warmup"
  /\ told' = [l \in Lookups |-> FALSE]
  /\ outcome' = [l \in Lookups |-> "none"]
  /\ busy' = 0 /\ waiting' = 0
  /\ UNCHANGED <<asks, rows, fresh, verified, marked, sweeping>>

LookupStep(l) ==
  \/ LookupStarts(l) \/ TryReadThrough(l) \/ Joined(l) \/ JoinTimesOut(l) \/ Require(l)
  \/ Schedule(l) \/ Submit(l) \/ LookupFails(l) \/ ReaderFinishes(l) \/ TaskFinishes(l)

RefreshStep(a) ==
  \/ Budget(a) \/ LoadProduct(a) \/ LoadFails(a)
  \/ Fetched(a) \/ FetchFails(a) \/ FetchMismatches(a) \/ Apply(a) \/ ApplyFails(a)
  \/ SubmitChart(a) \/ Clear(a) \/ ClearFails(a)

SweepStep == SweepList \/ SweepEnds \/ SweepFinishes \/ \E t \in Tracks : SweepPick(t)

LookupWork == \E l \in Lookups : LookupStep(l) \/ RefreshStep(Reader(l)) \/ RefreshStep(Task(l))
SweepWork == SweepStep \/ RefreshStep(Watchlist)

Next ==
  \/ LookupWork \/ SweepWork \/ ChartEnds \/ OtherRefresh \/ Crash
  \/ \E t \in Tracks : PriceAges(t) \/ Evict(t) \/ Register(t)

(* Goroutines run, fetches and store calls end within their timeouts, and   *)
(* errgroup.Go sends to a channel, which serves who waits in order, so that *)
(* the refreshes of others do not starve a lookup of slots.  One condition  *)
(* does for all lookups and their tasks, each has finitely many steps to    *)
(* take.  Nothing makes rows come or go, or prices age.                     *)
Fairness == SF_vars(LookupWork) /\ WF_vars(SweepWork) /\ WF_vars(ChartEnds)

Spec == Init /\ [][Next]_vars
FairSpec == Spec /\ Fairness
------------------------------------------------------------------------------
Places == {"none", "start", "try", "join", "require", "schedule", "scheduling", "done", "list", "pick"}
            \cup WorkPlaces

TypeOK ==
  /\ asks \in [Lookups -> Tracks]
  /\ rows \subseteq Tracks
  /\ fresh \subseteq rows /\ verified \subseteq rows 
  /\ marked \subseteq rows /\ leftover \subseteq marked
  /\ flight \in [Tracks -> Actors \cup {NoActor}]
  /\ at \in [Actors -> Places]
  /\ sweeping \in Tracks
  /\ todo \subseteq Tracks
  /\ phase \in {"warmup", "ticking"}
  /\ told \in [Lookups -> BOOLEAN]
  /\ outcome \in [Lookups -> {"none", "ok", "failed", "panic"}]
  /\ busy \in Nat /\ waiting \in Nat /\ busy + waiting <= AsyncLimit
  /\ crashes \in 0 .. MaxCrashes

------------------------------------------------------------------------------
Refreshers(t) == {a \in Actors : Holding(a) /\ On(a) = t}

(* The refresh flights implement SingleFlight, across restarts too.         *)
Flights == INSTANCE SingleFlight WITH
  Keys <- Tracks, Workers <- Actors, working <- [t \in Tracks |-> Refreshers(t)]
ImplementsSingleFlight == Flights!Spec

(* refresh_in_flight says that the process refreshes the product now; no    *)
(* path through a refresh leaves it behind, whatever fails, except for a    *)
(* failing clear and a killed process.                                      *)
MarkMeansInFlight ==
  \A t \in marked \ leftover :
    \E a \in Refreshers(t) : at[a] \in {"fetch", "apply", "chart", "clear"}

(* Every slot is held by a refresh that waits for one more.                 *)
Blocked == Cardinality({l \in Running : at[Task(l)] = "chart"}) + waiting = AsyncLimit

(* A lookup that found its product stale returns, with an answer, an error  *)
(* or a panic, whoever refreshes the product and whatever fails; unless the *)
(* errgroup's slots are all taken by refreshes that wait for one, when a    *)
(* lookup that has a refresh to submit, or a chart, waits for ever.         *)
LookupsReturn ==
  \A l \in Lookups : at[Reader(l)] = "try" ~> at[Reader(l)] = "done" \/ Blocked

(* After a start the watchlist refreshes the products that are not fresh    *)
(* (README, operations notes): it leaves out those tried moments ago, and   *)
(* those somebody is refreshing, which a mark need not mean.                *)
WarmupCoversStale ==
  [][phase = "warmup" /\ at[Watchlist] = "list" /\ at'[Watchlist] = "pick" =>
       \A t \in rows : isStale(t) /\ t \in marked => flight[t] # NoActor]_vars

(* When the detail of a stale product does not verify, the stale answer is  *)
(* kept (README, operations notes): the lookup answers.                     *)
StaleAnswerIsKept == \A l \in Lookups : outcome[l] # "panic"

(* What the proofs need beside the types.  Who works on a track has begun   *)
(* its flight and not finished it; a task that has no slot yet keeps the    *)
(* lookup that schedules it waiting; finitely many tasks hold a slot.       *)
FlightOK ==
  /\ \A a \in Actors : Holding(a) => flight[On(a)] = a
  /\ \A l \in Lookups : at[Task(l)] \in {"budget", "submit"} => at[Reader(l)] = "scheduling"
  /\ IsFiniteSet(Running)

(* The inductive invariant behind ImplementsSingleFlight and                *)
(* MarkMeansInFlight.                                                       *)
IInv == TypeOK /\ FlightOK /\ MarkMeansInFlight
==============================================================================
