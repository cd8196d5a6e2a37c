------------------------- MODULE CoupangRegistration -------------------------
(***************************************************************************)
(* First-time registration of a product by internal/coupang: concurrent    *)
(* Lookup calls that find their track id untracked, the registration       *)
(* flight that coalesces them, the capacity they make room for, and the    *)
(* asynchronous work they leave in the tracker's errgroup (the deferred    *)
(* bootstrap and the chart seed).  What a Lookup does with a product that  *)
(* is tracked but stale is module CoupangRefresh.                          *)
(*                                                                         *)
(* A Lookup is followed from ensureTracked to the product it answers with. *)
(* Its deferred bootstrap and its chart seed carry its name.  A step is    *)
(* one store call, one fetch or one wait; the fetchers are reduced to how  *)
(* they end.                                                               *)
(***************************************************************************)
EXTENDS CoupangResolution, FiniteSets

CONSTANTS
  Lookups,      \* Lookup calls
  Tracks,       \* track ids (trackProductID)
  MaxProducts,  \* coupang.max_products
  AsyncLimit,   \* SetLimit of the errgroup (10 in the code)
  Settings,     \* bound: lookup_coalescing_enabled with who asks for which track
  NoLookup,     \* no leader
  Watchlist     \* the watchlist goroutine

ASSUME RegistrationAssumption ==
  /\ IsFiniteSet(Tracks)
  /\ MaxProducts \in Nat \ {0}
  /\ AsyncLimit \in Nat \ {0}
  /\ Settings \subseteq BOOLEAN \X [Lookups -> Tracks]
  /\ NoLookup \notin Lookups
  /\ Watchlist \notin Lookups

Actors == Lookups \cup {Watchlist}

VARIABLES
  coalescing, \* config.LookupCoalescingEnabled, never changes
  shutdown,   \* the application context is done
  rows,       \* track ids that have a row in coupang_products
  idle,       \* rows not queried for idle_timeout
  seeds,      \* seeds[t]: who inserted the chart seeds in t's price history
  flight,     \* registrationFlights: the lookup leading t's flight
  pc,         \* where a lookup, or the watchlist, is
  track,      \* track[l]: the track id lookup l asked for
  news,       \* news[l]: how the flight l had joined was completed
  answer,     \* answer[l]: what l returned
  excess,     \* local variable of enforceCapacity
  victims,    \* local variable evictIDs of enforceCapacity, or the product to backfill
  boot,       \* boot[l]: the deferred bootstrap l started
  seed,       \* seed[l]: the chart seed started for l
  evicted     \* history: tracks whose row was deleted

envVars   == <<coalescing, shutdown>>
storeVars == <<rows, idle, seeds, evicted>>
capVars   == <<excess, victims>>
taskVars  == <<boot, seed>>
flightVars == <<flight, news>>
vars == <<envVars, storeVars, capVars, taskVars, flightVars, pc, track, answer>>

------------------------------------------------------------------------------
(* goAsync: errgroup.Go blocks its caller until one of the group's slots is *)
(* free; a slot is held until the task returns.                             *)
BootActive(l) == boot[l] \notin {"none", "done"}
SeedActive(l) == seed[l] \notin {"none", "done"}
Slots == ({"boot"} \X {l \in Lookups : BootActive(l)}) \cup ({"seed"} \X {l \in Lookups : SeedActive(l)})
(* Defect: the limit leaves no slot for what a task starts.                 *)
MutHasSlot == Cardinality(Slots) < AsyncLimit - 2
HasSlot == Cardinality(Slots) < AsyncLimit

(* completeRegistrationFlight: close the flight under t, whoever opened it, *)
(* and hand its outcome to the lookups waiting for it.                      *)
CompleteFlight(t, outcome) ==
  /\ flight' = [flight EXCEPT ![t] = NoLookup]
  /\ news' = [m \in Lookups |->
                IF flight[t] # NoLookup /\ pc[m] = "join" /\ track[m] = t /\ news[m] = "none"
                THEN outcome ELSE news[m]]

(* ensureTrackedDirect returns to ensureTrackedWithCoalescing, or to        *)
(* ensureTracked.                                                           *)
LeaveDirect(l, outcome) ==
  IF coalescing THEN CompleteFlight(track[l], outcome) ELSE UNCHANGED flightVars

(* enforceCapacity returns to ensureTrackedDirect, or to the watchlist.     *)
AfterCapacity(a) == IF a = Watchlist THEN "idle" ELSE "resolve"
Reserve(a) == IF a = Watchlist THEN 0 ELSE 1

Goto(a, place) == pc' = [pc EXCEPT ![a] = place]
Return(l, result) ==
  /\ Goto(l, "done")
  /\ answer' = [answer EXCEPT ![l] = result]

------------------------------------------------------------------------------
(* The price store.                                                         *)

(* No row is no error.                                                      *)
GetProduct(t) == t \in rows

(* Makes the row or counts one more query of it.                            *)
UpsertProduct(t) == rows' = rows \cup {t} /\ idle' = idle \ {t}

TouchProduct(t) == idle' = idle \ {t}

HasSeedPrices(t) == seeds[t] # {}

(* The rows must be there: the price history refers to them.                *)
InsertSeedPrices(by, T) ==
  /\ T \subseteq rows
  /\ seeds' = [t \in Tracks |-> IF t \in T THEN seeds[t] \cup {by} ELSE seeds[t]]

CountTrackedProducts == Cardinality(rows)

Init ==
  /\ \E s \in Settings : coalescing = s[1] /\ track = s[2]
  /\ shutdown = FALSE
  /\ rows \in {R \in SUBSET Tracks : Cardinality(R) <= MaxProducts}
  /\ idle \in SUBSET rows
  /\ seeds = [t \in Tracks |-> {}]
  /\ evicted = {}
  /\ flight = [t \in Tracks |-> NoLookup]
  /\ pc = [a \in Actors |-> IF a = Watchlist THEN "startup" ELSE "start"]
  /\ news = [l \in Lookups |-> "none"]
  /\ answer = [l \in Lookups |-> "none"]
  /\ excess = [a \in Actors |-> 0]
  /\ victims = [a \in Actors |-> {}]
  /\ boot = [l \in Lookups |-> "none"]
  /\ seed = [l \in Lookups |-> "none"]

------------------------------------------------------------------------------
(* A Lookup.                                                                *)

(* ensureTracked: loadTrackedProduct's GetProduct.                          *)
Load(l) ==
  /\ pc[l] = "start"
  /\ Goto(l, IF GetProduct(track[l]) THEN "meta"
             ELSE IF coalescing THEN "begin" ELSE "direct")
  /\ UNCHANGED <<envVars, storeVars, capVars, taskVars, flightVars, track, answer>>

(* loadTrackedProduct's UpdateProductMetadata is an upsert: it re-creates a *)
(* row that was deleted since GetProduct saw it.                            *)
WriteMetadata(l) ==
  /\ pc[l] \in {"meta", "metaDirect"}
  /\ rows' = rows \cup {track[l]}
  /\ Goto(l, "touch")
  /\ IF pc[l] = "metaDirect" THEN LeaveDirect(l, "product") ELSE UNCHANGED flightVars
  /\ UNCHANGED <<envVars, idle, seeds, evicted, capVars, taskVars, track, answer>>

(* Defect: an open flight does not stop a lookup from leading its own.      *)
MutBeginFlight(l) ==
  /\ pc[l] = "begin"
  /\ flight' = [flight EXCEPT ![track[l]] = l]
  /\ Goto(l, "direct")
  /\ UNCHANGED <<envVars, storeVars, capVars, taskVars, news, track, answer>>

BeginFlight(l) ==
  /\ pc[l] = "begin"
  /\ IF flight[track[l]] = NoLookup
     THEN /\ flight' = [flight EXCEPT ![track[l]] = l]
          /\ Goto(l, "direct")
     ELSE /\ UNCHANGED flight
          /\ Goto(l, "join")
  /\ UNCHANGED <<envVars, storeVars, capVars, taskVars, news, track, answer>>

(* ensureTrackedDirect loads again; an untracked product goes on if         *)
(* regs.Allow lets the registration pass, a refusal is                      *)
(* ErrCoupangRegistrationLimited (LookupFails).                             *)
LoadDirect(l) ==
  /\ pc[l] = "direct"
  /\ Goto(l, IF GetProduct(track[l]) THEN "metaDirect" ELSE "count")
  /\ UNCHANGED <<envVars, storeVars, capVars, taskVars, flightVars, track, answer>>

------------------------------------------------------------------------------
(* enforceCapacity, of a lookup about to register or of the watchlist.      *)

(* Defect: one row too many is let pass.                                    *)
MutToleratesOne(a) ==
  LET over == CountTrackedProducts + Reserve(a) - MaxProducts IN
  /\ pc[a] = "count"
  /\ IF over <= 1
     THEN Goto(a, AfterCapacity(a)) /\ UNCHANGED excess
     ELSE Goto(a, "list") /\ excess' = [excess EXCEPT ![a] = over]
  /\ UNCHANGED <<envVars, storeVars, victims, taskVars, flightVars, track, answer>>

CountRows(a) ==
  LET over == CountTrackedProducts + Reserve(a) - MaxProducts IN
  /\ pc[a] = "count"
  /\ IF over <= 0
     THEN Goto(a, AfterCapacity(a)) /\ UNCHANGED excess
     ELSE Goto(a, "list") /\ excess' = [excess EXCEPT ![a] = over]
  /\ UNCHANGED <<envVars, storeVars, victims, taskVars, flightVars, track, answer>>

(* The rows queried longest ago: idle ones first.  last_queried has the     *)
(* resolution of a second, so among the others any may come last.           *)
OldestRows(n) ==
  {V \in SUBSET rows :
     /\ Cardinality(V) = IF n < Cardinality(rows) THEN n ELSE Cardinality(rows)
     /\ V \subseteq idle \/ idle \subseteq V}

ListVictims(a) ==
  /\ pc[a] = "list" /\ rows # {}
  /\ \E V \in OldestRows(excess[a]) : victims' = [victims EXCEPT ![a] = V]
  /\ Goto(a, "evict")
  /\ UNCHANGED <<envVars, storeVars, excess, taskVars, flightVars, track, answer>>

(* The rows and their price history go in one transaction.                  *)
DeleteRows(V) ==
  /\ rows' = rows \ V
  /\ seeds' = [t \in Tracks |-> IF t \in V THEN {} ELSE seeds[t]]
  /\ idle' = idle \ V
  /\ evicted' = evicted \cup (V \cap rows)

DeleteVictims(a) ==
  /\ pc[a] = "evict"
  /\ DeleteRows(victims[a])
  /\ Goto(a, AfterCapacity(a))
  /\ excess' = [excess EXCEPT ![a] = 0]
  /\ victims' = [victims EXCEPT ![a] = {}]
  /\ UNCHANGED <<envVars, taskVars, flightVars, track, answer>>

------------------------------------------------------------------------------
(* bootstrapProduct.                                                        *)

(* The latency budget runs out during the resolution.                       *)
ResolveTimesOut(l) ==
  /\ pc[l] = "resolve"
  /\ Goto(l, "defer")
  /\ UNCHANGED <<envVars, storeVars, capVars, taskVars, flightVars, track, answer>>

(* Defect: the leader completes its flight although the work goes on.       *)
MutDefer(l) ==
  /\ pc[l] = "defer"
  /\ HasSlot
  /\ boot' = [boot EXCEPT ![l] = "persist"]
  /\ LeaveDirect(l, "empty")
  /\ Return(l, "deferred")
  /\ UNCHANGED <<envVars, storeVars, capVars, seed, track>>

(* startAsyncRegistrationBootstrap.  A leader leaves its flight to the task.*)
Defer(l) ==
  /\ pc[l] = "defer"
  /\ HasSlot
  /\ boot' = [boot EXCEPT ![l] = "persist"]
  /\ Return(l, "deferred")
  /\ UNCHANGED <<envVars, storeVars, capVars, seed, flightVars, track>>

(* persistBootstrapRecord: UpsertProduct, then updates of the row and the   *)
(* first price.  If the later writes fail, the row stays.                   *)
PersistRecord(t) ==
  /\ UpsertProduct(t)
  /\ UNCHANGED <<seeds, evicted>>

(* The product resolves; with a verified mapping there is a chart to seed.  *)
Persist(l) ==
  /\ pc[l] = "resolve"
  /\ PersistRecord(track[l])
  /\ \E mapping \in Resolutions \cap Resolved :
       Goto(l, IF mapping = "verified" THEN "seed" ELSE "reload")
  /\ UNCHANGED <<envVars, capVars, taskVars, flightVars, track, answer>>

PersistFails(l) ==
  /\ pc[l] = "resolve"
  /\ PersistRecord(track[l])
  /\ LeaveDirect(l, "error")
  /\ Return(l, "error")
  /\ UNCHANGED <<envVars, capVars, taskVars, track>>

(* seedBootstrapChart.                                                      *)
SubmitSeed(l) ==
  /\ pc[l] = "seed"
  /\ HasSlot
  /\ seed' = [seed EXCEPT ![l] = "check"]
  /\ Goto(l, "reload")
  /\ UNCHANGED <<envVars, storeVars, capVars, boot, flightVars, track, answer>>

(* GetProduct may find the row gone again: no error, no product.  An answer *)
(* with a chart waits for its seeds.                                        *)
Reload(l) ==
  LET found == GetProduct(track[l]) IN
  /\ pc[l] = "reload"
  /\ LeaveDirect(l, IF found THEN "product" ELSE "empty")
  /\ IF found /\ seed[l] # "none"
     THEN Goto(l, "await") /\ UNCHANGED answer
     ELSE Return(l, IF found THEN "ok" ELSE "empty")
  /\ UNCHANGED <<envVars, storeVars, capVars, taskVars, track>>

------------------------------------------------------------------------------
(* A follower, and the end of a lookup that found its product.              *)

(* awaitSeedPrices returns when the chart is there, or after five seconds;  *)
(* Lookup then reads the price history and answers.                         *)
AwaitSeedPrices(l) ==
  /\ pc[l] = "await"
  /\ Return(l, "ok")
  /\ UNCHANGED <<envVars, storeVars, capVars, taskVars, flightVars, track>>

(* resolveCompletedRegistrationFlight.                                      *)
Joined(l) ==
  /\ pc[l] = "join" /\ news[l] # "none"
  /\ IF news[l] = "product" \/ (news[l] = "empty" /\ GetProduct(track[l]))
     THEN Goto(l, "touch") /\ UNCHANGED answer
     ELSE Return(l, "error")
  /\ UNCHANGED <<envVars, storeVars, capVars, taskVars, flightVars, track>>

(* registration_join_wait passed: resolveTimedOutRegistrationFlight.        *)
JoinTimesOut(l) ==
  /\ pc[l] = "join"
  /\ \/ ~shutdown /\ GetProduct(track[l]) /\ Goto(l, "touch") /\ UNCHANGED answer
     \/ Return(l, "deferred")
  /\ UNCHANGED <<envVars, storeVars, capVars, taskVars, flightVars, track>>

JoinCancelled(l) ==
  /\ pc[l] = "join" /\ shutdown
  /\ Return(l, "error")
  /\ UNCHANGED <<envVars, storeVars, capVars, taskVars, flightVars, track>>

(* loadLookupProduct: TouchProduct, then GetProduct again.                  *)
Touch(l) ==
  /\ pc[l] = "touch"
  /\ TouchProduct(track[l])
  /\ Goto(l, "require")
  /\ UNCHANGED <<envVars, rows, seeds, evicted, capVars, taskVars, flightVars, track, answer>>

Require(l) ==
  /\ pc[l] = "require"
  /\ Return(l, IF GetProduct(track[l]) THEN "ok" ELSE "error")
  /\ UNCHANGED <<envVars, storeVars, capVars, taskVars, flightVars, track>>

(* A store call or the resolution fails, or the budget is used up.          *)
DirectPlaces == {"direct", "metaDirect", "count", "list", "evict",
                 "resolve", "reload"}
LookupFails(l) ==
  /\ pc[l] \in {"start", "meta", "touch", "require", "await"} \cup DirectPlaces
  /\ IF pc[l] \in DirectPlaces THEN LeaveDirect(l, "error") ELSE UNCHANGED flightVars
  /\ Return(l, "error")
  /\ excess' = [excess EXCEPT ![l] = 0]
  /\ victims' = [victims EXCEPT ![l] = {}]
  /\ UNCHANGED <<envVars, storeVars, taskVars, track>>

------------------------------------------------------------------------------
(* The deferred bootstrap: the body of startAsyncRegistrationBootstrap.     *)

BootAt(l, place) == boot' = [boot EXCEPT ![l] = place]

(* The resolution, within 20 s, and what follows it.                        *)
BootPersist(l) ==
  /\ boot[l] = "persist"
  /\ PersistRecord(track[l])
  /\ \E mapping \in Resolutions \cap Resolved :
       BootAt(l, IF mapping = "verified" THEN "seed" ELSE "reload")
  /\ UNCHANGED <<envVars, capVars, seed, flightVars, pc, track, answer>>

(* The task asks for a second slot while it holds one, its flight open.     *)
BootSubmitSeed(l) ==
  /\ boot[l] = "seed"
  /\ HasSlot
  /\ seed' = [seed EXCEPT ![l] = "check"]
  /\ BootAt(l, "reload")
  /\ UNCHANGED <<envVars, storeVars, capVars, flightVars, pc, track, answer>>

BootReload(l) ==
  /\ boot[l] = "reload"
  /\ CompleteFlight(track[l], IF GetProduct(track[l]) THEN "product" ELSE "empty")
  /\ BootAt(l, "done")
  /\ UNCHANGED <<envVars, storeVars, capVars, seed, pc, track, answer>>

(* Defect: a failed bootstrap forgets the flight.                           *)
MutBootFails(l) ==
  /\ boot[l] \in {"persist", "reload"}
  /\ BootAt(l, "done")
  /\ UNCHANGED <<envVars, storeVars, capVars, seed, flightVars, pc, track, answer>>

(* A fetch or a store call fails, or the task's context is done; the row    *)
(* may have been written.                                                   *)
BootFails(l) ==
  /\ boot[l] \in {"persist", "reload"}
  /\ CompleteFlight(track[l], "error")
  /\ BootAt(l, "done")
  /\ \/ UNCHANGED storeVars
     \/ boot[l] = "persist" /\ PersistRecord(track[l])
  /\ UNCHANGED <<envVars, capVars, seed, pc, track, answer>>

------------------------------------------------------------------------------
(* The chart seed: runAsyncSeedBootstrap.                                   *)

SeedEnds(l) == seed' = [seed EXCEPT ![l] = "done"]

SeedCheck(l) ==
  /\ seed[l] = "check" /\ ~HasSeedPrices(track[l])
  /\ seed' = [seed EXCEPT ![l] = "insert"]
  /\ UNCHANGED <<envVars, storeVars, capVars, boot, flightVars, pc, track, answer>>

SeedInsert(l) ==
  /\ seed[l] = "insert"
  /\ InsertSeedPrices(l, {track[l]})
  /\ SeedEnds(l)
  /\ UNCHANGED <<envVars, rows, idle, evicted, capVars, boot, flightVars, pc, track, answer>>

(* Seeded already, an empty chart, a failing fetch or store call.           *)
SeedSkips(l) ==
  /\ seed[l] \in {"check", "insert"}
  /\ SeedEnds(l)
  /\ UNCHANGED <<envVars, storeVars, capVars, boot, flightVars, pc, track, answer>>

------------------------------------------------------------------------------
(* The watchlist: BackfillSeeds once at startup, then the hourly eviction;  *)
(* and the end of the application context.                                  *)

(* backfillProductSeed of a listed product: HasSeedPrices finds none.       *)
(* Bound: one product that has none, the others of the list are like it.    *)
BackfillCheck(t) ==
  /\ pc[Watchlist] = "startup" /\ ~shutdown
  /\ t \in rows /\ ~HasSeedPrices(t)
  /\ victims' = [victims EXCEPT ![Watchlist] = {t}]
  /\ Goto(Watchlist, "backfill")
  /\ UNCHANGED <<envVars, storeVars, excess, taskVars, flightVars, track, answer>>

(* The chart is fetched and inserted, or something fails.                   *)
BackfillInsert ==
  /\ pc[Watchlist] = "backfill"
  /\ \/ UNCHANGED seeds
     \/ ~shutdown /\ InsertSeedPrices(Watchlist, victims[Watchlist])
  /\ victims' = [victims EXCEPT ![Watchlist] = {}]
  /\ Goto(Watchlist, "idle")
  /\ UNCHANGED <<envVars, rows, idle, evicted, excess, taskVars, flightVars, track, answer>>

(* No product is left, or the listing fails: the tickers start.             *)
BackfillEnds ==
  /\ pc[Watchlist] = "startup"
  /\ Goto(Watchlist, "idle")
  /\ UNCHANGED <<envVars, storeVars, capVars, taskVars, flightVars, track, answer>>


(* EvictStale; EnforceCapacity follows.  A sweep that fails changes nothing *)
(* and is tried again an hour later.                                        *)
EvictStale ==
  /\ pc[Watchlist] = "idle" /\ ~shutdown
  /\ DeleteRows(idle)
  /\ Goto(Watchlist, "count")
  /\ UNCHANGED <<envVars, capVars, taskVars, flightVars, track, answer>>

Shutdown ==
  /\ ~shutdown
  /\ shutdown' = TRUE
  /\ UNCHANGED <<coalescing, storeVars, capVars, taskVars, flightVars, pc, track, answer>>

(* WaitAsync has nothing left to wait for.                                  *)
Finished ==
  /\ shutdown /\ Slots = {} /\ pc[Watchlist] = "idle"
  /\ \A l \in Lookups : pc[l] = "done"
  /\ UNCHANGED vars

CapacityStep(a) == CountRows(a) \/ ListVictims(a) \/ DeleteVictims(a)

(* What runs under the request's or the task's context: a store call or a   *)
(* fetch fails once it is done.                                             *)
LookupCall(l) ==
  \/ Load(l) \/ WriteMetadata(l) \/ LoadDirect(l) \/ CapacityStep(l) \/ ResolveTimesOut(l)
  \/ Persist(l) \/ PersistFails(l) \/ Reload(l) \/ AwaitSeedPrices(l) \/ Touch(l) \/ Require(l)

LookupStep(l) ==
  \/ ~shutdown /\ LookupCall(l)
  \/ BeginFlight(l) \/ Defer(l) \/ SubmitSeed(l)
  \/ Joined(l) \/ JoinTimesOut(l) \/ JoinCancelled(l) \/ LookupFails(l)

BootStep(l) ==
  \/ ~shutdown /\ (BootPersist(l) \/ BootReload(l))
  \/ BootSubmitSeed(l) \/ BootFails(l)

SeedStep(l) ==
  \/ ~shutdown /\ (SeedCheck(l) \/ SeedInsert(l))
  \/ SeedSkips(l)

WatchlistStep ==
  \/ BackfillInsert \/ BackfillEnds \/ \E t \in Tracks : BackfillCheck(t)
  \/ EvictStale \/ CapacityStep(Watchlist)

LookupWork == \E l \in Lookups : LookupStep(l) \/ BootStep(l) \/ SeedStep(l)

Next == LookupWork \/ WatchlistStep \/ Shutdown \/ Finished

(* Goroutines run, fetches and store calls end within their timeouts, the   *)
(* watchlist's ticker ticks.  One condition does for all lookups: each has  *)
(* finitely many steps to take.                                             *)
Fairness == WF_vars(LookupWork) /\ WF_vars(WatchlistStep)

Spec == Init /\ [][Next]_vars
FairSpec == Spec /\ Fairness
------------------------------------------------------------------------------
LookupPlaces == {"start", "meta", "begin", "join", "seed", "defer", "touch", "require", "await", "done"}
                  \cup DirectPlaces
BootPlaces == {"none", "persist", "seed", "reload", "done"}

TypeOK ==
  /\ coalescing \in BOOLEAN
  /\ shutdown \in BOOLEAN
  /\ rows \subseteq Tracks
  /\ idle \subseteq Tracks /\ evicted \subseteq Tracks
  /\ seeds \in [Tracks -> SUBSET Actors]
  /\ flight \in [Tracks -> Lookups \cup {NoLookup}]
  /\ pc \in [Actors -> LookupPlaces \cup {"startup", "backfill", "idle"}]
  /\ track \in [Lookups -> Tracks]
  /\ news \in [Lookups -> {"none", "product", "empty", "error"}]
  /\ answer \in [Lookups -> {"none", "ok", "empty", "deferred", "error"}]
  /\ excess \in [Actors -> Nat]
  /\ victims \in [Actors -> SUBSET Tracks]
  /\ boot \in [Lookups -> BootPlaces]
  /\ seed \in [Lookups -> {"none", "check", "insert", "done"}]

------------------------------------------------------------------------------
(* Lookups at work on the first registration of t, themselves or by the     *)
(* bootstrap they deferred.                                                 *)
AtWork(l) == pc[l] \in DirectPlaces \cup {"seed", "defer"} \/ BootActive(l)
Registrars(t) == {l \in Lookups : track[l] = t /\ AtWork(l)}

(* The registration flights implement SingleFlight.                         *)
Coalesced == [t \in Tracks |-> IF coalescing THEN Registrars(t) ELSE {}]
Flights == INSTANCE SingleFlight WITH
  Keys <- Tracks, Workers <- Lookups, working <- Coalesced
ImplementsSingleFlight == Flights!Spec

(* Coalesced registrations seed the chart of a product once, unless it was  *)
(* evicted meanwhile: the check for existing seeds and the insertion are    *)
(* apart, only the flight keeps two seeds from interleaving.  The startup   *)
(* backfill goes without a flight and may add seeds of its own.             *)
SeededOnce ==
  coalescing => \A t \in Tracks \ evicted : Cardinality(seeds[t] \ {Watchlist}) <= 1

(* Every flight is completed: no track id stays closed to registration.     *)
FlightsComplete ==
  \A t \in Tracks : flight[t] # NoLookup ~> flight[t] = NoLookup

(* Every lookup answers.                                                    *)
LookupsAnswer == \A l \in Lookups : <>(pc[l] = "done")

(* Concurrent registrations may overshoot max_products (each counts before  *)
(* the other inserts), but the excess does not stay.                        *)
CapacityRestored == <>(shutdown \/ [](Cardinality(rows) <= MaxProducts))

(* The async work of the tracker observes the shutdown: it ends.            *)
AsyncWorkObservesShutdown == shutdown ~> Slots = {}

(* What the proofs need beside the types.  A deferred bootstrap goes on     *)
(* when its lookup has answered; with coalescing, who works on a track has  *)
(* begun its flight and not completed it.                                   *)
FlightOK ==
  /\ \A l \in Lookups : BootActive(l) => pc[l] = "done"
  /\ coalescing => \A l \in Lookups : AtWork(l) => flight[track[l]] = l

(* With coalescing a lookup that found the product has its row, one that    *)
(* goes on to register it found none and nobody writes one meanwhile, and   *)
(* only one gets past that: until an eviction takes the row.                *)
Found(l) == pc[l] \in {"meta", "metaDirect"}
Unregistered(l) == pc[l] \in {"count", "list", "evict", "resolve", "defer"} \/ boot[l] = "persist"
Registered(l) == pc[l] \in {"seed", "reload"} \/ boot[l] \in {"seed", "reload"} \/ seed[l] # "none"

RowsOK ==
  coalescing => \A l \in Lookups : track[l] \notin evicted =>
    /\ Found(l) \/ Registered(l) => track[l] \in rows
    /\ Unregistered(l) => track[l] \notin rows
    /\ \A m \in Lookups : Registered(l) /\ Registered(m) /\ track[m] = track[l] => m = l

SeedsOK ==
  \A t \in Tracks : \A l \in seeds[t] \ {Watchlist} : seed[l] # "none" /\ track[l] = t

(* The inductive invariant behind ImplementsSingleFlight and SeededOnce.    *)
IInv == TypeOK /\ FlightOK /\ RowsOK /\ SeedsOK
==============================================================================
