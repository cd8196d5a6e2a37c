----------------------- MODULE CoupangRegistrationProofs -----------------------
(***************************************************************************)
(* What holds of first-time registrations for any lookups, tracks, limits  *)
(* of products and of the errgroup, with and without coalescing.           *)
(***************************************************************************)
EXTENDS CoupangRegistration, FiniteSetTheorems, TLAPS

LEMMA ActorShape ==
  /\ \A l \in Lookups : l \in Actors /\ l # Watchlist /\ l # NoLookup
  /\ Watchlist \in Actors
BY RegistrationAssumption DEF Actors

LEMMA CountIsNat ==
  ASSUME TypeOK
  PROVE  IsFiniteSet(rows) /\ Cardinality(rows) \in Nat
BY RegistrationAssumption, FS_Subset, FS_CardinalityType DEF TypeOK

LEMMA TypeInit == Init => TypeOK
<1> SUFFICES ASSUME Init PROVE TypeOK
  OBVIOUS
<1>1. coalescing \in BOOLEAN /\ track \in [Lookups -> Tracks]
  BY RegistrationAssumption DEF Init
<1> QED
  BY <1>1 DEF Init, TypeOK, LookupPlaces, DirectPlaces, BootPlaces, Actors

(* What an operation that is part of several steps leaves.                  *)
LEMMA FlightTypes ==
  ASSUME TypeOK, NEW l \in Lookups, NEW outcome \in {"product", "empty", "error"},
         CompleteFlight(track[l], outcome) \/ LeaveDirect(l, outcome)
  PROVE  /\ flight' \in [Tracks -> Lookups \cup {NoLookup}]
         /\ news' \in [Lookups -> {"none", "product", "empty", "error"}]
BY DEF TypeOK, LeaveDirect, CompleteFlight, flightVars

LEMMA CapacityTypes ==
  ASSUME TypeOK, NEW a \in Actors, CapacityStep(a)
  PROVE  TypeOK'
<1> USE DEF TypeOK, Goto, LookupPlaces, DirectPlaces, AfterCapacity, envVars, storeVars, capVars,
            taskVars, flightVars
<1>1. CASE CountRows(a)
  <2> DEFINE over == CountTrackedProducts + Reserve(a) - MaxProducts
  <2>1. over \in Int
    BY CountIsNat, RegistrationAssumption DEF CountTrackedProducts, Reserve
  <2>2. excess' \in [Actors -> Nat]
    <3> HIDE DEF over
    <3>1. UNCHANGED excess \/ (excess' = [excess EXCEPT ![a] = over] /\ ~(over <= 0))
      BY <1>1 DEF CountRows, over
    <3> QED
      BY <2>1, <3>1
  <2> QED
    BY <1>1, <2>2 DEF CountRows
<1>2. CASE ListVictims(a)
  BY <1>2 DEF ListVictims, OldestRows
<1>3. CASE DeleteVictims(a)
  BY <1>3 DEF DeleteVictims, DeleteRows
<1> QED
  BY <1>1, <1>2, <1>3 DEF CapacityStep

LEMMA LookupTypes ==
  ASSUME TypeOK, NEW l \in Lookups, LookupStep(l)
  PROVE  TypeOK'
<1> USE DEF TypeOK, Goto, Return, LookupPlaces, DirectPlaces, BootPlaces, envVars, storeVars, capVars,
            taskVars, flightVars
<1>0. l \in Actors /\ track[l] \in Tracks
  BY ActorShape
<1>f. ASSUME NEW outcome \in {"product", "empty", "error"}, LeaveDirect(l, outcome) \/ UNCHANGED flightVars
      PROVE  /\ flight' \in [Tracks -> Lookups \cup {NoLookup}]
             /\ news' \in [Lookups -> {"none", "product", "empty", "error"}]
  BY <1>f, FlightTypes
<1>1. CASE Load(l)
  BY <1>0, <1>1 DEF Load
<1>2. CASE WriteMetadata(l)
  BY <1>0, <1>2, <1>f DEF WriteMetadata
<1>3. CASE LoadDirect(l)
  BY <1>0, <1>3 DEF LoadDirect
<1>4. CASE CapacityStep(l)
  BY <1>0, <1>4, CapacityTypes
<1>5. CASE ResolveTimesOut(l)
  BY <1>0, <1>5 DEF ResolveTimesOut
<1>6. CASE Persist(l)
  BY <1>0, <1>6 DEF Persist, PersistRecord, UpsertProduct
<1>7. CASE PersistFails(l)
  BY <1>0, <1>7, <1>f DEF PersistFails, PersistRecord, UpsertProduct
<1>8. CASE Reload(l)
  BY <1>0, <1>8, <1>f DEF Reload
<1>9. CASE AwaitSeedPrices(l) \/ Require(l) \/ Joined(l) \/ JoinTimesOut(l) \/ JoinCancelled(l)
  BY <1>0, <1>9 DEF AwaitSeedPrices, Require, Joined, JoinTimesOut, JoinCancelled
<1>10. CASE Touch(l)
  BY <1>0, <1>10 DEF Touch, TouchProduct
<1>11. CASE BeginFlight(l)
  BY <1>0, <1>11 DEF BeginFlight
<1>12. CASE Defer(l)
  BY <1>0, <1>12 DEF Defer
<1>13. CASE SubmitSeed(l)
  BY <1>0, <1>13 DEF SubmitSeed
<1>14. CASE LookupFails(l)
  BY <1>0, <1>14, <1>f DEF LookupFails
<1> QED
  BY <1>1, <1>2, <1>3, <1>4, <1>5, <1>6, <1>7, <1>8, <1>9, <1>10, <1>11, <1>12, <1>13, <1>14
  DEF LookupStep, LookupCall

LEMMA TaskTypes ==
  ASSUME TypeOK, NEW l \in Lookups, BootStep(l) \/ SeedStep(l)
  PROVE  TypeOK'
<1> USE DEF TypeOK, BootAt, BootPlaces, SeedEnds, envVars, storeVars, capVars, taskVars, flightVars
<1>0. l \in Actors /\ track[l] \in Tracks
  BY ActorShape
<1>1. CASE BootPersist(l)
  BY <1>0, <1>1 DEF BootPersist, PersistRecord, UpsertProduct
<1>2. CASE BootSubmitSeed(l)
  BY <1>2 DEF BootSubmitSeed
<1>3. CASE BootReload(l)
  BY <1>3, FlightTypes DEF BootReload
<1>4. CASE BootFails(l)
  BY <1>0, <1>4, FlightTypes DEF BootFails, PersistRecord, UpsertProduct
<1>5. CASE SeedCheck(l) \/ SeedSkips(l)
  BY <1>5 DEF SeedCheck, SeedSkips
<1>6. CASE SeedInsert(l)
  BY <1>0, <1>6 DEF SeedInsert, InsertSeedPrices
<1> QED
  BY <1>1, <1>2, <1>3, <1>4, <1>5, <1>6 DEF BootStep, SeedStep

LEMMA RestTypes ==
  ASSUME TypeOK, WatchlistStep \/ Shutdown \/ Finished
  PROVE  TypeOK'
<1> USE DEF TypeOK, Goto, LookupPlaces, DirectPlaces, envVars, storeVars, capVars, taskVars, flightVars
<1>0. Watchlist \in Actors
  BY ActorShape
<1>1. ASSUME NEW t \in Tracks, BackfillCheck(t) PROVE TypeOK'
  BY <1>0, <1>1 DEF BackfillCheck
<1>2. CASE BackfillInsert
  BY <1>0, <1>2 DEF BackfillInsert, InsertSeedPrices
<1>3. CASE BackfillEnds
  BY <1>0, <1>3 DEF BackfillEnds
<1>4. CASE EvictStale
  BY <1>0, <1>4 DEF EvictStale, DeleteRows
<1>5. CASE CapacityStep(Watchlist)
  BY <1>0, <1>5, CapacityTypes
<1>6. CASE Shutdown \/ Finished
  BY <1>6 DEF Shutdown, Finished, vars
<1> QED
  BY <1>1, <1>2, <1>3, <1>4, <1>5, <1>6 DEF WatchlistStep

LEMMA TypeNext == TypeOK /\ Next => TypeOK'
BY LookupTypes, TaskTypes, RestTypes DEF Next, LookupWork

------------------------------------------------------------------------------
(* What a step does to the work of the lookups, where they coalesce:        *)
(* nothing, begin one flight, or complete one.                              *)
Keep(L) == \A m \in L : AtWork(m)' <=> AtWork(m)

Stays == flight' = flight /\ Keep(Lookups)

Begins(l) ==
  /\ flight[track[l]] = NoLookup /\ flight' = [flight EXCEPT ![track[l]] = l]
  /\ ~AtWork(l) /\ AtWork(l)'
  /\ Keep(Lookups \ {l})

Finishes(l) ==
  /\ flight' = [flight EXCEPT ![track[l]] = NoLookup]
  /\ AtWork(l) /\ ~AtWork(l)'
  /\ Keep(Lookups \ {l})

FlightStep == Stays \/ \E l \in Lookups : Begins(l) \/ Finishes(l)

(* The moves of a lookup, and of its tasks, are its own.                    *)
LEMMA LookupMoves ==
  ASSUME TypeOK, NEW l \in Lookups, LookupStep(l)
  PROVE  /\ UNCHANGED <<coalescing, track>>
         /\ pc[l] # "done"
         /\ \A m \in Lookups \ {l} : pc'[m] = pc[m] /\ boot'[m] = boot[m] /\ seed'[m] = seed[m]
         /\ boot'[l] # boot[l] => pc'[l] = "done"
<1> USE DEF TypeOK, Goto, Return, envVars, taskVars
<1>0. l \in Actors /\ \A m \in Lookups : m \in Actors
  BY ActorShape
<1>1. CASE Load(l) \/ WriteMetadata(l) \/ LoadDirect(l)
  BY <1>0, <1>1 DEF Load, WriteMetadata, LoadDirect
<1>2. CASE CapacityStep(l)
  BY <1>0, <1>2 DEF CapacityStep, CountRows, ListVictims, DeleteVictims
<1>3. CASE ResolveTimesOut(l) \/ Persist(l) \/ PersistFails(l) \/ Reload(l)
  BY <1>0, <1>3 DEF ResolveTimesOut, Persist, PersistFails, Reload
<1>4. CASE AwaitSeedPrices(l) \/ Touch(l) \/ Require(l) \/ BeginFlight(l)
  BY <1>0, <1>4 DEF AwaitSeedPrices, Touch, Require, BeginFlight
<1>5. CASE Defer(l) \/ SubmitSeed(l)
  BY <1>0, <1>5 DEF Defer, SubmitSeed
<1>6. CASE Joined(l) \/ JoinTimesOut(l) \/ JoinCancelled(l)
  BY <1>0, <1>6 DEF Joined, JoinTimesOut, JoinCancelled
<1>7. CASE LookupFails(l)
  BY <1>0, <1>7 DEF LookupFails, DirectPlaces
<1> QED
  BY <1>1, <1>2, <1>3, <1>4, <1>5, <1>6, <1>7 DEF LookupStep, LookupCall

LEMMA TaskMoves ==
  ASSUME TypeOK, NEW l \in Lookups, BootStep(l) \/ SeedStep(l)
  PROVE  /\ UNCHANGED <<coalescing, track, pc>>
         /\ \A m \in Lookups \ {l} : boot'[m] = boot[m] /\ seed'[m] = seed[m]
         /\ BootActive(l)' => BootActive(l)
<1> USE DEF TypeOK, BootAt, SeedEnds, envVars, taskVars, BootActive
<1>1. CASE BootPersist(l) \/ BootReload(l) \/ BootSubmitSeed(l) \/ BootFails(l)
  BY <1>1 DEF BootPersist, BootReload, BootSubmitSeed, BootFails
<1>2. CASE SeedCheck(l) \/ SeedInsert(l) \/ SeedSkips(l)
  BY <1>2 DEF SeedCheck, SeedInsert, SeedSkips
<1> QED
  BY <1>1, <1>2 DEF BootStep, SeedStep

LEMMA RestMoves ==
  ASSUME TypeOK, WatchlistStep \/ Shutdown \/ Finished
  PROVE  /\ UNCHANGED <<coalescing, track, flight, boot, seed>>
         /\ \A m \in Lookups : pc'[m] = pc[m]
<1> USE DEF TypeOK, Goto, envVars, taskVars, flightVars
<1>0. Watchlist \in Actors /\ \A m \in Lookups : m \in Actors /\ m # Watchlist
  BY ActorShape
<1>1. CASE BackfillInsert \/ BackfillEnds \/ EvictStale \/ \E t \in Tracks : BackfillCheck(t)
  BY <1>0, <1>1 DEF BackfillInsert, BackfillEnds, EvictStale, BackfillCheck
<1>2. CASE CapacityStep(Watchlist)
  BY <1>0, <1>2 DEF CapacityStep, CountRows, ListVictims, DeleteVictims
<1>3. CASE Shutdown \/ Finished
  BY <1>3 DEF Shutdown, Finished, vars
<1> QED
  BY <1>1, <1>2, <1>3 DEF WatchlistStep

LEMMA LookupFlights ==
  ASSUME TypeOK, FlightOK, coalescing, NEW l \in Lookups, LookupStep(l)
  PROVE  FlightStep
<1> USE DEF TypeOK, Goto, Return, DirectPlaces, LeaveDirect, flightVars, taskVars
<1>0. l \in Actors /\ track[l] \in Tracks /\ NoLookup \notin Lookups
  BY ActorShape
<1>k. Keep(Lookups \ {l})
  BY LookupMoves DEF Keep, AtWork, BootActive
<1>b. ~BootActive(l)
  BY LookupMoves DEF FlightOK
<1>1. ASSUME flight' = flight, AtWork(l)' <=> AtWork(l) PROVE FlightStep
  BY <1>k, <1>1 DEF FlightStep, Stays, Keep
<1>2. ASSUME NEW outcome, CompleteFlight(track[l], outcome), AtWork(l), ~AtWork(l)' PROVE FlightStep
  BY <1>k, <1>2 DEF FlightStep, Finishes, CompleteFlight
<1>3. CASE LoadDirect(l) \/ ResolveTimesOut(l) \/ Persist(l) \/ SubmitSeed(l)
  BY <1>0, <1>1, <1>3 DEF LoadDirect, ResolveTimesOut, Persist, SubmitSeed, AtWork
<1>4. CASE CapacityStep(l)
  BY <1>0, <1>1, <1>4, ActorShape DEF CapacityStep, CountRows, ListVictims, DeleteVictims, AfterCapacity, AtWork
<1>5. CASE Defer(l)
  <2>1. boot'[l] = "persist" /\ pc[l] = "defer" /\ flight' = flight
    BY <1>5 DEF Defer
  <2> QED
    BY <1>1, <2>1 DEF AtWork, BootActive
<1>6. CASE Load(l) \/ AwaitSeedPrices(l) \/ Joined(l) \/ JoinTimesOut(l) \/ JoinCancelled(l)
           \/ Touch(l) \/ Require(l)
  BY <1>0, <1>1, <1>b, <1>6
  DEF Load, AwaitSeedPrices, Joined, JoinTimesOut, JoinCancelled, Touch, Require, AtWork, BootActive
<1>7. CASE BeginFlight(l)
  <2>1. pc[l] = "begin" /\ boot' = boot
    BY <1>7 DEF BeginFlight
  <2>2. CASE flight[track[l]] # NoLookup
    BY <1>0, <1>1, <1>b, <1>7, <2>1, <2>2 DEF BeginFlight, AtWork, BootActive
  <2>3. CASE flight[track[l]] = NoLookup
    <3>1. pc'[l] = "direct" /\ flight' = [flight EXCEPT ![track[l]] = l]
      BY <1>0, <1>7, <2>3 DEF BeginFlight
    <3> QED
      BY <1>b, <1>k, <2>1, <2>3, <3>1 DEF FlightStep, Begins, AtWork
  <2> QED
    BY <2>2, <2>3
<1>8. CASE WriteMetadata(l)
  <2>1. CASE pc[l] = "meta"
    BY <1>0, <1>1, <1>b, <1>8, <2>1 DEF WriteMetadata, AtWork, BootActive
  <2>2. CASE pc[l] = "metaDirect"
    BY <1>0, <1>2, <1>b, <1>8, <2>2 DEF WriteMetadata, AtWork, BootActive
  <2> QED
    BY <1>8, <2>1, <2>2 DEF WriteMetadata
<1>9. CASE PersistFails(l)
  BY <1>0, <1>2, <1>b, <1>9 DEF PersistFails, AtWork, BootActive
<1>10. CASE Reload(l)
  <2>1. pc[l] = "reload" /\ pc'[l] \in {"await", "done"} /\ boot' = boot
    BY <1>0, <1>10 DEF Reload
  <2>2. \E outcome : CompleteFlight(track[l], outcome)
    BY <1>10 DEF Reload
  <2> QED
    BY <1>2, <1>b, <2>1, <2>2 DEF AtWork, BootActive
<1>11. CASE LookupFails(l)
  <2>1. pc[l] \notin {"seed", "defer"} /\ pc'[l] = "done" /\ boot' = boot
    BY <1>0, <1>11 DEF LookupFails
  <2>2. CASE pc[l] \in DirectPlaces
    BY <1>2, <1>b, <1>11, <2>1, <2>2 DEF LookupFails, AtWork, BootActive
  <2>3. CASE pc[l] \notin DirectPlaces
    BY <1>1, <1>b, <1>11, <2>1, <2>3 DEF LookupFails, AtWork, BootActive
  <2> QED
    BY <2>2, <2>3
<1> QED
  BY <1>3, <1>4, <1>5, <1>6, <1>7, <1>8, <1>9, <1>10, <1>11 DEF LookupStep, LookupCall

LEMMA TaskFlights ==
  ASSUME TypeOK, FlightOK, coalescing, NEW l \in Lookups, BootStep(l) \/ SeedStep(l)
  PROVE  FlightStep
<1> USE DEF TypeOK, flightVars, BootAt, BootActive
<1>k. Keep(Lookups \ {l}) /\ UNCHANGED pc
  BY TaskMoves DEF Keep, AtWork
<1>1. ASSUME flight' = flight, AtWork(l)' <=> AtWork(l) PROVE FlightStep
  BY <1>k, <1>1 DEF FlightStep, Stays, Keep
<1>2. ASSUME NEW outcome, CompleteFlight(track[l], outcome), AtWork(l), ~AtWork(l)' PROVE FlightStep
  BY <1>k, <1>2 DEF FlightStep, Finishes, CompleteFlight
<1>3. CASE SeedStep(l)
  BY <1>1, <1>3, <1>k DEF SeedStep, SeedCheck, SeedInsert, SeedSkips, AtWork
<1>4. CASE BootPersist(l) \/ BootSubmitSeed(l)
  <2>1. BootActive(l) /\ BootActive(l)' /\ flight' = flight
    BY <1>4 DEF BootPersist, BootSubmitSeed
  <2> QED
    BY <1>1, <2>1 DEF AtWork
<1>5. CASE BootReload(l) \/ BootFails(l)
  <2>1. BootActive(l) /\ ~BootActive(l)' /\ \E outcome : CompleteFlight(track[l], outcome)
    BY <1>5 DEF BootReload, BootFails
  <2>2. pc'[l] = "done"
    BY <1>k, <2>1 DEF FlightOK
  <2> QED
    BY <1>2, <2>1, <2>2 DEF AtWork, DirectPlaces
<1> QED
  BY <1>3, <1>4, <1>5 DEF BootStep

LEMMA NextFlights ==
  ASSUME TypeOK, FlightOK, Next
  PROVE  UNCHANGED <<coalescing, track>> /\ (coalescing => FlightStep)
<1>1. ASSUME NEW l \in Lookups, LookupStep(l)
      PROVE  UNCHANGED <<coalescing, track>> /\ (coalescing => FlightStep)
  BY <1>1, LookupMoves, LookupFlights
<1>2. ASSUME NEW l \in Lookups, BootStep(l) \/ SeedStep(l)
      PROVE  UNCHANGED <<coalescing, track>> /\ (coalescing => FlightStep)
  BY <1>2, TaskMoves, TaskFlights
<1>3. CASE WatchlistStep \/ Shutdown \/ Finished
  <2>1. UNCHANGED <<coalescing, track, flight>> /\ Keep(Lookups)
    BY <1>3, RestMoves DEF Keep, AtWork, BootActive
  <2> QED
    BY <2>1 DEF FlightStep, Stays
<1> QED
  BY <1>1, <1>2, <1>3 DEF Next, LookupWork

LEMMA FlightNext ==
  ASSUME TypeOK, FlightOK, Next
  PROVE  FlightOK'
<1>0. UNCHANGED <<coalescing, track>> /\ (coalescing => FlightStep)
  BY NextFlights
<1>1. \A l \in Lookups : BootActive(l)' => pc'[l] = "done"
  <2> SUFFICES ASSUME NEW m \in Lookups, BootActive(m)' PROVE pc'[m] = "done"
    OBVIOUS
  <2>0. BootActive(m) => pc[m] = "done"
    BY DEF FlightOK
  <2>1. ASSUME NEW l \in Lookups, LookupStep(l) PROVE pc'[m] = "done"
    <3>1. CASE m = l
      BY <2>0, <2>1, <3>1, LookupMoves DEF BootActive
    <3>2. CASE m # l
      BY <2>0, <2>1, <3>2, LookupMoves DEF BootActive
    <3> QED
      BY <3>1, <3>2
  <2>2. ASSUME NEW l \in Lookups, BootStep(l) \/ SeedStep(l) PROVE pc'[m] = "done"
    <3>1. CASE m = l
      BY <2>0, <2>2, <3>1, TaskMoves
    <3>2. CASE m # l
      BY <2>0, <2>2, <3>2, TaskMoves DEF BootActive
    <3> QED
      BY <3>1, <3>2
  <2>3. CASE WatchlistStep \/ Shutdown \/ Finished
    BY <2>0, <2>3, RestMoves DEF BootActive
  <2> QED
    BY <2>1, <2>2, <2>3 DEF Next, LookupWork
<1>2. ASSUME coalescing, NEW m \in Lookups, AtWork(m)'
      PROVE  flight'[track[m]] = m
  <2>0. /\ NoLookup \notin Lookups /\ \A l \in Lookups : track[l] \in Tracks
        /\ \A l \in Lookups : AtWork(l) => flight[track[l]] = l
    BY <1>2, RegistrationAssumption DEF FlightOK, TypeOK
  <2>1. CASE Stays
    BY <1>2, <2>0, <2>1 DEF Stays, Keep
  <2>2. ASSUME NEW l \in Lookups, Begins(l) PROVE flight'[track[m]] = m
    <3>1. CASE m = l
      BY <2>0, <2>2, <3>1 DEF Begins, TypeOK
    <3>2. CASE m # l
      <4>1. flight[track[m]] = m
        BY <1>2, <2>0, <2>2, <3>2 DEF Begins, Keep
      <4> QED
        BY <2>0, <2>2, <4>1 DEF Begins, TypeOK
    <3> QED
      BY <3>1, <3>2
  <2>3. ASSUME NEW l \in Lookups, Finishes(l) PROVE flight'[track[m]] = m
    <3>1. m # l /\ AtWork(m)
      BY <1>2, <2>3 DEF Finishes, Keep
    <3>2. flight[track[m]] = m /\ flight[track[l]] = l
      BY <2>0, <2>3, <3>1 DEF Finishes
    <3> QED
      BY <2>0, <2>3, <3>1, <3>2 DEF Finishes, TypeOK
  <2> QED
    BY <1>0, <1>2, <2>1, <2>2, <2>3 DEF FlightStep
<1> QED
  BY <1>0, <1>1, <1>2 DEF FlightOK

------------------------------------------------------------------------------
(* How far the registration of a lookup has come, and the rows.             *)

SameStatus(m) ==
  /\ Found(m)' <=> Found(m)
  /\ Unregistered(m)' <=> Unregistered(m)
  /\ Registered(m)' <=> Registered(m)

(* What a step of l, or of its tasks, does to its own status.               *)
Advances(l) ==
  /\ Found(l)' => Found(l) \/ track[l] \in rows
  /\ Unregistered(l)' => Unregistered(l) \/ (track[l] \notin rows /\ rows' = rows)
  /\ Registered(l)' => Registered(l) \/ (Unregistered(l) /\ track[l] \in rows')

(* Rows are deleted into evicted, and written by registrations and by those *)
(* who found them.                                                          *)
Writes(l) == Found(l) \/ (Unregistered(l) /\ ~Unregistered(l)')

RowStep ==
  /\ evicted \subseteq evicted'
  /\ rows \ evicted' \subseteq rows'
  /\ \A t \in rows' \ rows : \E l \in Lookups : track[l] = t /\ Writes(l)

LEMMA CapacityStatus ==
  ASSUME TypeOK, NEW a \in Actors, CapacityStep(a)
  PROVE  RowStep
BY DEF TypeOK, CapacityStep, CountRows, ListVictims, DeleteVictims, DeleteRows, RowStep, storeVars

LEMMA LookupStatus ==
  ASSUME TypeOK, FlightOK, NEW l \in Lookups, LookupStep(l)
  PROVE  /\ RowStep /\ Advances(l)
         /\ \A m \in Lookups \ {l} : SameStatus(m)
<1> USE DEF TypeOK, Goto, Return, storeVars, taskVars
<1>0. l \in Actors /\ track[l] \in Tracks
  BY ActorShape
<1>s. \A m \in Lookups \ {l} : SameStatus(m)
  BY LookupMoves DEF SameStatus, Found, Unregistered, Registered
<1>b. boot[l] \in {"none", "done"}
  BY LookupMoves DEF FlightOK, BootActive
<1>1. ASSUME UNCHANGED <<rows, evicted>> PROVE RowStep
  BY <1>1 DEF RowStep
<1>2. ASSUME rows' = rows \cup {track[l]}, UNCHANGED evicted, Writes(l) PROVE RowStep
  BY <1>2 DEF RowStep
<1>3. CASE Load(l) \/ LoadDirect(l) \/ ResolveTimesOut(l)
  BY <1>0, <1>1, <1>s, <1>3
  DEF Load, LoadDirect, ResolveTimesOut, GetProduct, Advances, Found, Unregistered, Registered
<1>4. CASE WriteMetadata(l)
  <2>1. RowStep
    BY <1>2, <1>4 DEF WriteMetadata, Writes, Found
  <2> QED
    BY <1>0, <1>s, <1>4, <2>1 DEF WriteMetadata, Advances, Found, Unregistered, Registered
<1>5. CASE CapacityStep(l)
  <2>1. /\ pc[l] \in {"count", "list", "evict"} /\ pc'[l] \in {"list", "evict", "resolve"}
        /\ UNCHANGED <<boot, seed>>
    BY <1>0, <1>5, ActorShape DEF CapacityStep, CountRows, ListVictims, DeleteVictims, AfterCapacity
  <2>2. RowStep
    BY <1>0, <1>5, CapacityStatus
  <2> QED
    BY <1>s, <2>1, <2>2 DEF Advances, Found, Unregistered, Registered
<1>6. CASE Persist(l)
  <2>1. pc[l] = "resolve" /\ pc'[l] \in {"seed", "reload"} /\ UNCHANGED <<boot, seed>>
    BY <1>0, <1>6 DEF Persist
  <2>2. rows' = rows \cup {track[l]} /\ UNCHANGED evicted
    BY <1>6 DEF Persist, PersistRecord, UpsertProduct
  <2>3. Unregistered(l) /\ ~Unregistered(l)'
    BY <1>b, <2>1 DEF Unregistered
  <2>4. RowStep
    BY <1>2, <2>2, <2>3 DEF Writes
  <2> QED
    BY <1>s, <2>1, <2>2, <2>3, <2>4 DEF Advances, Found
<1>7. CASE PersistFails(l)
  <2>1. pc[l] = "resolve" /\ pc'[l] = "done" /\ UNCHANGED <<boot, seed>>
    BY <1>0, <1>7 DEF PersistFails
  <2>2. rows' = rows \cup {track[l]} /\ UNCHANGED evicted
    BY <1>7 DEF PersistFails, PersistRecord, UpsertProduct
  <2>3. Unregistered(l) /\ ~Unregistered(l)'
    BY <1>b, <2>1 DEF Unregistered
  <2>4. RowStep
    BY <1>2, <2>2, <2>3 DEF Writes
  <2> QED
    BY <1>s, <2>1, <2>2, <2>3, <2>4 DEF Advances, Found
<1>8. CASE Defer(l) \/ SubmitSeed(l)
  BY <1>0, <1>1, <1>s, <1>8 DEF Defer, SubmitSeed, Advances, Found, Unregistered, Registered
<1>9. CASE Reload(l) \/ AwaitSeedPrices(l) \/ Touch(l) \/ Require(l)
  BY <1>0, <1>1, <1>s, <1>9
  DEF Reload, AwaitSeedPrices, Touch, Require, Advances, Found, Unregistered, Registered
<1>10. CASE BeginFlight(l) \/ Joined(l) \/ JoinTimesOut(l) \/ JoinCancelled(l) \/ LookupFails(l)
  BY <1>0, <1>1, <1>s, <1>10
  DEF BeginFlight, Joined, JoinTimesOut, JoinCancelled, LookupFails, Advances, Found, Unregistered, Registered
<1> QED
  BY <1>3, <1>4, <1>5, <1>6, <1>7, <1>8, <1>9, <1>10 DEF LookupStep, LookupCall

LEMMA TaskStatus ==
  ASSUME TypeOK, FlightOK, NEW l \in Lookups, BootStep(l) \/ SeedStep(l)
  PROVE  /\ RowStep /\ Advances(l)
         /\ \A m \in Lookups \ {l} : SameStatus(m)
<1> USE DEF TypeOK, BootAt, SeedEnds, storeVars, taskVars
<1>s. (\A m \in Lookups \ {l} : SameStatus(m)) /\ UNCHANGED pc
  BY TaskMoves DEF SameStatus, Found, Unregistered, Registered
<1>1. ASSUME UNCHANGED <<rows, evicted>> PROVE RowStep
  BY <1>1 DEF RowStep
<1>2. ASSUME rows' = rows \cup {track[l]}, UNCHANGED evicted, boot[l] = "persist", boot'[l] # "persist"
      PROVE  RowStep
  <2>1. pc[l] = "done"
    BY <1>2 DEF FlightOK, BootActive
  <2>2. Unregistered(l) /\ ~Unregistered(l)'
    BY <1>s, <1>2, <2>1 DEF Unregistered
  <2> QED
    BY <1>2, <2>2 DEF RowStep, Writes
<1>3. CASE BootPersist(l)
  <2>1. boot[l] = "persist" /\ boot'[l] \in {"seed", "reload"} /\ UNCHANGED seed
    BY <1>3 DEF BootPersist
  <2>2. rows' = rows \cup {track[l]} /\ UNCHANGED evicted
    BY <1>3 DEF BootPersist, PersistRecord, UpsertProduct
  <2>3. RowStep
    BY <1>2, <2>1, <2>2
  <2> QED
    BY <1>s, <2>1, <2>2, <2>3 DEF Advances, Found, Unregistered, Registered
<1>4. CASE BootReload(l) \/ BootSubmitSeed(l)
  BY <1>1, <1>s, <1>4 DEF BootReload, BootSubmitSeed, Advances, Found, Unregistered, Registered
<1>5. CASE BootFails(l)
  <2>1. boot[l] \in {"persist", "reload"} /\ boot'[l] = "done" /\ UNCHANGED seed
    BY <1>5 DEF BootFails
  <2>2. \/ UNCHANGED <<rows, evicted>>
        \/ boot[l] = "persist" /\ rows' = rows \cup {track[l]} /\ UNCHANGED evicted
    BY <1>5 DEF BootFails, PersistRecord, UpsertProduct
  <2>3. RowStep
    BY <1>1, <1>2, <2>1, <2>2
  <2> QED
    BY <1>s, <2>1, <2>3 DEF Advances, Found, Unregistered, Registered
<1>6. CASE SeedCheck(l) \/ SeedInsert(l) \/ SeedSkips(l)
  BY <1>1, <1>s, <1>6 DEF SeedCheck, SeedInsert, SeedSkips, Advances, Found, Unregistered, Registered
<1> QED
  BY <1>3, <1>4, <1>5, <1>6 DEF BootStep, SeedStep

LEMMA RestStatus ==
  ASSUME TypeOK, WatchlistStep \/ Shutdown \/ Finished
  PROVE  RowStep /\ \A m \in Lookups : SameStatus(m)
<1>1. \A m \in Lookups : SameStatus(m)
  BY RestMoves DEF SameStatus, Found, Unregistered, Registered
<1>2. RowStep
  <2>1. CASE BackfillInsert \/ BackfillEnds \/ EvictStale \/ \E t \in Tracks : BackfillCheck(t)
    BY <2>1 DEF TypeOK, BackfillInsert, BackfillEnds, EvictStale, BackfillCheck, DeleteRows, RowStep, storeVars
  <2>2. CASE CapacityStep(Watchlist)
    BY <2>2, CapacityStatus, ActorShape
  <2>3. CASE Shutdown \/ Finished
    BY <2>3 DEF Shutdown, Finished, vars, storeVars, RowStep
  <2> QED
    BY <2>1, <2>2, <2>3 DEF WatchlistStep
<1> QED
  BY <1>1, <1>2

(* Of all steps: one lookup advances at most.                               *)
LEMMA NextStatus ==
  ASSUME TypeOK, FlightOK, Next
  PROVE  /\ RowStep
         /\ \/ \A m \in Lookups : SameStatus(m)
            \/ \E l \in Lookups : Advances(l) /\ \A m \in Lookups \ {l} : SameStatus(m)
BY LookupStatus, TaskStatus, RestStatus DEF Next, LookupWork

LEMMA RowsNext ==
  ASSUME TypeOK, FlightOK, RowsOK, Next
  PROVE  RowsOK'
<1> SUFFICES ASSUME coalescing, NEW l \in Lookups, track[l] \notin evicted'
             PROVE  /\ Found(l)' \/ Registered(l)' => track[l] \in rows'
                    /\ Unregistered(l)' => track[l] \notin rows'
                    /\ \A m \in Lookups : Registered(l)' /\ Registered(m)' /\ track[m] = track[l] => m = l
  BY NextFlights DEF RowsOK
<1>0. RowStep /\ track[l] \notin evicted
  BY NextStatus DEF RowStep
<1>1. /\ Found(l) \/ Registered(l) => track[l] \in rows
      /\ Unregistered(l) => track[l] \notin rows
      /\ \A m \in Lookups : Registered(l) /\ Registered(m) /\ track[m] = track[l] => m = l
  BY <1>0 DEF RowsOK
<1>2. ASSUME NEW m \in Lookups, track[m] = track[l] PROVE Found(m) => track[l] \in rows
  BY <1>0, <1>2 DEF RowsOK
<1>3. \A m \in Lookups : Unregistered(m) => AtWork(m)
  BY DEF Unregistered, AtWork, DirectPlaces, BootActive
<1>4. ASSUME NEW m \in Lookups, track[m] = track[l], Unregistered(m), Unregistered(l) PROVE m = l
  BY <1>3, <1>4 DEF FlightOK
<1>5. track[l] \in rows => track[l] \in rows'
  BY <1>0 DEF RowStep
<1>6. Unregistered(l) /\ track[l] \in rows' => ~Unregistered(l)'
  <2> SUFFICES ASSUME Unregistered(l), track[l] \in rows' PROVE ~Unregistered(l)'
    OBVIOUS
  <2>1. PICK m \in Lookups : track[m] = track[l] /\ Writes(m)
    BY <1>0, <1>1 DEF RowStep
  <2>2. ~Found(m)
    BY <1>1, <1>2, <2>1
  <2> QED
    BY <1>4, <2>1, <2>2 DEF Writes
<1>7. Advances(l) \/ SameStatus(l)
  BY NextStatus
<1>8. Found(l)' \/ Registered(l)' => track[l] \in rows'
  BY <1>1, <1>5, <1>7 DEF Advances, SameStatus
<1>9. Unregistered(l)' => track[l] \notin rows'
  BY <1>1, <1>6, <1>7 DEF Advances, SameStatus
<1>10. ASSUME NEW m \in Lookups, Registered(l)', Registered(m)', track[m] = track[l] PROVE m = l
  <2>1. Registered(m) => track[l] \in rows
    BY <1>0, <1>10 DEF RowsOK
  <2>2. Registered(l) => track[l] \in rows
    BY <1>1
  <2>3. Unregistered(m) => track[l] \notin rows
    BY <1>0, <1>10 DEF RowsOK
  <2>4. CASE Registered(l) /\ Registered(m)
    BY <1>1, <1>10, <2>4
  <2>5. CASE ~Registered(l)
    <3>1. Advances(l) /\ (m # l => SameStatus(m)) /\ Unregistered(l)
      BY <1>10, <2>5, NextStatus DEF SameStatus, Advances
    <3> QED
      BY <1>1, <1>10, <2>1, <3>1 DEF SameStatus
  <2>6. CASE ~Registered(m)
    <3>1. Advances(m) /\ (m # l => SameStatus(l)) /\ Unregistered(m)
      BY <1>10, <2>6, NextStatus DEF SameStatus, Advances
    <3> QED
      BY <1>10, <2>2, <2>3, <3>1 DEF SameStatus
  <2> QED
    BY <2>4, <2>5, <2>6
<1> QED
  BY <1>8, <1>9, <1>10

(* Who has inserted seeds of a product had a seed task for it.              *)
LEMMA SeedsNext ==
  ASSUME TypeOK, SeedsOK, Next
  PROVE  SeedsOK'
<1> SUFFICES ASSUME NEW t \in Tracks, NEW m \in seeds'[t] \ {Watchlist}
             PROVE  seed'[m] # "none" /\ track'[m] = t
  BY DEF SeedsOK
<1> USE DEF TypeOK, storeVars, taskVars, envVars
<1>0. m \in seeds[t] => m \in Lookups /\ seed[m] # "none" /\ track[m] = t
  BY DEF SeedsOK, Actors
<1>1. ASSUME seeds'[t] \subseteq seeds[t], track' = track, \A l \in Lookups : seed[l] # "none" => seed'[l] # "none"
      PROVE  seed'[m] # "none" /\ track'[m] = t
  BY <1>0, <1>1
<1>d. ASSUME NEW a \in Actors, CapacityStep(a) PROVE seeds'[t] \subseteq seeds[t] /\ UNCHANGED <<track, seed>>
  BY <1>d DEF CapacityStep, CountRows, ListVictims, DeleteVictims, DeleteRows
<1>2. ASSUME NEW l \in Lookups, LookupStep(l) PROVE seed'[m] # "none" /\ track'[m] = t
  <2>1. CASE CapacityStep(l)
    BY <1>1, <1>d, <2>1, ActorShape
  <2>2. CASE ~CapacityStep(l)
    <3>1. UNCHANGED <<seeds, track>> /\ (UNCHANGED seed \/ seed' = [seed EXCEPT ![l] = "check"])
      BY <1>2, <2>2
      DEF LookupStep, LookupCall, Load, WriteMetadata, LoadDirect, ResolveTimesOut, Persist,
          PersistFails, PersistRecord, Reload, AwaitSeedPrices, Touch, Require, BeginFlight, Defer,
          SubmitSeed, Joined, JoinTimesOut, JoinCancelled, LookupFails
    <3> QED
      BY <1>1, <3>1
  <2> QED
    BY <2>1, <2>2
<1>3. ASSUME NEW l \in Lookups, BootStep(l) PROVE seed'[m] # "none" /\ track'[m] = t
  <2>1. UNCHANGED <<seeds, track>> /\ (UNCHANGED seed \/ seed' = [seed EXCEPT ![l] = "check"])
    BY <1>3 DEF BootStep, BootPersist, BootReload, BootSubmitSeed, BootFails, PersistRecord
  <2> QED
    BY <1>1, <2>1
<1>4. ASSUME NEW l \in Lookups, SeedStep(l) PROVE seed'[m] # "none" /\ track'[m] = t
  <2>1. CASE SeedInsert(l)
    <3>1. /\ UNCHANGED track /\ seed' = [seed EXCEPT ![l] = "done"]
          /\ seeds'[t] = IF t = track[l] THEN seeds[t] \cup {l} ELSE seeds[t]
      BY <2>1 DEF SeedInsert, InsertSeedPrices, SeedEnds
    <3> QED
      BY <1>0, <3>1
  <2>2. CASE SeedCheck(l) \/ SeedSkips(l)
    BY <1>1, <2>2 DEF SeedCheck, SeedSkips, SeedEnds
  <2> QED
    BY <1>4, <2>1, <2>2 DEF SeedStep
<1>5. CASE WatchlistStep
  <2>1. CASE CapacityStep(Watchlist)
    BY <1>1, <1>d, <2>1, ActorShape
  <2>2. CASE BackfillEnds \/ EvictStale \/ \E u \in Tracks : BackfillCheck(u)
    BY <1>1, <2>2 DEF BackfillEnds, EvictStale, BackfillCheck, DeleteRows
  <2>3. CASE BackfillInsert
    <3>1. UNCHANGED <<track, seed>> /\ seeds'[t] \subseteq seeds[t] \cup {Watchlist}
      BY <2>3 DEF BackfillInsert, InsertSeedPrices
    <3> QED
      BY <1>0, <3>1
  <2> QED
    BY <1>5, <2>1, <2>2, <2>3 DEF WatchlistStep
<1>6. CASE Shutdown \/ Finished
  BY <1>1, <1>6 DEF Shutdown, Finished, vars
<1> QED
  BY <1>2, <1>3, <1>4, <1>5, <1>6 DEF Next, LookupWork

------------------------------------------------------------------------------
(* The invariant holds at first and every step keeps it.                    *)
THEOREM Inductive == Spec => []IInv
<1>1. Init => IInv
  <2> SUFFICES ASSUME Init PROVE IInv
    OBVIOUS
  <2>1. TypeOK
    BY TypeInit
  <2>2. \A l \in Lookups : pc[l] = "start" /\ boot[l] = "none" /\ seed[l] = "none"
    BY ActorShape DEF Init
  <2>3. FlightOK /\ RowsOK
    BY <2>2 DEF FlightOK, RowsOK, AtWork, BootActive, DirectPlaces, Found, Unregistered, Registered
  <2>4. SeedsOK
    BY DEF Init, SeedsOK
  <2> QED
    BY <2>1, <2>3, <2>4 DEF IInv
<1>2. IInv /\ [Next]_vars => IInv'
  <2> SUFFICES ASSUME IInv, [Next]_vars PROVE IInv'
    OBVIOUS
  <2>1. TypeOK /\ FlightOK /\ RowsOK /\ SeedsOK
    BY DEF IInv
  <2>2. CASE Next
    BY <2>1, <2>2, TypeNext, FlightNext, RowsNext, SeedsNext DEF IInv
  <2>3. CASE UNCHANGED vars
    <3> USE <2>1, <2>3 DEF vars, envVars, storeVars, capVars, taskVars, flightVars
    <3>1. TypeOK'
      BY DEF TypeOK
    <3>2. FlightOK'
      BY DEF FlightOK, AtWork, BootActive
    <3>3. RowsOK'
      BY DEF RowsOK, Found, Unregistered, Registered
    <3>4. SeedsOK'
      BY DEF SeedsOK
    <3> QED
      BY <3>1, <3>2, <3>3, <3>4 DEF IInv
  <2> QED
    BY <2>2, <2>3
<1> QED
  BY <1>1, <1>2, PTL DEF Spec

(* Types: rows, seeds and evictions are of tracks, whoever writes them.     *)
THEOREM TypeCorrect == Spec => []TypeOK
<1>1. IInv => TypeOK
  BY DEF IInv
<1> QED
  BY <1>1, Inductive, PTL

(* Coalesced registrations seed the chart of a product once, unless it was  *)
(* evicted meanwhile.  Whose seeds are there has registered the product     *)
(* (SeedsOK), and only one lookup gets that far (RowsOK).                   *)
THEOREM ChartsSeededOnce == Spec => []SeededOnce
<1>1. IInv => SeededOnce
  <2> SUFFICES ASSUME IInv, coalescing, NEW t \in Tracks \ evicted
               PROVE  Cardinality(seeds[t] \ {Watchlist}) <= 1
    BY DEF SeededOnce
  <2> DEFINE S == seeds[t] \ {Watchlist}
  <2>1. \A l \in S : l \in Lookups /\ Registered(l) /\ track[l] = t
    BY DEF IInv, TypeOK, SeedsOK, Registered, Actors
  <2>2. \A l, m \in S : l = m
    BY <2>1 DEF IInv, RowsOK
  <2>3. S = {} \/ \E l : S = {l}
    BY <2>2
  <2>4. Cardinality(S) = 0 \/ Cardinality(S) = 1
    BY <2>3, FS_EmptySet, FS_Singleton
  <2> QED
    BY <2>4
<1> QED
  BY <1>1, Inductive, PTL

------------------------------------------------------------------------------
(* The refinement.                                                          *)

LEMMA FlightsRefine ==
  ASSUME TypeOK, FlightOK, coalescing, coalescing', track' = track, FlightStep
  PROVE  Flights!Next \/ UNCHANGED Coalesced
<1>0. \A l \in Lookups : track[l] \in Tracks /\ l # NoLookup /\ (AtWork(l) => flight[track[l]] = l)
  BY RegistrationAssumption DEF TypeOK, FlightOK
<1>1. CASE Stays
  <2>1. \A t \in Tracks : Registrars(t)' = Registrars(t)
    BY <1>1 DEF Stays, Keep, Registrars
  <2> QED
    BY <2>1 DEF Coalesced
<1>2. ASSUME NEW l \in Lookups, Begins(l)
      PROVE  Flights!Next
  <2>0. PICK t \in Tracks : t = track[l]
    BY <1>0
  <2>1. Registrars(t) = {}
    BY <1>0, <1>2, <2>0 DEF Begins, Registrars
  <2>2. \A u \in Tracks : Registrars(u)' = IF u = t THEN Registrars(u) \cup {l} ELSE Registrars(u)
    BY <1>2, <2>0 DEF Begins, Keep, Registrars
  <2>3. Coalesced[t] = {} /\ Coalesced' = [Coalesced EXCEPT ![t] = {l}]
    BY <2>1, <2>2 DEF Coalesced
  <2>4. Flights!Enter(t, l)
    BY <2>3 DEF Flights!Enter
  <2> QED
    BY <2>4 DEF Flights!Next
<1>3. ASSUME NEW l \in Lookups, Finishes(l)
      PROVE  Flights!Next
  <2>0. PICK t \in Tracks : t = track[l]
    BY <1>0
  <2>1. Registrars(t) = {l}
    BY <1>0, <1>3, <2>0 DEF Finishes, Registrars
  <2>2. \A u \in Tracks : Registrars(u)' = IF u = t THEN {} ELSE Registrars(u)
    BY <1>3, <2>0, <2>1 DEF Finishes, Keep, Registrars
  <2>3. Coalesced[t] = {l} /\ Coalesced' = [Coalesced EXCEPT ![t] = {}]
    BY <2>1, <2>2 DEF Coalesced
  <2>4. Flights!Leave(t, l)
    BY <2>3 DEF Flights!Leave
  <2> QED
    BY <2>4 DEF Flights!Next
<1> QED
  BY <1>1, <1>2, <1>3 DEF FlightStep

(* Where lookups coalesce, at most one registers a product at a time, and   *)
(* it (or the bootstrap it deferred) is done before another begins: the     *)
(* registration flights implement SingleFlight.                             *)
THEOREM RegistrationIsSingleFlight == Spec => ImplementsSingleFlight
<1>1. Init => Flights!Init
  <2> SUFFICES ASSUME Init PROVE Coalesced = [t \in Tracks |-> {}]
    BY DEF Flights!Init
  <2>1. \A l \in Lookups : ~AtWork(l)
    BY ActorShape DEF Init, AtWork, BootActive, DirectPlaces
  <2> QED
    BY <2>1 DEF Coalesced, Registrars
<1>2. IInv /\ [Next]_vars => [Flights!Next]_Coalesced
  <2> SUFFICES ASSUME IInv, [Next]_vars PROVE Flights!Next \/ UNCHANGED Coalesced
    OBVIOUS
  <2>1. TypeOK /\ FlightOK
    BY DEF IInv
  <2>2. CASE Next
    <3>1. UNCHANGED <<coalescing, track>>
      BY <2>1, <2>2, NextFlights
    <3>2. CASE coalescing
      BY <2>1, <2>2, <3>1, <3>2, NextFlights, FlightsRefine
    <3>3. CASE ~coalescing
      BY <3>1, <3>3 DEF Coalesced
    <3> QED
      BY <3>2, <3>3
  <2>3. CASE UNCHANGED vars
    BY <2>3 DEF vars, envVars, taskVars, Coalesced, Registrars, AtWork, BootActive
  <2> QED
    BY <2>2, <2>3
<1>3. Spec => Flights!Init /\ [][Flights!Next]_Coalesced
  BY <1>1, <1>2, Inductive, PTL DEF Spec
<1> QED
  BY <1>3, PTL DEF ImplementsSingleFlight, Flights!Spec, Coalesced
==============================================================================
