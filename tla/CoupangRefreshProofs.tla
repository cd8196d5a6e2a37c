------------------------- MODULE CoupangRefreshProofs -------------------------
(***************************************************************************)
(* What holds of the price refreshes for any lookups, tracks, size of the  *)
(* errgroup and number of crashes, with and without coalescing.            *)
(***************************************************************************)
EXTENDS CoupangRefresh, FiniteSetTheorems, TLAPS

(* The actors: the lookups' own goroutines, their tasks, and the watchlist. *)
LEMMA ActorShape ==
  /\ \A l \in Lookups :
       /\ Reader(l) \in Actors /\ Reader(l) \in Readers /\ Reader(l)[2] = l
       /\ Task(l) \in Actors /\ Task(l) \in BackgroundTasks /\ Task(l)[2] = l
       /\ Reader(l) \notin BackgroundTasks /\ Task(l) \notin Readers
       /\ Reader(l) # Watchlist /\ Task(l) # Watchlist
       /\ \A m \in Lookups : Reader(l) # Task(m)
       /\ \A m \in Lookups : (Reader(l) = Reader(m) \/ Task(l) = Task(m)) => l = m
  /\ \A a \in Readers : \E l \in Lookups : a = Reader(l)
  /\ \A a \in BackgroundTasks : \E l \in Lookups : a = Task(l)
  /\ Watchlist \in Actors /\ Watchlist \notin Readers /\ Watchlist \notin BackgroundTasks
  /\ \A a \in Actors : a \in Readers \/ a \in BackgroundTasks \/ a = Watchlist
  /\ NoActor \notin Actors
BY ActorsAssumption DEF Actors, Readers, BackgroundTasks, Reader, Task

(* Every actor is on a track.                                               *)
LEMMA OnTrack ==
  ASSUME TypeOK
  PROVE  /\ \A a \in Actors : On(a) \in Tracks
         /\ \A l \in Lookups : On(Reader(l)) = asks[l] /\ On(Task(l)) = asks[l]
         /\ On(Watchlist) = sweeping
BY ActorShape DEF TypeOK, On

LEMMA TypeInit == Init => TypeOK
BY RefreshAssumption, ActorShape DEF Init, TypeOK, Places, WorkPlaces

(* A step of a lookup keeps the types.                                      *)
LEMMA TypeLookup ==
  ASSUME TypeOK, NEW l \in Lookups, LookupStep(l)
  PROVE  TypeOK'
<1> USE DEF TypeOK, Places, WorkPlaces, Goto, dbVars, sweepVars, replyVars, slots
<1> Reader(l) \in Actors /\ Task(l) \in Actors /\ asks[l] \in Tracks
  BY ActorShape
<1>1. CASE LookupStarts(l)
  BY <1>1 DEF LookupStarts
<1>2. CASE TryReadThrough(l)
  BY <1>2 DEF TryReadThrough, BeginFlight
<1>3. CASE Joined(l)
  BY <1>3 DEF Joined
<1>4. CASE JoinTimesOut(l)
  BY <1>4 DEF JoinTimesOut
<1>5. CASE Require(l)
  BY <1>5 DEF Require
<1>6. CASE Schedule(l)
  BY <1>6 DEF Schedule, BeginFlight
<1>7. CASE Submit(l)
  BY <1>7 DEF Submit
<1>8. CASE LookupFails(l)
  BY <1>8 DEF LookupFails
<1>9. CASE ReaderFinishes(l)
  BY <1>9 DEF ReaderFinishes, FinishRefresh
<1>10. CASE TaskFinishes(l)
  BY <1>10 DEF TaskFinishes, FinishRefresh
<1> QED
  BY <1>1, <1>2, <1>3, <1>4, <1>5, <1>6, <1>7, <1>8, <1>9, <1>10 DEF LookupStep

(* The slots in use are a number.                                           *)
LEMMA SlotsAreCounted ==
  ASSUME FlightOK
  PROVE  Cardinality(Running) \in Nat
BY FS_CardinalityType DEF FlightOK

(* A step of a refresh keeps the types.                                     *)
LEMMA TypeRefresh ==
  ASSUME TypeOK, FlightOK, NEW a \in Actors, RefreshStep(a)
  PROVE  TypeOK'
<1> USE DEF TypeOK, Places, WorkPlaces, Goto, dbVars, sweepVars, replyVars, slots
<1> DEFINE t == On(a)
<1>0. t \in Tracks
  BY OnTrack
<1>e. ASSUME NEW how \in {"ok", "failed", "panic"}, Ends(a, how)
      PROVE  outcome' \in [Lookups -> {"none", "ok", "failed", "panic"}]
  BY <1>e DEF Ends
<1> HIDE DEF t
<1>1. CASE Budget(a)
  BY <1>1, <1>e DEF Budget
<1>2. CASE LoadProduct(a)
  BY <1>0, <1>2 DEF LoadProduct, MarkRefreshState, t
<1>3. CASE LoadFails(a)
  BY <1>3, <1>e DEF LoadFails
<1>4. CASE Fetched(a)
  BY <1>4 DEF Fetched, MarkSourceMappingState
<1>5. CASE FetchFails(a)
  BY <1>5, <1>e DEF FetchFails, MarkSourceMappingState
<1>6. CASE FetchMismatches(a)
  BY <1>6, <1>e DEF FetchMismatches, MarkSourceMappingState
<1>7. CASE Apply(a)
  <2>1. PICK mapping : UpsertSourceMapping(t, mapping) /\ (Goto(a, "clear") \/ Goto(a, "chart"))
    BY <1>7 DEF Apply, t
  <2>2. outcome' \in [Lookups -> {"none", "ok", "failed", "panic"}]
    BY <1>7, <1>e DEF Apply
  <2>3. at' \in [Actors -> Places]
    BY <2>1
  <2> QED
    BY <1>0, <1>7, <2>1, <2>2, <2>3
    DEF Apply, UpdateProductMetadata, UpdateSnapshot, UpsertSourceMapping, t
<1>8. CASE ApplyFails(a)
  BY <1>0, <1>8, <1>e DEF ApplyFails, UpdateProductMetadata, UpdateSnapshot, t
<1>9. CASE SubmitChart(a)
  BY <1>9, SlotsAreCounted, RefreshAssumption DEF SubmitChart, HasSlot
<1>10. CASE Clear(a)
  BY <1>0, <1>10 DEF Clear, MarkRefreshState, t
<1>11. CASE ClearFails(a)
  BY <1>11 DEF ClearFails
<1> QED
  BY <1>1, <1>2, <1>3, <1>4, <1>5, <1>6, <1>7, <1>8, <1>9, <1>10, <1>11 DEF RefreshStep

(* So do the steps of the sweep, of the environment, and a crash.           *)
LEMMA TypeRest ==
  ASSUME TypeOK, FlightOK,
         SweepStep \/ ChartEnds \/ OtherRefresh \/ Crash \/ (\E t \in Tracks : PriceAges(t) \/ Evict(t) \/ Register(t))
  PROVE  TypeOK'
<1> USE DEF TypeOK, Places, WorkPlaces, Goto, dbVars, sweepVars, replyVars, slots
<1> Watchlist \in Actors
  BY ActorShape
<1>1. CASE SweepList
  BY <1>1 DEF SweepList, DueForRefresh
<1>2. CASE SweepEnds
  BY <1>2 DEF SweepEnds
<1>3. CASE SweepFinishes
  BY <1>3 DEF SweepFinishes, FinishRefresh
<1>4. ASSUME NEW t \in Tracks, SweepPick(t) PROVE TypeOK'
  BY <1>4 DEF SweepPick, BeginFlight
<1>5. CASE ChartEnds
  BY <1>5, RefreshAssumption DEF ChartEnds
<1>8. CASE OtherRefresh
  BY <1>8, SlotsAreCounted, RefreshAssumption DEF OtherRefresh, HasSlot
<1>6. CASE Crash
  BY <1>6, RefreshAssumption DEF Crash
<1>7. ASSUME NEW t \in Tracks, PriceAges(t) \/ Evict(t) \/ Register(t) PROVE TypeOK'
  BY <1>7 DEF PriceAges, Evict, Register
<1> QED
  BY <1>1, <1>2, <1>3, <1>4, <1>5, <1>6, <1>7, <1>8 DEF SweepStep

------------------------------------------------------------------------------
(* What a step may do to the work on the tracks: nothing, begin one flight, *)
(* finish one, or end them all.                                             *)
Keep(A) == \A b \in A : /\ Holding(b)' <=> Holding(b)
                        /\ Holding(b) => On(b)' = On(b)

Stays == flight' = flight /\ Keep(Actors)

Begins(t, a) ==
  /\ flight[t] = NoActor /\ flight' = [flight EXCEPT ![t] = a]
  /\ ~Holding(a) /\ Holding(a)' /\ On(a)' = t
  /\ Keep(Actors \ {a})

Finishes(a) ==
  /\ flight' = [flight EXCEPT ![On(a)] = NoActor]
  /\ Holding(a) /\ ~Holding(a)'
  /\ Keep(Actors \ {a})

Restarts == flight' = [t \in Tracks |-> NoActor] /\ \A a \in Actors : ~Holding(a)'

FlightStep ==
  \/ Stays \/ Restarts
  \/ \E a \in Actors : Finishes(a) \/ \E t \in Tracks : Begins(t, a)

(* Moving within a refresh, or outside of one, keeps the work.              *)
LEMMA MoveKeeps ==
  ASSUME TypeOK, NEW a \in Actors, NEW place, Goto(a, place),
         Holding(a) <=> place \in WorkPlaces, UNCHANGED <<asks, sweeping>>
  PROVE  Keep(Actors)
BY DEF TypeOK, Goto, Keep, Holding, On

(* Another actor's move is none of anybody's business.                      *)
LEMMA MoveOfOne ==
  ASSUME TypeOK, NEW a \in Actors, NEW place, Goto(a, place), UNCHANGED <<asks, sweeping>>
  PROVE  Keep(Actors \ {a}) /\ at'[a] = place /\ On(a)' = On(a)
BY DEF TypeOK, Goto, Keep, Holding, On

LEMMA LookupFlights ==
  ASSUME TypeOK, FlightOK, NEW l \in Lookups, LookupStep(l)
  PROVE  FlightStep
<1> DEFINE r == Reader(l)
           k == Task(l)
<1> USE DEF TypeOK, WorkPlaces
<1>0. /\ r \in Actors /\ k \in Actors /\ r # k
      /\ On(r) = asks[l] /\ On(k) = asks[l] /\ asks[l] \in Tracks
      /\ NoActor \notin Actors
  BY ActorShape, OnTrack
<1>u. LookupStep(l) => UNCHANGED <<asks, sweeping>>
  BY DEF LookupStep, LookupStarts, TryReadThrough, Joined, JoinTimesOut, Require, Schedule, Submit,
     LookupFails, ReaderFinishes, TaskFinishes, sweepVars
<1> HIDE DEF r, k
<1>1. ASSUME NEW place, Goto(r, place), place \notin WorkPlaces, at[r] \notin WorkPlaces,
             flight' = flight
      PROVE  FlightStep
  BY <1>0, <1>1, <1>u, MoveKeeps DEF FlightStep, Stays, Holding
<1>2. CASE LookupStarts(l) \/ Joined(l) \/ JoinTimesOut(l) \/ Require(l) \/ LookupFails(l)
  <2>1. at[r] \in {"start", "join", "require", "schedule"} /\ flight' = flight
    BY <1>2 DEF LookupStarts, Joined, JoinTimesOut, Require, LookupFails, r
  <2>2. PICK place : Goto(r, place) /\ place \in {"try", "done", "require", "schedule"}
    BY <1>2 DEF LookupStarts, Joined, JoinTimesOut, Require, LookupFails, r
  <2> QED
    BY <1>1, <2>1, <2>2
<1>3. CASE TryReadThrough(l)
  <2>1. at[r] = "try"
    BY <1>3 DEF TryReadThrough, r
  <2>2. CASE flight' = flight
    <3>1. PICK place \in {"schedule", "join", "budget"} : Goto(r, place) /\ (place = "budget" => BeginFlight(asks[l], r))
      BY <1>3 DEF TryReadThrough, r
    <3>2. place # "budget"
      BY <1>0, <2>2, <3>1 DEF BeginFlight
    <3> QED
      BY <1>1, <2>1, <2>2, <3>1, <3>2
  <2>3. CASE BeginFlight(asks[l], r) /\ Goto(r, "budget")
    <3>1. Keep(Actors \ {r}) /\ at'[r] = "budget" /\ On(r)' = asks[l]
      BY <1>0, <1>u, <2>3, MoveOfOne
    <3>2. Begins(asks[l], r)
      BY <2>1, <2>3, <3>1 DEF Begins, BeginFlight, Holding
    <3> QED
      BY <1>0, <3>2 DEF FlightStep
  <2> QED
    BY <1>3, <2>2, <2>3 DEF TryReadThrough, r
<1>4. CASE Schedule(l)
  <2>1. at[r] = "schedule"
    BY <1>4 DEF Schedule, r
  <2>2. CASE Goto(r, "done") /\ UNCHANGED flight
    BY <1>1, <2>1, <2>2
  <2>3. CASE /\ BeginFlight(asks[l], k)
             /\ at' = [at EXCEPT ![r] = "scheduling", ![k] = "budget"]
    <3>1. ~Holding(k)
      BY <1>0, <2>3 DEF FlightOK, BeginFlight
    <3>2. Keep(Actors \ {k}) /\ at'[k] = "budget" /\ On(k)' = On(k)
      BY <1>0, <1>u, <2>1, <2>3 DEF Keep, Holding, On
    <3>3. Begins(asks[l], k)
      BY <1>0, <2>3, <3>1, <3>2 DEF Begins, BeginFlight, Holding
    <3> QED
      BY <1>0, <3>3 DEF FlightStep
  <2> QED
    BY <1>4, <2>2, <2>3 DEF Schedule, r, k
<1>5. CASE Submit(l)
  <2>1. at[k] = "submit" /\ at[r] = "scheduling" /\ UNCHANGED flight
    BY <1>5 DEF Submit, FlightOK, k, r
  <2>2. at' = [at EXCEPT ![k] = "load", ![r] = "done"]
    BY <1>5 DEF Submit, k, r
  <2>3. Keep(Actors)
    BY <1>0, <1>u, <2>1, <2>2 DEF Keep, Holding, On
  <2> QED
    BY <2>1, <2>3 DEF FlightStep, Stays
<1>6. CASE ReaderFinishes(l)
  <2>1. at[r] = "finish" /\ FinishRefresh(On(r))
    BY <1>0, <1>6 DEF ReaderFinishes, r
  <2>2. PICK place \in {"require", "schedule", "done"} : Goto(r, place)
    BY <1>6 DEF ReaderFinishes, r
  <2>3. Keep(Actors \ {r}) /\ at'[r] = place
    BY <1>0, <1>u, <2>2, MoveOfOne
  <2>4. Finishes(r)
    BY <2>1, <2>3 DEF Finishes, FinishRefresh, Holding
  <2> QED
    BY <1>0, <2>4 DEF FlightStep
<1>7. CASE TaskFinishes(l)
  <2>1. at[k] = "finish" /\ FinishRefresh(On(k))
    BY <1>0, <1>7 DEF TaskFinishes, k
  <2>2. at' = [at EXCEPT ![k] = "none", ![r] = IF @ = "scheduling" THEN "done" ELSE @]
    BY <1>7 DEF TaskFinishes, k, r
  <2>3. Keep(Actors \ {k}) /\ at'[k] = "none"
    BY <1>0, <1>u, <2>2 DEF Keep, Holding, On
  <2>4. Finishes(k)
    BY <2>1, <2>3 DEF Finishes, FinishRefresh, Holding
  <2> QED
    BY <1>0, <2>4 DEF FlightStep
<1> QED
  BY <1>2, <1>3, <1>4, <1>5, <1>6, <1>7 DEF LookupStep

(* A step of a refresh stays within it.                                     *)
LEMMA RefreshMoves ==
  ASSUME TypeOK, NEW a \in Actors, RefreshStep(a)
  PROVE  /\ at[a] \in WorkPlaces /\ UNCHANGED <<asks, sweeping, flight>>
         /\ \E place \in WorkPlaces :
              /\ Goto(a, place)
              /\ place \in {"budget", "submit"} => a \in BackgroundTasks /\ at[a] = "budget"
<1> USE DEF WorkPlaces, dbVars, sweepVars, replyVars, slots
<1>1. CASE Budget(a)
  BY <1>1 DEF Budget
<1>2. CASE LoadProduct(a) \/ LoadFails(a)
  BY <1>2 DEF LoadProduct, LoadFails
<1>3. CASE Fetched(a) \/ FetchFails(a) \/ FetchMismatches(a)
  BY <1>3 DEF Fetched, FetchFails, FetchMismatches
<1>4. CASE Apply(a)
  BY <1>4 DEF Apply
<1>5. CASE ApplyFails(a) \/ SubmitChart(a) \/ Clear(a) \/ ClearFails(a)
  BY <1>5 DEF ApplyFails, SubmitChart, Clear, ClearFails
<1> QED
  BY <1>1, <1>2, <1>3, <1>4, <1>5 DEF RefreshStep

LEMMA NextFlights ==
  ASSUME TypeOK, FlightOK, Next
  PROVE  FlightStep
<1> USE DEF TypeOK
<1>w. Watchlist \in Actors /\ On(Watchlist) = sweeping /\ sweeping \in Tracks
  BY ActorShape, OnTrack
<1>1. ASSUME NEW a \in Actors, RefreshStep(a) PROVE FlightStep
  <2>1. PICK place \in WorkPlaces : Goto(a, place)
    BY <1>1, RefreshMoves
  <2>2. Keep(Actors)
    BY <1>1, <2>1, RefreshMoves, MoveKeeps DEF Holding
  <2> QED
    BY <1>1, <2>2, RefreshMoves DEF FlightStep, Stays
<1>2. ASSUME NEW l \in Lookups, LookupStep(l) PROVE FlightStep
  BY <1>2, LookupFlights
<1>3. ASSUME UNCHANGED <<flight, at, asks, sweeping>> PROVE FlightStep
  BY <1>3 DEF FlightStep, Stays, Keep, Holding, On
<1>4. CASE SweepList \/ SweepEnds
  <2>1. /\ at[Watchlist] \in {"list", "pick"} /\ UNCHANGED <<flight, asks, sweeping>>
        /\ \E place \in {"list", "pick"} : Goto(Watchlist, place)
    BY <1>4 DEF SweepList, SweepEnds
  <2>2. Keep(Actors)
    BY <1>w, <2>1, MoveKeeps DEF WorkPlaces, Holding
  <2> QED
    BY <2>1, <2>2 DEF FlightStep, Stays
<1>5. CASE SweepFinishes
  <2>1. at[Watchlist] = "finish" /\ FinishRefresh(sweeping) /\ Goto(Watchlist, "pick")
        /\ UNCHANGED <<asks, sweeping>>
    BY <1>5 DEF SweepFinishes, sweepVars
  <2>2. Keep(Actors \ {Watchlist}) /\ at'[Watchlist] = "pick"
    BY <1>w, <2>1, MoveOfOne
  <2>3. Finishes(Watchlist)
    BY <1>w, <2>1, <2>2 DEF Finishes, FinishRefresh, Holding, WorkPlaces
  <2> QED
    BY <1>w, <2>3 DEF FlightStep
<1>6. ASSUME NEW t \in Tracks, SweepPick(t) PROVE FlightStep
  <2>1. at[Watchlist] = "pick" /\ UNCHANGED asks
    BY <1>6 DEF SweepPick
  <2>2. CASE UNCHANGED <<flight, at, sweeping>>
    BY <1>3, <2>1, <2>2
  <2>3. CASE BeginFlight(t, Watchlist) /\ sweeping' = t /\ Goto(Watchlist, "budget")
    <3>1. Keep(Actors \ {Watchlist}) /\ at'[Watchlist] = "budget"
      BY <1>w, <2>1, <2>3 DEF Keep, Goto, Holding, On
    <3>2. Begins(t, Watchlist)
      BY <1>w, <2>1, <2>3, <3>1 DEF Begins, BeginFlight, Holding, On, WorkPlaces
    <3> QED
      BY <1>w, <3>2 DEF FlightStep
  <2> QED
    BY <1>6, <2>2, <2>3 DEF SweepPick
<1>7. CASE ChartEnds \/ OtherRefresh \/ (\E t \in Tracks : PriceAges(t) \/ Evict(t) \/ Register(t))
  BY <1>3, <1>7 DEF ChartEnds, OtherRefresh, PriceAges, Evict, Register, sweepVars
<1>8. CASE Crash
  <2>1. \A a \in Actors : at'[a] \in {"list", "none", "start", "done"}
    BY <1>8 DEF Crash
  <2> QED
    BY <1>8, <2>1 DEF Crash, FlightStep, Restarts, Holding, WorkPlaces
<1> QED
  BY <1>1, <1>2, <1>4, <1>5, <1>6, <1>7, <1>8, ActorShape DEF Next, LookupWork, SweepWork, SweepStep

------------------------------------------------------------------------------
(* FlightOK, one part at a time.                                            *)

LEMMA LeadersNext ==
  ASSUME TypeOK, FlightOK, Next
  PROVE  \A a \in Actors : Holding(a)' => flight'[On(a)'] = a
<1> SUFFICES ASSUME NEW a \in Actors, Holding(a)' PROVE flight'[On(a)'] = a
  OBVIOUS
<1>0. FlightStep /\ NoActor \notin Actors /\ \A b \in Actors : On(b) \in Tracks
  BY NextFlights, ActorShape, OnTrack
<1>1. \A b \in Actors : Holding(b) => flight[On(b)] = b
  BY DEF FlightOK
<1>2. CASE Stays
  BY <1>1, <1>2 DEF Stays, Keep
<1>3. ASSUME NEW b \in Actors, Finishes(b) PROVE flight'[On(a)'] = a
  <2>1. a # b /\ Holding(a) /\ On(a)' = On(a)
    BY <1>3 DEF Finishes, Keep
  <2>2. flight[On(a)] = a /\ flight[On(b)] = b
    BY <1>1, <1>3, <2>1 DEF Finishes
  <2> QED
    BY <1>0, <1>3, <2>1, <2>2 DEF Finishes, TypeOK
<1>4. ASSUME NEW b \in Actors, NEW t \in Tracks, Begins(t, b) PROVE flight'[On(a)'] = a
  <2>1. CASE a = b
    BY <1>4, <2>1 DEF Begins, TypeOK
  <2>2. CASE a # b
    <3>1. Holding(a) /\ On(a)' = On(a)
      BY <1>4, <2>2 DEF Begins, Keep
    <3>2. flight[On(a)] = a /\ On(a) # t
      BY <1>0, <1>1, <1>4, <3>1 DEF Begins
    <3> QED
      BY <1>0, <1>4, <3>1, <3>2 DEF Begins, TypeOK
  <2> QED
    BY <2>1, <2>2
<1>5. CASE Restarts
  BY <1>5 DEF Restarts
<1> QED
  BY <1>0, <1>2, <1>3, <1>4, <1>5 DEF FlightStep

(* Only a lookup and its task move in its steps, as its refresh must not be *)
(* disturbed by them.                                                       *)
LEMMA LookupMoves ==
  ASSUME TypeOK, FlightOK, NEW l \in Lookups, LookupStep(l)
  PROVE  /\ UNCHANGED <<asks, dbVars, sweeping>>
         /\ at' \in [Actors -> Places]
         /\ \A a \in Actors \ {Reader(l), Task(l)} : at'[a] = at[a]
         /\ \A a \in Actors : at[a] \in {"fetch", "apply", "chart", "clear"} => at'[a] = at[a]
         /\ at'[Task(l)] \in {"budget", "submit"} => at'[Reader(l)] = "scheduling"
<1> DEFINE r == Reader(l)
           k == Task(l)
<1>0. r \in Actors /\ k \in Actors /\ r # k /\ On(k) = asks[l] /\ NoActor \notin Actors
  BY ActorShape, OnTrack
<1>t. at' \in [Actors -> Places]
  BY TypeLookup DEF TypeOK
<1>w. at[k] \in {"budget", "submit"} => at[r] = "scheduling"
  BY DEF FlightOK
<1>c. Holding(k) => flight[asks[l]] # NoActor
  BY <1>0 DEF FlightOK
<1> USE DEF TypeOK, sweepVars, Goto
<1> HIDE DEF r, k
<1>1. CASE LookupStarts(l) \/ Joined(l) \/ JoinTimesOut(l) \/ Require(l) \/ LookupFails(l) \/ ReaderFinishes(l)
  BY <1>0, <1>t, <1>w, <1>1
  DEF LookupStarts, Joined, JoinTimesOut, Require, LookupFails, ReaderFinishes, dbVars, r, k
<1>2. CASE TryReadThrough(l)
  BY <1>0, <1>t, <1>w, <1>2 DEF TryReadThrough, dbVars, r, k
<1>3. CASE Schedule(l)
  BY <1>0, <1>t, <1>w, <1>c, <1>3 DEF Schedule, BeginFlight, Holding, WorkPlaces, dbVars, r, k
<1>4. CASE Submit(l) \/ TaskFinishes(l)
  BY <1>0, <1>t, <1>w, <1>4 DEF Submit, TaskFinishes, dbVars, r, k
<1> QED
  BY <1>1, <1>2, <1>3, <1>4 DEF LookupStep, r, k

(* The moves of everybody else: the watchlist's, or none, or a crash.       *)
LEMMA RestMoves ==
  ASSUME TypeOK,
         SweepStep \/ ChartEnds \/ OtherRefresh \/ (\E t \in Tracks : PriceAges(t) \/ Evict(t) \/ Register(t))
  PROVE  /\ UNCHANGED asks
         /\ \A a \in Actors \ {Watchlist} : at'[a] = at[a]
         /\ \A a \in Actors : at[a] \in {"fetch", "apply", "chart", "clear"} =>
              at'[a] = at[a] /\ On(a)' = On(a)
         /\ marked' \ leftover' \subseteq marked \ leftover
<1> USE DEF TypeOK, dbVars, sweepVars, On, Goto
<1> Watchlist \in Actors
  BY ActorShape
<1>1. CASE SweepList \/ SweepEnds \/ SweepFinishes
  BY <1>1 DEF SweepList, SweepEnds, SweepFinishes
<1>2. ASSUME NEW t \in Tracks, SweepPick(t)
      PROVE  /\ UNCHANGED <<asks, marked, leftover>>
             /\ \A a \in Actors \ {Watchlist} : at'[a] = at[a]
             /\ at[Watchlist] = "pick"
  BY <1>2 DEF SweepPick
<1>3. CASE ChartEnds \/ OtherRefresh
  BY <1>3 DEF ChartEnds, OtherRefresh
<1>4. ASSUME NEW t \in Tracks, PriceAges(t) \/ Evict(t) \/ Register(t)
      PROVE  /\ UNCHANGED <<asks, at, sweeping>>
             /\ marked' \ leftover' \subseteq marked \ leftover
  BY <1>4 DEF PriceAges, Evict, Register
<1> QED
  BY <1>1, <1>2, <1>3, <1>4 DEF SweepStep

LEMMA WaitingNext ==
  ASSUME TypeOK, FlightOK, Next
  PROVE  \A m \in Lookups : at'[Task(m)] \in {"budget", "submit"} => at'[Reader(m)] = "scheduling"
<1> SUFFICES ASSUME NEW m \in Lookups, at'[Task(m)] \in {"budget", "submit"}
             PROVE  at'[Reader(m)] = "scheduling"
  OBVIOUS
<1>0. at[Task(m)] \in {"budget", "submit"} => at[Reader(m)] = "scheduling"
  BY DEF FlightOK
<1>1. ASSUME NEW l \in Lookups, LookupStep(l) PROVE at'[Reader(m)] = "scheduling"
  <2>1. CASE l = m
    BY <1>1, <2>1, LookupMoves
  <2>2. CASE l # m
    <3>1. at'[Reader(m)] = at[Reader(m)] /\ at'[Task(m)] = at[Task(m)]
      BY <1>1, <2>2, LookupMoves, ActorShape
    <3> QED
      BY <1>0, <3>1
  <2> QED
    BY <2>1, <2>2
<1>2. ASSUME NEW a \in Actors, RefreshStep(a) PROVE at'[Reader(m)] = "scheduling"
  <2>1. PICK place \in WorkPlaces :
          /\ Goto(a, place)
          /\ place \in {"budget", "submit"} => a \in BackgroundTasks /\ at[a] = "budget"
    BY <1>2, RefreshMoves
  <2>2. at[a] \in WorkPlaces
    BY <1>2, RefreshMoves
  <2>3. at[Task(m)] \in {"budget", "submit"}
    BY <2>1, ActorShape DEF Goto, TypeOK
  <2>4. a # Reader(m)
    BY <1>0, <2>2, <2>3 DEF WorkPlaces
  <2> QED
    BY <1>0, <2>1, <2>3, <2>4, ActorShape DEF Goto, TypeOK
<1>3. CASE SweepStep \/ ChartEnds \/ OtherRefresh \/ (\E t \in Tracks : PriceAges(t) \/ Evict(t) \/ Register(t))
  BY <1>0, <1>3, RestMoves, ActorShape
<1>4. CASE Crash
  BY <1>4, ActorShape DEF Crash
<1> QED
  BY <1>1, <1>2, <1>3, <1>4, ActorShape DEF Next, LookupWork, SweepWork

LEMMA RunningNext ==
  ASSUME TypeOK, FlightOK, Next
  PROVE  IsFiniteSet(Running')
<1>0. IsFiniteSet(Running)
  BY DEF FlightOK
<1>1. ASSUME NEW l \in Lookups, Running' \subseteq Running \cup {l} PROVE IsFiniteSet(Running')
  BY <1>0, <1>1, FS_AddElement, FS_Subset
<1>2. ASSUME NEW l \in Lookups, LookupStep(l) PROVE IsFiniteSet(Running')
  <2>1. \A m \in Lookups \ {l} : at'[Task(m)] = at[Task(m)]
    BY <1>2, LookupMoves, ActorShape
  <2> QED
    BY <1>1, <2>1 DEF Running
<1>3. ASSUME NEW a \in Actors, RefreshStep(a) PROVE IsFiniteSet(Running')
  <2>1. \A b \in Actors \ {a} : at'[b] = at[b]
    BY <1>3, RefreshMoves DEF Goto, TypeOK
  <2>2. CASE a \in BackgroundTasks
    <3>1. PICK l \in Lookups : a = Task(l)
      BY <2>2, ActorShape
    <3>2. \A m \in Lookups \ {l} : at'[Task(m)] = at[Task(m)]
      BY <2>1, <3>1, ActorShape
    <3> QED
      BY <1>1, <3>2 DEF Running
  <2>3. CASE a \notin BackgroundTasks
    <3>1. Running' = Running
      BY <2>1, <2>3, ActorShape DEF Running
    <3> QED
      BY <1>0, <3>1
  <2> QED
    BY <2>2, <2>3
<1>4. CASE SweepStep \/ ChartEnds \/ OtherRefresh \/ (\E t \in Tracks : PriceAges(t) \/ Evict(t) \/ Register(t))
  <2>1. Running' = Running
    BY <1>4, RestMoves, ActorShape DEF Running
  <2> QED
    BY <1>0, <2>1
<1>5. CASE Crash
  <2>1. Running' = {}
    BY <1>5, ActorShape DEF Crash, Running, WorkPlaces
  <2> QED
    BY <2>1, FS_EmptySet
<1> QED
  BY <1>2, <1>3, <1>4, <1>5, ActorShape DEF Next, LookupWork, SweepWork

------------------------------------------------------------------------------
(* A mark that is not left over belongs to a refresh that is past its load. *)
LEMMA MarksNext ==
  ASSUME TypeOK, FlightOK, MarkMeansInFlight, Next
  PROVE  MarkMeansInFlight'
<1> DEFINE Busy == {"fetch", "apply", "chart", "clear"}
<1> SUFFICES ASSUME NEW t \in Tracks, t \in marked' \ leftover'
             PROVE  \E a \in Actors : at'[a] \in Busy /\ On(a)' = t
  <2>1. TypeOK'
    BY TypeLookup, TypeRefresh, TypeRest, ActorShape DEF Next, LookupWork, SweepWork
  <2> QED
    BY <2>1 DEF MarkMeansInFlight, Refreshers, Holding, WorkPlaces, TypeOK
<1>0. ASSUME t \in marked \ leftover
      PROVE  \E a \in Actors : at[a] \in Busy /\ On(a) = t /\ flight[t] = a
  BY <1>0 DEF MarkMeansInFlight, Refreshers, FlightOK
<1>1. ASSUME NEW l \in Lookups, LookupStep(l)
      PROVE  \E a \in Actors : at'[a] \in Busy /\ On(a)' = t
  <2>1. t \in marked \ leftover
    BY <1>1, LookupMoves DEF dbVars
  <2> QED
    BY <1>0, <1>1, <2>1, LookupMoves DEF On
<1>2. ASSUME NEW a \in Actors, RefreshStep(a)
      PROVE  \E b \in Actors : at'[b] \in Busy /\ On(b)' = t
  <2> USE DEF dbVars
  <2>1. PICK place : Goto(a, place)
    BY <1>2, RefreshMoves
  <2>2. /\ \A b \in Actors : On(b)' = On(b)
        /\ \A b \in Actors \ {a} : at'[b] = at[b]
        /\ at'[a] = place
    BY <1>2, <2>1, RefreshMoves DEF Goto, TypeOK, On
  <2>3. ASSUME at[a] \notin Busy, UNCHANGED <<marked, leftover>>
        PROVE  \E b \in Actors : at'[b] \in Busy /\ On(b)' = t
    <3>1. PICK b \in Actors : at[b] \in Busy /\ On(b) = t
      BY <1>0, <2>3
    <3>2. b # a
      BY <2>3, <3>1
    <3> QED
      BY <2>2, <3>1, <3>2
  <2>4. CASE t # On(a)
    <3>1. t \in marked \ leftover
      BY <1>2, <2>4
      DEF RefreshStep, Budget, LoadProduct, LoadFails, Fetched, FetchFails, FetchMismatches, Apply,
          ApplyFails, SubmitChart, Clear, ClearFails, MarkRefreshState, UpdateSnapshot
    <3>2. PICK b \in Actors : at[b] \in Busy /\ On(b) = t
      BY <1>0, <3>1
    <3>3. b # a
      BY <2>4, <3>2
    <3> QED
      BY <2>2, <3>2, <3>3
  <2>5. CASE t = On(a)
    <3>1. CASE Budget(a) \/ LoadFails(a)
      BY <2>3, <3>1 DEF Budget, LoadFails
    <3>2. CASE Clear(a) \/ ClearFails(a)
      BY <2>5, <3>2 DEF Clear, ClearFails, MarkRefreshState
    <3>3. CASE \/ LoadProduct(a) \/ Fetched(a) \/ FetchFails(a) \/ FetchMismatches(a) \/ Apply(a)
               \/ ApplyFails(a) \/ SubmitChart(a)
      <4>1. at'[a] \in Busy
        BY <3>3 DEF LoadProduct, Fetched, FetchFails, FetchMismatches, Apply, ApplyFails, SubmitChart,
           Goto, TypeOK
      <4> QED
        BY <2>2, <2>5, <4>1
    <3> QED
      BY <1>2, <3>1, <3>2, <3>3 DEF RefreshStep
  <2> QED
    BY <2>4, <2>5
<1>3. CASE SweepStep \/ ChartEnds \/ OtherRefresh \/ (\E u \in Tracks : PriceAges(u) \/ Evict(u) \/ Register(u))
  BY <1>0, <1>3, RestMoves
<1>4. CASE Crash
  BY <1>4 DEF Crash
<1> QED
  BY <1>1, <1>2, <1>3, <1>4, ActorShape DEF Next, LookupWork, SweepWork

------------------------------------------------------------------------------
(* The invariant holds at first and every step keeps it.                    *)
THEOREM Inductive == Spec => []IInv
<1>1. Init => IInv
  <2> SUFFICES ASSUME Init PROVE IInv
    OBVIOUS
  <2>1. TypeOK
    BY TypeInit
  <2>2. \A a \in Actors : at[a] \in {"list", "start", "none"}
    BY DEF Init
  <2>3. Running = {}
    BY <2>2, ActorShape DEF Running, WorkPlaces
  <2>4. FlightOK
    BY <2>2, <2>3, FS_EmptySet, ActorShape DEF FlightOK, Holding, WorkPlaces
  <2>5. MarkMeansInFlight
    BY DEF Init, MarkMeansInFlight
  <2> QED
    BY <2>1, <2>4, <2>5 DEF IInv
<1>2. IInv /\ [Next]_vars => IInv'
  <2> SUFFICES ASSUME IInv, [Next]_vars PROVE IInv'
    OBVIOUS
  <2>1. TypeOK /\ FlightOK /\ MarkMeansInFlight
    BY DEF IInv
  <2>2. CASE Next
    <3>1. TypeOK'
      BY <2>1, <2>2, TypeLookup, TypeRefresh, TypeRest, ActorShape DEF Next, LookupWork, SweepWork
    <3>2. FlightOK'
      BY <2>1, <2>2, LeadersNext, WaitingNext, RunningNext DEF FlightOK
    <3> QED
      BY <2>1, <2>2, <3>1, <3>2, MarksNext DEF IInv
  <2>3. CASE UNCHANGED vars
    BY <2>1, <2>3 DEF IInv, TypeOK, FlightOK, MarkMeansInFlight, Holding, On, Running, Refreshers,
       vars, dbVars, sweepVars, replyVars, slots
  <2> QED
    BY <2>2, <2>3
<1> QED
  BY <1>1, <1>2, PTL DEF Spec

(* Types, and that marks and mappings are of rows, whatever evicts these.   *)
THEOREM TypeCorrect == Spec => []TypeOK
<1>1. IInv => TypeOK
  BY DEF IInv
<1> QED
  BY <1>1, Inductive, PTL

(* The persisted refresh_in_flight means what it says, but for a killed     *)
(* process and a clear that failed.                                         *)
THEOREM MarksMeanInFlight == Spec => []MarkMeansInFlight
<1>1. IInv => MarkMeansInFlight
  BY DEF IInv
<1> QED
  BY <1>1, Inductive, PTL

------------------------------------------------------------------------------
(* The refinement.  Of the work of a step the abstract module sees who      *)
(* enters a track that is free, who leaves it, and restarts.                *)

Work == [t \in Tracks |-> Refreshers(t)]

LEMMA FlightsRefine ==
  ASSUME TypeOK, FlightOK, FlightStep
  PROVE  Flights!Next \/ UNCHANGED Work
<1>0. \A a \in Actors : On(a) \in Tracks /\ (Holding(a) => flight[On(a)] = a)
  BY OnTrack DEF FlightOK
<1>n. NoActor \notin Actors
  BY ActorShape
<1>1. CASE Stays
  <2>1. \A t \in Tracks : Refreshers(t)' = Refreshers(t)
    BY <1>1 DEF Stays, Keep, Refreshers
  <2> QED
    BY <2>1 DEF Work
<1>2. CASE Restarts
  <2>1. \A t \in Tracks : Refreshers(t)' = {}
    BY <1>2 DEF Restarts, Refreshers
  <2>2. Work' = [t \in Tracks |-> {}]
    BY <2>1 DEF Work
  <2> QED
    BY <2>2 DEF Flights!Next, Flights!Abandon, Work
<1>3. ASSUME NEW a \in Actors, NEW t \in Tracks, Begins(t, a)
      PROVE  Flights!Next
  <2>1. Refreshers(t) = {}
    BY <1>0, <1>n, <1>3 DEF Begins, Refreshers
  <2>2. \A b \in Actors \ {a} : Holding(b)' => Holding(b) /\ On(b)' = On(b)
    BY <1>3 DEF Begins, Keep
  <2>3. \A b \in Actors \ {a} : Holding(b) => Holding(b)' /\ On(b)' = On(b)
    BY <1>3 DEF Begins, Keep
  <2>4. Refreshers(t)' = {a}
    BY <1>3, <2>1, <2>2 DEF Begins, Refreshers
  <2>5. \A u \in Tracks \ {t} : Refreshers(u)' = Refreshers(u)
    BY <1>3, <2>2, <2>3 DEF Begins, Refreshers
  <2>6. Work[t] = {} /\ Work' = [Work EXCEPT ![t] = {a}]
    BY <2>1, <2>4, <2>5 DEF Work
  <2>7. Flights!Enter(t, a)
    BY <2>6 DEF Flights!Enter, Work
  <2> QED
    BY <2>7 DEF Flights!Next
<1>4. ASSUME NEW a \in Actors, Finishes(a)
      PROVE  Flights!Next
  <2>0. PICK t \in Tracks : t = On(a)
    BY <1>0
  <2>1. Refreshers(t) = {a}
    BY <1>0, <1>4, <2>0 DEF Finishes, Refreshers
  <2>2. \A b \in Actors \ {a} : Holding(b)' => Holding(b) /\ On(b)' = On(b)
    BY <1>4 DEF Finishes, Keep
  <2>3. \A b \in Actors \ {a} : Holding(b) => Holding(b)' /\ On(b)' = On(b)
    BY <1>4 DEF Finishes, Keep
  <2>4. \A u \in Tracks : Refreshers(u)' = Refreshers(u) \ {a}
    BY <1>4, <2>2, <2>3 DEF Finishes, Refreshers
  <2>5. Refreshers(t)' = {} /\ \A u \in Tracks \ {t} : Refreshers(u)' = Refreshers(u)
    <3>1. \A u \in Tracks \ {t} : a \notin Refreshers(u)
      BY <2>0 DEF Refreshers
    <3>2. ASSUME NEW u \in Tracks \ {t} PROVE Refreshers(u) \ {a} = Refreshers(u)
      BY <3>1
    <3> QED
      BY <2>1, <2>4, <3>2
  <2>6. Work[t] = {a} /\ Work' = [Work EXCEPT ![t] = {}]
    BY <2>1, <2>5 DEF Work
  <2>7. Flights!Leave(t, a)
    BY <2>6 DEF Flights!Leave, Work
  <2> QED
    BY <2>7 DEF Flights!Next
<1> QED
  BY <1>1, <1>2, <1>3, <1>4 DEF FlightStep

(* At most one actor refreshes a product at a time, nobody takes over a     *)
(* refresh that is going on, and it ends before another begins: lookups,    *)
(* their tasks and the watchlist implement SingleFlight, across restarts.   *)
THEOREM RefreshIsSingleFlight == Spec => ImplementsSingleFlight
<1>1. Init => Flights!Init
  <2> SUFFICES ASSUME Init PROVE Work = [t \in Tracks |-> {}]
    BY DEF Flights!Init, Work
  <2>1. \A a \in Actors : ~Holding(a)
    BY DEF Init, Holding, WorkPlaces
  <2> QED
    BY <2>1 DEF Work, Refreshers
<1>2. IInv /\ [Next]_vars => [Flights!Next]_Work
  <2> SUFFICES ASSUME IInv, [Next]_vars PROVE Flights!Next \/ UNCHANGED Work
    OBVIOUS
  <2>1. TypeOK /\ FlightOK
    BY DEF IInv
  <2>2. CASE Next
    BY <2>1, <2>2, NextFlights, FlightsRefine
  <2>3. CASE UNCHANGED vars
    BY <2>3 DEF vars, sweepVars, Work, Refreshers, Holding, On
  <2> QED
    BY <2>2, <2>3
<1>3. Spec => Flights!Init /\ [][Flights!Next]_Work
  BY <1>1, <1>2, Inductive, PTL DEF Spec
<1> QED
  BY <1>3, PTL DEF ImplementsSingleFlight, Flights!Spec, Work
==============================================================================
