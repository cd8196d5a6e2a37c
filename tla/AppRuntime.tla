------------------------------ MODULE AppRuntime ------------------------------
(***************************************************************************)
(* The process: Build wires the modules in order, Run starts every         *)
(* component of the Lifecycle in a goroutine, waits for a signal, an error *)
(* or the end of all, and then closes what Build opened, last first.       *)
(* Composed with it are what runs inside components: message handlers      *)
(* behind the transport, the summaries that handlers hand to the           *)
(* SummaryExecutor and their answers, and the background tasks of the       *)
(* Coupang tracker, which may submit a task of their own.                  *)
(*                                                                         *)
(* Messages do not wait for each other here; their order in a room is      *)
(* IrisInbound's subject, and what the tracker's tasks do is that of       *)
(* CoupangRegistration and CoupangRefresh.                                 *)
(***************************************************************************)
EXTENDS Naturals, Sequences, SequencesExt, FiniteSets

CONSTANTS
  Messages,    \* messages that may arrive
  Links,       \* those with a link to summarize
  Products,    \* those with a product that needs background work
  MaxWorkers,  \* summaries at a time, 3 in the code
  AsyncLimit,  \* SetLimit of the tracker's errgroup, 10 in the code
  Enabled      \* parts of the configuration that are switched on

ASSUME RuntimeAssumption ==
  /\ Links \subseteq Messages /\ Products \subseteq Messages
  /\ MaxWorkers \in Nat \ {0} /\ AsyncLimit \in Nat \ {0}
  /\ Enabled \subseteq {"metrics", "access", "admin"}

VARIABLES
  transport,   \* the adapter the configuration asks for, "iris" for one Iris client or several
  built,       \* modules built so far
  open,        \* closers, in the order in which Build appended them
  main,        \* where the main goroutine is
  signalled,   \* SIGINT or SIGTERM came
  stopping,    \* waitLifecycle called cancel
  begun,       \* components whose goroutine has run its first statement
  returned,    \* components that have returned
  errs,        \* lifecycleRun.errCh
  first,       \* the error waitLifecycle received, and then what Run returns
  failed,      \* history: components that returned an error
  msg,         \* msg[m]: where the handling of m is
  job,         \* job[Own(m)]: the summary or task that m started, job[Seed(m)]: the one its task submitted
  root,        \* root[j]: the context the job was started under, for a task also whether it is one of the group
  gone,        \* HTTP test requests that have ended before their handler
  late,        \* history: running jobs started after what waits for them had returned
  answered,    \* history: messages to which a reply was delivered
  unheard      \* history: messages whose reply failed, or whose summary panicked before it

runVars == <<main, signalled, stopping, begun, returned, errs, first, failed>>
replyVars == <<answered, unheard>>
msgVars == <<msg, job, root, gone, late, replyVars>>
buildVars == <<transport, built, open>>
vars == <<buildVars, runVars, msgVars>>

NoError == "none"
Transports == {"none", "httptest", "iris"}
Jobs == Messages \X {"own", "seed"}
Own(m) == <<m, "own">>
Seed(m) == <<m, "seed">>
MsgSteps == {"none", "handling", "going", "submit", "done"}
JobSteps == {"none", "summary", "task", "going", "leaving", "ended"}
Roots == {"none", "background", "run"}

------------------------------------------------------------------------------
(* What Build wires: the components each module adds to the lifecycle and   *)
(* what it opens and appends to the closers.                                *)

Wired(starts, opens) == [starts |-> starts, opens |-> opens]
If(part, wired) == IF part \in Enabled THEN wired ELSE Wired({}, <<>>)

MetricsRuntime == If("metrics", Wired({"metrics-recorder"}, <<"metrics store">>))
Middlewares    == Wired({"rate-limiter-cleanup"}, <<>>)
AccessRuntime  == If("access", Wired({}, <<"access store">>))
CoinModule     == Wired({"binance-ws", "upbit-ws", "dunamu-forex", "forex-sync", "coingecko-poll",
                         "coingecko-marketcap-sync", "dex-hotlist"}, <<>>)
StockModule    == Wired({"stock-hotlist", "theme-index"}, <<>>)
CoupangModule  == Wired({"coupang-async", "coupang-watchlist"}, <<"price store">>)
SportsModule   == Wired({"football-poller", "esports-poller", "baseball-poller"}, <<>>)
LottoModule    == Wired({}, <<"lotto store">>)
SummaryModule  == Wired({"summary-executor"}, <<>>)
AdapterWiring(t) == IF t = "none" THEN Wired({}, <<>>) ELSE Wired({"transport-adapter"}, <<"adapter">>)
AdminRuntime   == If("admin", Wired({"admin-server"}, <<>>))

(* Modules that only register handlers are left out.                        *)
ModulesFor == [t \in Transports |->
           <<MetricsRuntime, Middlewares, AccessRuntime, CoinModule, StockModule, CoupangModule,
             SportsModule, LottoModule, SummaryModule, AdapterWiring(t), AdminRuntime>>]
StartedBy == [t \in Transports |-> UNION {wired.starts : wired \in ToSet(ModulesFor[t])}]

Modules == ModulesFor[transport]
Components == StartedBy[transport]

(* Components that do their work and return at the end of their context;    *)
(* nothing else waits for one of them, so they may return together.         *)
Pollers == StartedBy["none"] \ {"summary-executor", "coupang-async", "admin-server"}

Init ==
  /\ transport \in Transports
  /\ built = 0 /\ open = <<>>
  /\ main = "building" /\ signalled = FALSE /\ stopping = FALSE
  /\ begun = {} /\ returned = {} /\ errs = <<>> /\ first = NoError /\ failed = {}
  /\ msg = [m \in Messages |-> "none"] /\ job = [j \in Jobs |-> "none"]
  /\ root = [j \in Jobs |-> "none"]
  /\ gone = {} /\ late = {} /\ answered = {} /\ unheard = {}

(* Opening a database may fail; then the program exits as it is.            *)
Build ==
  /\ main = "building"
  /\ LET module == Modules[built + 1] IN
     \/ /\ built' = built + 1
        /\ open' = open \o module.opens
        /\ main' = IF built' = Len(Modules) THEN "waiting" ELSE "building"
        /\ UNCHANGED first
     \/ /\ module.opens # <<>>
        /\ main' = "stopped" /\ first' = "build"
        /\ UNCHANGED <<built, open>>
  /\ UNCHANGED <<transport, signalled, stopping, begun, returned, errs, failed, msgVars>>

------------------------------------------------------------------------------
(* Contexts.  The run context ends with the signal or with cancel.          *)

Started == main \in {"waiting", "draining", "closing"}
Cancelled == signalled \/ stopping
Alive(c) == Started /\ c \in Components \ returned

(* An HTTP test request carries its own context.                            *)
MessageDone(m) == IF transport = "httptest" THEN m \in gone \/ msg[m] = "done" ELSE Cancelled
JobDone(j) == MessageDone(j[1]) \/ (root[j] = "run" /\ Cancelled)

Handling == {m \in Messages : msg[m] \notin {"none", "done"}}
Summaries == {j \in Jobs : job[j] = "summary"}
Tasks == {j \in Jobs : job[j] \in {"task", "going", "leaving"}}

(* The tasks of the errgroup, each of which holds one of its slots.         *)
Group == {j \in Tasks : root[j] = "run"}

Signal ==
  /\ Started /\ ~signalled
  /\ signalled' = TRUE
  /\ UNCHANGED <<buildVars, main, stopping, begun, returned, errs, first, failed, msgVars>>

------------------------------------------------------------------------------
(* Lifecycle.Start: the goroutines of the components.                       *)

(* SummaryExecutor.Run stores its context, InitAsyncGroup makes the group.  *)
Begin(c) ==
  /\ Alive(c) /\ c \in {"summary-executor", "coupang-async"} \ begun
  /\ begun' = begun \cup {c}
  /\ UNCHANGED <<buildVars, main, signalled, stopping, returned, errs, first, failed, msgVars>>

Return(cs, errors) ==
  /\ returned' = returned \cup cs
  /\ errs' = errs \o errors
  /\ failed' = failed \cup ToSet(errors)
  /\ UNCHANGED <<buildVars, main, signalled, stopping, begun, first>>

PollersReturn ==
  /\ Cancelled /\ \A c \in Pollers : Alive(c)
  /\ Return(Pollers, <<>>)
  /\ UNCHANGED msgVars

(* Both wait for what they started and know of.                             *)
ExecutorReturns ==
  /\ Alive("summary-executor") /\ "summary-executor" \in begun
  /\ Cancelled /\ Summaries = {}
  /\ Return({"summary-executor"}, <<>>)
  /\ UNCHANGED msgVars

AsyncReturns ==
  /\ Alive("coupang-async") /\ "coupang-async" \in begun
  /\ Cancelled /\ Group = {}
  /\ Return({"coupang-async"}, <<>>)
  /\ UNCHANGED msgVars

(* ListenAndServe fails, or returns once Shutdown is called: it does not    *)
(* wait for the requests that Shutdown waits for.                           *)
AdminReturns ==
  /\ Alive("admin-server")
  /\ \/ Cancelled /\ Return({"admin-server"}, <<>>)
     \/ Return({"admin-server"}, <<"admin-server">>)
  /\ UNCHANGED msgVars

(* Iris clients, one or several, return after their handlers.               *)
IrisReturns ==
  /\ transport = "iris" /\ Alive("transport-adapter")
  /\ Cancelled /\ Handling = {}
  /\ Return({"transport-adapter"}, <<>>)
  /\ UNCHANGED msgVars

(* The test server ends all its requests and does not wait for their        *)
(* handlers; it may fail to listen.                                         *)
TestServerReturns ==
  /\ transport = "httptest" /\ Alive("transport-adapter")
  /\ \/ /\ Cancelled
        /\ Return({"transport-adapter"}, <<>>)
        /\ gone' = gone \cup Handling
        /\ UNCHANGED <<msg, job, root, late, replyVars>>
     \/ /\ \A m \in Messages : msg[m] = "none"
        /\ Return({"transport-adapter"}, <<"transport-adapter">>)
        /\ UNCHANGED msgVars

------------------------------------------------------------------------------
(* waitLifecycle, shutdown and closeAll.                                    *)

AllReturned == returned = Components

SeeSignal ==
  /\ main = "waiting" /\ signalled
  /\ stopping' = TRUE /\ main' = "draining"
  /\ UNCHANGED <<buildVars, signalled, begun, returned, errs, first, failed, msgVars>>

MutSeeError ==  \* Defect: the other components are not cancelled
  /\ main = "waiting" /\ errs # <<>>
  /\ main' = "draining"
  /\ first' = Head(errs) /\ errs' = Tail(errs)
  /\ UNCHANGED <<buildVars, signalled, stopping, begun, returned, failed, msgVars>>

SeeError ==
  /\ main = "waiting" /\ errs # <<>>
  /\ stopping' = TRUE /\ main' = "draining"
  /\ first' = Head(errs) /\ errs' = Tail(errs)
  /\ UNCHANGED <<buildVars, signalled, begun, returned, failed, msgVars>>

MutAwaited == TRUE  \* Defect: closes without waiting for the components

(* doneCh is closed.                                                        *)
Awaited == AllReturned

MutDrain ==  \* Defect: errors that follow the cancellation are dropped
  /\ main \in {"waiting", "draining"} /\ Awaited
  /\ main = "waiting" => AllReturned
  /\ stopping' = TRUE /\ main' = "closing"
  /\ errs' = <<>>
  /\ UNCHANGED <<buildVars, signalled, begun, returned, first, failed, msgVars>>

(* A later error is returned rather than the one received first.            *)
Drain ==
  /\ main \in {"waiting", "draining"} /\ Awaited
  /\ main = "waiting" => AllReturned
  /\ stopping' = TRUE /\ main' = "closing"
  /\ first' = IF errs # <<>> THEN Head(errs) ELSE first
  /\ errs' = <<>>
  /\ UNCHANGED <<buildVars, signalled, begun, returned, failed, msgVars>>

CloseNext ==
  /\ main = "closing" /\ open # <<>>
  /\ open' = Front(open)
  /\ UNCHANGED <<transport, built, runVars, msgVars>>

(* All are closed, or ShutdownTimeout has passed.                           *)
Exit ==
  /\ main = "closing"
  /\ main' = "stopped"
  /\ UNCHANGED <<buildVars, signalled, stopping, begun, returned, errs, first, failed, msgVars>>

------------------------------------------------------------------------------
(* Message handlers.                                                        *)

MsgStep(m, from, to) ==
  /\ Started /\ msg[m] = from
  /\ msg' = [msg EXCEPT ![m] = to]
  /\ gone' = IF to = "done" THEN gone \ {m} ELSE gone
  /\ UNCHANGED <<buildVars, runVars>>

Receive(m) ==
  /\ Alive("transport-adapter") /\ MsgStep(m, "none", "handling")
  /\ UNCHANGED <<job, root, late, replyVars>>

Unheard(m) == unheard' = unheard \cup {m} /\ UNCHANGED answered

(* A reply is sent: not under a context that is done, and the request to    *)
(* the Iris server may fail, which nobody looks at.  Several clients always *)
(* fail to send the reply of a summary, which names no adapter.             *)
Deliver(m, done) ==
  \/ ~done /\ answered' = answered \cup {m} /\ UNCHANGED unheard
  \/ (done \/ transport # "httptest") /\ Unheard(m)

(* A reply of a handler names the adapter of the message.  A message that   *)
(* no handler knows has none.                                               *)
HandlerReplies(m) ==
  /\ MsgStep(m, "handling", "done")
  /\ Deliver(m, MessageDone(m)) \/ UNCHANGED replyVars
  /\ UNCHANGED <<job, root, late>>

Launch(j, kind, by) ==
  /\ job[j] = "none"
  /\ job' = [job EXCEPT ![j] = kind]
  /\ late' = IF by \in returned THEN late \cup {j} ELSE late

(* Submit: the executor must not be shutting down, nor the message's        *)
(* context be done; what it returns then becomes a reply.                   *)
CheckContexts(m) ==
  /\ m \in Links /\ job[Own(m)] = "none"
  /\ IF MessageDone(m) \/ ("summary-executor" \in begun /\ Cancelled)
     THEN /\ MsgStep(m, "handling", "done")
          /\ Deliver(m, MessageDone(m))
          /\ UNCHANGED root
     ELSE /\ MsgStep(m, "handling", "submit")
          /\ root' = [root EXCEPT ![Own(m)] = IF "summary-executor" \in begun THEN "run" ELSE "background"]
          /\ UNCHANGED replyVars
  /\ UNCHANGED <<job, late>>

MutTakeSlot(m) ==  \* Defect: no reply when all workers are busy
  /\ MsgStep(m, "submit", "done")
  /\ IF Cardinality(Summaries) < MaxWorkers
     THEN Launch(Own(m), "summary", "summary-executor")
     ELSE UNCHANGED <<job, late>>
  /\ UNCHANGED <<root, replyVars>>

(* A slot of the semaphore, or a reply that all are taken.                  *)
TakeSlot(m) ==
  /\ MsgStep(m, "submit", "done")
  /\ IF Cardinality(Summaries) < MaxWorkers
     THEN Launch(Own(m), "summary", "summary-executor") /\ UNCHANGED <<root, replyVars>>
     ELSE /\ Deliver(m, MessageDone(m))
          /\ root' = [root EXCEPT ![Own(m)] = "none"]
          /\ UNCHANGED <<job, late>>

(* goAsync: a plain goroutine as long as there is no group, which reads the *)
(* tracker's context when it runs; or errgroup.Go, which waits for a slot.  *)
StartPlain(j) ==
  /\ "coupang-async" \notin begun
  /\ Launch(j, "task", "coupang-async")
  /\ root' = [root EXCEPT ![j] = "background"]

StartInGroup(j) ==
  /\ Cardinality(Group) < AsyncLimit
  /\ Launch(j, "task", "coupang-async")
  /\ root' = [root EXCEPT ![j] = "run"]

(* By a handler, which goes on after it.                                    *)
GoAsync(m) ==
  /\ m \in Products /\ job[Own(m)] = "none"
  /\ \/ MsgStep(m, "handling", "handling") /\ StartPlain(Own(m))
     \/ /\ "coupang-async" \in begun
        /\ MsgStep(m, "handling", "going") /\ UNCHANGED <<job, root, late>>
  /\ UNCHANGED replyVars

HandlerGoes(m) ==
  /\ MsgStep(m, "going", "handling") /\ StartInGroup(Own(m))
  /\ UNCHANGED replyVars

(* The test server's reply timeout.                                         *)
RequestTimesOut(m) ==
  /\ Started /\ transport = "httptest" /\ m \in Handling \ gone
  /\ gone' = gone \cup {m}
  /\ UNCHANGED <<buildVars, runVars, msg, job, root, late, replyVars>>

------------------------------------------------------------------------------
(* Summaries and tasks.                                                     *)

JobEnds(j, kinds) ==
  /\ Started /\ job[j] \in kinds
  /\ job' = [job EXCEPT ![j] = "ended"]
  /\ root' = [root EXCEPT ![j] = "none"]
  /\ late' = late \ {j}
  /\ UNCHANGED <<buildVars, runVars, msg, gone>>

(* The page or the tweet is fetched and the model asked, unless there is no *)
(* model, the tweet is short or its fetch fails; if the fetch of a page     *)
(* fails the model is given its address.  Whatever comes of it there is a   *)
(* text to send, the summary or an error, under the context of the job,     *)
(* which may have timed out.  A panic is recovered and tells nobody.        *)
Answer(m) ==
  /\ JobEnds(Own(m), {"summary"})
  /\ \/ \E expired \in BOOLEAN : Deliver(m, expired \/ JobDone(Own(m)))
     \/ Unheard(m)

(* A task submits one more, for the chart of its product, and works on.     *)
TaskSubmits(m) ==
  /\ Started /\ job[Own(m)] = "task"
  /\ IF "coupang-async" \in begun
     THEN job' = [job EXCEPT ![Own(m)] = "going"] /\ UNCHANGED root
     ELSE /\ job' = [job EXCEPT ![Own(m)] = "leaving", ![Seed(m)] = "task"]
          /\ root' = [root EXCEPT ![Seed(m)] = "background"]
  /\ UNCHANGED <<buildVars, runVars, msg, gone, late, replyVars>>

TaskGoes(m) ==
  /\ Started /\ job[Own(m)] = "going" /\ Cardinality(Group) < AsyncLimit
  /\ job' = [job EXCEPT ![Own(m)] = "leaving", ![Seed(m)] = "task"]
  /\ root' = [root EXCEPT ![Seed(m)] = "run"]
  /\ late' = IF "coupang-async" \in returned THEN late \cup {Seed(m)} ELSE late
  /\ UNCHANGED <<buildVars, runVars, msg, gone, replyVars>>

TaskEnds(j) == JobEnds(j, {"task", "leaving"}) /\ UNCHANGED replyVars

(* Every slot of the tracker's group is held by a task that waits for one,  *)
(* and Wait for them all.                                                   *)
Stuck == /\ Cardinality(Group) = AsyncLimit
         /\ \A j \in Group : job[j] = "going"

(* Nothing need happen any more.                                            *)
Stopped == (main = "stopped" \/ Stuck) /\ UNCHANGED vars

Handler(m) == HandlerReplies(m) \/ CheckContexts(m) \/ TakeSlot(m) \/ HandlerGoes(m)
Worker(m) == Answer(m) \/ TaskGoes(m) \/ TaskEnds(Own(m)) \/ TaskEnds(Seed(m))
Main == Build \/ SeeSignal \/ SeeError \/ Drain \/ CloseNext \/ Exit
Ends == PollersReturn \/ ExecutorReturns \/ AsyncReturns \/ IrisReturns \/ TestServerReturns

Next ==
  \/ Main \/ Signal \/ Ends \/ AdminReturns \/ Stopped
  \/ \E c \in Components : Begin(c)
  \/ \E m \in Messages : \/ Receive(m) \/ Handler(m) \/ GoAsync(m) \/ RequestTimesOut(m)
                         \/ TaskSubmits(m) \/ Worker(m)

(* As long as some goroutine can go on, one does; signals, messages,        *)
(* failures and timeouts need not come.  What waits for them is finite, so  *)
(* that no goroutine needs a fairness of its own.                           *)
Progress ==
  \/ Main \/ Ends \/ (Cancelled /\ AdminReturns)
  \/ \E c \in Components : Begin(c)
  \/ \E m \in Messages : Handler(m) \/ Worker(m)

Spec == Init /\ [][Next]_vars /\ WF_vars(Progress)
------------------------------------------------------------------------------
TypeOK ==
  /\ transport \in Transports /\ built \in 0 .. Len(Modules)
  /\ main \in {"building", "waiting", "draining", "closing", "stopped"}
  /\ signalled \in BOOLEAN /\ stopping \in BOOLEAN
  /\ begun \subseteq Components /\ returned \subseteq Components /\ failed \subseteq returned
  /\ ToSet(errs) \subseteq failed /\ first \in failed \cup {NoError, "build"}
  /\ msg \in [Messages -> MsgSteps] /\ job \in [Jobs -> JobSteps] /\ root \in [Jobs -> Roots]
  /\ gone \subseteq Messages /\ late \subseteq Jobs
  /\ answered \subseteq Messages /\ unheard \subseteq Messages

(* Run returns the error of a component that failed, and one if any did,    *)
(* whether the failure, the signal or the end of the others is seen first.  *)
ErrorsReported ==
  main = "stopped" /\ built = Len(Modules) =>
    /\ first \in failed \cup {NoError}
    /\ first = NoError => failed = {}

(* When the stores are closed no handler of a chat message runs, and the    *)
(* only jobs that do are those that slipped past a component's last look at *)
(* its work, or began before the tracker had its group; a late summary runs *)
(* under a context that is done.                                            *)
ClosingIsLast ==
  main = "closing" =>
    /\ transport # "httptest" => Handling = {}
    /\ Summaries \subseteq late
    /\ \A j \in Summaries : transport = "httptest" \/ JobDone(j)
    /\ \A j \in Tasks : j \in late \/ root[j] = "background"

(* After a signal or the failure of a component the process ends, whatever  *)
(* handlers, summaries and tasks are doing, and although they wait for each *)
(* other's slots; unless the tracker's tasks have taken all of the slots    *)
(* they wait for (coupang_async_deadlock shows that they can).              *)
ShutdownEnds == signalled \/ failed # {} ~> main = "stopped" \/ Stuck

(* Who sends a link to be summarized is told something: a handler that has  *)
(* found the executor running sends a reply, or the summary does, though it *)
(* failed or timed out, the request has ended, or the process is stopping   *)
(* meanwhile; unless the summary panics or the process has stopped.         *)
LinksAreReplied ==
  \A m \in Messages : msg[m] = "submit" ~> m \in answered \cup unheard \/ main = "stopped"

(* What the proofs need beside the types.  While the main goroutine waits,  *)
(* an error that was not received is in the channel; the channel is empty   *)
(* again when Run returns.                                                  *)
Fallible == {"admin-server", "transport-adapter"}

ErrorsOK ==
  /\ failed \subseteq Fallible
  /\ errs \in Seq(Fallible)
  /\ main \notin {"waiting", "draining"} => errs = <<>>
  /\ first = NoError => failed \subseteq ToSet(errs)
  /\ main = "building" => built < Len(Modules)
  /\ first = "build" => built < Len(Modules) /\ main = "stopped"

(* A component that has returned left nothing it knew of; what handlers     *)
(* started after that is in late.                                           *)
JobsOK ==
  /\ \A m \in Messages : msg[m] \in {"going", "submit"} => job[Own(m)] = "none"
  /\ \A j \in Tasks : root[j] # "none"
  /\ "summary-executor" \in returned => Summaries \subseteq late
  /\ "coupang-async" \in returned => Group \subseteq late
  /\ transport = "iris" /\ "transport-adapter" \in returned => Handling = {}
  /\ transport = "none" => Handling = {}
  /\ main = "closing" => AllReturned /\ stopping

(* The inductive invariant behind ErrorsReported and ClosingIsLast.         *)
IInv == TypeOK /\ ErrorsOK /\ JobsOK
==============================================================================
