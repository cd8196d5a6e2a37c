------------------------------ MODULE Dispatch ------------------------------
(***************************************************************************)
(* internal/bot: how the Router takes a message to a command and what it    *)
(* records of it; internal/command: what every handler may reply, and with  *)
(* which error it returns; internal/app: the metrics of the replies.        *)
(*                                                                          *)
(* The goroutines that carry messages interleave between any two replies.   *)
(* What a message says is its match: the intents that recognise it.  A      *)
(* handler is the set of its plans, the trees of the replies it tries: a    *)
(* node is one call of cmd.Reply, its branches go on after the reply was    *)
(* sent and after it failed, a leaf is the error the handler returns.       *)
(***************************************************************************)
EXTENDS Naturals, Sequences, FiniteSets

CONSTANTS
  Messages,     \* the messages on their way
  Matches,      \* for each of them the matches it may have
  Barred,       \* sets of intents the ACL may deny to the message
  Burst         \* commands of one kind a user may send at once, 3 in the code

Stock == "stock"
Denial == "denied"

(* The handlers in the order of their registration, by module.              *)
Registered ==
  << "help", "ai", "gold", "finance", "coin", "stock", "index", "chart", "coupang",
     "football", "esports", "baseball", "weather", "trending", "news", "fortune",
     "lotto", "admin", "youtube", "url-summary" >>

(* The fallbacks of scope deterministic in the order of their registration. *)
Deterministic == << "forex-convert", "chart", "coupang", "youtube", "url-summary", "calc" >>

Automatic == {"gold", "coin", "stock"}

ACLExempt == {"forex-convert", "calc"}

Elements(s) == {s[i] : i \in DOMAIN s}

Intents == Elements(Registered) \cup Elements(Deterministic)

Commands == Intents \cup {"none"}

(* A match.  shape: a slash command, jamo only, or text; explicit: the      *)
(* intent its first word is an alias of; theme: it ends in the word for a   *)
(* theme; bare: the handlers whose MatchBareQuery takes it; hits: the       *)
(* deterministic fallbacks that find something in it; auto: the automatic.  *)
MatchSet ==
  [shape : {"slash", "jamo", "text"}, explicit : Commands, theme : BOOLEAN,
   bare : SUBSET Elements(Registered), hits : SUBSET Elements(Deterministic),
   auto : SUBSET Automatic]

NoMatch ==
  [shape |-> "text", explicit |-> "none", theme |-> FALSE, bare |-> {}, hits |-> {}, auto |-> {}]

ASSUME DispatchAssumption ==
  /\ Burst \in Nat \ {0}
  /\ \A m \in Messages : Matches[m] \subseteq MatchSet
  /\ Barred \subseteq SUBSET (Intents \ ACLExempt)
------------------------------------------------------------------------------
(* The plans.                                                               *)

Done(r) == [leaf |-> r]

Ask(part, corr, expected, sent, failed) ==
  [part |-> part, corr |-> corr, expected |-> expected, sent |-> sent, failed |-> failed]

(* One reply whose failure the handler returns.                             *)
Text(r) == Ask("text", "reply", 1, Done(r), Done("error"))
Image(r) == Ask("image", "reply", 1, Done(r), Done("error"))

(* Usage, an answer, or the text of an error: the caller is told and the    *)
(* handler returns the result of the reply.                                 *)
Simple == {Text("nil")}

HelpPlans == Simple
AdminPlans == Simple \cup {Done("error")}   \* a change of the access store fails
ForexPlans == Simple
NewsPlans == Simple
TrendingPlans == Simple
FortunePlans == Simple
WeatherPlans == Simple
FootballPlans == Simple
EsportsPlans == Simple
BaseballPlans == Simple
GoldPlans == Simple
IndexPlans == Simple
CoinPlans == Simple
LottoPlans == Simple

(* The theme list is sent without a look at the error, and a quantity of a  *)
(* stock that does not resolve is not answered at all.                      *)
ThemePlans == {Ask("text", "reply", 1, Done("nil"), Done("nil"))}
QuantityPlans == Simple \cup {Done("nil")}
LookupPlans == {Text("nil"), Text("failed")}
StockPlans == Simple \cup LookupPlans \cup ThemePlans \cup QuantityPlans

RenderPlans == {Text("nil"), Text("failed"), Image("nil")}
ChartPlans == Simple \cup RenderPlans

(* The price of a product: the text is the final part of a composite, alone *)
(* or after an image that may fail to render or to be sent.                 *)
PriceText(expected) == Ask("text", "coupang", expected, Done("nil"), Done("error"))
PriceImage == Ask("image", "coupang", 2, PriceText(2), PriceText(2))

(* A lookup panics when a detail of the product does not verify, see        *)
(* CoupangRefresh.                                                          *)
ProductPlans == Simple \cup {PriceText(1), PriceText(2), PriceImage, Done("panic")}
CoupangPlans == Simple \cup ProductPlans

(* A job is handed to the executor and answers later, or one text tells     *)
(* that it is busy or ending.                                               *)
Job == Ask("job", "job", 1, Done("nil"), Done("nil"))
SummaryPlans == Simple \cup {Job}

Plans(id) ==
  CASE id \in {"help", "ai"} -> HelpPlans
    [] id = "gold" -> GoldPlans
    [] id = "finance" -> ForexPlans
    [] id = "coin" -> CoinPlans
    [] id = "stock" -> StockPlans
    [] id = "index" -> IndexPlans
    [] id = "chart" -> ChartPlans
    [] id = "coupang" -> CoupangPlans
    [] id = "football" -> FootballPlans
    [] id = "esports" -> EsportsPlans
    [] id = "baseball" -> BaseballPlans
    [] id = "weather" -> WeatherPlans
    [] id = "trending" -> TrendingPlans
    [] id = "news" -> NewsPlans
    [] id = "fortune" -> FortunePlans
    [] id = "lotto" -> LottoPlans
    [] id = "admin" -> AdminPlans
    [] id \in {"youtube", "url-summary"} -> SummaryPlans

(* HandleFallback: ErrHandled in place of nil.                              *)
HandledText == Text("handled")

CalcFallback == {HandledText, Done("nil")}
ForexConvertFallback == {HandledText, Done("nil")}
ChartFallback == {HandledText, Text("failed"), Image("handled")}

(* An error of the lookup, which is a reply that failed, is answered by an  *)
(* apology, and the result of that reply is what the fallback returns.      *)
Apology == Ask("text", "reply", 1, Done("nil"), Done("error"))
TextOrApology(corr, expected) == Ask("text", corr, expected, Done("handled"), Apology)

CoupangFallback ==
  { TextOrApology("reply", 1), TextOrApology("coupang", 1), TextOrApology("coupang", 2),
    Ask("image", "coupang", 2, TextOrApology("coupang", 2), TextOrApology("coupang", 2)),
    Done("panic") }

YouTubeFallback ==
  {Ask("job", "job", 1, Done("handled"), Done("handled")), TextOrApology("reply", 1)}

(* A link that does not serve HTML is not for the summary.                  *)
URLSummaryFallback == YouTubeFallback \cup {Done("nil")}

FallbackPlans(id) ==
  CASE id = "calc" -> CalcFallback
    [] id = "forex-convert" -> ForexConvertFallback
    [] id = "chart" -> ChartFallback
    [] id = "coupang" -> CoupangFallback
    [] id = "youtube" -> YouTubeFallback
    [] id = "url-summary" -> URLSummaryFallback
------------------------------------------------------------------------------
VARIABLES
  msg,       \* the match of a message
  barred,    \* the intents the ACL denies to it
  at,        \* where Dispatch is with it
  id,        \* the command that runs or is about to
  via,       \* who called it: "command", "limited", "apology", "denial", "fallback"
  plan,      \* what is left of the plan
  todo,      \* the fallbacks that are still to be asked
  denied,    \* fallbackDispatchResult.denied
  tokens,    \* rateLimitMiddleware: the tokens of a command, all messages are of one user
  tracker,   \* replyCompositeTracker.states
  crashed,   \* a panic outside of the middlewares has ended the process
  log,       \* history: the events recorded, with their commands
  got,       \* history: the replies the room got
  tried,     \* history: the calls of the adapter
  verdicts   \* history: the composite outcomes recorded

routing == <<msg, barred, todo, denied>>
vars ==
  <<msg, barred, at, id, via, plan, todo, denied, tokens, tracker, crashed,
    log, got, tried, verdicts>>

Init ==
  /\ msg = [m \in Messages |-> NoMatch] /\ barred = [m \in Messages |-> {}]
  /\ at = [m \in Messages |-> "new"]
  /\ id = [m \in Messages |-> "none"] /\ via = [m \in Messages |-> "none"]
  /\ plan = [m \in Messages |-> Done("nil")]
  /\ todo = [m \in Messages |-> <<>>] /\ denied = [m \in Messages |-> FALSE]
  /\ tokens = [c \in Intents |-> Burst]
  /\ tracker = [m \in {} |-> <<>>] /\ crashed = FALSE
  /\ log = [m \in Messages |-> <<>>] /\ got = [m \in Messages |-> <<>>]
  /\ tried = [m \in Messages |-> <<>>] /\ verdicts = {}

(* recordEvent and its callers.                                             *)
Recorded(m, names, c) == [log EXCEPT ![m] = @ \o [i \in DOMAIN names |-> <<names[i], c>>]]
------------------------------------------------------------------------------
(* buildDispatchPlan, dispatchThemeQuery and dispatchBareQuery.             *)

Ignored(c) == c.shape # "text"

(* A query several handlers take is for the one registered first.           *)
FirstOf(ids) ==
  LET i == CHOOSE i \in DOMAIN Registered :
             Registered[i] \in ids /\ \A j \in 1 .. i - 1 : Registered[j] \notin ids
  IN Registered[i]

(* parseExplicit: the word for a chart is prose too, and an intent without  *)
(* a handler is a fallback only.                                            *)
Explicit(c) == IF c.explicit \in Elements(Registered) \ {"chart"} THEN c.explicit ELSE "none"

Selected(c) ==
  IF Explicit(c) # "none" THEN Explicit(c)
  ELSE IF c.theme THEN Stock
  ELSE IF c.bare # {} THEN FirstOf(c.bare)
  ELSE "none"

Receive(m) ==
  /\ at[m] = "new"
  /\ \E c \in Matches[m], b \in Barred :
       /\ msg' = [msg EXCEPT ![m] = c] /\ barred' = [barred EXCEPT ![m] = b]
       /\ id' = [id EXCEPT ![m] = IF Ignored(c) THEN "none" ELSE Selected(c)]
       /\ at' = [at EXCEPT ![m] =
            IF Ignored(c) THEN "end" ELSE IF Selected(c) # "none" THEN "chosen" ELSE "chain"]
       /\ todo' = [todo EXCEPT ![m] = Deterministic]
       /\ log' = Recorded(m, <<"received">> \o IF Ignored(c) THEN <<"unmatched">> ELSE <<>>, "none")
  /\ UNCHANGED <<via, plan, denied, tokens, tracker, crashed, got, tried, verdicts>>

Call(m, by, p) ==
  /\ at' = [at EXCEPT ![m] = "run"]
  /\ via' = [via EXCEPT ![m] = by]
  /\ plan' = [plan EXCEPT ![m] = p]

(* dispatchHandler.                                                         *)
DispatchDenied(m) ==
  /\ at[m] = "chosen" /\ id[m] \in barred[m]
  /\ log' = Recorded(m, <<Denial>>, id[m])
  /\ Call(m, "denial", Text("nil"))
  /\ UNCHANGED <<routing, id, tokens, tracker, crashed, got, tried, verdicts>>

DispatchHandler(m) ==
  /\ at[m] = "chosen" /\ id[m] \notin barred[m]
  /\ log' = Recorded(m, <<"dispatched", "activation">>, id[m])
  /\ at' = [at EXCEPT ![m] = "limit"]
  /\ UNCHANGED <<routing, id, via, plan, tokens, tracker, crashed, got, tried, verdicts>>

(* rateLimitMiddleware, and the handler it calls.  A limiter that is an     *)
(* hour idle has all its tokens: that it is dropped changes nothing.        *)
Admit(m) ==
  /\ at[m] = "limit" /\ tokens[id[m]] > 0
  /\ tokens' = [tokens EXCEPT ![id[m]] = @ - 1]
  /\ \E p \in Plans(id[m]) : Call(m, "command", p)
  /\ UNCHANGED <<routing, id, tracker, crashed, log, got, tried, verdicts>>

RateLimit(m) ==
  /\ at[m] = "limit" /\ tokens[id[m]] = 0
  /\ log' = Recorded(m, <<"rate_limited">>, id[m])
  /\ Call(m, "limited", Text("nil"))
  /\ UNCHANGED <<routing, id, tokens, tracker, crashed, got, tried, verdicts>>

Refill(c) ==
  /\ tokens[c] < Burst
  /\ tokens' = [tokens EXCEPT ![c] = @ + 1]
  /\ UNCHANGED <<routing, at, id, via, plan, tracker, crashed, log, got, tried, verdicts>>
------------------------------------------------------------------------------
(* The reply function of the application, with recordReplyMetric and the    *)
(* tracker.  The states of the default correlation ids end with their one   *)
(* part.  A state no part of which came for two minutes is dropped: a reply *)
(* does not take that long, and none is left behind by these handlers.      *)

MutFinal(p) == p.expected <= 1   \* Defect: no part of a composite is final

Final(p) == p.expected <= 1 \/ p.part = "text"

Parts(m) == IF m \in DOMAIN tracker THEN tracker[m].parts ELSE <<>>
Expected(m, p) ==
  IF m \in DOMAIN tracker /\ tracker[m].expected > p.expected
  THEN tracker[m].expected ELSE p.expected

(* replyCompositeTracker.Observe, for the parts of a product of message m.  *)
Observe(m, p, ok) ==
  LET parts == [q \in DOMAIN Parts(m) \cup {p.part} |-> IF q = p.part THEN ok ELSE Parts(m)[q]]
  IN IF Final(p) \/ Cardinality(DOMAIN parts) >= Expected(m, p)
     THEN /\ tracker' = [n \in DOMAIN tracker \ {m} |-> tracker[n]]
          /\ verdicts' = verdicts \cup {[of |-> m, parts |-> parts]}
     ELSE /\ tracker' = [n \in DOMAIN tracker \cup {m} |->
               IF n = m THEN [parts |-> parts, expected |-> Expected(m, p)] ELSE tracker[n]]
          /\ verdicts' = verdicts

IsLeaf(p) == "leaf" \in DOMAIN p

Reply(m) ==
  /\ at[m] = "run" /\ ~IsLeaf(plan[m]) /\ plan[m].part # "job"
  /\ \E ok \in BOOLEAN :
       LET p == plan[m] IN
       /\ plan' = [plan EXCEPT ![m] = IF ok THEN p.sent ELSE p.failed]
       /\ tried' = [tried EXCEPT ![m] = Append(@, [part |-> p.part, corr |-> p.corr, ok |-> ok])]
       /\ got' = IF ok THEN [got EXCEPT ![m] = Append(@, p.corr)] ELSE got
       /\ IF p.corr = "coupang" THEN Observe(m, p, ok) ELSE UNCHANGED <<tracker, verdicts>>
  /\ UNCHANGED <<routing, at, id, via, tokens, crashed, log>>

(* Submit: the answer of the job is one reply of the executor.              *)
Submit(m) ==
  /\ at[m] = "run" /\ ~IsLeaf(plan[m]) /\ plan[m].part = "job"
  /\ plan' = [plan EXCEPT ![m] = plan[m].sent]
  /\ got' = [got EXCEPT ![m] = Append(@, "job")]
  /\ UNCHANGED <<routing, at, id, via, tokens, tracker, crashed, log, tried, verdicts>>
------------------------------------------------------------------------------
(* The way back.                                                            *)

Returns(m, by) == at[m] = "run" /\ via[m] = by /\ IsLeaf(plan[m])

End(m) == at' = [at EXCEPT ![m] = "end"] /\ UNCHANGED <<via, plan>>

MutOutcome(r) ==   \* Defect: a failure is followed up and not counted
  IF r = "nil" THEN <<"succeeded", "engagement", "conversion">> ELSE <<"churn">>

Outcome(r) ==
  IF r = "nil" THEN <<"succeeded", "engagement", "conversion">> ELSE <<"failed", "churn">>

MutHandledAlready(r) == FALSE   \* Defect: errorMiddleware apologises for every error

(* errors.Is(err, ErrHandledWithFailure).                                   *)
HandledAlready(r) == r = "failed"

(* errorMiddleware, outside of the others: an error the caller was not told *)
(* of, and a panic, are answered by an apology.                             *)
HandleError(m, r) ==
  IF r = "nil" \/ HandledAlready(r) THEN End(m) ELSE Call(m, "apology", Text("nil"))

(* loggingMiddleware, which a panic passes by.                              *)
CommandReturns(m) ==
  /\ Returns(m, "command")
  /\ log' = IF plan[m].leaf = "panic" THEN log ELSE Recorded(m, Outcome(plan[m].leaf), id[m])
  /\ HandleError(m, plan[m].leaf)
  /\ UNCHANGED <<routing, id, tokens, tracker, crashed, got, tried, verdicts>>

LimitedReturns(m) ==
  /\ Returns(m, "limited")
  /\ HandleError(m, plan[m].leaf)
  /\ UNCHANGED <<routing, id, tokens, tracker, crashed, log, got, tried, verdicts>>

LastReplyReturns(m) ==
  /\ Returns(m, "denial") \/ Returns(m, "apology")
  /\ End(m)
  /\ UNCHANGED <<routing, id, tokens, tracker, crashed, log, got, tried, verdicts>>
------------------------------------------------------------------------------
(* dispatchDeterministicFallbacks and executeFallbackEntry.  The fallbacks  *)
(* are called without the middlewares.                                      *)

Forbidden(m, f) == f \notin ACLExempt /\ f \in barred[m]

FallbackDenied(m) ==
  /\ at[m] = "chain" /\ todo[m] # <<>> /\ Forbidden(m, Head(todo[m]))
  /\ denied' = [denied EXCEPT ![m] = TRUE]
  /\ log' = Recorded(m, <<Denial>>, Head(todo[m]))
  /\ todo' = [todo EXCEPT ![m] = Tail(@)]
  /\ UNCHANGED <<msg, barred, at, id, via, plan, tokens, tracker, crashed, got, tried, verdicts>>

FallbackPasses(m) ==
  /\ at[m] = "chain" /\ todo[m] # <<>> /\ ~Forbidden(m, Head(todo[m]))
  /\ Head(todo[m]) \notin msg[m].hits
  /\ todo' = [todo EXCEPT ![m] = Tail(@)]
  /\ UNCHANGED <<msg, barred, at, id, via, plan, denied, tokens, tracker, crashed, log, got,
                 tried, verdicts>>

FallbackRuns(m) ==
  /\ at[m] = "chain" /\ todo[m] # <<>> /\ ~Forbidden(m, Head(todo[m]))
  /\ Head(todo[m]) \in msg[m].hits
  /\ id' = [id EXCEPT ![m] = Head(todo[m])]
  /\ \E p \in FallbackPlans(Head(todo[m])) : Call(m, "fallback", p)
  /\ todo' = [todo EXCEPT ![m] = Tail(@)]
  /\ UNCHANGED <<msg, barred, denied, tokens, tracker, crashed, log, got, tried, verdicts>>

FallbackReturns(m) ==
  /\ Returns(m, "fallback") /\ plan[m].leaf # "panic"
  /\ IF plan[m].leaf = "nil"
     THEN at' = [at EXCEPT ![m] = "chain"] /\ UNCHANGED <<via, plan, log>>
     ELSE /\ log' = Recorded(m, <<"dispatched",
                      IF plan[m].leaf = "handled" THEN "succeeded" ELSE "failed">>, id[m])
          /\ End(m)
  /\ UNCHANGED <<routing, id, tokens, tracker, crashed, got, tried, verdicts>>

FallbackPanics(m) ==
  /\ Returns(m, "fallback") /\ plan[m].leaf = "panic"
  /\ crashed' = TRUE
  /\ UNCHANGED <<routing, at, id, via, plan, tokens, tracker, log, got, tried, verdicts>>

(* The end of the chain.  Build sets no AutoQueryManager, so the automatic  *)
(* fallbacks are looked for and never called.                               *)
ChainEnds(m) ==
  /\ at[m] = "chain" /\ todo[m] = <<>>
  /\ log' = IF denied[m] THEN log
            ELSE Recorded(m, IF msg[m].auto = {} THEN <<"unmatched">> ELSE <<"policy_skip">>, "none")
  /\ End(m)
  /\ UNCHANGED <<routing, id, tokens, tracker, crashed, got, tried, verdicts>>
------------------------------------------------------------------------------
Step(m) ==
  \/ Receive(m) \/ DispatchDenied(m) \/ DispatchHandler(m) \/ Admit(m) \/ RateLimit(m)
  \/ Reply(m) \/ Submit(m) \/ CommandReturns(m) \/ LimitedReturns(m) \/ LastReplyReturns(m)
  \/ FallbackDenied(m) \/ FallbackPasses(m) \/ FallbackRuns(m) \/ FallbackReturns(m)
  \/ FallbackPanics(m) \/ ChainEnds(m)

Next ==
  \/ ~crashed /\ \E m \in Messages : Step(m)
  \/ ~crashed /\ \E c \in Intents : Refill(c)

Spec == Init /\ [][Next]_vars
------------------------------------------------------------------------------
Names(m, names) == {i \in DOMAIN log[m] : log[m][i][1] \in names}

PlanShape(p) == IsLeaf(p) \/ p.part \in {"text", "image", "job"}

TypeOK ==
  /\ msg \in [Messages -> MatchSet] /\ barred \in [Messages -> SUBSET Intents]
  /\ at \in [Messages -> {"new", "chosen", "limit", "run", "chain", "end"}]
  /\ id \in [Messages -> Commands]
  /\ via \in [Messages -> {"none", "command", "limited", "apology", "denial", "fallback"}]
  /\ \A m \in Messages : PlanShape(plan[m]) /\ Elements(todo[m]) \subseteq Intents
  /\ denied \in [Messages -> BOOLEAN] /\ tokens \in [Intents -> 0 .. Burst]
  /\ DOMAIN tracker \subseteq Messages /\ crashed \in BOOLEAN

(* Every command that is recorded as dispatched gets one outcome by the end *)
(* of the dispatch, and a message is dispatched to one command at most:     *)
(* through middlewares, apologies and the chain of fallbacks no command is  *)
(* counted twice and none is forgotten, but for the one that panics.        *)
OutcomePerCommand ==
  \A m \in Messages :
    LET dispatched == Cardinality(Names(m, {"dispatched"}))
        outcomes == Cardinality(Names(m, {"succeeded", "failed", "rate_limited"}))
        panicked == id[m] = "coupang" /\ via[m] = "apology"
    IN /\ dispatched <= 1 /\ outcomes <= dispatched
       /\ at[m] = "end" /\ ~panicked => outcomes = dispatched

(* The parts of a product are one answer.                                   *)
Answers(m) ==
  Cardinality({i \in DOMAIN got[m] : got[m][i] # "coupang"})
    + (IF "coupang" \in Elements(got[m]) THEN 1 ELSE 0)

Addressed(m) == Names(m, {"dispatched"}) # {} \/ via[m] = "denial"

(* While no reply fails, a message gets one answer if it was for a command, *)
(* also when that is a denial, a rate limit, an error or a panic, and none  *)
(* if it was not.  A quantity of an unknown stock is the exception.         *)
AnsweredOnce ==
  \A m \in Messages :
    at[m] = "end" /\ (\A i \in DOMAIN tried[m] : tried[m][i].ok) =>
      /\ Answers(m) = 1 => Addressed(m)
      /\ Addressed(m) /\ id[m] # Stock => Answers(m) = 1
      /\ Answers(m) <= 1

ProductParts(m) ==
  {[part |-> tried[m][i].part, ok |-> tried[m][i].ok] :
     i \in {i \in DOMAIN tried[m] : tried[m][i].corr = "coupang"}}

(* The outcome recorded of a price in one or two parts is of all its parts  *)
(* and with their results, it is recorded once, and by the end of the       *)
(* dispatch none of its state is left.                                      *)
VerdictOfAllParts ==
  \A m \in Messages :
    LET of == {v \in verdicts : v.of = m}
    IN /\ Cardinality(of) <= 1
       /\ \A v \in of : {[part |-> p, ok |-> v.parts[p]] : p \in DOMAIN v.parts} = ProductParts(m)
       /\ at[m] = "end" => m \notin DOMAIN tracker /\ (of = {} <=> ProductParts(m) = {})

(* Documented: a handler of the chain that handled a message says so, and   *)
(* the router stops there.  A message that got an answer is not unmatched.  *)
UnmatchedIsUnanswered ==
  \A m \in Messages : Names(m, {"unmatched"}) # {} => got[m] = <<>>

------------------------------------------------------------------------------
(* The inductive invariant behind the properties, in parts.                 *)

(* The histories are sequences, of the events that are known, of the kinds  *)
(* of replies and of the calls of the adapter.                              *)
Events ==
  {"received", "unmatched", Denial, "dispatched", "activation", "rate_limited", "succeeded",
   "engagement", "conversion", "failed", "churn", "policy_skip"}

HistoryOK ==
  /\ plan = [m \in Messages |-> plan[m]] /\ todo = [m \in Messages |-> todo[m]]
  /\ tracker = [m \in DOMAIN tracker |-> tracker[m]]
  /\ log \in [Messages -> Seq(Events \X Commands)]
  /\ got \in [Messages -> Seq({"reply", "coupang", "job"})]
  /\ tried \in [Messages -> Seq([part : {"text", "image"}, corr : {"reply", "coupang"}, ok : BOOLEAN])]

(* What is left of a plan once a reply was tried.                           *)
LastPlans == {Text("nil"), Done("nil"), Done("error")}
CommandRests == {Done("nil"), Done("failed"), Done("error"), PriceText(2)}
FallbackRests ==
  {Done("nil"), Done("failed"), Done("error"), Done("handled"), Apology, TextOrApology("coupang", 2)}

(* Which plan a message is at, and which fallbacks it still has to ask:     *)
(* each of them once.                                                       *)
RouteOf(m) ==
  /\ at[m] \in {"chosen", "limit"} => id[m] \in Elements(Registered)
  /\ at[m] = "run" =>
       \/ /\ via[m] = "command" /\ id[m] \in Elements(Registered)
          /\ plan[m] \in Plans(id[m]) \cup CommandRests
       \/ /\ via[m] = "fallback" /\ id[m] \in Elements(Deterministic) \ Elements(todo[m])
          /\ plan[m] \in FallbackPlans(id[m]) \cup FallbackRests
       \/ via[m] \in {"limited", "apology", "denial"} /\ plan[m] \in LastPlans
  /\ at[m] \in {"new", "chosen", "limit", "chain"} => via[m] \in {"none", "fallback"}
  /\ todo[m] \in Seq(Elements(Deterministic))
  /\ \A i, j \in DOMAIN todo[m] : todo[m][i] = todo[m][j] => i = j

(* The events of a message: how many of a dispatch and of its outcome.      *)
Dispatched(m) == Names(m, {"dispatched"})
Outcomes(m) == Names(m, {"succeeded", "failed", "rate_limited"})
Once(indices) == \E k \in indices : indices = {k}

(* Nothing is counted before the command is dispatched or on the chain, a   *)
(* command has no outcome while it runs, and one when it returned, unless   *)
(* it panicked.                                                             *)
LogOf(m) ==
  \/ /\ at[m] \in {"new", "chosen", "chain", "end"} \/ (at[m] = "run" /\ via[m] \in {"denial", "fallback"})
     /\ Dispatched(m) = {} /\ Outcomes(m) = {}
  \/ /\ at[m] = "limit" \/ (at[m] = "run" /\ via[m] = "command")
     /\ Once(Dispatched(m)) /\ Outcomes(m) = {}
  \/ /\ at[m] = "end" \/ (at[m] = "run" /\ via[m] \in {"limited", "apology"})
     /\ Once(Dispatched(m)) /\ Once(Outcomes(m))
  \/ /\ at[m] \in {"run", "end"} /\ via[m] = "apology" /\ id[m] = "coupang"
     /\ Once(Dispatched(m)) /\ Outcomes(m) = {}

(* No part of a product is left in a plan.                                  *)
PartFree(p) ==
  IsLeaf(p) \/ (p.corr # "coupang" /\ IsLeaf(p.sent) /\ (IsLeaf(p.failed) \/ p.failed = Apology))

VerdictsOf(m) == {v \in verdicts : v.of = m}

(* A product is not begun, its image was tried and its text comes next, or  *)
(* it is done with, and its fallback too.                                   *)
NotBegun(m) == m \notin DOMAIN tracker /\ VerdictsOf(m) = {} /\ ProductParts(m) = {}

Unbegun(m) ==
  \/ via[m] = "command" /\ plan[m] \in Plans(id[m])
  \/ via[m] = "fallback" /\ plan[m] \in FallbackPlans(id[m])

HalfTold(m) ==
  /\ at[m] = "run"
  /\ \/ via[m] = "command" /\ plan[m] = PriceText(2)
     \/ via[m] = "fallback" /\ id[m] = "coupang" /\ plan[m] = TextOrApology("coupang", 2)
  /\ VerdictsOf(m) = {}
  /\ m \in DOMAIN tracker /\ DOMAIN tracker[m].parts = {"image"}
  /\ ProductParts(m) = {[part |-> "image", ok |-> tracker[m].parts["image"]]}

Told(m) ==
  /\ m \notin DOMAIN tracker
  /\ \E v \in verdicts :
       /\ VerdictsOf(m) = {v} /\ ProductParts(m) # {}
       /\ {[part |-> p, ok |-> v.parts[p]] : p \in DOMAIN v.parts} = ProductParts(m)
  /\ at[m] \in {"run", "chain", "end"}
  /\ at[m] = "run" => PartFree(plan[m])
  /\ at[m] = "chain" => "coupang" \notin Elements(todo[m])
  /\ at[m] = "run" /\ via[m] = "fallback" => "coupang" \notin Elements(todo[m])

PartsOf(m) ==
  \/ /\ NotBegun(m)
     /\ at[m] = "run" => PartFree(plan[m]) \/ Unbegun(m)
  \/ HalfTold(m)
  \/ Told(m)

(* The answers of a message none of whose replies failed: none before its   *)
(* plan is through, then one, and at the end none if it was for no command. *)
OneAnswer(m) == got[m] \in {<<"reply">>, <<"job">>, <<"coupang">>, <<"coupang", "coupang">>}

AnswersOf(m) ==
  (\A i \in DOMAIN tried[m] : tried[m][i].ok) =>
    /\ at[m] \in {"new", "chosen", "limit", "chain"} => got[m] = <<>>
    /\ at[m] = "run" /\ via[m] = "command" =>
         \/ got[m] = <<>> /\ plan[m] \in Plans(id[m])
         \/ OneAnswer(m) /\ plan[m] \in {Done("nil"), Done("failed")}
         \/ got[m] = <<"coupang">> /\ plan[m] = PriceText(2)
    /\ at[m] = "run" /\ via[m] = "fallback" =>
         \/ got[m] = <<>> /\ plan[m] \in FallbackPlans(id[m])
         \/ OneAnswer(m) /\ plan[m] \in {Done("handled"), Done("failed")}
         \/ got[m] = <<"coupang">> /\ plan[m] = TextOrApology("coupang", 2)
    /\ at[m] = "run" /\ via[m] \notin {"command", "fallback"} =>
         \/ got[m] = <<>> /\ plan[m] = Text("nil")
         \/ OneAnswer(m) /\ plan[m] = Done("nil")
    /\ at[m] = "end" =>
         \/ got[m] = <<>> /\ ~Addressed(m)
         \/ got[m] = <<>> /\ Addressed(m) /\ id[m] = Stock
         \/ OneAnswer(m) /\ Addressed(m)

IInv ==
  /\ TypeOK /\ HistoryOK
  /\ \A m \in Messages : RouteOf(m) /\ LogOf(m) /\ PartsOf(m) /\ AnswersOf(m)
==============================================================================
