---------------------------- MODULE DispatchProofs ----------------------------
(***************************************************************************)
(* What holds of the dispatch for any messages, whatever they say, whatever *)
(* the ACL denies them and whatever burst the rate limit allows.            *)
(***************************************************************************)
EXTENDS Dispatch, TLAPS, FiniteSetTheorems, WellFoundedInduction

(* The tuples of intents as sets.                                           *)
LEMMA RegisteredIds ==
  Elements(Registered) =
    {"help", "ai", "gold", "finance", "coin", "stock", "index", "chart", "coupang",
     "football", "esports", "baseball", "weather", "trending", "news", "fortune",
     "lotto", "admin", "youtube", "url-summary"}
BY DEF Elements, Registered

(* The fallbacks, in the order they are asked, as a set.                    *)
LEMMA DeterministicIds ==
  Elements(Deterministic) = {"forex-convert", "chart", "coupang", "youtube", "url-summary", "calc"}
BY DEF Elements, Deterministic

(* Leaves and replies are told apart, and keep what they are made of.       *)
LEMMA Leaves ==
  ASSUME NEW r
  PROVE  IsLeaf(Done(r)) /\ Done(r).leaf = r
BY DEF IsLeaf, Done

(* A reply keeps its part, its correlation and how it goes on.              *)
LEMMA Asks ==
  ASSUME NEW part, NEW corr, NEW expected, NEW sent, NEW failed
  PROVE  LET p == Ask(part, corr, expected, sent, failed)
         IN  /\ ~IsLeaf(p)
             /\ p.part = part /\ p.corr = corr /\ p.expected = expected
             /\ p.sent = sent /\ p.failed = failed
BY DEF IsLeaf, Ask

(* The plans of the commands, by what they do.                              *)
LEMMA CommandPlans ==
  ASSUME NEW i \in Elements(Registered), NEW p \in Plans(i)
  PROVE  \/ p \in {Text("nil"), Text("failed"), Image("nil"), Job, Done("error")}
         \/ p \in ThemePlans
         \/ p \in {PriceText(1), PriceText(2), PriceImage, Done("panic")} /\ i = "coupang"
         \/ p = Done("nil") /\ i = Stock
BY RegisteredIds DEF Plans, HelpPlans, AdminPlans, ForexPlans, NewsPlans, TrendingPlans, FortunePlans,
   WeatherPlans, FootballPlans, EsportsPlans, BaseballPlans, GoldPlans, IndexPlans, CoinPlans,
   LottoPlans, QuantityPlans, LookupPlans, StockPlans, RenderPlans, ChartPlans, ProductPlans,
   CoupangPlans, SummaryPlans, Simple, Stock

(* The plans of the fallbacks.                                              *)
LEMMA FallbackKinds ==
  ASSUME NEW i \in Elements(Deterministic), NEW p \in FallbackPlans(i)
  PROVE  \/ p \in {HandledText, Done("nil"), Text("failed"), Image("handled"),
                   TextOrApology("reply", 1)}
         \/ p = Ask("job", "job", 1, Done("handled"), Done("handled"))
         \/ /\ i = "coupang"
            /\ \/ p \in {TextOrApology("coupang", 1), TextOrApology("coupang", 2), Done("panic")}
               \/ p = Ask("image", "coupang", 2, TextOrApology("coupang", 2),
                          TextOrApology("coupang", 2))
BY DeterministicIds DEF FallbackPlans, CalcFallback, ForexConvertFallback, ChartFallback,
   CoupangFallback, YouTubeFallback, URLSummaryFallback

(* What a command may be at: the leaves and the replies of its plans, and   *)
(* how it goes on.                                                          *)
LEMMA CommandNode ==
  ASSUME NEW i \in Elements(Registered), NEW p \in Plans(i) \cup CommandRests
  PROVE  /\ IsLeaf(p) => /\ p = Done(p.leaf) /\ p.leaf \in {"nil", "failed", "error", "panic"}
                         /\ p.leaf = "panic" => i = "coupang"
                         /\ p.leaf = "nil" /\ p \in Plans(i) => i = Stock
                         /\ p.leaf = "failed" => p \notin Plans(i)
         /\ ~IsLeaf(p) => /\ p.part \in {"text", "image", "job"}
                          /\ p.part = "job" <=> p.corr = "job"
                          /\ p.corr \in {"reply", "coupang", "job"}
                          /\ p.sent \in CommandRests /\ p.failed \in CommandRests
                          /\ p.sent \in {Done("nil"), Done("failed"), PriceText(2)}
                          /\ p.sent = PriceText(2) => p.corr = "coupang"
                          /\ p.corr = "coupang" =>
                               p \in {PriceText(1), PriceText(2), PriceImage}
                          /\ p.corr # "coupang" => PartFree(p)
<1> DEFINE theme == Ask("text", "reply", 1, Done("nil"), Done("nil"))
<1>1. \/ p \in {Text("nil"), Text("failed"), Image("nil"), Job, Done("error"), theme}
      \/ p \in {PriceText(1), PriceText(2), PriceImage, Done("panic")} /\ i = "coupang"
      \/ p = Done("nil") /\ i = Stock
      \/ p \in {Done("nil"), Done("failed"), Done("error"), PriceText(2)} /\ p \notin Plans(i)
  BY CommandPlans DEF CommandRests, ThemePlans
<1>2. CASE IsLeaf(p)
  <2>1. p \in {Done("nil"), Done("failed"), Done("error"), Done("panic")}
    BY <1>1, <1>2, Asks DEF Text, Image, Job, PriceText, PriceImage
  <2>2. PICK r \in {"nil", "failed", "error", "panic"} : p = Done(r)
    BY <2>1
  <2>3. p.leaf = r
    BY <2>2, Leaves
  <2>4. \A q \in {"nil", "failed", "error", "panic"} : Done(q) = Done(r) => q = r
    BY Leaves
  <2>5. p \notin {Text("nil"), Text("failed"), Image("nil"), Job, theme, PriceText(1), PriceText(2), PriceImage}
    BY <1>2, Asks DEF Text, Image, Job, PriceText, PriceImage
  <2> QED
    BY <1>1, <1>2, <2>2, <2>3, <2>4, <2>5 DEF Stock
<1>3. CASE ~IsLeaf(p)
  <2>1. p \in {Text("nil"), Text("failed"), Image("nil"), Job, theme, PriceText(1), PriceText(2), PriceImage}
    BY <1>1, <1>3, Leaves
  <2>2. CASE p \in {Text("nil"), Text("failed"), Image("nil"), Job, theme}
    <3>1. p.corr \in {"reply", "job"} /\ p.part \in {"text", "image", "job"} /\ (p.part = "job" <=> p.corr = "job")
      BY <2>2, Asks DEF Text, Image, Job
    <3>2. p.sent \in {Done("nil"), Done("failed")} /\ p.failed \in {Done("nil"), Done("error")}
      BY <2>2, Asks DEF Text, Image, Job
    <3>3. IsLeaf(p.sent) /\ IsLeaf(p.failed) /\ p.sent # PriceText(2)
      BY <3>2, Leaves, Asks DEF PriceText
    <3> QED
      BY <1>3, <3>1, <3>2, <3>3 DEF PartFree, CommandRests
  <2>3. CASE p \in {PriceText(1), PriceText(2), PriceImage}
    <3>1. p.corr = "coupang" /\ p.part \in {"text", "image"}
      BY <2>3, Asks DEF PriceText, PriceImage
    <3>2. p.sent \in {Done("nil"), PriceText(2)} /\ p.failed \in {Done("error"), PriceText(2)}
      BY <2>3, Asks DEF PriceText, PriceImage
    <3> QED
      BY <1>3, <2>3, <3>1, <3>2 DEF CommandRests
  <2> QED
    BY <2>1, <2>2, <2>3
<1> QED
  BY <1>2, <1>3

(* The same of a fallback.                                                  *)
LEMMA FallbackNode ==
  ASSUME NEW i \in Elements(Deterministic), NEW p \in FallbackPlans(i) \cup FallbackRests
  PROVE  /\ IsLeaf(p) => /\ p = Done(p.leaf)
                         /\ p.leaf \in {"nil", "failed", "error", "handled", "panic"}
                         /\ p.leaf \in {"handled", "failed", "error"} => p \notin FallbackPlans(i)
         /\ ~IsLeaf(p) => /\ p.part \in {"text", "image", "job"}
                          /\ p.part = "job" <=> p.corr = "job"
                          /\ p.corr \in {"reply", "coupang", "job"}
                          /\ p.sent \in FallbackRests /\ p.failed \in FallbackRests
                          /\ p \in FallbackPlans(i) \/ p = TextOrApology("coupang", 2) =>
                               p.sent \in {Done("handled"), Done("failed"), TextOrApology("coupang", 2)}
                          /\ p.sent = TextOrApology("coupang", 2) => p.corr = "coupang"
                          /\ p.corr = "coupang" /\ p \in FallbackPlans(i) => i = "coupang"
                          /\ p.corr # "coupang" => PartFree(p)
<1> DEFINE job == Ask("job", "job", 1, Done("handled"), Done("handled"))
           image == Ask("image", "coupang", 2, TextOrApology("coupang", 2), TextOrApology("coupang", 2))
<1>1. \/ p \in {HandledText, Done("nil"), Text("failed"), Image("handled"), TextOrApology("reply", 1), job}
      \/ /\ p \in {TextOrApology("coupang", 1), TextOrApology("coupang", 2), Done("panic"), image}
         /\ i = "coupang"
      \/ p \in FallbackRests /\ p \notin FallbackPlans(i)
  BY FallbackKinds
<1>2. CASE IsLeaf(p)
  <2>1. PICK r \in {"nil", "failed", "error", "handled", "panic"} : p = Done(r)
    BY <1>1, <1>2, Asks DEF HandledText, Text, Image, TextOrApology, Apology, FallbackRests
  <2>2. p.leaf = r
    BY <2>1, Leaves
  <2>3. \A q \in {"nil", "failed", "error", "handled", "panic"} : Done(q) = Done(r) => q = r
    BY Leaves
  <2>4. p \notin {HandledText, Text("failed"), Image("handled"), TextOrApology("reply", 1), job,
                  TextOrApology("coupang", 1), TextOrApology("coupang", 2), image}
    BY <1>2, Asks DEF HandledText, Text, Image, TextOrApology
  <2> QED
    BY <1>1, <1>2, <2>1, <2>2, <2>3, <2>4
<1>3. CASE ~IsLeaf(p)
  <2>1. \/ p \in {HandledText, Text("failed"), Image("handled"), TextOrApology("reply", 1), job}
        \/ p = Apology /\ p \notin FallbackPlans(i)
        \/ p \in {TextOrApology("coupang", 1), TextOrApology("coupang", 2), image}
            /\ (p \in FallbackPlans(i) => i = "coupang")
    BY <1>1, <1>3, Leaves DEF FallbackRests
  <2>2. CASE p \in {HandledText, Text("failed"), Image("handled"), TextOrApology("reply", 1), job}
    <3>1. p.corr \in {"reply", "job"} /\ p.part \in {"text", "image", "job"} /\ (p.part = "job" <=> p.corr = "job")
      BY <2>2, Asks DEF HandledText, Text, Image, TextOrApology
    <3>2. /\ p.sent \in {Done("handled"), Done("failed")}
          /\ p.failed \in {Done("error"), Done("handled"), Apology}
      BY <2>2, Asks DEF HandledText, Text, Image, TextOrApology
    <3>3. IsLeaf(p.sent) /\ (IsLeaf(p.failed) \/ p.failed = Apology)
      BY <3>2, Leaves
    <3>4. p.sent # TextOrApology("coupang", 2)
      BY <3>3, Asks DEF TextOrApology
    <3> QED
      BY <1>3, <3>1, <3>2, <3>3, <3>4 DEF PartFree, FallbackRests
  <2>3. CASE p = Apology /\ p \notin FallbackPlans(i)
    <3>1. /\ p.corr = "reply" /\ p.part = "text" /\ p.sent = Done("nil") /\ p.failed = Done("error")
      BY <2>3, Asks DEF Apology
    <3>2. p # TextOrApology("coupang", 2)
      BY <3>1, Asks DEF TextOrApology
    <3>3. p.sent # TextOrApology("coupang", 2) /\ IsLeaf(p.sent) /\ IsLeaf(p.failed)
      BY <3>1, Asks, Leaves DEF TextOrApology
    <3> QED
      BY <1>3, <2>3, <3>1, <3>2, <3>3 DEF PartFree, FallbackRests
  <2>4. CASE p \in {TextOrApology("coupang", 1), TextOrApology("coupang", 2), image}
            /\ (p \in FallbackPlans(i) => i = "coupang")
    <3>1. p.corr = "coupang" /\ p.part \in {"text", "image"}
      BY <2>4, Asks DEF TextOrApology
    <3>2. /\ p.sent \in {Done("handled"), TextOrApology("coupang", 2)}
          /\ p.failed \in {Apology, TextOrApology("coupang", 2)}
      BY <2>4, Asks DEF TextOrApology
    <3> QED
      BY <1>3, <2>4, <3>1, <3>2 DEF FallbackRests
  <2> QED
    BY <2>1, <2>2, <2>3, <2>4
<1> QED
  BY <1>2, <1>3

(* The last reply of a message: a limit, a denial or an apology.            *)
LEMMA LastNode ==
  ASSUME NEW p \in LastPlans
  PROVE  /\ IsLeaf(p) => p = Done(p.leaf) /\ p.leaf \in {"nil", "error"}
         /\ ~IsLeaf(p) => /\ p = Text("nil") /\ p.part = "text" /\ p.corr = "reply"
                          /\ p.sent = Done("nil") /\ p.failed = Done("error")
         /\ PartFree(p)
<1>1. /\ Text("nil").part = "text" /\ Text("nil").corr = "reply" /\ ~IsLeaf(Text("nil"))
      /\ Text("nil").sent = Done("nil") /\ Text("nil").failed = Done("error")
  BY Asks DEF Text
<1> QED
  BY <1>1, Leaves DEF LastPlans, PartFree

(* The indices of a sequence of events.                                     *)
LEMMA Indices ==
  ASSUME NEW s \in Seq(Events)
  PROVE  DOMAIN s = 1 .. Len(s) /\ Len(s) \in Nat
OBVIOUS

(* What is recorded of a message: where the events are, and of whom.        *)
LEMMA RecordedAt ==
  ASSUME HistoryOK, NEW m \in Messages, NEW names \in Seq(Events), NEW c \in Commands,
         log' = Recorded(m, names, c)
  PROVE  /\ log' \in [Messages -> Seq(Events \X Commands)]
         /\ \A n \in Messages \ {m} : log'[n] = log[n]
         /\ \A S : Names(m, S)' =
              Names(m, S) \cup {Len(log[m]) + i : i \in {i \in DOMAIN names : names[i] \in S}}
<1> DEFINE new == [i \in DOMAIN names |-> <<names[i], c>>]
<1>1. /\ log[m] \in Seq(Events \X Commands) /\ new \in Seq(Events \X Commands)
      /\ DOMAIN names = 1 .. Len(names) /\ Len(names) \in Nat /\ Len(log[m]) \in Nat
      /\ Len(new) = Len(names)
  <2>1. log[m] \in Seq(Events \X Commands)
    BY DEF HistoryOK
  <2>2. DOMAIN names = 1 .. Len(names) /\ Len(names) \in Nat /\ Len(log[m]) \in Nat
    BY <2>1
  <2>3. new = [i \in 1 .. Len(names) |-> <<names[i], c>>]
    BY <2>2
  <2>4. \A i \in 1 .. Len(names) : <<names[i], c>> \in Events \X Commands
    OBVIOUS
  <2>5. new \in Seq(Events \X Commands) /\ Len(new) = Len(names)
    BY <2>2, <2>3, <2>4
  <2> QED
    BY <2>1, <2>2, <2>5
<1>2. log' = [log EXCEPT ![m] = log[m] \o new]
  BY DEF Recorded
<1>3. log'[m] = log[m] \o new /\ \A n \in Messages \ {m} : log'[n] = log[n]
  BY <1>2 DEF HistoryOK
<1>4. log' \in [Messages -> Seq(Events \X Commands)]
  <2> HIDE DEF new
  <2>1. log[m] \o new \in Seq(Events \X Commands)
    BY <1>1
  <2> QED
    BY <1>2, <2>1 DEF HistoryOK
<1>5. ASSUME NEW S
      PROVE  Names(m, S)' =
               Names(m, S) \cup {Len(log[m]) + i : i \in {i \in DOMAIN names : names[i] \in S}}
  <2>1. DOMAIN log[m] = 1 .. Len(log[m]) /\ DOMAIN (log[m] \o new) = 1 .. Len(log[m]) + Len(names)
    BY <1>1
  <2>2. \A i \in 1 .. Len(log[m]) : (log[m] \o new)[i] = log[m][i]
    BY <1>1
  <2>3. \A i \in 1 .. Len(names) : (log[m] \o new)[Len(log[m]) + i] = <<names[i], c>>
    BY <1>1
  <2>4. \A i \in 1 .. Len(names) : (log[m] \o new)[Len(log[m]) + i][1] = names[i]
    BY <2>3
  <2>5. \A k : k \in 1 .. Len(log[m]) + Len(names) =>
          k \in 1 .. Len(log[m]) \/ \E i \in 1 .. Len(names) : k = Len(log[m]) + i
    <3>1. SUFFICES ASSUME NEW k \in 1 .. Len(log[m]) + Len(names), k \notin 1 .. Len(log[m])
                   PROVE  \E i \in 1 .. Len(names) : k = Len(log[m]) + i
      OBVIOUS
    <3>2. k - Len(log[m]) \in 1 .. Len(names) /\ k = Len(log[m]) + (k - Len(log[m]))
      BY <1>1, <3>1
    <3> QED
      BY <3>2
  <2>6. \A i \in 1 .. Len(names) : Len(log[m]) + i \in 1 .. Len(log[m]) + Len(names)
    BY <1>1
  <2>7. 1 .. Len(log[m]) \subseteq 1 .. Len(log[m]) + Len(names)
    BY <1>1
  <2>8. Names(m, S)' = {i \in DOMAIN (log[m] \o new) : (log[m] \o new)[i][1] \in S}
    BY <1>3 DEF Names
  <2> HIDE DEF new
  <2>9. \A k : k \in Names(m, S)' <=>
          \/ k \in 1 .. Len(log[m]) /\ log[m][k][1] \in S
          \/ \E i \in 1 .. Len(names) : k = Len(log[m]) + i /\ names[i] \in S
    BY <2>1, <2>2, <2>4, <2>5, <2>6, <2>7, <2>8
  <2> QED
    BY <1>1, <2>1, <2>9 DEF Names
<1> QED
  BY <1>3, <1>4, <1>5

Counted == {"dispatched", "succeeded", "failed", "rate_limited"}

(* Events that are neither a dispatch nor an outcome change no count.       *)
LEMMA Uncounted ==
  ASSUME HistoryOK, NEW m \in Messages, NEW names \in Seq(Events), NEW c \in Commands,
         log' = Recorded(m, names, c), \A i \in DOMAIN names : names[i] \notin Counted
  PROVE  Dispatched(m)' = Dispatched(m) /\ Outcomes(m)' = Outcomes(m)
<1>1. \A S : Names(m, S)' =
        Names(m, S) \cup {Len(log[m]) + i : i \in {i \in DOMAIN names : names[i] \in S}}
  BY RecordedAt
<1>2. {i \in DOMAIN names : names[i] \in {"dispatched"}} = {}
      /\ {i \in DOMAIN names : names[i] \in {"succeeded", "failed", "rate_limited"}} = {}
  BY DEF Counted
<1>3. Names(m, {"dispatched"})' = Names(m, {"dispatched"}) \cup {Len(log[m]) + i : i \in {}}
  BY <1>1, <1>2
<1>4. Names(m, {"succeeded", "failed", "rate_limited"})' =
        Names(m, {"succeeded", "failed", "rate_limited"}) \cup {Len(log[m]) + i : i \in {}}
  BY <1>1, <1>2
<1> QED
  BY <1>3, <1>4 DEF Dispatched, Outcomes

(* A first event, and others that do not count.                             *)
LEMMA FirstCounted ==
  ASSUME HistoryOK, NEW m \in Messages, NEW names \in Seq(Events), NEW c \in Commands,
         log' = Recorded(m, names, c), Len(names) > 0,
         \A i \in DOMAIN names : i # 1 => names[i] \notin Counted
  PROVE  /\ names[1] = "dispatched" /\ Dispatched(m) = {} =>
              Once(Dispatched(m))' /\ Outcomes(m)' = Outcomes(m)
         /\ names[1] \in {"succeeded", "failed", "rate_limited"} /\ Outcomes(m) = {} =>
              Once(Outcomes(m))' /\ Dispatched(m)' = Dispatched(m)
<1>1. \A S : Names(m, S)' =
        Names(m, S) \cup {Len(log[m]) + i : i \in {i \in DOMAIN names : names[i] \in S}}
  BY RecordedAt
<1>2. 1 \in DOMAIN names
  BY Indices
<1>3. ASSUME names[1] = "dispatched", Dispatched(m) = {}
      PROVE  Once(Dispatched(m))' /\ Outcomes(m)' = Outcomes(m)
  <2>1. {i \in DOMAIN names : names[i] \in {"dispatched"}} = {1}
        /\ {i \in DOMAIN names : names[i] \in {"succeeded", "failed", "rate_limited"}} = {}
    BY <1>2, <1>3 DEF Counted
  <2>2. Names(m, {"dispatched"})' = {} \cup {Len(log[m]) + i : i \in {1}}
    BY <1>1, <1>3, <2>1 DEF Dispatched
  <2>3. Names(m, {"succeeded", "failed", "rate_limited"})' =
          Names(m, {"succeeded", "failed", "rate_limited"}) \cup {Len(log[m]) + i : i \in {}}
    BY <1>1, <2>1
  <2>4. Dispatched(m)' = {Len(log[m]) + 1}
    BY <2>2 DEF Dispatched
  <2> QED
    BY <2>3, <2>4 DEF Outcomes, Once
<1>4. ASSUME names[1] \in {"succeeded", "failed", "rate_limited"}, Outcomes(m) = {}
      PROVE  Once(Outcomes(m))' /\ Dispatched(m)' = Dispatched(m)
  <2>1. {i \in DOMAIN names : names[i] \in {"succeeded", "failed", "rate_limited"}} = {1}
        /\ {i \in DOMAIN names : names[i] \in {"dispatched"}} = {}
    BY <1>2, <1>4 DEF Counted
  <2>2. Names(m, {"succeeded", "failed", "rate_limited"})' = {} \cup {Len(log[m]) + i : i \in {1}}
    BY <1>1, <1>4, <2>1 DEF Outcomes
  <2>3. Names(m, {"dispatched"})' = Names(m, {"dispatched"}) \cup {Len(log[m]) + i : i \in {}}
    BY <1>1, <2>1
  <2>4. Outcomes(m)' = {Len(log[m]) + 1}
    BY <2>2 DEF Outcomes
  <2> QED
    BY <2>3, <2>4 DEF Dispatched, Once
<1> QED
  BY <1>3, <1>4

(* A fallback is recorded as dispatched and with its outcome at once.       *)
LEMMA BothCounted ==
  ASSUME HistoryOK, NEW m \in Messages, NEW o \in {"succeeded", "failed"}, NEW c \in Commands,
         log' = Recorded(m, <<"dispatched", o>>, c), Dispatched(m) = {}, Outcomes(m) = {}
  PROVE  Once(Dispatched(m))' /\ Once(Outcomes(m))'
<1> DEFINE names == <<"dispatched", o>>
<1>1. names \in Seq(Events) /\ DOMAIN names = {1, 2}
  <2>1. names \in Seq(Events)
    <3>1. "dispatched" \in Events /\ o \in Events
      BY DEF Events
    <3> QED
      BY <3>1
  <2>2. DOMAIN names = 1 .. 2 /\ 1 .. 2 = {1, 2}
    OBVIOUS
  <2> QED
    BY <2>1, <2>2
<1>2. \A S : Names(m, S)' =
        Names(m, S) \cup {Len(log[m]) + i : i \in {i \in DOMAIN names : names[i] \in S}}
  BY <1>1, RecordedAt
<1>3. {i \in DOMAIN names : names[i] \in {"dispatched"}} = {1}
      /\ {i \in DOMAIN names : names[i] \in {"succeeded", "failed", "rate_limited"}} = {2}
  BY <1>1
<1>4. Names(m, {"dispatched"})' = {} \cup {Len(log[m]) + i : i \in {1}}
  BY <1>2, <1>3 DEF Dispatched
<1>5. Names(m, {"succeeded", "failed", "rate_limited"})' = {} \cup {Len(log[m]) + i : i \in {2}}
  BY <1>2, <1>3 DEF Outcomes
<1>6. Dispatched(m)' = {Len(log[m]) + 1} /\ Outcomes(m)' = {Len(log[m]) + 2}
  BY <1>4, <1>5 DEF Dispatched, Outcomes
<1> QED
  BY <1>6 DEF Once

(* The events of a step are of its message and known.                       *)
LEMMA EventSequences ==
  /\ <<"received">> \o <<"unmatched">> \in Seq(Events) /\ <<"received">> \o <<>> \in Seq(Events)
  /\ <<Denial>> \in Seq(Events) /\ <<"dispatched", "activation">> \in Seq(Events)
  /\ <<"rate_limited">> \in Seq(Events) /\ \A r : Outcome(r) \in Seq(Events)
  /\ <<"dispatched", "succeeded">> \in Seq(Events) /\ <<"dispatched", "failed">> \in Seq(Events)
  /\ <<"unmatched">> \in Seq(Events) /\ <<"policy_skip">> \in Seq(Events)
<1>1. /\ "received" \in Events /\ "unmatched" \in Events /\ Denial \in Events /\ "dispatched" \in Events
      /\ "activation" \in Events /\ "rate_limited" \in Events /\ "succeeded" \in Events
      /\ "engagement" \in Events /\ "conversion" \in Events /\ "failed" \in Events
      /\ "churn" \in Events /\ "policy_skip" \in Events
  BY DEF Events
<1>2. /\ <<"received">> \in Seq(Events) /\ <<"unmatched">> \in Seq(Events) /\ <<>> \in Seq(Events)
      /\ <<Denial>> \in Seq(Events) /\ <<"dispatched", "activation">> \in Seq(Events)
      /\ <<"rate_limited">> \in Seq(Events) /\ <<"policy_skip">> \in Seq(Events)
      /\ <<"dispatched", "succeeded">> \in Seq(Events) /\ <<"dispatched", "failed">> \in Seq(Events)
  BY <1>1
<1>3. \A r : Outcome(r) \in Seq(Events)
  BY <1>1 DEF Outcome
<1>4. <<"received">> \o <<"unmatched">> \in Seq(Events) /\ <<"received">> \o <<>> \in Seq(Events)
  BY <1>2
<1> QED
  BY <1>2, <1>3, <1>4

(* A step records known events of its message, or none.                     *)
LEMMA StepRecords ==
  ASSUME TypeOK, NEW m \in Messages, RouteOf(m), Step(m)
  PROVE  log' = log \/ \E names \in Seq(Events), c \in Commands : log' = Recorded(m, names, c)
<1>1. id[m] \in Commands /\ "none" \in Commands
  BY DEF TypeOK, Commands
<1>2. CASE Receive(m)
  <2>1. PICK c : log' = Recorded(m, <<"received">> \o IF Ignored(c) THEN <<"unmatched">> ELSE <<>>, "none")
    BY <1>2 DEF Receive
  <2>2. CASE Ignored(c)
    BY <1>1, <2>1, <2>2, EventSequences
  <2>3. CASE ~Ignored(c)
    BY <1>1, <2>1, <2>3, EventSequences
  <2> QED
    BY <2>2, <2>3
<1>3. CASE DispatchDenied(m) \/ DispatchHandler(m) \/ RateLimit(m)
  BY <1>1, <1>3, EventSequences DEF DispatchDenied, DispatchHandler, RateLimit
<1>4. CASE CommandReturns(m)
  BY <1>1, <1>4, EventSequences DEF CommandReturns
<1>5. CASE FallbackDenied(m)
  <2>1. Head(todo[m]) \in Commands
    <3>1. todo[m] \in Seq(Elements(Deterministic)) /\ todo[m] # <<>>
      BY <1>5 DEF FallbackDenied, RouteOf
    <3>2. Head(todo[m]) \in Elements(Deterministic)
      BY <3>1
    <3> QED
      BY <3>2 DEF Commands, Intents
  <2> QED
    BY <1>5, <2>1, EventSequences DEF FallbackDenied
<1>6. CASE FallbackReturns(m)
  BY <1>1, <1>6, EventSequences DEF FallbackReturns
<1>7. CASE ChainEnds(m)
  BY <1>1, <1>7, EventSequences DEF ChainEnds
<1>8. CASE Admit(m) \/ Reply(m) \/ Submit(m) \/ LimitedReturns(m) \/ LastReplyReturns(m)
           \/ FallbackPasses(m) \/ FallbackRuns(m) \/ FallbackPanics(m)
  BY <1>8 DEF Admit, Reply, Submit, LimitedReturns, LastReplyReturns, FallbackPasses, FallbackRuns,
     FallbackPanics
<1> QED
  BY <1>2, <1>3, <1>4, <1>5, <1>6, <1>7, <1>8 DEF Step

(* A part is observed for its message alone.                                *)
LEMMA ObservedElsewhere ==
  ASSUME HistoryOK, NEW m \in Messages, NEW p, NEW ok, Observe(m, p, ok)
  PROVE  /\ DOMAIN tracker' \subseteq DOMAIN tracker \cup {m}
         /\ tracker' = [n \in DOMAIN tracker' |-> tracker'[n]]
         /\ \A n \in Messages \ {m} :
              /\ n \in DOMAIN tracker' <=> n \in DOMAIN tracker
              /\ n \in DOMAIN tracker => tracker'[n] = tracker[n]
              /\ VerdictsOf(n)' = VerdictsOf(n)
<1> DEFINE parts == [q \in DOMAIN Parts(m) \cup {p.part} |-> IF q = p.part THEN ok ELSE Parts(m)[q]]
<1>1. \/ tracker' = [n \in DOMAIN tracker \ {m} |-> tracker[n]]
           /\ verdicts' = verdicts \cup {[of |-> m, parts |-> parts]}
      \/ tracker' = [n \in DOMAIN tracker \cup {m} |->
               IF n = m THEN [parts |-> parts, expected |-> Expected(m, p)] ELSE tracker[n]]
           /\ verdicts' = verdicts
  BY DEF Observe
<1> HIDE DEF parts
<1>2. CASE tracker' = [n \in DOMAIN tracker \ {m} |-> tracker[n]]
             /\ verdicts' = verdicts \cup {[of |-> m, parts |-> parts]}
  <2>1. \A n \in Messages \ {m} : VerdictsOf(n)' = VerdictsOf(n)
    BY <1>2 DEF VerdictsOf
  <2> QED
    BY <1>2, <2>1
<1>3. CASE tracker' = [n \in DOMAIN tracker \cup {m} |->
               IF n = m THEN [parts |-> parts, expected |-> Expected(m, p)] ELSE tracker[n]]
             /\ verdicts' = verdicts
  BY <1>3 DEF VerdictsOf
<1> QED
  BY <1>1, <1>2, <1>3

(* A step of a message leaves every other one as it is.                     *)
Elsewhere(n) ==
  /\ at'[n] = at[n] /\ id'[n] = id[n] /\ via'[n] = via[n] /\ plan'[n] = plan[n]
  /\ todo'[n] = todo[n] /\ log'[n] = log[n] /\ got'[n] = got[n] /\ tried'[n] = tried[n]
  /\ n \in DOMAIN tracker' <=> n \in DOMAIN tracker
  /\ n \in DOMAIN tracker => tracker'[n] = tracker[n]
  /\ VerdictsOf(n)' = VerdictsOf(n)

(* That holds of every step.                                                *)
LEMMA StepElsewhere ==
  ASSUME TypeOK, HistoryOK, NEW m \in Messages, RouteOf(m), Step(m), NEW n \in Messages \ {m}
  PROVE  Elsewhere(n)
<1>1. log'[n] = log[n]
  BY StepRecords, RecordedAt
<1>2. at'[n] = at[n] /\ id'[n] = id[n] /\ via'[n] = via[n] /\ plan'[n] = plan[n] /\ todo'[n] = todo[n]
  <2>1. CASE Receive(m)
    BY <2>1 DEF Receive, TypeOK, HistoryOK
  <2>2. CASE DispatchDenied(m) \/ DispatchHandler(m) \/ Admit(m) \/ RateLimit(m)
    BY <2>2 DEF DispatchDenied, DispatchHandler, Admit, RateLimit, Call, routing, TypeOK, HistoryOK
  <2>3. CASE Reply(m) \/ Submit(m)
    BY <2>3 DEF Reply, Submit, routing, TypeOK, HistoryOK
  <2>4. CASE CommandReturns(m) \/ LimitedReturns(m) \/ LastReplyReturns(m)
    BY <2>4 DEF CommandReturns, LimitedReturns, LastReplyReturns, HandleError, Call, End, routing,
       TypeOK, HistoryOK
  <2>5. CASE FallbackDenied(m) \/ FallbackPasses(m) \/ FallbackRuns(m)
    BY <2>5 DEF FallbackDenied, FallbackPasses, FallbackRuns, Call, TypeOK, HistoryOK
  <2>6. CASE FallbackReturns(m) \/ FallbackPanics(m) \/ ChainEnds(m)
    BY <2>6 DEF FallbackReturns, FallbackPanics, ChainEnds, End, routing, TypeOK, HistoryOK
  <2> QED
    BY <2>1, <2>2, <2>3, <2>4, <2>5, <2>6 DEF Step
<1>3. got'[n] = got[n] /\ tried'[n] = tried[n]
  BY DEF Step, HistoryOK, Receive, DispatchDenied, DispatchHandler, Admit, RateLimit, Reply, Submit,
     CommandReturns, LimitedReturns, LastReplyReturns, FallbackDenied, FallbackPasses, FallbackRuns,
     FallbackReturns, FallbackPanics, ChainEnds
<1>4. \/ tracker' = tracker /\ verdicts' = verdicts
      \/ \E p, ok : Observe(m, p, ok)
  BY DEF Step, Receive, DispatchDenied, DispatchHandler, Admit, RateLimit, Reply, Submit,
     CommandReturns, LimitedReturns, LastReplyReturns, FallbackDenied, FallbackPasses, FallbackRuns,
     FallbackReturns, FallbackPanics, ChainEnds
<1>5. /\ n \in DOMAIN tracker' <=> n \in DOMAIN tracker
      /\ n \in DOMAIN tracker => tracker'[n] = tracker[n]
      /\ VerdictsOf(n)' = VerdictsOf(n)
  <2>1. CASE tracker' = tracker /\ verdicts' = verdicts
    BY <2>1 DEF VerdictsOf
  <2>2. CASE \E p, ok : Observe(m, p, ok)
    BY <2>2, ObservedElsewhere
  <2> QED
    BY <1>4, <2>1, <2>2
<1> QED
  BY <1>1, <1>2, <1>3, <1>5 DEF Elsewhere

(* What holds of a message holds of it after a step of another one.         *)
LEMMA KeptElsewhere ==
  ASSUME HistoryOK, NEW n \in Messages, Elsewhere(n),
         RouteOf(n), LogOf(n), PartsOf(n), AnswersOf(n)
  PROVE  (RouteOf(n) /\ LogOf(n) /\ PartsOf(n) /\ AnswersOf(n))'
<1>1. RouteOf(n)'
  BY DEF Elsewhere, RouteOf
<1>2. \A S : Names(n, S)' = Names(n, S)
  BY DEF Elsewhere, Names
<1>3. Dispatched(n)' = Dispatched(n) /\ Outcomes(n)' = Outcomes(n) /\ (Addressed(n)' <=> Addressed(n))
  BY <1>2 DEF Dispatched, Outcomes, Addressed, Elsewhere
<1>4. LogOf(n)'
  BY <1>3 DEF LogOf, Elsewhere
<1>5. ProductParts(n)' = ProductParts(n)
  BY DEF ProductParts, Elsewhere
<1>6. PartsOf(n)'
  <2>1. CASE NotBegun(n) /\ (at[n] = "run" => PartFree(plan[n]) \/ Unbegun(n))
    <3>1. NotBegun(n)'
      BY <1>5, <2>1 DEF NotBegun, Elsewhere
    <3>2. (at[n] = "run" => PartFree(plan[n]) \/ Unbegun(n))'
      BY <2>1 DEF Elsewhere, Unbegun
    <3> QED
      BY <3>1, <3>2 DEF PartsOf
  <2>2. CASE HalfTold(n)
    <3>1. HalfTold(n)'
      BY <1>5, <2>2 DEF HalfTold, Elsewhere
    <3> QED
      BY <3>1 DEF PartsOf
  <2>3. CASE Told(n)
    <3>1. PICK v \in verdicts :
            /\ VerdictsOf(n) = {v} /\ ProductParts(n) # {}
            /\ {[part |-> p, ok |-> v.parts[p]] : p \in DOMAIN v.parts} = ProductParts(n)
      BY <2>3 DEF Told
    <3>2. v \in verdicts'
      BY <3>1 DEF Elsewhere, VerdictsOf
    <3>3. Told(n)'
      BY <1>5, <2>3, <3>1, <3>2 DEF Told, Elsewhere
    <3> QED
      BY <3>3 DEF PartsOf
  <2> QED
    BY <2>1, <2>2, <2>3 DEF PartsOf
<1>7. AnswersOf(n)'
  BY <1>3 DEF AnswersOf, OneAnswer, Elsewhere
<1> QED
  BY <1>1, <1>4, <1>6, <1>7

(* The command selected for a message is one that is registered.            *)
LEMMA FirstRegistered ==
  ASSUME NEW ids \in SUBSET Elements(Registered), ids # {}
  PROVE  FirstOf(ids) \in Elements(Registered)
<1> DEFINE found == {i \in DOMAIN Registered : Registered[i] \in ids}
<1>1. DOMAIN Registered = 1 .. 20
  BY DEF Registered
<1>2. found \in SUBSET Nat /\ found # {}
  BY <1>1 DEF Elements
<1>3. PICK k \in found : \A i \in found : k <= i
  <2>1. PICK k \in found : \A i \in found : <<i, k>> \notin OpToRel(<, Nat)
    BY <1>2, WFMin, NatLessThanWellFounded
  <2>2. \A i \in found : ~(i < k) /\ i \in Nat
    BY <1>2, <2>1 DEF OpToRel
  <2> QED
    BY <1>2, <2>2
<1>4. k \in DOMAIN Registered /\ Registered[k] \in ids /\ \A j \in 1 .. k - 1 : Registered[j] \notin ids
  BY <1>1, <1>3
<1>5. LET i == CHOOSE i \in DOMAIN Registered :
                 Registered[i] \in ids /\ \A j \in 1 .. i - 1 : Registered[j] \notin ids
      IN  i \in DOMAIN Registered
  BY <1>4
<1> QED
  BY <1>5 DEF FirstOf, Elements

(* Whatever selects the command, explicit, theme or bare query.             *)
LEMMA SelectedRegistered ==
  ASSUME NEW c \in MatchSet
  PROVE  Selected(c) \in Elements(Registered) \cup {"none"}
<1>1. c.bare \in SUBSET Elements(Registered) /\ Stock \in Elements(Registered)
  BY RegisteredIds DEF MatchSet, Stock
<1> QED
  BY <1>1, FirstRegistered DEF Selected, Explicit

(* The fallbacks a message has to ask, and what is left of them.            *)
LEMMA AllFallbacks ==
  /\ Deterministic \in Seq(Elements(Deterministic))
  /\ \A i, j \in DOMAIN Deterministic : Deterministic[i] = Deterministic[j] => i = j
<1>1. DOMAIN Deterministic = 1 .. 6
  BY DEF Deterministic
<1>2. \A i, j \in 1 .. 6 : Deterministic[i] = Deterministic[j] => i = j
  BY DEF Deterministic
<1>3. Deterministic \in Seq(Elements(Deterministic))
  BY DeterministicIds DEF Deterministic
<1> QED
  BY <1>1, <1>2, <1>3

(* The head of the rest is a fallback that is not asked again.              *)
LEMMA OneAsked ==
  ASSUME NEW s \in Seq(Elements(Deterministic)), s # <<>>,
         \A i, j \in DOMAIN s : s[i] = s[j] => i = j
  PROVE  /\ Head(s) \in Elements(Deterministic) \ Elements(Tail(s))
         /\ Tail(s) \in Seq(Elements(Deterministic))
         /\ \A i, j \in DOMAIN Tail(s) : Tail(s)[i] = Tail(s)[j] => i = j
         /\ Elements(Tail(s)) \subseteq Elements(s)
<1> DEFINE D == Elements(Deterministic)
<1> HIDE DEF D
<1>1. s \in Seq(D)
  BY DEF D
<1>2. /\ Len(s) \in Nat /\ Len(s) > 0 /\ DOMAIN s = 1 .. Len(s) /\ Head(s) = s[1] /\ Head(s) \in D
      /\ Tail(s) \in Seq(D) /\ Len(Tail(s)) = Len(s) - 1 /\ DOMAIN Tail(s) = 1 .. Len(s) - 1
  BY <1>1
<1>3. \A i \in 1 .. Len(s) - 1 : Tail(s)[i] = s[i + 1] /\ i + 1 \in DOMAIN s
  BY <1>1, <1>2
<1>4. \A i, j \in DOMAIN Tail(s) : Tail(s)[i] = Tail(s)[j] => i = j
  <2>1. ASSUME NEW i \in DOMAIN Tail(s), NEW j \in DOMAIN Tail(s), Tail(s)[i] = Tail(s)[j]
        PROVE  i = j
    <3>1. i + 1 \in DOMAIN s /\ j + 1 \in DOMAIN s /\ s[i + 1] = s[j + 1] /\ i \in Nat /\ j \in Nat
      BY <1>2, <1>3, <2>1
    <3>2. i + 1 = j + 1
      BY <3>1
    <3> QED
      BY <3>1, <3>2
  <2> QED
    BY <2>1
<1>5. Elements(Tail(s)) \subseteq Elements(s)
  BY <1>2, <1>3 DEF Elements
<1>6. Head(s) \notin Elements(Tail(s))
  <2>1. SUFFICES ASSUME NEW i \in 1 .. Len(s) - 1, Tail(s)[i] = s[1] PROVE FALSE
    BY <1>2 DEF Elements
  <2>2. s[i + 1] = s[1] /\ i + 1 \in DOMAIN s /\ 1 \in DOMAIN s /\ i \in Nat /\ i # 0
    BY <1>2, <1>3, <2>1
  <2>3. i + 1 = 1
    BY <2>2
  <2> QED
    BY <2>2, <2>3
<1> QED
  BY <1>2, <1>4, <1>5, <1>6 DEF D

(* A call of a handler or of a last reply, and the end of a dispatch.       *)
LEMMA CallAt ==
  ASSUME TypeOK, HistoryOK, NEW m \in Messages, NEW by, NEW p, Call(m, by, p)
  PROVE  at'[m] = "run" /\ via'[m] = by /\ plan'[m] = p
BY DEF TypeOK, HistoryOK, Call

(* The end leaves the plan and its caller as they are.                      *)
LEMMA EndAt ==
  ASSUME TypeOK, NEW m \in Messages, End(m)
  PROVE  at'[m] = "end" /\ via'[m] = via[m] /\ plan'[m] = plan[m]
BY DEF TypeOK, End

(* errorMiddleware: the end, or an apology that is still to be sent.        *)
LEMMA HandledAt ==
  ASSUME TypeOK, HistoryOK, NEW m \in Messages, NEW r, HandleError(m, r)
  PROVE  \/ /\ r = "nil" \/ r = "failed"
            /\ at'[m] = "end" /\ via'[m] = via[m] /\ plan'[m] = plan[m]
         \/ /\ r # "nil" /\ r # "failed"
            /\ at'[m] = "run" /\ via'[m] = "apology" /\ plan'[m] = Text("nil")
BY CallAt, EndAt DEF HandleError, HandledAlready

(* A step keeps its message on the routes of its command or fallback.       *)
LEMMA StepRoute ==
  ASSUME TypeOK, HistoryOK, NEW m \in Messages, RouteOf(m), Step(m)
  PROVE  RouteOf(m)'
<1> USE DEF HistoryOK
<1>0. /\ at[m] \in {"new", "chosen", "limit", "run", "chain", "end"}
      /\ todo[m] \in Seq(Elements(Deterministic))
      /\ \A i, j \in DOMAIN todo[m] : todo[m][i] = todo[m][j] => i = j
  BY DEF TypeOK, RouteOf
<1>1. CASE Receive(m)
  <2>1. PICK c \in Matches[m] :
          /\ id'[m] = (IF Ignored(c) THEN "none" ELSE Selected(c))
          /\ at'[m] = (IF Ignored(c) THEN "end" ELSE IF Selected(c) # "none" THEN "chosen" ELSE "chain")
          /\ todo'[m] = Deterministic /\ via'[m] = via[m] /\ plan'[m] = plan[m]
    BY <1>1 DEF Receive, TypeOK
  <2>2. Selected(c) \in Elements(Registered) \cup {"none"}
    BY SelectedRegistered, DispatchAssumption
  <2>3. via[m] \in {"none", "fallback"}
    BY <1>1 DEF Receive, RouteOf
  <2> QED
    BY <2>1, <2>2, <2>3, AllFallbacks DEF RouteOf
<1>2. CASE DispatchDenied(m) \/ RateLimit(m)
  <2>1. todo'[m] = todo[m] /\ at'[m] = "run" /\ via'[m] \in {"denial", "limited"} /\ plan'[m] = Text("nil")
    BY <1>2, CallAt DEF DispatchDenied, RateLimit, routing
  <2> QED
    BY <1>0, <2>1 DEF RouteOf, LastPlans
<1>3. CASE DispatchHandler(m)
  <2>1. todo'[m] = todo[m] /\ at'[m] = "limit" /\ via'[m] = via[m] /\ id'[m] = id[m] /\ at[m] = "chosen"
    BY <1>3 DEF DispatchHandler, routing, TypeOK
  <2> QED
    BY <1>0, <2>1 DEF RouteOf
<1>4. CASE Admit(m)
  <2>1. PICK p \in Plans(id[m]) :
          /\ todo'[m] = todo[m] /\ at'[m] = "run" /\ via'[m] = "command" /\ plan'[m] = p
          /\ id'[m] = id[m] /\ at[m] = "limit"
    BY <1>4, CallAt DEF Admit, routing
  <2> QED
    BY <1>0, <2>1 DEF RouteOf
<1>5. CASE Reply(m) \/ Submit(m)
  <2>1. /\ todo'[m] = todo[m] /\ at'[m] = at[m] /\ via'[m] = via[m] /\ id'[m] = id[m]
        /\ at[m] = "run" /\ ~IsLeaf(plan[m]) /\ plan'[m] \in {plan[m].sent, plan[m].failed}
    BY <1>5 DEF Reply, Submit, routing
  <2>2. CASE via[m] = "command"
    <3>1. id[m] \in Elements(Registered) /\ plan[m] \in Plans(id[m]) \cup CommandRests
      BY <2>1, <2>2 DEF RouteOf
    <3>2. plan'[m] \in CommandRests
      BY <2>1, <3>1, CommandNode
    <3> QED
      BY <1>0, <2>1, <2>2, <3>1, <3>2 DEF RouteOf
  <2>3. CASE via[m] = "fallback"
    <3>1. /\ id[m] \in Elements(Deterministic) \ Elements(todo[m])
          /\ plan[m] \in FallbackPlans(id[m]) \cup FallbackRests
      BY <2>1, <2>3 DEF RouteOf
    <3>2. plan'[m] \in FallbackRests
      BY <2>1, <3>1, FallbackNode
    <3> QED
      BY <1>0, <2>1, <2>3, <3>1, <3>2 DEF RouteOf
  <2>4. CASE via[m] \in {"limited", "apology", "denial"}
    <3>1. plan[m] \in LastPlans
      BY <2>1, <2>4 DEF RouteOf
    <3>2. plan'[m] \in LastPlans
      BY <2>1, <3>1, LastNode DEF LastPlans
    <3> QED
      BY <1>0, <2>1, <2>4, <3>2 DEF RouteOf
  <2> QED
    BY <2>1, <2>2, <2>3, <2>4 DEF RouteOf
<1>6. CASE CommandReturns(m) \/ LimitedReturns(m) \/ LastReplyReturns(m)
  <2>1. /\ todo'[m] = todo[m]
        /\ at'[m] = "end" \/ (at'[m] = "run" /\ via'[m] = "apology" /\ plan'[m] = Text("nil"))
    <3>1. todo'[m] = todo[m]
      BY <1>6 DEF CommandReturns, LimitedReturns, LastReplyReturns, routing
    <3>2. End(m) \/ \E r : HandleError(m, r)
      BY <1>6 DEF CommandReturns, LimitedReturns, LastReplyReturns
    <3> QED
      BY <3>1, <3>2, EndAt, HandledAt
  <2> QED
    BY <1>0, <2>1 DEF RouteOf, LastPlans
<1>7. CASE FallbackDenied(m) \/ FallbackPasses(m)
  <2>1. /\ todo'[m] = Tail(todo[m]) /\ todo[m] # <<>> /\ at'[m] = at[m] /\ at[m] = "chain"
        /\ via'[m] = via[m]
    BY <1>7 DEF FallbackDenied, FallbackPasses
  <2> QED
    BY <1>0, <2>1, OneAsked DEF RouteOf
<1>8. CASE FallbackRuns(m)
  <2>1. PICK p \in FallbackPlans(Head(todo[m])) :
          /\ todo'[m] = Tail(todo[m]) /\ todo[m] # <<>>
          /\ at'[m] = "run" /\ via'[m] = "fallback" /\ plan'[m] = p /\ id'[m] = Head(todo[m])
    BY <1>8, CallAt DEF FallbackRuns, TypeOK
  <2> QED
    BY <1>0, <2>1, OneAsked DEF RouteOf
<1>9. CASE FallbackReturns(m) \/ ChainEnds(m)
  <2>1. /\ todo'[m] = todo[m]
        /\ at'[m] = "end" \/ (at'[m] = "chain" /\ via'[m] = "fallback")
    BY <1>9, EndAt DEF FallbackReturns, Returns, ChainEnds, routing, TypeOK
  <2> QED
    BY <1>0, <2>1 DEF RouteOf
<1>10. CASE FallbackPanics(m)
  <2>1. todo' = todo /\ at' = at /\ via' = via /\ plan' = plan /\ id' = id
    BY <1>10 DEF FallbackPanics, routing
  <2> QED
    BY <2>1 DEF RouteOf
<1> QED
  BY <1>1, <1>2, <1>3, <1>4, <1>5, <1>6, <1>7, <1>8, <1>9, <1>10 DEF Step

(* The types after a step.                                                  *)
LEMMA PlanShapes ==
  ASSUME NEW by, NEW i, NEW p,
         \/ by = "command" /\ i \in Elements(Registered) /\ p \in Plans(i) \cup CommandRests
         \/ by = "fallback" /\ i \in Elements(Deterministic) /\ p \in FallbackPlans(i) \cup FallbackRests
         \/ p \in LastPlans
  PROVE  PlanShape(p)
BY CommandNode, FallbackNode, LastNode DEF PlanShape

(* A reply is a text or an image, and its correlation is not that of a job. *)
LEMMA ReplyNode ==
  ASSUME NEW m \in Messages, RouteOf(m), at[m] = "run", ~IsLeaf(plan[m]), plan[m].part # "job"
  PROVE  plan[m].part \in {"text", "image"} /\ plan[m].corr \in {"reply", "coupang"}
<1>1. CASE via[m] = "command"
  <2>1. id[m] \in Elements(Registered) /\ plan[m] \in Plans(id[m]) \cup CommandRests
    BY <1>1 DEF RouteOf
  <2> QED
    BY <2>1, CommandNode
<1>2. CASE via[m] = "fallback"
  <2>1. id[m] \in Elements(Deterministic) /\ plan[m] \in FallbackPlans(id[m]) \cup FallbackRests
    BY <1>2 DEF RouteOf
  <2> QED
    BY <2>1, FallbackNode
<1>3. CASE via[m] \in {"limited", "apology", "denial"}
  BY <1>3, LastNode DEF RouteOf
<1> QED
  BY <1>1, <1>2, <1>3 DEF RouteOf

(* The replies of a step, and the results of their calls.                   *)
LEMMA StepReplies ==
  ASSUME HistoryOK, NEW m \in Messages, RouteOf(m), Step(m)
  PROVE  \/ got' = got /\ tried' = tried
         \/ /\ at[m] = "run" /\ ~IsLeaf(plan[m]) /\ plan[m].part = "job"
            /\ got' = [got EXCEPT ![m] = Append(@, "job")] /\ tried' = tried
         \/ /\ at[m] = "run" /\ ~IsLeaf(plan[m]) /\ plan[m].part # "job"
            /\ \E ok \in BOOLEAN :
                 /\ got' = IF ok THEN [got EXCEPT ![m] = Append(@, plan[m].corr)] ELSE got
                 /\ tried' = [tried EXCEPT ![m] =
                      Append(@, [part |-> plan[m].part, corr |-> plan[m].corr, ok |-> ok])]
BY DEF Step, Receive, DispatchDenied, DispatchHandler, Admit, RateLimit, Reply, Submit,
   CommandReturns, LimitedReturns, LastReplyReturns, FallbackDenied, FallbackPasses, FallbackRuns,
   FallbackReturns, FallbackPanics, ChainEnds

(* A step keeps the histories what they are.                                *)
LEMMA StepHistory ==
  ASSUME TypeOK, HistoryOK, NEW m \in Messages, RouteOf(m), Step(m)
  PROVE  HistoryOK'
<1>1. log' \in [Messages -> Seq(Events \X Commands)]
  <2>1. log \in [Messages -> Seq(Events \X Commands)]
    BY DEF HistoryOK
  <2> QED
    BY <2>1, StepRecords, RecordedAt
<1>2. got' \in [Messages -> Seq({"reply", "coupang", "job"})]
  <2>1. got \in [Messages -> Seq({"reply", "coupang", "job"})]
    BY DEF HistoryOK
  <2>2. \/ got' = got
        \/ \E r \in {"reply", "coupang", "job"} : got' = [got EXCEPT ![m] = Append(got[m], r)]
    BY StepReplies, ReplyNode
  <2>3. \A r \in {"reply", "coupang", "job"} : Append(got[m], r) \in Seq({"reply", "coupang", "job"})
    BY <2>1
  <2> QED
    BY <2>1, <2>2, <2>3
<1>3. tried' \in [Messages -> Seq([part : {"text", "image"}, corr : {"reply", "coupang"}, ok : BOOLEAN])]
  <2> DEFINE R == [part : {"text", "image"}, corr : {"reply", "coupang"}, ok : BOOLEAN]
  <2>1. tried \in [Messages -> Seq(R)]
    BY DEF HistoryOK
  <2>2. tried' = tried \/ \E r \in R : tried' = [tried EXCEPT ![m] = Append(tried[m], r)]
    <3>1. CASE \/ got' = got /\ tried' = tried
               \/ /\ at[m] = "run" /\ ~IsLeaf(plan[m]) /\ plan[m].part = "job"
                  /\ got' = [got EXCEPT ![m] = Append(@, "job")] /\ tried' = tried
      BY <3>1
    <3>2. CASE /\ at[m] = "run" /\ ~IsLeaf(plan[m]) /\ plan[m].part # "job"
               /\ \E ok \in BOOLEAN : tried' = [tried EXCEPT ![m] =
                      Append(@, [part |-> plan[m].part, corr |-> plan[m].corr, ok |-> ok])]
      <4>1. PICK ok \in BOOLEAN : tried' = [tried EXCEPT ![m] =
                      Append(@, [part |-> plan[m].part, corr |-> plan[m].corr, ok |-> ok])]
        BY <3>2
      <4>2. [part |-> plan[m].part, corr |-> plan[m].corr, ok |-> ok] \in R
        BY <3>2, ReplyNode
      <4> HIDE DEF R
      <4> QED
        BY <4>1, <4>2
    <3> QED
      BY <3>1, <3>2, StepReplies
  <2> HIDE DEF R
  <2>3. \A r \in R : Append(tried[m], r) \in Seq(R)
    BY <2>1
  <2>4. tried' \in [Messages -> Seq(R)]
    BY <2>1, <2>2, <2>3
  <2> QED
    BY <2>4 DEF R
<1>4. /\ (plan = [n \in Messages |-> plan[n]])'
      /\ (todo = [n \in Messages |-> todo[n]])'
  <2>1. plan' = plan \/ \E p : plan' = [plan EXCEPT ![m] = p]
    BY DEF Step, Receive, DispatchDenied, DispatchHandler, Admit, RateLimit, Reply, Submit,
       CommandReturns, LimitedReturns, LastReplyReturns, FallbackDenied, FallbackPasses, FallbackRuns,
       FallbackReturns, FallbackPanics, ChainEnds, Call, End, HandleError
  <2>2. todo' = todo \/ \E s : todo' = [todo EXCEPT ![m] = s]
    BY DEF Step, Receive, DispatchDenied, DispatchHandler, Admit, RateLimit, Reply, Submit,
       CommandReturns, LimitedReturns, LastReplyReturns, FallbackDenied, FallbackPasses, FallbackRuns,
       FallbackReturns, FallbackPanics, ChainEnds, routing
  <2>3. plan = [n \in Messages |-> plan[n]] /\ todo = [n \in Messages |-> todo[n]]
    BY DEF HistoryOK
  <2> QED
    BY <2>1, <2>2, <2>3
<1>5. (tracker = [n \in DOMAIN tracker |-> tracker[n]])'
  <2>1. tracker' = tracker \/ \E p, ok : Observe(m, p, ok)
    BY DEF Step, Receive, DispatchDenied, DispatchHandler, Admit, RateLimit, Reply, Submit,
       CommandReturns, LimitedReturns, LastReplyReturns, FallbackDenied, FallbackPasses, FallbackRuns,
       FallbackReturns, FallbackPanics, ChainEnds
  <2>2. tracker = [n \in DOMAIN tracker |-> tracker[n]]
    BY DEF HistoryOK
  <2> QED
    BY <2>1, <2>2, ObservedElsewhere
<1> QED
  BY <1>1, <1>2, <1>3, <1>4, <1>5 DEF HistoryOK

(* A step keeps the types.                                                  *)
LEMMA StepTypes ==
  ASSUME TypeOK, HistoryOK, NEW m \in Messages, RouteOf(m), Step(m)
  PROVE  TypeOK'
<1>1. msg' \in [Messages -> MatchSet] /\ barred' \in [Messages -> SUBSET Intents]
  <2>1. \/ msg' = msg /\ barred' = barred
        \/ \E c \in Matches[m], b \in Barred :
             msg' = [msg EXCEPT ![m] = c] /\ barred' = [barred EXCEPT ![m] = b]
    BY DEF Step, Receive, DispatchDenied, DispatchHandler, Admit, RateLimit, Reply, Submit,
       CommandReturns, LimitedReturns, LastReplyReturns, FallbackDenied, FallbackPasses, FallbackRuns,
       FallbackReturns, FallbackPanics, ChainEnds, routing
  <2>2. Matches[m] \subseteq MatchSet /\ \A b \in Barred : b \subseteq Intents
    BY DispatchAssumption
  <2>3. msg \in [Messages -> MatchSet] /\ barred \in [Messages -> SUBSET Intents]
    BY DEF TypeOK
  <2> QED
    BY <2>1, <2>2, <2>3
<1>2. /\ at' \in [Messages -> {"new", "chosen", "limit", "run", "chain", "end"}]
      /\ via' \in [Messages -> {"none", "command", "limited", "apology", "denial", "fallback"}]
  <2>1. /\ at \in [Messages -> {"new", "chosen", "limit", "run", "chain", "end"}]
        /\ via \in [Messages -> {"none", "command", "limited", "apology", "denial", "fallback"}]
    BY DEF TypeOK
  <2>2. at' = at \/ \E a \in {"chosen", "limit", "run", "chain", "end"} : at' = [at EXCEPT ![m] = a]
    BY DEF Step, Receive, DispatchDenied, DispatchHandler, Admit, RateLimit, Reply, Submit,
       CommandReturns, LimitedReturns, LastReplyReturns, FallbackDenied, FallbackPasses, FallbackRuns,
       FallbackReturns, FallbackPanics, ChainEnds, Call, End, HandleError
  <2>3. via' = via \/ \E v \in {"command", "limited", "apology", "denial", "fallback"} :
                        via' = [via EXCEPT ![m] = v]
    BY DEF Step, Receive, DispatchDenied, DispatchHandler, Admit, RateLimit, Reply, Submit,
       CommandReturns, LimitedReturns, LastReplyReturns, FallbackDenied, FallbackPasses, FallbackRuns,
       FallbackReturns, FallbackPanics, ChainEnds, Call, End, HandleError
  <2> QED
    BY <2>1, <2>2, <2>3
<1>3. id' \in [Messages -> Commands]
  <2>1. id \in [Messages -> Commands]
    BY DEF TypeOK
  <2>2. CASE Receive(m)
    <3>1. PICK c \in Matches[m] : id' = [id EXCEPT ![m] = IF Ignored(c) THEN "none" ELSE Selected(c)]
      BY <2>2 DEF Receive
    <3>2. Selected(c) \in Commands /\ "none" \in Commands
      BY SelectedRegistered, DispatchAssumption DEF Commands, Intents
    <3> QED
      BY <2>1, <3>1, <3>2
  <2>3. CASE FallbackRuns(m)
    <3>1. id' = [id EXCEPT ![m] = Head(todo[m])] /\ todo[m] # <<>>
      BY <2>3 DEF FallbackRuns
    <3>2. Head(todo[m]) \in Commands
      BY <3>1, OneAsked DEF RouteOf, Commands, Intents
    <3> QED
      BY <2>1, <3>1, <3>2
  <2>4. CASE ~Receive(m) /\ ~FallbackRuns(m)
    BY <2>1, <2>4 DEF Step, DispatchDenied, DispatchHandler, Admit, RateLimit, Reply, Submit,
       CommandReturns, LimitedReturns, LastReplyReturns, FallbackDenied, FallbackPasses,
       FallbackReturns, FallbackPanics, ChainEnds
  <2> QED
    BY <2>2, <2>3, <2>4
<1>4. \A n \in Messages : PlanShape(plan'[n]) /\ Elements(todo'[n]) \subseteq Intents
  <2>1. \A n \in Messages \ {m} : plan'[n] = plan[n] /\ todo'[n] = todo[n]
    BY StepElsewhere DEF Elsewhere
  <2>2. PlanShape(plan'[m])
    <3>1. CASE at'[m] = "run"
      <4>1. \/ /\ via'[m] = "command" /\ id'[m] \in Elements(Registered)
               /\ plan'[m] \in Plans(id'[m]) \cup CommandRests
            \/ /\ via'[m] = "fallback" /\ id'[m] \in Elements(Deterministic)
               /\ plan'[m] \in FallbackPlans(id'[m]) \cup FallbackRests
            \/ plan'[m] \in LastPlans
        BY <3>1, StepRoute DEF RouteOf
      <4> QED
        BY <4>1, PlanShapes
    <3>2. CASE at'[m] # "run"
      <4>1. plan' = plan
        BY <3>2, <1>2 DEF Step, Receive, DispatchDenied, DispatchHandler, Admit, RateLimit, Reply, Submit,
           CommandReturns, LimitedReturns, LastReplyReturns, FallbackDenied, FallbackPasses, FallbackRuns,
           FallbackReturns, FallbackPanics, ChainEnds, Call, End, HandleError, Returns, TypeOK
      <4> QED
        BY <4>1 DEF TypeOK
    <3> QED
      BY <3>1, <3>2
  <2>3. Elements(todo'[m]) \subseteq Intents
    <3>1. todo'[m] \in Seq(Elements(Deterministic))
      BY StepRoute DEF RouteOf
    <3>2. Elements(todo'[m]) \subseteq Elements(Deterministic)
      <4> DEFINE D == Elements(Deterministic)
                 s == todo'[m]
      <4>1. s \in Seq(D)
        BY <3>1
      <4> HIDE DEF D, s
      <4>2. \A i \in DOMAIN s : s[i] \in D
        BY <4>1
      <4>3. {s[i] : i \in DOMAIN s} \subseteq D
        BY <4>2
      <4> QED
        BY <4>3 DEF D, s, Elements
    <3> QED
      BY <3>2 DEF Intents
  <2> QED
    BY <2>1, <2>2, <2>3 DEF TypeOK
<1>5. denied' \in [Messages -> BOOLEAN] /\ crashed' \in BOOLEAN
  <2>1. denied \in [Messages -> BOOLEAN] /\ crashed \in BOOLEAN
    BY DEF TypeOK
  <2>2. (denied' = denied \/ denied' = [denied EXCEPT ![m] = TRUE]) /\ (crashed' = crashed \/ crashed' = TRUE)
    BY DEF Step, Receive, DispatchDenied, DispatchHandler, Admit, RateLimit, Reply, Submit,
       CommandReturns, LimitedReturns, LastReplyReturns, FallbackDenied, FallbackPasses, FallbackRuns,
       FallbackReturns, FallbackPanics, ChainEnds, routing
  <2> QED
    BY <2>1, <2>2
<1>6. tokens' \in [Intents -> 0 .. Burst]
  <2>1. tokens \in [Intents -> 0 .. Burst] /\ Burst \in Nat
    BY DispatchAssumption DEF TypeOK
  <2>2. CASE Admit(m)
    <3>1. id[m] \in Intents /\ tokens[id[m]] > 0 /\ tokens' = [tokens EXCEPT ![id[m]] = tokens[id[m]] - 1]
      BY <2>2 DEF Admit, RouteOf, Intents
    <3>2. tokens[id[m]] - 1 \in 0 .. Burst
      BY <2>1, <3>1
    <3> QED
      BY <2>1, <3>1, <3>2
  <2>3. CASE ~Admit(m)
    BY <2>1, <2>3 DEF Step, Receive, DispatchDenied, DispatchHandler, RateLimit, Reply, Submit,
       CommandReturns, LimitedReturns, LastReplyReturns, FallbackDenied, FallbackPasses, FallbackRuns,
       FallbackReturns, FallbackPanics, ChainEnds
  <2> QED
    BY <2>2, <2>3
<1>7. DOMAIN tracker' \subseteq Messages
  <2>1. tracker' = tracker \/ \E p, ok : Observe(m, p, ok)
    BY DEF Step, Receive, DispatchDenied, DispatchHandler, Admit, RateLimit, Reply, Submit,
       CommandReturns, LimitedReturns, LastReplyReturns, FallbackDenied, FallbackPasses, FallbackRuns,
       FallbackReturns, FallbackPanics, ChainEnds
  <2>2. DOMAIN tracker \subseteq Messages
    BY DEF TypeOK
  <2> QED
    BY <2>1, <2>2, ObservedElsewhere
<1> QED
  BY <1>1, <1>2, <1>3, <1>4, <1>5, <1>6, <1>7 DEF TypeOK

(* The events of a message after a step.                                    *)
LEMMA EventCounts ==
  /\ \A c : LET s == <<"received">> \o IF Ignored(c) THEN <<"unmatched">> ELSE <<>>
            IN  s \in Seq(Events) /\ \A i \in DOMAIN s : s[i] \notin Counted
  /\ \A s \in {<<Denial>>, <<"unmatched">>, <<"policy_skip">>} : \A i \in DOMAIN s : s[i] \notin Counted
  /\ \A s \in {<<"dispatched", "activation">>, <<"rate_limited">>} :
       Len(s) > 0 /\ \A i \in DOMAIN s : i # 1 => s[i] \notin Counted
  /\ \A r : /\ Len(Outcome(r)) > 0 /\ Outcome(r)[1] \in {"succeeded", "failed"}
            /\ \A i \in DOMAIN Outcome(r) : i # 1 => Outcome(r)[i] \notin Counted
<1>1. ASSUME NEW c
      PROVE  LET s == <<"received">> \o IF Ignored(c) THEN <<"unmatched">> ELSE <<>>
             IN  s \in Seq(Events) /\ \A i \in DOMAIN s : s[i] \notin Counted
  <2>1. CASE Ignored(c)
    <3> DEFINE s == <<"received">> \o <<"unmatched">>
    <3>1. <<"received">> \in Seq(Events) /\ <<"unmatched">> \in Seq(Events)
      BY DEF Events
    <3>2. DOMAIN s = 1 .. 2 /\ s[1] = "received" /\ s[2] = "unmatched"
      BY <3>1
    <3>3. \A i \in DOMAIN s : s[i] \notin Counted
      BY <3>2 DEF Counted
    <3> QED
      BY <2>1, <3>3, EventSequences
  <2>2. CASE ~Ignored(c)
    <3>1. <<"received">> \o <<>> = <<"received">>
      OBVIOUS
    <3>2. \A i \in 1 .. 1 : <<"received">>[i] \notin Counted
      BY DEF Counted
    <3> QED
      BY <2>2, <3>1, <3>2, EventSequences
  <2> QED
    BY <2>1, <2>2
<1>2. \A s \in {<<Denial>>, <<"unmatched">>, <<"policy_skip">>} : \A i \in DOMAIN s : s[i] \notin Counted
  BY DEF Counted, Denial
<1>3. \A s \in {<<"dispatched", "activation">>, <<"rate_limited">>} :
        Len(s) > 0 /\ \A i \in DOMAIN s : i # 1 => s[i] \notin Counted
  BY DEF Counted
<1>4. \A r : /\ Len(Outcome(r)) > 0 /\ Outcome(r)[1] \in {"succeeded", "failed"}
             /\ \A i \in DOMAIN Outcome(r) : i # 1 => Outcome(r)[i] \notin Counted
  BY DEF Counted, Outcome
<1> QED
  BY <1>1, <1>2, <1>3, <1>4

(* A step keeps the counts of the dispatch and of its outcome.              *)
LEMMA StepLog ==
  ASSUME TypeOK, HistoryOK, NEW m \in Messages, RouteOf(m), LogOf(m), Step(m)
  PROVE  LogOf(m)'
<1>0. /\ at[m] \in {"new", "chosen", "limit", "run", "chain", "end"} /\ id[m] \in Commands
      /\ "none" \in Commands
      /\ via[m] \in {"none", "command", "limited", "apology", "denial", "fallback"}
  BY DEF TypeOK, Commands
<1>s. log' = log => Dispatched(m)' = Dispatched(m) /\ Outcomes(m)' = Outcomes(m)
  BY DEF Dispatched, Outcomes, Names
<1>1. CASE Receive(m)
  <2>1. PICK c : /\ log' = Recorded(m, <<"received">> \o IF Ignored(c) THEN <<"unmatched">> ELSE <<>>, "none")
                 /\ at'[m] \in {"end", "chosen", "chain"}
    BY <1>1 DEF Receive, TypeOK
  <2>2. Dispatched(m)' = Dispatched(m) /\ Outcomes(m)' = Outcomes(m)
    BY <1>0, <2>1, EventCounts, Uncounted
  <2>3. Dispatched(m) = {} /\ Outcomes(m) = {}
    BY <1>1 DEF Receive, LogOf
  <2> QED
    BY <2>1, <2>2, <2>3 DEF LogOf
<1>2. CASE DispatchDenied(m)
  <2>1. Dispatched(m)' = Dispatched(m) /\ Outcomes(m)' = Outcomes(m)
    BY <1>0, <1>2, EventSequences, EventCounts, Uncounted DEF DispatchDenied
  <2>2. Dispatched(m) = {} /\ Outcomes(m) = {}
    BY <1>2 DEF DispatchDenied, LogOf
  <2>3. at'[m] = "run" /\ via'[m] = "denial"
    BY <1>2, CallAt DEF DispatchDenied
  <2> QED
    BY <2>1, <2>2, <2>3 DEF LogOf
<1>3. CASE DispatchHandler(m)
  <2>1. Dispatched(m) = {} /\ Outcomes(m) = {}
    BY <1>3 DEF DispatchHandler, LogOf
  <2>2. Once(Dispatched(m))' /\ Outcomes(m)' = Outcomes(m)
    <3> DEFINE s == <<"dispatched", "activation">>
    <3>1. s \in Seq(Events) /\ Len(s) > 0 /\ (\A i \in DOMAIN s : i # 1 => s[i] \notin Counted)
          /\ s[1] = "dispatched" /\ log' = Recorded(m, s, id[m])
      BY <1>3, EventSequences, EventCounts DEF DispatchHandler
    <3> HIDE DEF s
    <3> QED
      BY <1>0, <2>1, <3>1, FirstCounted
  <2>3. at'[m] = "limit"
    BY <1>3 DEF DispatchHandler, TypeOK
  <2> QED
    BY <2>1, <2>2, <2>3 DEF LogOf
<1>4. CASE Admit(m)
  <2>1. log' = log /\ at'[m] = "run" /\ via'[m] = "command" /\ at[m] = "limit"
    BY <1>4, CallAt DEF Admit
  <2> QED
    BY <1>s, <2>1 DEF LogOf, Once
<1>5. CASE RateLimit(m)
  <2>1. Once(Dispatched(m)) /\ Outcomes(m) = {}
    BY <1>5 DEF RateLimit, LogOf
  <2>2. Once(Outcomes(m))' /\ Dispatched(m)' = Dispatched(m)
    <3> DEFINE s == <<"rate_limited">>
    <3>1. s \in Seq(Events) /\ Len(s) > 0 /\ (\A i \in DOMAIN s : i # 1 => s[i] \notin Counted)
          /\ s[1] = "rate_limited" /\ log' = Recorded(m, s, id[m])
      BY <1>5, EventSequences, EventCounts DEF RateLimit
    <3> HIDE DEF s
    <3> QED
      BY <1>0, <2>1, <3>1, FirstCounted
  <2>3. at'[m] = "run" /\ via'[m] = "limited"
    BY <1>5, CallAt DEF RateLimit
  <2> QED
    BY <2>1, <2>2, <2>3 DEF LogOf, Once
<1>6. CASE Reply(m) \/ Submit(m) \/ FallbackPanics(m)
  <2>1. log' = log /\ at' = at /\ via' = via /\ id' = id
    BY <1>6 DEF Reply, Submit, FallbackPanics
  <2> QED
    BY <1>s, <2>1 DEF LogOf, Once
<1>7. CASE CommandReturns(m)
  <2> DEFINE r == plan[m].leaf
  <2>1. at[m] = "run" /\ via[m] = "command" /\ id'[m] = id[m] /\ IsLeaf(plan[m])
    BY <1>7 DEF CommandReturns, Returns
  <2>2. Once(Dispatched(m)) /\ Outcomes(m) = {}
    BY <2>1 DEF LogOf
  <2>3. \/ at'[m] = "end" /\ (r = "nil" \/ r = "failed")
        \/ at'[m] = "run" /\ via'[m] = "apology" /\ ~(r = "nil" \/ r = "failed")
    BY <1>7, HandledAt DEF CommandReturns
  <2>4. CASE r = "panic"
    <3>1. id[m] \in Elements(Registered) /\ plan[m] \in Plans(id[m]) \cup CommandRests
      BY <2>1 DEF RouteOf
    <3>2. id[m] = "coupang"
      BY <2>1, <2>4, <3>1, CommandNode
    <3>3. log' = log
      BY <1>7, <2>4 DEF CommandReturns
    <3> QED
      BY <1>s, <2>1, <2>2, <2>3, <2>4, <3>2, <3>3 DEF LogOf, Once
  <2>5. CASE r # "panic"
    <3>1. log' = Recorded(m, Outcome(r), id[m])
      BY <1>7, <2>5 DEF CommandReturns
    <3>2. Once(Outcomes(m))' /\ Dispatched(m)' = Dispatched(m)
      BY <1>0, <2>2, <3>1, EventSequences, EventCounts, FirstCounted
    <3> QED
      BY <2>2, <2>3, <3>2 DEF LogOf, Once
  <2> QED
    BY <2>4, <2>5
<1>8. CASE LimitedReturns(m)
  <2>1. at[m] = "run" /\ via[m] = "limited" /\ log' = log
    BY <1>8 DEF LimitedReturns, Returns
  <2>2. at'[m] = "end" \/ (at'[m] = "run" /\ via'[m] = "apology")
    BY <1>8, HandledAt DEF LimitedReturns
  <2> QED
    BY <1>s, <2>1, <2>2 DEF LogOf, Once
<1>9. CASE LastReplyReturns(m)
  <2>1. /\ at[m] = "run" /\ via[m] \in {"denial", "apology"} /\ log' = log /\ id' = id
        /\ at'[m] = "end" /\ via'[m] = via[m]
    BY <1>9, EndAt DEF LastReplyReturns, Returns
  <2> QED
    BY <1>s, <2>1 DEF LogOf, Once
<1>10. CASE FallbackDenied(m)
  <2>1. at[m] = "chain" /\ at'[m] = "chain" /\ log' = Recorded(m, <<Denial>>, Head(todo[m]))
        /\ todo[m] # <<>>
    BY <1>10 DEF FallbackDenied
  <2>2. Head(todo[m]) \in Commands
    BY <2>1, OneAsked DEF RouteOf, Commands, Intents
  <2>3. Dispatched(m)' = Dispatched(m) /\ Outcomes(m)' = Outcomes(m)
    BY <2>1, <2>2, EventSequences, EventCounts, Uncounted
  <2> QED
    BY <2>1, <2>3 DEF LogOf, Once
<1>11. CASE FallbackPasses(m)
  <2>1. log' = log /\ at' = at /\ at[m] = "chain"
    BY <1>11 DEF FallbackPasses
  <2> QED
    BY <1>s, <2>1 DEF LogOf
<1>12. CASE FallbackRuns(m)
  <2>1. log' = log /\ at'[m] = "run" /\ via'[m] = "fallback" /\ at[m] = "chain"
    BY <1>12, CallAt DEF FallbackRuns
  <2> QED
    BY <1>s, <2>1 DEF LogOf
<1>13. CASE FallbackReturns(m)
  <2>1. at[m] = "run" /\ via[m] = "fallback" /\ Dispatched(m) = {} /\ Outcomes(m) = {}
    BY <1>13 DEF FallbackReturns, Returns, LogOf
  <2>2. CASE plan[m].leaf = "nil"
    <3>1. log' = log /\ at'[m] = "chain"
      BY <1>13, <2>2 DEF FallbackReturns, TypeOK
    <3> QED
      BY <1>s, <2>1, <3>1 DEF LogOf
  <2>3. CASE plan[m].leaf # "nil"
    <3>1. PICK o \in {"succeeded", "failed"} : log' = Recorded(m, <<"dispatched", o>>, id[m])
      BY <1>13, <2>3 DEF FallbackReturns
    <3>2. Once(Dispatched(m))' /\ Once(Outcomes(m))'
      BY <1>0, <2>1, <3>1, BothCounted
    <3>3. at'[m] = "end"
      BY <1>13, <2>3, EndAt DEF FallbackReturns
    <3> QED
      BY <3>2, <3>3 DEF LogOf
  <2> QED
    BY <2>2, <2>3
<1>14. CASE ChainEnds(m)
  <2>1. at[m] = "chain" /\ at'[m] = "end"
    BY <1>14, EndAt DEF ChainEnds
  <2>2. log' = log \/ \E s \in {<<"unmatched">>, <<"policy_skip">>} : log' = Recorded(m, s, "none")
    BY <1>14 DEF ChainEnds
  <2>3. Dispatched(m)' = Dispatched(m) /\ Outcomes(m)' = Outcomes(m)
    BY <1>0, <1>s, <2>2, EventSequences, EventCounts, Uncounted
  <2> QED
    BY <2>1, <2>3 DEF LogOf
<1> QED
  BY <1>1, <1>2, <1>3, <1>4, <1>5, <1>6, <1>7, <1>8, <1>9, <1>10, <1>11, <1>12, <1>13, <1>14 DEF Step

(* The tracker: the only part, the first of two parts, the second of them.  *)
LEMMA OnlyPart ==
  ASSUME NEW m, NEW p, NEW ok, m \notin DOMAIN tracker, p.part = "text",
         Observe(m, p, ok)
  PROVE  /\ m \notin DOMAIN tracker'
         /\ \E parts : /\ verdicts' = verdicts \cup {[of |-> m, parts |-> parts]}
                       /\ DOMAIN parts = {"text"} /\ parts["text"] = ok
<1> DEFINE parts == [q \in DOMAIN Parts(m) \cup {p.part} |-> IF q = p.part THEN ok ELSE Parts(m)[q]]
<1>1. Parts(m) = <<>>
  BY DEF Parts
<1>2. DOMAIN parts = {p.part} /\ parts[p.part] = ok
  BY <1>1
<1>3. tracker' = [n \in DOMAIN tracker \ {m} |-> tracker[n]]
      /\ verdicts' = verdicts \cup {[of |-> m, parts |-> parts]}
  BY DEF Observe, Final
<1> HIDE DEF parts
<1> QED
  BY <1>2, <1>3

(* The first of two parts is kept and nothing is judged yet.                *)
LEMMA FirstPart ==
  ASSUME NEW m, NEW p, NEW ok, m \notin DOMAIN tracker, p.part = "image", p.expected = 2,
         Observe(m, p, ok)
  PROVE  /\ m \in DOMAIN tracker' /\ verdicts' = verdicts
         /\ DOMAIN tracker'[m].parts = {"image"} /\ tracker'[m].parts["image"] = ok
<1> DEFINE parts == [q \in DOMAIN Parts(m) \cup {p.part} |-> IF q = p.part THEN ok ELSE Parts(m)[q]]
<1>1. Parts(m) = <<>>
  BY DEF Parts
<1>2. DOMAIN parts = {"image"} /\ parts["image"] = ok
  BY <1>1
<1>3. Expected(m, p) = 2
  BY DEF Expected
<1>4. ~Final(p)
  BY DEF Final
<1>5. Cardinality(DOMAIN parts) = 1
  BY <1>2, FS_Singleton
<1>6. tracker' = [n \in DOMAIN tracker \cup {m} |->
               IF n = m THEN [parts |-> parts, expected |-> Expected(m, p)] ELSE tracker[n]]
      /\ verdicts' = verdicts
  BY <1>3, <1>4, <1>5 DEF Observe
<1> HIDE DEF parts
<1> QED
  BY <1>2, <1>3, <1>6

(* The text after the image: both are judged and the state is dropped.      *)
LEMMA SecondPart ==
  ASSUME NEW m, NEW p, NEW ok, NEW first, m \in DOMAIN tracker, p.part = "text",
         DOMAIN tracker[m].parts = {"image"}, tracker[m].parts["image"] = first, Observe(m, p, ok)
  PROVE  /\ m \notin DOMAIN tracker'
         /\ \E parts : /\ verdicts' = verdicts \cup {[of |-> m, parts |-> parts]}
                       /\ DOMAIN parts = {"image", "text"}
                       /\ parts["image"] = first /\ parts["text"] = ok
<1> DEFINE parts == [q \in DOMAIN Parts(m) \cup {p.part} |-> IF q = p.part THEN ok ELSE Parts(m)[q]]
<1>1. DOMAIN Parts(m) = {"image"} /\ Parts(m)["image"] = first
  BY DEF Parts
<1>2. DOMAIN parts = {"image", "text"} /\ parts["image"] = first /\ parts["text"] = ok
  BY <1>1
<1>3. Final(p)
  BY DEF Final
<1>4. tracker' = [n \in DOMAIN tracker \ {m} |-> tracker[n]]
      /\ verdicts' = verdicts \cup {[of |-> m, parts |-> parts]}
  BY <1>3 DEF Observe
<1> HIDE DEF parts
<1> QED
  BY <1>2, <1>4

(* The calls of the adapter for a product, after one more call.             *)
LEMMA TriedAfter ==
  ASSUME HistoryOK, NEW m \in Messages,
         NEW t \in [part : {"text", "image"}, corr : {"reply", "coupang"}, ok : BOOLEAN],
         tried' = [tried EXCEPT ![m] = Append(@, t)]
  PROVE  /\ t.corr = "coupang" =>
              ProductParts(m)' = ProductParts(m) \cup {[part |-> t.part, ok |-> t.ok]}
         /\ t.corr # "coupang" => ProductParts(m)' = ProductParts(m)
         /\ (\A i \in DOMAIN tried[m] : tried[m][i].ok)'
              <=> t.ok /\ \A i \in DOMAIN tried[m] : tried[m][i].ok
<1> DEFINE R == [part : {"text", "image"}, corr : {"reply", "coupang"}, ok : BOOLEAN]
           s == tried[m]
<1>1. s \in Seq(R) /\ tried'[m] = Append(s, t) /\ t \in R
  BY DEF HistoryOK
<1> HIDE DEF R, s
<1>2. /\ DOMAIN s = 1 .. Len(s) /\ Len(s) \in Nat /\ DOMAIN tried'[m] = 1 .. Len(s) + 1
      /\ tried'[m][Len(s) + 1] = t /\ \A i \in 1 .. Len(s) : tried'[m][i] = s[i]
  BY <1>1
<1>3. 1 .. Len(s) + 1 = 1 .. Len(s) \cup {Len(s) + 1}
  BY <1>2
<1>4. ProductParts(m) = {[part |-> s[i].part, ok |-> s[i].ok] : i \in {i \in DOMAIN s : s[i].corr = "coupang"}}
  BY DEF ProductParts, s
<1>5. ProductParts(m)' = {[part |-> tried'[m][i].part, ok |-> tried'[m][i].ok] :
                            i \in {i \in DOMAIN tried'[m] : tried'[m][i].corr = "coupang"}}
  BY DEF ProductParts
<1>6. CASE t.corr = "coupang"
  <2>1. {i \in DOMAIN tried'[m] : tried'[m][i].corr = "coupang"}
          = {i \in DOMAIN s : s[i].corr = "coupang"} \cup {Len(s) + 1}
    BY <1>2, <1>3, <1>6
  <2>2. ProductParts(m)' = {[part |-> tried'[m][i].part, ok |-> tried'[m][i].ok] :
                            i \in {i \in DOMAIN s : s[i].corr = "coupang"} \cup {Len(s) + 1}}
    BY <1>5, <2>1
  <2> QED
    BY <1>2, <1>3, <1>4, <1>6, <2>2 DEF s
<1>7. CASE t.corr # "coupang"
  <2>1. {i \in DOMAIN tried'[m] : tried'[m][i].corr = "coupang"}
          = {i \in DOMAIN s : s[i].corr = "coupang"}
    BY <1>2, <1>3, <1>7
  <2>2. ProductParts(m)' = {[part |-> tried'[m][i].part, ok |-> tried'[m][i].ok] :
                            i \in {i \in DOMAIN s : s[i].corr = "coupang"}}
    BY <1>5, <2>1
  <2> QED
    BY <1>2, <1>3, <1>4, <1>7, <2>2 DEF s
<1>8. (\A i \in DOMAIN tried[m] : tried[m][i].ok)' <=> t.ok /\ \A i \in DOMAIN tried[m] : tried[m][i].ok
  BY <1>2, <1>3 DEF s
<1> QED
  BY <1>6, <1>7, <1>8

(* What goes on after a reply without a part of a product has none.         *)
LEMMA PartFreeRest ==
  ASSUME NEW p, PartFree(p), ~IsLeaf(p)
  PROVE  PartFree(p.sent) /\ PartFree(p.failed)
<1>1. PartFree(Apology)
  BY Asks, Leaves DEF Apology, PartFree
<1> QED
  BY <1>1 DEF PartFree

(* The verdict of a product that is told with this reply.                   *)
LEMMA ToldNow ==
  ASSUME NEW m \in Messages, NEW parts, VerdictsOf(m) = {},
         verdicts' = verdicts \cup {[of |-> m, parts |-> parts]}, m \notin DOMAIN tracker',
         {[part |-> q, ok |-> parts[q]] : q \in DOMAIN parts} = ProductParts(m)',
         DOMAIN parts # {}, at'[m] = "run", PartFree(plan'[m]),
         via'[m] = "fallback" => "coupang" \notin Elements(todo'[m])
  PROVE  Told(m)'
<1> DEFINE v == [of |-> m, parts |-> parts]
<1>1. v \in verdicts' /\ v.of = m /\ v.parts = parts
  OBVIOUS
<1>2. VerdictsOf(m)' = {v}
  BY <1>1 DEF VerdictsOf
<1>3. {[part |-> q, ok |-> v.parts[q]] : q \in DOMAIN v.parts} = ProductParts(m)'
  BY <1>1
<1>4. ProductParts(m)' # {}
  <2>1. PICK q : q \in DOMAIN parts
    OBVIOUS
  <2>2. [part |-> q, ok |-> parts[q]] \in {[part |-> r, ok |-> parts[r]] : r \in DOMAIN parts}
    BY <2>1
  <2> QED
    BY <2>2
<1> HIDE DEF v
<1> QED
  BY <1>1, <1>2, <1>3, <1>4 DEF Told

(* The parts of a product after a reply, sent or failed.                    *)
LEMMA PartsAfterReply ==
  ASSUME TypeOK, HistoryOK, NEW m \in Messages, RouteOf(m), PartsOf(m), Reply(m)
  PROVE  PartsOf(m)'
<1>a. PICK p : p = plan[m]
  OBVIOUS
<1>b. PICK ok \in BOOLEAN :
        /\ at[m] = "run" /\ ~IsLeaf(plan[m]) /\ plan[m].part # "job"
        /\ plan' = [plan EXCEPT ![m] = IF ok THEN plan[m].sent ELSE plan[m].failed]
        /\ tried' = [tried EXCEPT ![m] =
             Append(@, [part |-> plan[m].part, corr |-> plan[m].corr, ok |-> ok])]
        /\ IF plan[m].corr = "coupang" THEN Observe(m, plan[m], ok)
           ELSE tracker' = tracker /\ verdicts' = verdicts
  BY DEF Reply
<1>c. p.corr = "coupang" => Observe(m, p, ok)
  BY <1>a, <1>b DEF Observe
<1>1. /\ p = plan[m] /\ at[m] = "run" /\ ~IsLeaf(p) /\ p.part # "job"
      /\ at'[m] = "run" /\ id'[m] = id[m] /\ via'[m] = via[m] /\ todo'[m] = todo[m]
      /\ plan'[m] \in {p.sent, p.failed}
      /\ tried' = [tried EXCEPT ![m] = Append(@, [part |-> p.part, corr |-> p.corr, ok |-> ok])]
      /\ p.corr # "coupang" => tracker' = tracker /\ verdicts' = verdicts
  <2>1. at' = at /\ id' = id /\ via' = via /\ todo' = todo
    BY DEF Reply, routing
  <2>2. plan'[m] \in {p.sent, p.failed}
    BY <1>a, <1>b DEF HistoryOK
  <2>3. tried' = [tried EXCEPT ![m] = Append(@, [part |-> p.part, corr |-> p.corr, ok |-> ok])]
    BY <1>a, <1>b
  <2>4. p.corr # "coupang" => tracker' = tracker /\ verdicts' = verdicts
    BY <1>a, <1>b
  <2> QED
    BY <1>a, <1>b, <2>1, <2>2, <2>3, <2>4
<1> DEFINE t == [part |-> p.part, corr |-> p.corr, ok |-> ok]
<1>2. t \in [part : {"text", "image"}, corr : {"reply", "coupang"}, ok : BOOLEAN]
      /\ t.part = p.part /\ t.corr = p.corr /\ t.ok = ok
  BY <1>1, ReplyNode
<1>3. tried' = [tried EXCEPT ![m] = Append(@, t)]
  BY <1>1
<1> HIDE DEF t
<1>4. \/ /\ via[m] = "command" /\ id[m] \in Elements(Registered)
         /\ p \in Plans(id[m]) \cup CommandRests
      \/ /\ via[m] = "fallback" /\ id[m] \in Elements(Deterministic) \ Elements(todo[m])
         /\ p \in FallbackPlans(id[m]) \cup FallbackRests
      \/ via[m] \in {"limited", "apology", "denial"} /\ p \in LastPlans
  BY <1>1 DEF RouteOf
<1>5. CASE p.corr # "coupang"
  <2>1. tracker' = tracker /\ verdicts' = verdicts /\ ProductParts(m)' = ProductParts(m)
        /\ VerdictsOf(m)' = VerdictsOf(m)
    BY <1>1, <1>2, <1>3, <1>5, TriedAfter DEF VerdictsOf
  <2>2. ~HalfTold(m)
    <3>1. p = plan[m] /\ PriceText(2).corr = "coupang" /\ TextOrApology("coupang", 2).corr = "coupang"
      BY <1>1, Asks DEF PriceText, TextOrApology
    <3> QED
      BY <1>5, <3>1 DEF HalfTold
  <2>3. PartFree(p)
    BY <1>1, <1>4, <1>5, CommandNode, FallbackNode, LastNode
  <2>4. PartFree(plan'[m])
    BY <1>1, <2>3, PartFreeRest
  <2>5. CASE NotBegun(m)
    <3>1. NotBegun(m)'
      BY <2>1, <2>5 DEF NotBegun
    <3> QED
      BY <2>4, <3>1 DEF PartsOf
  <2>6. CASE Told(m)
    <3>1. Told(m)'
      BY <1>1, <2>1, <2>4, <2>6 DEF Told
    <3> QED
      BY <3>1 DEF PartsOf
  <2> QED
    BY <2>2, <2>5, <2>6 DEF PartsOf
<1>6. CASE p.corr = "coupang"
  <2>1. Observe(m, p, ok) /\ ~PartFree(p)
    BY <1>1, <1>6, <1>c DEF PartFree
  <2>2. ProductParts(m)' = ProductParts(m) \cup {[part |-> p.part, ok |-> ok]}
    <3>1. ProductParts(m)' = ProductParts(m) \cup {[part |-> t.part, ok |-> t.ok]}
      BY <1>2, <1>3, <1>6, TriedAfter
    <3> QED
      BY <1>2, <3>1
  <2>3. via[m] = "fallback" => id[m] \notin Elements(todo[m])
    BY <1>4
  <2>4. CASE NotBegun(m)
    <3>1. Unbegun(m)
      BY <1>1, <2>1, <2>4 DEF PartsOf, NotBegun, HalfTold, Told
    <3>2. m \notin DOMAIN tracker /\ VerdictsOf(m) = {} /\ ProductParts(m)' = {[part |-> p.part, ok |-> ok]}
      BY <2>2, <2>4 DEF NotBegun
    <3>3. \/ /\ p \in {PriceText(1), PriceText(2)} /\ via[m] = "command"
          \/ /\ p = PriceImage /\ via[m] = "command"
          \/ /\ p \in {TextOrApology("coupang", 1), TextOrApology("coupang", 2)} /\ via[m] = "fallback"
             /\ id[m] = "coupang"
          \/ /\ p = Ask("image", "coupang", 2, TextOrApology("coupang", 2), TextOrApology("coupang", 2))
             /\ via[m] = "fallback" /\ id[m] = "coupang"
      <4>1. CASE via[m] = "command" /\ p \in Plans(id[m])
        <5>1. id[m] \in Elements(Registered)
          BY <1>4, <4>1
        <5> QED
          BY <1>1, <1>6, <4>1, <5>1, CommandNode
      <4>2. CASE via[m] = "fallback" /\ p \in FallbackPlans(id[m])
        <5>1. id[m] \in Elements(Deterministic)
          BY <1>4, <4>2
        <5>2. p \notin {HandledText, Text("failed"), Image("handled"), TextOrApology("reply", 1),
                        Ask("job", "job", 1, Done("handled"), Done("handled"))}
          BY <1>6, Asks DEF HandledText, Text, Image, TextOrApology
        <5>3. p \notin {Done("nil"), Done("panic")}
          BY <1>1, Leaves
        <5> QED
          BY <4>2, <5>1, <5>2, <5>3, FallbackKinds
      <4> QED
        BY <1>1, <3>1, <4>1, <4>2 DEF Unbegun
    <3>4. CASE \/ p \in {PriceText(1), PriceText(2)} /\ via[m] = "command"
               \/ /\ p \in {TextOrApology("coupang", 1), TextOrApology("coupang", 2)}
                  /\ via[m] = "fallback" /\ id[m] = "coupang"
      <4>1. p.part = "text" /\ p.sent \in {Done("nil"), Done("handled")} /\ p.failed \in {Done("error"), Apology}
        BY <3>4, Asks DEF PriceText, TextOrApology
      <4>2. PartFree(plan'[m])
        <5>1. PartFree(Apology)
          BY Asks, Leaves DEF Apology, PartFree
        <5> QED
          BY <1>1, <4>1, <5>1, Leaves DEF PartFree
      <4>4. m \notin DOMAIN tracker'
            /\ \E parts : /\ verdicts' = verdicts \cup {[of |-> m, parts |-> parts]}
                          /\ DOMAIN parts = {"text"} /\ parts["text"] = ok
        BY <2>1, <3>2, <4>1, OnlyPart
      <4> PICK parts : /\ verdicts' = verdicts \cup {[of |-> m, parts |-> parts]}
                         /\ DOMAIN parts = {"text"} /\ parts["text"] = ok
        BY <4>4
      <4>5. DOMAIN parts # {} /\ {[part |-> q, ok |-> parts[q]] : q \in DOMAIN parts} = ProductParts(m)'
        BY <3>2, <4>1
      <4>6. via'[m] = "fallback" => "coupang" \notin Elements(todo'[m])
        BY <1>1, <2>3, <3>4
      <4>7. Told(m)'
        BY <1>1, <3>2, <4>2, <4>4, <4>5, <4>6, ToldNow
      <4> QED
        BY <4>7 DEF PartsOf
    <3>5. CASE \/ p = PriceImage /\ via[m] = "command"
               \/ /\ p = Ask("image", "coupang", 2, TextOrApology("coupang", 2), TextOrApology("coupang", 2))
                  /\ via[m] = "fallback" /\ id[m] = "coupang"
      <4>1. p.part = "image" /\ p.expected = 2
        BY <3>5, Asks DEF PriceImage
      <4>2. \/ via[m] = "command" /\ plan'[m] = PriceText(2)
            \/ via[m] = "fallback" /\ id[m] = "coupang" /\ plan'[m] = TextOrApology("coupang", 2)
        BY <1>1, <3>5, Asks DEF PriceImage
      <4>3. /\ m \in DOMAIN tracker' /\ verdicts' = verdicts
            /\ DOMAIN tracker'[m].parts = {"image"} /\ tracker'[m].parts["image"] = ok
        BY <2>1, <3>2, <4>1, FirstPart
      <4>4. VerdictsOf(m)' = {} /\ ProductParts(m)' = {[part |-> "image", ok |-> ok]}
        BY <3>2, <4>1, <4>3 DEF VerdictsOf
      <4>5. HalfTold(m)'
        BY <1>1, <4>2, <4>3, <4>4 DEF HalfTold
      <4> QED
        BY <4>5 DEF PartsOf
    <3> QED
      BY <3>3, <3>4, <3>5
  <2>5. CASE HalfTold(m)
    <3>1. PICK first :
            /\ ProductParts(m) = {[part |-> "image", ok |-> first]}
            /\ DOMAIN tracker[m].parts = {"image"} /\ tracker[m].parts["image"] = first
      BY <2>5 DEF HalfTold
    <3>2. /\ m \in DOMAIN tracker /\ VerdictsOf(m) = {}
          /\ \/ via[m] = "command" /\ p = PriceText(2)
             \/ via[m] = "fallback" /\ id[m] = "coupang" /\ p = TextOrApology("coupang", 2)
      BY <1>1, <2>5 DEF HalfTold
    <3>3. p.part = "text" /\ p.sent \in {Done("nil"), Done("handled")} /\ p.failed \in {Done("error"), Apology}
      BY <3>2, Asks DEF PriceText, TextOrApology
    <3>4. PartFree(plan'[m])
      <4>1. PartFree(Apology)
        BY Asks, Leaves DEF Apology, PartFree
      <4> QED
        BY <1>1, <3>3, <4>1, Leaves DEF PartFree
    <3>5. DOMAIN tracker[m].parts = {"image"} /\ tracker[m].parts["image"] = first
      BY <3>1
    <3>6. m \notin DOMAIN tracker'
          /\ \E parts : /\ verdicts' = verdicts \cup {[of |-> m, parts |-> parts]}
                        /\ DOMAIN parts = {"image", "text"}
                        /\ parts["image"] = first /\ parts["text"] = ok
      BY <2>1, <3>2, <3>3, <3>5, SecondPart
    <3>7. PICK parts : /\ verdicts' = verdicts \cup {[of |-> m, parts |-> parts]}
                       /\ DOMAIN parts = {"image", "text"}
                       /\ parts["image"] = first /\ parts["text"] = ok
      BY <3>6
    <3>8. {[part |-> q, ok |-> parts[q]] : q \in DOMAIN parts} = ProductParts(m)'
      BY <2>2, <3>1, <3>3, <3>7
    <3>9. via'[m] = "fallback" => "coupang" \notin Elements(todo'[m])
      BY <1>1, <2>3, <3>2
    <3>10. Told(m)'
      BY <1>1, <3>2, <3>4, <3>6, <3>7, <3>8, <3>9, ToldNow
    <3> QED
      BY <3>10 DEF PartsOf
  <2>6. CASE Told(m)
    BY <1>1, <2>1, <2>6 DEF Told
  <2> QED
    BY <2>4, <2>5, <2>6 DEF PartsOf
<1> QED
  BY <1>5, <1>6

(* A step keeps the parts of a product, its tracker and verdict together.   *)
LEMMA StepParts ==
  ASSUME TypeOK, HistoryOK, NEW m \in Messages, RouteOf(m), PartsOf(m), Step(m)
  PROVE  PartsOf(m)'
<1>0. PartFree(Text("nil")) /\ ~IsLeaf(PriceText(2)) /\ ~IsLeaf(TextOrApology("coupang", 2))
      /\ PriceText(2).part = "text" /\ TextOrApology("coupang", 2).part = "text"
  BY Asks, Leaves DEF Text, PartFree, PriceText, TextOrApology
<1>q. ASSUME tracker' = tracker, verdicts' = verdicts, tried' = tried
      PROVE  /\ NotBegun(m)' <=> NotBegun(m)
             /\ VerdictsOf(m)' = VerdictsOf(m) /\ ProductParts(m)' = ProductParts(m)
  BY <1>q DEF NotBegun, VerdictsOf, ProductParts
<1>t. ASSUME tracker' = tracker, verdicts' = verdicts, tried' = tried, Told(m),
             at'[m] \in {"run", "chain", "end"}, at'[m] = "run" => PartFree(plan'[m]),
             at'[m] = "chain" => "coupang" \notin Elements(todo'[m]),
             at'[m] = "run" /\ via'[m] = "fallback" => "coupang" \notin Elements(todo'[m])
      PROVE  PartsOf(m)'
  <2>1. Told(m)'
    BY <1>q, <1>t DEF Told
  <2> QED
    BY <2>1 DEF PartsOf
<1>h. IsLeaf(plan[m]) \/ at[m] # "run" \/ plan[m].part = "job" => ~HalfTold(m)
  BY <1>0 DEF HalfTold
<1>1. CASE Receive(m)
  <2>1. /\ at[m] = "new" /\ at'[m] \in {"end", "chosen", "chain"}
        /\ tracker' = tracker /\ verdicts' = verdicts /\ tried' = tried
    BY <1>1 DEF Receive, TypeOK
  <2>2. NotBegun(m)'
    BY <1>q, <2>1 DEF PartsOf, HalfTold, Told
  <2> QED
    BY <2>1, <2>2 DEF PartsOf
<1>2. CASE DispatchDenied(m) \/ RateLimit(m)
  <2>1. /\ at[m] \in {"chosen", "limit"} /\ plan'[m] = Text("nil")
        /\ tracker' = tracker /\ verdicts' = verdicts /\ tried' = tried
    BY <1>2, CallAt DEF DispatchDenied, RateLimit
  <2>2. NotBegun(m)'
    BY <1>q, <2>1 DEF PartsOf, HalfTold, Told
  <2> QED
    BY <1>0, <2>1, <2>2 DEF PartsOf
<1>3. CASE DispatchHandler(m)
  <2>1. /\ at[m] = "chosen" /\ at'[m] = "limit"
        /\ tracker' = tracker /\ verdicts' = verdicts /\ tried' = tried
    BY <1>3 DEF DispatchHandler, TypeOK
  <2>2. NotBegun(m)'
    BY <1>q, <2>1 DEF PartsOf, HalfTold, Told
  <2> QED
    BY <2>1, <2>2 DEF PartsOf
<1>4. CASE Admit(m)
  <2>1. /\ at[m] = "limit" /\ via'[m] = "command" /\ plan'[m] \in Plans(id'[m])
        /\ tracker' = tracker /\ verdicts' = verdicts /\ tried' = tried
    BY <1>4, CallAt DEF Admit
  <2>2. NotBegun(m)'
    BY <1>q, <2>1 DEF PartsOf, HalfTold, Told
  <2>3. Unbegun(m)'
    BY <2>1 DEF Unbegun
  <2> QED
    BY <2>2, <2>3 DEF PartsOf
<1>5. CASE Reply(m)
  BY <1>5, PartsAfterReply
<1>6. CASE Submit(m)
  <2>1. /\ at[m] = "run" /\ at' = at /\ via' = via /\ todo' = todo /\ plan'[m] = plan[m].sent
        /\ ~IsLeaf(plan[m]) /\ plan[m].part = "job"
        /\ tracker' = tracker /\ verdicts' = verdicts /\ tried' = tried
    BY <1>6 DEF Submit, routing, HistoryOK
  <2>2. PartFree(plan[m])
    BY <2>1, CommandNode, FallbackNode, LastNode DEF RouteOf
  <2>3. PartFree(plan'[m])
    BY <2>1, <2>2, PartFreeRest
  <2>4. CASE NotBegun(m)
    BY <1>q, <2>1, <2>3, <2>4 DEF PartsOf
  <2>5. CASE Told(m)
    <3>1. at'[m] = "run" /\ (via'[m] = "fallback" => "coupang" \notin Elements(todo'[m]))
      BY <2>1, <2>5 DEF Told
    <3> QED
      BY <1>t, <2>1, <2>3, <2>5, <3>1
  <2> QED
    BY <1>h, <2>1, <2>4, <2>5 DEF PartsOf
<1>7. CASE CommandReturns(m) \/ LimitedReturns(m) \/ LastReplyReturns(m)
  <2>1. /\ IsLeaf(plan[m])
        /\ tracker' = tracker /\ verdicts' = verdicts /\ tried' = tried
        /\ End(m) \/ \E r : HandleError(m, r)
    BY <1>7 DEF CommandReturns, LimitedReturns, LastReplyReturns, Returns
  <2>2. at'[m] = "end" \/ (at'[m] = "run" /\ via'[m] = "apology" /\ plan'[m] = Text("nil"))
    BY <2>1, EndAt, HandledAt
  <2>3. CASE NotBegun(m)
    BY <1>0, <1>q, <2>1, <2>2, <2>3 DEF PartsOf
  <2>4. CASE Told(m)
    <3>1. at'[m] \in {"run", "end"} /\ (at'[m] = "run" => PartFree(plan'[m]) /\ via'[m] # "fallback")
      BY <1>0, <2>2
    <3> QED
      BY <1>t, <2>1, <2>4, <3>1
  <2> QED
    BY <1>h, <2>1, <2>3, <2>4 DEF PartsOf
<1>8. CASE FallbackDenied(m) \/ FallbackPasses(m)
  <2>1. /\ at[m] = "chain" /\ at' = at /\ todo[m] # <<>> /\ todo'[m] = Tail(todo[m])
        /\ tracker' = tracker /\ verdicts' = verdicts /\ tried' = tried
    BY <1>8 DEF FallbackDenied, FallbackPasses, HistoryOK
  <2>2. Elements(todo'[m]) \subseteq Elements(todo[m])
    BY <2>1, OneAsked DEF RouteOf
  <2>3. CASE NotBegun(m)
    BY <1>q, <2>1, <2>3 DEF PartsOf
  <2>4. CASE Told(m)
    <3>1. at'[m] = "chain" /\ "coupang" \notin Elements(todo'[m])
      BY <2>1, <2>2, <2>4 DEF Told
    <3> QED
      BY <1>t, <2>1, <2>4, <3>1
  <2> QED
    BY <1>h, <2>1, <2>3, <2>4 DEF PartsOf
<1>9. CASE FallbackRuns(m)
  <2>1. /\ at[m] = "chain" /\ todo[m] # <<>> /\ todo'[m] = Tail(todo[m])
        /\ at'[m] = "run" /\ via'[m] = "fallback" /\ id'[m] = Head(todo[m])
        /\ plan'[m] \in FallbackPlans(Head(todo[m]))
        /\ tracker' = tracker /\ verdicts' = verdicts /\ tried' = tried
    BY <1>9, CallAt DEF FallbackRuns, HistoryOK, TypeOK
  <2>2. CASE NotBegun(m)
    <3>1. Unbegun(m)'
      BY <2>1 DEF Unbegun
    <3> QED
      BY <1>q, <2>1, <2>2, <3>1 DEF PartsOf
  <2>3. CASE Told(m)
    <3>1. /\ Head(todo[m]) \in Elements(Deterministic) \ Elements(Tail(todo[m]))
          /\ Elements(Tail(todo[m])) \subseteq Elements(todo[m])
      BY <2>1, OneAsked DEF RouteOf
    <3>2. "coupang" \notin Elements(todo[m])
      BY <2>1, <2>3 DEF Told
    <3>3. Head(todo[m]) \in Elements(todo[m])
      <4>1. todo[m] \in Seq(Elements(Deterministic))
        BY DEF RouteOf
      <4>2. 1 \in DOMAIN todo[m] /\ Head(todo[m]) = todo[m][1]
        <5> DEFINE D == Elements(Deterministic)
                   s == todo[m]
        <5>1. s \in Seq(D) /\ s # <<>>
          BY <2>1, <4>1
        <5> HIDE DEF D, s
        <5>2. DOMAIN s = 1 .. Len(s) /\ Len(s) \in Nat /\ Len(s) > 0 /\ Head(s) = s[1]
          BY <5>1
        <5> QED
          BY <5>2 DEF s
      <4> QED
        BY <4>2 DEF Elements
    <3>4. PartFree(plan'[m])
      BY <2>1, <3>1, <3>2, <3>3, FallbackNode DEF PartFree
    <3> QED
      BY <1>t, <2>1, <2>3, <3>1, <3>2, <3>4
  <2> QED
    BY <1>h, <2>1, <2>2, <2>3 DEF PartsOf
<1>10. CASE FallbackReturns(m)
  <2>1. /\ at[m] = "run" /\ via[m] = "fallback" /\ IsLeaf(plan[m]) /\ todo' = todo
        /\ at'[m] \in {"chain", "end"}
        /\ tracker' = tracker /\ verdicts' = verdicts /\ tried' = tried
    BY <1>10, EndAt DEF FallbackReturns, Returns, routing, TypeOK
  <2>2. CASE NotBegun(m)
    BY <1>q, <2>1, <2>2 DEF PartsOf
  <2>3. CASE Told(m)
    <3>1. "coupang" \notin Elements(todo'[m])
      BY <2>1, <2>3 DEF Told
    <3> QED
      BY <1>t, <2>1, <2>3, <3>1
  <2> QED
    BY <1>h, <2>1, <2>2, <2>3 DEF PartsOf
<1>11. CASE FallbackPanics(m)
  <2>1. /\ IsLeaf(plan[m]) /\ at' = at /\ via' = via /\ id' = id /\ plan' = plan /\ todo' = todo
        /\ tracker' = tracker /\ verdicts' = verdicts /\ tried' = tried
    BY <1>11 DEF FallbackPanics, Returns, routing
  <2>2. CASE NotBegun(m) /\ (at[m] = "run" => PartFree(plan[m]) \/ Unbegun(m))
    BY <1>q, <2>1, <2>2 DEF PartsOf, Unbegun
  <2>3. CASE Told(m)
    BY <1>t, <2>1, <2>3 DEF Told
  <2> QED
    BY <1>h, <2>1, <2>2, <2>3 DEF PartsOf
<1>12. CASE ChainEnds(m)
  <2>1. /\ at[m] = "chain" /\ at'[m] = "end"
        /\ tracker' = tracker /\ verdicts' = verdicts /\ tried' = tried
    BY <1>12, EndAt DEF ChainEnds
  <2>2. CASE NotBegun(m)
    BY <1>q, <2>1, <2>2 DEF PartsOf
  <2>3. CASE Told(m)
    BY <1>t, <2>1, <2>3
  <2> QED
    BY <1>h, <2>1, <2>2, <2>3 DEF PartsOf
<1> QED
  BY <1>1, <1>2, <1>3, <1>4, <1>5, <1>6, <1>7, <1>8, <1>9, <1>10, <1>11, <1>12 DEF Step

(* No event is forgotten.                                                   *)
LEMMA EventsStay ==
  ASSUME TypeOK, HistoryOK, NEW m \in Messages, RouteOf(m), Step(m)
  PROVE  Dispatched(m) \subseteq Dispatched(m)'
<1>1. CASE log' = log
  BY <1>1 DEF Dispatched, Names
<1>2. CASE \E names \in Seq(Events), c \in Commands : log' = Recorded(m, names, c)
  <2>1. \A S : Names(m, S) \subseteq Names(m, S)'
    BY <1>2, RecordedAt
  <2> QED
    BY <2>1 DEF Dispatched
<1> QED
  BY <1>1, <1>2, StepRecords

(* A reply that is sent is appended to those the room got.                  *)
LEMMA GotAfter ==
  ASSUME HistoryOK, NEW m \in Messages, NEW r \in {"reply", "coupang", "job"},
         got' = [got EXCEPT ![m] = Append(@, r)]
  PROVE  /\ got[m] = <<>> => got'[m] = <<r>>
         /\ got[m] = <<"coupang">> /\ r = "coupang" => got'[m] = <<"coupang", "coupang">>
<1>1. got'[m] = Append(got[m], r)
  BY DEF HistoryOK
<1>2. Append(<<>>, r) = <<r>>
  OBVIOUS
<1>3. ASSUME NEW s \in Seq({"reply", "coupang", "job"}), s = <<r>>
      PROVE  Append(s, r) = <<r, r>>
  <2>1. /\ Append(s, r) \in Seq({"reply", "coupang", "job"}) /\ Len(Append(s, r)) = 2
        /\ Append(s, r)[1] = r /\ Append(s, r)[2] = r
    BY <1>3
  <2>2. \A t \in Seq({"reply", "coupang", "job"}) : Len(t) = 2 => t = <<t[1], t[2]>>
    OBVIOUS
  <2> QED
    BY <2>1, <2>2
<1>4. got[m] \in Seq({"reply", "coupang", "job"})
  BY DEF HistoryOK
<1> QED
  BY <1>1, <1>2, <1>3, <1>4

(* A reply that was sent is the answer of its plan.                         *)
LEMMA AnswersAfterReply ==
  ASSUME TypeOK, HistoryOK, NEW m \in Messages, RouteOf(m), AnswersOf(m), Reply(m) \/ Submit(m)
  PROVE  AnswersOf(m)'
<1>1. SUFFICES ASSUME (\A i \in DOMAIN tried[m] : tried[m][i].ok)' PROVE AnswersOf(m)'
  BY DEF AnswersOf
<1> DEFINE p == plan[m]
<1>2. /\ at[m] = "run" /\ ~IsLeaf(p) /\ at'[m] = "run" /\ via'[m] = via[m] /\ id'[m] = id[m]
  BY DEF Reply, Submit
<1>3. /\ \A i \in DOMAIN tried[m] : tried[m][i].ok
      /\ plan'[m] = p.sent
      /\ p.part = "job" => got' = [got EXCEPT ![m] = Append(@, "job")]
      /\ p.part # "job" => got' = [got EXCEPT ![m] = Append(@, p.corr)]
  <2>1. CASE Submit(m)
    BY <1>1, <2>1 DEF Submit, HistoryOK
  <2>2. CASE Reply(m)
    <3>1. PICK ok \in BOOLEAN :
            /\ p.part # "job" /\ plan' = [plan EXCEPT ![m] = IF ok THEN p.sent ELSE p.failed]
            /\ tried' = [tried EXCEPT ![m] = Append(@, [part |-> p.part, corr |-> p.corr, ok |-> ok])]
            /\ got' = IF ok THEN [got EXCEPT ![m] = Append(@, p.corr)] ELSE got
      BY <2>2 DEF Reply
    <3> DEFINE t == [part |-> p.part, corr |-> p.corr, ok |-> ok]
    <3>2. t \in [part : {"text", "image"}, corr : {"reply", "coupang"}, ok : BOOLEAN] /\ t.ok = ok
      BY <1>2, <3>1, ReplyNode
    <3>3. tried' = [tried EXCEPT ![m] = Append(@, t)]
      BY <3>1
    <3> HIDE DEF t
    <3>4. t.ok /\ \A i \in DOMAIN tried[m] : tried[m][i].ok
      BY <1>1, <3>2, <3>3, TriedAfter
    <3>5. ok = TRUE
      BY <3>2, <3>4
    <3> QED
      BY <3>1, <3>4, <3>5 DEF HistoryOK
  <2> QED
    BY <2>1, <2>2
<1>4. p.part # "job" => p.part \in {"text", "image"} /\ p.corr \in {"reply", "coupang"}
  BY <1>2, ReplyNode
<1>5. CASE via[m] = "command"
  <2>1. id[m] \in Elements(Registered) /\ p \in Plans(id[m]) \cup CommandRests
    BY <1>2, <1>5 DEF RouteOf
  <2>2. \/ got[m] = <<>> /\ p \in Plans(id[m])
        \/ got[m] = <<"coupang">> /\ p = PriceText(2)
    BY <1>2, <1>3, <1>5, Leaves DEF AnswersOf
  <2>3. CASE got[m] = <<>> /\ p \in Plans(id[m])
    <3>1. /\ p.part = "job" <=> p.corr = "job"
          /\ p.sent \in {Done("nil"), Done("failed"), PriceText(2)}
          /\ p.sent = PriceText(2) => p.corr = "coupang"
          /\ p.corr \in {"reply", "coupang", "job"}
      BY <1>2, <2>1, <2>3, CommandNode
    <3>2. got'[m] = <<p.corr>>
      BY <1>3, <2>3, <3>1, GotAfter
    <3> QED
      BY <1>2, <1>3, <1>5, <3>1, <3>2 DEF AnswersOf, OneAnswer
  <2>4. CASE got[m] = <<"coupang">> /\ p = PriceText(2)
    <3>1. p.part = "text" /\ p.corr = "coupang" /\ p.sent = Done("nil")
      BY <2>4, Asks DEF PriceText
    <3>2. got'[m] = <<"coupang", "coupang">>
      BY <1>3, <2>4, <3>1, GotAfter
    <3> QED
      BY <1>2, <1>3, <1>5, <3>1, <3>2 DEF AnswersOf, OneAnswer
  <2> QED
    BY <2>2, <2>3, <2>4
<1>6. CASE via[m] = "fallback"
  <2>1. id[m] \in Elements(Deterministic) /\ p \in FallbackPlans(id[m]) \cup FallbackRests
    BY <1>2, <1>6 DEF RouteOf
  <2>2. \/ got[m] = <<>> /\ p \in FallbackPlans(id[m])
        \/ got[m] = <<"coupang">> /\ p = TextOrApology("coupang", 2)
    BY <1>2, <1>3, <1>6, Leaves DEF AnswersOf
  <2>3. CASE got[m] = <<>> /\ p \in FallbackPlans(id[m])
    <3>1. /\ p.part = "job" <=> p.corr = "job"
          /\ p.sent \in {Done("handled"), Done("failed"), TextOrApology("coupang", 2)}
          /\ p.sent = TextOrApology("coupang", 2) => p.corr = "coupang"
          /\ p.corr \in {"reply", "coupang", "job"}
      BY <1>2, <2>1, <2>3, FallbackNode
    <3>2. got'[m] = <<p.corr>>
      BY <1>3, <2>3, <3>1, GotAfter
    <3> QED
      BY <1>2, <1>3, <1>6, <3>1, <3>2 DEF AnswersOf, OneAnswer
  <2>4. CASE got[m] = <<"coupang">> /\ p = TextOrApology("coupang", 2)
    <3>1. p.part = "text" /\ p.corr = "coupang" /\ p.sent = Done("handled")
      BY <2>4, Asks DEF TextOrApology
    <3>2. got'[m] = <<"coupang", "coupang">>
      BY <1>3, <2>4, <3>1, GotAfter
    <3> QED
      BY <1>2, <1>3, <1>6, <3>1, <3>2 DEF AnswersOf, OneAnswer
  <2> QED
    BY <2>2, <2>3, <2>4
<1>7. CASE via[m] \in {"limited", "apology", "denial"}
  <2>1. got[m] = <<>> /\ p = Text("nil")
    BY <1>2, <1>3, <1>7, Leaves DEF AnswersOf
  <2>2. p.part = "text" /\ p.corr = "reply" /\ p.sent = Done("nil")
    BY <2>1, Asks DEF Text
  <2>3. got'[m] = <<"reply">>
    BY <1>3, <2>1, <2>2, GotAfter
  <2> QED
    BY <1>2, <1>3, <1>7, <2>2, <2>3 DEF AnswersOf, OneAnswer
<1> QED
  BY <1>2, <1>5, <1>6, <1>7 DEF RouteOf

(* A step keeps the answers of a message what its plan promises.            *)
LEMMA StepAnswers ==
  ASSUME TypeOK, HistoryOK, NEW m \in Messages, RouteOf(m), LogOf(m), AnswersOf(m), Step(m)
  PROVE  AnswersOf(m)'
<1>0. /\ Dispatched(m) \subseteq Dispatched(m)' /\ "none" \in Commands
      /\ Addressed(m)' <=> (Dispatched(m)' # {} \/ via'[m] = "denial")
      /\ \A c : Once(c) => c # {}
      /\ ~IsLeaf(Text("nil")) /\ ~IsLeaf(PriceText(2)) /\ ~IsLeaf(TextOrApology("coupang", 2))
      /\ \A r : IsLeaf(Done(r)) /\ Done(r).leaf = r
  BY EventsStay, Asks, Leaves DEF Addressed, Dispatched, Once, Commands, Text, PriceText, TextOrApology
<1>1. CASE Reply(m) \/ Submit(m)
  BY <1>1, AnswersAfterReply
<1>2. CASE ~Reply(m) /\ ~Submit(m)
  <2>1. tried' = tried /\ got' = got
    BY <1>2 DEF Step, Receive, DispatchDenied, DispatchHandler, Admit, RateLimit,
       CommandReturns, LimitedReturns, LastReplyReturns, FallbackDenied, FallbackPasses, FallbackRuns,
       FallbackReturns, FallbackPanics, ChainEnds
  <2>2. SUFFICES ASSUME \A i \in DOMAIN tried[m] : tried[m][i].ok PROVE AnswersOf(m)'
    BY <2>1 DEF AnswersOf
  <2>3. CASE Receive(m)
    <3>1. /\ at[m] = "new" /\ at'[m] \in {"end", "chosen", "chain"} /\ via' = via
          /\ \E c : log' = Recorded(m, <<"received">> \o IF Ignored(c) THEN <<"unmatched">> ELSE <<>>, "none")
      BY <2>3 DEF Receive, TypeOK
    <3>2. got[m] = <<>> /\ via[m] # "denial" /\ Dispatched(m) = {}
      BY <2>2, <3>1 DEF AnswersOf, RouteOf, LogOf
    <3>3. ~Addressed(m)'
      BY <1>0, <3>1, <3>2, EventCounts, Uncounted
    <3> QED
      BY <2>1, <3>1, <3>2, <3>3 DEF AnswersOf
  <2>4. CASE DispatchDenied(m) \/ RateLimit(m)
    <3>1. at[m] \in {"chosen", "limit"} /\ at'[m] = "run" /\ via'[m] \in {"denial", "limited"}
          /\ plan'[m] = Text("nil")
      BY <2>4, CallAt DEF DispatchDenied, RateLimit
    <3> QED
      BY <2>1, <2>2, <3>1 DEF AnswersOf
  <2>5. CASE DispatchHandler(m)
    <3>1. at[m] = "chosen" /\ at'[m] = "limit"
      BY <2>5 DEF DispatchHandler, TypeOK
    <3> QED
      BY <2>1, <2>2, <3>1 DEF AnswersOf
  <2>6. CASE Admit(m)
    <3>1. /\ at[m] = "limit" /\ at'[m] = "run" /\ via'[m] = "command" /\ id' = id
          /\ plan'[m] \in Plans(id[m])
      BY <2>6, CallAt DEF Admit
    <3> QED
      BY <2>1, <2>2, <3>1 DEF AnswersOf
  <2>7. CASE CommandReturns(m)
    <3> DEFINE r == plan[m].leaf
    <3>1. at[m] = "run" /\ via[m] = "command" /\ IsLeaf(plan[m]) /\ id' = id /\ HandleError(m, r)
      BY <2>7 DEF CommandReturns, Returns
    <3>2. Addressed(m)'
      BY <1>0, <3>1 DEF LogOf
    <3>3. id[m] \in Elements(Registered) /\ plan[m] \in Plans(id[m]) \cup CommandRests
      BY <3>1 DEF RouteOf
    <3>4. \/ got[m] = <<>> /\ plan[m] \in Plans(id[m])
          \/ OneAnswer(m) /\ r \in {"nil", "failed"}
      BY <1>0, <2>2, <3>1 DEF AnswersOf
    <3>5. plan[m] \in Plans(id[m]) => (r = "nil" => id[m] = Stock) /\ r # "failed"
      BY <3>1, <3>3, CommandNode
    <3>6. \/ /\ r = "nil" \/ r = "failed"
             /\ at'[m] = "end"
          \/ /\ r # "nil" /\ r # "failed"
             /\ at'[m] = "run" /\ via'[m] = "apology" /\ plan'[m] = Text("nil")
      BY <3>1, HandledAt
    <3> QED
      BY <2>1, <3>1, <3>2, <3>4, <3>5, <3>6 DEF AnswersOf, OneAnswer
  <2>8. CASE LimitedReturns(m) \/ LastReplyReturns(m)
    <3>1. /\ at[m] = "run" /\ via[m] \in {"limited", "apology", "denial"} /\ IsLeaf(plan[m]) /\ id' = id
          /\ via[m] = "limited" => HandleError(m, plan[m].leaf)
          /\ via[m] # "limited" => End(m)
      BY <2>8 DEF LimitedReturns, LastReplyReturns, Returns
    <3>2. OneAnswer(m) /\ plan[m] = Done("nil")
      BY <1>0, <2>2, <3>1 DEF AnswersOf
    <3>3. at'[m] = "end" /\ via'[m] = via[m]
      BY <1>0, <3>1, <3>2, HandledAt, EndAt
    <3>4. Addressed(m)'
      BY <1>0, <3>1, <3>3 DEF LogOf
    <3> QED
      BY <2>1, <3>2, <3>3, <3>4 DEF AnswersOf, OneAnswer
  <2>9. CASE FallbackDenied(m) \/ FallbackPasses(m)
    <3>1. at[m] = "chain" /\ at' = at
      BY <2>9 DEF FallbackDenied, FallbackPasses
    <3> QED
      BY <2>1, <2>2, <3>1 DEF AnswersOf
  <2>10. CASE FallbackRuns(m)
    <3>1. /\ at[m] = "chain" /\ at'[m] = "run" /\ via'[m] = "fallback" /\ id'[m] = Head(todo[m])
          /\ plan'[m] \in FallbackPlans(Head(todo[m]))
      BY <2>10, CallAt DEF FallbackRuns, TypeOK
    <3> QED
      BY <2>1, <2>2, <3>1 DEF AnswersOf
  <2>11. CASE FallbackReturns(m)
    <3> DEFINE r == plan[m].leaf
    <3>1. at[m] = "run" /\ via[m] = "fallback" /\ IsLeaf(plan[m]) /\ r # "panic"
      BY <2>11 DEF FallbackReturns, Returns
    <3>2. id[m] \in Elements(Deterministic) /\ plan[m] \in FallbackPlans(id[m]) \cup FallbackRests
      BY <3>1 DEF RouteOf
    <3>3. \/ got[m] = <<>> /\ r = "nil"
          \/ OneAnswer(m) /\ r \in {"handled", "failed"}
      <4>1. CASE got[m] = <<>> /\ plan[m] \in FallbackPlans(id[m])
        BY <3>1, <3>2, <4>1, FallbackNode
      <4>2. CASE OneAnswer(m) /\ plan[m] \in {Done("handled"), Done("failed")}
        BY <1>0, <4>2
      <4> QED
        BY <1>0, <2>2, <3>1, <4>1, <4>2 DEF AnswersOf
    <3>4. CASE r = "nil"
      <4>1. at'[m] = "chain"
        BY <2>11, <3>4 DEF FallbackReturns, TypeOK
      <4> QED
        BY <2>1, <3>3, <3>4, <4>1 DEF AnswersOf
    <3>5. CASE r # "nil"
      <4>1. /\ at'[m] = "end"
            /\ \E o \in {"succeeded", "failed"} : log' = Recorded(m, <<"dispatched", o>>, id[m])
        BY <2>11, <3>5, EndAt DEF FallbackReturns
      <4>2. Dispatched(m) = {} /\ Outcomes(m) = {} /\ id[m] \in Commands
        BY <3>1 DEF LogOf, TypeOK
      <4>3. Addressed(m)'
        BY <1>0, <4>1, <4>2, BothCounted
      <4> QED
        BY <2>1, <3>3, <3>5, <4>1, <4>3 DEF AnswersOf, OneAnswer
    <3> QED
      BY <3>4, <3>5
  <2>12. CASE FallbackPanics(m)
    <3>1. at' = at /\ via' = via /\ id' = id /\ plan' = plan /\ log' = log
      BY <2>12 DEF FallbackPanics
    <3>2. Addressed(m)' <=> Addressed(m)
      BY <3>1 DEF Addressed, Names
    <3> QED
      BY <2>1, <3>1, <3>2 DEF AnswersOf, OneAnswer
  <2>13. CASE ChainEnds(m)
    <3>1. /\ at[m] = "chain" /\ at'[m] = "end" /\ via'[m] = via[m]
          /\ log' = log \/ \E s \in {<<"unmatched">>, <<"policy_skip">>} : log' = Recorded(m, s, "none")
      BY <2>13, EndAt DEF ChainEnds
    <3>2. got[m] = <<>> /\ via[m] # "denial" /\ Dispatched(m) = {}
      BY <2>2, <3>1 DEF AnswersOf, RouteOf, LogOf
    <3>3. Dispatched(m)' = {}
      <4>1. CASE log' = log
        BY <3>2, <4>1 DEF Dispatched, Names
      <4>2. CASE \E s \in {<<"unmatched">>, <<"policy_skip">>} : log' = Recorded(m, s, "none")
        BY <1>0, <3>2, <4>2, EventSequences, EventCounts, Uncounted
      <4> QED
        BY <3>1, <4>1, <4>2
    <3>4. ~Addressed(m)'
      BY <1>0, <3>1, <3>2, <3>3
    <3> QED
      BY <2>1, <3>1, <3>2, <3>4 DEF AnswersOf
  <2> QED
    BY <1>2, <2>3, <2>4, <2>5, <2>6, <2>7, <2>8, <2>9, <2>10, <2>11, <2>12, <2>13 DEF Step
<1> QED
  BY <1>1, <1>2

(* The invariant holds at first, and a step keeps it.                       *)
LEMMA InitInv == Init => IInv
<1> SUFFICES ASSUME Init PROVE IInv
  OBVIOUS
<1>1. TypeOK
  <2>1. NoMatch \in MatchSet
    BY DEF NoMatch, MatchSet, Commands
  <2>2. Burst \in Nat
    BY DispatchAssumption
  <2>3. PlanShape(Done("nil"))
    BY Leaves DEF PlanShape
  <2> QED
    <3>1. /\ msg \in [Messages -> MatchSet] /\ barred \in [Messages -> SUBSET Intents]
          /\ at \in [Messages -> {"new", "chosen", "limit", "run", "chain", "end"}]
          /\ id \in [Messages -> Commands]
          /\ via \in [Messages -> {"none", "command", "limited", "apology", "denial", "fallback"}]
      BY <2>1 DEF Init, Commands
    <3>2. \A m \in Messages : PlanShape(plan[m]) /\ Elements(todo[m]) \subseteq Intents
      BY <2>3 DEF Init, Elements
    <3>3. denied \in [Messages -> BOOLEAN] /\ crashed \in BOOLEAN
      BY DEF Init
    <3>4. tokens \in [Intents -> 0 .. Burst]
      BY <2>2 DEF Init
    <3>5. DOMAIN tracker \subseteq Messages
      BY DEF Init
    <3> QED
      BY <3>1, <3>2, <3>3, <3>4, <3>5 DEF TypeOK
<1>2. HistoryOK
  BY DEF Init, HistoryOK
<1>3. ASSUME NEW m \in Messages
      PROVE  RouteOf(m) /\ LogOf(m) /\ PartsOf(m) /\ AnswersOf(m)
  <2>1. /\ at[m] = "new" /\ via[m] = "none" /\ todo[m] = <<>> /\ log[m] = <<>> /\ got[m] = <<>>
        /\ tried[m] = <<>> /\ DOMAIN tracker = {} /\ verdicts = {}
    BY DEF Init
  <2>2. RouteOf(m)
    BY <2>1 DEF RouteOf
  <2>3. Dispatched(m) = {} /\ Outcomes(m) = {}
    BY <2>1 DEF Dispatched, Outcomes, Names
  <2>4. ProductParts(m) = {}
    BY <2>1 DEF ProductParts
  <2>5. PartsOf(m)
    BY <2>1, <2>4 DEF PartsOf, NotBegun, VerdictsOf
  <2> QED
    BY <2>1, <2>2, <2>3, <2>5 DEF LogOf, AnswersOf
<1> QED
  BY <1>1, <1>2, <1>3 DEF IInv

(* A step of a message, a refill of a token, or none.                       *)
LEMMA NextInv == IInv /\ [Next]_vars => IInv'
<1> SUFFICES ASSUME IInv, [Next]_vars PROVE IInv'
  OBVIOUS
<1>0. TypeOK /\ HistoryOK /\ \A m \in Messages : RouteOf(m) /\ LogOf(m) /\ PartsOf(m) /\ AnswersOf(m)
  BY DEF IInv
<1>1. ASSUME NEW m \in Messages, Step(m)
      PROVE  IInv'
  <2>1. TypeOK' /\ HistoryOK'
    BY <1>0, <1>1, StepTypes, StepHistory
  <2>2. (RouteOf(m) /\ LogOf(m) /\ PartsOf(m) /\ AnswersOf(m))'
    BY <1>0, <1>1, StepRoute, StepLog, StepParts, StepAnswers
  <2>3. ASSUME NEW n \in Messages \ {m}
        PROVE  (RouteOf(n) /\ LogOf(n) /\ PartsOf(n) /\ AnswersOf(n))'
    <3>1. Elsewhere(n)
      BY <1>0, <1>1, StepElsewhere
    <3> QED
      BY <1>0, <3>1, KeptElsewhere
  <2> QED
    BY <2>1, <2>2, <2>3 DEF IInv
<1>2. ASSUME UNCHANGED <<at, id, via, plan, todo, tracker, log, got, tried, verdicts>>, TypeOK'
      PROVE  IInv'
  <2>1. HistoryOK'
    BY <1>0, <1>2 DEF HistoryOK
  <2>2. ASSUME NEW n \in Messages
        PROVE  (RouteOf(n) /\ LogOf(n) /\ PartsOf(n) /\ AnswersOf(n))'
    <3>1. Elsewhere(n)
      BY <1>2 DEF Elsewhere, VerdictsOf
    <3> QED
      BY <1>0, <3>1, KeptElsewhere
  <2> QED
    BY <1>2, <2>1, <2>2 DEF IInv
<1>3. ASSUME NEW c \in Intents, Refill(c)
      PROVE  IInv'
  <2>1. tokens \in [Intents -> 0 .. Burst] /\ Burst \in Nat
    BY <1>0, DispatchAssumption DEF TypeOK
  <2>2. tokens' = [tokens EXCEPT ![c] = tokens[c] + 1] /\ tokens[c] < Burst
    BY <1>3 DEF Refill
  <2>3. tokens' \in [Intents -> 0 .. Burst]
    <3>1. tokens[c] + 1 \in 0 .. Burst
      BY <2>1, <2>2
    <3> QED
      BY <2>1, <2>2, <3>1
  <2>4. TypeOK'
    BY <1>0, <1>3, <2>3 DEF Refill, TypeOK, routing
  <2> QED
    BY <1>2, <1>3, <2>4 DEF Refill, routing
<1>4. ASSUME UNCHANGED vars
      PROVE  IInv'
  <2>1. TypeOK'
    BY <1>0, <1>4 DEF vars, TypeOK
  <2> QED
    BY <1>2, <1>4, <2>1 DEF vars
<1> QED
  BY <1>1, <1>3, <1>4 DEF Next

(* Types, routes, events, parts and answers belong together in every        *)
(* reachable state, whatever messages interleave.                           *)
THEOREM Inductive == Spec => []IInv
BY InitInv, NextInv, PTL DEF Spec

(* Types are kept.                                                          *)
THEOREM TypeCorrect == Spec => []TypeOK
<1>1. IInv => TypeOK
  BY DEF IInv
<1> QED
  BY <1>1, Inductive, PTL

(* OutcomePerCommand: every dispatched command has one outcome by the end of *)
(* its dispatch, a panic apart, and no message is dispatched to two.        *)
THEOREM OneOutcomePerCommand == Spec => []OutcomePerCommand
<1>1. IInv => OutcomePerCommand
  <2>1. SUFFICES ASSUME NEW m \in Messages, LogOf(m)
                 PROVE  LET dispatched == Cardinality(Names(m, {"dispatched"}))
                            outcomes == Cardinality(Names(m, {"succeeded", "failed", "rate_limited"}))
                            panicked == id[m] = "coupang" /\ via[m] = "apology"
                        IN /\ dispatched <= 1 /\ outcomes <= dispatched
                           /\ at[m] = "end" /\ ~panicked => outcomes = dispatched
    BY DEF IInv, OutcomePerCommand
  <2>2. \A s : (s = {} => Cardinality(s) = 0) /\ (Once(s) => Cardinality(s) = 1)
    BY FS_EmptySet, FS_Singleton DEF Once
  <2> QED
    BY <2>1, <2>2 DEF LogOf, Dispatched, Outcomes
<1> QED
  BY <1>1, Inductive, PTL

(* AnsweredOnce: while no reply fails, a message for a command is answered  *)
(* once, and one for none is not answered.                                  *)
THEOREM OneAnswerPerCommand == Spec => []AnsweredOnce
<1>1. ASSUME NEW m \in Messages
      PROVE  /\ got[m] = <<>> => Answers(m) = 0
             /\ OneAnswer(m) => Answers(m) = 1
  <2>1. CASE got[m] = <<>>
    <3>1. {i \in DOMAIN got[m] : got[m][i] # "coupang"} = {} /\ Elements(got[m]) = {}
      BY <2>1 DEF Elements
    <3>2. got[m] \notin {<<"reply">>, <<"job">>, <<"coupang">>, <<"coupang", "coupang">>}
      BY <2>1
    <3>3. Cardinality({i \in DOMAIN got[m] : got[m][i] # "coupang"}) = 0
      BY <3>1, FS_EmptySet
    <3>4. Answers(m) = 0
      BY <3>1, <3>3 DEF Answers
    <3> QED
      BY <3>2, <3>4 DEF OneAnswer
  <2>2. CASE got[m] = <<"reply">> \/ got[m] = <<"job">>
    <3>1. DOMAIN got[m] = {1} /\ got[m][1] # "coupang"
      BY <2>2
    <3>2. {i \in DOMAIN got[m] : got[m][i] # "coupang"} = {1} /\ "coupang" \notin Elements(got[m])
      BY <3>1 DEF Elements
    <3>3. Cardinality({i \in DOMAIN got[m] : got[m][i] # "coupang"}) = 1
      BY <3>2, FS_Singleton
    <3>4. Answers(m) = 1
      BY <3>2, <3>3 DEF Answers
    <3> QED
      BY <2>2, <3>4
  <2>3. CASE got[m] = <<"coupang">> \/ got[m] = <<"coupang", "coupang">>
    <3>1. 1 \in DOMAIN got[m] /\ \A i \in DOMAIN got[m] : got[m][i] = "coupang"
      BY <2>3
    <3>2. {i \in DOMAIN got[m] : got[m][i] # "coupang"} = {} /\ "coupang" \in Elements(got[m])
      BY <3>1 DEF Elements
    <3>3. Cardinality({i \in DOMAIN got[m] : got[m][i] # "coupang"}) = 0
      BY <3>2, FS_EmptySet
    <3>4. Answers(m) = 1
      BY <3>2, <3>3 DEF Answers
    <3>5. got[m] # <<>>
      <4>1. DOMAIN <<>> = {}
        OBVIOUS
      <4> QED
        BY <3>1, <4>1
    <3> QED
      BY <2>3, <3>4, <3>5
  <2> QED
    BY <2>1, <2>2, <2>3 DEF OneAnswer
<1>2. IInv => AnsweredOnce
  BY <1>1 DEF IInv, AnsweredOnce, AnswersOf
<1> QED
  BY <1>2, Inductive, PTL

(* VerdictOfAllParts: a price in one or two parts is judged once, by all of *)
(* them, and the tracker has forgotten it by the end of the dispatch.       *)
THEOREM OneVerdictPerProduct == Spec => []VerdictOfAllParts
<1>1. IInv => VerdictOfAllParts
  <2>1. SUFFICES ASSUME NEW m \in Messages, PartsOf(m)
                 PROVE  /\ Cardinality(VerdictsOf(m)) <= 1
                        /\ \A v \in VerdictsOf(m) :
                             {[part |-> p, ok |-> v.parts[p]] : p \in DOMAIN v.parts} = ProductParts(m)
                        /\ at[m] = "end" =>
                             m \notin DOMAIN tracker /\ (VerdictsOf(m) = {} <=> ProductParts(m) = {})
    BY DEF IInv, VerdictOfAllParts, VerdictsOf
  <2>2. Cardinality({}) = 0 /\ \A v : Cardinality({v}) = 1
    BY FS_EmptySet, FS_Singleton
  <2>3. CASE NotBegun(m)
    BY <2>2, <2>3 DEF NotBegun
  <2>4. CASE HalfTold(m)
    BY <2>2, <2>4 DEF HalfTold
  <2>5. CASE Told(m)
    <3>1. PICK v \in verdicts :
            /\ VerdictsOf(m) = {v} /\ ProductParts(m) # {}
            /\ {[part |-> p, ok |-> v.parts[p]] : p \in DOMAIN v.parts} = ProductParts(m)
      BY <2>5 DEF Told
    <3>2. m \notin DOMAIN tracker /\ Cardinality(VerdictsOf(m)) = 1
      BY <2>2, <2>5, <3>1 DEF Told
    <3>3. \A w \in VerdictsOf(m) : w = v
      BY <3>1
    <3>4. \A w \in VerdictsOf(m) :
            {[part |-> p, ok |-> w.parts[p]] : p \in DOMAIN w.parts} = ProductParts(m)
      BY <3>1, <3>3
    <3>5. VerdictsOf(m) # {}
      BY <3>1
    <3> QED
      BY <3>1, <3>2, <3>4, <3>5
  <2> QED
    BY <2>1, <2>3, <2>4, <2>5 DEF PartsOf
<1> QED
  BY <1>1, Inductive, PTL
==============================================================================
