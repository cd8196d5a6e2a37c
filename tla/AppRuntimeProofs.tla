--------------------------- MODULE AppRuntimeProofs ---------------------------
(***************************************************************************)
(* What holds of the process for any messages, any of its transports, any  *)
(* configuration and any number of summary workers; of the caches of quotes *)
(* its pollers fill, for any codes and lookups; of the schedules of sports, *)
(* for any matches; and of the admin dashboard it serves, for any rooms,    *)
(* windows and users.  The four share no state.                             *)
(***************************************************************************)
EXTENDS AppRuntime, QuoteCaches, SportsPoller, Dashboard,
        TLAPS, FiniteSetTheorems, WellFoundedInduction

(* Build wires eleven modules; a component of the lifecycle belongs to one. *)
LEMMA ModulesAre ==
  ASSUME NEW t \in Transports
  PROVE  /\ Len(ModulesFor[t]) = 11
         /\ \A i \in (1 .. 11) \ {10} : ModulesFor[t][i] = ModulesFor["none"][i]
         /\ ModulesFor[t][10] = AdapterWiring(t)
         /\ \A c : c \in StartedBy[t] <=> \E i \in 1 .. 11 : c \in ModulesFor[t][i].starts
<1>1. ModulesFor[t] =
           <<MetricsRuntime, Middlewares, AccessRuntime, CoinModule, StockModule, CoupangModule,
             SportsModule, LottoModule, SummaryModule, AdapterWiring(t), AdminRuntime>>
  BY DEF ModulesFor
<1>2. ModulesFor["none"] =
           <<MetricsRuntime, Middlewares, AccessRuntime, CoinModule, StockModule, CoupangModule,
             SportsModule, LottoModule, SummaryModule, AdapterWiring("none"), AdminRuntime>>
  BY DEF ModulesFor, Transports
<1>3. Len(ModulesFor[t]) = 11 /\ DOMAIN ModulesFor[t] = 1 .. 11
  BY <1>1
<1>4. ModulesFor[t][10] = AdapterWiring(t)
  BY <1>1
<1>5. \A i \in (1 .. 11) \ {10} : ModulesFor[t][i] = ModulesFor["none"][i]
  BY <1>1, <1>2
<1>6. ASSUME NEW c PROVE c \in StartedBy[t] <=> \E i \in 1 .. 11 : c \in ModulesFor[t][i].starts
  <2>1. StartedBy[t] = UNION {wired.starts : wired \in ToSet(ModulesFor[t])}
    BY DEF StartedBy
  <2>2. ToSet(ModulesFor[t]) = {ModulesFor[t][i] : i \in 1 .. 11}
    BY <1>3 DEF ToSet
  <2> HIDE DEF ModulesFor
  <2> QED
    BY <2>1, <2>2
<1> QED
  BY <1>3, <1>4, <1>5, <1>6

LEMMA ComponentsAre ==
  ASSUME NEW t \in Transports
  PROVE  /\ {"summary-executor", "coupang-async"} \subseteq StartedBy[t]
         /\ Pollers \subseteq StartedBy[t]
         /\ "transport-adapter" \in StartedBy[t] <=> t # "none"
<1>0. "none" \in Transports
  BY DEF Transports
<1>1. /\ AdapterWiring(t).starts = IF t = "none" THEN {} ELSE {"transport-adapter"}
      /\ AdapterWiring("none").starts = {}
  BY DEF AdapterWiring, Wired
<1>2. \A i \in (1 .. 11) \ {10} : "transport-adapter" \notin ModulesFor["none"][i].starts
  <2>1. ModulesFor["none"] =
           <<MetricsRuntime, Middlewares, AccessRuntime, CoinModule, StockModule, CoupangModule,
             SportsModule, LottoModule, SummaryModule, AdapterWiring("none"), AdminRuntime>>
    BY DEF ModulesFor, Transports
  <2>2. /\ MetricsRuntime.starts \subseteq {"metrics-recorder"} /\ AccessRuntime.starts = {}
        /\ AdminRuntime.starts \subseteq {"admin-server"}
    BY DEF MetricsRuntime, AccessRuntime, AdminRuntime, If, Wired
  <2>3. "transport-adapter" \notin Middlewares.starts \cup CoinModule.starts \cup StockModule.starts
           \cup CoupangModule.starts \cup SportsModule.starts \cup LottoModule.starts \cup SummaryModule.starts
    BY DEF Middlewares, CoinModule, StockModule, CoupangModule, SportsModule, LottoModule, SummaryModule, Wired
  <2> QED
    BY <2>1, <2>2, <2>3
<1>3. "summary-executor" \in ModulesFor[t][9].starts /\ "coupang-async" \in ModulesFor[t][6].starts
  BY DEF ModulesFor, SummaryModule, CoupangModule, Wired
<1>4. Pollers \subseteq StartedBy[t]
  BY <1>0, <1>1, ModulesAre DEF Pollers
<1>5. "transport-adapter" \in StartedBy[t] <=> t # "none"
  BY <1>0, <1>1, <1>2, ModulesAre
<1>6. {"summary-executor", "coupang-async"} \subseteq StartedBy[t]
  BY <1>3, ModulesAre
<1> QED
  BY <1>4, <1>5, <1>6

LEMMA PollersAre ==
  Pollers \cap {"summary-executor", "coupang-async", "transport-adapter"} = {}
BY ComponentsAre DEF Pollers, Transports

(* A channel of errors, one end and the other.                              *)
LEMMA ChannelParts ==
  ASSUME NEW S, NEW q \in Seq(S)
  PROVE  /\ ToSet(q) \subseteq S
         /\ q # <<>> => /\ Head(q) \in ToSet(q) /\ Tail(q) \in Seq(S)
                        /\ ToSet(q) = ToSet(Tail(q)) \cup {Head(q)}
         /\ \A e \in S : q \o <<e>> \in Seq(S) /\ ToSet(q \o <<e>>) = ToSet(q) \cup {e}
         /\ q \o <<>> = q
         /\ ToSet(<<>>) = {}
<1>1. ToSet(q) = {q[i] : i \in 1 .. Len(q)}
  BY DEF ToSet
<1>2. ASSUME q # <<>>
      PROVE  /\ Head(q) \in ToSet(q) /\ Tail(q) \in Seq(S)
             /\ ToSet(q) = ToSet(Tail(q)) \cup {Head(q)}
  <2>1. Tail(q) \in Seq(S) /\ Len(Tail(q)) = Len(q) - 1 /\ Len(q) \in Nat \ {0} /\ Head(q) = q[1]
    BY <1>2
  <2>2. ToSet(Tail(q)) = {Tail(q)[i] : i \in 1 .. Len(Tail(q))}
    <3>1. DOMAIN Tail(q) = 1 .. Len(Tail(q))
      BY <2>1
    <3> QED
      BY <3>1 DEF ToSet
  <2>3. \A i \in 1 .. Len(Tail(q)) : Tail(q)[i] = q[i + 1]
    BY <2>1
  <2>4. ASSUME NEW i \in 1 .. Len(q) PROVE q[i] \in ToSet(Tail(q)) \cup {Head(q)}
    <3>1. CASE i = 1
      BY <2>1, <3>1
    <3>2. CASE i # 1
      <4>1. i - 1 \in 1 .. Len(Tail(q)) /\ Tail(q)[i - 1] = q[i]
        BY <2>1, <3>2
      <4> QED
        BY <2>2, <4>1
    <3> QED
      BY <3>1, <3>2
  <2>5. ToSet(Tail(q)) \subseteq ToSet(q)
    BY <1>1, <2>1, <2>2, <2>3
  <2>6. Head(q) \in ToSet(q)
    BY <1>1, <2>1
  <2> QED
    BY <1>1, <2>1, <2>4, <2>5, <2>6
<1>3. ASSUME NEW e \in S
      PROVE  q \o <<e>> \in Seq(S) /\ ToSet(q \o <<e>>) = ToSet(q) \cup {e}
  <2> DEFINE r == q \o <<e>>
  <2>1. r \in Seq(S) /\ Len(r) = Len(q) + 1 /\ Len(q) \in Nat
    OBVIOUS
  <2>2. \A i \in 1 .. Len(r) : r[i] = IF i <= Len(q) THEN q[i] ELSE e
    OBVIOUS
  <2>3. ToSet(r) = {r[i] : i \in 1 .. Len(r)}
    BY <2>1 DEF ToSet
  <2> HIDE DEF r
  <2>4. ToSet(r) \subseteq ToSet(q) \cup {e}
    BY <1>1, <2>1, <2>2, <2>3
  <2>5. ToSet(q) \subseteq ToSet(r)
    BY <1>1, <2>1, <2>2, <2>3
  <2>6. e \in ToSet(r)
    <3>1. Len(r) \in 1 .. Len(r) /\ r[Len(r)] = e
      BY <2>1, <2>2
    <3> QED
      BY <2>3, <3>1
  <2> QED
    BY <2>1, <2>4, <2>5, <2>6 DEF r
<1>4. q \o <<>> = q /\ ToSet(<<>>) = {} /\ ToSet(q) \subseteq S
  BY <1>1 DEF ToSet
<1> QED
  BY <1>2, <1>3, <1>4

------------------------------------------------------------------------------
LEMMA InitHolds == Init => IInv
<1> SUFFICES ASSUME Init PROVE IInv
  OBVIOUS
<1>1. Len(Modules) = 11
  BY ModulesAre DEF Init, Modules
<1>2. errs \in Seq(Fallible) /\ ToSet(errs) = {}
  BY DEF Init, ToSet
<1>3. TypeOK
  <2>1. /\ msg \in [Messages -> MsgSteps] /\ job \in [Jobs -> JobSteps] /\ root \in [Jobs -> Roots]
        /\ gone \subseteq Messages /\ late \subseteq Jobs
        /\ answered \subseteq Messages /\ unheard \subseteq Messages
    BY DEF Init, MsgSteps, JobSteps, Roots
  <2>2. /\ transport \in Transports /\ built \in 0 .. Len(Modules)
        /\ main \in {"building", "waiting", "draining", "closing", "stopped"}
    BY <1>1 DEF Init
  <2>b. signalled \in BOOLEAN /\ stopping \in BOOLEAN
    BY Zenon DEF Init
  <2>3. /\ begun \subseteq Components /\ returned \subseteq Components /\ failed \subseteq returned
        /\ ToSet(errs) \subseteq failed /\ first \in failed \cup {NoError, "build"}
    BY <1>2 DEF Init
  <2> QED
    BY <2>1, <2>2, <2>3, <2>b DEF TypeOK
<1>4. ErrorsOK
  BY <1>1, <1>2 DEF Init, ErrorsOK, NoError
<1>5. JobsOK
  BY DEF Init, JobsOK, Handling, Tasks
<1> QED
  BY <1>3, <1>4, <1>5 DEF IInv

(* A component that can still return is not one the closers wait for.       *)
LEMMA AliveBeforeClosing ==
  ASSUME JobsOK, NEW c, Alive(c)
  PROVE  main \in {"waiting", "draining"} /\ c \in Components
BY DEF JobsOK, Alive, Started, AllReturned

(* Components return together without an error, or one with an error.       *)
LEMMA ReturnKeeps ==
  ASSUME TypeOK, ErrorsOK, NEW cs \in SUBSET Components, NEW errors, Return(cs, errors),
         \/ errors = <<>>
         \/ main \in {"waiting", "draining"} /\ \E e \in Fallible \cap cs : errors = <<e>>
  PROVE  /\ ErrorsOK'
         /\ UNCHANGED <<buildVars, main, signalled, stopping, begun>>
         /\ returned' \subseteq Components /\ failed' \subseteq returned'
         /\ ToSet(errs') \subseteq failed' /\ first' \in failed' \cup {NoError, "build"}
<1>0. Modules' = Modules
  BY DEF Return, buildVars, Modules
<1>1. CASE errors = <<>>
  <2>1. UNCHANGED <<errs, failed, main, first, built>>
    BY <1>1, ChannelParts DEF Return, ErrorsOK, buildVars
  <2> QED
    BY <1>0, <2>1 DEF Return, TypeOK, ErrorsOK
<1>2. ASSUME NEW e \in Fallible \cap cs, errors = <<e>>, main \in {"waiting", "draining"}
      PROVE  /\ ErrorsOK' /\ failed' \subseteq returned'
             /\ ToSet(errs') \subseteq failed' /\ first' \in failed' \cup {NoError, "build"}
  <2>1. ToSet(errors) = {e}
    BY <1>2 DEF ToSet
  <2>2. failed' = failed \cup {e} /\ UNCHANGED <<main, first, built>>
    BY <2>1 DEF Return, buildVars
  <2>3. errs' \in Seq(Fallible) /\ ToSet(errs') = ToSet(errs) \cup {e}
    BY <1>2, ChannelParts DEF Return, ErrorsOK
  <2> QED
    BY <1>0, <1>2, <2>2, <2>3 DEF Return, TypeOK, ErrorsOK
<1> QED
  BY <1>0, <1>1, <1>2 DEF Return, TypeOK

LEMMA MainKeeps ==
  ASSUME IInv, Main
  PROVE  IInv'
<1> USE DEF msgVars, buildVars, replyVars
<1>0. TypeOK /\ ErrorsOK /\ JobsOK
  BY DEF IInv
<1>m. UNCHANGED <<transport, msgVars, begun, returned, failed, signalled>>
  BY DEF Main, Build, SeeSignal, SeeError, Drain, CloseNext, Exit, runVars
<1>n. Len(Modules) = 11 /\ Modules' = Modules
  BY <1>0, <1>m, ModulesAre DEF Modules, TypeOK
<1>a. ASSUME main' = "closing" => AllReturned /\ stopping' PROVE JobsOK'
  BY <1>0, <1>m, <1>a DEF JobsOK, AllReturned, Components, Summaries, Tasks, Group, Handling
<1>b. ASSUME /\ built' \in 0 .. 11 /\ main' \in {"building", "waiting", "draining", "closing", "stopped"}
             /\ stopping' \in BOOLEAN /\ ToSet(errs') \subseteq failed
             /\ first' \in failed \cup {NoError, "build"}
      PROVE  TypeOK'
  BY <1>0, <1>m, <1>n, <1>b DEF TypeOK, Components
<1>c. failed \subseteq Fallible /\ NoError \notin Fallible /\ "build" \notin Fallible
  BY <1>0 DEF ErrorsOK, Fallible, NoError
<1>d. /\ ToSet(errs) \subseteq failed /\ ToSet(<<>>) = {} /\ <<>> \in Seq(Fallible)
      /\ errs # <<>> => /\ Head(errs) \in failed /\ ToSet(Tail(errs)) \subseteq failed
                        /\ Tail(errs) \in Seq(Fallible)
  BY <1>0, ChannelParts DEF ErrorsOK, TypeOK, ToSet
<1>1. CASE Build
  <2>1. main = "building" /\ built \in 0 .. 10 /\ UNCHANGED <<stopping, errs, failed>>
    BY <1>0, <1>1, <1>n DEF Build, ErrorsOK, TypeOK
  <2>2. \/ built' = built + 1 /\ main' = (IF built' = 11 THEN "waiting" ELSE "building") /\ UNCHANGED first
        \/ built' = built /\ main' = "stopped" /\ first' = "build"
    BY <1>1, <1>n DEF Build
  <2>3. first # "build"
    BY <1>0, <2>1 DEF ErrorsOK
  <2>4. ErrorsOK'
    <3>1. /\ failed' \subseteq Fallible /\ errs' \in Seq(Fallible) /\ errs' = <<>>
          /\ first' = NoError => failed' \subseteq ToSet(errs')
      BY <1>0, <2>1, <2>2 DEF ErrorsOK, NoError
    <3>2. /\ main' = "building" => built' < 11
          /\ first' = "build" => built' < 11 /\ main' = "stopped"
      BY <2>1, <2>2, <2>3
    <3> QED
      BY <1>n, <3>1, <3>2 DEF ErrorsOK
  <2>5. TypeOK'
    BY <1>0, <1>b, <2>1, <2>2 DEF TypeOK
  <2> QED
    BY <1>a, <2>2, <2>4, <2>5 DEF IInv
<1>2. CASE SeeSignal
  BY <1>0, <1>a, <1>b, <1>n, <1>2 DEF SeeSignal, IInv, ErrorsOK, TypeOK
<1>3. CASE SeeError
  <2>1. ErrorsOK'
    BY <1>0, <1>c, <1>d, <1>n, <1>3 DEF SeeError, ErrorsOK
  <2> QED
    BY <1>0, <1>a, <1>b, <1>d, <1>n, <1>3, <2>1 DEF SeeError, IInv, TypeOK
<1>4. CASE Drain
  <2>1. ErrorsOK'
    BY <1>0, <1>c, <1>d, <1>n, <1>4 DEF Drain, ErrorsOK
  <2> QED
    BY <1>0, <1>a, <1>b, <1>d, <1>n, <1>4, <2>1 DEF Drain, Awaited, IInv, TypeOK
<1>5. CASE CloseNext
  <2>1. UNCHANGED <<main, stopping, errs, first, built>>
    BY <1>5 DEF CloseNext, runVars
  <2> QED
    BY <1>0, <1>a, <1>b, <1>m, <1>n, <2>1 DEF IInv, ErrorsOK, TypeOK, JobsOK
<1>6. CASE Exit
  BY <1>0, <1>a, <1>b, <1>m, <1>n, <1>6 DEF Exit, IInv, ErrorsOK, TypeOK
<1> QED
  BY <1>1, <1>2, <1>3, <1>4, <1>5, <1>6 DEF Main

(* What the messages and the jobs are stays of its type, whatever returns.  *)
MsgTypes ==
  /\ msg \in [Messages -> MsgSteps] /\ job \in [Jobs -> JobSteps] /\ root \in [Jobs -> Roots]
  /\ gone \subseteq Messages /\ late \subseteq Jobs
  /\ answered \subseteq Messages /\ unheard \subseteq Messages

LEMMA ReturnsKeep ==
  ASSUME IInv, Ends \/ AdminReturns
  PROVE  IInv'
<1>0. TypeOK /\ ErrorsOK /\ JobsOK
  BY DEF IInv
<1>m. MsgTypes
  BY <1>0 DEF TypeOK, MsgTypes
<1>p. Pollers \subseteq Components /\ transport \in Transports
  BY <1>0, ComponentsAre DEF Components, TypeOK
<1>1. ASSUME NEW cs \in SUBSET Components, NEW errors, Return(cs, errors),
             \/ errors = <<>>
             \/ main \in {"waiting", "draining"} /\ \E e \in Fallible \cap cs : errors = <<e>>,
             UNCHANGED <<msg, job, root, late, replyVars>>, gone' \subseteq Messages,
             "summary-executor" \in cs => Summaries = {},
             "coupang-async" \in cs => Group = {},
             transport = "iris" /\ "transport-adapter" \in cs => Handling = {}
      PROVE  IInv'
  <2>1. /\ ErrorsOK'
        /\ UNCHANGED <<buildVars, main, signalled, stopping, begun>>
        /\ returned' \subseteq Components /\ failed' \subseteq returned'
        /\ ToSet(errs') \subseteq failed' /\ first' \in failed' \cup {NoError, "build"}
    BY <1>0, <1>1, ReturnKeeps
  <2>2. UNCHANGED <<transport, built>> /\ Components' = Components /\ Modules' = Modules
    BY <2>1 DEF buildVars, Components, Modules
  <2>3. MsgTypes'
    BY <1>1, <1>m DEF MsgTypes, replyVars
  <2>4. TypeOK'
    BY <1>0, <2>1, <2>2, <2>3 DEF TypeOK, MsgTypes
  <2>5. returned' = returned \cup cs
    BY <1>1 DEF Return
  <2>6. Summaries' = Summaries /\ Tasks' = Tasks /\ Group' = Group /\ Handling' = Handling
    BY <1>1 DEF Summaries, Tasks, Group, Handling
  <2>7. main' = "closing" => AllReturned' /\ stopping'
    BY <1>0, <2>1, <2>2, <2>5 DEF JobsOK, AllReturned
  <2>8. JobsOK'
    BY <1>0, <1>1, <2>2, <2>5, <2>6, <2>7 DEF JobsOK
  <2> QED
    BY <2>1, <2>4, <2>8 DEF IInv
<1>g. gone \subseteq Messages /\ Handling \subseteq Messages
  BY <1>m DEF MsgTypes, Handling
<1>2. CASE PollersReturn
  <2>1. Return(Pollers, <<>>) /\ UNCHANGED msgVars
    BY <1>2 DEF PollersReturn
  <2> QED
    BY <1>1, <1>g, <1>p, <2>1, PollersAre DEF msgVars
<1>3. CASE ExecutorReturns
  <2>1. Return({"summary-executor"}, <<>>) /\ UNCHANGED msgVars /\ Summaries = {} /\ Alive("summary-executor")
    BY <1>3 DEF ExecutorReturns
  <2> QED
    BY <1>0, <1>1, <1>g, <2>1, AliveBeforeClosing DEF msgVars
<1>4. CASE AsyncReturns
  <2>1. Return({"coupang-async"}, <<>>) /\ UNCHANGED msgVars /\ Alive("coupang-async") /\ Group = {}
    BY <1>4 DEF AsyncReturns
  <2> QED
    BY <1>0, <1>1, <1>g, <2>1, AliveBeforeClosing DEF msgVars
<1>5. CASE AdminReturns
  <2>1. Alive("admin-server") /\ UNCHANGED msgVars
        /\ \E errors \in {<<>>, <<"admin-server">>} : Return({"admin-server"}, errors)
    BY <1>5 DEF AdminReturns
  <2>2. "admin-server" \in Components /\ main \in {"waiting", "draining"}
    BY <1>0, <2>1, AliveBeforeClosing
  <2> QED
    BY <1>1, <1>g, <2>1, <2>2 DEF msgVars, Fallible
<1>6. CASE IrisReturns
  <2>1. Return({"transport-adapter"}, <<>>) /\ UNCHANGED msgVars /\ Handling = {} /\ Alive("transport-adapter")
    BY <1>6 DEF IrisReturns
  <2> QED
    BY <1>0, <1>1, <1>g, <2>1, AliveBeforeClosing DEF msgVars
<1>7. CASE TestServerReturns
  <2>1. /\ transport = "httptest" /\ Alive("transport-adapter") /\ gone' \in {gone, gone \cup Handling}
        /\ UNCHANGED <<msg, job, root, late, replyVars>>
        /\ \E errors \in {<<>>, <<"transport-adapter">>} : Return({"transport-adapter"}, errors)
    BY <1>7 DEF TestServerReturns, msgVars
  <2>2. "transport-adapter" \in Components /\ main \in {"waiting", "draining"}
    BY <1>0, <2>1, AliveBeforeClosing
  <2> QED
    BY <1>1, <1>g, <2>1, <2>2 DEF Fallible
<1> QED
  BY <1>2, <1>3, <1>4, <1>5, <1>6, <1>7 DEF Ends

------------------------------------------------------------------------------
(* Messages and jobs leave the process as it is.                            *)
LEMMA RunUnchanged ==
  ASSUME IInv, UNCHANGED <<buildVars, runVars>>, MsgTypes', JobsOK'
  PROVE  IInv'
<1>1. TypeOK'
  BY DEF IInv, TypeOK, MsgTypes, buildVars, runVars, Modules, Components
<1>2. ErrorsOK'
  BY DEF IInv, ErrorsOK, buildVars, runVars, Modules
<1> QED
  BY <1>1, <1>2 DEF IInv

LEMMA JobsAre ==
  ASSUME NEW m \in Messages
  PROVE  /\ Own(m) \in Jobs /\ Seed(m) \in Jobs
         /\ \A n \in Messages : Own(n) # Seed(m) /\ (Own(n) = Own(m) => n = m)
BY DEF Own, Seed, Jobs

(* What a step of a message or a job must keep of the jobs: a summary or a  *)
(* task was there before, and as late as it was, or is late if it is new    *)
(* and what waits for it has returned.                                      *)
LEMMA JobsKept ==
  ASSUME IInv, UNCHANGED <<buildVars, runVars>>, MsgTypes',
         \A m \in Messages : msg'[m] \in {"going", "submit"} => job'[Own(m)] = "none",
         \A j \in Jobs : job'[j] = "summary" =>
           \/ job[j] = "summary" /\ (j \in late => j \in late')
           \/ "summary-executor" \in returned => j \in late',
         \A j \in Tasks' :
           \/ j \in Tasks /\ root'[j] = root[j] /\ (j \in late => j \in late')
           \/ root'[j] = "background"
           \/ root'[j] = "run" /\ ("coupang-async" \in returned => j \in late'),
         Handling' \subseteq Handling \/ Alive("transport-adapter")
  PROVE  IInv'
<1>0. TypeOK /\ JobsOK
  BY DEF IInv
<1>1. UNCHANGED <<transport, returned, stopping, main, Components>>
  BY DEF buildVars, runVars, Components
<1>2. "summary-executor" \in returned' => Summaries' \subseteq late'
  BY <1>0, <1>1 DEF JobsOK, Summaries
<1>3. \A j \in Tasks' : root'[j] # "none"
  BY <1>0 DEF JobsOK
<1>4. "coupang-async" \in returned' => Group' \subseteq late'
  BY <1>0, <1>1 DEF JobsOK, Group
<1>5. transport = "none" => "transport-adapter" \notin Components
  BY <1>0, ComponentsAre DEF TypeOK, Components
<1>6. /\ transport' = "iris" /\ "transport-adapter" \in returned' => Handling' = {}
      /\ transport' = "none" => Handling' = {}
  BY <1>0, <1>1, <1>5 DEF JobsOK, Alive
<1>7. main' = "closing" => AllReturned' /\ stopping'
  BY <1>0, <1>1 DEF JobsOK, AllReturned
<1>8. JobsOK'
  BY <1>2, <1>3, <1>4, <1>6, <1>7 DEF JobsOK
<1> QED
  BY <1>8, RunUnchanged

(* The handling of a message moves, and its job stays or starts.            *)
LEMMA MessageMoves ==
  ASSUME IInv, NEW m \in Messages, NEW from \in MsgSteps \ {"done"}, NEW to \in MsgSteps,
         MsgStep(m, from, to), from = "none" => Alive("transport-adapter"),
         answered' \subseteq Messages, unheard' \subseteq Messages,
         \/ UNCHANGED <<job, late>>
         \/ to \notin {"going", "submit"} /\ Launch(Own(m), "summary", "summary-executor")
         \/ /\ to \notin {"going", "submit"} /\ Launch(Own(m), "task", "coupang-async")
            /\ \E r \in {"background", "run"} : root' = [root EXCEPT ![Own(m)] = r],
         root' # root => job[Own(m)] = "none" /\ \E r \in Roots : root' = [root EXCEPT ![Own(m)] = r],
         to \in {"going", "submit"} => job[Own(m)] = "none"
  PROVE  IInv'
<1> DEFINE own == Own(m)
<1>0. TypeOK /\ JobsOK /\ MsgTypes /\ own \in Jobs
  BY JobsAre DEF IInv, TypeOK, MsgTypes
<1>u. UNCHANGED <<buildVars, runVars>>
  BY DEF MsgStep
<1>1. /\ msg' = [msg EXCEPT ![m] = to] /\ msg[m] = from /\ gone' \subseteq Messages
  BY <1>0 DEF MsgStep, MsgTypes
<1>2. /\ \A n \in Messages \ {m} : msg'[n] = msg[n]
      /\ \A j \in Jobs \ {own} : job'[j] = job[j] /\ root'[j] = root[j]
      /\ late \subseteq late' /\ late' \subseteq Jobs /\ msg'[m] = to
      /\ job' \in [Jobs -> JobSteps] /\ root' \in [Jobs -> Roots]
  BY <1>0, <1>1 DEF MsgTypes, Launch, JobSteps
<1>3. MsgTypes'
  BY <1>0, <1>1, <1>2 DEF MsgTypes
<1>4. ASSUME NEW n \in Messages, msg'[n] \in {"going", "submit"} PROVE job'[Own(n)] = "none"
  <2>1. CASE n = m
    BY <1>2, <1>4, <2>1
  <2>2. CASE n # m
    <3>1. Own(n) \in Jobs \ {own} /\ msg'[n] = msg[n]
      BY <1>2, <2>2, JobsAre
    <3> QED
      BY <1>0, <1>2, <1>4, <3>1 DEF JobsOK
  <2> QED
    BY <2>1, <2>2
<1>5. ASSUME NEW j \in Jobs, job'[j] = "summary"
      PROVE  \/ job[j] = "summary" /\ (j \in late => j \in late')
             \/ "summary-executor" \in returned => j \in late'
  BY <1>0, <1>2, <1>5 DEF Launch, MsgTypes
<1>6. ASSUME NEW j \in Tasks'
      PROVE  \/ j \in Tasks /\ root'[j] = root[j] /\ (j \in late => j \in late')
             \/ root'[j] = "background"
             \/ root'[j] = "run" /\ ("coupang-async" \in returned => j \in late')
  <2>0. j \in Jobs /\ job'[j] \in {"task", "going", "leaving"}
    BY DEF Tasks
  <2>1. CASE job'[j] = job[j] /\ root'[j] = root[j]
    BY <1>2, <2>0, <2>1 DEF Tasks
  <2>2. CASE j = own
    <3>1. CASE job[own] = "none"
      BY <1>0, <2>0, <2>2, <3>1 DEF Launch, MsgTypes
    <3>2. CASE job[own] # "none"
      BY <1>2, <2>0, <2>2, <3>2 DEF Launch, Tasks
    <3> QED
      BY <3>1, <3>2
  <2> QED
    BY <1>2, <2>0, <2>1, <2>2
<1>7. Handling' \subseteq Handling \/ Alive("transport-adapter")
  BY <1>1, <1>2 DEF Handling, MsgSteps
<1> QED
  BY <1>3, <1>4, <1>5, <1>6, <1>7, <1>u, JobsKept

LEMMA HandlersKeep ==
  ASSUME IInv, NEW m \in Messages, Receive(m) \/ Handler(m) \/ GoAsync(m)
  PROVE  IInv'
<1> USE DEF MsgSteps, Roots
<1>r. answered \subseteq Messages /\ unheard \subseteq Messages
  BY DEF IInv, TypeOK
<1>a. ASSUME \/ \E done : Deliver(m, done)
             \/ UNCHANGED replyVars
      PROVE  answered' \subseteq Messages /\ unheard' \subseteq Messages
  BY <1>a, <1>r DEF Deliver, Unheard, replyVars
<1>1. CASE Receive(m)
  BY <1>1, <1>a, MessageMoves DEF Receive
<1>2. CASE HandlerReplies(m)
  BY <1>2, <1>a, MessageMoves DEF HandlerReplies
<1>3. CASE CheckContexts(m)
  <2>1. /\ answered' \subseteq Messages /\ unheard' \subseteq Messages
        /\ job[Own(m)] = "none" /\ UNCHANGED <<job, late>>
    BY <1>3, <1>a DEF CheckContexts
  <2>2. \E to \in {"submit", "done"} : MsgStep(m, "handling", to)
    BY <1>3 DEF CheckContexts
  <2>3. root' # root => \E r \in Roots : root' = [root EXCEPT ![Own(m)] = r]
    BY <1>3 DEF CheckContexts
  <2> QED
    BY <2>1, <2>2, <2>3, MessageMoves
<1>4. CASE TakeSlot(m)
  <2>1. MsgStep(m, "submit", "done")
    BY <1>4 DEF TakeSlot
  <2>2. job[Own(m)] = "none"
    BY <2>1 DEF MsgStep, IInv, JobsOK
  <2>3. CASE Launch(Own(m), "summary", "summary-executor") /\ UNCHANGED <<root, replyVars>>
    BY <1>a, <2>1, <2>3, MessageMoves
  <2>4. CASE /\ \E done : Deliver(m, done)
             /\ root' = [root EXCEPT ![Own(m)] = "none"] /\ UNCHANGED <<job, late>>
    BY <1>a, <2>1, <2>2, <2>4, MessageMoves
  <2> QED
    BY <1>4, <2>3, <2>4 DEF TakeSlot
<1>5. CASE GoAsync(m)
  <2>1. answered' \subseteq Messages /\ unheard' \subseteq Messages /\ job[Own(m)] = "none"
    BY <1>5, <1>a DEF GoAsync
  <2>2. CASE MsgStep(m, "handling", "handling") /\ StartPlain(Own(m))
    BY <2>1, <2>2, MessageMoves DEF StartPlain
  <2>3. CASE MsgStep(m, "handling", "going") /\ UNCHANGED <<job, root, late>>
    BY <2>1, <2>3, MessageMoves
  <2> QED
    BY <1>5, <2>2, <2>3 DEF GoAsync
<1>6. CASE HandlerGoes(m)
  <2>1. /\ MsgStep(m, "going", "handling") /\ StartInGroup(Own(m))
        /\ answered' \subseteq Messages /\ unheard' \subseteq Messages
    BY <1>6, <1>a DEF HandlerGoes
  <2>2. job[Own(m)] = "none"
    BY <2>1 DEF StartInGroup, Launch
  <2> QED
    BY <2>1, <2>2, MessageMoves DEF StartInGroup
<1> QED
  BY <1>1, <1>2, <1>3, <1>4, <1>5, <1>6 DEF Handler

LEMMA WorkersKeep ==
  ASSUME IInv, NEW m \in Messages, TaskSubmits(m) \/ Worker(m)
  PROVE  IInv'
<1> DEFINE own == Own(m)
           seed == Seed(m)
<1>0. JobsOK /\ MsgTypes /\ own \in Jobs /\ seed \in Jobs /\ own # seed
  BY JobsAre DEF IInv, TypeOK, MsgTypes
<1>1. ASSUME NEW j \in Jobs, NEW kinds, JobEnds(j, kinds), "none" \notin kinds,
             answered' \subseteq Messages, unheard' \subseteq Messages
      PROVE  IInv'
  <2>1. /\ job' = [job EXCEPT ![j] = "ended"] /\ root' = [root EXCEPT ![j] = "none"]
        /\ late' = late \ {j} /\ UNCHANGED <<buildVars, runVars, msg, gone>> /\ job[j] # "none"
    BY <1>1 DEF JobEnds
  <2>2. MsgTypes'
    BY <1>0, <1>1, <2>1 DEF MsgTypes, JobSteps, Roots
  <2>3. /\ job'[j] = "ended"
        /\ \A k \in Jobs \ {j} : job'[k] = job[k] /\ root'[k] = root[k] /\ (k \in late => k \in late')
    BY <1>0, <2>1 DEF MsgTypes
  <2>4. ASSUME NEW n \in Messages, msg'[n] \in {"going", "submit"} PROVE job'[Own(n)] = "none"
    <3>1. Own(n) \in Jobs /\ job[Own(n)] = "none"
      BY <1>0, <2>1, <2>4, JobsAre DEF JobsOK
    <3> QED
      BY <2>1, <2>3, <3>1
  <2>5. \A k \in Jobs : job'[k] = "summary" => job[k] = "summary" /\ (k \in late => k \in late')
    BY <2>3
  <2>6. \A k \in Tasks' : k \in Tasks /\ root'[k] = root[k] /\ (k \in late => k \in late')
    BY <2>3 DEF Tasks
  <2>7. Handling' = Handling
    BY <2>1 DEF Handling
  <2> QED
    BY <2>1, <2>2, <2>4, <2>5, <2>6, <2>7, JobsKept
<1>2. ASSUME UNCHANGED <<buildVars, runVars, msg, gone, replyVars>>,
             job[own] \in {"task", "going"},
             \/ job' = [job EXCEPT ![own] = "going"] /\ UNCHANGED <<root, late>>
             \/ /\ job' = [job EXCEPT ![own] = "leaving", ![seed] = "task"]
                /\ root' = [root EXCEPT ![seed] = "background"] /\ UNCHANGED late
             \/ /\ job' = [job EXCEPT ![own] = "leaving", ![seed] = "task"]
                /\ root' = [root EXCEPT ![seed] = "run"]
                /\ late' = IF "coupang-async" \in returned THEN late \cup {seed} ELSE late
      PROVE  IInv'
  <2>1. /\ MsgTypes' /\ late \subseteq late'
        /\ job'[own] \in {"going", "leaving"} /\ root'[own] = root[own]
        /\ \A k \in Jobs \ {own, seed} : job'[k] = job[k] /\ root'[k] = root[k]
    BY <1>0, <1>2 DEF MsgTypes, JobSteps, Roots, replyVars
  <2>2. \/ job'[seed] = job[seed] /\ root'[seed] = root[seed]
        \/ job'[seed] = "task" /\ root'[seed] = "background"
        \/ job'[seed] = "task" /\ root'[seed] = "run" /\ ("coupang-async" \in returned => seed \in late')
    BY <1>0, <1>2 DEF MsgTypes
  <2>3. ASSUME NEW n \in Messages, msg'[n] \in {"going", "submit"} PROVE job'[Own(n)] = "none"
    <3>1. Own(n) \in Jobs /\ Own(n) # seed /\ job[Own(n)] = "none"
      BY <1>0, <1>2, <2>3, JobsAre DEF JobsOK
    <3> QED
      BY <1>2, <2>1, <3>1
  <2>4. ASSUME NEW k \in Jobs, job'[k] = "summary"
        PROVE  job[k] = "summary" /\ (k \in late => k \in late')
    BY <2>1, <2>2, <2>4
  <2>5. ASSUME NEW k \in Tasks'
        PROVE  \/ k \in Tasks /\ root'[k] = root[k] /\ (k \in late => k \in late')
               \/ root'[k] = "background"
               \/ root'[k] = "run" /\ ("coupang-async" \in returned => k \in late')
    <3>0. k \in Jobs /\ job'[k] \in {"task", "going", "leaving"}
      BY DEF Tasks
    <3>1. CASE k = own
      BY <1>0, <1>2, <2>1, <3>1 DEF Tasks
    <3>2. CASE k = seed
      BY <1>0, <2>1, <2>2, <3>0, <3>2 DEF Tasks
    <3>3. CASE k \notin {own, seed}
      BY <2>1, <3>0, <3>3 DEF Tasks
    <3> QED
      BY <3>1, <3>2, <3>3
  <2>6. Handling' = Handling
    BY <1>2 DEF Handling
  <2> QED
    BY <1>2, <2>1, <2>3, <2>4, <2>5, <2>6, JobsKept
<1>3. CASE Answer(m)
  <2>1. JobEnds(own, {"summary"})
    BY <1>3 DEF Answer
  <2>2. answered' \subseteq Messages /\ unheard' \subseteq Messages
    BY <1>0, <1>3 DEF Answer, Deliver, Unheard, MsgTypes
  <2> QED
    BY <1>0, <1>1, <2>1, <2>2
<1>4. ASSUME NEW j \in {own, seed}, TaskEnds(j) PROVE IInv'
  BY <1>0, <1>1, <1>4 DEF TaskEnds, replyVars, MsgTypes
<1>5. CASE TaskSubmits(m)
  BY <1>2, <1>5 DEF TaskSubmits
<1>6. CASE TaskGoes(m)
  BY <1>2, <1>6 DEF TaskGoes
<1> QED
  BY <1>3, <1>4, <1>5, <1>6 DEF Worker

LEMMA RestKeeps ==
  ASSUME IInv, Signal \/ Stopped \/ (\E c \in Components : Begin(c)) \/ (\E m \in Messages : RequestTimesOut(m))
               \/ UNCHANGED vars
  PROVE  IInv'
<1> USE DEF buildVars, runVars, msgVars, replyVars
<1>1. CASE Signal
  BY <1>1 DEF Signal, IInv, TypeOK, ErrorsOK, JobsOK, Modules, Components, AllReturned, Summaries, Tasks, Group, Handling
<1>2. ASSUME NEW c \in Components, Begin(c) PROVE IInv'
  BY <1>2 DEF Begin, IInv, TypeOK, ErrorsOK, JobsOK, Modules, Components, AllReturned, Summaries, Tasks, Group, Handling
<1>3. ASSUME NEW m \in Messages, RequestTimesOut(m) PROVE IInv'
  BY <1>3
  DEF RequestTimesOut, IInv, TypeOK, ErrorsOK, JobsOK, Modules, Components, AllReturned, Summaries, Tasks, Group, Handling
<1>4. CASE Stopped \/ UNCHANGED vars
  BY <1>4 DEF Stopped, vars, IInv, TypeOK, ErrorsOK, JobsOK, Modules, Components, AllReturned, Summaries, Tasks, Group, Handling
<1> QED
  BY <1>1, <1>2, <1>3, <1>4

(* The invariant holds at first and every step keeps it.                    *)
THEOREM Inductive == Spec => []IInv
<1>1. IInv /\ [Next]_vars => IInv'
  <2> SUFFICES ASSUME IInv, [Next]_vars PROVE IInv'
    OBVIOUS
  <2> QED
    BY MainKeeps, ReturnsKeep, HandlersKeep, WorkersKeep, RestKeeps DEF Next
<1> QED
  BY <1>1, InitHolds, PTL DEF Spec

(* Types, and that a component that failed has returned.                    *)
THEOREM TypeCorrect == Spec => []TypeOK
<1>1. IInv => TypeOK
  BY DEF IInv
<1> QED
  BY <1>1, Inductive, PTL

(* Run returns the error of a component that failed, and one if any did,    *)
(* whichever of failure, signal and end is seen first: what was not         *)
(* received is in the channel until Drain takes it.                         *)
THEOREM RunReportsErrors == Spec => []ErrorsReported
<1>1. IInv => ErrorsReported
  <2> SUFFICES ASSUME IInv, main = "stopped", built = Len(Modules)
               PROVE  first \in failed \cup {NoError} /\ (first = NoError => failed = {})
    BY DEF ErrorsReported
  <2>1. ~(built < Len(Modules))
    <3>1. Len(Modules) = 11
      BY ModulesAre DEF IInv, TypeOK, Modules
    <3> QED
      BY <3>1
  <2>2. first # "build" /\ errs = <<>>
    BY <2>1 DEF IInv, ErrorsOK
  <2> QED
    BY <2>2, ChannelParts DEF IInv, ErrorsOK, TypeOK
<1> QED
  BY <1>1, Inductive, PTL

(* Closing is last: no handler runs when the stores are closed, and no job  *)
(* but those nothing waits for.                                             *)
THEOREM NothingRunsAtClosing == Spec => []ClosingIsLast
<1>1. IInv => ClosingIsLast
  <2> SUFFICES ASSUME IInv, main = "closing" PROVE ClosingIsLast
    BY DEF ClosingIsLast
  <2>1. returned = Components /\ stopping /\ transport \in Transports
    BY DEF IInv, TypeOK, JobsOK, AllReturned
  <2>2. "summary-executor" \in returned /\ "coupang-async" \in returned
        /\ (transport # "none" => "transport-adapter" \in returned)
    BY <2>1, ComponentsAre DEF Components
  <2>3. transport # "httptest" => Handling = {}
    BY <2>1, <2>2 DEF IInv, JobsOK, Transports
  <2>4. \A j \in Summaries : transport = "httptest" \/ JobDone(j)
    BY <2>1 DEF JobDone, MessageDone, Cancelled
  <2>5. \A j \in Tasks : j \in late \/ root[j] = "background"
    <3>1. \A j \in Tasks : root[j] \in {"background", "run"}
      BY DEF IInv, TypeOK, JobsOK, Tasks, Roots
    <3> QED
      BY <2>2, <3>1 DEF IInv, JobsOK, Group
  <2> QED
    BY <2>2, <2>3, <2>4, <2>5 DEF ClosingIsLast, IInv, JobsOK
<1> QED
  BY <1>1, Inductive, PTL

------------------------------------------------------------------------------
(* The caches of quotes.                                                    *)

(* The larger of two numbers.                                               *)
LEMMA Larger == ASSUME NEW a \in Nat, NEW b \in Nat
  PROVE Max({a, b}) = IF a >= b THEN a ELSE b
<1> DEFINE m == IF a >= b THEN a ELSE b
<1>1. m \in {a, b} /\ \A x \in {a, b} : x <= m
  OBVIOUS
<1>2. \A n \in {a, b} : (\A x \in {a, b} : x <= n) => n = m
  OBVIOUS
<1>3. \E n \in {a, b} : \A x \in {a, b} : x <= n
  BY <1>1
<1> HIDE DEF m
<1>4. Max({a, b}) = m
  BY <1>1, <1>2, <1>3 DEF Max
<1> QED
  BY <1>4 DEF m

(* The empty map.                                                           *)
LEMMA Nothing == DOMAIN <<>> = {}
  OBVIOUS

(* A value put into a map is there, and the others are as they were.        *)
LEMMA PutAt ==
  ASSUME NEW f, NEW c, NEW v
  PROVE  /\ DOMAIN Put(f, c, v) = DOMAIN f \cup {c}
         /\ Put(f, c, v)[c] = v
         /\ \A d \in DOMAIN f \ {c} : Put(f, c, v)[d] = f[d]
  BY DEF Put

(* A map without some of its keys.                                          *)
LEMMA Restricted ==
  ASSUME NEW f, NEW S
  PROVE  /\ DOMAIN Restrict(f, S) = S
         /\ \A d \in S : Restrict(f, S)[d] = f[d]
  BY DEF Restrict

(* The venue of a coin.                                                     *)
LEMMA VenueOfCoin ==
  ASSUME coin \in Coins
  PROVE  selectQuoteVenue \in Venues
<1> DEFINE order == <<coin.prefers, "cex", "gecko", "dex">>
           hits == {i \in 1 .. 4 : Try(order[i])}
<1>1. \A i \in 1 .. 4 : order[i] \in Venues
  BY DEF Coins, Venues
<1>2. hits # {} => Min(hits) \in hits
  <2> SUFFICES ASSUME hits # {} PROVE Min(hits) \in hits
    OBVIOUS
  <2>1. hits \subseteq 1 .. 4
    OBVIOUS
  <2> HIDE DEF hits
  <2>2. \E x \in hits : \A y \in hits : x <= y
    <3>1. CASE 1 \in hits
      BY <2>1, <3>1
    <3>2. CASE 1 \notin hits /\ 2 \in hits
      BY <2>1, <3>2
    <3>3. CASE 1 \notin hits /\ 2 \notin hits /\ 3 \in hits
      BY <2>1, <3>3
    <3>4. CASE 1 \notin hits /\ 2 \notin hits /\ 3 \notin hits
      <4>1. PICK x : x \in hits
        OBVIOUS
      <4>2. x = 4 /\ \A y \in hits : y = 4
        BY <2>1, <3>4, <4>1
      <4> QED
        BY <4>1, <4>2
    <3> QED
      BY <3>1, <3>2, <3>3, <3>4
  <2> QED
    BY <2>2 DEF Min
<1> HIDE DEF hits, order
<1>3. selectQuoteVenue = IF hits = {} THEN "none" ELSE order[Min(hits)]
  BY DEF selectQuoteVenue, hits, order
<1>4. hits \subseteq 1 .. 4
  BY DEF hits
<1> QED
  BY <1>1, <1>2, <1>3, <1>4 DEF Venues

(* What a step may change of a lookup.                                      *)
LEMMA AskedWith ==
  ASSUME NEW r \in Asked
  PROVE  /\ \A p \in Places : [r EXCEPT !.at = p] \in Asked
         /\ \A q \in Quote : [r EXCEPT !.quote = q] \in Asked
         /\ \A p \in Places, q \in Quote : [r EXCEPT !.at = p, !.quote = q] \in Asked
         /\ \A b \in BOOLEAN : [r EXCEPT !.shared = b] \in Asked
         /\ \A p \in Places, q \in Quote, b \in BOOLEAN :
              [r EXCEPT !.at = p, !.quote = q, !.shared = b] \in Asked
  BY DEF Asked

(* Lookups that lose their entry are lookups.                               *)
LEMMA TypesOfOrphans ==
  ASSUME QuoteTypeOK, NEW c \in DOMAIN entries
  PROVE  Orphaned(c) \in [Lookups -> Asked]
<1>1. entries[c].quote \in Quote /\ entries[c].shared \in BOOLEAN
  BY DEF QuoteTypeOK, Entry
<1>2. \A l \in Lookups : lookup[l] \in Asked /\ "answer" \in Places
  BY DEF QuoteTypeOK, Places
<1>3. \A l \in Lookups :
        [lookup[l] EXCEPT !.at = "answer", !.quote = entries[c].quote, !.shared = entries[c].shared] \in Asked
  BY <1>1, <1>2, AskedWith
<1> QED
  BY <1>2, <1>3 DEF Orphaned

(* The steps of the lookups.                                                *)
LEMMA TypesOfHandlers ==
  ASSUME QuoteTypeOK, EntryHeld, CodesOK, NEW l \in Lookups, LookupStep(l)
  PROVE  QuoteTypeOK'
<1> USE QuoteAssumption
<1>a. Unknown \in Quote /\ NotAsked \in Asked
  BY DEF Unknown, Quote, NotAsked, Asked, Places, Venues
<1>b. lookup[l] \in Asked
  BY DEF QuoteTypeOK
<1>c. \A c \in DOMAIN entries : entries[c].quote \in Quote /\ entries[c].shared \in BOOLEAN
  BY DEF QuoteTypeOK, Entry
<1>d. \A c \in DOMAIN entries : Orphaned(c) \in [Lookups -> Asked]
  BY TypesOfOrphans
<1>e. time \in Nat
  BY DEF QuoteTypeOK
<1>1. ASSUME NEW c \in Codes, Ask(l, c) PROVE QuoteTypeOK'
  <2>1. [NotAsked EXCEPT !.at = "get", !.code = c, !.floor = newest[c]] \in Asked
    BY <1>a DEF Asked, QuoteTypeOK, NotAsked, Places
  <2> QED
    BY <1>1, <2>1 DEF Ask, QuoteTypeOK, coinVars, histVars
<1>2. CASE AskCoin(l)
  <2>1. selectQuoteVenue \in Venues
    BY VenueOfCoin DEF QuoteTypeOK
  <2>2. \A q, d \in BOOLEAN, p \in Places :
          [NotAsked EXCEPT !.venue = selectQuoteVenue, !.quantity = q, !.due = d, !.at = p] \in Asked
    BY <1>a, <2>1 DEF Asked, NotAsked
  <2>3. Traded \in BOOLEAN
    BY DEF Traded
  <2>4. PICK q \in BOOLEAN, p \in Places : lookup' = [lookup EXCEPT ![l] =
            [NotAsked EXCEPT !.venue = selectQuoteVenue, !.quantity = q, !.due = Traded, !.at = p]]
    BY <1>2 DEF AskCoin, Places
  <2>5. lookup' \in [Lookups -> Asked]
    BY <2>2, <2>3, <2>4 DEF QuoteTypeOK
  <2> QED
    BY <1>2, <2>5 DEF AskCoin, QuoteTypeOK, coinVars, histVars
<1>3. CASE lookupCoinGecko(l) \/ FetchPrice(l)
  <2>1. lookup' \in [Lookups -> Asked]
    BY <1>3, <1>a, <1>b DEF lookupCoinGecko, FetchPrice, QuoteTypeOK, Asked, Places, Venues
  <2> QED
    BY <1>3, <2>1 DEF lookupCoinGecko, FetchPrice, QuoteTypeOK, coinVars, histVars
<1>4. CASE Find(l)
  <2>1. lookup' \in [Lookups -> Asked]
    BY <1>4, <1>b, <1>c DEF Find, QuoteTypeOK, Asked, Places
  <2> QED
    BY <1>4, <2>1 DEF Find, QuoteTypeOK, coinVars, histVars
<1>5. CASE Touch(l)
  <2>1. lookup[l].code \in DOMAIN entries
    BY <1>5 DEF Touch, EntryHeld
  <2>2. lookup' \in [Lookups -> Asked]
    BY <1>5, <1>b, <1>c, <2>1 DEF Touch, QuoteTypeOK, Asked, Places
  <2>3. DOMAIN entries' = DOMAIN entries /\ \A c \in DOMAIN entries : entries'[c] \in Entry
    BY <1>5, <1>e DEF Touch, Touched, QuoteTypeOK, Entry
  <2>4. UNCHANGED <<kind, time, price, poll, coinVars, histVars>>
    BY <1>5 DEF Touch
  <2> QED
    BY <2>2, <2>3, <2>4 DEF QuoteTypeOK, coinVars, histVars
<1>6. CASE Fetch(l)
  <2> DEFINE c == lookup[l].code
  <2>1. PICK q \in Fetched(c) : lookup' = [lookup EXCEPT ![l].at = "store", ![l].quote = q]
    BY <1>6 DEF Fetch
  <2>2. c \in Codes
    BY <1>6 DEF Fetch, CodesOK
  <2>3. q \in Quote
    BY <2>1, <2>2 DEF Fetched, Quote, QuoteTypeOK
  <2>4. lookup' \in [Lookups -> Asked]
    BY <2>1, <2>3, <1>b DEF QuoteTypeOK, Asked, Places
  <2>5. overlapped' \subseteq Codes
    BY <1>6, <2>2 DEF Fetch, QuoteTypeOK
  <2> QED
    BY <1>6, <2>4, <2>5 DEF Fetch, QuoteTypeOK, coinVars
<1>7. CASE FetchFails(l)
  <2>1. lookup' \in [Lookups -> Asked]
    BY <1>7, <1>a, <1>b, <1>c DEF FetchFails, QuoteTypeOK, Asked, Places
  <2> QED
    BY <1>7, <2>1 DEF FetchFails, QuoteTypeOK, coinVars, histVars
<1>8. CASE SetDEX(l)
  <2> DEFINE c == lookup[l].code
             q == [lookup[l].quote EXCEPT !.krw = InKRW(lookup[l].quote.usd)]
  <2>1. c \in Codes
    BY <1>8 DEF SetDEX, CodesOK
  <2>2. q \in Quote
    BY <1>b DEF InKRW, Asked, Quote, QuoteTypeOK
  <2> HIDE DEF q
  <2>3. dex' = Put(dex, c, q)
    BY <1>8 DEF SetDEX, q
  <2>4. DOMAIN dex' \subseteq Codes /\ \A d \in DOMAIN dex' : dex'[d] \in Quote
    BY <2>1, <2>2, <2>3 DEF QuoteTypeOK, Put
  <2>5. lookup' = [m \in Lookups |-> IF m = l THEN [lookup[l] EXCEPT !.at = "register", !.quote = q, !.shared = TRUE]
                                      ELSE IF lookup[m].code = c THEN [lookup[m] EXCEPT !.shared = FALSE] ELSE lookup[m]]
    BY <1>8 DEF SetDEX, q
  <2>6. lookup' \in [Lookups -> Asked]
    <3>1. [lookup[l] EXCEPT !.at = "register", !.quote = q, !.shared = TRUE] \in Asked
      BY <2>2, <1>b, AskedWith DEF Places
    <3>2. \A m \in Lookups : lookup[m] \in Asked /\ [lookup[m] EXCEPT !.shared = FALSE] \in Asked
      BY AskedWith DEF QuoteTypeOK
    <3> QED
      BY <2>5, <3>1, <3>2
  <2>7. DOMAIN entries' = DOMAIN entries /\ \A d \in DOMAIN entries : entries'[d] \in Entry
    BY <1>8 DEF SetDEX, QuoteTypeOK, Entry
  <2>8. UNCHANGED <<kind, time, price, poll, coin, streams, cex, gecko, rate, forexRate, histVars>>
    BY <1>8 DEF SetDEX
  <2> QED
    BY <2>4, <2>6, <2>7, <2>8 DEF QuoteTypeOK, histVars
<1>9. CASE Register(l)
  <2> DEFINE c == lookup[l].code
             e == [quote |-> lookup[l].quote, last |-> time, shared |-> lookup[l].shared]
  <2>1. c \in Codes
    BY <1>9 DEF Register, CodesOK
  <2>2. e \in Entry
    BY <1>b, <1>e DEF Asked, Entry
  <2>3. entries' = Put(entries, c, e)
    BY <1>9 DEF Register, Registered
  <2> HIDE DEF e
  <2>4. DOMAIN entries' \subseteq Codes /\ \A d \in DOMAIN entries' : entries'[d] \in Entry
    BY <2>1, <2>2, <2>3 DEF QuoteTypeOK, Put
  <2>5. lookup' \in [Lookups -> Asked]
    BY <1>9, <1>d DEF Register, QuoteTypeOK, Asked, Places
  <2>6. UNCHANGED <<kind, time, price, poll, coinVars, histVars>>
    BY <1>9 DEF Register
  <2> QED
    BY <2>4, <2>5, <2>6 DEF QuoteTypeOK, coinVars, histVars
<1>10. CASE AnswerQuote(l)
  <2>1. lookup' \in [Lookups -> Asked]
    BY <1>10, <1>a DEF AnswerQuote, QuoteTypeOK
  <2>2. newest' \in [Codes -> 0 .. MaxPrice]
    <3>1. lookup[l].quote.usd \in 0 .. MaxPrice
      BY <1>b DEF Asked, Quote
    <3>2. \A c \in Codes : Max({newest[c], lookup[l].quote.usd}) \in 0 .. MaxPrice
      <4> SUFFICES ASSUME NEW c \in Codes PROVE Max({newest[c], lookup[l].quote.usd}) \in 0 .. MaxPrice
        OBVIOUS
      <4>1. newest[c] \in 0 .. MaxPrice
        BY DEF QuoteTypeOK
      <4>2. \A a, b \in 0 .. MaxPrice : Max({a, b}) \in 0 .. MaxPrice
        BY Larger
      <4> QED
        BY <3>1, <4>1, <4>2
    <3> QED
      BY <1>10, <3>2 DEF AnswerQuote, QuoteTypeOK
  <2> QED
    BY <1>10, <2>1, <2>2 DEF AnswerQuote, QuoteTypeOK, coinVars
<1> QED
  BY <1>1, <1>2, <1>3, <1>4, <1>5, <1>6, <1>7, <1>8, <1>9, <1>10 DEF LookupStep

(* What a batch of the poller brings.                                       *)
LEMMA Batches ==
  ASSUME FetchBatch
  PROVE  \E cs, got :
           /\ cs \in SUBSET poll.todo
           /\ DOMAIN got = cs /\ \A c \in cs : got[c] \in Fetched(c)
           /\ poll' = [poll EXCEPT !.got = got, !.todo = IF kind = "stock" THEN @ \ cs ELSE {}]
           /\ overlapped' = overlapped \cup (InHand \cap cs)
<1>1. PICK cs \in IF kind = "stock" THEN {{c} : c \in poll.todo} ELSE SUBSET poll.todo :
       /\ \E got \in [cs -> UNION {Fetched(c) : c \in cs}] :
            /\ \A c \in cs : got[c] \in Fetched(c)
            /\ poll' = [poll EXCEPT !.got = got, !.todo = IF kind = "stock" THEN @ \ cs ELSE {}]
       /\ overlapped' = overlapped \cup (InHand \cap cs)
  BY DEF FetchBatch
<1>2. cs \in SUBSET poll.todo
  BY <1>1
<1>3. PICK got \in [cs -> UNION {Fetched(c) : c \in cs}] :
            /\ \A c \in cs : got[c] \in Fetched(c)
            /\ poll' = [poll EXCEPT !.got = got, !.todo = IF kind = "stock" THEN @ \ cs ELSE {}]
  BY <1>1
<1> QED
  BY <1>1, <1>2, <1>3

(* The steps of the poller.                                                 *)
LEMMA TypesOfPoller ==
  ASSUME QuoteTypeOK, Poller
  PROVE  QuoteTypeOK'
<1> USE QuoteAssumption
<1>1. CASE PollAll
  BY <1>1 DEF PollAll, QuoteTypeOK, coinVars, histVars, Idle
<1>2. CASE FetchBatch
  <2>1. PICK cs, got :
          /\ cs \in SUBSET poll.todo
          /\ DOMAIN got = cs /\ \A c \in cs : got[c] \in Fetched(c)
          /\ poll' = [poll EXCEPT !.got = got, !.todo = IF kind = "stock" THEN @ \ cs ELSE {}]
          /\ overlapped' = overlapped \cup (InHand \cap cs)
    BY <1>2, Batches
  <2>2. \A c \in cs : got[c] \in Quote
    BY <2>1 DEF Fetched, Quote, QuoteTypeOK
  <2>3. UNCHANGED <<kind, time, price, entries, lookup, coinVars, newest>>
    BY <1>2 DEF FetchBatch
  <2>4. /\ poll' = [at |-> poll'.at, todo |-> poll'.todo, got |-> poll'.got]
        /\ poll'.at \in {"idle", "polling"} /\ poll'.todo \subseteq Codes
        /\ poll'.got = got
    BY <2>1 DEF QuoteTypeOK
  <2> QED
    BY <2>1, <2>2, <2>3, <2>4 DEF QuoteTypeOK, coinVars
<1>3. CASE FetchBatchFails
  <2>1. PICK cs : poll' = [poll EXCEPT !.todo = @ \ cs]
    BY <1>3 DEF FetchBatchFails
  <2> QED
    BY <1>3, <2>1 DEF FetchBatchFails, QuoteTypeOK, coinVars, histVars
<1>4. CASE PollStores
  <2>1. DOMAIN entries' = DOMAIN entries /\ \A c \in DOMAIN entries : entries'[c] \in Entry
    <3>1. \A c \in DOMAIN entries, q \in Quote :
            [entries[c] EXCEPT !.quote = [q EXCEPT !.krw = entries[c].quote.krw], !.shared = FALSE] \in Entry
      <4>1. \A c \in DOMAIN entries, q \in Quote :
              entries[c] \in Entry /\ [q EXCEPT !.krw = entries[c].quote.krw] \in Quote
        BY DEF QuoteTypeOK, Entry, Quote
      <4>2. \A e \in Entry, q \in Quote : [e EXCEPT !.quote = q, !.shared = FALSE] \in Entry
        BY DEF Entry
      <4> QED
        BY <4>1, <4>2
    <3> QED
      BY <1>4, <3>1 DEF PollStores, QuoteTypeOK
  <2>2. /\ poll' = [at |-> poll'.at, todo |-> poll'.todo, got |-> poll'.got]
        /\ poll'.at = poll.at /\ poll'.todo = poll.todo
        /\ poll'.got = <<>>
    BY <1>4 DEF PollStores, QuoteTypeOK
  <2>3. UNCHANGED <<kind, time, price, lookup, coinVars, histVars>>
    BY <1>4 DEF PollStores
  <2> QED
    BY <2>1, <2>2, <2>3, Nothing DEF QuoteTypeOK, coinVars, histVars
<1>5. CASE PollEnds
  BY <1>5 DEF PollEnds, QuoteTypeOK, coinVars, histVars, Idle
<1>6. ASSUME NEW c \in Codes, EvictIdle(c) PROVE QuoteTypeOK'
  <2>1. DOMAIN entries' = DOMAIN entries \ {c} /\ \A d \in DOMAIN entries' : entries'[d] \in Entry
    BY <1>6, Restricted DEF EvictIdle, QuoteTypeOK
  <2>2. lookup' \in [Lookups -> Asked]
    BY <1>6, TypesOfOrphans DEF EvictIdle
  <2>3. UNCHANGED <<kind, time, price, poll, coinVars, histVars>>
    BY <1>6 DEF EvictIdle
  <2> QED
    BY <2>1, <2>2, <2>3 DEF QuoteTypeOK, coinVars, histVars
<1> QED
  BY <1>1, <1>2, <1>3, <1>4, <1>5, <1>6 DEF Poller

(* The exchanges move by one version.                                       *)
LEMMA ExchangeMoves ==
  ASSUME QuoteTypeOK
  PROVE  /\ cex.usd < MaxPrice => [cex EXCEPT !.usd = @ + 1] \in ExchangeQuote
         /\ cex.krw < MaxPrice => [cex EXCEPT !.krw = @ + 1] \in ExchangeQuote
  BY QuoteAssumption DEF QuoteTypeOK, ExchangeQuote

(* The steps of the feeds of the coin cache.                                *)
LEMMA TypesOfFeeds ==
  ASSUME QuoteTypeOK, Feeds
  PROVE  QuoteTypeOK'
<1> USE QuoteAssumption
<1>a. \A q \in ExchangeQuote, r \in 0 .. MaxRate : recalcKimchi(q, r) \in ExchangeQuote
  BY DEF recalcKimchi, ExchangeQuote
<1>1. ASSUME NEW exchange \in {"binance", "upbit"}, Connect(exchange) \/ Disconnect(exchange) PROVE QuoteTypeOK'
  BY <1>1 DEF Connect, Disconnect, QuoteTypeOK, histVars
<1>2. CASE FetchIDList \/ FetchMarketCaps
  <2>1. gecko' \in [lists : BOOLEAN, cap : 0 .. MaxCap]
    <3>1. \A g \in [lists : BOOLEAN, cap : 0 .. MaxCap] :
            [g EXCEPT !.lists = TRUE] \in [lists : BOOLEAN, cap : 0 .. MaxCap]
      OBVIOUS
    <3>a. gecko \in [lists : BOOLEAN, cap : 0 .. MaxCap]
      BY DEF QuoteTypeOK
    <3>3. gecko.cap < MaxCap =>
            [lists |-> TRUE, cap |-> gecko.cap + 1] \in [lists : BOOLEAN, cap : 0 .. MaxCap]
      BY <3>a
    <3>2. \/ gecko' = [gecko EXCEPT !.lists = TRUE]
          \/ gecko.cap < MaxCap /\ gecko' = [lists |-> TRUE, cap |-> gecko.cap + 1]
      BY <1>2 DEF FetchIDList, FetchMarketCaps
    <3> QED
      BY <3>1, <3>a, <3>2, <3>3
  <2> QED
    BY <1>2, <2>1 DEF FetchIDList, FetchMarketCaps, QuoteTypeOK, histVars
<1>3. CASE UpdateMarketCap
  <2>1. cex' \in ExchangeQuote
    BY <1>3 DEF UpdateMarketCap, QuoteTypeOK, ExchangeQuote
  <2> QED
    BY <1>3, <2>1 DEF UpdateMarketCap, QuoteTypeOK, histVars
<1>4. CASE OnBinanceUpdate \/ OnUpbitUpdate
  <2>1. cex' \in ExchangeQuote
    BY <1>4, <1>a, ExchangeMoves DEF OnBinanceUpdate, OnUpbitUpdate, QuoteTypeOK
  <2> QED
    BY <1>4, <2>1 DEF OnBinanceUpdate, OnUpbitUpdate, QuoteTypeOK, histVars
<1>5. CASE FetchRate
  BY <1>5 DEF FetchRate, QuoteTypeOK, histVars
<1>6. CASE UpdateForexRate
  <2> DEFINE Again(q) == [q EXCEPT !.krw = <<q.usd, rate>>]
  <2>a. \A q \in Quote : Again(q) \in Quote
    BY DEF Quote, QuoteTypeOK
  <2> HIDE DEF Again
  <2>1. cex' \in ExchangeQuote
    BY <1>6, <1>a DEF UpdateForexRate, QuoteTypeOK
  <2>2. DOMAIN dex' = DOMAIN dex /\ \A c \in DOMAIN dex : dex'[c] \in Quote
    BY <1>6, <2>a DEF UpdateForexRate, QuoteTypeOK, Again
  <2>3. DOMAIN entries' = DOMAIN entries /\ \A c \in DOMAIN entries : entries'[c] \in Entry
    <3>1. entries' = [c \in DOMAIN entries |->
            IF entries[c].shared THEN [entries[c] EXCEPT !.quote = Again(entries[c].quote)] ELSE entries[c]]
      BY <1>6 DEF UpdateForexRate, Again
    <3>2. \A c \in DOMAIN entries :
            entries[c] \in Entry /\ [entries[c] EXCEPT !.quote = Again(entries[c].quote)] \in Entry
      BY <2>a DEF QuoteTypeOK, Entry
    <3> QED
      BY <3>1, <3>2
  <2>4. lookup' \in [Lookups -> Asked]
    <3>1. lookup' = [l \in Lookups |->
            IF lookup[l].shared THEN [lookup[l] EXCEPT !.quote = Again(lookup[l].quote)] ELSE lookup[l]]
      BY <1>6 DEF UpdateForexRate, Again
    <3>2. \A l \in Lookups : lookup[l] \in Asked /\ lookup[l].quote \in Quote
      BY DEF QuoteTypeOK, Asked
    <3>3. \A l \in Lookups : [lookup[l] EXCEPT !.quote = Again(lookup[l].quote)] \in Asked
      BY <2>a, <3>2, AskedWith
    <3> QED
      BY <3>1, <3>2, <3>3
  <2>5. UNCHANGED <<kind, time, price, poll, coin, streams, gecko, rate, histVars>> /\ forexRate' = rate
    BY <1>6 DEF UpdateForexRate
  <2> QED
    BY <2>1, <2>2, <2>3, <2>4, <2>5 DEF QuoteTypeOK, histVars
<1> QED
  BY <1>1, <1>2, <1>3, <1>4, <1>5, <1>6 DEF Feeds

(* Every step keeps the types.                                              *)
LEMMA TypesStep ==
  ASSUME QuoteTypeOK, EntryHeld, CodesOK, QuoteNext
  PROVE  QuoteTypeOK'
<1>1. CASE Advance
  BY <1>1 DEF Advance, QuoteTypeOK, coinVars, histVars
<1>2. ASSUME NEW c \in Codes, PriceMoves(c) PROVE QuoteTypeOK'
  <2>1. price' \in [Codes -> 1 .. MaxPrice]
    BY <1>2, QuoteAssumption DEF PriceMoves, QuoteTypeOK
  <2> QED
    BY <1>2, <2>1 DEF PriceMoves, QuoteTypeOK, coinVars, histVars
<1> QED
  BY <1>1, <1>2, TypesOfHandlers, TypesOfPoller, TypesOfFeeds DEF QuoteNext

------------------------------------------------------------------------------
(* What is known of the prices.                                             *)

KnownOK ==
  /\ CodesOK /\ EntryHeld /\ PricesOK /\ FetchesOK /\ TokensPriced /\ NeverBackwards

(* The prices are numbers.                                                  *)
Numbers ==
  /\ \A l \in Lookups : lookup[l].quote.usd \in Nat /\ lookup[l].floor \in Nat
  /\ \A c \in Codes : newest[c] \in Nat /\ price[c] \in Nat
  /\ \A c \in DOMAIN entries : c \in Codes /\ entries[c].quote.usd \in Nat
  /\ \A c \in DOMAIN poll.got : c \in Codes /\ poll.got[c].usd \in Nat

(* They are where the types hold.                                           *)
LEMMA NumbersOK == ASSUME QuoteTypeOK PROVE Numbers
  BY QuoteAssumption DEF QuoteTypeOK, Numbers, Asked, Quote, Entry

(* A lookup is at the same place with the same price.                       *)
Same(l) ==
  /\ lookup'[l].at = lookup[l].at /\ lookup'[l].code = lookup[l].code
  /\ lookup'[l].quote.usd = lookup[l].quote.usd /\ lookup'[l].floor = lookup[l].floor

SameEntries ==
  DOMAIN entries' = DOMAIN entries /\ \A c \in DOMAIN entries : entries'[c].quote.usd = entries[c].quote.usd

(* Nothing that is known changes.                                           *)
LEMMA NothingNew ==
  ASSUME Numbers, Numbers', KnownOK, kind' = kind, SameEntries, poll'.got = poll.got, newest' = newest, overlapped' = overlapped,
         \A c \in Codes : price[c] <= price'[c], \A l \in Lookups : Same(l)
  PROVE  KnownOK'
<1>1. CodesOK' /\ EntryHeld' /\ TokensPriced'
  BY DEF KnownOK, CodesOK, EntryHeld, TokensPriced, Same, SameEntries
<1>2. PricesOK'
  BY DEF KnownOK, PricesOK, Same, SameEntries, Numbers
<1>3. FetchesOK'
  BY DEF KnownOK, FetchesOK, AsNewAsAnswers, AsNewAsEntry, Fetching, Same, SameEntries
<1>4. NeverBackwards'
  BY DEF KnownOK, NeverBackwards, Same
<1> QED
  BY <1>1, <1>2, <1>3, <1>4 DEF KnownOK

(* One lookup moves on, with nothing in hand: what it is about to answer is *)
(* as new as what it has to be, and no newer than what others have.         *)
LEMMA OneMoves ==
  ASSUME Numbers, Numbers', KnownOK, kind' = kind, SameEntries, poll'.got = poll.got, newest' = newest,
         overlapped \subseteq overlapped', price' = price, NEW l \in Lookups, \A m \in Lookups \ {l} : Same(m),
         lookup'[l].at \notin {"store", "register"},
         lookup'[l].at \in {"get", "touch", "fetch"} => lookup'[l].code \in Codes,
         lookup'[l].at = "touch" => lookup'[l].code \in DOMAIN entries,
         lookup'[l].quote.usd > 0 => lookup'[l].code \in Codes,
         lookup'[l].at \in {"recheck", "price"} => lookup'[l].quote.usd = 0,
         \A c \in Codes : lookup'[l].code = c => lookup'[l].quote.usd <= price[c] /\ lookup'[l].floor <= newest[c],
         \A c \in Codes \ overlapped : lookup'[l].at = "answer" /\ lookup'[l].code = c /\ lookup'[l].quote.usd > 0 =>
           /\ lookup'[l].quote.usd >= lookup'[l].floor
           /\ c \in DOMAIN entries /\ lookup'[l].quote.usd = entries[c].quote.usd
  PROVE  KnownOK'
<1>1. CodesOK' /\ EntryHeld' /\ TokensPriced'
  BY DEF KnownOK, CodesOK, EntryHeld, TokensPriced, Same, SameEntries
<1>2. PricesOK'
  BY DEF KnownOK, PricesOK, Same, SameEntries, Numbers
<1>3. FetchesOK'
  <2> SUFFICES ASSUME NEW c \in Codes \ overlapped'
               PROVE  FetchesOK!(c)'
    BY DEF FetchesOK
  <2>1. \A m \in Lookups : Fetching(m, c)' => m # l /\ Fetching(m, c) /\ lookup'[m].quote.usd = lookup[m].quote.usd
    BY DEF Fetching, Same
  <2>2. \A usd \in Nat : AsNewAsEntry(c, usd) => AsNewAsEntry(c, usd)'
    BY DEF AsNewAsEntry, SameEntries
  <2>3. \A usd \in Nat : AsNewAsAnswers(c, usd) /\ AsNewAsEntry(c, usd) => AsNewAsAnswers(c, usd)'
    BY DEF AsNewAsAnswers, AsNewAsEntry, Same, SameEntries, Numbers
  <2>4. \A d \in DOMAIN entries : AsNewAsEntry(d, entries[d].quote.usd)
    BY DEF AsNewAsEntry, Numbers
  <2> QED
    BY <2>1, <2>2, <2>3, <2>4 DEF KnownOK, FetchesOK, SameEntries, Numbers
<1>4. NeverBackwards'
  BY DEF KnownOK, NeverBackwards, Same
<1> QED
  BY <1>1, <1>2, <1>3, <1>4 DEF KnownOK

(* What is in hand of a token goes to the coin cache.                       *)
LEMMA HandPassed ==
  ASSUME QuoteTypeOK, QuoteTypeOK', Numbers, Numbers', KnownOK, NEW l \in Lookups, SetDEX(l)
  PROVE  KnownOK'
<1> DEFINE c == lookup[l].code
<1>1. UNCHANGED <<kind, time, price, poll, newest, overlapped>> /\ lookup[l].at = "store"
  BY DEF SetDEX, histVars
<1>2. SameEntries
  BY DEF SetDEX, SameEntries, QuoteTypeOK, Entry
<1>3. /\ lookup'[l].at = "register" /\ lookup'[l].code = lookup[l].code
      /\ lookup'[l].quote.usd = lookup[l].quote.usd /\ lookup'[l].floor = lookup[l].floor
  <2> DEFINE q == [lookup[l].quote EXCEPT !.krw = InKRW(lookup[l].quote.usd)]
  <2>1. lookup[l] \in Asked /\ lookup[l].quote \in Quote
    BY DEF QuoteTypeOK, Asked
  <2>2. q.usd = lookup[l].quote.usd
    BY <2>1 DEF Quote
  <2> HIDE DEF q
  <2>3. lookup'[l] = [lookup[l] EXCEPT !.at = "register", !.quote = q, !.shared = TRUE]
    BY DEF SetDEX, q
  <2> QED
    BY <2>1, <2>2, <2>3 DEF Asked
<1>4. \A m \in Lookups \ {l} : Same(m)
  BY DEF SetDEX, QuoteTypeOK, Asked, Same
<1>5. CodesOK' /\ EntryHeld' /\ TokensPriced'
  BY <1>1, <1>2, <1>3, <1>4 DEF KnownOK, CodesOK, EntryHeld, TokensPriced, Same, SameEntries
<1>6. PricesOK'
  BY <1>1, <1>2, <1>3, <1>4 DEF KnownOK, PricesOK, Same, SameEntries
<1>7. FetchesOK'
  <2> SUFFICES ASSUME NEW d \in Codes \ overlapped
               PROVE  FetchesOK!(d)'
    BY <1>1 DEF FetchesOK
  <2> QED
    BY <1>1, <1>2, <1>3, <1>4 DEF KnownOK, FetchesOK, AsNewAsAnswers, AsNewAsEntry, Fetching, Same, SameEntries
<1>8. NeverBackwards'
  BY <1>1, <1>3, <1>4 DEF KnownOK, NeverBackwards, Same
<1> QED
  BY <1>5, <1>6, <1>7, <1>8 DEF KnownOK

(* A fetch: what it brings is as new as can be.                             *)
LEMMA Fetches ==
  ASSUME QuoteTypeOK, QuoteTypeOK', Numbers, Numbers', KnownOK, NEW l \in Lookups, Fetch(l)
  PROVE  KnownOK'
<1> DEFINE c == lookup[l].code
<1>1. /\ UNCHANGED <<kind, time, price, poll, entries, newest>> /\ lookup[l].at = "fetch"
      /\ overlapped' = overlapped \cup (InHand \cap {c}) /\ c \in Codes
  BY DEF Fetch, histVars, KnownOK, CodesOK
<1>2. PICK q \in Fetched(c) : lookup' = [lookup EXCEPT ![l].at = "store", ![l].quote = q]
  BY DEF Fetch
<1>3. /\ lookup'[l].at = "store" /\ lookup'[l].code = c /\ lookup'[l].quote = q
      /\ lookup'[l].floor = lookup[l].floor
  BY <1>2 DEF QuoteTypeOK, Asked
<1>4. \A m \in Lookups \ {l} : Same(m)
  BY <1>2 DEF QuoteTypeOK, Asked, Same
<1>5. q.usd <= price[c] /\ (q.usd > 0 => q.usd = price[c]) /\ (kind = "token" => q.usd > 0)
  BY <1>1, QuoteAssumption DEF Fetched, QuoteTypeOK
<1>6. CodesOK' /\ EntryHeld' /\ TokensPriced'
  BY <1>1, <1>3, <1>4, <1>5 DEF KnownOK, CodesOK, EntryHeld, TokensPriced, Same
<1>7. PricesOK'
  BY <1>1, <1>3, <1>4, <1>5 DEF KnownOK, PricesOK, Same
<1>8. FetchesOK'
  <2> SUFFICES ASSUME NEW d \in Codes \ overlapped'
               PROVE  FetchesOK!(d)'
    BY DEF FetchesOK
  <2>1. CASE d # c
    BY <2>1, <1>1, <1>3, <1>4 DEF KnownOK, FetchesOK, AsNewAsAnswers, AsNewAsEntry, Fetching, Same
  <2>2. CASE d = c
    <3>1. d \notin DOMAIN poll.got /\ \A m \in Lookups : ~Fetching(m, d)
      BY <2>2, <1>1 DEF InHand, Fetching
    <3>2. d \notin overlapped
      BY <1>1
    <3> QED
      BY <2>2, <3>1, <3>2, <1>1, <1>3, <1>4, <1>5
      DEF KnownOK, FetchesOK, PricesOK, AsNewAsAnswers, AsNewAsEntry, Fetching, Same
  <2> QED
    BY <2>1, <2>2
<1>9. NeverBackwards'
  BY <1>1, <1>3, <1>4 DEF KnownOK, NeverBackwards, Same
<1> QED
  BY <1>6, <1>7, <1>8, <1>9 DEF KnownOK

(* A quote that was in hand is stored.                                      *)
LEMMA Stores ==
  ASSUME QuoteTypeOK, QuoteTypeOK', Numbers, Numbers', KnownOK, NEW l \in Lookups, Register(l)
  PROVE  KnownOK'
<1> DEFINE c == lookup[l].code
<1>1. /\ UNCHANGED <<kind, time, price, poll, newest, overlapped>>
      /\ lookup[l].at \in {"store", "register"} /\ c \in Codes
  BY DEF Register, histVars, KnownOK, CodesOK
<1>2. /\ DOMAIN entries' = DOMAIN entries \cup {c} /\ entries'[c].quote = lookup[l].quote
      /\ \A d \in DOMAIN entries \ {c} : entries'[d] = entries[d]
  BY DEF Register, Registered, Put
<1> DEFINE base == IF c \in DOMAIN entries THEN Orphaned(c) ELSE lookup
<1>a. base \in [Lookups -> Asked]
  BY TypesOfOrphans DEF QuoteTypeOK
<1>b. \A m \in Lookups :
        base[m] = IF c \in DOMAIN entries /\ lookup[m].at = "touch" /\ lookup[m].code = c THEN Orphaned(c)[m] ELSE lookup[m]
  BY DEF Orphaned, Holding
<1>d. \A m \in Lookups : c \in DOMAIN entries /\ lookup[m].at = "touch" /\ lookup[m].code = c =>
        /\ Orphaned(c)[m].at = "answer" /\ Orphaned(c)[m].code = c
        /\ Orphaned(c)[m].quote = entries[c].quote /\ Orphaned(c)[m].floor = lookup[m].floor
  BY DEF Orphaned, Holding, QuoteTypeOK, Asked
<1>e. lookup' = [base EXCEPT ![l].at = "answer"]
  BY DEF Register
<1> HIDE DEF base
<1>c. /\ \A m \in Lookups \ {l} : lookup'[m] = base[m]
      /\ lookup'[l].at = "answer" /\ lookup'[l].code = base[l].code /\ lookup'[l].quote = base[l].quote
      /\ lookup'[l].floor = base[l].floor
  BY <1>a, <1>e DEF Asked
<1>3. /\ lookup'[l].at = "answer" /\ lookup'[l].code = c
      /\ lookup'[l].quote.usd = lookup[l].quote.usd /\ lookup'[l].floor = lookup[l].floor
  BY <1>1, <1>a, <1>b, <1>c
<1>4. \A m \in Lookups \ {l} :
        \/ Same(m) /\ ~(lookup[m].at = "touch" /\ lookup[m].code = c)
        \/ /\ lookup[m].at = "touch" /\ lookup[m].code = c /\ c \in DOMAIN entries
           /\ lookup'[m].at = "answer" /\ lookup'[m].code = c
           /\ lookup'[m].quote.usd = entries[c].quote.usd /\ lookup'[m].floor = lookup[m].floor
  BY <1>a, <1>b, <1>c, <1>d DEF Same, KnownOK, EntryHeld
<1>5. CodesOK' /\ EntryHeld' /\ TokensPriced'
  BY <1>1, <1>2, <1>3, <1>4 DEF KnownOK, CodesOK, EntryHeld, TokensPriced, Same
<1>6. PricesOK'
  BY <1>1, <1>2, <1>3, <1>4 DEF KnownOK, PricesOK, Same
<1>7. FetchesOK'
  <2> SUFFICES ASSUME NEW d \in Codes \ overlapped
               PROVE  FetchesOK!(d)'
    BY <1>1 DEF FetchesOK
  <2>1. CASE d # c
    BY <2>1, <1>1, <1>2, <1>3, <1>4 DEF KnownOK, FetchesOK, AsNewAsAnswers, AsNewAsEntry, Fetching, Same
  <2>2. CASE d = c
    <3>1. /\ d \notin DOMAIN poll.got /\ \A m \in Lookups : Fetching(m, d) => m = l
          /\ AsNewAsAnswers(d, lookup[l].quote.usd) /\ AsNewAsEntry(d, lookup[l].quote.usd)
      BY <2>2, <1>1 DEF KnownOK, FetchesOK, Fetching
    <3>2. \A m \in Lookups : ~Fetching(m, d)'
      BY <3>1, <2>2, <1>3, <1>4 DEF Fetching, Same
    <3>3. AsNewAsAnswers(d, entries[d].quote.usd)'
      BY <3>1, <2>2, <1>1, <1>2, <1>3, <1>4, <1>6 DEF AsNewAsAnswers, AsNewAsEntry, Same, Numbers
    <3> QED
      BY <3>1, <3>2, <3>3, <1>1 DEF FetchesOK
  <2> QED
    BY <2>1, <2>2
<1>8. NeverBackwards'
  BY <1>1, <1>3, <1>4 DEF KnownOK, NeverBackwards, PricesOK, FetchesOK, AsNewAsAnswers, Fetching, Same, Numbers
<1> QED
  BY <1>5, <1>6, <1>7, <1>8 DEF KnownOK

(* An answer: what was answered last may be newer than before.              *)
LEMMA AnswersMove ==
  ASSUME QuoteTypeOK, QuoteTypeOK', Numbers, Numbers', KnownOK, NEW l \in Lookups, AnswerQuote(l)
  PROVE  KnownOK'
<1> DEFINE c == lookup[l].code
<1>1. /\ UNCHANGED <<kind, time, price, poll, entries, overlapped>> /\ lookup[l].at = "answer"
  BY DEF AnswerQuote
<1>2. /\ lookup'[l].at = "idle" /\ lookup'[l].code = "none" /\ lookup'[l].quote.usd = 0 /\ lookup'[l].floor = 0
  BY DEF AnswerQuote, QuoteTypeOK, NotAsked, Unknown
<1>3. \A m \in Lookups \ {l} : Same(m)
  BY DEF AnswerQuote, QuoteTypeOK, Same
<1>4. ASSUME NEW d \in Codes
      PROVE  newest'[d] = newest[d] \/ (d = c /\ newest'[d] = lookup[l].quote.usd /\ newest[d] <= newest'[d])
  <2>1. newest' = newest \/ newest' = [newest EXCEPT ![c] = Max({newest[c], lookup[l].quote.usd})]
    BY DEF AnswerQuote
  <2>2. newest[d] \in Nat /\ lookup[l].quote.usd \in Nat
    BY DEF Numbers
  <2>3. Max({newest[d], lookup[l].quote.usd}) =
          IF newest[d] >= lookup[l].quote.usd THEN newest[d] ELSE lookup[l].quote.usd
    BY <2>2, Larger
  <2> QED
    <3>1. newest \in [Codes -> 0 .. MaxPrice]
      BY DEF QuoteTypeOK
    <3>2. CASE d # c \/ newest' = newest
      BY <2>1, <3>1, <3>2
    <3>3. CASE d = c /\ newest' # newest
      <4>1. newest'[d] = Max({newest[d], lookup[l].quote.usd})
        BY <2>1, <3>1, <3>3
      <4> QED
        BY <2>2, <2>3, <3>3, <4>1
    <3> QED
      BY <3>2, <3>3
<1>5. CodesOK' /\ EntryHeld' /\ TokensPriced'
  BY <1>1, <1>2, <1>3 DEF KnownOK, CodesOK, EntryHeld, TokensPriced, Same
<1>6. PricesOK'
  <2> SUFFICES ASSUME NEW d \in Codes PROVE PricesOK!(d)'
    BY DEF PricesOK
  <2>1. newest'[d] <= price[d] /\ newest[d] <= newest'[d]
    BY <1>4, <1>1 DEF KnownOK, PricesOK, Numbers
  <2> QED
    BY <2>1, <1>1, <1>2, <1>3 DEF KnownOK, PricesOK, Same, Numbers
<1>7. FetchesOK'
  <2> SUFFICES ASSUME NEW d \in Codes \ overlapped PROVE FetchesOK!(d)'
    BY <1>1 DEF FetchesOK
  <2>1. \A usd \in Nat : AsNewAsAnswers(d, usd) => AsNewAsAnswers(d, usd)'
    BY <1>1, <1>2, <1>3, <1>4 DEF AsNewAsAnswers, Same
  <2> QED
    BY <2>1, <1>1, <1>2, <1>3 DEF KnownOK, FetchesOK, AsNewAsEntry, Fetching, Same, Numbers
<1>8. NeverBackwards'
  BY <1>1, <1>2, <1>3 DEF KnownOK, NeverBackwards, Same
<1> QED
  BY <1>5, <1>6, <1>7, <1>8 DEF KnownOK

(* The poller has fetched a batch.                                          *)
LEMMA BatchFetched ==
  ASSUME QuoteTypeOK, QuoteTypeOK', Numbers, Numbers', KnownOK, FetchBatch
  PROVE  KnownOK'
<1>1. UNCHANGED <<kind, time, price, entries, lookup, newest>> /\ poll.got = <<>>
  BY DEF FetchBatch
<1>2. PICK cs, got :
        /\ cs \in SUBSET poll.todo
        /\ DOMAIN got = cs /\ \A c \in cs : got[c] \in Fetched(c)
        /\ poll' = [poll EXCEPT !.got = got, !.todo = IF kind = "stock" THEN @ \ cs ELSE {}]
        /\ overlapped' = overlapped \cup (InHand \cap cs)
  BY Batches
<1>3. poll'.got = got /\ cs \subseteq Codes
  BY <1>2 DEF QuoteTypeOK
<1>4. \A c \in cs : got[c].usd <= price[c] /\ (got[c].usd > 0 => got[c].usd = price[c])
  BY <1>2, <1>3, QuoteAssumption DEF Fetched, QuoteTypeOK
<1>5. CodesOK' /\ EntryHeld' /\ TokensPriced' /\ NeverBackwards'
  BY <1>1, <1>2 DEF KnownOK, CodesOK, EntryHeld, TokensPriced, NeverBackwards
<1>6. PricesOK'
  BY <1>1, <1>2, <1>3, <1>4 DEF KnownOK, PricesOK
<1>7. FetchesOK'
  <2> SUFFICES ASSUME NEW d \in Codes \ overlapped' PROVE FetchesOK!(d)'
    BY DEF FetchesOK
  <2>1. d \notin overlapped
    BY <1>2
  <2>2. CASE d \in cs
    <3>1. \A m \in Lookups : ~Fetching(m, d)
      BY <2>2, <1>2 DEF InHand, Fetching
    <3>2. /\ d \in DOMAIN entries => AsNewAsAnswers(d, entries[d].quote.usd)
      BY <2>1 DEF KnownOK, FetchesOK
    <3>3. AsNewAsAnswers(d, got[d].usd) /\ AsNewAsEntry(d, got[d].usd)
      BY <2>2, <1>4 DEF KnownOK, PricesOK, AsNewAsAnswers, AsNewAsEntry
    <3> QED
      BY <3>1, <3>2, <3>3, <1>1, <1>3 DEF FetchesOK, AsNewAsAnswers, AsNewAsEntry, Fetching
  <2>3. CASE d \notin cs
    BY <2>1, <2>3, <1>1, <1>2, <1>3 DEF KnownOK, FetchesOK, AsNewAsAnswers, AsNewAsEntry, Fetching
  <2> QED
    BY <2>2, <2>3
<1> QED
  BY <1>5, <1>6, <1>7 DEF KnownOK

(* The poller stores its batch.                                             *)
LEMMA BatchStored ==
  ASSUME QuoteTypeOK, QuoteTypeOK', Numbers, Numbers', KnownOK, PollStores
  PROVE  KnownOK'
<1>1. UNCHANGED <<kind, time, price, lookup, newest, overlapped>>
  BY DEF PollStores, histVars
<1>2. poll'.got = <<>>
  BY DEF PollStores, QuoteTypeOK
<1>3. DOMAIN poll'.got = {}
  BY <1>2, Nothing
<1>4. /\ DOMAIN entries' = DOMAIN entries
      /\ \A c \in DOMAIN entries \ DOMAIN poll.got : entries'[c] = entries[c]
  BY DEF PollStores
<1>5. ASSUME NEW c \in DOMAIN entries \cap DOMAIN poll.got
      PROVE  entries'[c].quote.usd = poll.got[c].usd
  <2>1. entries'[c] = [entries[c] EXCEPT !.quote = [poll.got[c] EXCEPT !.krw = entries[c].quote.krw], !.shared = FALSE]
    BY DEF PollStores
  <2>2. entries[c] \in Entry /\ poll.got[c] \in Quote
    BY DEF QuoteTypeOK
  <2> QED
    BY <2>1, <2>2 DEF Entry, Quote
<1>6. CodesOK' /\ EntryHeld' /\ TokensPriced' /\ NeverBackwards'
  BY <1>1, <1>4 DEF KnownOK, CodesOK, EntryHeld, TokensPriced, NeverBackwards
<1>7. PricesOK'
  BY <1>1, <1>3, <1>4, <1>5 DEF KnownOK, PricesOK
<1>8. FetchesOK'
  <2> SUFFICES ASSUME NEW d \in Codes \ overlapped PROVE FetchesOK!(d)'
    BY <1>1 DEF FetchesOK
  <2> QED
    BY <1>1, <1>3, <1>4, <1>5 DEF KnownOK, FetchesOK, AsNewAsAnswers, AsNewAsEntry, Fetching
<1> QED
  BY <1>6, <1>7, <1>8 DEF KnownOK

(* An entry is dropped: the lookups that hold it go on with it.             *)
LEMMA EntryDropped ==
  ASSUME QuoteTypeOK, QuoteTypeOK', Numbers, Numbers', KnownOK, NEW c \in Codes, EvictIdle(c)
  PROVE  KnownOK'
<1>1. UNCHANGED <<kind, time, price, poll, newest, overlapped>> /\ c \in DOMAIN entries
  BY DEF EvictIdle, histVars
<1>2. DOMAIN entries' = DOMAIN entries \ {c} /\ \A d \in DOMAIN entries' : entries'[d] = entries[d]
  BY Restricted DEF EvictIdle
<1>3. \A m \in Lookups :
        \/ Same(m) /\ ~(lookup[m].at = "touch" /\ lookup[m].code = c)
        \/ /\ lookup[m].at = "touch" /\ lookup[m].code = c
           /\ lookup'[m].at = "answer" /\ lookup'[m].code = c
           /\ lookup'[m].quote.usd = entries[c].quote.usd /\ lookup'[m].floor = lookup[m].floor
  <2> SUFFICES ASSUME NEW m \in Lookups
               PROVE  \/ Same(m) /\ ~(lookup[m].at = "touch" /\ lookup[m].code = c)
                      \/ /\ lookup[m].at = "touch" /\ lookup[m].code = c
                         /\ lookup'[m].at = "answer" /\ lookup'[m].code = c
                         /\ lookup'[m].quote.usd = entries[c].quote.usd /\ lookup'[m].floor = lookup[m].floor
    OBVIOUS
  <2>1. lookup'[m] = IF lookup[m].at = "touch" /\ lookup[m].code = c
                     THEN [lookup[m] EXCEPT !.at = "answer", !.quote = entries[c].quote, !.shared = entries[c].shared]
                     ELSE lookup[m]
    BY DEF EvictIdle, Orphaned, Holding
  <2>2. lookup[m] \in Asked
    BY DEF QuoteTypeOK
  <2> QED
    BY <2>1, <2>2 DEF Asked, Same
<1>4. CodesOK' /\ EntryHeld' /\ TokensPriced'
  BY <1>1, <1>2, <1>3 DEF KnownOK, CodesOK, EntryHeld, TokensPriced, Same
<1>5. PricesOK'
  BY <1>1, <1>2, <1>3 DEF KnownOK, PricesOK, Same
<1>6. FetchesOK'
  <2> SUFFICES ASSUME NEW d \in Codes \ overlapped PROVE FetchesOK!(d)'
    BY <1>1 DEF FetchesOK
  <2>1. \A usd \in Nat : AsNewAsAnswers(d, usd) /\ AsNewAsEntry(d, usd) => AsNewAsAnswers(d, usd)' /\ AsNewAsEntry(d, usd)'
    BY <1>1, <1>2, <1>3 DEF AsNewAsAnswers, AsNewAsEntry, Same
  <2>2. \A e \in DOMAIN entries : AsNewAsEntry(e, entries[e].quote.usd)
    BY DEF AsNewAsEntry, Numbers
  <2>3. \A m \in Lookups : Fetching(m, d)' => Fetching(m, d) /\ lookup'[m].quote.usd = lookup[m].quote.usd
    BY <1>3 DEF Fetching, Same
  <2> QED
    BY <2>1, <2>2, <2>3, <1>1, <1>2 DEF KnownOK, FetchesOK, Numbers
<1>7. NeverBackwards'
  BY <1>1, <1>2, <1>3 DEF KnownOK, NeverBackwards, PricesOK, FetchesOK, AsNewAsAnswers, Same, Numbers
<1> QED
  BY <1>4, <1>5, <1>6, <1>7 DEF KnownOK

(* What is known stays so in every step of a lookup.                        *)
LEMMA KnownOfHandlers ==
  ASSUME QuoteTypeOK, QuoteTypeOK', KnownOK, NEW l \in Lookups, LookupStep(l)
  PROVE  KnownOK'
<1>n. Numbers /\ Numbers'
  <2>1. Numbers
    BY NumbersOK
  <2>2. Numbers'
    BY QuoteAssumption DEF QuoteTypeOK, Numbers, Asked, Quote, Entry
  <2> QED
    BY <2>1, <2>2
<1>0. Unknown.usd = 0 /\ NotAsked.at = "idle" /\ NotAsked.code = "none" /\ NotAsked.quote.usd = 0 /\ NotAsked.floor = 0
  BY DEF NotAsked, Unknown
<1>z. \A c \in Codes : newest[c] >= 0 /\ price[c] >= 0 /\ newest[c] <= newest[c]
  BY <1>n DEF Numbers
<1>1. ASSUME NEW c \in Codes, Ask(l, c) PROVE KnownOK'
  <2>1. /\ lookup'[l].at = "get" /\ lookup'[l].code = c /\ lookup'[l].quote.usd = 0 /\ lookup'[l].floor = newest[c]
        /\ \A m \in Lookups \ {l} : Same(m)
    BY <1>1 DEF Ask, QuoteTypeOK, NotAsked, Unknown, Same
  <2>2. UNCHANGED <<kind, time, price, entries, poll, newest, overlapped>>
    BY <1>1 DEF Ask, histVars
  <2>3. SameEntries
    BY <2>2 DEF SameEntries
  <2> QED
    BY <2>1, <2>2, <2>3, <1>n, <1>z, OneMoves
<1>2. CASE AskCoin(l)
  <2>1. /\ lookup'[l].at \in {"answer", "price", "recheck"} /\ lookup'[l].code = "none"
        /\ lookup'[l].quote.usd = 0 /\ lookup'[l].floor = 0
        /\ \A m \in Lookups \ {l} : Same(m)
    BY <1>2 DEF AskCoin, QuoteTypeOK, NotAsked, Unknown, Same
  <2>2. UNCHANGED <<kind, time, price, entries, poll, newest, overlapped>>
    BY <1>2 DEF AskCoin, histVars
  <2>3. SameEntries
    BY <2>2 DEF SameEntries
  <2> QED
    BY <2>1, <2>2, <2>3, <1>n, <1>z, OneMoves
<1>3. CASE lookupCoinGecko(l) \/ FetchPrice(l)
  <2>1. UNCHANGED <<kind, time, price, entries, poll, newest, overlapped>>
    BY <1>3 DEF lookupCoinGecko, FetchPrice, histVars
  <2>2. SameEntries
    BY <2>1 DEF SameEntries
  <2>3. \A m \in Lookups \ {l} : Same(m)
    BY <1>3 DEF lookupCoinGecko, FetchPrice, QuoteTypeOK, Same
  <2>4. lookup[l].quote.usd = 0
    BY <1>3 DEF lookupCoinGecko, FetchPrice, KnownOK, CodesOK
  <2>5. CASE lookup'[l] = NotAsked
    BY <2>1, <2>2, <2>3, <2>5, <1>0, <1>n, <1>z, OneMoves
  <2>6. CASE lookup'[l] # NotAsked
    <3>1. /\ lookup'[l].at \in {"answer", "price"} /\ lookup'[l].quote.usd = 0
          /\ lookup'[l].code = lookup[l].code /\ lookup'[l].floor = lookup[l].floor
      BY <1>3, <2>4, <2>6 DEF lookupCoinGecko, FetchPrice, QuoteTypeOK, Asked
    <3>2. \A c \in Codes : lookup[l].code = c => lookup[l].floor <= newest[c]
      BY DEF KnownOK, PricesOK
    <3> QED
      BY <2>1, <2>2, <2>3, <3>1, <3>2, <1>n, <1>z, OneMoves
  <2> QED
    BY <2>5, <2>6
<1>4. CASE Find(l)
  <2> DEFINE c == lookup[l].code
  <2>1. /\ c \in Codes /\ lookup'[l].code = c /\ lookup'[l].floor = lookup[l].floor
        /\ \A m \in Lookups \ {l} : Same(m)
    BY <1>4 DEF Find, QuoteTypeOK, Same, KnownOK, CodesOK, Asked
  <2>2. \/ lookup'[l].at = "fetch" /\ lookup'[l].quote.usd = lookup[l].quote.usd
        \/ lookup'[l].at = "touch" /\ lookup'[l].quote.usd = lookup[l].quote.usd /\ c \in DOMAIN entries
        \/ lookup'[l].at = "answer" /\ lookup'[l].quote.usd = entries[c].quote.usd /\ c \in DOMAIN entries
    BY <1>4 DEF Find, QuoteTypeOK, Asked
  <2>3. UNCHANGED <<kind, time, price, entries, poll, newest, overlapped>>
    BY <1>4 DEF Find, histVars
  <2>4. SameEntries
    BY <2>3 DEF SameEntries
  <2>5. /\ lookup'[l].quote.usd <= price[c] /\ lookup'[l].floor <= newest[c]
        /\ c \notin overlapped /\ lookup'[l].at = "answer" /\ lookup'[l].quote.usd > 0 =>
             lookup'[l].quote.usd >= lookup'[l].floor
    BY <2>1, <2>2, <1>n DEF KnownOK, PricesOK, FetchesOK, AsNewAsAnswers, Numbers
  <2> QED
    BY <2>1, <2>2, <2>3, <2>4, <2>5, <1>n, OneMoves
<1>5. CASE Touch(l)
  <2> DEFINE c == lookup[l].code
  <2>1. /\ c \in Codes /\ lookup'[l].code = c /\ lookup'[l].floor = lookup[l].floor
        /\ \A m \in Lookups \ {l} : Same(m)
    BY <1>5 DEF Touch, QuoteTypeOK, Same, KnownOK, CodesOK, Asked
  <2>2. c \in DOMAIN entries
    BY <1>5 DEF Touch, KnownOK, EntryHeld
  <2>3. \/ lookup'[l].at = "fetch" /\ lookup'[l].quote.usd = lookup[l].quote.usd
        \/ lookup'[l].at = "answer" /\ lookup'[l].quote.usd = entries[c].quote.usd
    BY <1>5 DEF Touch, QuoteTypeOK, Asked
  <2>4. UNCHANGED <<kind, time, price, poll, newest, overlapped>>
    BY <1>5 DEF Touch, histVars
  <2>5. SameEntries
    BY <1>5 DEF Touch, Touched, SameEntries, QuoteTypeOK, Entry
  <2>6. /\ lookup'[l].quote.usd <= price[c] /\ lookup'[l].floor <= newest[c]
        /\ c \notin overlapped /\ lookup'[l].at = "answer" /\ lookup'[l].quote.usd > 0 =>
             lookup'[l].quote.usd >= lookup'[l].floor
    BY <2>1, <2>2, <2>3, <1>n DEF KnownOK, PricesOK, FetchesOK, AsNewAsAnswers, Numbers
  <2> QED
    BY <2>1, <2>2, <2>3, <2>4, <2>5, <2>6, <1>n, OneMoves
<1>6. CASE FetchFails(l)
  <2> DEFINE c == lookup[l].code
  <2>1. UNCHANGED <<kind, time, price, entries, poll, newest, overlapped>> /\ c \in Codes
    BY <1>6 DEF FetchFails, histVars, KnownOK, CodesOK
  <2>2. \A m \in Lookups \ {l} : Same(m)
    BY <1>6 DEF FetchFails, QuoteTypeOK, Same
  <2>3. SameEntries
    BY <2>1 DEF SameEntries
  <2>4. CASE ~Hot /\ c \in DOMAIN entries
    <3>1. /\ lookup'[l].code = c /\ lookup'[l].floor = lookup[l].floor
          /\ lookup'[l].at = "answer" /\ lookup'[l].quote.usd = entries[c].quote.usd
      BY <1>6, <2>4 DEF FetchFails, QuoteTypeOK, Asked
    <3>2. /\ lookup'[l].quote.usd <= price[c] /\ lookup'[l].floor <= newest[c]
          /\ c \notin overlapped /\ lookup'[l].quote.usd > 0 => lookup'[l].quote.usd >= lookup'[l].floor
      BY <2>1, <2>4, <3>1, <1>n DEF KnownOK, PricesOK, FetchesOK, AsNewAsAnswers, Numbers
    <3> QED
      BY <2>1, <2>2, <2>3, <2>4, <3>1, <3>2, <1>n, OneMoves
  <2>5. CASE ~(~Hot /\ c \in DOMAIN entries)
    <3>1. lookup'[l] = NotAsked
      BY <1>6, <2>5 DEF FetchFails, QuoteTypeOK
    <3> QED
      BY <2>1, <2>2, <2>3, <3>1, <1>0, <1>n, <1>z, OneMoves
  <2> QED
    BY <2>4, <2>5
<1> QED
  BY <1>1, <1>2, <1>3, <1>4, <1>5, <1>6, <1>n, Fetches, HandPassed, Stores, AnswersMove DEF LookupStep

(* And in every step.                                                       *)
LEMMA KnownStep ==
  ASSUME QuoteTypeOK, QuoteTypeOK', KnownOK, QuoteNext
  PROVE  KnownOK'
<1>n. Numbers /\ Numbers'
  <2>1. Numbers
    BY NumbersOK
  <2>2. Numbers'
    BY QuoteAssumption DEF QuoteTypeOK, Numbers, Asked, Quote, Entry
  <2> QED
    BY <2>1, <2>2
<1>s. UNCHANGED <<entries, lookup>> => SameEntries /\ \A l \in Lookups : Same(l)
  BY DEF SameEntries, Same
<1>1. CASE Advance
  <2>1. UNCHANGED <<kind, price, entries, lookup, poll, newest, overlapped>>
    BY <1>1 DEF Advance, histVars
  <2> QED
    BY <2>1, <1>n, <1>s, NothingNew DEF Numbers
<1>2. ASSUME NEW c \in Codes, PriceMoves(c) PROVE KnownOK'
  <2>1. UNCHANGED <<kind, entries, lookup, poll, newest, overlapped>>
    BY <1>2 DEF PriceMoves, histVars
  <2>2. \A d \in Codes : price[d] <= price'[d]
    BY <1>2, <1>n DEF PriceMoves, QuoteTypeOK, Numbers
  <2> QED
    BY <2>1, <2>2, <1>n, <1>s, NothingNew
<1>3. ASSUME NEW l \in Lookups, LookupStep(l) PROVE KnownOK'
  BY <1>3, KnownOfHandlers
<1>4. CASE Poller
  <2>1. CASE PollAll \/ FetchBatchFails \/ PollEnds
    <3>1. UNCHANGED <<kind, price, entries, lookup, newest, overlapped>>
      BY <2>1 DEF PollAll, FetchBatchFails, PollEnds, histVars
    <3>2. poll'.got = poll.got
      <4>1. CASE PollAll
        BY <4>1 DEF PollAll, Idle
      <4>2. CASE FetchBatchFails
        BY <4>2 DEF FetchBatchFails, QuoteTypeOK
      <4>3. CASE PollEnds
        BY <4>3 DEF PollEnds, Idle
      <4> QED
        BY <2>1, <4>1, <4>2, <4>3
    <3> QED
      BY <3>1, <3>2, <1>n, <1>s, NothingNew DEF Numbers
  <2> QED
    BY <1>4, <2>1, <1>n, BatchFetched, BatchStored, EntryDropped DEF Poller
<1>5. CASE Feeds
  <2>1. UNCHANGED <<kind, price, poll, newest, overlapped>>
    BY <1>5 DEF Feeds, Connect, Disconnect, FetchIDList, FetchMarketCaps, UpdateMarketCap, OnBinanceUpdate, OnUpbitUpdate,
                FetchRate, UpdateForexRate, histVars
  <2>2. SameEntries /\ \A l \in Lookups : Same(l)
    <3>1. CASE UpdateForexRate
      <4>1. SameEntries
        BY <3>1 DEF UpdateForexRate, SameEntries, QuoteTypeOK, Entry, Quote
      <4>2. ASSUME NEW l \in Lookups PROVE Same(l)
        BY <3>1 DEF UpdateForexRate, Same, QuoteTypeOK, Asked, Quote
      <4> QED
        BY <4>1, <4>2
    <3>2. CASE ~UpdateForexRate
      BY <1>5, <3>2, <1>s DEF Feeds, Connect, Disconnect, FetchIDList, FetchMarketCaps, UpdateMarketCap, OnBinanceUpdate,
                              OnUpbitUpdate, FetchRate
    <3> QED
      BY <3>1, <3>2
  <2> QED
    BY <2>1, <2>2, <1>n, NothingNew DEF Numbers
<1> QED
  BY <1>1, <1>2, <1>3, <1>4, <1>5 DEF QuoteNext

------------------------------------------------------------------------------
(* The coin, and the coin cache.                                            *)

(* Nothing changes of where the lookups are and what they are of.           *)
SameVenue(l) ==
  /\ lookup'[l].at = lookup[l].at /\ lookup'[l].venue = lookup[l].venue
  /\ lookup'[l].due = lookup[l].due /\ lookup'[l].quantity = lookup[l].quantity

VenueOK(l) ==
  /\ lookup[l].due => Traded
  /\ lookup[l].at \in {"price", "answer"} /\ lookup[l].venue = "gecko" /\ lookup[l].due => lookup[l].quantity
  /\ lookup[l].at \in {"get", "touch", "fetch", "store", "register"} => lookup[l].venue = "none"

(* The two conditions on venues, lookup by lookup.                          *)
LEMMA VenuesEach == VenuesOK /\ ExchangeFirst <=> \A l \in Lookups : VenueOK(l)
  BY DEF VenuesOK, ExchangeFirst, VenueOK

(* The exchanges that have a quote of the coin keep having one.             *)
LEMMA StillTraded ==
  ASSUME QuoteTypeOK, Traded, QuoteNext
  PROVE  Traded'
<1>1. cex.usd \in Nat /\ cex.krw \in Nat
  BY QuoteAssumption DEF QuoteTypeOK, ExchangeQuote
<1>2. CASE UNCHANGED cex
  BY <1>2 DEF Traded
<1>3. CASE OnBinanceUpdate \/ OnUpbitUpdate \/ UpdateForexRate \/ UpdateMarketCap
  <2>a. \A q \in ExchangeQuote, r \in 0 .. MaxRate :
          recalcKimchi(q, r).usd = q.usd /\ recalcKimchi(q, r).krw = q.krw
    BY DEF recalcKimchi, ExchangeQuote
  <2>1. CASE OnBinanceUpdate
    <3>1. [cex EXCEPT !.usd = @ + 1].usd = cex.usd + 1 /\ [cex EXCEPT !.usd = @ + 1].krw = cex.krw
      BY DEF QuoteTypeOK, ExchangeQuote
    <3>2. cex' = recalcKimchi([cex EXCEPT !.usd = @ + 1], forexRate) /\ forexRate \in 0 .. MaxRate
      BY <2>1 DEF OnBinanceUpdate, QuoteTypeOK
    <3>3. [cex EXCEPT !.usd = @ + 1] \in ExchangeQuote
      BY <2>1, ExchangeMoves DEF OnBinanceUpdate
    <3>4. cex'.usd = cex.usd + 1 /\ cex'.krw = cex.krw
      BY <2>a, <3>1, <3>2, <3>3
    <3> QED
      BY <3>4, <1>1 DEF Traded
  <2>2. CASE OnUpbitUpdate
    <3>1. [cex EXCEPT !.krw = @ + 1].krw = cex.krw + 1 /\ [cex EXCEPT !.krw = @ + 1].usd = cex.usd
      BY DEF QuoteTypeOK, ExchangeQuote
    <3>2. cex' = recalcKimchi([cex EXCEPT !.krw = @ + 1], forexRate) /\ forexRate \in 0 .. MaxRate
      BY <2>2 DEF OnUpbitUpdate, QuoteTypeOK
    <3>3. [cex EXCEPT !.krw = @ + 1] \in ExchangeQuote
      BY <2>2, ExchangeMoves DEF OnUpbitUpdate
    <3>4. cex'.krw = cex.krw + 1 /\ cex'.usd = cex.usd
      BY <2>a, <3>1, <3>2, <3>3
    <3> QED
      BY <3>4, <1>1 DEF Traded
  <2>3. CASE UpdateForexRate
    BY <2>a, <2>3, <1>1 DEF UpdateForexRate, Traded, QuoteTypeOK
  <2>4. CASE UpdateMarketCap
    BY <2>4, <1>1 DEF UpdateMarketCap, Traded, QuoteTypeOK, ExchangeQuote
  <2> QED
    BY <1>3, <2>1, <2>2, <2>3, <2>4
<1>4. UNCHANGED cex \/ OnBinanceUpdate \/ OnUpbitUpdate \/ UpdateForexRate \/ UpdateMarketCap
  <2>1. CASE Advance \/ (\E c \in Codes : PriceMoves(c)) \/ Poller
    BY <2>1 DEF Advance, PriceMoves, Poller, PollAll, FetchBatch, FetchBatchFails, PollStores, PollEnds, EvictIdle, coinVars
  <2>2. CASE Feeds
    BY <2>2 DEF Feeds, Connect, Disconnect, FetchIDList, FetchMarketCaps, FetchRate
  <2>3. ASSUME NEW l \in Lookups, LookupStep(l) PROVE UNCHANGED cex
    BY <2>3 DEF LookupStep, Ask, AskCoin, lookupCoinGecko, FetchPrice, Find, Touch, Fetch, FetchFails, SetDEX, Register, AnswerQuote,
                coinVars
  <2> QED
    BY <2>1, <2>2, <2>3 DEF QuoteNext
<1> QED
  BY <1>2, <1>3, <1>4

(* A lookup that holds an entry is not of a coin.                           *)
LEMMA OrphansHaveNoVenue ==
  ASSUME QuoteTypeOK, NEW c \in DOMAIN entries, NEW m \in Lookups
  PROVE  \/ Orphaned(c)[m] = lookup[m]
         \/ /\ lookup[m].at = "touch" /\ Orphaned(c)[m].at = "answer"
            /\ Orphaned(c)[m].venue = lookup[m].venue /\ Orphaned(c)[m].due = lookup[m].due
<1>1. CASE Holding(m, c)
  BY <1>1 DEF Orphaned, Holding, QuoteTypeOK, Asked
<1>2. CASE ~Holding(m, c)
  BY <1>2 DEF Orphaned
<1> QED
  BY <1>1, <1>2

(* No step of a lookup takes a coin the exchanges have to CoinGecko.        *)
LEMMA VenuesOfHandlers ==
  ASSUME QuoteTypeOK, QuoteTypeOK', EntryHeld, NEW l \in Lookups, LookupStep(l), \A m \in Lookups : VenueOK(m),
         Traded => Traded'
  PROVE  \A m \in Lookups : VenueOK(m)'
<1>a. ASSUME NEW m \in Lookups, SameVenue(m) PROVE VenueOK(m)'
  BY <1>a DEF VenueOK, SameVenue
<1>b. lookup[l] \in Asked
  BY DEF QuoteTypeOK
<1>c. VenueOK(l)
  OBVIOUS
<1>d. NotAsked.venue = "none" /\ NotAsked.at = "idle" /\ NotAsked.due = FALSE
  BY DEF NotAsked
<1>e. lookup'[l] = NotAsked => VenueOK(l)'
  BY <1>d DEF VenueOK
<1>1. ASSUME NEW c \in Codes, Ask(l, c) PROVE \A m \in Lookups : VenueOK(m)'
  <2>1. lookup'[l].venue = "none" /\ lookup'[l].due = FALSE
    BY <1>1 DEF Ask, QuoteTypeOK, NotAsked
  <2>2. VenueOK(l)'
    BY <2>1 DEF VenueOK
  <2>3. \A m \in Lookups \ {l} : SameVenue(m)
    BY <1>1 DEF Ask, QuoteTypeOK, SameVenue
  <2> QED
    BY <2>2, <2>3, <1>a
<1>2. CASE AskCoin(l)
  <2>1. PICK q \in BOOLEAN : lookup' = [lookup EXCEPT ![l] =
         [NotAsked EXCEPT !.venue = selectQuoteVenue, !.quantity = q, !.due = Traded,
            !.at = IF selectQuoteVenue # "gecko" THEN "answer" ELSE IF q THEN "price" ELSE "recheck"]]
    BY <1>2 DEF AskCoin
  <2>2. /\ lookup'[l].venue = selectQuoteVenue /\ lookup'[l].quantity = q /\ lookup'[l].due = Traded
        /\ lookup'[l].at = IF selectQuoteVenue # "gecko" THEN "answer" ELSE IF q THEN "price" ELSE "recheck"
    BY <2>1 DEF QuoteTypeOK, NotAsked
  <2>3. VenueOK(l)'
    BY <2>2 DEF VenueOK
  <2>4. \A m \in Lookups \ {l} : SameVenue(m)
    BY <2>1 DEF QuoteTypeOK, SameVenue
  <2> QED
    BY <2>3, <2>4, <1>a
<1>3. CASE lookupCoinGecko(l)
  <2>1. /\ lookup[l].at = "recheck" /\ lookup'[l].due = lookup[l].due
        /\ lookup'[l].at = (IF Recheck THEN "answer" ELSE "price")
        /\ lookup'[l].venue = (IF Recheck THEN "cex" ELSE lookup[l].venue)
    BY <1>3, <1>b DEF lookupCoinGecko, QuoteTypeOK, Asked
  <2>2. VenueOK(l)'
    BY <2>1, <1>c DEF VenueOK, Recheck
  <2>3. \A m \in Lookups \ {l} : SameVenue(m)
    BY <1>3 DEF lookupCoinGecko, QuoteTypeOK, SameVenue
  <2> QED
    BY <2>2, <2>3, <1>a
<1>4. CASE FetchPrice(l)
  <2>1. \/ lookup'[l] = NotAsked
        \/ /\ lookup[l].at = "price" /\ lookup'[l].at = "answer" /\ lookup'[l].venue = lookup[l].venue
           /\ lookup'[l].due = lookup[l].due /\ lookup'[l].quantity = lookup[l].quantity
    BY <1>4, <1>b DEF FetchPrice, QuoteTypeOK, Asked
  <2>2. VenueOK(l)'
    BY <2>1, <1>c, <1>e DEF VenueOK
  <2>3. \A m \in Lookups \ {l} : SameVenue(m)
    BY <1>4 DEF FetchPrice, QuoteTypeOK, SameVenue
  <2> QED
    BY <2>2, <2>3, <1>a
<1>5. CASE Find(l) \/ Touch(l) \/ Fetch(l) \/ FetchFails(l)
  <2>1. \/ lookup'[l] = NotAsked
        \/ /\ lookup[l].at \in {"get", "touch", "fetch"} /\ lookup'[l].venue = lookup[l].venue
           /\ lookup'[l].due = lookup[l].due
    <3>1. CASE Find(l)
      BY <3>1, <1>b DEF Find, QuoteTypeOK, Asked
    <3>2. CASE Touch(l)
      BY <3>2, <1>b DEF Touch, QuoteTypeOK, Asked
    <3>3. CASE Fetch(l)
      BY <3>3, <1>b DEF Fetch, QuoteTypeOK, Asked
    <3>4. CASE FetchFails(l)
      BY <3>4, <1>b DEF FetchFails, QuoteTypeOK, Asked
    <3> QED
      BY <1>5, <3>1, <3>2, <3>3, <3>4
  <2>2. VenueOK(l)'
    BY <2>1, <1>c, <1>e DEF VenueOK
  <2>3. \A m \in Lookups \ {l} : SameVenue(m)
    <3>1. CASE Find(l)
      BY <3>1 DEF Find, QuoteTypeOK, SameVenue
    <3>2. CASE Touch(l)
      BY <3>2 DEF Touch, QuoteTypeOK, SameVenue
    <3>3. CASE Fetch(l)
      BY <3>3 DEF Fetch, QuoteTypeOK, SameVenue
    <3>4. CASE FetchFails(l)
      BY <3>4 DEF FetchFails, QuoteTypeOK, SameVenue
    <3> QED
      BY <1>5, <3>1, <3>2, <3>3, <3>4
  <2> QED
    BY <2>2, <2>3, <1>a
<1>6. CASE SetDEX(l)
  <2> DEFINE q == [lookup[l].quote EXCEPT !.krw = InKRW(lookup[l].quote.usd)]
  <2>1. /\ lookup[l].at = "store"
        /\ lookup' = [m \in Lookups |-> IF m = l THEN [lookup[l] EXCEPT !.at = "register", !.quote = q, !.shared = TRUE]
                                        ELSE IF lookup[m].code = lookup[l].code THEN [lookup[m] EXCEPT !.shared = FALSE]
                                        ELSE lookup[m]]
    BY <1>6 DEF SetDEX
  <2> HIDE DEF q
  <2>2. lookup'[l].venue = lookup[l].venue /\ lookup'[l].due = lookup[l].due
    BY <2>1, <1>b DEF Asked
  <2>3. VenueOK(l)'
    BY <2>1, <2>2, <1>c DEF VenueOK
  <2>4. \A m \in Lookups \ {l} : SameVenue(m)
    BY <2>1 DEF QuoteTypeOK, Asked, SameVenue
  <2> QED
    BY <2>3, <2>4, <1>a
<1>7. CASE Register(l)
  <2> DEFINE c == lookup[l].code
             base == IF c \in DOMAIN entries THEN Orphaned(c) ELSE lookup
  <2>1. base \in [Lookups -> Asked]
    BY TypesOfOrphans DEF QuoteTypeOK
  <2>2. lookup[l].at \in {"store", "register"} /\ lookup' = [base EXCEPT ![l].at = "answer"]
    BY <1>7 DEF Register
  <2>3. \A m \in Lookups : base[m] = lookup[m] \/
          /\ lookup[m].at = "touch" /\ base[m].at = "answer"
          /\ base[m].venue = lookup[m].venue /\ base[m].due = lookup[m].due
    BY OrphansHaveNoVenue
  <2> HIDE DEF base
  <2>4. lookup'[l].at = "answer" /\ lookup'[l].venue = lookup[l].venue /\ lookup'[l].due = lookup[l].due
    BY <2>1, <2>2, <2>3 DEF Asked
  <2>5. VenueOK(l)'
    BY <2>2, <2>4, <1>c DEF VenueOK
  <2>6. \A m \in Lookups \ {l} : lookup'[m] = base[m]
    BY <2>1, <2>2
  <2>7. ASSUME NEW m \in Lookups \ {l} PROVE VenueOK(m)'
    BY <2>3, <2>6, <1>a DEF VenueOK, SameVenue
  <2> QED
    BY <2>5, <2>7
<1>8. CASE AnswerQuote(l)
  <2>1. lookup' = [lookup EXCEPT ![l] = NotAsked]
    BY <1>8 DEF AnswerQuote
  <2>2. lookup'[l] = NotAsked /\ \A m \in Lookups \ {l} : SameVenue(m)
    BY <2>1 DEF QuoteTypeOK, SameVenue
  <2> QED
    BY <2>2, <1>a, <1>e
<1> QED
  BY <1>1, <1>2, <1>3, <1>4, <1>5, <1>6, <1>7, <1>8 DEF LookupStep

(* Nor does any other step.                                                 *)
LEMMA VenuesStep ==
  ASSUME QuoteTypeOK, QuoteTypeOK', EntryHeld, VenuesOK, ExchangeFirst, QuoteNext
  PROVE  VenuesOK' /\ ExchangeFirst'
<1>a. \A m \in Lookups : VenueOK(m)
  BY VenuesEach
<1>b. ASSUME NEW m \in Lookups, SameVenue(m) PROVE VenueOK(m)'
  BY <1>a, <1>b, StillTraded DEF VenueOK, SameVenue
<1>c. (\A m \in Lookups : VenueOK(m)') => VenuesOK' /\ ExchangeFirst'
  BY DEF VenuesOK, ExchangeFirst, VenueOK
<1>1. CASE UNCHANGED lookup
  BY <1>1, <1>b, <1>c DEF SameVenue
<1>2. CASE UpdateForexRate
  <2>1. ASSUME NEW m \in Lookups PROVE SameVenue(m)
    BY <1>2 DEF UpdateForexRate, SameVenue, QuoteTypeOK, Asked
  <2> QED
    BY <2>1, <1>b, <1>c
<1>3. ASSUME NEW c \in Codes, EvictIdle(c) PROVE VenuesOK' /\ ExchangeFirst'
  <2>1. c \in DOMAIN entries /\ lookup' = Orphaned(c)
    BY <1>3 DEF EvictIdle
  <2>2. ASSUME NEW m \in Lookups PROVE VenueOK(m)'
    <3>1. \/ lookup'[m] = lookup[m]
          \/ /\ lookup[m].at = "touch" /\ lookup'[m].at = "answer"
             /\ lookup'[m].venue = lookup[m].venue /\ lookup'[m].due = lookup[m].due
      BY <2>1, OrphansHaveNoVenue
    <3> QED
      BY <3>1, <1>a, StillTraded DEF VenueOK
  <2> QED
    BY <2>2, <1>c
<1>4. ASSUME NEW l \in Lookups, LookupStep(l) PROVE VenuesOK' /\ ExchangeFirst'
  BY <1>4, <1>a, <1>c, StillTraded, VenuesOfHandlers
<1>5. UNCHANGED lookup \/ UpdateForexRate \/ (\E c \in Codes : EvictIdle(c)) \/ (\E l \in Lookups : LookupStep(l))
  BY DEF QuoteNext, Advance, PriceMoves, Poller, PollAll, FetchBatch, FetchBatchFails, PollStores, PollEnds, Feeds, Connect, Disconnect,
         FetchIDList, FetchMarketCaps, UpdateMarketCap, OnBinanceUpdate, OnUpbitUpdate, FetchRate
<1> QED
  BY <1>1, <1>2, <1>3, <1>4, <1>5

(* Every step that changes a rate or a price of the coin cache converts     *)
(* again what depends on it.                                                *)
LEMMA CacheStep ==
  ASSUME QuoteTypeOK, QuoteTypeOK', TokensPriced, CacheAgrees, QuoteNext
  PROVE  CacheAgrees'
<1> DEFINE OfExchanges == cex.usd > 0 /\ cex.krw > 0 /\ forexRate > 0 => cex.premium = <<cex.usd, cex.krw, forexRate>>
           OfTokens == \A c \in DOMAIN dex : forexRate > 0 => dex[c].krw = <<dex[c].usd, forexRate>>
<1>a. \A q \in ExchangeQuote, r \in 0 .. MaxRate :
        LET p == recalcKimchi(q, r)
        IN  p.usd = q.usd /\ p.krw = q.krw /\ (q.usd > 0 /\ q.krw > 0 /\ r > 0 => p.premium = <<q.usd, q.krw, r>>)
  BY DEF recalcKimchi, ExchangeQuote
<1>b. OfExchanges /\ OfTokens
  BY DEF CacheAgrees
<1>c. OfExchanges' /\ OfTokens' => CacheAgrees'
  BY DEF CacheAgrees
<1>1. CASE UNCHANGED <<dex, cex, forexRate>>
  BY <1>1, <1>b, <1>c
<1>2. CASE OnBinanceUpdate \/ OnUpbitUpdate
  <2>1. UNCHANGED <<dex, forexRate>>
    BY <1>2 DEF OnBinanceUpdate, OnUpbitUpdate
  <2>2. \E q \in ExchangeQuote : cex' = recalcKimchi(q, forexRate)
    BY <1>2, ExchangeMoves DEF OnBinanceUpdate, OnUpbitUpdate
  <2>3. OfExchanges'
    BY <2>1, <2>2, <1>a DEF QuoteTypeOK
  <2> QED
    BY <2>1, <2>3, <1>b, <1>c
<1>3. CASE UpdateForexRate
  <2>1. cex' = recalcKimchi(cex, rate) /\ forexRate' = rate /\ rate > 0
    BY <1>3 DEF UpdateForexRate
  <2>2. OfExchanges'
    BY <2>1, <1>a DEF QuoteTypeOK
  <2>3. OfTokens'
    BY <1>3, <2>1 DEF UpdateForexRate, QuoteTypeOK, Quote
  <2> QED
    BY <2>2, <2>3, <1>c
<1>4. CASE UpdateMarketCap
  BY <1>4, <1>b, <1>c DEF UpdateMarketCap, QuoteTypeOK, ExchangeQuote
<1>5. ASSUME NEW l \in Lookups, SetDEX(l) PROVE CacheAgrees'
  <2> DEFINE c == lookup[l].code
             q == [lookup[l].quote EXCEPT !.krw = InKRW(lookup[l].quote.usd)]
  <2>1. lookup[l].quote \in Quote /\ lookup[l].quote.usd > 0
    BY <1>5 DEF SetDEX, TokensPriced, QuoteTypeOK, Asked
  <2>2. forexRate > 0 => q.krw = <<q.usd, forexRate>>
    BY <2>1 DEF InKRW, Quote
  <2>3. dex' = Put(dex, c, q) /\ UNCHANGED <<cex, forexRate>>
    BY <1>5 DEF SetDEX
  <2> HIDE DEF q
  <2>4. OfTokens'
    BY <2>2, <2>3, <1>b DEF Put
  <2> QED
    BY <2>3, <2>4, <1>b, <1>c
<1>6. UNCHANGED <<dex, cex, forexRate>> \/ OnBinanceUpdate \/ OnUpbitUpdate \/ UpdateForexRate \/ UpdateMarketCap
        \/ \E l \in Lookups : SetDEX(l)
  <2>1. CASE Advance \/ (\E c \in Codes : PriceMoves(c)) \/ Poller
    BY <2>1 DEF Advance, PriceMoves, Poller, PollAll, FetchBatch, FetchBatchFails, PollStores, PollEnds, EvictIdle, coinVars
  <2>2. CASE Feeds
    BY <2>2 DEF Feeds, Connect, Disconnect, FetchIDList, FetchMarketCaps, FetchRate
  <2>3. ASSUME NEW l \in Lookups, LookupStep(l) PROVE UNCHANGED <<dex, cex, forexRate>> \/ SetDEX(l)
    BY <2>3 DEF LookupStep, Ask, AskCoin, lookupCoinGecko, FetchPrice, Find, Touch, Fetch, FetchFails, Register, AnswerQuote, coinVars
  <2> QED
    BY <2>1, <2>2, <2>3 DEF QuoteNext
<1> QED
  BY <1>1, <1>2, <1>3, <1>4, <1>5, <1>6
------------------------------------------------------------------------------
(* The theorems.                                                            *)

(* At first there is no entry, no lookup and no poll.                       *)
LEMMA QuotesAtFirst == QuoteInit => QuoteIInv
<1> SUFFICES ASSUME QuoteInit PROVE QuoteIInv
  OBVIOUS
<1> USE QuoteAssumption DEF QuoteInit
<1>1. QuoteTypeOK
  <2>1. NotAsked \in Asked
    BY DEF NotAsked, Asked, Quote, Unknown, Places, Venues
  <2>2. coin \in Coins
    <3>1. NotACoin \in Coins
      BY DEF Coins, NotACoin
    <3>2. coin \in Coins \/ coin = NotACoin
      OBVIOUS
    <3> QED
      BY <3>1, <3>2
  <2>3. price \in [Codes -> 1 .. MaxPrice] /\ newest \in [Codes -> 0 .. MaxPrice]
    OBVIOUS
  <2>4. cex \in ExchangeQuote
    BY DEF ExchangeQuote
  <2>5. gecko \in [lists : BOOLEAN, cap : 0 .. MaxCap]
    OBVIOUS
  <2> QED
    BY <2>1, <2>2, <2>3, <2>4, <2>5, Nothing DEF QuoteTypeOK, Idle
<1>2. \A l \in Lookups : /\ lookup[l].at = "idle" /\ lookup[l].code = "none" /\ lookup[l].quote.usd = 0
                         /\ lookup[l].floor = 0 /\ lookup[l].due = FALSE
  BY DEF NotAsked, Unknown
<1>3. DOMAIN entries = {} /\ DOMAIN poll.got = {} /\ DOMAIN dex = {}
  BY Nothing DEF Idle
<1>4. CodesOK /\ EntryHeld /\ PricesOK /\ FetchesOK /\ TokensPriced
  BY <1>2, <1>3 DEF CodesOK, EntryHeld, PricesOK, FetchesOK, TokensPriced, Fetching
<1>5. VenuesOK /\ NeverBackwards /\ ExchangeFirst
  BY <1>2 DEF VenuesOK, NeverBackwards, ExchangeFirst
<1>6. CacheAgrees
  BY <1>3 DEF CacheAgrees
<1> QED
  BY <1>1, <1>4, <1>5, <1>6 DEF QuoteIInv

(* Every step keeps the inductive invariant.                                *)
LEMMA QuotesStep == QuoteIInv /\ [QuoteNext]_quoteVars => QuoteIInv'
<1>1. ASSUME QuoteIInv, QuoteNext PROVE QuoteIInv'
  <2>1. QuoteTypeOK'
    BY <1>1, TypesStep DEF QuoteIInv
  <2>2. KnownOK'
    BY <1>1, <2>1, KnownStep DEF QuoteIInv, KnownOK
  <2>3. VenuesOK' /\ ExchangeFirst'
    BY <1>1, <2>1, VenuesStep DEF QuoteIInv
  <2>4. CacheAgrees'
    BY <1>1, <2>1, CacheStep DEF QuoteIInv
  <2> QED
    BY <2>1, <2>2, <2>3, <2>4 DEF QuoteIInv, KnownOK
<1>2. ASSUME QuoteIInv, UNCHANGED quoteVars PROVE QuoteIInv'
  BY <1>2 DEF quoteVars, coinVars, histVars, QuoteIInv, QuoteTypeOK, CodesOK, EntryHeld, PricesOK, FetchesOK, TokensPriced, VenuesOK,
              NeverBackwards, CacheAgrees, ExchangeFirst, AsNewAsAnswers, AsNewAsEntry, Fetching, Traded
<1> QED
  BY <1>1, <1>2

(* The conjuncts of the invariant hold of every reachable state.            *)
THEOREM QuotesInductive == QuoteSpec => []QuoteIInv
<1> QED
  BY QuotesAtFirst, QuotesStep, PTL DEF QuoteSpec

(* The state is of its types.                                               *)
THEOREM QuotesTyped == QuoteSpec => []QuoteTypeOK
<1>1. QuoteIInv => QuoteTypeOK
  BY DEF QuoteIInv
<1> QED
  BY QuotesInductive, <1>1, PTL

(* Where no two fetches of a code overlapped, no answer is older than one   *)
(* that had been given when the lookup began.                               *)
THEOREM NeverGoesBack == QuoteSpec => []NeverBackwards
<1>1. QuoteIInv => NeverBackwards
  BY DEF QuoteIInv
<1> QED
  BY QuotesInductive, <1>1, PTL

(* The conversions of CoinCache are those of the prices and the rate beside *)
(* them.                                                                    *)
THEOREM CacheIsConsistent == QuoteSpec => []CacheAgrees
<1>1. QuoteIInv => CacheAgrees
  BY DEF QuoteIInv
<1> QED
  BY QuotesInductive, <1>1, PTL

(* A coin the feeds had a quote of when it was asked for is answered from   *)
(* CoinGecko only where a quantity was asked for.                           *)
THEOREM ExchangesComeFirst == QuoteSpec => []ExchangeFirst
<1>1. QuoteIInv => ExchangeFirst
  BY DEF QuoteIInv
<1> QED
  BY QuotesInductive, <1>1, PTL

------------------------------------------------------------------------------
(* The admin dashboard.                                                     *)

(* The loads there may be.                                                  *)
Loads == [panel : Panels \cup {"me"}, window : Windows, room : Rooms \cup {NoRoom}, latest : BOOLEAN]

(* What loads there are once some panels are loaded anew.                   *)
LEMMA StartedAre ==
  ASSUME NEW ps \in SUBSET (Panels \cup {"me"}), NEW pending \in SUBSET Loads, NEW r \in Rooms \cup {NoRoom}, NEW w \in Windows
  PROVE  /\ StartedLoads(ps, pending, r, w) \subseteq Loads
         /\ \A p \in ps : [panel |-> p, window |-> w, room |-> r, latest |-> TRUE] \in StartedLoads(ps, pending, r, w)
         /\ \A load \in StartedLoads(ps, pending, r, w) :
              \/ load.panel \in ps /\ (load.latest => load.window = w /\ load.room = r)
              \/ load.panel \notin ps /\ load \in pending
         /\ \A load \in pending : load.panel \notin ps => load \in StartedLoads(ps, pending, r, w)
<1> DEFINE Anew(load) == [load EXCEPT !.latest = load.latest /\ load.panel \notin ps]
           News == {[panel |-> p, window |-> w, room |-> r, latest |-> TRUE] : p \in ps}
<1>1. StartedLoads(ps, pending, r, w) = {Anew(load) : load \in pending} \cup News
  BY DEF StartedLoads
<1>2. ASSUME NEW load \in pending
      PROVE  /\ Anew(load) \in Loads /\ Anew(load).panel = load.panel
             /\ load.panel \notin ps => Anew(load) = load
             /\ load.panel \in ps => Anew(load).latest = FALSE
  <2>1. load \in Loads /\ load.latest \in BOOLEAN
    BY DEF Loads
  <2>2. \A b \in BOOLEAN : [load EXCEPT !.latest = b] \in Loads /\ [load EXCEPT !.latest = b].panel = load.panel
                           /\ [load EXCEPT !.latest = b].latest = b
    BY <2>1 DEF Loads
  <2>3. CASE load.panel \in ps
    <3>1. Anew(load) = [load EXCEPT !.latest = FALSE]
      BY <2>3
    <3> QED
      BY <2>2, <2>3, <3>1
  <2>4. CASE load.panel \notin ps
    <3>1. (load.latest /\ load.panel \notin ps) = load.latest
      BY <2>1, <2>4
    <3>2. Anew(load) = [load EXCEPT !.latest = load.latest]
      BY <3>1
    <3>3. Anew(load) = load
      BY <2>1, <3>2 DEF Loads
    <3> QED
      BY <2>1, <2>4, <3>3
  <2> QED
    BY <2>3, <2>4
<1>3. ASSUME NEW load \in News
      PROVE  load \in Loads /\ load.panel \in ps /\ load.window = w /\ load.room = r
  <2>1. PICK p \in ps : load = [panel |-> p, window |-> w, room |-> r, latest |-> TRUE]
    OBVIOUS
  <2>2. TRUE \in BOOLEAN /\ p \in Panels \cup {"me"}
    OBVIOUS
  <2>3. load \in Loads
    BY <2>1, <2>2 DEF Loads
  <2> QED
    BY <2>1, <2>3
<1>4. \A p \in ps : [panel |-> p, window |-> w, room |-> r, latest |-> TRUE] \in News
  OBVIOUS
<1> HIDE DEF Anew, News
<1> QED
  BY <1>1, <1>2, <1>3, <1>4

(* Types of the loads, the panels and the profile.                          *)
LEMMA PageTypes ==
  ASSUME PageTypeOK
  PROVE  /\ loads \subseteq Loads
         /\ \A p \in Panels : shown.panels[p] \in Windows \cup {0}
         /\ \A p \in {"overview", "rooms"} : shown.listed[p] \subseteq Rooms
         /\ NoRoom \notin Rooms
         /\ profile.rooms \subseteq Rooms
<1>1. NoRoom \notin Rooms
  BY DashboardAssumption
<1>2. loads \subseteq Loads
  BY DEF PageTypeOK, Loads
<1>3. /\ \A p \in Panels : shown.panels[p] \in Windows \cup {0}
      /\ \A p \in {"overview", "rooms"} : shown.listed[p] \subseteq Rooms
  BY DEF PageTypeOK, Shown
<1>4. profile.rooms \subseteq Rooms
  <2>1. PICK e \in AllowedEmails \cup DOMAIN AudienceScopes : profile = audiencesByEmail[e]
    BY DEF PageTypeOK, Profiles, Range, audiencesByEmail
  <2>2. CASE e \in DOMAIN AudienceScopes
    <3>1. profile = audienceFromScope(AudienceScopes[e])
      BY <2>1, <2>2 DEF audiencesByEmail
    <3>2. AudienceScopes[e].rooms \subseteq Rooms \cup {"*"}
      BY <2>2, DashboardAssumption
    <3> QED
      BY <3>1, <3>2 DEF audienceFromScope
  <2>3. CASE e \notin DOMAIN AudienceScopes
    BY <2>1, <2>3 DEF audiencesByEmail
  <2> QED
    BY <2>2, <2>3
<1> QED
  BY <1>1, <1>2, <1>3, <1>4

(* The lists show rooms, of which a message has come.                       *)
LEMMA ListedAre ==
  ASSUME PageTypeOK, RowsOK, NEW load, NEW listed \in Listed(load)
  PROVE  listed \subseteq Rooms
<1> DEFINE limit == IF load.panel = "overview" THEN OverviewLimit ELSE RoomLimit
<1>1. PICK r : \E list \in QueryRooms(r, load.window, limit) : listed = DOMAIN list
  BY DEF Listed, handleRooms
<1>2. PICK evs : evs = OfRoom(Within(rows, load.window), r)
  OBVIOUS
<1>3. listed \subseteq {m.room : m \in Named(evs, {"message_received"})}
  BY <1>1, <1>2 DEF QueryRooms, Top
<1>4. ASSUME NEW m \in Named(evs, {"message_received"})
      PROVE  m.room \in Rooms
  <2>1. m \in rows /\ m.kind.name = "message_received"
    BY <1>2, <1>4 DEF Named, OfRoom, Within
  <2>2. m.room # NoRoom
    BY <2>1 DEF RowsOK, OfTracker
  <2> QED
    BY <2>1, <2>2 DEF PageTypeOK, Row
<1> QED
  BY <1>3, <1>4

(* The next event is added to the table.                                    *)
LEMMA RowAdded ==
  ASSUME PageTypeOK, RowsOK, InsertEvents
  PROVE  rows' \subseteq Row /\ RowsOK'
<1> DEFINE n == Cardinality(rows) + 1
<1>1. PICK r \in Rooms \cup {NoRoom} :
        /\ r = NoRoom <=> Kinds[n].name \in OfTracker
        /\ \A m \in rows : m.kind.run = Kinds[n].run => m.room = r
        /\ rows' = rows \cup {[id |-> n, room |-> r, at |-> clock, kind |-> Kinds[n]]}
  BY DEF InsertEvents
<1>2. Cardinality(rows) \in Nat /\ IsFiniteSet(rows)
  BY FS_CardinalityType DEF RowsOK
<1>3. n \in 1 .. MaxRows
  <2>1. MaxRows \in Nat
    BY FS_CardinalityType, DashboardAssumption DEF MaxRows
  <2> QED
    BY <1>2, <2>1 DEF InsertEvents
<1>4. Kinds[n] \in Range(Kinds)
  BY <1>3, DashboardAssumption DEF Range
<1> DEFINE row == [id |-> n, room |-> r, at |-> clock, kind |-> Kinds[n]]
<1>5. row \in Row /\ row.id = n /\ row.room = r /\ row.kind = Kinds[n]
  BY <1>3, <1>4 DEF PageTypeOK, Row
<1>6. rows' = rows \cup {row} /\ row \notin rows
  <2>1. \A m \in rows : m.id <= Cardinality(rows) /\ m.id \in Nat
    BY DEF RowsOK, PageTypeOK, Row
  <2> QED
    BY <1>1, <1>2, <1>5, <2>1
<1> HIDE DEF row
<1>7. IsFiniteSet(rows') /\ Cardinality(rows') = n
  BY <1>2, <1>6, FS_AddElement
<1>8. \A m \in rows' : /\ m.kind = Kinds[m.id] /\ m.id <= n
                       /\ m.room = NoRoom <=> m.kind.name \in OfTracker
  <2>1. ASSUME NEW m \in rows
        PROVE  /\ m.kind = Kinds[m.id] /\ m.id <= n
               /\ m.room = NoRoom <=> m.kind.name \in OfTracker
    BY <1>2 DEF RowsOK, PageTypeOK, Row
  <2> QED
    BY <1>1, <1>2, <1>5, <1>6, <2>1
<1>9. \A k \in 1 .. n : \E m \in rows' : m.id = k
  <2> SUFFICES ASSUME NEW k \in 1 .. n PROVE \E m \in rows' : m.id = k
    OBVIOUS
  <2>1. CASE k = n
    BY <1>5, <1>6, <2>1
  <2>2. CASE k # n
    <3>1. k \in 1 .. Cardinality(rows)
      BY <1>2, <2>2
    <3> QED
      BY <1>6, <3>1 DEF RowsOK
  <2> QED
    BY <2>1, <2>2
<1>0. \A x \in rows, y \in rows :
        /\ x.id = y.id => x = y
        /\ x.kind.run = y.kind.run => x.room = y.room
  BY DEF RowsOK
<1>10. ASSUME NEW m \in rows', NEW o \in rows'
       PROVE  /\ m.id = o.id => m = o
              /\ m.kind.run = o.kind.run => m.room = o.room
  <2>1. \A x \in rows : x.id # n
    <3>1. \A x \in rows : x.id <= Cardinality(rows) /\ x.id \in Nat
      BY DEF RowsOK, PageTypeOK, Row
    <3> QED
      BY <1>2, <3>1
  <2>2. CASE m \in rows /\ o \in rows
    BY <1>0, <2>2
  <2>3. CASE m = row /\ o \in rows
    BY <1>1, <1>5, <2>1, <2>3
  <2>4. CASE m \in rows /\ o = row
    BY <1>1, <1>5, <2>1, <2>4
  <2>5. CASE m = row /\ o = row
    BY <2>5
  <2> QED
    BY <1>6, <2>2, <2>3, <2>4, <2>5
<1>11. rows' \subseteq Row
  BY <1>5, <1>6 DEF PageTypeOK
<1> QED
  BY <1>7, <1>8, <1>9, <1>10, <1>11 DEF RowsOK

(* The table changes only before the page has loaded.                       *)
LEMMA TableStep ==
  ASSUME PageIInv, Tick \/ InsertEvents
  PROVE  PageIInv'
<1>1. UNCHANGED <<profile, me, room, window, loads, shown, acts, lost>>
  BY DEF Tick, InsertEvents, Building, pageVars
<1>2. MeFirst' /\ TabsOK' /\ DetailOK'
  BY <1>1 DEF PageIInv, MeFirst, TabsOK, DetailOK, Pending
<1>3. CASE Tick
  <2>1. UNCHANGED rows
    BY <1>3 DEF Tick
  <2>2. RowsOK'
    BY <2>1 DEF RowsOK, PageIInv
  <2> QED
    BY <1>1, <1>2, <1>3, <2>2, DashboardAssumption DEF Tick, PageIInv, PageTypeOK
<1>4. CASE InsertEvents
  <2>1. rows' \subseteq Row /\ RowsOK'
    BY <1>4, RowAdded DEF PageIInv
  <2>2. clock' = clock
    BY <1>4 DEF InsertEvents
  <2> QED
    BY <1>1, <1>2, <2>1, <2>2 DEF PageIInv, PageTypeOK
<1> QED
  BY <1>3, <1>4

(* What the page reloads: the user, or all tabs.                            *)
LEMMA Refreshed ==
  ASSUME PageTypeOK, NEW pending \in SUBSET loads, NEW r \in Rooms \cup {NoRoom}, NEW w \in Windows, me' \in BOOLEAN,
         refreshAll(pending, r, w)
  PROVE  /\ loads' \subseteq Loads
         /\ me' => \A p \in Tabs : /\ \E load \in loads' : load.panel = p /\ load.latest
                                   /\ \A load \in loads' : load.panel = p /\ load.latest => load.window = w
         /\ me' => \A load \in loads' : load.panel \in Tabs \/ load \in pending
         /\ ~me' => \A load \in loads' : load.panel = "me" \/ load \in pending
<1>1. pending \in SUBSET Loads
  BY PageTypes
<1>2. CASE me'
  <2>1. loads' = StartedLoads(Tabs, pending, r, w) /\ Tabs \in SUBSET (Panels \cup {"me"})
    BY <1>2 DEF refreshAll, Panels
  <2>2. \A p \in Tabs : [panel |-> p, window |-> w, room |-> r, latest |-> TRUE] \in loads'
    BY <1>1, <2>1, StartedAre
  <2>3. \A p \in Tabs : \E load \in loads' : load.panel = p /\ load.latest
    <3> SUFFICES ASSUME NEW p \in Tabs PROVE \E load \in loads' : load.panel = p /\ load.latest
      OBVIOUS
    <3> DEFINE load == [panel |-> p, window |-> w, room |-> r, latest |-> TRUE]
    <3>1. load \in loads' /\ load.panel = p /\ load.latest
      BY <2>2
    <3> HIDE DEF load
    <3> QED
      BY <3>1
  <2> QED
    BY <1>1, <1>2, <2>1, <2>3, StartedAre
<1>3. CASE ~me'
  <2>1. loads' = StartedLoads({"me"}, pending, r, w) /\ {"me"} \in SUBSET (Panels \cup {"me"})
    BY <1>3 DEF refreshAll
  <2> QED
    BY <1>1, <1>3, <2>1, StartedAre
<1> QED
  BY <1>2, <1>3

(* Another window is selected: all tabs are loaded for it, and the detail   *)
(* after the list.                                                          *)
LEMMA PickStep ==
  ASSUME PageIInv, PickWindow
  PROVE  PageIInv'
<1>1. /\ UNCHANGED <<profile, me, room, shown, lost, clock, rows>> /\ window' \in Windows /\ refreshAll(loads, room, window')
      /\ acts' = acts + 1 /\ acts < MaxActs
  BY DEF PickWindow, tableVars
<1>2. me' \in BOOLEAN /\ room \in Rooms \cup {NoRoom} /\ PageTypeOK
  BY <1>1 DEF PageIInv, PageTypeOK
<1>3. PICK pending \in SUBSET loads, r \in Rooms \cup {NoRoom}, w \in Windows :
        pending = loads /\ r = room /\ w = window' /\ refreshAll(pending, r, w)
  BY <1>1, <1>2
<1>4. /\ loads' \subseteq Loads
      /\ me' => \A p \in Tabs : /\ \E load \in loads' : load.panel = p /\ load.latest
                                /\ \A load \in loads' : load.panel = p /\ load.latest => load.window = w
      /\ me' => \A load \in loads' : load.panel \in Tabs \/ load \in loads
      /\ ~me' => \A load \in loads' : load.panel = "me" \/ load \in loads
  BY <1>2, <1>3, Refreshed
<1>5. PageTypeOK' /\ RowsOK'
  BY <1>1, <1>4, DashboardAssumption DEF PageIInv, PageTypeOK, RowsOK, Loads
<1>6. MeFirst'
  BY <1>1, <1>4 DEF PageIInv, MeFirst
<1>7. TabsOK'
  BY <1>3, <1>4 DEF TabsOK, Pending
<1>8. DetailOK'
  BY <1>1, <1>4 DEF PageIInv, MeFirst, DetailOK, Pending, Tabs
<1> QED
  BY <1>5, <1>6, <1>7, <1>8 DEF PageIInv

(* A room is chosen: its detail is loaded.                                  *)
LEMMA ClickStep ==
  ASSUME PageIInv, ClickRoom
  PROVE  PageIInv'
<1>1. /\ UNCHANGED <<profile, me, window, shown, lost, clock, rows>> /\ acts' = acts + 1 /\ acts < MaxActs
      /\ room' \in UNION Range(shown.listed) /\ loads' = StartedLoads({"detail"}, loads, room', window)
  BY DEF ClickRoom, tableVars
<1>2. PICK p \in {"overview", "rooms"} : room' \in shown.listed[p]
  BY <1>1 DEF Range, PageIInv, PageTypeOK, Shown
<1>3. me /\ room' \in Rooms /\ NoRoom \notin Rooms
  BY <1>2, PageTypes DEF PageIInv, MeFirst
<1>4. {"detail"} \in SUBSET (Panels \cup {"me"}) /\ loads \in SUBSET Loads /\ window \in Windows
  BY PageTypes DEF Panels, PageIInv, PageTypeOK
<1>5. /\ loads' \subseteq Loads
      /\ [panel |-> "detail", window |-> window, room |-> room', latest |-> TRUE] \in loads'
      /\ \A load \in loads' :
              \/ load.panel = "detail" /\ (load.latest => load.window = window /\ load.room = room')
              \/ load.panel # "detail" /\ load \in loads
      /\ \A load \in loads : load.panel # "detail" => load \in loads'
  BY <1>1, <1>3, <1>4, StartedAre
<1>6. PageTypeOK' /\ RowsOK'
  BY <1>1, <1>3, <1>5, DashboardAssumption DEF PageIInv, PageTypeOK, RowsOK, Loads
<1>7. MeFirst'
  BY <1>1, <1>3 DEF MeFirst
<1>8. TabsOK'
  BY <1>1, <1>5 DEF PageIInv, TabsOK, Pending, Tabs
<1>9. DetailOK'
  <2> DEFINE load == [panel |-> "detail", window |-> window, room |-> room', latest |-> TRUE]
  <2>1. load \in loads' /\ load.panel = "detail" /\ load.latest
    BY <1>5
  <2> HIDE DEF load
  <2>2. Pending("detail")' # {}
    BY <2>1 DEF Pending
  <2>3. \A other \in Pending("detail")' : other.window = window' /\ other.room = room'
    BY <1>1, <1>5 DEF Pending
  <2> QED
    BY <2>2, <2>3, <1>3 DEF DetailOK
<1> QED
  BY <1>6, <1>7, <1>8, <1>9 DEF PageIInv

(* A load fails: its panel is lost, and with the list the detail too.       *)
LEMMA FailStep ==
  ASSUME PageIInv, NEW load \in loads, Fail(load)
  PROVE  PageIInv'
<1> DEFINE Left(other) == [other EXCEPT !.latest = other.latest /\ ~(load.panel = "rooms" /\ other.panel = "detail")]
<1>1. /\ loads' = {Left(other) : other \in loads \ {load}} /\ load.panel \in lost' /\ lost \subseteq lost'
      /\ load.panel = "rooms" => "detail" \in lost'
      /\ lost' \subseteq lost \cup {load.panel, "detail"}
      /\ acts' = acts + 1 /\ acts < MaxActs /\ UNCHANGED <<profile, me, room, window, shown, clock, rows>>
  BY DEF Fail, tableVars
<1>2. load \in Loads
  BY PageTypes DEF PageIInv
<1>3. ASSUME NEW other \in loads
      PROVE  /\ Left(other) \in Loads /\ Left(other).panel = other.panel /\ Left(other).window = other.window
             /\ Left(other).room = other.room
             /\ Left(other).latest => other.latest /\ ~(load.panel = "rooms" /\ other.panel = "detail")
             /\ other.panel # "detail" => Left(other) = other
             /\ load.panel # "rooms" => Left(other) = other
  <2>1. other \in Loads /\ other.latest \in BOOLEAN
    BY PageTypes DEF PageIInv, Loads
  <2>2. CASE load.panel = "rooms" /\ other.panel = "detail"
    <3>1. Left(other) = [other EXCEPT !.latest = FALSE]
      BY <2>2
    <3> QED
      BY <2>1, <2>2, <3>1 DEF Loads
  <2>3. CASE ~(load.panel = "rooms" /\ other.panel = "detail")
    <3>1. (other.latest /\ ~(load.panel = "rooms" /\ other.panel = "detail")) = other.latest
      BY <2>1, <2>3
    <3>2. Left(other) = [other EXCEPT !.latest = other.latest]
      BY <3>1
    <3>3. Left(other) = other
      BY <2>1, <3>2 DEF Loads
    <3> QED
      BY <2>1, <2>3, <3>3
  <2> QED
    BY <2>2, <2>3
<1> HIDE DEF Left
<1>4. PageTypeOK' /\ RowsOK'
  <2>1. loads' \subseteq Loads
    BY <1>1, <1>3
  <2>2. lost' \subseteq Panels \cup {"me"}
    BY <1>1, <1>2 DEF PageIInv, PageTypeOK, Loads, Panels
  <2> QED
    BY <1>1, <2>1, <2>2, DashboardAssumption DEF PageIInv, PageTypeOK, RowsOK, Loads
<1>5. MeFirst'
  BY <1>1, <1>3 DEF PageIInv, MeFirst
<1>6. \A p \in Panels : p \in lost' \/ Pending(p) \subseteq loads' \/ (p = "detail" /\ load.panel = "rooms")
  BY <1>1, <1>3 DEF Pending
<1>7. \A p : \A other \in Pending(p)' : \E before \in Pending(p) : other.window = before.window /\ other.room = before.room
  BY <1>1, <1>3 DEF Pending
<1>8. TabsOK'
  <2> SUFFICES ASSUME me, NEW p \in Tabs PROVE /\ \A other \in Pending(p)' : other.window = window
                                               /\ Pending(p)' # {} \/ p \in lost' \/ shown.panels[p] = window
    BY <1>1 DEF TabsOK
  <2>1. \A other \in Pending(p)' : other.window = window
    BY <1>7 DEF PageIInv, TabsOK
  <2>2. Pending(p)' # {} \/ p \in lost' \/ shown.panels[p] = window
    BY <1>1, <1>6 DEF PageIInv, TabsOK, Pending, Tabs, Panels
  <2> QED
    BY <2>1, <2>2
<1>9. DetailOK'
  <2>1. room' = NoRoom => \A other \in loads' : other.panel # "detail"
    BY <1>1, <1>3 DEF PageIInv, DetailOK
  <2>2. CASE load.panel = "rooms"
    <3>1. Pending("detail")' = {}
      BY <2>2, <1>1, <1>3 DEF Pending
    <3> QED
      BY <2>1, <2>2, <3>1, <1>1 DEF DetailOK
  <2>3. CASE load.panel # "rooms"
    <3>1. loads' = loads \ {load}
      BY <2>3, <1>1, <1>3
    <3>2. Pending("rooms") \subseteq Pending("rooms")'
      BY <2>3, <3>1 DEF Pending
    <3>3. Pending("detail") \subseteq Pending("detail")' \/ "detail" \in lost'
      BY <3>1, <1>1 DEF Pending
    <3> QED
      BY <2>1, <3>1, <3>2, <3>3, <1>1 DEF PageIInv, DetailOK, Pending
  <2> QED
    BY <2>2, <2>3
<1> QED
  BY <1>4, <1>5, <1>8, <1>9 DEF PageIInv

(* What the answer of a panel shows, and which loads it leaves.             *)
LEMMA LatePanel ==
  ASSUME PageIInv, NEW load \in loads, load.panel \in Panels, Late(load)
  PROVE  /\ lost' \subseteq Panels \cup {"me"}
         /\ lost \ {load.panel} \subseteq lost' /\ lost' \ {load.panel} \subseteq lost
         /\ load.latest \/ load.panel \in lost'
<1>1. load.latest \in BOOLEAN
  BY PageTypes DEF Loads, PageIInv
<1> QED
  BY <1>1 DEF Late, PageIInv, PageTypeOK

(* The user is known: all tabs are loaded.                                  *)
LEMMA MeStep ==
  ASSUME PageIInv, NEW load \in loads, load.panel = "me", AnswerLoad(load)
  PROVE  PageIInv'
<1>1. /\ LoadMe(load) /\ UNCHANGED <<profile, window, acts, clock, rows>>
  BY DEF AnswerLoad, tableVars
<1>2. /\ me' = TRUE /\ UNCHANGED <<shown, lost>> /\ refreshAll(loads \ {load}, room', window)
      /\ room' = room \/ (room = NoRoom /\ room' \in handleMe)
  <2>1. room' \in IF room = NoRoom /\ handleMe # {} THEN handleMe ELSE {room}
    BY <1>1 DEF LoadMe
  <2>2. room' = room \/ (room = NoRoom /\ room' \in handleMe)
    BY <2>1
  <2> QED
    BY <1>1, <2>2 DEF LoadMe
<1>3. room' \in Rooms \cup {NoRoom} /\ (room # NoRoom => room' = room) /\ window \in Windows
  BY <1>2, PageTypes DEF PageIInv, PageTypeOK, handleMe
<1>4. PICK pending \in SUBSET loads, r \in Rooms \cup {NoRoom}, w \in Windows :
        pending = loads \ {load} /\ r = room' /\ w = window /\ refreshAll(pending, r, w)
  BY <1>2, <1>3
<1>5. me' \in BOOLEAN /\ PageTypeOK
  BY <1>2 DEF PageIInv
<1>6. /\ loads' \subseteq Loads
      /\ \A p \in Tabs : /\ \E other \in loads' : other.panel = p /\ other.latest
                         /\ \A other \in loads' : other.panel = p /\ other.latest => other.window = w
      /\ \A other \in loads' : other.panel \in Tabs \/ other \in pending
  BY <1>2, <1>4, <1>5, Refreshed
<1>7. PageTypeOK' /\ RowsOK'
  BY <1>1, <1>2, <1>3, <1>6 DEF PageIInv, PageTypeOK, RowsOK, Loads
<1>8. MeFirst' /\ TabsOK'
  BY <1>1, <1>2, <1>4, <1>6 DEF MeFirst, TabsOK, Pending
<1>9. DetailOK'
  <2>1. Pending("rooms")' # {}
    BY <1>6 DEF Pending, Tabs
  <2>2. room' = NoRoom => \A other \in loads' : other.panel # "detail"
    BY <1>2, <1>3, <1>4, <1>6 DEF PageIInv, DetailOK, Tabs
  <2> QED
    BY <2>1, <2>2 DEF DetailOK
<1> QED
  BY <1>7, <1>8, <1>9 DEF PageIInv

(* A load that is answered: the rest stays pending.                         *)
LEMMA Answered ==
  ASSUME PageTypeOK, MeFirst, NEW load \in loads, load.panel \in Panels
  PROVE  /\ me /\ load \in Loads /\ load.window \in Windows /\ load.room \in Rooms \cup {NoRoom}
         /\ shown.panels \in [Panels -> Windows \cup {0}] /\ shown.listed \in [{"overview", "rooms"} -> SUBSET Rooms]
         /\ shown.detail \in Rooms \cup {NoRoom} /\ shown \in Shown
<1>1. load.panel # "me"
  BY DEF Panels, Tabs
<1>2. load \in Loads
  BY PageTypes
<1> QED
  BY <1>1, <1>2 DEF MeFirst, PageTypeOK, Shown, Loads

(* The overview or the figures are shown.                                   *)
LEMMA TabStep ==
  ASSUME PageIInv, NEW load \in loads, load.panel \in {"overview", "figures"}, AnswerLoad(load)
  PROVE  PageIInv'
<1> DEFINE p == load.panel
<1>1. LoadOverview(load) \/ LoadFigures(load)
  BY DEF AnswerLoad
<1>2. /\ Late(load) /\ loads' = loads \ {load} /\ UNCHANGED <<profile, me, room, window, acts, clock, rows>>
  BY <1>1 DEF AnswerLoad, LoadOverview, LoadFigures, tableVars
<1>3. load.panel \in Panels /\ p \in Tabs /\ p # "detail" /\ p # "rooms"
  BY DEF Panels, Tabs
<1>4. /\ me /\ load \in Loads /\ load.window \in Windows /\ \A rooms \in Listed(load) : rooms \subseteq Rooms
      /\ shown.panels \in [Panels -> Windows \cup {0}] /\ shown.listed \in [{"overview", "rooms"} -> SUBSET Rooms]
      /\ shown \in Shown
  BY <1>3, Answered, ListedAre DEF PageIInv
<1>5. /\ shown' \in Shown /\ shown'.detail = shown.detail /\ shown'.panels[p] = load.window
      /\ \A q \in Panels \ {p} : shown'.panels[q] = shown.panels[q]
  <2>1. CASE p = "overview"
    <3>1. PICK rooms \in Listed(load) :
            shown' = [shown EXCEPT !.panels["overview"] = load.window, !.listed["overview"] = rooms]
      BY <2>1 DEF AnswerLoad, LoadOverview
    <3> QED
      BY <2>1, <3>1, <1>3, <1>4 DEF Shown
  <2>2. CASE p = "figures"
    <3>1. shown' = [shown EXCEPT !.panels["figures"] = load.window]
      BY <2>2 DEF AnswerLoad, LoadFigures
    <3> QED
      BY <2>2, <3>1, <1>3, <1>4 DEF Shown
  <2> QED
    BY <2>1, <2>2
<1>6. /\ lost' \subseteq Panels \cup {"me"} /\ lost \ {p} \subseteq lost' /\ lost' \ {p} \subseteq lost
      /\ load.latest \/ p \in lost'
  BY <1>2, <1>3, LatePanel
<1>7. /\ PageTypeOK' /\ RowsOK' /\ MeFirst'
  BY <1>2, <1>4, <1>5, <1>6 DEF PageIInv, PageTypeOK, RowsOK, MeFirst
<1>8. \A q \in Panels \ {p} : Pending(q)' = Pending(q)
  BY <1>2 DEF Pending
<1>9. TabsOK'
  <2> SUFFICES ASSUME NEW q \in Tabs PROVE /\ \A other \in Pending(q)' : other.window = window
                                           /\ Pending(q)' # {} \/ q \in lost' \/ shown'.panels[q] = window
    BY <1>2 DEF TabsOK
  <2>1. CASE q # p
    BY <2>1, <1>4, <1>5, <1>6, <1>8 DEF PageIInv, TabsOK, Panels
  <2>2. CASE q = p
    <3>1. Pending(q)' \subseteq Pending(q)
      BY <1>2 DEF Pending
    <3>2. load.latest => load \in Pending(q)
      BY <2>2 DEF Pending
    <3>3. \A other \in Pending(q) : other.window = window
      BY <1>4 DEF PageIInv, TabsOK
    <3> QED
      BY <2>2, <3>1, <3>2, <3>3, <1>5, <1>6
  <2> QED
    BY <2>1, <2>2
<1>10. DetailOK'
  <2>1. Pending("rooms")' = Pending("rooms") /\ Pending("detail")' = Pending("detail")
    BY <1>3, <1>8 DEF Panels, Tabs
  <2>2. "detail" \in lost => "detail" \in lost'
    BY <1>3, <1>6
  <2>3. shown'.panels["detail"] = shown.panels["detail"] /\ shown'.detail = shown.detail
    BY <1>3, <1>5 DEF Panels
  <2>4. me => \/ Pending("rooms") # {}
              \/ /\ \A other \in Pending("detail") : other.window = window /\ other.room = room
                 /\ \/ Pending("detail") # {} \/ "detail" \in lost
                    \/ shown.panels["detail"] = window /\ shown.detail = room
    BY DEF PageIInv, DetailOK
  <2>5. room' = NoRoom => \A other \in loads' : other.panel # "detail"
    BY <1>2 DEF PageIInv, DetailOK
  <2> QED
    BY <1>2, <2>1, <2>2, <2>3, <2>4, <2>5 DEF DetailOK
<1> QED
  BY <1>7, <1>9, <1>10 DEF PageIInv

(* The detail is shown.                                                     *)
LEMMA DetailStep ==
  ASSUME PageIInv, NEW load \in loads, load.panel = "detail", AnswerLoad(load)
  PROVE  PageIInv'
<1>1. /\ shown' = [shown EXCEPT !.panels["detail"] = load.window, !.detail = load.room]
      /\ Late(load) /\ loads' = loads \ {load} /\ UNCHANGED <<profile, me, room, window, acts, clock, rows>>
  BY DEF AnswerLoad, LoadRoomDetail, tableVars
<1>2. load.panel \in Panels /\ \A q \in Tabs : q # "detail" /\ q \in Panels
  BY DEF Panels, Tabs
<1>3. /\ me /\ load \in Loads /\ load.window \in Windows /\ load.room \in Rooms \cup {NoRoom}
      /\ shown.panels \in [Panels -> Windows \cup {0}] /\ shown \in Shown
  BY <1>2, Answered DEF PageIInv
<1>4. /\ shown' \in Shown /\ shown'.detail = load.room /\ shown'.panels["detail"] = load.window
      /\ \A q \in Tabs : shown'.panels[q] = shown.panels[q]
  BY <1>1, <1>2, <1>3 DEF Shown
<1>5. /\ lost' \subseteq Panels \cup {"me"} /\ lost \ {"detail"} \subseteq lost' /\ lost' \ {"detail"} \subseteq lost
      /\ load.latest \/ "detail" \in lost'
  BY <1>1, <1>2, LatePanel
<1>6. /\ PageTypeOK' /\ RowsOK' /\ MeFirst'
  BY <1>1, <1>3, <1>4, <1>5 DEF PageIInv, PageTypeOK, RowsOK, MeFirst
<1>7. \A q \in Tabs : Pending(q)' = Pending(q)
  BY <1>1, <1>2 DEF Pending
<1>8. TabsOK'
  BY <1>1, <1>2, <1>4, <1>5, <1>7 DEF PageIInv, TabsOK
<1>9. DetailOK'
  <2>1. Pending("rooms")' = Pending("rooms")
    BY <1>7 DEF Tabs
  <2>2. Pending("detail")' \subseteq Pending("detail") /\ (load.latest => load \in Pending("detail"))
    BY <1>1 DEF Pending
  <2>3. \/ Pending("rooms") # {}
        \/ \A other \in Pending("detail") : other.window = window /\ other.room = room
    BY <1>3 DEF PageIInv, DetailOK
  <2>4. room' = NoRoom => \A other \in loads' : other.panel # "detail"
    BY <1>1 DEF PageIInv, DetailOK
  <2> QED
    BY <1>1, <1>4, <1>5, <2>1, <2>2, <2>3, <2>4 DEF DetailOK
<1> QED
  BY <1>6, <1>8, <1>9 DEF PageIInv

(* The list is shown, and the detail of the room now selected is loaded or  *)
(* emptied.                                                                 *)
LEMMA RoomsStep ==
  ASSUME PageIInv, NEW load \in loads, load.panel = "rooms", AnswerLoad(load)
  PROVE  PageIInv'
<1>1. /\ Late(load) /\ UNCHANGED <<profile, me, room, window, acts, clock, rows>>
  BY DEF AnswerLoad, LoadRooms, DetailAfter, tableVars
<1>12. PICK rooms \in Listed(load) :
         LET list == [shown EXCEPT !.panels["rooms"] = load.window, !.listed["rooms"] = rooms]
         IN  shown' = IF room # NoRoom THEN list ELSE [list EXCEPT !.panels["detail"] = window, !.detail = NoRoom]
  BY DEF AnswerLoad, LoadRooms, DetailAfter
<1> DEFINE listed == [shown EXCEPT !.panels["rooms"] = load.window, !.listed["rooms"] = rooms]
<1>2. /\ room # NoRoom => shown' = listed /\ loads' = StartedLoads({"detail"}, loads \ {load}, room, window)
      /\ room = NoRoom => /\ shown' = [listed EXCEPT !.panels["detail"] = window, !.detail = NoRoom]
                          /\ loads' = loads \ {load}
  BY <1>12 DEF AnswerLoad, LoadRooms, DetailAfter
<1>3. load.panel \in Panels /\ Tabs \subseteq Panels /\ "detail" \in Panels /\ "rooms" \in Tabs /\ "detail" \notin Tabs
  BY DEF Panels, Tabs
<1>4. /\ me /\ load \in Loads /\ load.window \in Windows /\ rooms \subseteq Rooms
      /\ shown.panels \in [Panels -> Windows \cup {0}] /\ shown.listed \in [{"overview", "rooms"} -> SUBSET Rooms]
      /\ shown \in Shown /\ window \in Windows /\ room \in Rooms \cup {NoRoom} /\ loads \in SUBSET Loads
  BY <1>3, Answered, ListedAre, PageTypes DEF PageIInv, PageTypeOK
<1>5. /\ listed \in Shown /\ listed.detail = shown.detail /\ listed.panels["rooms"] = load.window
      /\ \A q \in Panels \ {"rooms"} : listed.panels[q] = shown.panels[q]
      /\ listed.panels \in [Panels -> Windows \cup {0}]
  BY <1>3, <1>4 DEF Shown
<1> HIDE DEF listed
<1>6. /\ shown' \in Shown /\ shown'.panels["rooms"] = load.window
      /\ \A q \in Tabs \ {"rooms"} : shown'.panels[q] = shown.panels[q]
      /\ room = NoRoom => shown'.panels["detail"] = window /\ shown'.detail = NoRoom
  <2>1. CASE room # NoRoom
    BY <2>1, <1>2, <1>3, <1>5
  <2>2. CASE room = NoRoom
    <3>1. shown' = [listed EXCEPT !.panels["detail"] = window, !.detail = NoRoom]
      BY <2>2, <1>2
    <3>2. shown' \in Shown
      BY <3>1, <1>3, <1>4, <1>5 DEF Shown
    <3>3. shown'.detail = NoRoom /\ shown'.panels = [listed.panels EXCEPT !["detail"] = window]
      BY <3>1, <1>5 DEF Shown
    <3> QED
      BY <3>2, <3>3, <1>3, <1>5
  <2> QED
    BY <2>1, <2>2
<1>7. /\ lost' \subseteq Panels \cup {"me"} /\ lost \ {"rooms"} \subseteq lost' /\ lost' \ {"rooms"} \subseteq lost
      /\ load.latest \/ "rooms" \in lost'
  BY <1>1, <1>3, LatePanel
<1>8. /\ loads' \subseteq Loads
      /\ \A other \in loads' : other.panel # "detail" => other \in loads \ {load}
      /\ \A other \in loads \ {load} : other.panel # "detail" => other \in loads'
      /\ room = NoRoom => \A other \in loads' : other.panel # "detail"
      /\ room # NoRoom => /\ [panel |-> "detail", window |-> window, room |-> room, latest |-> TRUE] \in loads'
                          /\ \A other \in loads' : other.panel = "detail" /\ other.latest => other.window = window /\ other.room = room
  <2>1. CASE room # NoRoom
    <3>1. /\ {"detail"} \in SUBSET (Panels \cup {"me"}) /\ loads \ {load} \in SUBSET Loads
      BY <1>3, <1>4
    <3> QED
      BY <2>1, <3>1, <1>2, <1>4, StartedAre
  <2>2. CASE room = NoRoom
    BY <2>2, <1>2, <1>4 DEF PageIInv, DetailOK
  <2> QED
    BY <2>1, <2>2
<1>9. /\ PageTypeOK' /\ RowsOK' /\ MeFirst'
  BY <1>1, <1>4, <1>6, <1>7, <1>8 DEF PageIInv, PageTypeOK, RowsOK, MeFirst, Loads
<1>10. TabsOK'
  <2> SUFFICES ASSUME NEW q \in Tabs PROVE /\ \A other \in Pending(q)' : other.window = window
                                           /\ Pending(q)' # {} \/ q \in lost' \/ shown'.panels[q] = window
    BY <1>1 DEF TabsOK
  <2>0. /\ \A other \in Pending(q) : other.window = window
        /\ Pending(q) # {} \/ q \in lost \/ shown.panels[q] = window
    BY <1>4 DEF PageIInv, TabsOK
  <2>1. q # "detail" /\ Pending(q)' = Pending(q) \ {load}
    BY <1>3, <1>8 DEF Pending
  <2>2. CASE q # "rooms"
    <3>1. load \notin Pending(q)
      BY <2>2 DEF Pending
    <3> QED
      BY <2>0, <2>1, <2>2, <3>1, <1>6, <1>7
  <2>3. CASE q = "rooms"
    <3>1. load.latest => load \in Pending(q)
      BY <2>3 DEF Pending
    <3> QED
      BY <2>0, <2>1, <2>3, <3>1, <1>6, <1>7
  <2> QED
    BY <2>2, <2>3
<1>11. DetailOK'
  <2>1. CASE room = NoRoom
    <3>1. Pending("detail")' = {}
      BY <2>1, <1>8 DEF Pending
    <3> QED
      BY <2>1, <3>1, <1>1, <1>6, <1>8 DEF DetailOK
  <2>2. CASE room # NoRoom
    <3> DEFINE detail == [panel |-> "detail", window |-> window, room |-> room, latest |-> TRUE]
    <3>1. detail \in loads' /\ detail.panel = "detail" /\ detail.latest
      BY <2>2, <1>8
    <3> HIDE DEF detail
    <3>2. Pending("detail")' # {}
      BY <3>1 DEF Pending
    <3>3. \A other \in Pending("detail")' : other.window = window /\ other.room = room
      BY <2>2, <1>8 DEF Pending
    <3> QED
      BY <2>2, <3>2, <3>3, <1>1 DEF DetailOK
  <2> QED
    BY <2>1, <2>2
<1> QED
  BY <1>9, <1>10, <1>11 DEF PageIInv

(* The page asks who the user is before anything else.                      *)
LEMMA PageAtFirst == PageInit => PageIInv
<1> SUFFICES ASSUME PageInit PROVE PageIInv
  OBVIOUS
<1> USE DashboardAssumption DEF PageInit
<1>1. Selected \in Windows
  OBVIOUS
<1>2. loads \subseteq Loads
  BY <1>1 DEF Loads
<1>3. shown \in Shown
  BY DEF Shown
<1>4. PageTypeOK
  <2>1. clock \in 0 .. MaxClock /\ acts \in 0 .. MaxActs
    OBVIOUS
  <2>2. rows \subseteq Row /\ lost \subseteq Panels \cup {"me"} /\ me \in BOOLEAN /\ room \in Rooms \cup {NoRoom}
    OBVIOUS
  <2>3. profile \in Profiles /\ window \in Windows
    BY <1>1
  <2> HIDE DEF PageInit
  <2> QED
    BY <1>2, <1>3, <2>1, <2>2, <2>3 DEF PageTypeOK, Loads
<1>5. RowsOK
  <2>1. IsFiniteSet(rows) /\ Cardinality(rows) = 0
    BY FS_EmptySet
  <2> QED
    BY <2>1 DEF RowsOK
<1>6. MeFirst /\ TabsOK
  BY DEF MeFirst, TabsOK
<1>7. DetailOK
  BY DEF DetailOK
<1> QED
  BY <1>4, <1>5, <1>6, <1>7 DEF PageIInv

(* Every step keeps the inductive invariant.                                *)
LEMMA PageStep == PageIInv /\ [PageNext]_dashboardVars => PageIInv'
<1>1. ASSUME PageIInv, NEW load \in loads, AnswerLoad(load) PROVE PageIInv'
  <2>1. load.panel \in {"me", "overview", "figures", "detail", "rooms"}
    BY <1>1, PageTypes DEF PageIInv, Loads, Panels, Tabs
  <2> QED
    BY <1>1, <2>1, MeStep, TabStep, DetailStep, RoomsStep
<1>2. ASSUME PageIInv, UNCHANGED dashboardVars PROVE PageIInv'
  BY <1>2 DEF dashboardVars, tableVars, pageVars, PageIInv, PageTypeOK, RowsOK, MeFirst, TabsOK, DetailOK, Pending
<1> QED
  BY <1>1, <1>2, TableStep, PickStep, ClickStep, FailStep DEF PageNext

(* The inductive invariant of the page holds of every reachable state.      *)
THEOREM PageInductive == PageSpec => []PageIInv
<1> QED
  BY PageAtFirst, PageStep, PTL DEF PageSpec

(* Types of the dashboard.                                                  *)
THEOREM PageTyped == PageSpec => []PageTypeOK
<1>1. PageIInv => PageTypeOK
  BY DEF PageIInv
<1> QED
  BY PageInductive, <1>1, PTL

(* When all loads have ended every panel whose last load was not lost shows *)
(* the window that is selected.                                             *)
THEOREM PanelsFollow == PageSpec => []PanelsFollowWindow
<1>1. PageIInv => PanelsFollowWindow
  <2> SUFFICES ASSUME PageIInv, Quiet, NEW p \in Panels \ lost PROVE shown.panels[p] = window
    BY DEF PanelsFollowWindow
  <2>1. \A q : Pending(q) = {}
    BY DEF Quiet, Pending
  <2> QED
    BY <2>1 DEF PageIInv, Quiet, TabsOK, DetailOK, Panels
<1> QED
  BY PageInductive, <1>1, PTL

(* The detail is then of the room that is selected.                         *)
THEOREM DetailFollows == PageSpec => []DetailIsSelected
<1>1. PageIInv => DetailIsSelected
  <2> SUFFICES ASSUME PageIInv, Quiet, "detail" \notin lost PROVE shown.detail = room
    BY DEF DetailIsSelected
  <2>1. \A q : Pending(q) = {}
    BY DEF Quiet, Pending
  <2> QED
    BY <2>1 DEF PageIInv, Quiet, DetailOK
<1> QED
  BY PageInductive, <1>1, PTL

------------------------------------------------------------------------------
(* The schedules of sports.                                                 *)

(* The three pollers and their leagues.                                     *)
LEMMA SportName ==
  ASSUME SportsTypeOK
  PROVE  \/ sport = "football" /\ Leagues = <<"epl", "kleague">>
         \/ sport = "esports" /\ Leagues = <<"lck", "lpl">>
         \/ sport = "baseball" /\ Leagues = <<"mlb", "kbo", "npb">>
BY DEF SportsTypeOK, Leagues

(* The least of some numbers.                                               *)
LEMMA Least ==
  ASSUME NEW S, S \subseteq Nat, S # {}
  PROVE  Min(S) \in S /\ \A x \in S : Min(S) <= x
<1>1. PICK x \in S : \A y \in S : ~ (<<y, x>> \in OpToRel(<, Nat))
  BY WFMin, NatLessThanWellFounded
<1>2. x \in Nat /\ \A y \in S : y \in Nat /\ ~(y < x)
  BY <1>1 DEF OpToRel
<1>3. \A y \in S : x <= y
  BY <1>2
<1> QED
  BY <1>3 DEF Min

(* What is left of a round are leagues, in their order.                     *)
LEMMA RestFacts ==
  ASSUME SportsTypeOK
  PROVE  /\ \A todo \in Rests : todo \in Seq(LeagueSet) /\ (todo # <<>> => Tail(todo) \in Rests)
         /\ Leagues \in Rests /\ Leagues # <<>>
         /\ \A l \in LeagueSet : \E i \in DOMAIN Leagues : Leagues[i] = l
<1>1. CASE sport = "football" /\ Leagues = <<"epl", "kleague">>
  <2>1. LeagueSet = {"epl", "kleague"}
    BY <1>1 DEF LeagueSet
  <2>2. Rests = {<<"epl", "kleague">>, <<"kleague">>, <<>>}
    BY <1>1 DEF Rests
  <2> QED
    BY <1>1, <2>1, <2>2
<1>2. CASE sport = "esports" /\ Leagues = <<"lck", "lpl">>
  <2>1. LeagueSet = {"lck", "lpl"}
    BY <1>2 DEF LeagueSet
  <2>2. Rests = {<<"lck", "lpl">>, <<"lpl">>, <<>>}
    BY <1>2 DEF Rests
  <2> QED
    BY <1>2, <2>1, <2>2
<1>3. CASE sport = "baseball" /\ Leagues = <<"mlb", "kbo", "npb">>
  <2>1. LeagueSet = {"mlb", "kbo", "npb"}
    BY <1>3 DEF LeagueSet
  <2>2. Rests = {<<"mlb", "kbo", "npb">>, <<"kbo", "npb">>, <<"npb">>, <<>>}
    BY <1>3 DEF Rests
  <2> QED
    BY <1>3, <2>1, <2>2
<1> QED
  BY <1>1, <1>2, <1>3, SportName

(* Without its first element a sequence has what it had but for that one.   *)
LEMMA HeadLeaves ==
  ASSUME NEW S, NEW s \in Seq(S), s # <<>>
  PROVE  /\ Head(s) \in S
         /\ \A l : l # Head(s) => ((\E i \in DOMAIN s : s[i] = l) <=> \E i \in DOMAIN Tail(s) : Tail(s)[i] = l)
<1>1. Len(s) \in Nat \ {0} /\ DOMAIN s = 1 .. Len(s) /\ Head(s) = s[1] /\ s[1] \in S
  OBVIOUS
<1>2. Tail(s) \in Seq(S) /\ Len(Tail(s)) = Len(s) - 1 /\ \A i \in 1 .. Len(s) - 1 : Tail(s)[i] = s[i + 1]
  OBVIOUS
<1>3. ASSUME NEW l, l # Head(s), NEW i \in DOMAIN s, s[i] = l
      PROVE  \E j \in DOMAIN Tail(s) : Tail(s)[j] = l
  <2>1. i - 1 \in DOMAIN Tail(s) /\ Tail(s)[i - 1] = l
    BY <1>1, <1>2, <1>3
  <2> QED
    BY <2>1
<1>4. ASSUME NEW l, NEW i \in DOMAIN Tail(s), Tail(s)[i] = l
      PROVE  \E j \in DOMAIN s : s[j] = l
  <2>1. i + 1 \in DOMAIN s /\ s[i + 1] = l
    BY <1>1, <1>2, <1>4
  <2> QED
    BY <2>1
<1> QED
  BY <1>1, <1>3, <1>4

(* The Korean date is that of UTC or the next, and moves by one day at most.*)
LEMMA DatesMove ==
  ASSUME NEW t \in Nat
  PROVE  /\ UTCDate(t) \in Nat /\ KSTDate(t) \in Nat
         /\ KSTDate(t) \in {UTCDate(t), UTCDate(t) + 1}
         /\ KSTDate(t + 1) \in {KSTDate(t), KSTDate(t) + 1}
         /\ USDate(t) \in Int
BY DEF UTCDate, KSTDate, USDate, TicksPerDay

(* Dates grow with time.                                                    *)
LEMMA DatesGrow ==
  ASSUME NEW t \in Nat, NEW u \in Nat, t <= u
  PROVE  KSTDate(t) <= KSTDate(u)
BY DEF KSTDate, TicksPerDay

(* A match, and a match in a list.                                          *)
LEMMA MatchFacts ==
  ASSUME SportsTypeOK, NEW f \in Fixtures
  PROVE  /\ Start(f) \in Nat /\ fixture[f].league \in LeagueSet
         /\ AsListed(f) \in ListEntry
         /\ AsListed(f).match = f /\ AsListed(f).status = Status(f)
<1>1. fixture[f] \in [league : LeagueSet, start : Starts]
  BY DEF SportsTypeOK
<1>2. Status(f) \in {"scheduled", "live", "finished"}
  BY DEF Status
<1> QED
  BY <1>1, <1>2, SportsAssumption DEF Start, AsListed, ListEntry

(* Today is a date.                                                         *)
LEMMA Today ==
  ASSUME SportsTypeOK
  PROVE  KSTDate(now) \in Dates /\ KSTDate(now) \in Nat /\ Dates \subseteq Nat
<1>1. now \in Nat /\ Horizon \in Nat /\ now <= Horizon
  BY SportsAssumption DEF SportsTypeOK
<1> QED
  BY <1>1, DatesMove, DatesGrow DEF Dates

(* What is answered of a list.                                              *)
LEMMA CachedFacts ==
  ASSUME SportsTypeOK, NEW l \in LeagueSet, NEW d \in Dates
  PROVE  /\ Cached(l, d) \subseteq ListEntry
         /\ matches[l][d] = NotCached => Cached(l, d) = {}
         /\ matches[l][d] = {} => Cached(l, d) = {}
<1>1. matches[l][d] \in {NotCached} \cup SUBSET ListEntry
  BY DEF SportsTypeOK
<1> QED
  BY <1>1 DEF Cached

(* The search for the next football matches finds one whole day, which two  *)
(* UTC dates share, whichever match of the first date comes first.          *)
LEMMA SearchFootball ==
  ASSUME SportsTypeOK, NEW l \in LeagueSet, NEW gaps, NEW next \in NextFootballMatches(l, gaps)
  PROVE  /\ next \in [matches : SUBSET ListEntry, date : Int]
         /\ sport = "football" /\ gaps = {} /\ Coming(l) # {} =>
              {m.match : m \in next.matches} \in NextMatchDays(l)
<1> DEFINE dates == {d \in UTCDate(now) .. UTCDate(now) + footballNextSearchDays : d \notin gaps}
           later(d) == {f \in ScoreboardOn(l, d) : KSTDate(Start(f)) > KSTDate(now)}
           found == {d \in dates : later(d) # {}}
           read(day) == {d \in found : d = Min(found) \/ ~shouldStopNextFootballSearch(d - 1, day)}
           kept(day) == {g \in UNION {later(d) : d \in read(day)} : KSTDate(Start(g)) = day}
           answer(f) == [matches |-> {AsListed(g) : g \in kept(KSTDate(Start(f)))}, date |-> KSTDate(Start(f))]
<1>1. NextFootballMatches(l, gaps) =
        IF found = {} THEN {GetNextMatches(l)} ELSE {answer(f) : f \in later(Min(found))}
  BY DEF NextFootballMatches
<1>2. now \in Nat /\ UTCDate(now) \in Nat /\ KSTDate(now) \in {UTCDate(now), UTCDate(now) + 1}
  BY DatesMove DEF SportsTypeOK
<1>3. \A f \in Fixtures : /\ Start(f) \in Nat /\ UTCDate(Start(f)) \in Nat
                          /\ KSTDate(Start(f)) \in {UTCDate(Start(f)), UTCDate(Start(f)) + 1}
                          /\ KSTDate(Start(f)) \in Nat
  BY MatchFacts, DatesMove
<1>4. \A d, f : f \in later(d) <=> f \in Later(l) /\ UTCDate(Start(f)) = d
  BY DEF ScoreboardOn, Later, InLeague
<1>5. found \subseteq dates /\ dates \subseteq Nat
  BY <1>2 DEF footballNextSearchDays
<1>6. GetNextMatches(l) \in [matches : SUBSET ListEntry, date : Int]
  BY DEF GetNextMatches, SportsTypeOK
<1>7. \A d : d \in found <=> d \in dates /\ later(d) # {}
  OBVIOUS
<1>8. \A f : f \in Later(l) => f \in Fixtures /\ f \in InLeague(l) /\ KSTDate(Start(f)) > KSTDate(now)
  BY DEF Later, InLeague
<1>9. \A day, f : f \in kept(day) <=> KSTDate(Start(f)) = day /\ \E d \in read(day) : f \in later(d)
  OBVIOUS
<1>10. \A day, d : d \in read(day) <=> d \in found /\ (d = Min(found) \/ ~(d - 1 > day))
  BY DEF shouldStopNextFootballSearch
<1>11. found # {} => Min(found) \in found /\ \A d \in found : Min(found) <= d
  <2> HIDE DEF found
  <2> QED
    BY <1>5, Least
<1>12. \A day : \A f \in kept(day) : AsListed(f) \in ListEntry /\ AsListed(f).match = f
  BY <1>4, <1>8, MatchFacts
<1>13. \A f : answer(f).matches = {AsListed(g) : g \in kept(KSTDate(Start(f)))} /\ answer(f).date = KSTDate(Start(f))
  OBVIOUS
<1>14. \A f \in later(Min(found)) : answer(f) \in [matches : SUBSET ListEntry, date : Int]
  <2> SUFFICES ASSUME NEW f \in later(Min(found))
               PROVE  answer(f) \in [matches : SUBSET ListEntry, date : Int]
    OBVIOUS
  <2>1. f \in Fixtures
    BY <1>4, <1>8
  <2>2. KSTDate(Start(f)) \in Int
    BY <1>3, <2>1
  <2>3. {AsListed(g) : g \in kept(KSTDate(Start(f)))} \in SUBSET ListEntry
    BY <1>12
  <2> HIDE DEF kept
  <2> QED
    BY <2>2, <2>3
<1> HIDE DEF kept, read, found, later, answer
<1>15. next \in [matches : SUBSET ListEntry, date : Int]
  BY <1>1, <1>6, <1>14
<1>16. ASSUME sport = "football", gaps = {}, Coming(l) # {}
       PROVE  {m.match : m \in next.matches} \in NextMatchDays(l)
  <2>1. \A d : d \in dates <=> d \in UTCDate(now) .. UTCDate(now) + 14
    BY <1>16 DEF footballNextSearchDays
  <2>2. \A f : f \in Coming(l) <=> f \in Later(l) /\ KSTDate(Start(f)) <= KSTDate(now) + 12
    BY <1>16 DEF Coming, SearchDays, footballNextSearchDays
  <2>3. \A f \in Later(l) : UTCDate(Start(f)) <= UTCDate(now) + 14 => UTCDate(Start(f)) \in found
    BY <1>2, <1>3, <1>4, <1>7, <1>8, <2>1
  <2>4. PICK c : c \in Coming(l)
    BY <1>16
  <2>5. UTCDate(Start(c)) \in found /\ UTCDate(Start(c)) <= KSTDate(now) + 12
    BY <1>2, <1>3, <1>8, <2>2, <2>3, <2>4
  <2>6. PICK f \in later(Min(found)) : next = answer(f)
    BY <1>1, <2>5
  <2>7. /\ f \in Later(l) /\ f \in Fixtures /\ UTCDate(Start(f)) = Min(found)
        /\ Min(found) \in Nat /\ Min(found) <= KSTDate(now) + 12
    <3>1. f \in Later(l) /\ f \in Fixtures /\ UTCDate(Start(f)) = Min(found)
      BY <1>4, <1>8, <2>6
    <3>2. Min(found) \in Nat /\ UTCDate(Start(c)) \in Nat /\ Min(found) <= UTCDate(Start(c))
      BY <1>5, <1>11, <2>5
    <3> QED
      BY <1>2, <2>5, <3>1, <3>2
  <2>8. \A g \in Later(l) : UTCDate(Start(f)) <= UTCDate(Start(g))
    BY <1>2, <1>3, <1>8, <1>11, <2>3, <2>5, <2>7
  <2>9. f \in FiledFirst(l)
    BY <1>16, <2>7, <2>8 DEF FiledFirst, FiledOn
  <2> DEFINE day == KSTDate(Start(f))
  <2>10. day \in Nat /\ day <= KSTDate(now) + 13
    BY <1>2, <1>3, <2>7
  <2>11. ASSUME NEW g \in MatchDay(l, f) PROVE g \in kept(day)
    <3>1. g \in Later(l) /\ g \in Fixtures /\ KSTDate(Start(g)) = day
      BY <1>8 DEF MatchDay
    <3>2. UTCDate(Start(g)) \in Nat /\ UTCDate(Start(g)) <= day /\ UTCDate(Start(g)) <= UTCDate(now) + 14
      BY <1>2, <1>3, <2>10, <3>1
    <3>3. UTCDate(Start(g)) \in found /\ g \in later(UTCDate(Start(g)))
      BY <1>4, <2>3, <3>1, <3>2
    <3>4. UTCDate(Start(g)) \in read(day)
      BY <1>10, <2>10, <3>2, <3>3
    <3> QED
      BY <1>9, <3>1, <3>3, <3>4
  <2>12. ASSUME NEW g \in kept(day) PROVE g \in MatchDay(l, f)
    BY <1>4, <1>9 DEF MatchDay
  <2>13. kept(day) = MatchDay(l, f)
    BY <2>11, <2>12
  <2>14. next.matches = {AsListed(g) : g \in kept(day)}
    BY <1>13, <2>6
  <2>15. {m.match : m \in next.matches} = kept(day)
    BY <1>12, <2>14
  <2> QED
    BY <2>9, <2>13, <2>15 DEF NextMatchDays
<1> QED
  BY <1>15, <1>16

(* The next baseball matches.                                              *)
LEMMA ScheduleOfBaseball ==
  ASSUME SportsTypeOK, sport = "baseball", NEW l \in LeagueSet, NEW date
  PROVE  /\ BaseballScheduleOn(l, date) \subseteq InLeague(l)
         /\ l # "mlb" => BaseballScheduleOn(l, date) = {f \in InLeague(l) : KSTDate(Start(f)) = date}
<1>1. Leagues = <<"mlb", "kbo", "npb">>
  BY SportName
<1>2. l \in {"mlb", "kbo", "npb"}
  BY <1>1 DEF LeagueSet
<1>3. CASE l = "mlb"
  BY <1>3 DEF BaseballScheduleOn, MLBScheduleOn
<1>4. CASE l = "kbo"
  BY <1>4 DEF BaseballScheduleOn, KBOScheduleOn
<1>5. CASE l = "npb"
  BY <1>5 DEF BaseballScheduleOn, NPBScheduleOn
<1> QED
  BY <1>2, <1>3, <1>4, <1>5

(* The search for the next baseball matches finds the nearest day of the league.*)
LEMMA SearchBaseball ==
  ASSUME SportsTypeOK, sport = "baseball", NEW l \in LeagueSet
  PROVE  /\ NextBaseballMatches(l) \in [matches : SUBSET ListEntry, date : Int]
         /\ l # "mlb" /\ Coming(l) # {} =>
              {m.match : m \in NextBaseballMatches(l).matches} \in NextMatchDays(l)
<1> DEFINE coming == KSTDate(now) + 1 .. KSTDate(now) + baseballNextSearchDays
           found == {d \in coming : BaseballScheduleOn(l, d) # {}}
<1>1. NextBaseballMatches(l) =
        IF found = {} THEN GetNextMatches(l)
        ELSE [matches |-> {AsListed(f) : f \in BaseballScheduleOn(l, Min(found))}, date |-> Min(found)]
  BY DEF NextBaseballMatches
<1>2. KSTDate(now) \in Nat /\ found \subseteq Nat
  BY Today DEF baseballNextSearchDays
<1>3. found # {} => Min(found) \in found /\ \A d \in found : Min(found) <= d
  <2> HIDE DEF found
  <2> QED
    BY <1>2, Least
<1>4. \A d : d \in found <=> d \in coming /\ BaseballScheduleOn(l, d) # {}
  OBVIOUS
<1>5. GetNextMatches(l) \in [matches : SUBSET ListEntry, date : Int]
  BY DEF GetNextMatches, SportsTypeOK
<1>6. \A d : \A f \in BaseballScheduleOn(l, d) : AsListed(f) \in ListEntry /\ AsListed(f).match = f
  BY ScheduleOfBaseball, MatchFacts DEF InLeague
<1> HIDE DEF found
<1>7. NextBaseballMatches(l) \in [matches : SUBSET ListEntry, date : Int]
  <2>1. CASE found = {}
    BY <1>1, <1>5, <2>1
  <2>2. CASE found # {}
    <3>1. Min(found) \in found
      BY <1>3, <2>2
    <3>2. Min(found) \in Nat
      BY <1>2, <3>1
    <3>3. {AsListed(f) : f \in BaseballScheduleOn(l, Min(found))} \in SUBSET ListEntry
      BY <1>6
    <3> QED
      BY <1>1, <2>2, <3>2, <3>3
  <2> QED
    BY <2>1, <2>2
<1>8. ASSUME l # "mlb", Coming(l) # {}
      PROVE  {m.match : m \in NextBaseballMatches(l).matches} \in NextMatchDays(l)
  <2>1. \A d, f : f \in BaseballScheduleOn(l, d) <=> f \in InLeague(l) /\ KSTDate(Start(f)) = d
    BY <1>8, ScheduleOfBaseball
  <2>2. \A f : f \in Later(l) => /\ f \in InLeague(l) /\ KSTDate(Start(f)) \in Nat
                                 /\ KSTDate(Start(f)) > KSTDate(now)
    BY MatchFacts, DatesMove DEF Later, InLeague
  <2>3. \A f : f \in Coming(l) <=> f \in Later(l) /\ KSTDate(Start(f)) <= KSTDate(now) + 7
    BY SportName DEF Coming, SearchDays, baseballNextSearchDays
  <2>4. \A f \in Later(l) : KSTDate(Start(f)) <= KSTDate(now) + 7 => KSTDate(Start(f)) \in found
    BY <1>2, <1>4, <2>1, <2>2 DEF baseballNextSearchDays
  <2>5. PICK c : c \in Coming(l)
    BY <1>8
  <2>6. KSTDate(Start(c)) \in found /\ KSTDate(Start(c)) <= KSTDate(now) + 7
    BY <2>3, <2>4, <2>5
  <2>7. /\ Min(found) \in found /\ Min(found) \in Nat /\ Min(found) > KSTDate(now)
        /\ Min(found) <= KSTDate(now) + 7 /\ \A d \in found : Min(found) <= d
    BY <1>2, <1>3, <1>4, <2>6 DEF baseballNextSearchDays
  <2>8. PICK f : f \in BaseballScheduleOn(l, Min(found))
    BY <1>4, <2>7
  <2>9. f \in Later(l) /\ KSTDate(Start(f)) = Min(found)
    BY <2>1, <2>7, <2>8 DEF Later
  <2>10. \A g \in Later(l) : Min(found) <= KSTDate(Start(g))
    BY <1>2, <2>2, <2>4, <2>7
  <2>11. f \in FiledFirst(l)
    BY SportName, <2>9, <2>10 DEF FiledFirst, FiledOn
  <2>12. \A g : g \in BaseballScheduleOn(l, Min(found)) <=> g \in MatchDay(l, f)
    BY <2>1, <2>7, <2>9 DEF MatchDay, Later
  <2>13. BaseballScheduleOn(l, Min(found)) = MatchDay(l, f)
    BY <2>12
  <2>14. NextBaseballMatches(l).matches = {AsListed(g) : g \in BaseballScheduleOn(l, Min(found))}
    BY <1>1, <2>6
  <2>15. {m.match : m \in NextBaseballMatches(l).matches} = BaseballScheduleOn(l, Min(found))
    BY <1>6, <2>14
  <2> QED
    BY <2>11, <2>13, <2>15 DEF NextMatchDays
<1> QED
  BY <1>7, <1>8

(* What the poll of a league leaves behind, whichever the sport: the list   *)
(* shown is of the league, and of today if the round is of today; the next  *)
(* matches are of one coming day; events are the goals of now.              *)
Leaves(l, broken, lines, next) ==
  /\ l = Head(round.todo) /\ Polled(l, broken)
  /\ \/ broken /\ matches' = matches
     \/ matches' = [matches EXCEPT ![l][round.date] = lines]
  /\ \A m \in lines : /\ fixture[m.match].league = l /\ m.status = Status(m.match)
                      /\ round.date = KSTDate(now) => KSTDate(Start(m.match)) = KSTDate(now)
  /\ nextMatches' = [nextMatches EXCEPT ![l] = next]
  /\ ~broken /\ l # "mlb" /\ sport # "esports" /\ lines = {} /\ Coming(l) # {} =>
       {m.match : m \in next.matches} \in NextMatchDays(l)
  /\ events' \in [Fixtures -> -1 .. MaxGoals] /\ lastLive' \in [Fixtures -> -1 .. MaxGoals]
  /\ EventsOK => \A f \in Fixtures : \/ events'[f] \in {-1, lastLive'[f]}
                                     \/ Status(f) = "finished" /\ events'[f] = goals[f]

(* Such a result is what every poll has.                                    *)
LEMMA PollLeaves ==
  ASSUME SportsTypeOK, round.todo # <<>>, PollOnce
  PROVE  \E l \in LeagueSet, broken \in BOOLEAN, lines \in SUBSET ListEntry,
            next \in [matches : SUBSET ListEntry, date : Int] : Leaves(l, broken, lines, next)
<1>0. Head(round.todo) \in LeagueSet /\ round \in [date : Dates, todo : Rests]
  <2>1. round \in [date : Dates, todo : Rests]
    BY DEF SportsTypeOK, NoRound
  <2>2. round.todo \in Seq(LeagueSet)
    BY <2>1, RestFacts
  <2> QED
    BY <2>1, <2>2, HeadLeaves
<1>1. PICK l \in LeagueSet : l = Head(round.todo)
  BY <1>0
<1>2. nextMatches \in [LeagueSet -> [matches : SUBSET ListEntry, date : Int]]
  BY DEF SportsTypeOK
<1>3. nextMatches = [nextMatches EXCEPT ![l] = nextMatches[l]] /\ nextMatches[l] \in [matches : SUBSET ListEntry, date : Int]
  BY <1>1, <1>2
<1>4. \A f \in Fixtures : events[f] \in -1 .. MaxGoals /\ lastLive[f] \in -1 .. MaxGoals /\ goals[f] \in 0 .. MaxGoals
  BY DEF SportsTypeOK
<1>5. events \in [Fixtures -> -1 .. MaxGoals] /\ lastLive \in [Fixtures -> -1 .. MaxGoals]
  BY DEF SportsTypeOK
<1>6. MaxGoals \in Nat
  BY SportsAssumption
<1>7. UNCHANGED <<events, lastLive>> =>
         /\ events' \in [Fixtures -> -1 .. MaxGoals] /\ lastLive' \in [Fixtures -> -1 .. MaxGoals]
         /\ EventsOK => \A f \in Fixtures : \/ events'[f] \in {-1, lastLive'[f]}
                                            \/ Status(f) = "finished" /\ events'[f] = goals[f]
  BY <1>5 DEF EventsOK
<1>8. \A list \in SUBSET InLeague(l) :
        /\ {AsListed(f) : f \in list} \in SUBSET ListEntry
        /\ {AsListed(f) : f \in list} = {} => list = {}
        /\ \A m \in {AsListed(f) : f \in list} :
             m.match \in list /\ fixture[m.match].league = l /\ m.status = Status(m.match)
  BY MatchFacts DEF InLeague
<1>9. CASE sport = "football"
  <2>1. PollFootball(l)
    BY <1>9, <1>1 DEF PollOnce
  <2>2. PICK gaps : LET today == CollectFootballMatches(l, gaps)
                    IN  /\ Polled(l, gaps # {})
                        /\ SetMatches(l, today)
                        /\ IF today = {} THEN \E answer \in NextFootballMatches(l, gaps) : SetNextMatches(l, answer)
                           ELSE UNCHANGED nextMatches
                        /\ enrichFootballEvents(l, today)
    BY <2>1 DEF PollFootball
  <2>3. PICK broken \in BOOLEAN : broken <=> gaps # {}
    OBVIOUS
  <2>4. PICK today : today = CollectFootballMatches(l, gaps)
    OBVIOUS
  <2>5. today \in SUBSET InLeague(l) /\ \A f \in today : KSTDate(Start(f)) = KSTDate(now)
    BY <2>4 DEF CollectFootballMatches, dedupeFootballMatchesByDate, ScoreboardOn
  <2>6. PICK lines \in SUBSET ListEntry : lines = {AsListed(f) : f \in today}
    BY <1>8, <2>5
  <2>7. PICK next \in [matches : SUBSET ListEntry, date : Int] :
          IF today = {} THEN next \in NextFootballMatches(l, gaps) /\ SetNextMatches(l, next)
          ELSE next = nextMatches[l] /\ UNCHANGED nextMatches
    BY <1>1, <1>3, <2>2, <2>4, SearchFootball
  <2>8. Polled(l, broken)
    BY <2>2, <2>3 DEF Polled
  <2>9. matches' = [matches EXCEPT ![l][round.date] = lines]
    BY <2>2, <2>4, <2>6 DEF SetMatches
  <2>10. nextMatches' = [nextMatches EXCEPT ![l] = next]
    BY <2>2, <2>4, <2>7, <1>3 DEF SetNextMatches
  <2>11. \A m \in lines : /\ fixture[m.match].league = l /\ m.status = Status(m.match)
                          /\ round.date = KSTDate(now) => KSTDate(Start(m.match)) = KSTDate(now)
    BY <1>8, <2>5, <2>6
  <2>12. ~broken /\ lines = {} /\ Coming(l) # {} => {m.match : m \in next.matches} \in NextMatchDays(l)
    BY <1>1, <1>8, <1>9, <2>3, <2>5, <2>6, <2>7, SearchFootball
  <2>13. PICK reported :
            /\ events' = [f \in Fixtures |-> IF f \in reported /\ FetchesEvents(f)
                                             THEN EventsOf(l, f) ELSE events[f]]
            /\ lastLive' = [f \in Fixtures |-> IF f \in reported /\ Status(f) = "live"
                                               THEN goals[f] ELSE lastLive[f]]
    BY <2>2 DEF enrichFootballEvents
  <2>14. \A f \in Fixtures : EventsOf(l, f) = goals[f]
    BY DEF EventsOf, ScoringPlays, Incidents
  <2>15. events' \in [Fixtures -> -1 .. MaxGoals] /\ lastLive' \in [Fixtures -> -1 .. MaxGoals]
    BY <1>4, <1>6, <2>13, <2>14
  <2>16. ASSUME EventsOK, NEW f \in Fixtures
         PROVE  \/ events'[f] \in {-1, lastLive'[f]}
                \/ Status(f) = "finished" /\ events'[f] = goals[f]
    BY <2>13, <2>14, <2>16 DEF EventsOK, FetchesEvents
  <2>17. Leaves(l, broken, lines, next)
    BY <1>1, <2>8, <2>9, <2>10, <2>11, <2>12, <2>15, <2>16 DEF Leaves
  <2> QED
    BY <2>17
<1>10. CASE sport = "esports"
  <2>1. PollEsports(l)
    BY <1>10, <1>1 DEF PollOnce
  <2>2. PICK broken \in BOOLEAN :
          /\ Polled(l, broken)
          /\ \/ broken /\ UNCHANGED matches
             \/ SetMatches(l, EsportsScheduleOn(l, round.date))
    BY <2>1 DEF PollEsports
  <2>3. UNCHANGED <<nextMatches, events, lastLive>>
    BY <2>1 DEF PollEsports
  <2>4. EsportsScheduleOn(l, round.date) \in SUBSET InLeague(l)
          /\ \A f \in EsportsScheduleOn(l, round.date) : KSTDate(Start(f)) = round.date
    BY DEF EsportsScheduleOn
  <2>5. PICK lines \in SUBSET ListEntry : lines = {AsListed(f) : f \in EsportsScheduleOn(l, round.date)}
    BY <1>8, <2>4
  <2>6. PICK next \in [matches : SUBSET ListEntry, date : Int] : next = nextMatches[l]
    BY <1>3
  <2>7. (broken /\ matches' = matches) \/ matches' = [matches EXCEPT ![l][round.date] = lines]
    BY <2>2, <2>5 DEF SetMatches
  <2>8. \A m \in lines : /\ fixture[m.match].league = l /\ m.status = Status(m.match)
                         /\ round.date = KSTDate(now) => KSTDate(Start(m.match)) = KSTDate(now)
    BY <1>8, <2>4, <2>5
  <2>9. nextMatches' = [nextMatches EXCEPT ![l] = next]
    BY <1>3, <2>3, <2>6
  <2>10. Leaves(l, broken, lines, next)
    BY <1>1, <1>7, <1>10, <2>2, <2>3, <2>7, <2>8, <2>9 DEF Leaves
  <2> QED
    BY <2>10
<1>11. CASE sport = "baseball"
  <2>1. PollBaseball(l)
    BY <1>11, <1>1 DEF PollOnce
  <2>2. PICK broken \in BOOLEAN :
          /\ Polled(l, broken)
          /\ \/ broken /\ UNCHANGED <<matches, nextMatches>>
             \/ /\ SetMatches(l, BaseballMatches(l))
                /\ IF BaseballMatches(l) = {} /\ ~broken
                   THEN SetNextMatches(l, NextBaseballMatches(l)) ELSE UNCHANGED nextMatches
    BY <2>1 DEF PollBaseball
  <2>3. UNCHANGED <<events, lastLive>>
    BY <2>1 DEF PollBaseball
  <2>4. BaseballMatches(l) \in SUBSET InLeague(l)
    BY <1>1, <1>11, ScheduleOfBaseball DEF BaseballMatches
  <2>5. \A f \in BaseballMatches(l) : round.date = KSTDate(now) => KSTDate(Start(f)) = KSTDate(now)
    BY <1>1, <1>11, ScheduleOfBaseball DEF BaseballMatches
  <2>6. PICK lines \in SUBSET ListEntry : lines = {AsListed(f) : f \in BaseballMatches(l)}
    BY <1>8, <2>4
  <2>7. PICK next \in [matches : SUBSET ListEntry, date : Int] :
          next = IF nextMatches' = nextMatches THEN nextMatches[l] ELSE NextBaseballMatches(l)
    BY <1>1, <1>3, <1>11, SearchBaseball
  <2>8. (broken /\ matches' = matches) \/ matches' = [matches EXCEPT ![l][round.date] = lines]
    BY <2>2, <2>6 DEF SetMatches
  <2>9. \A m \in lines : /\ fixture[m.match].league = l /\ m.status = Status(m.match)
                         /\ round.date = KSTDate(now) => KSTDate(Start(m.match)) = KSTDate(now)
    BY <1>8, <2>4, <2>5, <2>6
  <2>10. nextMatches' = [nextMatches EXCEPT ![l] = next]
    BY <1>3, <2>2, <2>7 DEF SetNextMatches
  <2>11. ASSUME ~broken, l # "mlb", lines = {}, Coming(l) # {}
         PROVE  {m.match : m \in next.matches} \in NextMatchDays(l)
    <3>1. nextMatches' = [nextMatches EXCEPT ![l] = NextBaseballMatches(l)]
      BY <1>8, <2>2, <2>4, <2>6, <2>11 DEF SetNextMatches
    <3>2. nextMatches'[l] = NextBaseballMatches(l) /\ nextMatches'[l] = next
      BY <1>1, <1>2, <2>10, <3>1
    <3> QED
      BY <1>1, <1>11, <2>11, <3>2, SearchBaseball
  <2>12. Leaves(l, broken, lines, next)
    BY <1>1, <1>7, <2>2, <2>3, <2>8, <2>9, <2>10, <2>11 DEF Leaves
  <2> QED
    BY <2>12
<1> QED
  BY <1>9, <1>10, <1>11 DEF SportsTypeOK

(* Leagues and starts never change.                                         *)
LEMMA WorldKept ==
  ASSUME UNCHANGED world
  PROVE  /\ sport' = sport /\ Leagues' = Leagues /\ LeagueSet' = LeagueSet /\ Rests' = Rests
         /\ SearchDays' = SearchDays
         /\ \A f : Start(f)' = Start(f) /\ fixture'[f].league = fixture[f].league
         /\ \A l : InLeague(l)' = InLeague(l)
BY DEF world, Leagues, LeagueSet, Rests, Start, InLeague, SearchDays

(* A list that was not fetched is not the empty list.                       *)
LEMMA NotEmpty == NotCached # {}
BY DEF NotCached

(* The inductive invariant holds when the program starts.                   *)
LEMMA SportsInitially ==
  ASSUME SportsInit
  PROVE  SportsIInv
<1>1. now \in Nat /\ now <= Horizon
  BY SportsAssumption DEF SportsInit
<1>2. KSTDate(now) \in Dates /\ KSTDate(now) \in Nat
  BY <1>1, DatesMove, DatesGrow, SportsAssumption DEF Dates
<1>3. round # NoRound /\ round.date = KSTDate(now) /\ round \in [date : Dates, todo : Rests]
  BY <1>2 DEF SportsInit, NoRound, Rests
<1>4. \A l \in LeagueSet : \A d \in Dates : matches[l][d] = NotCached /\ Cached(l, d) = {}
  BY DEF SportsInit, Cached
<1>5. SportsTypeOK
  <2>1. \A S : {} \in SUBSET S
    OBVIOUS
  <2>2. matches \in [LeagueSet -> [Dates -> {NotCached} \cup SUBSET ListEntry]]
    BY DEF SportsInit
  <2>3. nextMatches \in [LeagueSet -> [matches : SUBSET ListEntry, date : Int]]
    BY <2>1 DEF SportsInit
  <2>4. nextTick \in Nat /\ goals \in [Fixtures -> 0 .. MaxGoals]
    BY <1>1, SportsAssumption DEF SportsInit
  <2>5. events \in [Fixtures -> -1 .. MaxGoals] /\ lastLive \in [Fixtures -> -1 .. MaxGoals]
    BY SportsAssumption DEF SportsInit
  <2>6. missed \subseteq LeagueSet /\ failures \in 0 .. MaxFailures /\ crossings \in 0 .. MaxCrossings
    BY SportsAssumption DEF SportsInit
  <2>7. /\ sport \in {"football", "esports", "baseball"}
        /\ fixture \in [Fixtures -> [league : LeagueSet, start : Starts]]
    BY DEF SportsInit
  <2> QED
    BY <1>1, <1>3, <2>2, <2>3, <2>4, <2>5, <2>6, <2>7 DEF SportsTypeOK
<1>6. RoundOK /\ DatesOK
  BY <1>2, <1>3, <1>4 DEF RoundOK, DatesOK
<1>7. NoticedOK /\ ShownIsToday
  BY <1>2, <1>4 DEF NoticedOK, ShownIsToday, ShownToday
<1>8. EventsOK
  BY DEF EventsOK, SportsInit
<1>9. NextIsWholeDay
  BY <1>2, <1>4, NotEmpty DEF NextIsWholeDay
<1> QED
  BY <1>5, <1>6, <1>7, <1>8, <1>9 DEF SportsIInv

(* When a day ends no list is cached yet for the next one.                  *)
LEMMA DayEnds ==
  ASSUME SportsTypeOK, RoundOK, DatesOK, KSTDate(now + 1) \in Dates
  PROVE  \/ KSTDate(now + 1) = KSTDate(now)
         \/ \A l \in LeagueSet : matches[l][KSTDate(now + 1)] = NotCached
<1>1. now \in Nat
  BY DEF SportsTypeOK
<1>2. LastDate <= KSTDate(now)
  BY <1>1, DatesMove DEF LastDate, RoundOK
<1>3. LastDate \in Int
  BY <1>1, DatesMove, Today DEF LastDate, SportsTypeOK
<1> QED
  BY <1>1, <1>2, <1>3, DatesMove DEF DatesOK

(* Time keeps it: of a new day no list is shown before its round.           *)
LEMMA ElapseKeeps ==
  ASSUME SportsIInv, Elapse
  PROVE  SportsIInv'
<1>1. SportsTypeOK /\ RoundOK /\ DatesOK /\ NoticedOK /\ EventsOK /\ ShownIsToday /\ NextIsWholeDay
  BY DEF SportsIInv
<1>2. /\ UNCHANGED <<sport, fixture, goals, round, nextTick, matches, nextMatches, events, missed, lastLive, failures>>
      /\ now \in Nat /\ now < Horizon /\ now' = now + 1
      /\ IF round = NoRound THEN now < nextTick /\ crossings' = crossings
         ELSE crossings < MaxCrossings /\ crossings' = crossings + 1
  BY <1>1 DEF Elapse, world, cache, SportsTypeOK
<1>3. UNCHANGED world
  BY <1>2 DEF world
<1>4. crossings \in Nat /\ MaxCrossings \in Nat /\ Horizon \in Nat /\ nextTick \in Nat
  BY <1>1, SportsAssumption DEF SportsTypeOK
<1>5. /\ KSTDate(now) \in Nat /\ KSTDate(now') \in {KSTDate(now), KSTDate(now) + 1}
      /\ KSTDate(now') \in Dates /\ KSTDate(now') \in Nat
  BY <1>2, <1>4, DatesMove, DatesGrow DEF Dates
<1>6. SportsTypeOK'
  BY <1>1, <1>2, <1>3, <1>4, WorldKept DEF SportsTypeOK
<1>7. RoundOK'
  BY <1>1, <1>2, <1>4, <1>5, Today DEF RoundOK, SportsTypeOK
<1>8. LastDate <= LastDate' /\ LastDate \in Int /\ LastDate' \in Int
  BY <1>1, <1>2, <1>5, Today DEF LastDate, SportsTypeOK
<1>9. DatesOK'
  BY <1>1, <1>2, <1>3, <1>8, Today, WorldKept DEF DatesOK
<1>10. \/ KSTDate(now') = KSTDate(now)
       \/ \A l \in LeagueSet : matches'[l][KSTDate(now')] = NotCached
  BY <1>1, <1>2, <1>5, DayEnds
<1>11. ASSUME NEW l \in LeagueSet
       PROVE  /\ ShownToday(l)' \subseteq ShownToday(l)
              /\ ShownToday(l)' # {} => KSTDate(now') = KSTDate(now)
  <2>1. CASE KSTDate(now') = KSTDate(now)
    BY <1>2, <2>1 DEF ShownToday, Cached
  <2>2. CASE matches'[l][KSTDate(now')] = NotCached
    BY <2>2 DEF ShownToday, Cached
  <2> QED
    BY <1>10, <2>1, <2>2
<1>12. NoticedOK'
  <2> SUFFICES ASSUME NEW l \in LeagueSet \ missed, NEW m \in ShownToday(l), m.status = "scheduled"
               PROVE  IF round = NoRound THEN nextTick < Start(m.match) + MatchDayInterval + crossings'
                      ELSE IF ToPoll(l) THEN now' < Start(m.match) + MatchDayInterval + crossings'
                      ELSE now' < Start(m.match) + crossings'
    BY <1>2, <1>3, <1>11, WorldKept DEF NoticedOK, ToPoll
  <2>1. Start(m.match) \in Nat
    BY <1>1, Today, CachedFacts, MatchFacts DEF ShownToday, ListEntry
  <2> QED
    BY <1>1, <1>2, <1>4, <2>1 DEF NoticedOK, MatchDayInterval
<1>13. EventsOK'
  <2>1. \A f \in Fixtures : Status(f) = "finished" => Status(f)' = "finished"
    BY <1>1, <1>2, <1>3, WorldKept, MatchFacts DEF Status, MatchLength
  <2> QED
    BY <1>1, <1>2, <2>1 DEF EventsOK
<1>14. ShownIsToday'
  BY <1>1, <1>2, <1>3, <1>11, WorldKept DEF ShownIsToday
<1>15. NextIsWholeDay'
  <2> SUFFICES ASSUME NEW l \in LeagueSet \ (missed \cup {"mlb"}),
                      sport # "esports", matches[l][KSTDate(now')] = {}, Coming(l)' # {}
               PROVE  {m.match : m \in ShownNext(l)'.matches} \in NextMatchDays(l)'
    BY <1>2, <1>3, WorldKept DEF NextIsWholeDay
  <2>1. KSTDate(now') = KSTDate(now)
    BY <1>2, <1>10, NotEmpty
  <2>2. Coming(l)' = Coming(l)
    BY <1>3, <2>1, WorldKept DEF Coming, Later
  <2>3. NextMatchDays(l)' = NextMatchDays(l)
    <3>1. Later(l)' = Later(l) /\ \A f : FiledOn(f)' = FiledOn(f)
      BY <1>3, <2>1, WorldKept DEF Later, FiledOn
    <3> QED
      BY <1>3, <3>1, WorldKept DEF NextMatchDays, FiledFirst, MatchDay
  <2>4. ShownNext(l)' = ShownNext(l)
    BY <1>2, <2>1 DEF ShownNext, ShownToday, Cached, GetNextMatches
  <2> QED
    BY <1>1, <2>1, <2>2, <2>3, <2>4 DEF NextIsWholeDay
<1> QED
  BY <1>6, <1>7, <1>9, <1>12, <1>13, <1>14, <1>15 DEF SportsIInv

(* What a step keeps that leaves the clock and the cache of lists alone.     *)
LEMMA ListsKept ==
  ASSUME SportsIInv, UNCHANGED <<world, now, matches, nextMatches, missed>>
  PROVE  /\ UNCHANGED <<sport, fixture>>
         /\ ShownIsToday' /\ NextIsWholeDay'
         /\ \A l : ShownToday(l)' = ShownToday(l)
         /\ \A f : Status(f)' = Status(f)
<1>1. SportsTypeOK /\ ShownIsToday /\ NextIsWholeDay
  BY DEF SportsIInv
<1>2. \A l : ShownToday(l)' = ShownToday(l) /\ GetNextMatches(l)' = GetNextMatches(l)
  BY DEF ShownToday, Cached, GetNextMatches
<1>3. \A l : Coming(l)' = Coming(l)
  BY WorldKept DEF Coming, Later
<1>4. \A l : NextMatchDays(l)' = NextMatchDays(l) /\ ShownNext(l)' = ShownNext(l)
  BY <1>2, <1>3, WorldKept DEF NextMatchDays, FiledFirst, FiledOn, MatchDay, Later, ShownNext
<1>5. UNCHANGED <<sport, fixture>>
  BY DEF world
<1>6. ShownIsToday'
  BY <1>1, <1>2, <1>5, WorldKept DEF ShownIsToday
<1>7. NextIsWholeDay'
  BY <1>1, <1>3, <1>4, <1>5, WorldKept DEF NextIsWholeDay
<1> QED
  BY <1>2, <1>5, <1>6, <1>7, WorldKept DEF Status

(* So does a goal, which only a live match has.                             *)
LEMMA GoalKeeps ==
  ASSUME SportsIInv, NEW f \in Fixtures, Goal(f)
  PROVE  SportsIInv'
<1>1. SportsTypeOK /\ RoundOK /\ DatesOK /\ NoticedOK /\ EventsOK
  BY DEF SportsIInv
<1>2. /\ UNCHANGED <<world, now, round, nextTick, matches, nextMatches, events, missed, lastLive, failures, crossings>>
      /\ Status(f) = "live" /\ goals[f] < MaxGoals /\ goals' = [goals EXCEPT ![f] = @ + 1]
  BY DEF Goal, cache, bounds
<1>3. ShownIsToday' /\ NextIsWholeDay' /\ UNCHANGED <<sport, fixture>>
      /\ (\A l : ShownToday(l)' = ShownToday(l)) /\ \A g : Status(g)' = Status(g)
  BY <1>2, ListsKept
<1>4. goals' \in [Fixtures -> 0 .. MaxGoals]
  BY <1>1, <1>2, SportsAssumption DEF SportsTypeOK
<1>5. SportsTypeOK'
  BY <1>1, <1>2, <1>3, <1>4, WorldKept DEF SportsTypeOK
<1>6. RoundOK' /\ DatesOK'
  BY <1>1, <1>2, WorldKept DEF RoundOK, DatesOK, LastDate
<1>7. NoticedOK'
  BY <1>1, <1>2, <1>3, WorldKept DEF NoticedOK, ToPoll
<1>8. EventsOK'
  <2> SUFFICES ASSUME NEW g \in Fixtures
               PROVE  events[g] \in {-1, lastLive[g]} \/ (Status(g) = "finished" /\ events[g] = goals'[g])
    BY <1>2, <1>3 DEF EventsOK
  <2>1. CASE g = f
    BY <1>1, <1>2, <2>1 DEF EventsOK
  <2>2. CASE g # f
    BY <1>1, <1>2, <2>2 DEF EventsOK, SportsTypeOK
  <2> QED
    BY <2>1, <2>2
<1> QED
  BY <1>3, <1>5, <1>6, <1>7, <1>8 DEF SportsIInv

(* So does the ticker, whose time has come.                                 *)
LEMMA BeginRoundKeeps ==
  ASSUME SportsIInv, BeginRound
  PROVE  SportsIInv'
<1>1. SportsTypeOK /\ RoundOK /\ DatesOK /\ NoticedOK /\ EventsOK
  BY DEF SportsIInv
<1>2. /\ UNCHANGED <<world, now, goals, nextTick, matches, nextMatches, events, missed, lastLive, failures, crossings>>
      /\ round = NoRound /\ now = nextTick /\ round' = [date |-> KSTDate(now), todo |-> Leagues]
  BY DEF BeginRound, cache, bounds
<1>3. ShownIsToday' /\ NextIsWholeDay' /\ UNCHANGED <<sport, fixture>>
      /\ (\A l : ShownToday(l)' = ShownToday(l)) /\ \A g : Status(g)' = Status(g)
  BY <1>2, ListsKept
<1>4. round' \in [date : Dates, todo : Rests] /\ round' # NoRound /\ round'.date = KSTDate(now)
  BY <1>1, <1>2, Today, RestFacts DEF NoRound
<1>5. SportsTypeOK'
  BY <1>1, <1>2, <1>3, <1>4, WorldKept DEF SportsTypeOK
<1>6. RoundOK' /\ DatesOK'
  BY <1>1, <1>2, <1>4, Today, WorldKept DEF RoundOK, DatesOK, LastDate
<1>7. \A l \in LeagueSet : ToPoll(l)'
  BY <1>1, <1>2, RestFacts DEF ToPoll
<1>8. NoticedOK'
  <2> SUFFICES ASSUME NEW l \in LeagueSet \ missed, NEW m \in ShownToday(l), m.status = "scheduled"
               PROVE  now < Start(m.match) + MatchDayInterval + crossings
    BY <1>2, <1>3, <1>4, <1>7, WorldKept DEF NoticedOK
  <2> QED
    BY <1>1, <1>2 DEF NoticedOK
<1>9. EventsOK'
  BY <1>1, <1>2, <1>3 DEF EventsOK
<1> QED
  BY <1>3, <1>5, <1>6, <1>8, <1>9 DEF SportsIInv

(* With a match listed, no interval is longer than that of a match day.     *)
LEMMA Intervals ==
  ASSUME SportsTypeOK, NEW date \in Dates
  PROVE  /\ Interval(date) \in Nat
         /\ (\E l \in LeagueSet : Cached(l, date) # {}) => Interval(date) <= MatchDayInterval
<1>1. ASSUME NEW l
      PROVE  /\ matchDayDecision(l, date) \in Nat
             /\ Cached(l, date) # {} => matchDayDecision(l, date) <= MatchDayInterval
  BY DEF matchDayDecision, IdleDayInterval, LiveInterval, MatchDayInterval
<1> DEFINE busy == {i \in DOMAIN Leagues : Cached(Leagues[i], date) # {}}
           live == \E l \in LeagueSet : HasLiveMatches(l, date)
<1>2. Interval(date) = IF live THEN LiveInterval
                       ELSE IF busy = {} THEN IdleDayInterval
                       ELSE matchDayDecision(Leagues[Min(busy)], date)
  BY DEF Interval
<1>3. Leagues \in Seq(LeagueSet) /\ busy \subseteq Nat
  BY RestFacts
<1>4. (\E l \in LeagueSet : Cached(l, date) # {}) => busy # {}
  BY RestFacts
<1>5. busy # {} => Cached(Leagues[Min(busy)], date) # {}
  <2>1. \A i \in busy : Cached(Leagues[i], date) # {}
    OBVIOUS
  <2> HIDE DEF busy
  <2> QED
    BY <1>3, <2>1, Least
<1> HIDE DEF busy, live
<1> QED
  BY <1>1, <1>2, <1>4, <1>5 DEF LiveInterval, IdleDayInterval, MatchDayInterval

(* So does the end of a round: whatever league decides, one with a match does.*)
LEMMA ResetTickerKeeps ==
  ASSUME SportsIInv, ResetTicker
  PROVE  SportsIInv'
<1>1. SportsTypeOK /\ RoundOK /\ DatesOK /\ NoticedOK /\ EventsOK
  BY DEF SportsIInv
<1>2. /\ UNCHANGED <<world, now, goals, matches, nextMatches, events, missed, lastLive, failures, crossings>>
      /\ round # NoRound /\ round.todo = <<>> /\ round' = NoRound
      /\ nextTick' = now + Interval(round.date)
  BY DEF ResetTicker, cache, bounds
<1>3. ShownIsToday' /\ NextIsWholeDay' /\ UNCHANGED <<sport, fixture>>
      /\ (\A l : ShownToday(l)' = ShownToday(l)) /\ \A g : Status(g)' = Status(g)
  BY <1>2, ListsKept
<1>4. now \in Nat /\ crossings \in Nat /\ round \in [date : Dates, todo : Rests]
  BY <1>1, <1>2, SportsAssumption DEF SportsTypeOK
<1>5. Interval(round.date) \in Nat
  BY <1>1, <1>4, Intervals
<1>6. SportsTypeOK'
  BY <1>1, <1>2, <1>3, <1>4, <1>5, WorldKept DEF SportsTypeOK
<1>7. RoundOK'
  BY <1>2, <1>4, <1>5 DEF RoundOK
<1>8. DatesOK'
  BY <1>1, <1>2, <1>4, Today, WorldKept DEF DatesOK, LastDate, RoundOK
<1>9. NoticedOK'
  <2> SUFFICES ASSUME NEW l \in LeagueSet \ missed, NEW m \in ShownToday(l), m.status = "scheduled"
               PROVE  nextTick' < Start(m.match) + MatchDayInterval + crossings
    BY <1>2, <1>3, WorldKept DEF NoticedOK
  <2>1. Start(m.match) \in Nat
    BY <1>1, Today, CachedFacts, MatchFacts DEF ShownToday, ListEntry
  <2>2. now < Start(m.match) + crossings
    BY <1>1, <1>2 DEF NoticedOK, ToPoll
  <2>3. matches[l][KSTDate(now)] # NotCached
    BY <1>1, Today, CachedFacts DEF ShownToday
  <2>4. round.date = KSTDate(now)
    BY <1>1, <1>2, <1>4, <2>3, Today DEF DatesOK, LastDate, RoundOK
  <2>5. Interval(round.date) <= MatchDayInterval
    BY <1>1, <1>4, <2>4, Intervals DEF ShownToday
  <2> QED
    BY <1>2, <1>4, <1>5, <2>1, <2>2, <2>5 DEF MatchDayInterval
<1>10. EventsOK'
  BY <1>1, <1>2, <1>3 DEF EventsOK
<1> QED
  BY <1>3, <1>6, <1>7, <1>8, <1>9, <1>10 DEF SportsIInv

(* So does a poll, also one that ends on another day than its round began.  *)
LEMMA PollKeeps ==
  ASSUME SportsIInv, PollOnce
  PROVE  SportsIInv'
<1>1. /\ SportsTypeOK /\ RoundOK /\ DatesOK /\ NoticedOK /\ EventsOK /\ ShownIsToday /\ NextIsWholeDay
      /\ round.todo # <<>>
  BY DEF SportsIInv, PollOnce
<1>2. PICK l \in LeagueSet, broken \in BOOLEAN, lines \in SUBSET ListEntry,
           next \in [matches : SUBSET ListEntry, date : Int] : Leaves(l, broken, lines, next)
  BY <1>1, PollLeaves
<1>3. /\ l = Head(round.todo)
      /\ round' = [round EXCEPT !.todo = Tail(@)]
      /\ failures' = failures + (IF broken THEN 1 ELSE 0) /\ failures' <= MaxFailures
      /\ missed' = IF broken THEN missed \cup {l} ELSE missed \ {l}
      /\ UNCHANGED <<world, sport, fixture, now, goals, nextTick, crossings>>
  BY <1>2 DEF Leaves, Polled, world
<1>4. /\ round \in [date : Dates, todo : Rests] /\ round.date <= KSTDate(now)
      /\ round' = [date |-> round.date, todo |-> Tail(round.todo)]
      /\ round' \in [date : Dates, todo : Rests]
      /\ round # NoRound /\ round' # NoRound
  <2>1. round \in [date : Dates, todo : Rests] /\ round # NoRound
    BY <1>1 DEF SportsTypeOK, NoRound
  <2>2. Tail(round.todo) \in Rests
    BY <1>1, <2>1, RestFacts
  <2>3. round' = [date |-> round.date, todo |-> Tail(round.todo)]
    BY <1>3, <2>1
  <2>4. round.date # -1
    BY <1>1, <2>1, Today
  <2> QED
    BY <1>1, <2>1, <2>2, <2>3, <2>4 DEF RoundOK, NoRound
<1>5. \A k : k # l => (ToPoll(k)' <=> ToPoll(k))
  <2>1. round.todo \in Seq(LeagueSet)
    BY <1>1, <1>4, RestFacts
  <2>2. \A k : k # Head(round.todo) =>
          ((\E i \in DOMAIN round.todo : round.todo[i] = k)
             <=> \E i \in DOMAIN Tail(round.todo) : Tail(round.todo)[i] = k)
    BY <1>1, <2>1, HeadLeaves
  <2>3. round'.todo = Tail(round.todo)
    BY <1>4
  <2> QED
    BY <1>3, <2>2, <2>3 DEF ToPoll
<1>6. /\ matches' \in [LeagueSet -> [Dates -> {NotCached} \cup SUBSET ListEntry]]
      /\ \A k \in LeagueSet, d \in Dates : k # l \/ d # round.date => matches'[k][d] = matches[k][d]
      /\ (broken /\ matches' = matches) \/ matches'[l][round.date] = lines
  <2>1. matches \in [LeagueSet -> [Dates -> {NotCached} \cup SUBSET ListEntry]]
    BY <1>1 DEF SportsTypeOK
  <2>2. CASE broken /\ matches' = matches
    BY <2>1, <2>2
  <2>3. CASE matches' = [matches EXCEPT ![l][round.date] = lines]
    BY <1>4, <2>1, <2>3
  <2> QED
    BY <1>2, <2>2, <2>3 DEF Leaves
<1>7. /\ nextMatches' \in [LeagueSet -> [matches : SUBSET ListEntry, date : Int]]
      /\ nextMatches'[l] = next /\ \A k \in LeagueSet \ {l} : nextMatches'[k] = nextMatches[k]
  BY <1>1, <1>2 DEF Leaves, SportsTypeOK
<1>8. SportsTypeOK'
  <2>1. failures' \in 0 .. MaxFailures
    BY <1>1, <1>3, SportsAssumption DEF SportsTypeOK
  <2>2. missed' \subseteq LeagueSet
    BY <1>1, <1>3 DEF SportsTypeOK
  <2>3. events' \in [Fixtures -> -1 .. MaxGoals] /\ lastLive' \in [Fixtures -> -1 .. MaxGoals]
    BY <1>2 DEF Leaves
  <2> QED
    BY <1>1, <1>3, <1>4, <1>6, <1>7, <2>1, <2>2, <2>3, WorldKept DEF SportsTypeOK
<1>9. RoundOK' /\ DatesOK'
  <2>1. LastDate = round.date /\ LastDate' = round.date /\ round.date \in Nat
    BY <1>1, <1>4, Today DEF LastDate
  <2>2. \A k \in LeagueSet, d \in Dates : d > round.date => matches'[k][d] = NotCached
    BY <1>1, <1>6, <2>1, Today DEF DatesOK
  <2>3. RoundOK'
    BY <1>3, <1>4 DEF RoundOK
  <2> QED
    BY <1>3, <2>1, <2>2, <2>3, WorldKept DEF DatesOK
<1>10. \A k \in LeagueSet \ {l} : ShownToday(k)' = ShownToday(k)
  BY <1>1, <1>3, <1>6, Today DEF ShownToday, Cached
<1>11. ASSUME ~(broken /\ matches' = matches), NEW m \in ShownToday(l)'
       PROVE  m \in lines /\ round.date = KSTDate(now)
  <2>1. round.date = KSTDate(now)
    <3>1. matches'[l][KSTDate(now)] # NotCached
      BY <1>3, <1>11 DEF ShownToday, Cached
    <3> QED
      BY <1>1, <1>4, <1>6, <3>1, Today DEF DatesOK, LastDate
  <2> QED
    BY <1>3, <1>6, <1>11, <2>1 DEF ShownToday, Cached
<1>12. broken /\ matches' = matches => ShownToday(l)' = ShownToday(l)
  BY <1>3 DEF ShownToday, Cached
<1>13. \A m \in lines : /\ fixture[m.match].league = l /\ m.status = Status(m.match)
                        /\ round.date = KSTDate(now) => KSTDate(Start(m.match)) = KSTDate(now)
  BY <1>2 DEF Leaves
<1>14. NoticedOK'
  <2> SUFFICES ASSUME NEW k \in LeagueSet \ missed', NEW m \in ShownToday(k)', m.status = "scheduled"
               PROVE  IF ToPoll(k)' THEN now < Start(m.match) + MatchDayInterval + crossings
                      ELSE now < Start(m.match) + crossings
    BY <1>3, <1>4, WorldKept DEF NoticedOK
  <2>1. CASE k # l
    <3>1. k \in LeagueSet \ missed /\ m \in ShownToday(k)
      BY <1>3, <1>10, <2>1
    <3> QED
      BY <1>1, <1>4, <1>5, <2>1, <3>1 DEF NoticedOK
  <2>2. CASE k = l
    <3>1. ~broken
      BY <1>3, <2>2
    <3>2. m \in lines /\ Status(m.match) = "scheduled"
      BY <1>11, <1>13, <2>2, <3>1
    <3>3. m.match \in Fixtures
      BY <3>2 DEF ListEntry
    <3>4. Start(m.match) \in Nat
      BY <1>1, <3>3, MatchFacts
    <3>5. now \in Nat /\ crossings \in Nat
      BY <1>1, SportsAssumption DEF SportsTypeOK
    <3>6. now < Start(m.match)
      BY <3>2, <3>4, <3>5 DEF Status
    <3> QED
      BY <3>4, <3>5, <3>6 DEF MatchDayInterval
  <2> QED
    BY <2>1, <2>2
<1>15. EventsOK'
  <2>1. \A f : Status(f)' = Status(f)
    BY <1>3, WorldKept DEF Status
  <2> QED
    BY <1>1, <1>2, <1>3, <2>1 DEF EventsOK, Leaves
<1>16. ShownIsToday'
  <2> SUFFICES ASSUME NEW k \in LeagueSet, NEW m \in ShownToday(k)'
               PROVE  fixture[m.match].league = k /\ KSTDate(Start(m.match)) = KSTDate(now)
    BY <1>3, WorldKept DEF ShownIsToday
  <2>1. CASE m \in ShownToday(k)
    BY <1>1, <2>1 DEF ShownIsToday
  <2>2. CASE m \notin ShownToday(k)
    <3>1. k = l /\ ~(broken /\ matches' = matches)
      BY <1>10, <1>12, <2>2
    <3> QED
      BY <1>11, <1>13, <3>1
  <2> QED
    BY <2>1, <2>2
<1>17. NextIsWholeDay'
  <2>1. \A k : Coming(k)' = Coming(k)
    BY <1>3, WorldKept DEF Coming, Later
  <2>2. \A k : NextMatchDays(k)' = NextMatchDays(k)
    BY <1>3, <2>1, WorldKept DEF NextMatchDays, FiledFirst, FiledOn, MatchDay, Later
  <2> SUFFICES ASSUME NEW k \in LeagueSet \ (missed' \cup {"mlb"}), sport # "esports",
                      matches'[k][KSTDate(now)] = {}, Coming(k) # {}
               PROVE  {m.match : m \in ShownNext(k)'.matches} \in NextMatchDays(k)
    BY <1>3, <2>1, <2>2, WorldKept DEF NextIsWholeDay
  <2>3. CASE k # l
    <3>1. k \notin missed /\ matches[k][KSTDate(now)] = {}
      BY <1>1, <1>3, <1>6, <2>3, Today
    <3>2. ShownNext(k)' = ShownNext(k)
      BY <1>7, <1>10, <2>3 DEF ShownNext, GetNextMatches
    <3> QED
      BY <1>1, <2>3, <3>1, <3>2 DEF NextIsWholeDay
  <2>4. CASE k = l
    <3>1. ~broken
      BY <1>3, <2>4
    <3>2. ShownNext(l)' = next
      BY <1>3, <1>7, <2>4 DEF ShownNext, ShownToday, Cached, GetNextMatches
    <3>3. round.date = KSTDate(now)
      BY <1>1, <1>4, <1>6, <2>4, NotEmpty, Today DEF DatesOK, LastDate
    <3>4. lines = {}
      BY <1>6, <2>4, <3>1, <3>3
    <3> QED
      BY <1>2, <2>4, <3>1, <3>2, <3>4 DEF Leaves
  <2> QED
    BY <2>3, <2>4
<1> QED
  BY <1>8, <1>9, <1>14, <1>15, <1>16, <1>17 DEF SportsIInv

(* So does a step that leaves all variables alone.                          *)
LEMMA SportsStutter ==
  ASSUME SportsIInv, UNCHANGED sportsVars
  PROVE  SportsIInv'
<1>1. SportsTypeOK /\ RoundOK /\ DatesOK /\ NoticedOK /\ EventsOK
  BY DEF SportsIInv
<1>2. UNCHANGED <<world, now, goals, round, nextTick, matches, nextMatches, events, missed, lastLive, failures, crossings>>
  BY DEF sportsVars, cache, bounds
<1>3. ShownIsToday' /\ NextIsWholeDay' /\ UNCHANGED <<sport, fixture>>
      /\ (\A l : ShownToday(l)' = ShownToday(l)) /\ \A g : Status(g)' = Status(g)
  BY <1>2, ListsKept
<1>4. SportsTypeOK'
  BY <1>1, <1>2, <1>3, WorldKept DEF SportsTypeOK
<1>5. RoundOK' /\ DatesOK'
  BY <1>1, <1>2, WorldKept DEF RoundOK, DatesOK, LastDate
<1>6. NoticedOK'
  BY <1>1, <1>2, <1>3, WorldKept DEF NoticedOK, ToPoll
<1>7. EventsOK'
  BY <1>1, <1>2, <1>3 DEF EventsOK
<1> QED
  BY <1>3, <1>4, <1>5, <1>6, <1>7 DEF SportsIInv

(* The inductive invariant of the pollers holds of every reachable state.   *)
THEOREM SportsInductive == SportsSpec => []SportsIInv
<1>1. SportsIInv /\ [SportsNext]_sportsVars => SportsIInv'
  BY ElapseKeeps, GoalKeeps, BeginRoundKeeps, PollKeeps, ResetTickerKeeps, SportsStutter DEF SportsNext
<1> QED
  BY <1>1, SportsInitially, PTL DEF SportsSpec

(* Types of the pollers.                                                    *)
THEOREM SportsTyped == SportsSpec => []SportsTypeOK
<1>1. SportsIInv => SportsTypeOK
  BY DEF SportsIInv
<1> QED
  BY <1>1, SportsInductive, PTL

(* A list shown as today's holds matches of the league that start today.    *)
THEOREM ListsAreOfToday == SportsSpec => []ShownIsToday
<1>1. SportsIInv => ShownIsToday
  BY DEF SportsIInv
<1> QED
  BY <1>1, SportsInductive, PTL

(* The next matches shown of a league without one today are one whole       *)
(* coming day of Korea, across the dates they are filed under: the nearest, *)
(* or in football the other day of the first UTC date that has matches.     *)
THEOREM NextAreWholeDays == SportsSpec => []NextIsWholeDay
<1>1. SportsIInv => NextIsWholeDay
  BY DEF SportsIInv
<1> QED
  BY <1>1, SportsInductive, PTL

(* A match that began is not shown as still to come for longer than the     *)
(* match day interval and the half hours that rounds took.                  *)
THEOREM StartsAreNoticed == SportsSpec => []StartNoticedInTime
<1>1. ASSUME SportsIInv
      PROVE  StartNoticedInTime
  <2>1. SportsTypeOK /\ RoundOK /\ NoticedOK
    BY <1>1 DEF SportsIInv
  <2> SUFFICES ASSUME NEW l \in LeagueSet \ missed, NEW m \in ShownToday(l), m.status = "scheduled"
               PROVE  now <= Start(m.match) + MatchDayInterval + crossings
    BY DEF StartNoticedInTime
  <2>2. Start(m.match) \in Nat
    BY <2>1, Today, CachedFacts, MatchFacts DEF ShownToday, ListEntry
  <2>3. now \in Nat /\ nextTick \in Nat /\ crossings \in Nat
    BY <2>1, SportsAssumption DEF SportsTypeOK
  <2> QED
    BY <2>1, <2>2, <2>3 DEF NoticedOK, RoundOK, MatchDayInterval
<1> QED
  BY <1>1, SportsInductive, PTL

(* The events shown of a finished match are its final ones or those last    *)
(* read live.                                                               *)
THEOREM EventsAreFinal == SportsSpec => []FinalEvents
<1>1. ASSUME SportsIInv
      PROVE  FinalEvents
  <2>1. SportsTypeOK /\ EventsOK
    BY <1>1 DEF SportsIInv
  <2>2. \A l \in LeagueSet : \A m \in ShownToday(l) : m.match \in Fixtures
    BY <2>1, Today, CachedFacts DEF ShownToday, ListEntry
  <2> QED
    BY <2>1, <2>2 DEF FinalEvents, ShownEvents, GetEvents, EventsOK
<1> QED
  BY <1>1, SportsInductive, PTL
------------------------------------------------------------------------------
(***************************************************************************)
(* Dashboard: what the queries count of a table, whatever its rows.        *)
(***************************************************************************)

(* A part of a finite set.                                                  *)
LEMMA Part ==
  ASSUME NEW T, IsFiniteSet(T), NEW S, S \subseteq T
  PROVE  /\ IsFiniteSet(S) /\ Cardinality(S) \in Nat /\ Cardinality(T) \in Nat
         /\ Cardinality(S) <= Cardinality(T) /\ (Cardinality(S) = 0 <=> S = {})
BY FS_Subset, FS_CardinalityType, FS_EmptySet

(* Two parts without a common element have no more than the whole, and as   *)
(* many when they are all of it.                                            *)
LEMMA TwoParts ==
  ASSUME NEW T, IsFiniteSet(T), NEW A, NEW B, A \subseteq T, B \subseteq T, A \cap B = {}
  PROVE  /\ Cardinality(A) + Cardinality(B) <= Cardinality(T)
         /\ A \cup B = T => Cardinality(A) + Cardinality(B) = Cardinality(T)
<1>1. IsFiniteSet(A) /\ IsFiniteSet(B) /\ Cardinality(A) \in Nat /\ Cardinality(B) \in Nat
  BY Part
<1>2. Cardinality(A \cup B) = Cardinality(A) + Cardinality(B)
  <2>1. Cardinality(A \cup B) = Cardinality(A) + Cardinality(B) - Cardinality(A \cap B)
    BY <1>1, FS_Union
  <2>2. Cardinality(A \cap B) = 0
    BY FS_EmptySet
  <2> QED BY <1>1, <2>1, <2>2
<1>3. Cardinality(A \cup B) <= Cardinality(T)
  BY Part
<1> QED
  BY <1>1, <1>2, <1>3

(* What a function yields of finitely many is finite, and no more.          *)
LEMMA ImageIsFinite ==
  ASSUME NEW f, IsFiniteSet(DOMAIN f), f \in [DOMAIN f -> {f[x] : x \in DOMAIN f}]
  PROVE  /\ IsFiniteSet({f[x] : x \in DOMAIN f})
         /\ Cardinality({f[x] : x \in DOMAIN f}) <= Cardinality(DOMAIN f)
<1>1. f \in Surjection(DOMAIN f, {f[x] : x \in DOMAIN f})
  BY DEF Surjection
<1> QED
  BY <1>1, FS_Surjection

(* Of finitely many things with a rank one has the greatest.                *)
LEMMA Greatest ==
  ASSUME NEW T, IsFiniteSet(T), T # {}, NEW rank, \A x \in T : rank[x] \in Nat
  PROVE  \E x \in T : \A y \in T : rank[y] <= rank[x]
<1> DEFINE Above(x) == {y \in T : rank[y] > rank[x]}
           counts == {Cardinality(Above(x)) : x \in T}
<1>1. \A x \in T : IsFiniteSet(Above(x)) /\ Cardinality(Above(x)) \in Nat
  BY Part
<1>2. counts \subseteq Nat /\ counts # {}
  BY <1>1
<1>3. Min(counts) \in counts /\ \A n \in counts : Min(counts) <= n
  <2> HIDE DEF counts
  <2> QED BY <1>2, Least
<1>4. PICK x \in T : Cardinality(Above(x)) = Min(counts)
  BY <1>3
<1>5. ASSUME NEW y \in T, rank[y] > rank[x]
      PROVE  FALSE
  <2>1. Above(y) \subseteq Above(x) /\ y \in Above(x) /\ y \notin Above(y)
    BY <1>5
  <2>2. Cardinality(Above(x)) <= Cardinality(Above(y))
    BY <1>3, <1>4
  <2>3. Cardinality(Above(y)) <= Cardinality(Above(x)) /\ (Cardinality(Above(y)) = Cardinality(Above(x)) => Above(y) = Above(x))
    <3> HIDE DEF Above
    <3> QED BY <1>1, <2>1, FS_Subset
  <2>4. Cardinality(Above(y)) = Cardinality(Above(x))
    <3> HIDE DEF Above
    <3> QED BY <1>1, <2>2, <2>3
  <2> QED BY <2>1, <2>3, <2>4
<1> QED BY <1>5

(* An order and a limit always leave an answer: the longest that is in the  *)
(* order could be longer were it neither full nor all.                      *)
LEMMA TopExists ==
  ASSUME NEW rank, IsFiniteSet(DOMAIN rank), \A x \in DOMAIN rank : rank[x] \in Nat, NEW limit \in Nat
  PROVE  Top(limit, rank) # {}
<1> DEFINE D == DOMAIN rank
           ahead == {s \in SUBSET D : Cardinality(s) <= limit /\ \A x \in s, y \in D \ s : rank[y] <= rank[x]}
           left == {limit - Cardinality(s) : s \in ahead}
<1>1. \A s \in SUBSET D : IsFiniteSet(s) /\ Cardinality(s) \in Nat
  BY Part
<1>2. {} \in ahead
  BY FS_EmptySet
<1>3. left \subseteq Nat /\ left # {}
  BY <1>1, <1>2
<1>4. Min(left) \in left /\ \A n \in left : Min(left) <= n
  <2> HIDE DEF left
  <2> QED BY <1>3, Least
<1>5. PICK s \in ahead : limit - Cardinality(s) = Min(left)
  BY <1>4
<1>6. ASSUME s # D, Cardinality(s) # limit
      PROVE  FALSE
  <2>1. IsFiniteSet(D \ s) /\ D \ s # {}
    BY <1>1, <1>6
  <2>2. PICK y \in D \ s : \A z \in D \ s : rank[z] <= rank[y]
    BY <2>1, Greatest
  <2>3. IsFiniteSet(s \cup {y}) /\ Cardinality(s \cup {y}) = Cardinality(s) + 1
    BY <1>1, <2>2, FS_AddElement
  <2>4. s \cup {y} \in ahead
    <3>1. Cardinality(s) < limit /\ Cardinality(s) \in Nat
      BY <1>1, <1>6
    <3>2. Cardinality(s \cup {y}) <= limit
      BY <2>3, <3>1
    <3> QED BY <2>2, <3>2
  <2>5. Min(left) <= limit - Cardinality(s \cup {y})
    BY <1>4, <2>4
  <2>6. Cardinality(s) \in Nat
    BY <1>1
  <2> HIDE DEF left, ahead
  <2> QED BY <1>5, <2>3, <2>5, <2>6
<1>7. s \in Top(limit, rank)
  BY <1>6 DEF Top
<1> QED BY <1>7

(* The later of two hours is not of an earlier day.                         *)
LEMMA LaterDay ==
  ASSUME NEW t \in Int, NEW u \in Int
  PROVE  Day(t) \in Int /\ Day(u) \in Int /\ (t <= u => Day(t) <= Day(u))
<1>1. DayLength \in Nat /\ DayLength > 0 /\ Zone \in Nat
  BY DashboardAssumption
<1> DEFINE L == DayLength
           p == (t + Zone) \div L
           q == (u + Zone) \div L
<1>2. p \in Int /\ q \in Int /\ L * p <= t + Zone /\ t + Zone < L * p + L /\ L * q <= u + Zone /\ u + Zone < L * q + L
  BY <1>1
<1>3. ASSUME t <= u PROVE p <= q
  <2> HIDE DEF p, q, L
  <2>1. L \in Nat /\ L > 0
    BY <1>1 DEF L
  <2>2. ASSUME q < p PROVE FALSE
    <3>1. q + 1 <= p
      BY <1>2, <2>2
    <3>2. L * (q + 1) <= L * p
      BY <1>2, <2>1, <3>1
    <3>3. L * (q + 1) = L * q + L
      BY <1>2, <2>1
    <3>4. L * p \in Int /\ L * q \in Int
      BY <1>2, <2>1
    <3> QED BY <1>1, <1>2, <1>3, <2>1, <3>2, <3>3, <3>4
  <2> QED BY <1>2, <2>2
<1> QED
  BY <1>2, <1>3 DEF Day

(* Two hours of a day of the server are less than a day apart.              *)
LEMMA SameLocalDay ==
  ASSUME NEW t \in Nat, NEW u \in Nat, LocalDay(t) = LocalDay(u)
  PROVE  t > u - DayLength
<1>1. DayLength \in Nat /\ DayLength > 0
  BY DashboardAssumption
<1>2. t \div DayLength = u \div DayLength
  BY DEF LocalDay
<1>3. DayLength * (t \div DayLength) <= t /\ u < DayLength * (u \div DayLength) + DayLength
      /\ DayLength * (t \div DayLength) \in Int
  BY <1>1
<1> QED
  BY <1>1, <1>2, <1>3

(* What the figures rest on: the types, and a table with an end.            *)
TableOK == PageTypeOK /\ RowsOK

(* The rows are of rooms or of none, and of hours and days since the start.  *)
LEMMA RowFacts ==
  ASSUME TableOK
  PROVE  /\ clock \in Nat /\ IsFiniteSet(rows)
         /\ \A m \in rows : /\ m.at \in Nat /\ Day(m.at) \in Nat /\ m.kind.latency \in Nat
                            /\ m.room \in Rooms \cup {NoRoom}
                            /\ m.kind.name \notin OfTracker => m.room \in Rooms /\ m.room # NoRoom
<1>1. clock \in 0 .. MaxClock /\ rows \subseteq Row /\ IsFiniteSet(rows) /\ MaxClock \in Nat
  BY DashboardAssumption DEF TableOK, PageTypeOK, RowsOK
<1>2. ASSUME NEW m \in rows
      PROVE  /\ m.at \in Nat /\ Day(m.at) \in Nat /\ m.kind.latency \in Nat
             /\ m.room \in Rooms \cup {NoRoom}
             /\ m.kind.name \notin OfTracker => m.room \in Rooms /\ m.room # NoRoom
  <2>1. m \in Row
    BY <1>1
  <2>2. m.at \in Nat /\ m.room \in Rooms \cup {NoRoom} /\ m.kind \in Range(Kinds)
    BY <1>1, <2>1 DEF Row
  <2>3. m.kind \in Kind
    BY <2>2, DashboardAssumption DEF Range
  <2>4. Day(m.at) \in Nat
    <3>1. DayLength \in Nat /\ DayLength > 0 /\ m.at + Zone \in Nat
      BY <2>2, DashboardAssumption
    <3>2. (m.at + Zone) \div DayLength \in Nat
      BY <3>1
    <3> QED BY <3>2 DEF Day
  <2>5. m.room = NoRoom <=> m.kind.name \in OfTracker
    BY DEF TableOK, RowsOK
  <2> QED BY <2>2, <2>3, <2>4, <2>5 DEF Kind
<1> QED
  BY <1>1, <1>2

(* Some of the events have no more requests than all of them.               *)
LEMMA FewerRequests ==
  ASSUME NEW T, IsFiniteSet(T), NEW S, S \subseteq T
  PROVE  Requests(S) \in Nat /\ Requests(T) \in Nat /\ Requests(S) <= Requests(T)
<1>1. Named(S, {"message_received"}) \subseteq Named(T, {"message_received"}) /\ Named(T, {"message_received"}) \subseteq T
  BY DEF Named
<1>2. IsFiniteSet(Named(T, {"message_received"}))
  BY <1>1, Part
<1> QED
  BY <1>1, <1>2, Part DEF Requests

(* The trend begins on the day the window begins in, the hours at its hour. *)
LEMMA TrendCovers ==
  ASSUME TableOK, NEW rolled \in SUBSET rows, NEW w \in Windows
  PROVE  DaysCovered(rolled, w)
<1> SUFFICES ASSUME NEW m \in Within(rolled, w)
             PROVE  /\ m.at \in DOMAIN Hourly(rolled, m.room, w)
                    /\ Day(m.at) \in DOMAIN Trend(rolled, m.room, w)
                    /\ Requests({n \in In(Within(rolled, w), m.room) : Day(n.at) = Day(m.at)})
                          <= Trend(rolled, m.room, w)[Day(m.at)]
  BY DEF DaysCovered
<1>1. m \in rolled /\ m \in rows /\ m.at > clock - w
  BY DEF Within
<1>2. clock \in Nat /\ m.at \in Nat /\ w \in Nat
  BY <1>1, RowFacts, DashboardAssumption
<1>3. Day(clock - w) <= Day(m.at) /\ Day(clock - w) \in Int /\ Day(m.at) \in Int
  BY <1>1, <1>2, LaterDay
<1>4. m \in InDays(In(rolled, m.room), w)
  BY <1>1, <1>3 DEF InDays, In
<1>5. Day(m.at) \in DOMAIN Trend(rolled, m.room, w)
  BY <1>4 DEF Trend
<1>6. m.at \in DOMAIN Hourly(rolled, m.room, w)
  BY <1>1, <1>2 DEF Hourly, In
<1> DEFINE T == {n \in In(rolled, m.room) : Day(n.at) = Day(m.at)}
           S == {n \in In(Within(rolled, w), m.room) : Day(n.at) = Day(m.at)}
<1>7. S \subseteq T /\ T \subseteq rows
  BY DEF In, Within
<1>8. Requests(S) <= Requests(T)
  <2> HIDE DEF S, T
  <2>1. IsFiniteSet(T)
    BY <1>7, RowFacts, Part
  <2> QED BY <1>7, <2>1, FewerRequests
<1>9. Trend(rolled, m.room, w)[Day(m.at)] = Requests(T)
  BY <1>5 DEF Trend
<1> QED
  BY <1>5, <1>6, <1>8, <1>9

(* Timeouts are joins, what was deferred are registrations, and a card is   *)
(* partial or skipped, not both.                                            *)
LEMMA StatsAreParts ==
  ASSUME TableOK, NEW w \in Windows
  PROVE  PartsOfStats(w)
<1>1. PICK ms : ms = Within(rows, w)
  OBVIOUS
<1>2. IsFiniteSet(ms)
  BY <1>1, Part, RowFacts DEF Within
<1>3. OfRoom(ms, NoRoom) = ms
  BY DEF OfRoom
<1> DEFINE joins == {m \in Named(ms, {"coupang_lookup_coalesced"}) : m.kind.detail \in {"joined", "timedOut"}}
           registered == Named(ms, {"coupang_registration_path"})
           cards == Named(ms, {"reply_composite_outcome"})
<1>4. IsFiniteSet(joins) /\ IsFiniteSet(registered) /\ IsFiniteSet(cards)
  <2>1. joins \subseteq ms /\ registered \subseteq ms /\ cards \subseteq ms
    BY DEF Named
  <2> HIDE DEF joins, registered, cards
  <2> QED BY <1>2, <2>1, Part
<1>5. Cardinality({m \in joins : m.kind.detail = "timedOut"}) <= Cardinality(joins)
  <2> HIDE DEF joins
  <2> QED BY <1>4, Part
<1>6. Cardinality({m \in registered : m.kind.detail = "deferred"}) <= Cardinality(registered)
  <2> HIDE DEF registered
  <2> QED BY <1>4, Part
<1>7. Cardinality({m \in cards : m.kind.detail = "partial"}) + Cardinality({m \in cards : m.kind.detail = "skipped"})
        <= Cardinality(cards)
  <2> DEFINE A == {m \in cards : m.kind.detail = "partial"}
             B == {m \in cards : m.kind.detail = "skipped"}
  <2>1. A \cap B = {} /\ A \subseteq cards /\ B \subseteq cards
    OBVIOUS
  <2> HIDE DEF A, B, cards
  <2>2. Cardinality(A) + Cardinality(B) <= Cardinality(cards)
    BY <1>4, <2>1, TwoParts
  <2> QED BY <2>2 DEF A, B
<1>8. JoinStats(ms).timeouts <= JoinStats(ms).joins
  BY <1>5 DEF JoinStats
<1>9. RegistrationStats(ms).deferred <= RegistrationStats(ms).registrations
  BY <1>6 DEF RegistrationStats
<1>10. CompositeStats(ms).partial + CompositeStats(ms).skipped <= CompositeStats(ms).cards
  BY <1>7 DEF CompositeStats
<1> QED
  BY <1>1, <1>3, <1>8, <1>9, <1>10 DEF PartsOfStats, QueryCoupangRefreshStats

(* A day's figures: a percentile is of events that were timed.              *)
LEMMA Figures ==
  ASSUME NEW ms, IsFiniteSet(ms), \A m \in ms : m.kind.latency \in Nat
  PROVE  /\ DayFigures(ms).completed \in Nat /\ DayFigures(ms).failed \in Nat /\ DayFigures(ms).denied \in Nat
         /\ DayFigures(ms).latency.p95 \in Nat
         /\ DayFigures(ms).failed <= DayFigures(ms).completed
         /\ DayFigures(ms).latency.p95 > 0 <=> DayFigures(ms).latency.samples > 0
<1> DEFINE done == Named(ms, {"command_succeeded", "command_failed"})
<1>1. done \subseteq ms /\ Named(ms, {"command_failed"}) \subseteq done /\ Named(ms, {"access_denied"}) \subseteq ms
  BY DEF Named
<1>2. IsFiniteSet(done) /\ Cardinality(done) \in Nat
  BY <1>1, Part
<1>3. Cardinality(Named(ms, {"command_failed"})) \in Nat /\ Cardinality(Named(ms, {"command_failed"})) <= Cardinality(done)
  BY <1>1, <1>2, Part
<1>4. Cardinality(Named(ms, {"access_denied"})) \in Nat
  BY <1>1, Part
<1>5. latencyPercentile(ms).p95 \in Nat /\ (latencyPercentile(ms).p95 > 0 <=> latencyPercentile(ms).samples > 0)
  <2> DEFINE timed == {m \in Named(ms, {"command_succeeded", "command_failed", "reply_sent", "reply_failed"}) : m.kind.latency > 0}
             AtMost(l) == Cardinality({m \in timed : m.kind.latency <= l})
             index == (95 * (Cardinality(timed) - 1)) \div 100
             hits == {l \in {m.kind.latency : m \in timed} : AtMost(l) > index}
  <2>1. latencyPercentile(ms) = [p95 |-> IF timed = {} THEN 0 ELSE Min(hits), samples |-> Cardinality(timed)]
    BY DEF latencyPercentile
  <2>2. timed \subseteq ms /\ \A m \in timed : m.kind.latency \in Nat /\ m.kind.latency > 0
    BY DEF Named
  <2>3. IsFiniteSet(timed) /\ Cardinality(timed) \in Nat /\ (Cardinality(timed) = 0 <=> timed = {})
    <3> HIDE DEF timed
    <3> QED BY <2>2, Part
  <2>4. ASSUME timed # {}
        PROVE  hits # {} /\ hits \subseteq Nat /\ \A l \in hits : l > 0
    <3> DEFINE rank == [m \in timed |-> m.kind.latency]
    <3>1. PICK m \in timed : \A n \in timed : n.kind.latency <= m.kind.latency
      <4>1. \A m \in timed : rank[m] = m.kind.latency /\ rank[m] \in Nat
        BY <2>2
      <4> HIDE DEF rank, timed
      <4>2. \E m \in timed : \A n \in timed : rank[n] <= rank[m]
        BY <2>3, <2>4, <4>1, Greatest
      <4> QED BY <4>1, <4>2
    <3>2. {n \in timed : n.kind.latency <= m.kind.latency} = timed
      BY <3>1
    <3>3. AtMost(m.kind.latency) = Cardinality(timed)
      BY <3>2
    <3>4. Cardinality(timed) > index
      BY <2>3, <2>4
    <3>5. m.kind.latency \in hits
      BY <3>1, <3>3, <3>4
    <3> QED BY <2>2, <3>5
  <2>5. timed # {} => Min(hits) \in Nat /\ Min(hits) > 0
    <3> HIDE DEF hits, timed
    <3> QED BY <2>4, Least
  <2> HIDE DEF hits, timed, done
  <2> QED BY <2>1, <2>3, <2>5
<1> HIDE DEF done
<1>6. DayFigures(ms) = [completed |-> Cardinality(done), failed |-> Cardinality(Named(ms, {"command_failed"})),
                        latency |-> latencyPercentile(ms), denied |-> Cardinality(Named(ms, {"access_denied"}))]
  BY DEF DayFigures, Completed, FailedOf, done
<1> QED
  BY <1>2, <1>3, <1>4, <1>5, <1>6

(* No threshold is passed by a day that is as the day before.               *)
LEMMA SameDayIsNormal ==
  ASSUME NEW f, f.completed \in Nat, f.failed \in Nat, f.denied \in Nat, f.latency.p95 \in Nat, f.failed <= f.completed
  PROVE  detectOverviewAnomalies(f, f) = {}
<1>1. ~isErrorRateSpike(f, f)
  <2>1. CASE f.completed = 0
    <3>1. f.failed = 0
      BY <2>1
    <3> QED BY <2>1, <3>1 DEF isErrorRateSpike
  <2>2. CASE f.completed # 0
    <3>1. PICK c \in Nat, x \in Nat : c = f.completed /\ x = f.failed
      OBVIOUS
    <3>2. 20 * x * c <= (20 * x + c) * c
      <4>1. (20 * x + c) * c = 20 * x * c + c * c
        OBVIOUS
      <4>2. c * c >= 0 /\ c * c \in Int /\ 20 * x * c \in Int
        OBVIOUS
      <4> QED BY <4>1, <4>2
    <3>3. ~(20 * x * c > (20 * x + c) * c)
      <4>1. 20 * x * c \in Int /\ (20 * x + c) * c \in Int
        OBVIOUS
      <4> QED BY <3>2, <4>1
    <3> QED BY <2>2, <3>1, <3>3 DEF isErrorRateSpike
  <2> QED BY <2>1, <2>2
<1>2. ~isLatencyRegression(f, f)
  BY DEF isLatencyRegression
<1>3. ~isAccessDeniedSpike(f, f)
  BY DashboardAssumption DEF isAccessDeniedSpike
<1> QED
  BY <1>1, <1>2, <1>3 DEF detectOverviewAnomalies

(* The last day and the one before share no row, and today is of the last   *)
(* day.                                                                     *)
LEMMA OverviewIsSound ==
  ASSUME TableOK
  PROVE  OverviewAgrees
<1>1. PICK last : last = Within(rows, DayLength)
  OBVIOUS
<1>2. PICK before : before = Within(rows, 2 * DayLength) \ last
  OBVIOUS
<1>3. PICK today : today = {m \in rows : LocalDay(m.at) = LocalDay(clock)}
  OBVIOUS
<1>4. last \subseteq rows /\ before \subseteq rows /\ today \subseteq last /\ last \cap before = {}
  <2>1. ASSUME NEW m \in today PROVE m \in last
    <3>1. m \in rows /\ LocalDay(m.at) = LocalDay(clock)
      BY <1>3
    <3>2. m.at > clock - DayLength
      BY <3>1, RowFacts, SameLocalDay
    <3> QED BY <1>1, <3>1, <3>2 DEF Within
  <2> QED BY <1>1, <1>2, <2>1 DEF Within
<1> DEFINE asked == Named(today, {"message_received"})
<1>5. /\ handleOverview.today = DayFigures(today) /\ handleOverview.last = DayFigures(last)
      /\ handleOverview.before = DayFigures(before) /\ handleOverview.requests = Cardinality(asked)
      /\ handleOverview.users = Cardinality({m.kind.user : m \in asked})
      /\ handleOverview.anomalies = detectOverviewAnomalies(DayFigures(last), DayFigures(before))
  BY <1>1, <1>2, <1>3 DEF handleOverview, QueryOverview, Requests
<1>6. ASSUME NEW ms \in {last, before, today}
      PROVE  IsFiniteSet(ms) /\ \A m \in ms : m.kind.latency \in Nat
  <2>1. ms \subseteq rows
    BY <1>4
  <2> QED BY <2>1, RowFacts, Part
<1>7. \A ms \in {last, before, today} :
        /\ DayFigures(ms).completed \in Nat /\ DayFigures(ms).failed \in Nat /\ DayFigures(ms).denied \in Nat
        /\ DayFigures(ms).latency.p95 \in Nat
        /\ DayFigures(ms).failed <= DayFigures(ms).completed
        /\ DayFigures(ms).latency.p95 > 0 <=> DayFigures(ms).latency.samples > 0
  BY <1>6, Figures
<1>8. DayFigures(last) = DayFigures(before) => detectOverviewAnomalies(DayFigures(last), DayFigures(before)) = {}
  BY <1>7, SameDayIsNormal
<1> DEFINE Done(ms) == Named(ms, {"command_succeeded", "command_failed"})
<1>9. DayFigures(last).completed + DayFigures(before).completed <= Completed(rows)
  <2> DEFINE R == Done(rows)
             A == Done(last)
             B == Done(before)
  <2>1. R \subseteq rows /\ A \subseteq R /\ B \subseteq R /\ A \cap B = {}
    BY <1>4 DEF Named
  <2>2. IsFiniteSet(R)
    <3> HIDE DEF R
    <3> QED BY <2>1, RowFacts, Part
  <2>3. Cardinality(A) + Cardinality(B) <= Cardinality(R)
    <3> HIDE DEF A, B, R
    <3> QED BY <2>1, <2>2, TwoParts
  <2> QED BY <2>3 DEF DayFigures, Completed
<1>10. DayFigures(today).completed <= DayFigures(last).completed
  <2>1. Done(today) \subseteq Done(last) /\ Done(last) \subseteq last
    BY <1>4 DEF Named
  <2>2. IsFiniteSet(Done(last))
    BY <1>6, <2>1, Part
  <2>3. Cardinality(Done(today)) <= Cardinality(Done(last))
    BY <2>1, <2>2, Part
  <2> QED BY <2>3 DEF DayFigures, Completed
<1>11. Cardinality({m.kind.user : m \in asked}) <= Cardinality(asked)
  <2> DEFINE f == [m \in asked |-> m.kind.user]
  <2>1. DOMAIN f = asked /\ {m.kind.user : m \in asked} = {f[x] : x \in DOMAIN f} /\ f \in [DOMAIN f -> {f[x] : x \in DOMAIN f}]
    OBVIOUS
  <2>2. asked \subseteq today
    BY DEF Named
  <2>3. IsFiniteSet(asked)
    BY <1>6, <2>2, Part
  <2> HIDE DEF f, asked
  <2> QED BY <2>1, <2>3, ImageIsFinite
<1> HIDE DEF asked
<1> QED
  BY <1>5, <1>7, <1>8, <1>9, <1>10, <1>11 DEF OverviewAgrees

(* The rooms of a profile are finitely many rooms of the configuration.     *)
LEMMA ProfileFacts ==
  ASSUME TableOK
  PROVE  profile.rooms \subseteq Rooms /\ IsFiniteSet(profile.rooms)
<1>1. profile \in Profiles
  BY DEF TableOK, PageTypeOK
<1>2. PICK e \in AllowedEmails \cup DOMAIN AudienceScopes : profile = audiencesByEmail[e]
  BY <1>1 DEF Profiles, Range, audiencesByEmail
<1>3. CASE e \in DOMAIN AudienceScopes
  <2>1. profile.rooms = AudienceScopes[e].rooms \ {"*"}
    BY <1>2, <1>3 DEF audiencesByEmail, audienceFromScope
  <2>2. AudienceScopes[e].rooms \subseteq Rooms \cup {"*"} /\ IsFiniteSet(AudienceScopes[e].rooms)
    BY <1>3, DashboardAssumption
  <2> QED BY <2>1, <2>2, Part
<1>4. CASE e \notin DOMAIN AudienceScopes
  BY <1>2, <1>4, FS_EmptySet DEF audiencesByEmail
<1> QED
  BY <1>3, <1>4

(* A room that is asked for is answered for or denied; without one, the     *)
(* answer is for all rooms, or for rooms of the profile.                    *)
LEMMA ScopeFacts ==
  ASSUME TableOK, NEW r \in Rooms
  PROVE  /\ resolveScope(r) \subseteq {r}
         /\ r \in resolveScope(r) <=> Unrestricted \/ r \in profile.rooms
         /\ r \in resolveScope(r) => resolveScope(NoRoom) \subseteq {r, NoRoom}
         /\ ~Unrestricted => resolveScope(NoRoom) \subseteq profile.rooms
<1>1. \A x : resolveScope(x) = resolveRoomScope(parseScopeFromRequest(x))
  BY DEF resolveScope, validateAudienceScope, parseScopeFromRequest
<1>2. \A x : parseScopeFromRequest(x).room = x
  BY DEF parseScopeFromRequest
<1>3. r # NoRoom
  BY DashboardAssumption
<1>4. assignSingleAllowedRoom(parseScopeFromRequest(r)).room = r
  BY <1>2, <1>3 DEF assignSingleAllowedRoom
<1>5. resolveScope(r) = IF Unrestricted THEN {r} ELSE {r} \cap profile.rooms
  BY <1>1, <1>2, <1>4 DEF resolveRoomScope
<1>6. PICK s : s = assignSingleAllowedRoom(parseScopeFromRequest(NoRoom)).room
  OBVIOUS
<1>7. resolveScope(NoRoom) = IF Unrestricted THEN {NoRoom} ELSE {s} \cap profile.rooms
  BY <1>1, <1>2, <1>6 DEF resolveRoomScope
<1>8. s = NoRoom \/ (Cardinality(profile.rooms) = 1 /\ s = CHOOSE x \in profile.rooms : TRUE)
  BY <1>6 DEF assignSingleAllowedRoom, parseScopeFromRequest
<1>9. r \in profile.rooms => s \in {r, NoRoom}
  BY <1>8, ProfileFacts, FS_Singleton
<1> QED
  BY <1>5, <1>7, <1>9

(* The issues and the lists are answered, whatever the limits.              *)
LEMMA IssuesAnswered ==
  ASSUME TableOK, NEW r, NEW w
  PROVE  queryRoomIssues(r, w) # {}
<1> DEFINE issues == In(Named(Within(rows, w), RoomIssues \cup {"coupang_refresh_failed"}), r)
           rank == [m \in issues |-> m.at]
<1>1. issues \subseteq rows
  BY DEF In, Named, Within
<1>2. DOMAIN rank = issues /\ \A m \in issues : rank[m] \in Nat
  BY <1>1, RowFacts
<1>3. queryRoomIssues(r, w) = Top(IssueLimit, rank)
  BY DEF queryRoomIssues
<1>4. IsFiniteSet(issues)
  <2> HIDE DEF issues
  <2> QED BY <1>1, RowFacts, Part
<1> HIDE DEF rank, issues
<1> QED BY <1>2, <1>3, <1>4, TopExists, DashboardAssumption

(* The rooms of which a message has come, and how many have.                *)
LEMMA RoomsAnswered ==
  ASSUME TableOK, NEW r, NEW w, NEW limit \in Nat
  PROVE  QueryRooms(r, w, limit) # {}
<1> DEFINE evs == OfRoom(Within(rows, w), r)
           came == Named(evs, {"message_received"})
           asked == {m.room : m \in came}
           rank == [x \in asked |-> Requests(In(evs, x))]
<1>1. evs \subseteq rows /\ came \subseteq rows
  BY DEF OfRoom, Within, Named
<1>2. IsFiniteSet(evs) /\ IsFiniteSet(came)
  <2> HIDE DEF evs, came
  <2> QED BY <1>1, RowFacts, Part
<1>3. IsFiniteSet(asked)
  <2> DEFINE f == [m \in came |-> m.room]
  <2>1. DOMAIN f = came /\ asked = {f[x] : x \in DOMAIN f} /\ f \in [DOMAIN f -> {f[x] : x \in DOMAIN f}]
    OBVIOUS
  <2> HIDE DEF f, came, asked
  <2> QED BY <1>2, <2>1, ImageIsFinite
<1>4. \A x : Requests(In(evs, x)) \in Nat
  <2>1. \A x : In(evs, x) \subseteq evs
    BY DEF In
  <2> HIDE DEF evs
  <2> QED BY <1>2, <2>1, FewerRequests
<1>5. QueryRooms(r, w, limit) = {[x \in listed |-> Counts(In(evs, x))] : listed \in Top(limit, rank)}
  BY DEF QueryRooms
<1>6. DOMAIN rank = asked /\ \A x \in asked : rank[x] \in Nat
  BY <1>4
<1> HIDE DEF rank, asked, evs
<1>7. Top(limit, rank) # {}
  BY <1>3, <1>6, TopExists
<1> QED BY <1>5, <1>7

(* A list: rooms that are asked for, first those with most requests.        *)
LEMMA ListFacts ==
  ASSUME TableOK, NEW x, NEW w, NEW limit, NEW list \in QueryRooms(x, w, limit)
  PROVE  LET evs == OfRoom(Within(rows, w), x)
             asked == {m.room : m \in Named(evs, {"message_received"})}
         IN  /\ DOMAIN list \subseteq asked
             /\ \A r \in DOMAIN list : list[r] = Counts(In(evs, r))
             /\ \A r \in asked \ DOMAIN list :
                  /\ Cardinality(DOMAIN list) = limit
                  /\ \A y \in DOMAIN list : Requests(In(evs, r)) <= list[y].requests
<1> DEFINE evs == OfRoom(Within(rows, w), x)
           asked == {m.room : m \in Named(evs, {"message_received"})}
           rank == [y \in asked |-> Requests(In(evs, y))]
<1>1. PICK listed \in Top(limit, rank) : list = [y \in listed |-> Counts(In(evs, y))]
  BY DEF QueryRooms
<1>2. DOMAIN list = listed /\ \A y \in listed : list[y] = Counts(In(evs, y)) /\ list[y].requests = Requests(In(evs, y))
  BY <1>1 DEF Counts
<1>3. /\ DOMAIN rank = asked /\ \A y \in asked : rank[y] = Requests(In(evs, y))
  OBVIOUS
<1> HIDE DEF evs, asked, rank
<1>4. /\ listed \subseteq asked /\ (listed # asked => Cardinality(listed) = limit)
      /\ \A y \in listed, z \in asked \ listed : rank[z] <= rank[y]
  BY <1>3 DEF Top
<1>5. \A r \in asked \ listed : /\ Cardinality(listed) = limit
                               /\ \A y \in listed : Requests(In(evs, r)) <= list[y].requests
  <2> SUFFICES ASSUME NEW r \in asked \ listed
               PROVE  /\ Cardinality(listed) = limit
                      /\ \A y \in listed : Requests(In(evs, r)) <= list[y].requests
    OBVIOUS
  <2>1. \A y \in listed : rank[r] <= rank[y] /\ rank[y] = list[y].requests
    BY <1>2, <1>3, <1>4
  <2> QED BY <1>3, <1>4, <2>1
<1>6. /\ DOMAIN list \subseteq asked
      /\ \A r \in DOMAIN list : list[r] = Counts(In(evs, r))
      /\ \A r \in asked \ DOMAIN list :
           /\ Cardinality(DOMAIN list) = limit
           /\ \A y \in DOMAIN list : Requests(In(evs, r)) <= list[y].requests
  BY <1>2, <1>4, <1>5
<1> QED BY <1>6 DEF evs, asked

(* Who sees a room in the list is not denied its detail.                    *)
LEMMA ListedHaveDetails ==
  ASSUME TableOK, NEW w \in Windows, NEW asked \in Rooms \cup {NoRoom}, NEW limit, NEW list \in handleRooms(asked, w, limit),
         NEW r \in DOMAIN list
  PROVE  handleRoomDetail(r, w) # {}
<1>1. PICK x \in resolveScope(asked) : list \in QueryRooms(x, w, limit)
  BY DEF handleRooms
<1>2. PICK m \in Named(OfRoom(Within(rows, w), x), {"message_received"}) : r = m.room
  BY <1>1, ListFacts
<1>3. /\ m \in rows /\ m \in Within(rows, w) /\ x \in {m.room, NoRoom} /\ m.kind.name = "message_received"
  BY <1>2 DEF OfRoom, Within, Named
<1>7. r \in Rooms /\ r # NoRoom
  BY <1>2, <1>3, RowFacts DEF OfTracker
<1>4. Unrestricted \/ r \in profile.rooms
  <2> SUFFICES ASSUME ~Unrestricted PROVE r \in profile.rooms
    OBVIOUS
  <2>1. CASE asked = NoRoom
    <3>1. x \in profile.rooms
      BY <1>1, <1>7, <2>1, ScopeFacts
    <3>2. x # NoRoom
      BY <3>1, ProfileFacts, DashboardAssumption
    <3> QED BY <1>2, <1>3, <3>1, <3>2
  <2>2. CASE asked \in Rooms
    <3>1. x = asked /\ x \in profile.rooms
      BY <1>1, <2>2, ScopeFacts
    <3>2. x # NoRoom
      BY <2>2, <3>1, DashboardAssumption
    <3> QED BY <1>2, <1>3, <3>1, <3>2
  <2> QED BY <2>1, <2>2
<1>5. r \in resolveScope(r)
  BY <1>4, <1>7, ScopeFacts
<1>6. m \in OfRoom(Within(rows, w), r)
  BY <1>2, <1>3 DEF OfRoom
<1>8. PICK issues : issues \in queryRoomIssues(r, w)
  BY IssuesAnswered
<1> DEFINE Details(z) == {[counts |-> QueryRoomDetail(z, w), commands |-> queryRoomCommands(z, w), issues |-> i] :
                            i \in queryRoomIssues(z, w)}
<1>9. Details(r) # {}
  BY <1>8
<1>10. r \in {y \in resolveScope(r) : OfRoom(Within(rows, w), y) # {}}
  BY <1>5, <1>6
<1>11. handleRoomDetail(r, w) = UNION {Details(z) : z \in {y \in resolveScope(r) : OfRoom(Within(rows, w), y) # {}}}
  BY DEF handleRoomDetail
<1> QED
  <2> HIDE DEF Details
  <2> QED BY <1>9, <1>10, <1>11

(* The commands of the rows that completed, and how many of them each has.  *)
LEMMA UsageOf ==
  ASSUME NEW ms, NEW u, u = Usage(ms), NEW done, done = Named(ms, {"command_succeeded", "command_failed"})
  PROVE  /\ DOMAIN u = {m.kind.command : m \in done}
         /\ \A c \in DOMAIN u : u[c].requests = Cardinality({m \in done : m.kind.command = c})
BY DEF Usage

(* The commands share out what was completed: the sum over any of them is   *)
(* the number of their rows, or there were a smallest set it is not true of.*)
LEMMA SumOfUsage ==
  ASSUME NEW ms, IsFiniteSet(ms), NEW u, u = Usage(ms)
  PROVE  Requested(u) = Completed(ms)
<1>1. PICK done : done = Named(ms, {"command_succeeded", "command_failed"})
  OBVIOUS
<1>2. IsFiniteSet(done)
  BY <1>1, Part DEF Named
<1>3. PICK C : C = DOMAIN u
  OBVIOUS
<1>4. C = {m.kind.command : m \in done} /\ \A c \in C : u[c].requests = Cardinality({m \in done : m.kind.command = c})
  BY <1>1, <1>3, UsageOf
<1>5. IsFiniteSet(C)
  <2> DEFINE f == [m \in done |-> m.kind.command]
  <2>1. DOMAIN f = done /\ C = {f[x] : x \in DOMAIN f} /\ f \in [DOMAIN f -> {f[x] : x \in DOMAIN f}]
    BY <1>4
  <2> HIDE DEF f
  <2> QED BY <1>2, <2>1, ImageIsFinite
<1> DEFINE Of(s) == {m \in done : m.kind.command \in s}
           F(g) == [s \in SUBSET C |->
                      IF s = {} THEN 0 ELSE u[CHOOSE x \in s : TRUE].requests + g[s \ {CHOOSE x \in s : TRUE}]]
           counted == [s \in SUBSET C |-> Cardinality(Of(s))]
           h == CHOOSE g : g = F(g)
<1>6. \A s : IsFiniteSet(Of(s)) /\ Cardinality(Of(s)) \in Nat
  BY <1>2, Part
<1>7. Cardinality(Of({})) = 0
  BY FS_EmptySet
<1>8. ASSUME NEW s \in SUBSET C, s # {}
      PROVE  LET x == CHOOSE x \in s : TRUE
             IN  x \in s /\ s \ {x} \in SUBSET C /\ Cardinality(Of(s)) = u[x].requests + Cardinality(Of(s \ {x}))
  <2>1. PICK x : x = CHOOSE y \in s : TRUE
    OBVIOUS
  <2>2. x \in s
    BY <1>8, <2>1
  <2> DEFINE A == {m \in done : m.kind.command = x}
             B == Of(s \ {x})
  <2>3. A \subseteq Of(s) /\ B \subseteq Of(s) /\ A \cap B = {} /\ A \cup B = Of(s)
    BY <2>2
  <2>4. Cardinality(A) + Cardinality(B) = Cardinality(Of(s))
    <3> HIDE DEF A, B, Of
    <3> QED BY <1>6, <2>3, TwoParts
  <2>5. u[x].requests = Cardinality(A)
    BY <1>4, <2>2
  <2> QED BY <2>1, <2>2, <2>4, <2>5
<1>9. counted = F(counted)
  <2> HIDE DEF Of
  <2>1. ASSUME NEW s \in SUBSET C
        PROVE  counted[s] = IF s = {} THEN 0 ELSE u[CHOOSE x \in s : TRUE].requests + counted[s \ {CHOOSE x \in s : TRUE}]
    BY <1>7, <1>8
  <2> QED BY <2>1
<1>10. h = F(h)
  <2> HIDE DEF counted, F
  <2> QED BY <1>9
<1>11. DOMAIN h = SUBSET C
       /\ \A s \in SUBSET C : h[s] = IF s = {} THEN 0 ELSE u[CHOOSE x \in s : TRUE].requests + h[s \ {CHOOSE x \in s : TRUE}]
  <2> HIDE DEF h
  <2> QED BY <1>10
<1> DEFINE differ == {s \in SUBSET C : h[s] # Cardinality(Of(s))}
           sizes == {Cardinality(s) : s \in differ}
<1>12. \A s \in SUBSET C : IsFiniteSet(s) /\ Cardinality(s) \in Nat
  BY <1>5, Part
<1>13. differ = {}
  <2> SUFFICES ASSUME differ # {} PROVE FALSE
    OBVIOUS
  <2> HIDE DEF h, Of
  <2>1. sizes \subseteq Nat /\ sizes # {}
    BY <1>12
  <2>2. Min(sizes) \in sizes /\ \A n \in sizes : Min(sizes) <= n
    <3> HIDE DEF sizes
    <3> QED BY <2>1, Least
  <2>3. PICK s \in differ : Cardinality(s) = Min(sizes)
    BY <2>2
  <2>4. s # {}
    BY <1>7, <1>11, <2>3
  <2>5. PICK x : x = CHOOSE y \in s : TRUE
    OBVIOUS
  <2>6. x \in s /\ s \ {x} \in SUBSET C /\ Cardinality(Of(s)) = u[x].requests + Cardinality(Of(s \ {x}))
    BY <1>8, <2>3, <2>4, <2>5
  <2>7. Cardinality(s \ {x}) = Cardinality(s) - 1 /\ Cardinality(s) \in Nat
    BY <1>12, <2>3, <2>6, FS_RemoveElement
  <2>8. s \ {x} \notin differ
    <3> SUFFICES ASSUME s \ {x} \in differ PROVE FALSE
      OBVIOUS
    <3>1. Min(sizes) <= Cardinality(s \ {x})
      BY <2>2
    <3> HIDE DEF sizes, differ
    <3> QED BY <2>3, <2>7, <3>1
  <2>9. h[s \ {x}] = Cardinality(Of(s \ {x}))
    BY <2>6, <2>8
  <2>10. h[s] = u[x].requests + h[s \ {x}]
    BY <1>11, <2>3, <2>4, <2>5
  <2> QED BY <2>3, <2>6, <2>9, <2>10
<1>14. h[C] = Cardinality(Of(C))
  BY <1>13
<1>15. Of(C) = done
  BY <1>4
<1>16. Requested(u) = h[C]
  <2>1. Requested(u) = (CHOOSE g : g = [s \in SUBSET C |->
                            IF s = {} THEN 0
                            ELSE u[CHOOSE x \in s : TRUE].requests + g[s \ {CHOOSE x \in s : TRUE}]])[C]
    BY <1>3 DEF Requested, MapThenSumSet, MapThenFoldSet
  <2> QED BY <2>1, Zenon
<1> QED
  BY <1>1, <1>14, <1>15, <1>16 DEF Completed

(* A limited choice of issues has no more of a name than there are, and all *)
(* of them if it is not full.                                               *)
LEMMA IssuesShown ==
  ASSUME TableOK, NEW r \in Rooms, NEW w, NEW issues \in queryRoomIssues(r, w), NEW name \in RoomIssues,
         NEW ms, ms = In(Within(rows, w), r)
  PROVE  /\ Cardinality(Named(issues, {name})) <= Cardinality(Named(ms, {name}))
         /\ Cardinality(Named(issues, {name})) = Cardinality(Named(ms, {name})) \/ Cardinality(issues) = IssueLimit
<1> DEFINE all == In(Named(Within(rows, w), RoomIssues \cup {"coupang_refresh_failed"}), r)
<1>1. issues \subseteq all /\ (issues # all => Cardinality(issues) = IssueLimit)
  BY DEF queryRoomIssues, Top
<1>2. Named(all, {name}) = Named(ms, {name})
  BY DEF Named, In
<1>3. IsFiniteSet(Named(ms, {name}))
  <2>1. Named(ms, {name}) \subseteq rows
    BY DEF Named, In, Within
  <2> QED BY <2>1, RowFacts, Part
<1>4. Named(issues, {name}) \subseteq Named(ms, {name})
  BY <1>1, <1>2 DEF Named
<1> QED BY <1>1, <1>2, <1>3, <1>4, Part

(* List, detail, reliability and features count the same rows of the room.  *)
LEMMA DetailsAgree ==
  ASSUME TableOK, NEW w \in Windows, NEW r \in Rooms, NEW detail \in handleRoomDetail(r, w)
  PROVE  DetailAgrees(r, w, detail)
<1> DEFINE Of(x, shownIssues) == [counts |-> QueryRoomDetail(x, w), commands |-> queryRoomCommands(x, w), issues |-> shownIssues]
<1>0. PICK x \in resolveScope(r) : \E i \in queryRoomIssues(x, w) : detail = Of(x, i)
  BY DEF handleRoomDetail
<1>1. PICK issues \in queryRoomIssues(x, w) : detail = Of(x, issues)
  BY <1>0
<1>2. x = r /\ r \in resolveScope(r) /\ resolveScope(r) = {r} /\ resolveScope(NoRoom) \subseteq {r, NoRoom}
  BY <1>1, ScopeFacts
<1>3. PICK ms : ms = OfRoom(Within(rows, w), r)
  OBVIOUS
<1>4. /\ ms = In(Within(rows, w), r) /\ IsFiniteSet(ms)
      /\ In(ms, r) = ms /\ In(OfRoom(Within(rows, w), NoRoom), r) = ms
  <2>1. r # NoRoom
    BY DashboardAssumption
  <2>2. ms = In(Within(rows, w), r) /\ ms \subseteq rows
    BY <1>3, <2>1 DEF OfRoom, Within, In
  <2>3. IsFiniteSet(ms)
    BY <2>2, RowFacts, Part
  <2> QED BY <1>3, <2>1, <2>2, <2>3 DEF OfRoom, In
<1>5. detail.counts = Counts(ms) /\ detail.commands = Usage(ms) /\ detail.issues = issues
  BY <1>1, <1>2, <1>3, <1>4 DEF QueryRoomDetail, queryRoomCommands
<1>6. ASSUME NEW asked \in {r, NoRoom}, NEW limit \in {OverviewLimit, RoomLimit}
      PROVE  /\ resolveScope(asked) # {} => handleRooms(asked, w, limit) # {}
             /\ \A list \in handleRooms(asked, w, limit) : ListAgrees(r, list, limit, detail.counts)
  <2>1. limit \in Nat
    BY DashboardAssumption
  <2>2. resolveScope(asked) # {} => handleRooms(asked, w, limit) # {}
    BY <2>1, RoomsAnswered DEF handleRooms
  <2>3. ASSUME NEW list \in handleRooms(asked, w, limit)
        PROVE  ListAgrees(r, list, limit, detail.counts)
    <3>1. PICK y \in {r, NoRoom} : list \in QueryRooms(y, w, limit)
      BY <1>2, <1>6 DEF handleRooms
    <3>2. PICK all : all = OfRoom(Within(rows, w), y)
      OBVIOUS
    <3>3. In(all, r) = ms
      BY <1>3, <1>4, <3>1, <3>2
    <3>4. PICK came : came = {m.room : m \in Named(all, {"message_received"})}
      OBVIOUS
    <3>5. /\ \A z \in DOMAIN list : list[z] = Counts(In(all, z))
          /\ \A z \in came \ DOMAIN list :
               Cardinality(DOMAIN list) = limit /\ \A v \in DOMAIN list : Requests(In(all, z)) <= list[v].requests
      BY <3>1, <3>2, <3>4, ListFacts
    <3>6. detail.counts.requests = Requests(ms)
      BY <1>5 DEF Counts
    <3>7. CASE r \in DOMAIN list
      BY <1>5, <3>3, <3>5, <3>7 DEF ListAgrees
    <3>8. CASE r \notin DOMAIN list /\ r \in came
      BY <3>3, <3>5, <3>6, <3>8 DEF ListAgrees
    <3>9. CASE r \notin DOMAIN list /\ r \notin came
      <4>1. Named(ms, {"message_received"}) = {}
        BY <3>3, <3>4, <3>9 DEF Named, In
      <4>2. Requests(ms) = 0
        BY <4>1, FS_EmptySet DEF Requests
      <4> QED BY <3>6, <3>9, <4>2 DEF ListAgrees
    <3> QED BY <3>7, <3>8, <3>9
  <2> QED BY <2>2, <2>3
<1>7. ASSUME NEW reliability \in handleReliability(r, w)
      PROVE  /\ reliability.total = detail.counts.completed /\ reliability.count["command_failed"] = detail.counts.errors
             /\ \A name \in DOMAIN reliability.count :
                  /\ Cardinality(Named(detail.issues, {name})) <= reliability.count[name]
                  /\ Cardinality(Named(detail.issues, {name})) = reliability.count[name] \/ Cardinality(detail.issues) = IssueLimit
  <2>1. reliability = QueryReliability(r, w)
    BY <1>2, <1>7 DEF handleReliability
  <2> DEFINE names == {"command_failed", "rate_limited", "access_denied", "reply_failed", "transport_overload"}
  <2>2. /\ reliability.total = Completed(ms)
        /\ reliability.count = [name \in names |-> Cardinality(Named(ms, {name}))]
    BY <1>3, <2>1 DEF QueryReliability
  <2>3. DOMAIN reliability.count = names /\ \A name \in names : reliability.count[name] = Cardinality(Named(ms, {name}))
    BY <2>2
  <2>4. names \subseteq RoomIssues /\ "command_failed" \in names
    BY DEF RoomIssues
  <2> HIDE DEF names
  <2>5. \A name \in names :
          /\ Cardinality(Named(issues, {name})) <= Cardinality(Named(ms, {name}))
          /\ Cardinality(Named(issues, {name})) = Cardinality(Named(ms, {name})) \/ Cardinality(issues) = IssueLimit
    BY <1>1, <1>2, <1>4, <2>4, IssuesShown
  <2> QED BY <1>5, <2>2, <2>3, <2>4, <2>5 DEF Counts, FailedOf
<1>9. ASSUME NEW features \in handleFeatures(r, w)
      PROVE  /\ features.usage = detail.commands
             /\ Requested(features.usage) = detail.counts.completed
  <2>1. features.usage = Usage(ms)
    BY <1>2, <1>3, <1>9 DEF handleFeatures, QueryFeatureUsage
  <2>2. Requested(features.usage) = Completed(ms)
    BY <1>4, <2>1, SumOfUsage
  <2> QED BY <1>5, <2>1, <2>2 DEF Counts
<1> QED
  BY <1>6, <1>7, <1>9 DEF DetailAgrees

(* A command that ends was started before: its activation is counted with   *)
(* it, unless it is of a day before.                                        *)
LEMMA FunnelNarrows ==
  ASSUME TableOK, NEW rolled \in RolledUp, NEW w \in Windows, NEW r \in Rooms
  PROVE  FunnelAgrees(rolled, r, w)
<1> SUFFICES ASSUME NEW funnel \in handleProductFunnel(rolled, r, w)
             PROVE  funnel.conversion + funnel.churn <= funnel.activation + Cardinality(UnderWay(rolled, r, w))
  BY DEF FunnelAgrees
<1>1. funnel = QueryProductFunnel(rolled, r, w)
  BY ScopeFacts DEF handleProductFunnel
<1>2. PICK last \in 0 .. MaxRows : rolled = {m \in rows : m.id <= last}
  BY DEF RolledUp
<1>3. PICK ms : ms = InDays(OfAudience(rolled, r), w)
  OBVIOUS
<1>4. ms \subseteq rolled /\ ms \subseteq rows /\ IsFiniteSet(rows) /\ r # NoRoom
  BY <1>2, <1>3, RowFacts, DashboardAssumption DEF InDays, OfAudience, OfRoom
<1> DEFINE A == Named(ms, {"conversion"})
           B == Named(ms, {"churn_signal"})
           E == Named(ms, Endings)
           S == Named(ms, {"activation"})
           U == UnderWay(rolled, r, w)
<1>5. funnel.activation = Cardinality(S) /\ funnel.conversion = Cardinality(A) /\ funnel.churn = Cardinality(B)
  BY <1>1, <1>3 DEF QueryProductFunnel
<1>6. /\ A \cup B = E /\ A \cap B = {} /\ E \subseteq ms /\ S \subseteq ms
      /\ U \subseteq rows
  BY <1>2 DEF Named, Endings, UnderWay, InDays, In
<1>7. IsFiniteSet(E) /\ IsFiniteSet(S) /\ IsFiniteSet(U)
  <2> HIDE DEF E, S, U
  <2>1. E \subseteq rows /\ S \subseteq rows
    BY <1>4, <1>6
  <2> QED BY <1>4, <1>6, <2>1, Part
<1>8. Cardinality(A) + Cardinality(B) = Cardinality(E)
  <2> HIDE DEF A, B, E
  <2>1. A \subseteq E /\ B \subseteq E
    BY <1>6
  <2> QED BY <1>6, <1>7, <2>1, TwoParts
<1>9. ASSUME NEW m \in E \ U
      PROVE  \E start \in S : start.kind.run = m.kind.run
  <2>1. m \in rows /\ m \in rolled /\ m.kind.name \in Endings /\ m.id <= last /\ m \in ms
    BY <1>2, <1>4 DEF Named
  <2>2. m.kind = Kinds[m.id] /\ m.id \in 1 .. MaxRows /\ m.id <= Cardinality(rows)
    BY <2>1 DEF TableOK, RowsOK, PageTypeOK, Row
  <2>3. m.id \in DOMAIN Kinds
    BY <2>2, DashboardAssumption
  <2>4. PICK k \in 1 .. m.id : Kinds[k].name = "activation" /\ Kinds[k].run = Kinds[m.id].run
    BY <2>1, <2>2, <2>3, DashboardAssumption DEF RunsInOrder
  <2>5. Cardinality(rows) \in Nat
    BY <1>4, FS_CardinalityType
  <2>6. k \in 1 .. Cardinality(rows)
    BY <2>2, <2>4, <2>5
  <2>7. PICK start \in rows : start.id = k
    BY <2>6 DEF TableOK, RowsOK
  <2>8. start.kind = Kinds[k] /\ start.kind.run = m.kind.run /\ start.kind.name = "activation"
    BY <2>2, <2>4, <2>7 DEF TableOK, RowsOK
  <2>9. start.room = m.room
    BY <2>1, <2>7, <2>8 DEF TableOK, RowsOK
  <2>10. start \in rolled
    BY <1>2, <2>1, <2>2, <2>4, <2>7
  <2>11. m.room = r /\ profile.role = "customer" /\ m \in InDays(Named(In(rolled, r), Endings), w)
    BY <1>3, <1>4, <2>1 DEF InDays, OfAudience, OfRoom, Named, In
  <2>12. start \in InDays(rows, w)
    BY <1>9, <2>7, <2>8, <2>11 DEF UnderWay, Named
  <2>13. start \in ms
    BY <1>3, <2>9, <2>10, <2>11, <2>12 DEF InDays, OfAudience, OfRoom
  <2> QED BY <2>8, <2>13 DEF Named
<1>10. ASSUME NEW m \in E, NEW o \in E, m.kind.run = o.kind.run
       PROVE  m = o
  <2>1. m \in rows /\ o \in rows /\ m.kind.name \in Endings /\ o.kind.name \in Endings
    BY <1>4 DEF Named
  <2>2. m.kind = Kinds[m.id] /\ m.id \in 1 .. MaxRows /\ o.kind = Kinds[o.id] /\ o.id \in 1 .. MaxRows
    BY <2>1 DEF TableOK, RowsOK, PageTypeOK, Row
  <2>3. m.id \in DOMAIN Kinds /\ o.id \in DOMAIN Kinds
    BY <2>2, DashboardAssumption
  <2>4. m.id = o.id
    BY <1>10, <2>1, <2>2, <2>3, DashboardAssumption DEF RunsInOrder
  <2> QED BY <2>1, <2>4 DEF TableOK, RowsOK
<1>11. Cardinality(E \ U) <= Cardinality(S)
  <2> DEFINE f == [m \in E \ U |-> CHOOSE start \in S : start.kind.run = m.kind.run]
  <2> HIDE DEF E, U, S
  <2>1. \A m \in E \ U : f[m] \in S /\ f[m].kind.run = m.kind.run
    BY <1>9
  <2>2. f \in [E \ U -> S]
    BY <2>1
  <2>3. \A m \in E \ U, o \in E \ U : f[m] = f[o] => m = o
    <3> HIDE DEF f
    <3> SUFFICES ASSUME NEW m \in E \ U, NEW o \in E \ U, f[m] = f[o] PROVE m = o
      OBVIOUS
    <3>1. m.kind.run = o.kind.run
      BY <2>1
    <3> QED BY <1>10, <3>1
  <2>4. f \in Injection(E \ U, S)
    <3> HIDE DEF f
    <3> QED BY <2>2, <2>3 DEF Injection, IsInjective
  <2> HIDE DEF f
  <2> QED BY <1>7, <2>4, FS_Injection
<1>12. Cardinality(E) <= Cardinality(E \ U) + Cardinality(U)
  <2> HIDE DEF E, U, S
  <2>1. (E \ U) \cap (E \cap U) = {} /\ (E \ U) \cup (E \cap U) = E /\ E \ U \subseteq E /\ E \cap U \subseteq E
    OBVIOUS
  <2>2. Cardinality(E \ U) + Cardinality(E \cap U) = Cardinality(E)
    BY <1>7, <2>1, TwoParts
  <2>3. Cardinality(E \cap U) <= Cardinality(U) /\ Cardinality(E \cap U) \in Nat /\ Cardinality(U) \in Nat
    BY <1>7, Part
  <2>4. Cardinality(E \ U) \in Nat
    BY <1>7, <2>1, Part
  <2> QED BY <2>2, <2>3, <2>4
<1>13. Cardinality(S) \in Nat /\ Cardinality(U) \in Nat /\ Cardinality(E) \in Nat /\ Cardinality(E \ U) \in Nat
  <2> HIDE DEF E, U, S
  <2>1. E \ U \subseteq E
    OBVIOUS
  <2> QED BY <1>7, <2>1, Part
<1> HIDE DEF A, B, E, S, U
<1>14. Cardinality(A) + Cardinality(B) <= Cardinality(S) + Cardinality(U)
  BY <1>8, <1>11, <1>12, <1>13
<1> QED BY <1>5, <1>14 DEF U

(* Who came back has a first day, not after the return, and is among the    *)
(* users of that day.                                                       *)
LEMMA RetentionIsOfCohorts ==
  ASSUME TableOK, NEW rolled \in SUBSET rows, NEW w \in Windows, NEW r \in Rooms
  PROVE  RetentionAgrees(rolled, r, w)
<1> SUFFICES ASSUME NEW cells \in handleProductRetention(rolled, r, w), NEW cell \in cells
             PROVE  /\ cell.cohort <= cell.bucket /\ cell.retained <= cell.size
                    /\ \A cohorts \in handleProductCohorts(r, w) :
                         cell.cohort >= Day(clock - w) + 1 => cell.cohort \in DOMAIN cohorts /\ cell.size <= cohorts[cell.cohort]
  BY DEF RetentionAgrees
<1>1. resolveScope(r) \subseteq {r}
  BY ScopeFacts
<1>2. cells = QueryProductRetention(rolled, r, w)
  BY <1>1 DEF handleProductRetention
<1> DEFINE act == Named(OfAudience(rolled, r), {"activation"})
           backThen == Named(rolled, {"retention_return"})
<1>3. act = Named(OfAudience(rolled, r), {"activation"})
  OBVIOUS
<1> HIDE DEF act
<1>4. act \subseteq rolled /\ act \subseteq rows /\ IsFiniteSet(act) /\ \A m \in act : Day(m.at) \in Nat /\ m.at \in Nat
  <2>1. act \subseteq rolled
    BY <1>3 DEF Named, OfAudience, OfRoom
  <2>2. act \subseteq rows
    BY <2>1
  <2> QED BY <2>1, <2>2, RowFacts, Part
<1> DEFINE users == {m.kind.user : m \in act}
           First(u) == Min({Day(m.at) : m \in {n \in act : n.kind.user = u}})
           Back(u, d) == \E m \in backThen : m.kind.user = u /\ Day(m.at) = d /\ d >= First(u)
<1>5. PICK u \in users, ret \in InDays(backThen, w) :
        /\ cell = [cohort |-> First(u), bucket |-> Day(ret.at), size |-> Cardinality({v \in users : First(v) = First(u)}),
                   retained |-> Cardinality({v \in users : First(v) = First(u) /\ Back(v, Day(ret.at))})]
        /\ cell.retained > 0
  <2> DEFINE Cell(u, m) == [cohort |-> First(u), bucket |-> Day(m.at), size |-> Cardinality({v \in users : First(v) = First(u)}),
                            retained |-> Cardinality({v \in users : First(v) = First(u) /\ Back(v, Day(m.at))})]
             cs == {Cell(u, m) : u \in users, m \in InDays(backThen, w)}
  <2>1. QueryProductRetention(rolled, r, w) = {c \in cs : c.retained > 0}
    BY DEF QueryProductRetention, act
  <2>2. cell \in cs /\ cell.retained > 0
    <3> HIDE DEF cs
    <3> QED BY <1>2, <2>1
  <2>3. \E u \in users, m \in InDays(backThen, w) : cell = Cell(u, m)
    <3> HIDE DEF users, Cell
    <3> QED BY <2>2
  <2> HIDE DEF users, First, Back, cs
  <2> QED BY <2>2, <2>3
<1>6. IsFiniteSet(users)
  <2> DEFINE f == [m \in act |-> m.kind.user]
  <2>1. DOMAIN f = act /\ users = {f[x] : x \in DOMAIN f} /\ f \in [DOMAIN f -> {f[x] : x \in DOMAIN f}]
    OBVIOUS
  <2> HIDE DEF f
  <2> QED BY <1>4, <2>1, ImageIsFinite
<1>7. ASSUME NEW v \in users
      PROVE  First(v) \in Nat /\ \E m \in act : m.kind.user = v /\ Day(m.at) = First(v)
  <2> DEFINE days == {Day(m.at) : m \in {n \in act : n.kind.user = v}}
  <2>1. days \subseteq Nat /\ days # {}
    BY <1>4
  <2>2. Min(days) \in days
    <3> HIDE DEF days
    <3> QED BY <2>1, Least
  <2> QED BY <2>1, <2>2
<1> HIDE DEF First
<1> DEFINE size == {v \in users : First(v) = First(u)}
           back == {v \in size : Back(v, Day(ret.at))}
<1>8. cell.cohort = First(u) /\ cell.bucket = Day(ret.at) /\ cell.size = Cardinality(size) /\ cell.retained = Cardinality(back)
  <2>1. {v \in users : First(v) = First(u) /\ Back(v, Day(ret.at))} = back
    OBVIOUS
  <2> HIDE DEF back, Back
  <2> QED BY <1>5, <2>1
<1>9. IsFiniteSet(size) /\ Cardinality(size) \in Nat /\ Cardinality(back) <= Cardinality(size) /\ (Cardinality(back) = 0 <=> back = {})
  <2>1. size \subseteq users /\ back \subseteq size
    OBVIOUS
  <2> HIDE DEF size, back, users
  <2> QED BY <1>6, <2>1, Part
<1>10. First(u) <= Day(ret.at)
  <2>1. back # {}
    BY <1>5, <1>8, <1>9
  <2>2. PICK v \in size : Back(v, Day(ret.at))
    BY <2>1
  <2>3. First(v) = First(u) /\ Day(ret.at) >= First(v)
    BY <2>2
  <2>4. Day(ret.at) \in Nat /\ First(u) \in Nat
    <3>1. ret \in rows
      BY DEF InDays, Named
    <3> QED BY <1>7, <3>1, RowFacts
  <2> QED BY <2>3, <2>4
<1>11. ASSUME NEW cohorts \in handleProductCohorts(r, w), First(u) >= Day(clock - w) + 1
       PROVE  First(u) \in DOMAIN cohorts /\ Cardinality(size) <= cohorts[First(u)]
  <2>1. PICK ms : ms = Named(Within(OfAudience(rows, r), w), {"activation"})
    OBVIOUS
  <2>2. cohorts = [d \in {Day(m.at) : m \in ms} |-> Cardinality({m.kind.user : m \in {n \in ms : Day(n.at) = d}})]
    BY <1>1, <1>11, <2>1 DEF handleProductCohorts, QueryProductCohorts
  <2>3. ms \subseteq rows
    BY <2>1 DEF Named, Within, OfAudience, OfRoom
  <2>4. ASSUME NEW m \in act, Day(m.at) = First(u)
        PROVE  m \in ms
    <3>1. clock \in Nat /\ w \in Nat /\ m.at \in Nat
      BY <1>4, RowFacts, DashboardAssumption
    <3>2. Day(m.at) \in Int /\ Day(clock - w) \in Int /\ (m.at <= clock - w => Day(m.at) <= Day(clock - w))
      BY <3>1, LaterDay
    <3>3. m.at > clock - w
      BY <1>11, <2>4, <3>1, <3>2
    <3> QED BY <1>3, <2>1, <3>3 DEF Named, Within, OfAudience, OfRoom
  <2>5. PICK day : day = {n \in ms : Day(n.at) = First(u)}
    OBVIOUS
  <2>6. IsFiniteSet(day)
    BY <2>3, <2>5, RowFacts, Part
  <2>7. size \subseteq {m.kind.user : m \in day}
    <3> SUFFICES ASSUME NEW v \in size PROVE \E m \in day : m.kind.user = v
      OBVIOUS
    <3>1. PICK m \in act : m.kind.user = v /\ Day(m.at) = First(u)
      BY <1>7
    <3> QED BY <2>4, <2>5, <3>1
  <2>8. IsFiniteSet({m.kind.user : m \in day})
    <3> DEFINE f == [m \in day |-> m.kind.user]
    <3>1. DOMAIN f = day /\ {m.kind.user : m \in day} = {f[x] : x \in DOMAIN f} /\ f \in [DOMAIN f -> {f[x] : x \in DOMAIN f}]
      OBVIOUS
    <3> HIDE DEF f
    <3> QED BY <2>6, <3>1, ImageIsFinite
  <2>9. Cardinality(size) <= Cardinality({m.kind.user : m \in day})
    <3> HIDE DEF size
    <3> QED BY <2>7, <2>8, Part
  <2>10. First(u) \in {Day(m.at) : m \in ms}
    <3>1. PICK m \in act : Day(m.at) = First(u)
      BY <1>7
    <3> QED BY <2>4, <3>1
  <2> QED BY <2>2, <2>5, <2>9, <2>10
<1> QED
  BY <1>8, <1>9, <1>10, <1>11

(* All that the panels say, of any table.                                   *)
LEMMA FiguresOfTable ==
  ASSUME TableOK
  PROVE  FiguresAgree
<1>1. \A w \in Windows : \A asked \in Rooms \cup {NoRoom}, limit \in {OverviewLimit, RoomLimit} :
        \A list \in handleRooms(asked, w, limit) : \A r \in DOMAIN list : handleRoomDetail(r, w) # {}
  BY ListedHaveDetails
<1>2. \A w \in Windows : \A r \in Rooms : \A detail \in handleRoomDetail(r, w) : DetailAgrees(r, w, detail)
  BY DetailsAgree
<1>3. ASSUME NEW rolled \in RolledUp, NEW w \in Windows
      PROVE  /\ DaysCovered(rolled, w)
             /\ \A r \in Rooms : RetentionAgrees(rolled, r, w) /\ FunnelAgrees(rolled, r, w)
  <2>1. rolled \in SUBSET rows
    BY DEF RolledUp
  <2> QED BY <2>1, TrendCovers, RetentionIsOfCohorts, FunnelNarrows
<1>4. \A w \in Windows : PartsOfStats(w)
  BY StatsAreParts
<1> QED
  BY <1>1, <1>2, <1>3, <1>4, OverviewIsSound DEF FiguresAgree

(* The figures that the panels show agree, whatever table the page finds.   *)
THEOREM FiguresAreConsistent == PageSpec => []FiguresAgree
<1>1. PageIInv => FiguresAgree
  BY FiguresOfTable DEF PageIInv, TableOK
<1> QED
  BY <1>1, PageInductive, PTL
===============================================================================
