----------------------------- MODULE QuoteCaches -----------------------------
(***************************************************************************)
(* What is asked often and fetched from others: the hot list of stocks     *)
(* (internal/scraper/hotlist.go), the hot list of tokens with the coin     *)
(* cache behind it (coin_hotlist.go, coin_cache.go), and the caches whose  *)
(* entries age, of the weather and of the themes (weather_cache.go,        *)
(* theme_index.go).  They share no more than the USD/KRW rate: a behaviour *)
(* is about one of them, its poller, the handlers that look something up   *)
(* in it, and the feeds of prices and rates.  A coin is looked up where    *)
(* its quote is to be had: in the feeds of the exchanges, at CoinGecko, or *)
(* as a token.                                                             *)
(*                                                                         *)
(* A price is its version, the number of changes so far; an amount in KRW  *)
(* is the price and the rate it was computed from.  Polls come at any      *)
(* time: intervals and market hours do not matter to what is stored.  Zero *)
(* stands for what is not known.                                           *)
(***************************************************************************)
EXTENDS Integers, FiniteSets, Sequences, FiniteSetsExt, Functions

CONSTANTS
  Codes,        \* stocks, tokens, places or themes
  Lookups,      \* handlers that look one of them up, message after message
  IdleTimeout,  \* after which a hot list drops an entry
  TTL,          \* after which an entry of the other caches is stale
  MaxTime,     \* bound: time
  MaxPrice,     \* bound: versions of a price
  MaxRate,      \* bound: versions of the USD/KRW rate
  MaxCap        \* bound: versions of a market cap

ASSUME QuoteAssumption ==
  /\ {IdleTimeout, TTL, MaxTime, MaxPrice, MaxRate, MaxCap} \subseteq Nat /\ MaxPrice > 0

VARIABLES
  kind,       \* which cache this is
  time,
  price,      \* what the provider says of each code
  entries,    \* the entries of the cache, of some codes
  lookup,     \* of each lookup: where it is, its code and what it has
  poll,       \* the poller: the codes left, and what it has fetched
  dex,        \* CoinCache.dex, of some tokens
  coin,       \* what the alias of a coin says of it
  streams,    \* BinanceWS.conn and UpbitWS.conn: the exchanges connected
  cex,        \* CoinCache.cex of the coin: USD, KRW, kimchi premium, market cap
  gecko,      \* CoinGecko: whether it lists the coin, and the market cap
  rate,       \* the rate DunamuForex has
  forexRate,  \* CoinCache.forexRate
  newest,     \* history: the newest price of a code a lookup has answered
  overlapped  \* history: codes fetched while another fetch waited to be stored

coinVars == <<dex, coin, streams, cex, gecko, rate, forexRate>>
histVars == <<newest, overlapped>>
quoteVars == <<kind, time, price, entries, lookup, poll, coinVars, histVars>>

Hot == kind \in {"stock", "token"}
Unknown == [usd |-> 0, krw |-> <<0, 0>>]
Idle == [at |-> "idle", todo |-> {}, got |-> <<>>]
NotAsked == [at |-> "idle", code |-> "none", quote |-> Unknown, shared |-> FALSE, floor |-> 0,
             venue |-> "none", quantity |-> FALSE, due |-> FALSE]

(* The venue an alias prefers, if any, and whether it names a market of an  *)
(* exchange, a CoinGecko id and a contract.                                 *)
Coins == [prefers : {"none", "cex", "gecko", "dex"}, market : BOOLEAN, id : BOOLEAN, contract : BOOLEAN]
NotACoin == [prefers |-> "none", market |-> FALSE, id |-> FALSE, contract |-> FALSE]

(* The amount in KRW of a price in USD, once the rate is known.             *)
InKRW(usd) == IF forexRate > 0 /\ usd > 0 THEN <<usd, forexRate>> ELSE <<0, 0>>

(* What a fetch of a code brings.  The price of a stock comes from a second *)
(* call, whose error is ignored.                                            *)
Fetched(c) ==
  {[usd |-> p, krw |-> <<0, 0>>] : p \in {price[c]} \cup (IF kind = "stock" THEN {0} ELSE {})}

QuoteInit ==
  /\ kind \in {"stock", "token", "coin", "aging"}
  /\ time = 0 /\ price = [c \in Codes |-> 1]
  /\ entries = <<>>
  /\ lookup = [l \in Lookups |-> NotAsked]
  /\ poll = Idle
  /\ dex = <<>> /\ cex = [usd |-> 0, krw |-> 0, premium |-> <<0, 0, 0>>, cap |-> 0]
  /\ coin \in IF kind = "coin" THEN Coins ELSE {NotACoin}
  /\ streams = {} /\ gecko = [lists |-> FALSE, cap |-> 0]
  /\ rate = 0 /\ forexRate = 0
  /\ newest = [c \in Codes |-> 0] /\ overlapped = {}

Advance ==
  /\ kind # "coin" /\ time < MaxTime
  /\ time' = time + 1
  /\ UNCHANGED <<kind, price, entries, lookup, poll, coinVars, histVars>>

PriceMoves(c) ==
  /\ kind # "coin" /\ price[c] < MaxPrice
  /\ price' = [price EXCEPT ![c] = @ + 1]
  /\ UNCHANGED <<kind, time, entries, lookup, poll, coinVars, histVars>>

------------------------------------------------------------------------------
(* The entries.  A lookup that has found an entry holds the object itself:  *)
(* when the entry is dropped or replaced it goes on with the old one.       *)

Holding(l, c) == lookup[l].at = "touch" /\ lookup[l].code = c

Orphaned(c) ==
  [l \in Lookups |-> IF Holding(l, c) THEN [lookup[l] EXCEPT !.at = "answer", !.quote = entries[c].quote,
                                                             !.shared = entries[c].shared]
                     ELSE lookup[l]]

Put(map, c, value) == [d \in DOMAIN map \cup {c} |-> IF d = c THEN value ELSE map[d]]

(* Codes whose fetched quote somebody has not stored yet.                   *)
InHand == DOMAIN poll.got \cup {lookup[l].code : l \in {m \in Lookups : lookup[m].at \in {"store", "register"}}}

MutRegistered(c, quote, shared) ==  \* Defect: an entry that is there already stays
  IF c \in DOMAIN entries THEN entries ELSE Put(entries, c, [quote |-> quote, last |-> time, shared |-> shared])

(* Register, and Set of the caches that age: a new entry, used just now.    *)
Registered(c, quote, shared) ==
  Put(entries, c, [quote |-> quote, last |-> time, shared |-> shared])

------------------------------------------------------------------------------
(* A lookup.                                                                *)

(* The code is resolved from aliases, or by a search not modelled here.     *)
Ask(l, c) ==
  /\ kind # "coin" /\ lookup[l].at = "idle"
  /\ lookup' = [lookup EXCEPT ![l] = [NotAsked EXCEPT !.at = "get", !.code = c, !.floor = newest[c]]]
  /\ UNCHANGED <<kind, time, price, entries, poll, coinVars, histVars>>

Fresh(c) == time - entries[c].last <= TTL

(* Get under the read lock.                                                 *)
Find(l) ==
  LET c == lookup[l].code
      found == c \in DOMAIN entries /\ (Hot \/ Fresh(c))
  IN  /\ lookup[l].at = "get"
      /\ lookup' = [lookup EXCEPT ![l].at = IF ~found THEN "fetch" ELSE IF Hot THEN "touch" ELSE "answer",
                                  ![l].quote = IF found /\ ~Hot THEN entries[c].quote ELSE @]
      /\ UNCHANGED <<kind, time, price, entries, poll, coinVars, histVars>>

(* Get under the write lock: the entry was used just now.                   *)
Touched(c) == [entries EXCEPT ![c].last = time]

(* What the entry of a stock holds is read after the lock is gone: beside   *)
(* the poller that writes it the read may bring a mixture that does not     *)
(* parse, and the lookup goes on as if nothing was found.                   *)
Touch(l) ==
  LET c == lookup[l].code IN
  /\ lookup[l].at = "touch"
  /\ entries' = Touched(c)
  /\ \/ lookup' = [lookup EXCEPT ![l].at = "answer", ![l].quote = entries[c].quote, ![l].shared = entries[c].shared]
     \/ kind = "stock" /\ c \in DOMAIN poll.got /\ lookup' = [lookup EXCEPT ![l].at = "fetch"]
  /\ UNCHANGED <<kind, time, price, poll, coinVars, histVars>>

Fetch(l) ==
  LET c == lookup[l].code IN
  /\ lookup[l].at = "fetch"
  /\ \E q \in Fetched(c) : lookup' = [lookup EXCEPT ![l].at = "store", ![l].quote = q]
  /\ overlapped' = overlapped \cup (InHand \cap {c})
  /\ UNCHANGED <<kind, time, price, entries, poll, coinVars, newest>>

(* A failed fetch: the caches that age answer with what they have.          *)
FetchFails(l) ==
  LET c == lookup[l].code IN
  /\ lookup[l].at = "fetch"
  /\ lookup' = [lookup EXCEPT ![l] =
       IF ~Hot /\ c \in DOMAIN entries THEN [@ EXCEPT !.at = "answer", !.quote = entries[c].quote]
       ELSE NotAsked]
  /\ UNCHANGED <<kind, time, price, entries, poll, coinVars, histVars>>

(* The quote of a token gets its amount in KRW and goes to the coin cache,  *)
(* which from now on shares the object with the lookup.                     *)
SetDEX(l) ==
  LET c == lookup[l].code
      q == [lookup[l].quote EXCEPT !.krw = InKRW(lookup[l].quote.usd)]
  IN  /\ lookup[l].at = "store" /\ kind = "token"
      /\ dex' = Put(dex, c, q)
      /\ lookup' = [m \in Lookups |-> IF m = l THEN [lookup[l] EXCEPT !.at = "register", !.quote = q, !.shared = TRUE]
                                      ELSE IF lookup[m].code = c THEN [lookup[m] EXCEPT !.shared = FALSE] ELSE lookup[m]]
      /\ entries' = [e \in DOMAIN entries |-> IF e = c THEN [entries[e] EXCEPT !.shared = FALSE] ELSE entries[e]]
      /\ UNCHANGED <<kind, time, price, poll, coin, streams, cex, gecko, rate, forexRate, histVars>>

Register(l) ==
  LET c == lookup[l].code IN
  /\ lookup[l].at = IF kind = "token" THEN "register" ELSE "store"
  /\ entries' = Registered(c, lookup[l].quote, lookup[l].shared)
  /\ lookup' = [(IF c \in DOMAIN entries THEN Orphaned(c) ELSE lookup) EXCEPT ![l].at = "answer"]
  /\ UNCHANGED <<kind, time, price, poll, coinVars, histVars>>

AnswerQuote(l) ==
  LET c == lookup[l].code IN
  /\ lookup[l].at = "answer"
  /\ lookup' = [lookup EXCEPT ![l] = NotAsked]
  /\ newest' = IF kind = "coin" THEN newest ELSE [newest EXCEPT ![c] = Max({@, lookup[l].quote.usd})]
  /\ UNCHANGED <<kind, time, price, entries, poll, coinVars, overlapped>>

(* A coin: where its quote is to be had, the preferred venue first.         *)
Traded == cex.usd > 0 \/ cex.krw > 0

Try(venue) ==
  CASE venue = "cex" -> coin.market /\ Traded
    [] venue = "gecko" -> coin.id \/ gecko.lists
    [] venue = "dex" -> coin.contract
    [] OTHER -> FALSE

selectQuoteVenue ==
  LET order == <<coin.prefers, "cex", "gecko", "dex">>
      hits == {i \in 1 .. 4 : Try(order[i])}
  IN  IF hits = {} THEN "none" ELSE order[Min(hits)]

(* A message asks for the quote or for the worth of a quantity.             *)
AskCoin(l) ==
  /\ kind = "coin" /\ lookup[l].at = "idle" /\ selectQuoteVenue # "none"
  /\ \E quantity \in BOOLEAN :
       lookup' = [lookup EXCEPT ![l] =
         [NotAsked EXCEPT !.venue = selectQuoteVenue, !.quantity = quantity, !.due = Traded,
            !.at = IF selectQuoteVenue # "gecko" THEN "answer" ELSE IF quantity THEN "price" ELSE "recheck"]]
  /\ UNCHANGED <<kind, time, price, entries, poll, coinVars, histVars>>

MutRecheck == FALSE  \* Defect: the preferred venue is believed

(* Whether by now the cache has a quote under the symbol of the coin.       *)
Recheck == Traded

lookupCoinGecko(l) ==
  /\ lookup[l].at = "recheck"
  /\ lookup' = [lookup EXCEPT ![l].at = IF Recheck THEN "answer" ELSE "price",
                              ![l].venue = IF Recheck THEN "cex" ELSE @]
  /\ UNCHANGED <<kind, time, price, entries, poll, coinVars, histVars>>

FetchPrice(l) ==
  /\ lookup[l].at = "price"
  /\ \/ lookup' = [lookup EXCEPT ![l].at = "answer"]
     \/ lookup' = [lookup EXCEPT ![l] = NotAsked]
  /\ UNCHANGED <<kind, time, price, entries, poll, coinVars, histVars>>

LookupStep(l) ==
  \/ \E c \in Codes : Ask(l, c)
  \/ AskCoin(l) \/ lookupCoinGecko(l) \/ FetchPrice(l)
  \/ Find(l) \/ Touch(l) \/ Fetch(l) \/ FetchFails(l) \/ SetDEX(l) \/ Register(l) \/ AnswerQuote(l)

------------------------------------------------------------------------------
(* The poller of a hot list, which also drops idle entries between polls.   *)

PollAll ==
  /\ Hot /\ poll = Idle /\ entries # <<>>
  /\ poll' = [Idle EXCEPT !.at = "polling", !.todo = DOMAIN entries]
  /\ UNCHANGED <<kind, time, price, entries, lookup, coinVars, histVars>>

(* One stock, or one batch of tokens, of which some may be missing.         *)
FetchBatch ==
  /\ poll.at = "polling" /\ poll.got = <<>> /\ poll.todo # {}
  /\ \E cs \in IF kind = "stock" THEN {{c} : c \in poll.todo} ELSE SUBSET poll.todo :
       /\ \E got \in [cs -> UNION {Fetched(c) : c \in cs}] :
            /\ \A c \in cs : got[c] \in Fetched(c)
            /\ poll' = [poll EXCEPT !.got = got, !.todo = IF kind = "stock" THEN @ \ cs ELSE {}]
       /\ overlapped' = overlapped \cup (InHand \cap cs)
  /\ UNCHANGED <<kind, time, price, entries, lookup, coinVars, newest>>

FetchBatchFails ==
  /\ poll.at = "polling" /\ poll.got = <<>> /\ poll.todo # {}
  /\ \E cs \in IF kind = "stock" THEN {{c} : c \in poll.todo} ELSE {poll.todo} :
       poll' = [poll EXCEPT !.todo = @ \ cs]
  /\ UNCHANGED <<kind, time, price, entries, lookup, coinVars, histVars>>

(* A token keeps the amount in KRW it had, in a new object.                 *)
PollStores ==
  /\ poll.got # <<>>
  /\ entries' = [c \in DOMAIN entries |->
       IF c \in DOMAIN poll.got
       THEN [entries[c] EXCEPT !.quote = [poll.got[c] EXCEPT !.krw = entries[c].quote.krw], !.shared = FALSE]
       ELSE entries[c]]
  /\ poll' = [poll EXCEPT !.got = <<>>]
  /\ UNCHANGED <<kind, time, price, lookup, coinVars, histVars>>

PollEnds ==
  /\ poll.at = "polling" /\ poll.todo = {} /\ poll.got = <<>>
  /\ poll' = Idle
  /\ UNCHANGED <<kind, time, price, entries, lookup, coinVars, histVars>>

(* One entry of a round: the round drops all that are idle.                 *)
EvictIdle(c) ==
  /\ Hot /\ poll = Idle /\ c \in DOMAIN entries
  /\ time - entries[c].last > IdleTimeout
  /\ entries' = Restrict(entries, DOMAIN entries \ {c})
  /\ lookup' = Orphaned(c)
  /\ UNCHANGED <<kind, time, price, poll, coinVars, histVars>>

Poller == PollAll \/ FetchBatch \/ FetchBatchFails \/ PollStores \/ PollEnds \/ \E c \in Codes : EvictIdle(c)

------------------------------------------------------------------------------
(* The feeds of the coin cache.                                             *)

(* A stream, once dialled and subscribed to, brings updates until a read    *)
(* fails or nothing comes for long enough.  It is dialled again after a     *)
(* while, as often as it takes; the quote of the cache stays meanwhile.     *)
Connect(exchange) ==
  /\ kind = "coin" /\ exchange \notin streams
  /\ streams' = streams \cup {exchange}
  /\ UNCHANGED <<kind, time, price, entries, lookup, poll, dex, coin, cex, gecko, rate, forexRate, histVars>>

Disconnect(exchange) ==
  /\ exchange \in streams
  /\ streams' = streams \ {exchange}
  /\ UNCHANGED <<kind, time, price, entries, lookup, poll, dex, coin, cex, gecko, rate, forexRate, histVars>>

MutRecalc(q, r) == q  \* Defect: nothing is computed anew

recalcKimchi(q, r) ==
  IF q.usd > 0 /\ q.krw > 0 /\ r > 0 THEN [q EXCEPT !.premium = <<q.usd, q.krw, r>>] ELSE q

OnBinanceUpdate ==
  /\ "binance" \in streams /\ cex.usd < MaxPrice
  /\ cex' = recalcKimchi([cex EXCEPT !.usd = @ + 1], forexRate)
  /\ UNCHANGED <<kind, time, price, entries, lookup, poll, dex, coin, streams, gecko, rate, forexRate, histVars>>

OnUpbitUpdate ==
  /\ "upbit" \in streams /\ cex.krw < MaxPrice
  /\ cex' = recalcKimchi([cex EXCEPT !.krw = @ + 1], forexRate)
  /\ UNCHANGED <<kind, time, price, entries, lookup, poll, dex, coin, streams, gecko, rate, forexRate, histVars>>

(* DunamuForex.FetchRate: the first source that answers.                    *)
FetchRate ==
  /\ kind \in {"coin", "token"} /\ rate < MaxRate
  /\ rate' = rate + 1
  /\ UNCHANGED <<kind, time, price, entries, lookup, poll, dex, coin, streams, cex, gecko, forexRate, histVars>>

(* Every quote of the cache is computed anew, also where its object is used *)
(* elsewhere.                                                               *)
UpdateForexRate ==
  LET Again(q) == [q EXCEPT !.krw = <<q.usd, rate>>] IN
  /\ kind \in {"coin", "token"} /\ rate > 0
  /\ forexRate' = rate
  /\ cex' = recalcKimchi(cex, rate)
  /\ dex' = [c \in DOMAIN dex |-> Again(dex[c])]
  /\ entries' = [c \in DOMAIN entries |-> IF entries[c].shared THEN [entries[c] EXCEPT !.quote = Again(@)] ELSE entries[c]]
  /\ lookup' = [l \in Lookups |-> IF lookup[l].shared THEN [lookup[l] EXCEPT !.quote = Again(@)] ELSE lookup[l]]
  /\ UNCHANGED <<kind, time, price, poll, coin, streams, gecko, rate, histVars>>

FetchIDList ==
  /\ kind = "coin" /\ ~gecko.lists
  /\ gecko' = [gecko EXCEPT !.lists = TRUE]
  /\ UNCHANGED <<kind, time, price, entries, lookup, poll, dex, coin, streams, cex, rate, forexRate, histVars>>

(* The coins with the largest caps, whose ids are kept as well.             *)
FetchMarketCaps ==
  /\ kind = "coin" /\ gecko.cap < MaxCap
  /\ gecko' = [lists |-> TRUE, cap |-> gecko.cap + 1]
  /\ UNCHANGED <<kind, time, price, entries, lookup, poll, dex, coin, streams, cex, rate, forexRate, histVars>>

(* A cap goes to the quote that is there: one that comes later is without.  *)
UpdateMarketCap ==
  /\ gecko.cap > 0 /\ Traded
  /\ cex' = [cex EXCEPT !.cap = gecko.cap]
  /\ UNCHANGED <<kind, time, price, entries, lookup, poll, dex, coin, streams, gecko, rate, forexRate, histVars>>

Feeds ==
  \/ \E exchange \in {"binance", "upbit"} : Connect(exchange) \/ Disconnect(exchange)
  \/ FetchIDList \/ FetchMarketCaps \/ UpdateMarketCap \/ OnBinanceUpdate \/ OnUpbitUpdate \/ FetchRate \/ UpdateForexRate

QuoteNext ==
  \/ Advance
  \/ \E c \in Codes : PriceMoves(c)
  \/ \E l \in Lookups : LookupStep(l)
  \/ Poller
  \/ Feeds

QuoteSpec == QuoteInit /\ [][QuoteNext]_quoteVars
------------------------------------------------------------------------------
(* What the cache holds and answers is never older than what a lookup that  *)
(* ended before had answered, unless fetches of the code overlapped: no     *)
(* fetch is numbered, and of two the older may be stored last.              *)
NeverBackwards ==
  \A l \in Lookups :
    lookup[l].at = "answer" /\ lookup[l].quote.usd > 0 /\ lookup[l].code \notin overlapped =>
      lookup[l].quote.usd >= lookup[l].floor

(* What the coin cache has computed is of its own prices and of its rate,   *)
(* whichever of the feeds and lookups came last.                            *)
CacheAgrees ==
  /\ cex.usd > 0 /\ cex.krw > 0 /\ forexRate > 0 => cex.premium = <<cex.usd, cex.krw, forexRate>>
  /\ \A c \in DOMAIN dex : forexRate > 0 => dex[c].krw = <<dex[c].usd, forexRate>>

(* A coin the feeds had a quote of when it was asked for is not answered    *)
(* from CoinGecko, whichever venue its alias prefers.  A quantity is: there *)
(* the preference is final.                                                 *)
ExchangeFirst ==
  \A l \in Lookups :
    lookup[l].at = "answer" /\ lookup[l].venue = "gecko" /\ lookup[l].due => lookup[l].quantity

(* "Preserve KRW price from previous data (will be recalculated by          *)
(* CoinCache)" (coin_hotlist.go:182): the KRW amount of a token is of its   *)
(* USD price.                                                               *)
TokenPricesAgree ==
  \A l \in Lookups :
    LET q == lookup[l].quote IN lookup[l].at = "answer" /\ q.krw # <<0, 0>> => q.krw[1] = q.usd
------------------------------------------------------------------------------
(* The inductive invariant behind the properties, in parts.                 *)

Quote == [usd : 0 .. MaxPrice, krw : (0 .. MaxPrice) \X (0 .. MaxRate)]
ExchangeQuote ==
  [usd : 0 .. MaxPrice, krw : 0 .. MaxPrice, cap : 0 .. MaxCap,
   premium : (0 .. MaxPrice) \X (0 .. MaxPrice) \X (0 .. MaxRate)]
Entry == [quote : Quote, last : Nat, shared : BOOLEAN]
Places == {"idle", "get", "touch", "fetch", "store", "register", "answer", "recheck", "price"}
Venues == {"none", "cex", "gecko", "dex"}
Asked ==
  [at : Places, code : Codes \cup {"none"}, quote : Quote, shared : BOOLEAN, floor : 0 .. MaxPrice,
   venue : Venues, quantity : BOOLEAN, due : BOOLEAN]

QuoteTypeOK ==
  /\ kind \in {"stock", "token", "coin", "aging"} /\ time \in Nat
  /\ price \in [Codes -> 1 .. MaxPrice]
  /\ DOMAIN entries \subseteq Codes /\ \A c \in DOMAIN entries : entries[c] \in Entry
  /\ lookup \in [Lookups -> Asked]
  /\ poll = [at |-> poll.at, todo |-> poll.todo, got |-> poll.got]
  /\ poll.at \in {"idle", "polling"} /\ poll.todo \subseteq Codes
  /\ DOMAIN poll.got \subseteq Codes /\ \A c \in DOMAIN poll.got : poll.got[c] \in Quote
  /\ DOMAIN dex \subseteq Codes /\ \A c \in DOMAIN dex : dex[c] \in Quote
  /\ coin \in Coins /\ streams \subseteq {"binance", "upbit"}
  /\ cex \in ExchangeQuote
  /\ gecko \in [lists : BOOLEAN, cap : 0 .. MaxCap]
  /\ rate \in 0 .. MaxRate /\ forexRate \in 0 .. MaxRate
  /\ newest \in [Codes -> 0 .. MaxPrice] /\ overlapped \subseteq Codes

(* A lookup is of a code and only then has a price, or it is of the coin.   *)
CodesOK ==
  \A l \in Lookups :
    /\ lookup[l].at \in {"get", "touch", "fetch", "store", "register"} \/ lookup[l].quote.usd > 0 =>
         lookup[l].code \in Codes
    /\ lookup[l].at \in {"recheck", "price"} => lookup[l].quote.usd = 0

(* A lookup that found an entry holds one that is there: dropping it lets   *)
(* go of the lookup.                                                        *)
EntryHeld == \A l \in Lookups : lookup[l].at = "touch" => lookup[l].code \in DOMAIN entries

(* Nothing that is known of a code is newer than its price.                 *)
PricesOK ==
  \A c \in Codes :
    /\ newest[c] <= price[c]
    /\ c \in DOMAIN entries => entries[c].quote.usd <= price[c]
    /\ c \in DOMAIN poll.got => poll.got[c].usd <= price[c]
    /\ \A l \in Lookups : lookup[l].code = c => lookup[l].quote.usd <= price[c] /\ lookup[l].floor <= newest[c]

(* A quote is as new as all that was answered of the code, or is about to   *)
(* be, and as what is stored of it.                                         *)
AsNewAsAnswers(c, usd) ==
  usd > 0 =>
    /\ newest[c] <= usd
    /\ \A l \in Lookups : lookup[l].at = "answer" /\ lookup[l].code = c => lookup[l].quote.usd <= usd

AsNewAsEntry(c, usd) == usd > 0 /\ c \in DOMAIN entries => entries[c].quote.usd <= usd

Fetching(l, c) == lookup[l].at \in {"store", "register"} /\ lookup[l].code = c

(* Where no fetches of a code overlapped, one at most is under way, and     *)
(* what it brought is as new as anything else.                              *)
FetchesOK ==
  \A c \in Codes \ overlapped :
    /\ c \in DOMAIN entries => AsNewAsAnswers(c, entries[c].quote.usd)
    /\ c \in DOMAIN poll.got => AsNewAsAnswers(c, poll.got[c].usd) /\ AsNewAsEntry(c, poll.got[c].usd)
    /\ \A l \in Lookups : Fetching(l, c) =>
         /\ AsNewAsAnswers(c, lookup[l].quote.usd) /\ AsNewAsEntry(c, lookup[l].quote.usd)
         /\ c \notin DOMAIN poll.got
         /\ \A m \in Lookups : Fetching(m, c) => m = l

(* A token that is stored has a price.                                      *)
TokensPriced == kind = "token" => \A l \in Lookups : lookup[l].at = "store" => lookup[l].quote.usd > 0

(* A coin is asked for at CoinGecko only where the exchanges had no quote   *)
(* or of a quantity, and a quote of theirs stays.                           *)
VenuesOK ==
  \A l \in Lookups :
    /\ lookup[l].due => Traded
    /\ lookup[l].at = "price" /\ lookup[l].venue = "gecko" /\ lookup[l].due => lookup[l].quantity
    /\ lookup[l].at \in {"get", "touch", "fetch", "store", "register"} => lookup[l].venue = "none"

QuoteIInv ==
  /\ QuoteTypeOK /\ CodesOK /\ EntryHeld /\ PricesOK /\ FetchesOK /\ TokensPriced /\ VenuesOK
  /\ NeverBackwards /\ CacheAgrees /\ ExchangeFirst
==============================================================================
