--------------------------------- MODULE Rates ---------------------------------
(***************************************************************************)
(* Exchange rates: the live ones and their cache, and the table of one     *)
(* rate a day, which a nightly job and a backfill of the past write.       *)
(*                                                                         *)
(* Time is counted in half days, so that a cache may be half a day old and *)
(* still be of yesterday.                                                  *)
(***************************************************************************)
EXTENDS Money, FiniteSetsExt

CONSTANTS
    Amount,   \* the amount of an operation, a multiple of every rate
    TTL,      \* how long live rates are kept, in half days
    MaxTime   \* bound of the clock

ASSUME RatesAssumption ==
    /\ Amount \in Nat /\ \A q \in Quotes : Amount % q = 0
    /\ {TTL, MaxTime} \subseteq Nat

VARIABLES
    now,      \* the clock
    market,   \* the live rates as their source has them
    cache,    \* CurrencyService.cache: rates, and when they were fetched
    table,    \* fx_rates: the rate of a day and a currency, NULL where there is no row
    capture   \* the nightly job in progress

rateVars == <<now, market, cache, table, capture>>

Today == now \div 2
Days  == 0..(MaxTime \div 2)
Quote == [Currencies -> Quotes \cup {NULL}]

RatesTypeOK ==
    /\ now \in 0..MaxTime
    /\ market \in [Currencies -> Quotes]
    /\ cache \in [rates: Quote, at: Nat] \cup {NULL}
    /\ table \in [Days -> Quote]
    /\ capture \in [pc: {"idle", "create", "refresh"}, day: Days, rates: Quote]

NoQuote == [c \in Currencies |-> NULL]
NoCapture == [pc |-> "idle", day |-> 0, rates |-> NoQuote]

RatesInit ==
    /\ now = 0
    /\ market \in [Currencies -> Quotes]
    /\ cache = NULL
    /\ table = [d \in Days |-> NoQuote]
    /\ capture = NoCapture

-----------------------------------------------------------------------------
(* The rate of a day *)

Fresh == cache # NULL /\ now - cache.at < TTL

\* getRates: the cache, also an old one when fetching failed, else nothing.
Live(c) == IF cache = NULL THEN NULL ELSE cache.rates[c]

OnRecord(c, d) == {e \in Days : e <= d /\ table[e][c] # NULL}

\* rateOn: the newest row not later than the day, else the live rate.
RateOn(c, d) ==
    IF c = usd THEN 1
    ELSE IF OnRecord(c, d) # {} THEN table[Max(OnRecord(c, d))][c]
    ELSE Live(c)

\* convertOn, to dollars
InDollars(amount, c, d) ==
    LET rate == RateOn(c, d)
    IN IF c = usd THEN amount ELSE IF rate = NULL THEN NULL ELSE amount \div rate

\* Faulty version: nothing is carried into the range from before it.
NoSeed(c, from) == Live(c)

\* seedRates, and the fallback where there is none.
Seed(c, from) ==
    IF OnRecord(c, from - 1) # {} THEN table[Max(OnRecord(c, from - 1))][c] ELSE Live(c)

\* resolverFor: the rows of the range are read once, and the newest before it.
Resolve(c, d, from, to) ==
    LET inRange == {e \in OnRecord(c, d) : from <= e /\ e <= to}
    IN IF c = usd THEN 1
       ELSE IF inRange # {} THEN table[Max(inRange)][c]
       ELSE Seed(c, from)

-----------------------------------------------------------------------------
(* Actions *)

\* fetchRates when the cache is too old; a failed fetch leaves it as it is.
FetchRates ==
    /\ ~Fresh
    /\ cache' = [rates |-> market, at |-> now]
    /\ UNCHANGED <<now, market, table, capture>>

\* captureToday reads the clock and the live rates.
StartCapture ==
    /\ capture = NoCapture /\ cache # NULL
    /\ capture' = [pc |-> "create", day |-> Today, rates |-> cache.rates]
    /\ UNCHANGED <<now, market, cache, table>>

\* Rows of a day, where `taken` decides about those that are there already.
Inserted(day, rates) ==
    [table EXCEPT ![day] = [c \in Currencies |-> IF @[c] # NULL THEN @[c] ELSE rates[c]]]

Refreshed(day, rates) ==
    [table EXCEPT ![day] = [c \in Currencies |-> IF rates[c] # NULL THEN rates[c] ELSE @[c]]]

\* store: rows of the day that are there are skipped, and refreshed by a statement of its own.
CreateRows ==
    LET day == capture.day
    IN /\ capture.pc = "create"
       /\ table' = Inserted(day, capture.rates)
       /\ capture' = IF \E c \in Currencies : table[day][c] # NULL
                     THEN [capture EXCEPT !.pc = "refresh"] ELSE NoCapture
       /\ UNCHANGED <<now, market, cache>>

RefreshRows ==
    /\ capture.pc = "refresh"
    /\ table' = Refreshed(capture.day, capture.rates)
    /\ capture' = NoCapture
    /\ UNCHANGED <<now, market, cache>>

\* Faulty version: the history wins over what was captured.
HistoryWins(day, rates) == Refreshed(day, rates)

\* backfill keeps the rows there are.
Filled(day, rates) == Inserted(day, rates)

\* One day of the history, which has some of the currencies.
Backfill(day, rates) ==
    /\ day < Today
    /\ table' = Filled(day, rates)
    /\ UNCHANGED <<now, market, cache, capture>>

MarketMoves(c, quote) ==
    /\ market' = [market EXCEPT ![c] = quote]
    /\ UNCHANGED <<now, cache, table, capture>>

Tick ==
    /\ now < MaxTime
    /\ now' = now + 1
    /\ UNCHANGED <<market, cache, table, capture>>

Restart ==
    /\ cache' = NULL /\ capture' = NoCapture
    /\ UNCHANGED <<now, market, table>>

RatesNext ==
    \/ FetchRates \/ StartCapture \/ CreateRows \/ RefreshRows \/ Tick \/ Restart
    \/ \E day \in Days, rates \in Quote : Backfill(day, rates)
    \/ \E c \in Currencies, quote \in Quotes : MarketMoves(c, quote)
=============================================================================
