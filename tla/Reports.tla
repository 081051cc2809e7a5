-------------------------------- MODULE Reports --------------------------------
(***************************************************************************)
(* Incomes and expenses, and the figures a period of them is reported by:  *)
(* the buckets of the dashboard, the breakdown by category, the lists and  *)
(* statistics of the bot, the notifications' recap of a month, the totals  *)
(* of a page of the list.  Each is the sum of the period's operations in   *)
(* the user's currency, every one at the rate of its own day, and each is  *)
(* computed by code of its own over the rates of Rates.                    *)
(*                                                                         *)
(* Operations are all of one amount, and of one category of each kind.     *)
(* An edit is one step here: Transfers has its handlers interleave.        *)
(***************************************************************************)
EXTENDS Rates

CONSTANTS
    Week,     \* days of the longer of the two granularities
    Ids       \* primary keys the database may hand out

ASSUME ReportsAssumption == Week \in Nat \ {0}

VARIABLE rows   \* expenses and incomes, told apart by their ids

reportVars == <<rateVars, rows>>

Kinds == {"income", "expense"}
Row   == [id: Ids, kind: Kinds, day: Days, currency: All, amount: Nat, usd: Int \cup {NULL}]

ReportsTypeOK ==
    /\ RatesTypeOK
    /\ rows \subseteq Row
    /\ \A r, s \in rows : r.id = s.id => r = s

ReportsInit == RatesInit /\ rows = {}

Found(kind, from, to) == {r \in rows : r.kind = kind /\ from <= r.day /\ r.day <= to}

-----------------------------------------------------------------------------
(* What operations are worth in the base currency *)

\* The rates a report looks up, all read at once.
ResolverFor(from, to) == [c \in All |-> [d \in Days |-> Resolve(c, d, from, to)]]

\* One in the base currency is taken as it is, another through its snapshot in dollars, else
\* through the rate of its day.
Worth(row, base, rate) ==
    LET own == rate[row.currency][row.day]
        dollars == IF row.usd # NULL THEN row.usd
                   ELSE IF own = NULL THEN NULL ELSE row.amount \div own
    IN IF row.currency = base THEN row.amount
       ELSE IF rate[base][row.day] = NULL \/ dollars = NULL THEN NULL
       ELSE dollars * rate[base][row.day]

\* historicalTotalInBase: no rate, no total.
TotalInBase(counted, base, rate) ==
    IF \E row \in counted : Worth(row, base, rate) = NULL THEN NULL
    ELSE MapThenSumSet(LAMBDA row : Worth(row, base, rate), counted)

Less(a, b) == IF a = NULL \/ b = NULL THEN NULL ELSE a - b

-----------------------------------------------------------------------------
(* The dashboard *)

\* bucketKey
Start(d, length) == d - (d % length)

\* The starts of the buckets from the one `from` falls into, up to `to`.
BuildBuckets(from, to, length) ==
    {d \in Days : d >= Start(from, length) /\ d <= to /\ d % length = 0}

AggregateSummary(found, buckets, length, base, rate) ==
    TotalInBase({row \in found : Start(row.day, length) \in buckets}, base, rate)

ExpenseSummary(from, to, length, base) ==
    AggregateSummary(Found("expense", from, to), BuildBuckets(from, to, length), length, base,
                     ResolverFor(from, to))

IncomeSummary(from, to, length, base) ==
    AggregateSummary(Found("income", from, to), BuildBuckets(from, to, length), length, base,
                     ResolverFor(from, to))

Summary(kind, from, to, length, base) ==
    IF kind = "expense" THEN ExpenseSummary(from, to, length, base)
    ELSE IncomeSummary(from, to, length, base)

\* The page of the list that shows the operations given; its rates reach from the first to the last.
PageTotals(items, base) ==
    LET days == {row.day : row \in items}
        rate == ResolverFor(Min(days), Max(days))
        total(kind) == TotalInBase({row \in items : row.kind = kind}, base, rate)
    IN [kind \in Kinds |-> total(kind)]

-----------------------------------------------------------------------------
(* Grouped by the database: one row for the operations of a day in one currency *)

\* The sum of snapshots leaves out those that are missing, as SUM does.
GroupSums(group, key) ==
    [currency |-> key[1], day |-> key[2],
     amount |-> MapThenSumSet(LAMBDA r : r.amount, group),
     usd |-> IF \A r \in group : r.usd = NULL THEN NULL
             ELSE MapThenSumSet(LAMBDA r : r.usd, {r \in group : r.usd # NULL})]

\* Faulty version: the operations of different days are one group.
ByCurrency(found) ==
    {GroupSums({r \in found : r.currency = c}, <<c, Max({r.day : r \in found})>>) :
        c \in {r.currency : r \in found}}

Grouped(found) ==
    {GroupSums({r \in found : <<r.currency, r.day>> = key}, key) :
        key \in {<<r.currency, r.day>> : r \in found}}

\* The rates of both periods are read together, from the earlier one to today or later.
ExpenseStatsByCategory(from, to, compareFrom, compareTo, base) ==
    LET rate == ResolverFor(Min({from, compareFrom}), Max({to, compareTo, Today}))
    IN TotalInBase(Grouped(Found("expense", from, to)), base, rate)

IncomeStatsByCategory(from, to, compareFrom, compareTo, base) ==
    LET rate == ResolverFor(Min({from, compareFrom}), Max({to, compareTo, Today}))
    IN TotalInBase(Grouped(Found("income", from, to)), base, rate)

StatsByCategory(kind, from, to, compareFrom, compareTo, base) ==
    IF kind = "expense" THEN ExpenseStatsByCategory(from, to, compareFrom, compareTo, base)
    ELSE IncomeStatsByCategory(from, to, compareFrom, compareTo, base)

\* The bot's statistics: in total, or operation by operation.
ExpenseStatSummary(from, to, base) ==
    TotalInBase(Grouped(Found("expense", from, to)), base, ResolverFor(from, to))

IncomeStatSummary(from, to, base) ==
    TotalInBase(Grouped(Found("income", from, to)), base, ResolverFor(from, to))

StatSummary(kind, from, to, base) ==
    IF kind = "expense" THEN ExpenseStatSummary(from, to, base) ELSE IncomeStatSummary(from, to, base)

ExpenseStatDetails(from, to, base) ==
    TotalInBase(Found("expense", from, to), base, ResolverFor(from, to))

IncomeStatDetails(from, to, base) ==
    TotalInBase(Found("income", from, to), base, ResolverFor(from, to))

StatDetails(kind, from, to, base) ==
    IF kind = "expense" THEN ExpenseStatDetails(from, to, base) ELSE IncomeStatDetails(from, to, base)

\* computeMonthSummary, of the month of the days given; its rates reach one day further.
MonthSummary(from, to, base) ==
    LET rate == ResolverFor(from, to + 1)
        total(kind) == TotalInBase(Grouped(Found(kind, from, to)), base, rate)
    IN [income |-> total("income"), expense |-> total("expense"),
        net |-> Less(total("income"), total("expense"))]

-----------------------------------------------------------------------------
(* Actions *)

\* The amount in dollars is taken at the rate of the operation's day.
Operation(i, kind, day, c) ==
    [id |-> i, kind |-> kind, day |-> day, currency |-> c, amount |-> Amount,
     usd |-> InDollars(Amount, c, day)]

AddExpense(i, day, c) ==
    /\ \A r \in rows : r.id # i
    /\ rows' = rows \cup {Operation(i, "expense", day, c)}
    /\ UNCHANGED rateVars

AddIncome(i, day, c) ==
    /\ \A r \in rows : r.id # i
    /\ rows' = rows \cup {Operation(i, "income", day, c)}
    /\ UNCHANGED rateVars

\* The snapshot is taken again when the currency or the day changes.
Rewrite(r, day, c) ==
    /\ <<day, c>> # <<r.day, r.currency>>
    /\ rows' = (rows \ {r}) \cup {Operation(r.id, r.kind, day, c)}
    /\ UNCHANGED rateVars

UpdateExpense(r, day, c) == r.kind = "expense" /\ Rewrite(r, day, c)
UpdateIncome(r, day, c)  == r.kind = "income" /\ Rewrite(r, day, c)

ReportsNext ==
    \/ RatesNext /\ UNCHANGED rows
    \/ \E day \in Days, c \in All :
          \/ \E i \in Ids : AddExpense(i, day, c) \/ AddIncome(i, day, c)
          \/ \E r \in rows : UpdateExpense(r, day, c) \/ UpdateIncome(r, day, c)

ReportsSpec == ReportsInit /\ [][ReportsNext]_reportVars

-----------------------------------------------------------------------------
(* Properties *)

Ranges == {r \in Days \X Days : r[1] <= r[2]}

\* What a period is worth when the rate of every day is looked up by itself.
ExactRates == [c \in All |-> [d \in Days |-> RateOn(c, d)]]

Exact(kind, from, to, base) == TotalInBase(Found(kind, from, to), base, ExactRates)

\* "A figure does not depend on which of the two found it" (fx-rates.service.ts:101-104): the
\* summary in any buckets, the details and a page's totals count every operation of the period
\* once, at the rate rateOn gives, and are absent together: neither the rates read once for the
\* range nor the buckets (summary.util.ts:38-54, 153-170) change the total.
ReportsAgree ==
    \A r \in Ranges, base \in All, kind \in Kinds :
        LET from == r[1]
            to == r[2]
            exact == Exact(kind, from, to, base)
            items == Found("income", from, to) \cup Found("expense", from, to)
        IN /\ \A length \in {1, Week} : Summary(kind, from, to, length, base) = exact
           /\ StatDetails(kind, from, to, base) = exact
           /\ items # {} => PageTotals(items, base)[kind] = exact

\* Some operation of a day has its snapshot in dollars and another one of it has none.
Mixed(kind, from, to) ==
    \E r, s \in Found(kind, from, to) :
        r.currency = s.currency /\ r.day = s.day /\ r.usd = NULL /\ s.usd # NULL

\* "Overall total - one aggregation across all rows (matches the web dashboard)"
\* (expenses.service.ts:201): what is grouped by day and currency first - the bot's statistics, the
\* categories, the recap of a month - is what the dashboard says of the period.  Not so when a
\* group has both operations with and without a snapshot: the latter then count for nothing.
GroupedAgree ==
    \A r \in Ranges, base \in All, kind \in Kinds :
        LET from == r[1]
            to == r[2]
            exact == Exact(kind, from, to, base)
        IN Mixed(kind, from, to)
           \/ /\ StatSummary(kind, from, to, base) = exact
              /\ MonthSummary(from, to, base)[kind] = exact
              /\ \A before \in {p \in Ranges : p[2] < from} \cup {r} :
                    StatsByCategory(kind, from, to, before[1], before[2], base) = exact

\* The nightly job still writes the rates of a day that has ended.
LateCapture == capture.pc # "idle" /\ capture.day < Today

\* The rates a report of the range needs are on record, those of the days themselves or older ones.
Known(r, base) ==
    \A row \in rows : r[1] <= row.day /\ row.day <= r[2] =>
        \A c \in {base, row.currency} \ {usd} : OnRecord(c, row.day) # {}

\* "A closed period answers the same number a year from now" (currency.service.ts:138-139), once
\* the rates it needs are on record: it moves only when a backfill adds a day that had no row, or
\* when the nightly job that began before midnight refreshes the day after it.
ClosedPeriodsStay ==
    [][rows' = rows /\ ~LateCapture =>
         \A r \in {p \in Ranges : p[2] < Today}, base \in All, kind \in Kinds :
             Known(r, base) =>
                \/ Summary(kind, r[1], r[2], 1, base)' = Summary(kind, r[1], r[2], 1, base)
                \/ \E c \in Currencies, d \in Days :
                       d <= r[2] /\ table[d][c] = NULL /\ table'[d][c] # NULL]_reportVars
=============================================================================
