-------------------------------- MODULE Balance --------------------------------
(***************************************************************************)
(* What the user has: the free balance, what is reserved in goals and what *)
(* the venues are worth, each in the currency the user reads it in.        *)
(*                                                                         *)
(* Incomes, expenses, contributions, exchanges between currencies and      *)
(* transfers to venues are kept in tables of their own, and every figure   *)
(* is summed from several of them by code of its own. Only some of those   *)
(* operations change what the user has; the others move it around.         *)
(*                                                                         *)
(* One goal; venues are manual ones nobody tracks coins on, worth what was *)
(* put in (VenueSync has live ones, Transfers the coins, and the steps in  *)
(* which a transfer is answered or edited). A rate is how many units one   *)
(* dollar buys. Amounts are exact: rounding to cents is left out.          *)
(***************************************************************************)
EXTENDS Money, Functions

CONSTANTS
    RowIds,      \* primary keys the database may hand out, over all tables
    Venues,      \* the user's manual venues
    GoalIn,      \* the currency of the goal
    Amounts      \* amounts of rows, multiples of every rate

ASSUME BalanceAssumption ==
    /\ NULL \notin Venues /\ GoalIn \in All
    /\ Amounts \subseteq Nat /\ \A a \in Amounts, q \in Quotes : a % q = 0
    /\ IsFiniteSet(Venues) /\ IsFiniteSet(Currencies)

VARIABLES
    live,       \* the live rates, or NULL while there are none
    txns,       \* expenses and incomes
    archived,   \* whether the goal is archived
    contribs,   \* goal_contributions of the goal
    exchanges,  \* currency_exchanges
    transfers,  \* investing_transfers
    adjusted,   \* investing_adjustments
    own         \* history: what the user has of each currency; venues are in dollars

balanceVars == <<live, txns, archived, contribs, exchanges, transfers, adjusted, own>>

Txn          == [id: RowIds, kind: {"income", "expense"}, currency: All, amount: Amounts]
Contribution == [id: RowIds, amount: Int]
Exchange     == [id: RowIds, from: All, fromAmount: Amounts, to: All, toAmount: Amounts]
Transfer     == [id: RowIds, venue: Venues, out: BOOLEAN, peer: {"LEDGER", "VENUE", "EXTERNAL"},
                 peerVenue: Venues \cup {NULL}, currency: All, amount: Amounts,
                 usd: Nat \cup {NULL}]
Adjustment   == [id: RowIds, venue: Venues, usd: Int]

Used == {r.id : r \in txns} \cup {r.id : r \in contribs} \cup {r.id : r \in exchanges}
        \cup {r.id : r \in transfers} \cup {r.id : r \in adjusted}

BalanceTypeOK ==
    /\ live \in [Currencies -> Quotes] \cup {NULL}
    /\ txns \subseteq Txn /\ archived \in BOOLEAN /\ contribs \subseteq Contribution
    /\ exchanges \subseteq Exchange /\ transfers \subseteq Transfer /\ adjusted \subseteq Adjustment
    /\ \A r \in transfers : r.peer = "VENUE" <=> r.peerVenue # NULL
    /\ own \in [All -> Int]

BalanceInit ==
    /\ live = NULL
    /\ txns = {} /\ archived = FALSE /\ contribs = {} /\ exchanges = {} /\ transfers = {}
    /\ adjusted = {}
    /\ own = [c \in All |-> 0]

SumOf(f)  == SumFunctionOnSet(f, DOMAIN f)
OrZero(x) == IF x = NULL THEN 0 ELSE x

Signed(row) == IF row.kind = "income" THEN row.amount ELSE -row.amount

\* What a transfer brings to its venue.
Brought(row) == IF row.out THEN -OrZero(row.usd) ELSE OrZero(row.usd)

-----------------------------------------------------------------------------
(* The free balance, by currency *)

\* reservedRows: only of goals that are not archived.
Reserved == IF archived THEN 0 ELSE SumOf([r \in contribs |-> r.amount])

MovementsByCurrency(c) ==
    SumOf([r \in {x \in exchanges : x.to = c} |-> r.toAmount])
    - SumOf([r \in {x \in exchanges : x.from = c} |-> r.fromAmount])

\* transferRows: what went out of the wallet, less what came back to it.
TransferRows(c) ==
    SumOf([r \in {x \in transfers : x.peer = "LEDGER" /\ x.currency = c} |->
              IF r.out THEN -r.amount ELSE r.amount])

Net(c) ==
    SumOf([r \in {x \in txns : x.currency = c} |-> Signed(r)])
    - (IF c = GoalIn THEN Reserved ELSE 0)
    + MovementsByCurrency(c) - TransferRows(c)

Rate(c) == IF c = usd THEN 1 ELSE live[c]

\* convertWithRates
Convert(amount, from, to) ==
    IF from = to THEN amount ELSE IF live = NULL THEN NULL ELSE (amount \div Rate(from)) * Rate(to)

\* sumIntoBase: what is in the base currency needs no rate, and one rate missing is no sum.
SumIntoBase(amounts, base) ==
    IF \E c \in DOMAIN amounts : Convert(amounts[c], c, base) = NULL THEN NULL
    ELSE SumOf([c \in DOMAIN amounts |-> Convert(amounts[c], c, base)])

\* getBalance: currencies nothing is held in are left out.
FreeBalance(base) ==
    LET held == {c \in All : Net(c) # 0} IN SumIntoBase([c \in held |-> Net(c)], base)

InGoals(base) ==
    SumIntoBase([c \in IF archived THEN {} ELSE {GoalIn} |-> Reserved], base)

-----------------------------------------------------------------------------
(* The venues, in dollars *)

\* Faulty version: a transfer between two venues is seen from one of them only.
OwnSide(v) == SumOf([r \in {x \in transfers : x.venue = v} |-> Brought(r)])

\* netTransferredUsdByVenue: the other venue reads the same row mirrored.
NetTransferred(v) ==
    SumOf([r \in {x \in transfers : x.venue = v} |-> Brought(r)])
    + SumOf([r \in {x \in transfers : x.peer = "VENUE" /\ x.peerVenue = v} |-> -Brought(r)])

AdjustmentTotal(v) == SumOf([r \in {x \in adjusted : x.venue = v} |-> r.usd])

\* valueOf and resultOf, of a manual venue without tracked coins
ValueOf(v)  == NetTransferred(v) + AdjustmentTotal(v)
ResultOf(v) == ValueOf(v) - NetTransferred(v)

TotalValueUsd == SumOf([v \in Venues |-> ValueOf(v)])

InExchanges(base) == Convert(TotalValueUsd, usd, base)

\* listVenues: the totals above the list of venues.
ListVenues ==
    LET items == {[venue |-> v, transferred |-> NetTransferred(v), value |-> ValueOf(v)] : v \in Venues}
        total == SumOf([i \in items |-> i.value])
    IN [items |-> items, total |-> total,
        invested |-> SumOf([i \in items |-> i.transferred]),
        result |-> total - SumOf([i \in items |-> i.transferred])]

-----------------------------------------------------------------------------
(* Actions *)

Gain(c, amount) == own' = [own EXCEPT ![c] = @ + amount]

RatesMove(rates) ==
    /\ live' = rates
    /\ UNCHANGED <<txns, archived, contribs, exchanges, transfers, adjusted, own>>

CreateTxn(row) ==
    /\ row.id \notin Used
    /\ txns' = txns \cup {row}
    /\ Gain(row.currency, Signed(row))
    /\ UNCHANGED <<live, archived, contribs, exchanges, transfers, adjusted>>

RemoveTxn(row) ==
    /\ txns' = txns \ {row}
    /\ Gain(row.currency, -Signed(row))
    /\ UNCHANGED <<live, archived, contribs, exchanges, transfers, adjusted>>

\* Goals has the checks; here a withdrawal only finds what is in the goal.
Contribute(i, amount) ==
    /\ i \notin Used /\ SumOf([r \in contribs |-> r.amount]) + amount >= 0
    /\ contribs' = contribs \cup {[id |-> i, amount |-> amount]}
    /\ UNCHANGED <<live, txns, archived, exchanges, transfers, adjusted, own>>

RemoveContribution(row) ==
    /\ contribs' = contribs \ {row}
    /\ UNCHANGED <<live, txns, archived, exchanges, transfers, adjusted, own>>

ArchiveGoal(on) ==
    /\ archived' = on
    /\ UNCHANGED <<live, txns, contribs, exchanges, transfers, adjusted, own>>

\* An exchange takes one side and gives the other.
Exchanged(o, row, sign) ==
    LET taken == [o EXCEPT ![row.from] = @ - sign * row.fromAmount]
    IN [taken EXCEPT ![row.to] = @ + sign * row.toAmount]

CreateExchange(row) ==
    /\ row.id \notin Used /\ row.from # row.to
    /\ exchanges' = exchanges \cup {row}
    /\ own' = Exchanged(own, row, 1)
    /\ UNCHANGED <<live, txns, archived, contribs, transfers, adjusted>>

UpdateExchange(old, row) ==
    /\ row.id = old.id /\ row.from # row.to
    /\ exchanges' = (exchanges \ {old}) \cup {row}
    /\ own' = Exchanged(Exchanged(own, old, -1), row, 1)
    /\ UNCHANGED <<live, txns, archived, contribs, transfers, adjusted>>

RemoveExchange(row) ==
    /\ exchanges' = exchanges \ {row}
    /\ own' = Exchanged(own, row, -1)
    /\ UNCHANGED <<live, txns, archived, contribs, transfers, adjusted>>

\* toUsd: at the rate of the day, else the live one; without either it is worth nothing to us.
ToUsd(amount, c) ==
    IF c = usd THEN {amount} ELSE {amount \div q : q \in Quotes} \cup (IF live = NULL THEN {NULL} ELSE {})

\* What the user has moves between the wallet and the venues, or in and out of a venue.
Transferred(o, row, sign) ==
    LET in == sign * (IF row.out THEN -1 ELSE 1)
        venues == [o EXCEPT ![usd] = @ + in * OrZero(row.usd)]
    IN CASE row.peer = "LEDGER"   -> [venues EXCEPT ![row.currency] = @ - in * row.amount]
         [] row.peer = "VENUE"    -> o
         [] row.peer = "EXTERNAL" -> venues

CreateTransfer(row) ==
    /\ row.id \notin Used /\ row.peerVenue # row.venue
    /\ transfers' = transfers \cup {row}
    /\ own' = Transferred(own, row, 1)
    /\ UNCHANGED <<live, txns, archived, contribs, exchanges, adjusted>>

RemoveTransfer(row) ==
    /\ transfers' = transfers \ {row}
    /\ own' = Transferred(own, row, -1)
    /\ UNCHANGED <<live, txns, archived, contribs, exchanges, adjusted>>

AddAdjustment(row) ==
    /\ row.id \notin Used
    /\ adjusted' = adjusted \cup {row}
    /\ Gain(usd, row.usd)
    /\ UNCHANGED <<live, txns, archived, contribs, exchanges, transfers>>

RemoveAdjustment(row) ==
    /\ adjusted' = adjusted \ {row}
    /\ Gain(usd, -row.usd)
    /\ UNCHANGED <<live, txns, archived, contribs, exchanges, transfers>>

Create(i) ==
    \/ \E kind \in {"income", "expense"}, c \in All, a \in Amounts :
          CreateTxn([id |-> i, kind |-> kind, currency |-> c, amount |-> a])
    \/ \E a \in Amounts : Contribute(i, a) \/ Contribute(i, -a)
    \/ \E from, to \in All, a, b \in Amounts :
          CreateExchange([id |-> i, from |-> from, fromAmount |-> a, to |-> to, toAmount |-> b])
    \/ \E v \in Venues, out \in BOOLEAN, c \in All, a \in Amounts :
          \E dollars \in ToUsd(a, c) :
             LET row(peer, w) == [id |-> i, venue |-> v, out |-> out, peer |-> peer,
                                  peerVenue |-> w, currency |-> c, amount |-> a,
                                  usd |-> dollars]
             IN \/ \E peer \in {"LEDGER", "EXTERNAL"} : CreateTransfer(row(peer, NULL))
                \/ \E w \in Venues : CreateTransfer(row("VENUE", w))
    \/ \E v \in Venues, a \in Amounts, sign \in {-1, 1} :
          AddAdjustment([id |-> i, venue |-> v, usd |-> sign * a])

Change ==
    \/ \E r \in txns : RemoveTxn(r)
    \/ \E r \in contribs : RemoveContribution(r)
    \/ \E r \in exchanges :
          \/ RemoveExchange(r)
          \/ \E from, to \in All, a, b \in Amounts :
                UpdateExchange(r, [id |-> r.id, from |-> from, fromAmount |-> a,
                                   to |-> to, toAmount |-> b])
    \/ \E r \in transfers : RemoveTransfer(r)
    \/ \E r \in adjusted : RemoveAdjustment(r)
    \/ \E on \in BOOLEAN : ArchiveGoal(on)

BalanceNext ==
    \/ \E rates \in [Currencies -> Quotes] \cup {NULL} : RatesMove(rates)
    \/ \E i \in RowIds : Create(i)
    \/ Change

BalanceSpec == BalanceInit /\ [][BalanceNext]_balanceVars

-----------------------------------------------------------------------------
(* Properties *)

OwnWorth(base) == SumIntoBase(own, base)

\* Nothing of the ledger is in another currency than the base.
OnlyIn(base) ==
    /\ \A r \in txns : r.currency = base
    /\ exchanges = {}
    /\ \A r \in transfers : r.peer = "LEDGER" => r.currency = base
    /\ GoalIn = base \/ contribs = {}

\* Money that is moved is neither gained nor lost: free balance, goals and venues together are
\* worth what was earned less what was spent, whatever was exchanged, reserved or sent to a venue
\* and whichever way rates moved since (transactions.service.ts:136-215,
\* investing-transfers.service.ts:558-608). Without rates a ledger in one currency still has its
\* balance. The list of venues says the same as the balance, and calls only corrections a result.
NetWorthKept ==
    /\ live # NULL =>
          \A base \in All :
              FreeBalance(base) + InGoals(base) + InExchanges(base) = OwnWorth(base)
    /\ \A base \in All : OnlyIn(base) => FreeBalance(base) = Net(base)
    /\ ListVenues.total = TotalValueUsd
    /\ ListVenues.result = SumOf([r \in adjusted |-> r.usd])
=============================================================================
