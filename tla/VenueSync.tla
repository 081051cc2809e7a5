------------------------------- MODULE VenueSync -------------------------------
(***************************************************************************)
(* What a connected exchange account is worth and what it has earned: the  *)
(* runs that read its two balances onto the venue that stands for it, and  *)
(* import its deposits and withdrawals as transfers of that venue.         *)
(*                                                                         *)
(* A live venue's result is its value less the baseline photographed on    *)
(* its first read and everything moved in or out since.  Money can move on *)
(* the exchange between any two steps of a run, a run may die between any  *)
(* two, other runs overlap it, and it may outlive its account.             *)
(* A movement is of one unit of money; FUND starts with one.               *)
(***************************************************************************)
EXTENDS Integers, FiniteSets, FiniteSetsExt

CONSTANTS
    Movements,          \* deposits and withdrawals
    Venues,             \* primary keys the database may hand out
    Window, Overlap,    \* WINDOW_MS and OVERLAP_MS of the import, in ticks
    Lateness,           \* the exchange lists a movement within so many ticks
    Softness,           \* how far before a window what it returns may be stamped
    MaxTime, MaxEvents, \* bounds of the clock, and of what happens on the exchange
    NULL

Time == 0..MaxTime + 1
Half == {"trading", "fund"}
Money == -1..MaxEvents + 1

Movement == [out: BOOLEAN, at: Time \cup {NULL}, listed: BOOLEAN]
Venue    == [connected: BOOLEAN, balance: Money \cup {NULL}, opening: Money \cup {NULL},
             fund: Money \cup {NULL}, openingFund: Money \cup {NULL},
             openingFundAt: Time \cup {NULL}, syncedTo: Time \cup {NULL}]

ASSUME VenueAssumption ==
    /\ IsFiniteSet(Movements)
    /\ Window \in Nat \ {0} /\ Overlap \in Nat
    /\ Lateness \in 0..Overlap /\ Softness \in Nat
    /\ MaxTime \in Nat /\ MaxEvents \in Nat
    /\ NULL \notin Movements \cup Venues \cup Int
    /\ NULL \notin Movement \cup Venue

VARIABLES
    clock,
    gains, moved,   \* the exchange: won by trading, moved from FUND to trading
    movement,       \* the exchange: its deposits and withdrawals
    connected,      \* whether the account is there
    venue,          \* investing_venues of the account, and of former ones
    transfer,       \* what the venue's transfer for a movement is worth
    run,
    won,            \* history: the gains within the trading baseline
    blurred         \* history: a result need not be what trading won

exchange == <<gains, moved, movement>>
tables   == <<connected, venue, transfer>>
history  == <<won, blurred>>
vars     == <<clock, exchange, tables, run, history>>

Steps    == {"idle", "create", "read", "movements", "import", "advance"}
Run      == [pc: Steps, gone: BOOLEAN, venue: Venues \cup {NULL}, first: SUBSET Half,
             todo: SUBSET Half, trading: Money \cup {NULL}, fund: Money \cup {NULL},
             won: Money, now: Time, floor: Time, to: Time,
             got: SUBSET Movements]

TypeOK ==
    /\ clock \in Time /\ gains \in 0..MaxEvents /\ moved \in 0..MaxEvents
    /\ movement \in [Movements -> Movement \cup {NULL}]
    /\ connected \in BOOLEAN
    /\ venue \in [Venues -> Venue \cup {NULL}]
    /\ \A v \in Venues : venue[v] # NULL =>
          /\ venue[v].openingFund = NULL <=> venue[v].openingFundAt = NULL
          /\ venue[v].syncedTo # NULL => venue[v].openingFundAt # NULL
    /\ transfer \in [Venues \X Movements -> {NULL, -1, 0, 1}]
    /\ run \in Run
    /\ won \in Money
    /\ blurred \in BOOLEAN

NewVenue == [connected |-> TRUE, balance |-> NULL, opening |-> NULL, fund |-> NULL,
             openingFund |-> NULL, openingFundAt |-> NULL, syncedTo |-> NULL]
Idle == [pc |-> "idle", gone |-> FALSE, venue |-> NULL, first |-> {}, todo |-> {},
         trading |-> NULL, fund |-> NULL, won |-> 0, now |-> 0, floor |-> 0, to |-> 0,
         got |-> {}]

Init ==
    /\ clock = 1 /\ gains = 0 /\ moved = 0
    /\ movement = [m \in Movements |-> NULL]
    /\ connected = FALSE
    /\ venue = [v \in Venues |-> NULL]
    /\ transfer = [k \in Venues \X Movements |-> NULL]
    /\ run = Idle
    /\ won = 0 /\ blurred = FALSE

At(step) == run.pc = step
Present(v) == venue[v] # NULL
Recorded(v, m) == transfer[<<v, m>>] # NULL

\* The venue of the connected account, if it has one yet.
LiveVenues == {v \in Venues : Present(v) /\ venue[v].connected}

-----------------------------------------------------------------------------
(***************************************************************************)
(* The exchange.  A deposit reaches FUND when it is credited; a withdrawal *)
(* leaves it when it is asked for, and is stamped when it succeeds.        *)
(***************************************************************************)

Deposits == {m \in Movements : movement[m] # NULL /\ ~movement[m].out}
Debits   == {m \in Movements : movement[m] # NULL /\ movement[m].out}

InTrading == gains + moved
InFund == 1 + Cardinality(Deposits) - Cardinality(Debits) - moved

\* A run that is to take the half's baseline has read it, and not stamped it yet.
Photographed(half) == At("read") /\ half \in run.first \ run.todo

\* Such a change of FUND is in neither the baseline nor the import that starts there.
FundChanges == blurred' = (blurred \/ Photographed("fund"))

MoreHappens == gains + moved + Cardinality(Deposits \cup Debits) < MaxEvents

Stamped(out) == [out |-> out, at |-> clock, listed |-> FALSE]

Deposit(m) ==
    /\ movement[m] = NULL /\ MoreHappens /\ clock < MaxTime
    /\ movement' = [movement EXCEPT ![m] = Stamped(FALSE)]
    /\ FundChanges
    /\ UNCHANGED <<clock, gains, moved, tables, run, won>>

Withdraw(m) ==
    /\ movement[m] = NULL /\ InFund > 0 /\ MoreHappens /\ clock < MaxTime
    /\ movement' = [movement EXCEPT ![m] = [Stamped(TRUE) EXCEPT !.at = NULL]]
    /\ FundChanges
    /\ UNCHANGED <<clock, gains, moved, tables, run, won>>

WithdrawalSucceeds(m) ==
    /\ movement[m] # NULL /\ movement[m].at = NULL /\ clock < MaxTime
    /\ movement' = [movement EXCEPT ![m] = Stamped(TRUE)]
    /\ UNCHANGED <<clock, gains, moved, tables, run, history>>

ListMovement(m) ==
    /\ movement[m] # NULL /\ movement[m].at # NULL /\ ~movement[m].listed
    /\ movement' = [movement EXCEPT ![m].listed = TRUE]
    /\ UNCHANGED <<clock, gains, moved, tables, run, history>>

Trade ==
    /\ MoreHappens
    /\ gains' = gains + 1
    /\ UNCHANGED <<clock, moved, movement, tables, run, history>>

\* Money moved over while one half is photographed and the other is not, is in
\* neither photograph or in both.
MoveToTrading ==
    /\ InFund > 0 /\ MoreHappens
    /\ moved' = moved + 1
    /\ blurred' =
          \/ blurred \/ Photographed("trading") \/ Photographed("fund")
          \/ \E v \in LiveVenues : (venue[v].opening = NULL) # (venue[v].openingFund = NULL)
    /\ UNCHANGED <<clock, gains, movement, tables, run, won>>

\* What succeeded is listed in time.
OnTime ==
    \A m \in Movements :
        movement[m] # NULL /\ movement[m].at # NULL /\ ~movement[m].listed
           => clock < movement[m].at + Lateness

Tick ==
    /\ clock < MaxTime /\ OnTime
    /\ clock' = clock + 1
    /\ UNCHANGED <<exchange, tables, run, history>>

Least(a, b) == IF a < b THEN a ELSE b
Most(a, b)  == IF a > b THEN a ELSE b

\* The present moment is taken: what happens later is stamped later.
Moment == OnTime /\ clock' = Least(clock + 1, MaxTime + 1)

-----------------------------------------------------------------------------
(***************************************************************************)
(* Connecting an account, and disconnecting it: its row is deleted, and    *)
(* the venue stays with its transfers.                                     *)
(***************************************************************************)

Connect ==
    /\ ~connected
    /\ connected' = TRUE
    /\ UNCHANGED <<clock, exchange, venue, transfer, run, history>>

\* The foreign key is set to null, and nothing else of the venue changes.  The bound:
\* an account is left when there are no more keys.
Disconnect ==
    /\ connected /\ \E v \in Venues : ~Present(v)
    /\ connected' = FALSE
    /\ venue' = [v \in Venues |-> IF v \in LiveVenues THEN [venue[v] EXCEPT !.connected = FALSE]
                                                      ELSE venue[v]]
    /\ run' = IF At("idle") THEN run ELSE [run EXCEPT !.gone = TRUE]
    /\ Moment
    /\ UNCHANGED <<exchange, transfer, history>>

-----------------------------------------------------------------------------
(***************************************************************************)
(* A run.  First the venue and the balances: both halves are asked for at  *)
(* once, and written together with the moment both were there.             *)
(***************************************************************************)

\* The venue of an account that is gone is not found any more.
Mine == IF run.gone THEN {} ELSE LiveVenues

\* The halves whose baseline the run will write: the venue, as read, has none.
Baseless(row) == {h \in Half : IF h = "trading" THEN row.opening = NULL
                                                ELSE row.openingFund = NULL}

Reading(q, v, row) ==
    [q EXCEPT !.pc = "read", !.venue = v, !.first = Baseless(row), !.todo = Half]

\* The run starts with an account that is there.
EnsureForAccount ==
    /\ At("idle") /\ connected
    /\ \/ \E v \in Mine : run' = Reading(run, v, venue[v])
       \/ /\ Mine = {}
          /\ run' = [run EXCEPT !.pc = "create"]
    /\ UNCHANGED <<clock, exchange, tables, history>>

\* accountId is unique, and refers to an account.
Unclaimed == ~run.gone /\ LiveVenues = {}

CreateVenue ==
    /\ At("create") /\ Unclaimed
    /\ \E v \in Venues :
          /\ ~Present(v)
          /\ venue' = [venue EXCEPT ![v] = NewVenue]
          /\ run' = Reading(run, v, NewVenue)
    /\ UNCHANGED <<clock, exchange, connected, transfer, history>>

\* Either read may fail; FUND also for want of prices.
ReadTradingBalance ==
    /\ At("read") /\ "trading" \in run.todo
    /\ \E read \in {InTrading, NULL} :
          run' = [run EXCEPT !.todo = @ \ {"trading"}, !.trading = read,
                             !.won = IF read = NULL THEN 0 ELSE gains]
    /\ UNCHANGED <<clock, exchange, tables, history>>

ReadFundBalance ==
    /\ At("read") /\ "fund" \in run.todo
    /\ \E read \in {InFund, NULL} :
          run' = [run EXCEPT !.todo = @ \ {"fund"}, !.fund = read]
    /\ UNCHANGED <<clock, exchange, tables, history>>

TakesBaseline(q, half) == half \in q.first

\* What was read is written; a read that failed keeps the last figure.
WithTrading(row, q) ==
    IF q.trading = NULL THEN row
    ELSE [row EXCEPT !.balance = q.trading,
                     !.opening = IF TakesBaseline(q, "trading") THEN q.trading ELSE @]

WithFund(row, q, now) ==
    IF q.fund = NULL THEN row
    ELSE [row EXCEPT !.fund = q.fund,
                     !.openingFund = IF TakesBaseline(q, "fund") THEN q.fund ELSE @,
                     !.openingFundAt = IF TakesBaseline(q, "fund") THEN now ELSE @]

\* A second run replaces the baseline the first has written since the second read it.
Replaces(q, row) ==
    \/ q.trading # NULL /\ "trading" \in q.first /\ row.opening # NULL
    \/ q.fund # NULL /\ "fund" \in q.first /\ row.openingFund # NULL

\* A withdrawal has left FUND, and its success will be stamped after the baseline.
InFlight(q) ==
    /\ q.fund # NULL /\ TakesBaseline(q, "fund")
    /\ \E m \in Debits : movement[m].at = NULL

Store(q, row) ==
    /\ Moment
    /\ venue' = [venue EXCEPT ![q.venue] = WithFund(WithTrading(row, q), q, clock')]
    /\ won' = IF row.connected /\ q.trading # NULL /\ TakesBaseline(q, "trading") THEN q.won ELSE won
    /\ blurred' = (blurred \/ (row.connected /\ (Replaces(q, row) \/ InFlight(q))))

RefreshLiveBalance ==
    /\ At("read") /\ run.todo = {}
    /\ IF run.trading = NULL /\ run.fund = NULL
       THEN UNCHANGED <<clock, venue, history>>
       ELSE Store(run, venue[run.venue])
    /\ run' = [Idle EXCEPT !.pc = "movements", !.gone = run.gone]
    /\ UNCHANGED <<exchange, connected, transfer>>

\* Another run, of the user or on connecting, does all this between two steps of this
\* one.  The bound: they are not interleaved further.
RefreshBeside(v) ==
    LET row == IF Present(v) THEN venue[v] ELSE NewVenue IN
    /\ connected
    /\ IF LiveVenues = {} THEN ~Present(v) ELSE v \in LiveVenues
    /\ \E trading \in {InTrading, NULL}, fund \in {InFund, NULL} :
          /\ {trading, fund} # {NULL}
          /\ Store([Reading(Idle, v, row) EXCEPT !.trading = trading, !.fund = fund,
                                                !.won = gains], row)
    /\ UNCHANGED <<exchange, connected, transfer, run>>

-----------------------------------------------------------------------------
(***************************************************************************)
(* Then deposits and withdrawals, only once FUND has its baseline and      *)
(* never from before it.  A failure ends the import and not the sync.      *)
(***************************************************************************)

\* Faulty version: all the history there is.
WholeHistory(row) == 0
Floor(row) == row.openingFundAt

\* Faulty version: no overlap behind the cursor.
FromCursor(row) == IF row.syncedTo = NULL THEN Floor(row) ELSE row.syncedTo
ImportStart(row) ==
    IF row.syncedTo = NULL THEN Floor(row) ELSE Most(row.syncedTo - Overlap, Floor(row))

\* What the exchange returns for a window: to its own stamps it may be a soft edge.
FetchWindow(from, to) ==
    {m \in Movements : /\ movement[m] # NULL /\ movement[m].listed
                       /\ from <= movement[m].at /\ movement[m].at <= to}

\* The windows reach from there to now, each at most Window long.
OpenWindow(q, start, edge) ==
    LET to == Least(start + Window, q.now) IN
    IF start < q.now
    THEN [q EXCEPT !.pc = "import", !.to = to, !.got = FetchWindow(start - edge, to)]
    ELSE Idle

StartImport(edge) ==
    /\ At("movements")
    /\ \E v \in Mine :
          IF venue[v].openingFundAt = NULL
          THEN run' = Idle /\ UNCHANGED clock
          ELSE /\ run' = OpenWindow([run EXCEPT !.venue = v, !.now = clock,
                                                !.floor = Floor(venue[v])],
                                    ImportStart(venue[v]), edge)
               /\ Moment
    /\ UNCHANGED <<exchange, tables, history>>

\* Faulty version: what arrived before the baseline is imported as well.
WholeWindow(q) == q.got
SinceBaseline(q) == {m \in q.got : movement[m].at >= q.floor}

\* createMany skips what the venue has.  Without a price a movement counts for nothing.
Import(priced) ==
    LET q == run
        worth(m) == IF ~priced THEN 0 ELSE IF movement[m].out THEN -1 ELSE 1
        fresh == {m \in SinceBaseline(q) : ~Recorded(q.venue, m)} IN
    /\ At("import")
    /\ transfer' = [k \in Venues \X Movements |->
                      IF k[1] = q.venue /\ k[2] \in fresh THEN worth(k[2]) ELSE transfer[k]]
    /\ blurred' = (blurred \/ (~priced /\ fresh # {}))
    /\ run' = [run EXCEPT !.pc = "advance", !.got = {}]
    /\ UNCHANGED <<clock, exchange, connected, venue, won>>

CursorAfter(q) == q.to

AdvanceCursor(edge) ==
    /\ At("advance")
    /\ venue' = [venue EXCEPT ![run.venue].syncedTo = CursorAfter(run)]
    /\ run' = OpenWindow(run, run.to, edge)
    /\ UNCHANGED <<clock, exchange, connected, transfer, history>>

\* A run dies, or fails; a failed import only ends earlier what ends here anyway.
Fail ==
    /\ ~At("idle")
    /\ run' = Idle
    /\ UNCHANGED <<clock, exchange, tables, history>>

-----------------------------------------------------------------------------
Exchange ==
    \/ Tick \/ MoveToTrading \/ Trade
    \/ \E m \in Movements : Deposit(m) \/ Withdraw(m) \/ WithdrawalSucceeds(m) \/ ListMovement(m)

Sync ==
    \/ EnsureForAccount \/ CreateVenue
    \/ ReadTradingBalance \/ ReadFundBalance \/ RefreshLiveBalance
    \/ \E v \in Venues : RefreshBeside(v)
    \/ \E edge \in {0, Softness} : StartImport(edge) \/ AdvanceCursor(edge)
    \/ \E priced \in BOOLEAN : Import(priced)
    \/ Fail

Next == Exchange \/ Connect \/ Disconnect \/ Sync

Spec == Init /\ [][Next]_vars

-----------------------------------------------------------------------------
(***************************************************************************)
(* What must hold.                                                         *)
(***************************************************************************)

OrZero(x) == IF x = NULL THEN 0 ELSE x

ValueOf(row) == IF row.balance = NULL THEN NULL ELSE row.balance + OrZero(row.fund)

ResultOf(row, net) == ValueOf(row) - (OrZero(row.opening) + OrZero(row.openingFund)) - net

NetTransferred(v) == FoldSet(LAMBDA m, sum : sum + transfer[<<v, m>>], 0,
                             {m \in Movements : Recorded(v, m)})

\* The figures of a live venue are the exchange's, and everything that happened there
\* is listed and the import past it.
Settled(v) ==
    LET row == venue[v] IN
    /\ row.opening # NULL /\ row.openingFund # NULL
    /\ row.balance = InTrading /\ row.fund = InFund
    /\ \A m \in Movements : movement[m] # NULL =>
          /\ movement[m].at # NULL /\ movement[m].listed
          /\ movement[m].at >= row.openingFundAt =>
                row.syncedTo # NULL /\ movement[m].at + Overlap <= row.syncedTo

\* Once a venue is settled its result is what trading has won since the baseline, and
\* neither the money that was there before nor what came in or went out since
\* (refreshLiveBalance, importSince, resultOf) - unless the baseline was taken while
\* money was moving, or written twice, or a movement imported while no price was known.
ResultIsTradingOnly ==
    \A v \in LiveVenues :
        Settled(v) /\ ~blurred
           => ResultOf(venue[v], NetTransferred(v)) = gains - won

\* Windows and overlap skip nothing: what the import is further past than the overlap is
\* on the venue, although the exchange lists late and runs die between two steps.
NothingMissed ==
    \A v \in LiveVenues, m \in Movements :
        /\ venue[v].syncedTo # NULL /\ movement[m] # NULL /\ movement[m].at # NULL
        /\ movement[m].at >= venue[v].openingFundAt
        /\ movement[m].at + Overlap <= venue[v].syncedTo
        => Recorded(v, m)

\* A movement is recorded on one venue only: neither a run that outlives its account nor
\* connecting the account again records it twice (floor of importSince).
RecordedOnce ==
    \A v, w \in Venues, m \in Movements : Recorded(v, m) /\ Recorded(w, m) => v = w
=============================================================================
