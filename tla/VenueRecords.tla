----------------------------- MODULE VenueRecords -----------------------------
(***************************************************************************)
(* P2P orders copied from the exchange and recorded as transfers of its    *)
(* venue, and the venues those and other records keep from being deleted.  *)
(*                                                                         *)
(* The copy is refreshed by the sync and by the opened tab, both at once   *)
(* if it happens; each run works with the account as it read it at its     *)
(* start.  Orders complete after they were placed, records are made by     *)
(* hand meanwhile, a venue is deleted after its records were counted, and  *)
(* a run may fail or outlive its account.                                  *)
(***************************************************************************)
EXTENDS Integers, FiniteSets, Null

CONSTANTS
    Orders,             \* P2P orders of the exchange
    Venues,             \* primary keys the database may hand out
    Behind,             \* REFRESH_BEHIND_MS, in ticks
    FreshForTab, FreshForCron,  \* how old the copy may get, in ticks
    MaxTime             \* bound: nothing happens on the exchange after it

Horizon == MaxTime + FreshForCron + 1
Time == 0..Horizon

Order   == [placed: Time, done: Time \cup {NULL}]
Account == [syncedAt: Time \cup {NULL}, autoFrom: Time \cup {NULL}]
Copy    == [done: BOOLEAN, mine: BOOLEAN]   \* mine: of the account there is now
Venue   == [connected: BOOLEAN, live: BOOLEAN]

ASSUME RecordsAssumption ==
    /\ Behind \in Nat /\ MaxTime \in Nat
    /\ FreshForTab \in Nat /\ FreshForCron \in Nat
    /\ NULL \notin Orders \cup Venues \cup Int \cup {"hand", "auto"}
    /\ NULL \notin Order \cup Account \cup Copy \cup Venue

VARIABLES
    clock,
    order,      \* the exchange: when an order was placed, and when it completed
    account,    \* exchange_accounts: p2pSyncedAt and p2pAutoRecordFrom
    p2p,        \* p2p_orders: the copy
    venue,      \* investing_venues
    transfer,   \* transfers of a venue for an order, and who recorded it
    extra,      \* venues with a correction or a tracked coin
    run,        \* runs that copy orders
    removing,   \* the venue whose records a removal has counted
    wanted,     \* history: orders placed while they are recorded automatically
    spoilt      \* history: orders copied too early, or recorded too late

tables  == <<account, p2p, venue, transfer, extra>>
history == <<wanted, spoilt>>
vars    == <<clock, order, tables, run, removing, history>>

Steps   == {"idle", "copy", "upsert", "record"}
Run     == [pc: Steps, gone: BOOLEAN, seen: Account, now: Time, todo: SUBSET Orders,
            order: Orders \cup {NULL}, done: BOOLEAN, venue: Venues \cup {NULL}]

TypeOK ==
    /\ clock \in Time
    /\ order \in [Orders -> Order \cup {NULL}]
    /\ account \in Account \cup {NULL}
    /\ p2p \in [Orders -> Copy \cup {NULL}]
    /\ venue \in [Venues -> Venue \cup {NULL}]
    /\ transfer \in [Venues \X Orders -> {NULL, "hand", "auto"}]
    /\ \A k \in Venues \X Orders : transfer[k] # NULL => venue[k[1]] # NULL
    /\ extra \subseteq {v \in Venues : venue[v] # NULL}
    /\ run \in Run
    /\ removing \in Venues \cup {NULL}
    /\ wanted \subseteq Orders /\ spoilt \subseteq Orders

NoAccount == [syncedAt |-> NULL, autoFrom |-> NULL]
Idle == [pc |-> "idle", gone |-> FALSE, seen |-> NoAccount, now |-> 0, todo |-> {},
         order |-> NULL, done |-> FALSE, venue |-> NULL]

Init ==
    /\ clock = 0
    /\ order = [o \in Orders |-> NULL]
    /\ account = NULL
    /\ p2p = [o \in Orders |-> NULL]
    /\ venue = [v \in Venues |-> NULL]
    /\ transfer = [k \in Venues \X Orders |-> NULL]
    /\ extra = {}
    /\ run = Idle
    /\ removing = NULL
    /\ wanted = {} /\ spoilt = {}

At(step) == run.pc = step
Present(v) == venue[v] # NULL
Recorded(v, o) == transfer[<<v, o>>] # NULL
AutoOn == account # NULL /\ account.autoFrom # NULL
LiveVenues == {v \in Venues : Present(v) /\ venue[v].connected}

-----------------------------------------------------------------------------
(***************************************************************************)
(* The exchange and time.                                                  *)
(***************************************************************************)

PlaceOrder(o) ==
    /\ order[o] = NULL /\ clock < MaxTime
    /\ order' = [order EXCEPT ![o] = [placed |-> clock, done |-> NULL]]
    /\ wanted' = IF AutoOn THEN wanted \cup {o} ELSE wanted
    /\ UNCHANGED <<clock, tables, run, removing, spoilt>>

CompleteOrder(o) ==
    /\ order[o] # NULL /\ order[o].done = NULL /\ clock < MaxTime
    /\ order' = [order EXCEPT ![o].done = clock]
    /\ UNCHANGED <<clock, tables, run, removing, history>>

Tick ==
    /\ clock < Horizon
    /\ clock' = clock + 1
    /\ UNCHANGED <<order, tables, run, removing, history>>

-----------------------------------------------------------------------------
(***************************************************************************)
(* The account: connected and left, its automatic recording switched.      *)
(***************************************************************************)

\* The first sync creates the venue that stands for the account.
Connect ==
    /\ account = NULL
    /\ account' = NoAccount
    /\ \E v \in Venues :
          /\ ~Present(v)
          /\ venue' = [venue EXCEPT ![v] = [connected |-> TRUE, live |-> TRUE]]
    /\ UNCHANGED <<clock, order, p2p, transfer, extra, run, removing, history>>

\* Venue and copied orders stay, no longer tied to an account.  The bound: an account is
\* left when nothing can be placed on the exchange any more, or to come back.
Disconnect ==
    /\ account # NULL /\ \E v \in Venues : ~Present(v)
    /\ account' = NULL
    /\ venue' = [v \in Venues |-> IF v \in LiveVenues THEN [venue[v] EXCEPT !.connected = FALSE]
                                                      ELSE venue[v]]
    /\ p2p' = [o \in Orders |-> IF p2p[o] = NULL THEN NULL ELSE [p2p[o] EXCEPT !.mine = FALSE]]
    /\ run' = IF At("idle") THEN run ELSE [run EXCEPT !.gone = TRUE]
    /\ wanted' = {}
    /\ UNCHANGED <<clock, order, transfer, extra, removing, spoilt>>

\* Faulty version: switching on again starts again.
Restarted(from, on, now) == IF on THEN now ELSE NULL
AutoFrom(from, on, now) == IF ~on THEN NULL ELSE IF from # NULL THEN from ELSE now

\* Switching it on takes the present moment: what happens later is stamped later.
SwitchAutoRecord(on) ==
    /\ account # NULL /\ (on => clock <= MaxTime)
    /\ IF on /\ ~AutoOn THEN clock' = clock + 1 ELSE UNCHANGED clock
    /\ account' = [account EXCEPT !.autoFrom = AutoFrom(@, on, clock')]
    /\ wanted' = IF on THEN wanted ELSE {}
    /\ UNCHANGED <<order, p2p, venue, transfer, extra, run, removing, spoilt>>

-----------------------------------------------------------------------------
(***************************************************************************)
(* Copying the orders and recording the completed ones.                    *)
(***************************************************************************)

IsDue(seen, freshFor) == seen.syncedAt # NULL => clock - seen.syncedAt > freshFor

\* The sync, or the opened tab, reads the account; another run may finish before it goes on.
Copying == [Idle EXCEPT !.pc = "copy", !.seen = account, !.now = clock, !.todo = Orders]

Start(freshFor) ==
    /\ At("idle") /\ account # NULL /\ IsDue(account, freshFor)
    /\ run' = Copying
    /\ UNCHANGED <<clock, order, tables, removing, history>>

SyncIfDue == Start(FreshForCron)
RefreshForTab == Start(FreshForTab)

\* Faulty version: only what was placed since the last copy is read.
SinceLastCopy(seen) == IF seen.syncedAt = NULL THEN 0 ELSE seen.syncedAt
CopyStart(seen) == IF seen.syncedAt = NULL THEN 0 ELSE seen.syncedAt - Behind

\* What was placed in a window, with its status at the moment of the request.
InWindow(q) == {o \in q.todo : /\ order[o] # NULL
                               /\ CopyStart(q.seen) <= order[o].placed
                               /\ order[o].placed <= q.now}

FetchOrder(o) ==
    /\ At("copy") /\ o \in InWindow(run)
    /\ run' = [run EXCEPT !.pc = "upsert", !.order = o, !.done = order[o].done # NULL]
    /\ UNCHANGED <<clock, order, tables, removing, history>>

\* Written as it was read, over whatever another run has written; a row of an account that
\* is gone is refused, here and in every later statement.
UpsertOrder ==
    LET q == run IN
    /\ At("upsert") /\ ~q.gone
    /\ p2p' = [p2p EXCEPT ![q.order] = [done |-> q.done, mine |-> TRUE]]
    /\ spoilt' = IF p2p[q.order] # NULL /\ p2p[q.order].done /\ ~q.done
                 THEN spoilt \cup {q.order} ELSE spoilt
    /\ run' = [run EXCEPT !.pc = "copy", !.todo = @ \ {q.order}, !.order = NULL,
                          !.done = FALSE]
    /\ UNCHANGED <<clock, order, account, venue, transfer, extra, removing, wanted>>

\* Faulty version: also what was placed before recording was switched on.
EverCompleted(seen, copy) == {o \in Orders : copy[o] # NULL /\ copy[o].done /\ copy[o].mine}
\* Completed and placed since recording was switched on, as the run knows it.
ToRecord(seen, copy) ==
    {o \in Orders : /\ copy[o] # NULL /\ copy[o].done /\ copy[o].mine
                    /\ seen.autoFrom # NULL /\ order[o].placed >= seen.autoFrom}

Taken(v) == {o \in Orders : Recorded(v, o)}

Recording(q, v, orders) == [Idle EXCEPT !.pc = "record", !.gone = q.gone, !.now = q.now,
                                        !.venue = v, !.todo = orders]

AutoRecord ==
    LET q == run
        mine == IF q.gone \/ q.seen.autoFrom = NULL THEN {} ELSE LiveVenues IN
    /\ At("copy") /\ InWindow(q) = {}
    /\ \/ /\ mine = {}
          /\ run' = Recording(q, NULL, {})
       \/ \E v \in mine :
             run' = Recording(q, v, ToRecord(q.seen, p2p) \ Taken(v))
    /\ UNCHANGED <<clock, order, tables, removing, history>>

\* The unique index refuses an order another run or the user has recorded since; the run fails.
RecordOrder(o) ==
    LET v == run.venue IN
    /\ At("record") /\ o \in run.todo
    /\ Present(v) /\ ~Recorded(v, o)
    /\ transfer' = [transfer EXCEPT ![<<v, o>>] = "auto"]
    /\ spoilt' = IF run.gone THEN spoilt \cup {o} ELSE spoilt
    /\ run' = [run EXCEPT !.todo = @ \ {o}]
    /\ UNCHANGED <<clock, order, account, p2p, venue, extra, removing, wanted>>

CopiedAt(q) == q.now

OrdersCopied ==
    /\ At("record") /\ run.todo = {} /\ ~run.gone
    /\ account' = [account EXCEPT !.syncedAt = CopiedAt(run)]
    /\ run' = Idle
    /\ UNCHANGED <<clock, order, p2p, venue, transfer, extra, removing, history>>

\* Another run does all this between two steps of this one.  The bound: they are not
\* interleaved further.
CopyBeside ==
    LET copied == InWindow(Copying)
        copy == [o \in Orders |-> IF o \notin copied THEN p2p[o]
                                  ELSE [done |-> order[o].done # NULL, mine |-> TRUE]]
        record == ToRecord(account, copy) IN
    /\ ~At("idle") /\ account # NULL /\ IsDue(account, FreshForTab)
    /\ p2p' = copy
    /\ transfer' = [k \in Venues \X Orders |->
                      IF k[1] \in LiveVenues /\ k[2] \in record \ Taken(k[1]) THEN "auto"
                      ELSE transfer[k]]
    /\ account' = [account EXCEPT !.syncedAt = clock]
    /\ UNCHANGED <<clock, order, venue, extra, run, removing, history>>

\* What ends a run whatever the exchange does: a record or an account no longer as expected.
Refused ==
    LET q == run IN
    /\ \/ q.gone /\ q.pc \in {"upsert", "record"}
       \/ At("record") /\ \E o \in q.todo : ~Present(q.venue) \/ Recorded(q.venue, o)
    /\ run' = Idle
    /\ UNCHANGED <<clock, order, tables, removing, history>>

\* The exchange refuses, or the process stops.  The reason kept on the account is only shown.
Fail ==
    /\ ~At("idle")
    /\ run' = Idle
    /\ UNCHANGED <<clock, order, tables, removing, history>>

-----------------------------------------------------------------------------
(***************************************************************************)
(* The user: a manual venue, corrections and coins, an order recorded by   *)
(* hand, and the removal of a venue nothing is recorded against.           *)
(***************************************************************************)

CreateManual(v) ==
    /\ ~Present(v)
    /\ venue' = [venue EXCEPT ![v] = [connected |-> FALSE, live |-> FALSE]]
    /\ UNCHANGED <<clock, order, account, p2p, transfer, extra, run, removing, history>>

\* A correction is refused on what is read from the exchange.
AddAdjustment(v) ==
    /\ Present(v) /\ ~venue[v].live /\ v \notin extra
    /\ extra' = extra \cup {v}
    /\ UNCHANGED <<clock, order, account, p2p, venue, transfer, run, removing, history>>

RemoveAdjustment(v) ==
    /\ v \in extra
    /\ extra' = extra \ {v}
    /\ UNCHANGED <<clock, order, account, p2p, venue, transfer, run, removing, history>>

\* Offered for a copied order that no venue of the user has.
RecordByHand(v, o) ==
    /\ v \in LiveVenues /\ p2p[o] # NULL /\ p2p[o].mine
    /\ \A w \in Venues : ~Recorded(w, o)
    /\ transfer' = [transfer EXCEPT ![<<v, o>>] = "hand"]
    /\ UNCHANGED <<clock, order, account, p2p, venue, extra, run, removing, history>>

\* What was recorded automatically is not deleted.  The bound: while copies are still to come.
RemoveRecord(v, o) ==
    /\ clock <= MaxTime
    /\ transfer[<<v, o>>] = "hand"
    /\ transfer' = [transfer EXCEPT ![<<v, o>>] = NULL]
    /\ UNCHANGED <<clock, order, account, p2p, venue, extra, run, removing, history>>

Removable(v) == ~venue[v].connected /\ v \notin extra /\ \A o \in Orders : ~Recorded(v, o)

CountRecords(v) ==
    /\ removing = NULL /\ Present(v) /\ Removable(v)
    /\ removing' = v
    /\ UNCHANGED <<clock, order, tables, run, history>>

\* Faulty version: the transfers of a deleted venue stay.
Orphaned(v) == transfer
Cascaded(v) == [k \in Venues \X Orders |-> IF k[1] = v THEN NULL ELSE transfer[k]]

\* All there is against the venue by now is deleted with it; the id is not used again by what
\* still holds it.
RemoveVenue ==
    /\ removing # NULL
    /\ venue' = [venue EXCEPT ![removing] = NULL]
    /\ transfer' = Cascaded(removing)
    /\ extra' = extra \ {removing}
    /\ run' = IF run.venue = removing THEN Idle ELSE run
    /\ removing' = NULL
    /\ UNCHANGED <<clock, order, account, p2p, history>>

-----------------------------------------------------------------------------
User ==
    \/ Connect \/ Disconnect \/ RemoveVenue
    \/ \E on \in BOOLEAN : SwitchAutoRecord(on)
    \/ \E v \in Venues :
          \/ CreateManual(v) \/ AddAdjustment(v) \/ RemoveAdjustment(v) \/ CountRecords(v)
          \/ \E o \in Orders : RecordByHand(v, o) \/ RemoveRecord(v, o)

\* What a run does next when nothing fails.
Proceed ==
    \/ UpsertOrder \/ AutoRecord \/ OrdersCopied \/ Refused
    \/ \E o \in Orders : FetchOrder(o) \/ RecordOrder(o)

Next ==
    \/ Tick \/ \E o \in Orders : PlaceOrder(o) \/ CompleteOrder(o)
    \/ User
    \/ SyncIfDue \/ RefreshForTab \/ CopyBeside \/ Proceed \/ Fail

Spec == Init /\ [][Next]_vars

\* The cron runs over and over, and failures end.  Of what the user does nothing is assumed.
FairSpec ==
    /\ Spec
    /\ WF_vars(Tick)
    /\ WF_vars(SyncIfDue) /\ WF_vars(Proceed)
    /\ <>[][~Fail]_vars

-----------------------------------------------------------------------------
(***************************************************************************)
(* What must hold.                                                         *)
(***************************************************************************)

\* An order that completes so soon after it was placed is still read again then.
InReach(o) == order[o].done # NULL /\ order[o].done - order[o].placed <= Behind

\* The copy follows the exchange: an order that completed before the last copy began is
\* complete in it, although copies reach back only so far (REFRESH_BEHIND_MS) - unless an
\* overlapping run wrote the status it had read earlier.
CopyFollows ==
    \A o \in Orders :
        /\ account # NULL /\ account.syncedAt # NULL /\ order[o] # NULL
        /\ InReach(o) /\ order[o].done < account.syncedAt
        => o \in spoilt \/ (p2p[o] # NULL /\ p2p[o].done)

\* An order has one transfer: neither overlapping runs, nor recording by hand beside them,
\* nor an account connected again, records it on another venue (recordP2pOrders) - unless a
\* run that outlived its account recorded it on the former one.
OrderRecordedOnce ==
    \A v, w \in Venues, o \in Orders :
        Recorded(v, o) /\ Recorded(w, o) => v = w \/ o \in spoilt

\* "Every completed order placed since it was switched on becomes a wallet transfer", also
\* when it completes later and when runs fail over it, as long as it stays switched on.
AutoRecorded ==
    \A o \in Orders :
        (o \in wanted /\ InReach(o))
           ~> (o \notin wanted \/ o \in spoilt \/ \E v \in Venues : Recorded(v, o))
=============================================================================
