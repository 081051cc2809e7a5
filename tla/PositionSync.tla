----------------------------- MODULE PositionSync -----------------------------
(***************************************************************************)
(* The trading diary of one symbol of one connected account: the runs that *)
(* copy its closings and its open position from the exchange, the notes    *)
(* the user keeps on the rows, and the announcement of each closing.       *)
(*                                                                         *)
(* A run awaits the exchange or the database between any two of its steps; *)
(* run[r] is what it has read so far.  The cron's runs never overlap each  *)
(* other, but one started by the user, or on connecting, overlaps them and *)
(* others of its kind: Runs is how many may be in progress.                *)
(***************************************************************************)
EXTENDS Integers, FiniteSets

CONSTANTS
    Trades,             \* positions on the exchange, one after the other
    Orders,             \* closing orders; a trade may be closed in parts
    RowIds, Notes,      \* primary keys the database may hand out
    Runs,
    Window, Overlap,    \* WINDOW_MS and OVERLAP_MS, in ticks
    Lateness,           \* the exchange lists a closing within so many ticks
    MaxTime,            \* bound of the clock
    NULL

Row == [open: BOOLEAN, order: Orders \cup {NULL}, trade: Trades]
Closing == [trade: Trades, at: 0..MaxTime, listed: BOOLEAN, late: BOOLEAN]
Note == [row: RowIds, trade: Trades]
Time == 0..MaxTime
Account == [cursor: Time \cup {NULL}, lastSync: Time \cup {NULL}]

ASSUME SyncAssumption ==
    /\ Window \in Nat \ {0} /\ Overlap \in Nat /\ Overlap < Window
    /\ Lateness \in 0..Overlap /\ MaxTime \in Nat \ {0}
    /\ NULL \notin Trades \cup Orders \cup RowIds \cup Notes \cup Nat
    /\ NULL \notin Row /\ NULL \notin Closing /\ NULL \notin Note

VARIABLES
    clock,
    live, traded,  \* the exchange: the trade now open, all there were
    closing,       \* the exchange: its closed-pnl records
    row,           \* positions of the account and symbol
    note,          \* position_notes, each with the trade it was written about
    account,       \* closedPnlSyncedTo and lastSyncAt of the account
    notified,      \* rows with a trade_closed notification: one per dedupe key
    run,
    told,          \* history: announcements of each closing
    since,         \* history: start of the first run that finished
    mishaps        \* history: what announcing may suffer from

exchange == <<live, traded, closing>>
diary    == <<row, note>>
history  == <<told, since, mishaps>>
vars     == <<clock, exchange, diary, account, notified, run, history>>

Steps == {"idle", "begin", "fetch", "next", "conflict", "write", "upsert",
          "snapshot", "findLive", "writeLive", "collect", "tell"}

\* A position that is to be announced, as it was read.
News == [row: RowIds, order: Orders]

Run == [pc: Steps, seen: Account, now: Time, from: Time, to: Time,
        todo: SUBSET Orders, rec: Orders \cup {NULL},
        mine: RowIds \cup {NULL}, other: RowIds \cup {NULL},
        live: Trades \cup {NULL}, news: SUBSET News]

NeverSynced == [cursor |-> NULL, lastSync |-> NULL]
Idle == [pc |-> "idle", seen |-> NeverSynced, now |-> 0, from |-> 0, to |-> 0, todo |-> {},
         rec |-> NULL, mine |-> NULL, other |-> NULL, live |-> NULL, news |-> {}]

TypeOK ==
    /\ clock \in Time
    /\ live \in traded \cup {NULL} /\ traded \subseteq Trades
    /\ closing \in [Orders -> Closing \cup {NULL}]
    /\ row \in [RowIds -> Row \cup {NULL}]
    /\ note \in [Notes -> Note \cup {NULL}]
    /\ \A n \in Notes : note[n] # NULL => row[note[n].row] # NULL
    /\ account \in Account
    /\ notified \subseteq RowIds
    /\ run \in [Runs -> Run]
    /\ told \in [Orders -> 0..2]
    /\ since \in Time \cup {NULL}
    /\ mishaps \subseteq {"interrupted", "unsent"}

Init ==
    /\ clock = 1
    /\ live = NULL /\ traded = {}
    /\ closing = [o \in Orders |-> NULL]
    /\ row = [i \in RowIds |-> NULL]
    /\ note = [n \in Notes |-> NULL]
    /\ account = NeverSynced
    /\ notified = {}
    /\ run = [r \in Runs |-> Idle]
    /\ told = [o \in Orders |-> 0]
    /\ since = NULL
    /\ mishaps = {}

At(r, step) == run[r].pc = step

Present(i) == row[i] # NULL
Open == {i \in RowIds : Present(i) /\ row[i].open}
RowsOf(o) == {i \in RowIds : Present(i) /\ row[i].order = o}

\* A key is never handed out twice, and a run keeps the ones it read: one nobody
\* holds stands for a new one, of which no notification knows.
FreshRow(i) ==
    /\ ~Present(i)
    /\ \A r \in Runs : /\ i \notin {run[r].mine, run[r].other}
                       /\ \A news \in run[r].news : news.row # i

-----------------------------------------------------------------------------
(***************************************************************************)
(* The exchange.  A closing may be listed some time after it happened.     *)
(***************************************************************************)

AllListed == \A o \in Orders : closing[o] # NULL /\ ~closing[o].listed
                                 => clock < closing[o].at + Lateness

Tick ==
    /\ clock < MaxTime /\ AllListed
    /\ clock' = clock + 1
    /\ UNCHANGED <<exchange, diary, account, notified, run, history>>

OpenTrade(tr) ==
    /\ live = NULL /\ tr \notin traded
    /\ live' = tr
    /\ traded' = traded \cup {tr}
    /\ UNCHANGED <<clock, closing, diary, account, notified, run, history>>

\* What is left of the trade after a partial closing stays open.
CloseTrade(o, left) ==
    /\ live # NULL /\ closing[o] = NULL /\ clock < MaxTime
    /\ closing' = [closing EXCEPT ![o] = [trade |-> live, at |-> clock,
                                          listed |-> FALSE, late |-> FALSE]]
    /\ live' = left
    /\ UNCHANGED <<clock, traded, diary, account, notified, run, history>>

ListClosing(o) ==
    /\ closing[o] # NULL /\ ~closing[o].listed
    /\ closing' = [closing EXCEPT ![o].listed = TRUE, ![o].late = clock > closing[o].at]
    /\ UNCHANGED <<clock, live, traded, diary, account, notified, run, history>>

-----------------------------------------------------------------------------
(***************************************************************************)
(* The user's notes.                                                       *)
(***************************************************************************)

AddPositionNote(n, i) ==
    /\ Present(i) /\ note[n] = NULL
    /\ note' = [note EXCEPT ![n] = [row |-> i, trade |-> row[i].trade]]
    /\ UNCHANGED <<clock, exchange, row, account, notified, run, history>>

RemovePositionNote(n) ==
    /\ note[n] # NULL
    /\ note' = [note EXCEPT ![n] = NULL]
    /\ UNCHANGED <<clock, exchange, row, account, notified, run, history>>

-----------------------------------------------------------------------------
(***************************************************************************)
(* A run: the account is read, and later its present moment is taken.      *)
(***************************************************************************)

ReadAccount(r) ==
    /\ At(r, "idle")
    /\ run' = [run EXCEPT ![r] = [Idle EXCEPT !.pc = "begin", !.seen = account]]
    /\ UNCHANGED <<clock, exchange, diary, account, notified, history>>

Least(a, b) == IF a < b THEN a ELSE b

\* Faulty version: no overlap behind the cursor.
FromCursor(cursor) == IF cursor = NULL THEN 0 ELSE cursor

\* The history starts at 0.
WindowStart(cursor) ==
    IF cursor = NULL \/ cursor < Overlap THEN 0 ELSE cursor - Overlap

\* The windows reach from there to now, each at most Window long.
OpenWindow(q, start) ==
    IF start < q.now
    THEN [q EXCEPT !.pc = "fetch", !.from = start, !.to = Least(start + Window, q.now)]
    ELSE [q EXCEPT !.pc = "snapshot"]

\* What happens from here on happens after now.
Begin(r) ==
    /\ At(r, "begin") /\ AllListed
    /\ clock' = Least(clock + 1, MaxTime)
    /\ run' = [run EXCEPT ![r] = OpenWindow([@ EXCEPT !.now = clock],
                                            WindowStart(@.seen.cursor))]
    /\ UNCHANGED <<exchange, diary, account, notified, history>>

-----------------------------------------------------------------------------
(***************************************************************************)
(* Closings.  The open row the trade was tracked under becomes the closed  *)
(* one, taking over what another row of the same closing has.              *)
(***************************************************************************)

FetchClosed(r) ==
    /\ At(r, "fetch")
    /\ run' = [run EXCEPT ![r].pc = "next",
                          ![r].todo = {o \in Orders : /\ closing[o] # NULL
                                                      /\ closing[o].listed
                                                      /\ run[r].from <= closing[o].at
                                                      /\ closing[o].at <= run[r].to}]
    /\ UNCHANGED <<clock, exchange, diary, account, notified, history>>

\* The records come in the exchange's order.
FindOpenRow(r, o) ==
    /\ At(r, "next") /\ o \in run[r].todo
    /\ \/ \E i \in Open :
             run' = [run EXCEPT ![r].pc = "conflict", ![r].rec = o, ![r].mine = i]
       \/ /\ Open = {}
          /\ run' = [run EXCEPT ![r].pc = "upsert", ![r].rec = o]
    /\ UNCHANGED <<clock, exchange, diary, account, notified, history>>

FindConflicting(r) ==
    LET owners == RowsOf(run[r].rec) IN
    /\ At(r, "conflict")
    /\ \E i \in IF owners = {} THEN {NULL} ELSE owners :
          run' = [run EXCEPT ![r].pc = "write", ![r].other = i]
    /\ UNCHANGED <<clock, exchange, diary, account, notified, history>>

ClosedBy(o) == [open |-> FALSE, order |-> o, trade |-> closing[o].trade]

Written(r) == run' = [run EXCEPT ![r].pc = "next", ![r].todo = @ \ {run[r].rec},
                                 ![r].rec = NULL, ![r].mine = NULL, ![r].other = NULL]

\* Faulty versions: the notes of the merged row go with it, or are left behind.
NotesLeft(n, other, mine) == note[n]
NotesDropped(n, other, mine) ==
    IF note[n] # NULL /\ note[n].row = other THEN NULL ELSE note[n]

\* The notes of the merged row move to the one that stays.
NotesMoved(n, other, mine) ==
    IF note[n] # NULL /\ note[n].row = other THEN [note[n] EXCEPT !.row = mine] ELSE note[n]

\* One transaction; a row that is gone, or a key that is taken, fails the run.
WriteClosed(r) ==
    LET mine  == run[r].mine
        other == run[r].other
        gone  == IF other = mine THEN NULL ELSE other IN
    /\ At(r, "write")
    /\ Present(mine) /\ (gone # NULL => Present(gone))
    /\ RowsOf(run[r].rec) \subseteq {mine, gone}
    /\ row' = [i \in RowIds |-> IF i = mine THEN ClosedBy(run[r].rec)
                                ELSE IF i = gone THEN NULL ELSE row[i]]
    /\ note' = [n \in Notes |-> IF gone = NULL THEN note[n] ELSE NotesMoved(n, gone, mine)]
    /\ Written(r)
    /\ UNCHANGED <<clock, exchange, account, notified, history>>

UpsertClosed(r) ==
    LET o == run[r].rec IN
    /\ At(r, "upsert")
    /\ \E i \in RowIds :
          /\ IF RowsOf(o) = {} THEN FreshRow(i) ELSE i \in RowsOf(o)
          /\ row' = [row EXCEPT ![i] = ClosedBy(o)]
          /\ notified' = IF Present(i) THEN notified ELSE notified \ {i}
    /\ Written(r)
    /\ UNCHANGED <<clock, exchange, note, account, history>>

CursorAfter(q) == q.to

AdvanceCursor(r) ==
    /\ At(r, "next") /\ run[r].todo = {}
    /\ account' = [account EXCEPT !.cursor = CursorAfter(run[r])]
    /\ run' = [run EXCEPT ![r] = OpenWindow(@, @.to)]
    /\ UNCHANGED <<clock, exchange, diary, notified, history>>

-----------------------------------------------------------------------------
(***************************************************************************)
(* The open position: a snapshot of the exchange kept in one open row.     *)
(***************************************************************************)

FetchOpen(r) ==
    /\ At(r, "snapshot")
    /\ run' = [run EXCEPT ![r].pc = IF live = NULL THEN "collect" ELSE "findLive",
                          ![r].live = live]
    /\ UNCHANGED <<clock, exchange, diary, account, notified, history>>

\* Faulty version: the row the position is tracked under is never found.
NoneTracked == {NULL}
Tracked == IF Open = {} THEN {NULL} ELSE Open

FindTracked(r) ==
    /\ At(r, "findLive")
    /\ \E i \in Tracked : run' = [run EXCEPT ![r].pc = "writeLive", ![r].mine = i]
    /\ UNCHANGED <<clock, exchange, diary, account, notified, history>>

\* An existing row keeps the order it has.
WriteOpen(r) ==
    LET q == run[r] IN
    /\ At(r, "writeLive")
    /\ IF q.mine # NULL
       THEN /\ Present(q.mine)
            /\ row' = [row EXCEPT ![q.mine].open = TRUE, ![q.mine].trade = q.live]
            /\ UNCHANGED notified
       ELSE \E i \in RowIds :
              /\ FreshRow(i)
              /\ row' = [row EXCEPT ![i] = [open |-> TRUE, order |-> NULL, trade |-> q.live]]
              /\ notified' = notified \ {i}
    /\ run' = [run EXCEPT ![r].pc = "collect", ![r].mine = NULL, ![r].live = NULL]
    /\ UNCHANGED <<clock, exchange, note, account, history>>

-----------------------------------------------------------------------------
(***************************************************************************)
(* Announcing what closed since the account was last synced, as far as the *)
(* run knew when it began; nothing on the first run.                       *)
(***************************************************************************)

\* Faulty version: what closed just as the last run began is new again.
ClosedSince(o, q) == closing[o].at >= q.seen.lastSync
NewlyClosed(o, q) == closing[o].at > q.seen.lastSync

Collect(r) ==
    /\ At(r, "collect")
    /\ run' = [run EXCEPT ![r].pc = "tell",
                          ![r].news = IF run[r].seen.lastSync = NULL THEN {}
                                      ELSE {[row |-> i, order |-> row[i].order] :
                                              i \in {j \in RowIds \ Open :
                                                       /\ Present(j)
                                                       /\ NewlyClosed(row[j].order, run[r])}}]
    /\ UNCHANGED <<clock, exchange, diary, account, notified, history>>

\* The notification's key is the row's.
Announce(r, news) ==
    /\ At(r, "tell") /\ news \in run[r].news
    /\ notified' = notified \cup {news.row}
    /\ told' = [told EXCEPT ![news.order] = IF news.row \notin notified /\ @ < 2 THEN @ + 1 ELSE @]
    /\ run' = [run EXCEPT ![r].news = @ \ {news}]
    /\ UNCHANGED <<clock, exchange, diary, account, since, mishaps>>

\* A user without access is told nothing; an announcement that fails is given up,
\* not the run.
AnnounceFails(r, news) ==
    /\ At(r, "tell") /\ news \in run[r].news
    /\ run' = [run EXCEPT ![r].news = @ \ {news}]
    /\ mishaps' = mishaps \cup {"unsent"}
    /\ UNCHANGED <<clock, exchange, diary, account, notified, told, since>>

Finish(r) ==
    /\ At(r, "tell") /\ run[r].news = {}
    /\ account' = [account EXCEPT !.lastSync = run[r].now]
    /\ since' = IF since = NULL THEN run[r].now ELSE since
    /\ run' = [run EXCEPT ![r] = Idle]
    /\ UNCHANGED <<clock, exchange, diary, notified, told, mishaps>>

\* Any step may fail: the exchange, the database, a row that is gone, a stop.
Fail(r) ==
    /\ ~At(r, "idle")
    /\ run' = [run EXCEPT ![r] = Idle]
    /\ mishaps' = mishaps \cup {"interrupted"}
    /\ UNCHANGED <<clock, exchange, diary, account, notified, told, since>>

-----------------------------------------------------------------------------
Exchange ==
    \/ Tick
    \/ \E tr \in Trades : OpenTrade(tr)
    \/ \E o \in Orders : CloseTrade(o, NULL) \/ CloseTrade(o, live) \/ ListClosing(o)

User ==
    \E n \in Notes : RemovePositionNote(n) \/ \E i \in RowIds : AddPositionNote(n, i)

Step(r) ==
    \/ ReadAccount(r) \/ Begin(r)
    \/ FetchClosed(r) \/ \E o \in Orders : FindOpenRow(r, o)
    \/ FindConflicting(r) \/ WriteClosed(r) \/ UpsertClosed(r) \/ AdvanceCursor(r)
    \/ FetchOpen(r) \/ FindTracked(r) \/ WriteOpen(r)
    \/ Collect(r)
    \/ \E news \in run[r].news : Announce(r, news) \/ AnnounceFails(r, news)
    \/ Finish(r)

Next == Exchange \/ User \/ \E r \in Runs : Step(r) \/ Fail(r)

Spec == Init /\ [][Next]_vars

\* Runs start over and over, the exchange lists what closed, and failures are
\* transient ("ERROR accounts are retried too"): in the end they stop.
FairSpec ==
    /\ Spec
    /\ WF_vars(Tick) /\ WF_vars(\E o \in Orders : ListClosing(o))
    /\ \A r \in Runs : WF_vars(Step(r)) /\ <>[][~Fail(r)]_vars

-----------------------------------------------------------------------------
(***************************************************************************)
(* What must hold.                                                         *)
(***************************************************************************)

Recorded(o) == \E i \in RowsOf(o) : row[i] = ClosedBy(o)

\* Windows and overlap skip nothing: whatever closed further behind the cursor than
\* the overlap is in the diary, although the exchange may list it late and runs may
\* die between any two steps.
NothingSkipped ==
    \A o \in Orders :
        /\ closing[o] # NULL
        /\ account.cursor # NULL /\ closing[o].at + Overlap <= account.cursor
        => Recorded(o)

\* "Only one open row per (account, symbol, category) is expected" when a closing
\* looks for the row its trade was tracked under; and that row is not a closing's
\* (syncClosedPnl, syncOpenPositions).
OneOpenRow ==
    /\ \A i, j \in Open : i = j
    /\ \A i \in Open : row[i].order = NULL

\* What closed after the first run that finished and before the last one is
\* announced, and once: unless the exchange listed it late, or the announcement
\* failed; a run that died after announcing may leave it to be announced again.
AnnouncedOnce ==
    \A o \in Orders :
        /\ told[o] > 1 => "interrupted" \in mishaps
        /\ told[o] > 0 => Recorded(o) /\ closing[o].at > since
        /\ /\ closing[o] # NULL /\ closing[o].listed /\ ~closing[o].late
           /\ since # NULL /\ closing[o].at > since /\ closing[o].at <= account.lastSync
           => told[o] > 0 \/ "unsent" \in mishaps

\* Every closing gets into the diary in the end, when runs go on and do not always
\* fail: the cursor never moves past one for good (syncClosedPnl, windows).
ClosingsRecorded == \A o \in Orders : (closing[o] # NULL ~> Recorded(o))

\* The diary keeps the book it promises: a closing it has it never loses, however rows
\* are turned from open to closed, rewritten and merged, and a note disappears only when
\* the user removes it, though the row it was on is deleted (syncClosedPnl).
Book == INSTANCE DiaryBook WITH
            Closings <- Orders,
            closed   <- {o \in Orders : closing[o] # NULL},
            recorded <- {o \in Orders : Recorded(o)},
            notes    <- {n \in Notes : note[n] # NULL},
            rows     <- row

KeepsBook == Book!Spec
=============================================================================
