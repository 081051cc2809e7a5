------------------------------ MODULE Transfers ------------------------------
(***************************************************************************)
(* Movements of money between the wallet and the investing venues, seen    *)
(* together with the incomes and expenses tied to them and with the coins  *)
(* the manual venues track.                                                *)
(*                                                                         *)
(* A movement is recorded by hand or imported from the exchange.  An       *)
(* imported one waits for the user to say what it was; "earned" (an income *)
(* or an expense straight on the venue) is ONE event kept as TWO rows, the *)
(* transaction and the transfer, that must net to zero in the wallet.      *)
(*                                                                         *)
(* The handlers of investing-transfers.service.ts are not transactional:   *)
(* one action here is one of their database writes, req[r] is the handler  *)
(* in progress and Fail(r) ends it between two writes.  The handlers of    *)
(* incomes, expenses and categories write in one transaction: one action,  *)
(* except that an edit reads its row before the transaction starts.        *)
(***************************************************************************)
EXTENDS Integers, FiniteSets, FiniteSetsExt, Null

CONSTANTS
    TransferIds, TxnIds,        \* primary keys the database may hand out
    IncomeCats, ExpenseCats,    \* category ids, one table each
    Money, ToUsd,               \* an amount with its currency; its USD value
    Venues, LiveVenues,         \* a venue never changes mode once created
    Slots,                      \* rows a venue may track of the one coin
    ManualCoins, ImportCoins,   \* coin amounts inputs choose from (0: no coin)
    MaxHeld,                    \* bound: coins typed in stay within it
    Requests                    \* handlers that may be in progress at once

Cats == IncomeCats \cup ExpenseCats

Directions == {"IN", "OUT"}    \* IN: the venue gained it
Peers == {"LEDGER", "VENUE", "EXTERNAL"}

Transfer == [venue: Venues, dir: Directions,
             peer: Peers, peerVenue: Venues \cup {NULL},
             money: Money, usd: Money, coins: Nat,
             source: {"MANUAL", "BYBIT"}, review: BOOLEAN,
             link: TxnIds \cup {NULL}]

Txn == [cat: Cats, money: Money]

ASSUME ConstantsAssumption ==
    /\ IncomeCats \cap ExpenseCats = {}
    /\ LiveVenues \subseteq Venues
    /\ ToUsd \in [Money -> Money]
    /\ ManualCoins \subseteq Nat /\ ImportCoins \subseteq Nat /\ MaxHeld \in Nat
    /\ NULL \notin TransferIds \cup TxnIds \cup Cats \cup Venues \cup Money
    /\ NULL \notin Transfer /\ NULL \notin Txn

VARIABLES
    transfer,     \* investing_transfers
    txn,          \* incomes and expenses: the category's table says which
    categories,   \* the categories that exist
    held,         \* holdings: coins of each row of a venue, 0 for no row
    req,          \* the handler in progress of each request
    story,        \* history: what the user last said a movement was
    stated,       \* history: coins the user stated by hand, per venue
    mishaps       \* history: whether a handler that moves coins was interrupted

books == <<transfer, txn, categories>>
vars  == <<transfer, txn, categories, held, req, story, stated, mishaps>>

Manual == Venues \ LiveVenues

\* What a handler was told; cat # NULL is an answer "as" income or expense.
Answer == [peer: Peers, peerVenue: Venues \cup {NULL},
           money: Money \cup {NULL}, cat: Cats \cup {NULL}]

Stories == {"none", "own", "open", "earned", "other", "torn"}

AnswerSteps == {"takeOver", "takeDelete", "unshift", "drop", "record", "answer", "reshift"}
EditSteps   == {"resize", "rewrite"}
Steps       == {"idle", "shift", "delete"} \cup AnswerSteps \cup EditSteps

NoAnswer == [peer |-> "EXTERNAL", peerVenue |-> NULL, money |-> NULL, cat |-> NULL]

\* A handler that knows no more than the row it is about.
Doing(step, t) == [pc |-> step, t |-> t, merged |-> NULL, old |-> NULL, new |-> NULL,
                   ans |-> NoAnswer]
Idle == Doing("idle", NULL)

Request == [pc: Steps, t: TransferIds \cup {NULL}, merged: TransferIds \cup {NULL},
            old: TxnIds \cup {NULL}, new: TxnIds \cup {NULL}, ans: Answer]

Present(t) == transfer[t] # NULL
Exists(x)  == txn[x] # NULL
Imported(t) == Present(t) /\ transfer[t].source = "BYBIT"

\* A primary key is never handed out twice, and a handler keeps the ids it read.
FreshRow(t) == ~Present(t) /\ \A r \in Requests : t \notin {req[r].t, req[r].merged}
FreshTxn(x) == ~Exists(x) /\ \A r \in Requests : x \notin {req[r].old, req[r].new}

\* A handler of one write needs a free place too, for as long as that write.
HandlerFree == \E r \in Requests : req[r].pc = "idle"

\* Income only arrives and expenses only leave.
Fits(c, dir) == c \in (IF dir = "IN" THEN IncomeCats ELSE ExpenseCats)

TypeOK ==
    /\ transfer \in [TransferIds -> Transfer \cup {NULL}]
    /\ txn \in [TxnIds -> Txn \cup {NULL}]
    /\ categories \subseteq Cats
    /\ held \in [Venues -> [Slots -> Nat]]
    /\ req \in [Requests -> Request]
    /\ story \in [TransferIds -> Stories]
    /\ stated \in [Venues -> Int]
    /\ mishaps \subseteq {"interrupted"}

Init ==
    /\ transfer = [t \in TransferIds |-> NULL]
    /\ txn = [x \in TxnIds |-> NULL]
    /\ categories = Cats
    /\ held = [v \in Venues |-> [s \in Slots |-> 0]]
    /\ req = [r \in Requests |-> Idle]
    /\ story = [t \in TransferIds |-> "none"]
    /\ stated = [v \in Venues |-> 0]
    /\ mishaps = {}

-----------------------------------------------------------------------------
(***************************************************************************)
(* Coins tracked on manual venues.                                         *)
(***************************************************************************)

Total(slots) == MapThenSumSet(LAMBDA s : slots[s], Slots)

OnlyTracked(slots, delta) == {s \in Slots : slots[s] > 0}        \* faulty version

\* The rows a coin may be written to: one already there, whichever is found first,
\* or else a new one, made only for an arrival.
RowsFor(slots, delta) ==
    LET rows == {s \in Slots : slots[s] > 0} IN
    IF rows = {} /\ delta > 0 THEN Slots ELSE rows

\* The row is adjusted in place, and dropped once drained.
MovedSlots(slots, delta) ==
    IF delta = 0 \/ RowsFor(slots, delta) = {} THEN {slots}
    ELSE {[slots EXCEPT ![s] = IF @ + delta > 0 THEN @ + delta ELSE 0] :
             s \in RowsFor(slots, delta)}

\* A live venue is left alone: the exchange reports its own coins.
Moved(h, v, delta) ==
    IF v \in Manual
    THEN {[h EXCEPT ![v] = slots] : slots \in MovedSlots(h[v], delta)}
    ELSE {h}

\* Applies (+1) or takes back (-1) the coins of a transfer on both of its sides.
\* An imported row's own venue is the exchange that reported it.
ShiftComposition(t, sign) ==
    IF ~Present(t) THEN UNCHANGED held
    ELSE LET row     == transfer[t]
             towards == sign * (IF row.dir = "IN" THEN row.coins ELSE -row.coins)
         IN  \E h \in Moved(held, row.venue, IF row.source = "MANUAL" THEN towards ELSE 0) :
                held' \in Moved(h, row.peerVenue, -towards)

\* Coins entered by hand on a venue, beside any transfer.
SetHolding(v, s, n) ==
    /\ HandlerFree
    /\ held[v][s] # n
    /\ Total(held[v]) - held[v][s] + n <= MaxHeld
    /\ stated[v] + n - held[v][s] \in -MaxHeld..MaxHeld
    /\ held' = [held EXCEPT ![v][s] = n]
    /\ stated' = [stated EXCEPT ![v] = @ + n - held[v][s]]
    /\ UNCHANGED <<books, req, story, mishaps>>

AddHolding(v, s, n)    == held[v][s] = 0 /\ n > 0 /\ SetHolding(v, s, n)
UpdateHolding(v, s, n) == held[v][s] > 0 /\ n > 0 /\ SetHolding(v, s, n)
RemoveHolding(v, s)    == held[v][s] > 0 /\ SetHolding(v, s, 0)

-----------------------------------------------------------------------------
(***************************************************************************)
(* Incomes, expenses and their categories.                                 *)
(***************************************************************************)

Linked(X) == {t \in TransferIds : Present(t) /\ transfer[t].link \in X}

\* Faulty versions, which the properties must tell from the real one.
ReopenedAtAnswer(row) == [row EXCEPT !.peer = "EXTERNAL", !.review = TRUE, !.link = NULL]
OnlyUnlinked(row)     == [row EXCEPT !.link = NULL]

\* Up for review again, as someone else's money valued at what actually arrived.
Reopened(row) == [row EXCEPT !.peer = "EXTERNAL", !.money = row.usd,
                             !.review = TRUE, !.link = NULL]

ReopenLinkedTransfers(X) ==
    /\ transfer' = [t \in TransferIds |-> IF t \in Linked(X) THEN Reopened(transfer[t])
                                          ELSE transfer[t]]
    /\ story' = [t \in TransferIds |-> IF t \in Linked(X) THEN "open" ELSE story[t]]

NoSync(x, m) == UNCHANGED transfer                               \* faulty version

Resized(row, m) == [row EXCEPT !.money = m]

\* The transfer beside a transaction moves by the same amount.
SyncLinkedTransfer(x, m) ==
    transfer' = [t \in TransferIds |-> IF t \in Linked({x}) THEN Resized(transfer[t], m)
                                       ELSE transfer[t]]

Unlinked(row) == [row EXCEPT !.link = NULL]

\* The foreign key of a transfer is set to NULL when its transaction goes.
UnlinkDeleted(X) ==
    /\ transfer' = [t \in TransferIds |-> IF t \in Linked(X) THEN Unlinked(transfer[t])
                                          ELSE transfer[t]]
    /\ story' = [t \in TransferIds |-> IF t \in Linked(X) THEN "torn" ELSE story[t]]

CreateTxn(x, c, m) ==
    /\ FreshTxn(x)
    /\ c \in categories
    /\ txn' = [txn EXCEPT ![x] = [cat |-> c, money |-> m]]

AddTransaction(x, c, m) ==
    /\ HandlerFree
    /\ CreateTxn(x, c, m)
    /\ UNCHANGED <<transfer, categories, held, req, story, stated, mishaps>>

SameTable(c, d) == {c, d} \subseteq IncomeCats \/ {c, d} \subseteq ExpenseCats

\* The row is read; whether the money changes is decided against what was read.
\* An edit that leaves a field out writes what is there.
UpdateTransaction(r, x, c, m) ==
    /\ req[r].pc = "idle"
    /\ Exists(x)
    /\ SameTable(c, txn[x].cat)
    /\ req' = [req EXCEPT ![r] =
                  [pc |-> IF m # txn[x].money THEN "resize" ELSE "rewrite",
                   t |-> NULL, merged |-> NULL, old |-> x, new |-> NULL,
                   ans |-> [NoAnswer EXCEPT !.money = m, !.cat = c]]]
    /\ UNCHANGED <<books, held, story, stated, mishaps>>

WriteUpdated(r) ==
    LET x == req[r].old
        ans == req[r].ans IN
    /\ req[r].pc \in EditSteps
    /\ Exists(x)
    /\ ans.cat \in categories
    /\ txn' = [txn EXCEPT ![x] = [cat |-> ans.cat, money |-> ans.money]]
    /\ IF req[r].pc = "resize" THEN SyncLinkedTransfer(x, ans.money) ELSE UNCHANGED transfer
    /\ req' = [req EXCEPT ![r] = Idle]
    /\ UNCHANGED <<categories, held, story, stated, mishaps>>

\* One or many of one table: all of them or none.
RemoveTransactions(X) ==
    /\ HandlerFree
    /\ \A x \in X : Exists(x)
    /\ {txn[x].cat : x \in X} \subseteq IncomeCats \/ {txn[x].cat : x \in X} \subseteq ExpenseCats
    /\ txn' = [x \in TxnIds |-> IF x \in X THEN NULL ELSE txn[x]]
    /\ ReopenLinkedTransfers(X)
    /\ UNCHANGED <<categories, held, req, stated, mishaps>>

AddCategory(c) ==
    /\ HandlerFree
    /\ c \notin categories
    /\ categories' = categories \cup {c}
    /\ UNCHANGED <<transfer, txn, held, req, story, stated, mishaps>>

\* The database deletes the transactions of the category with it.
RemoveCategory(c) ==
    LET Gone == {x \in TxnIds : Exists(x) /\ txn[x].cat = c} IN
    /\ HandlerFree
    /\ c \in categories
    /\ categories' = categories \ {c}
    /\ txn' = [x \in TxnIds |-> IF x \in Gone THEN NULL ELSE txn[x]]
    /\ UnlinkDeleted(Gone)
    /\ UNCHANGED <<held, req, stated, mishaps>>

MergeCategory(c, target) ==
    /\ HandlerFree
    /\ c # target
    /\ {c, target} \subseteq categories
    /\ SameTable(c, target)
    /\ categories' = categories \ {c}
    /\ txn' = [x \in TxnIds |-> IF Exists(x) /\ txn[x].cat = c
                                THEN [txn[x] EXCEPT !.cat = target] ELSE txn[x]]
    /\ UNCHANGED <<transfer, held, req, story, stated, mishaps>>

-----------------------------------------------------------------------------
(***************************************************************************)
(* Movements the exchange reports, written by the background sync.         *)
(***************************************************************************)

AddRow(t, row, told) ==
    /\ FreshRow(t)
    /\ transfer' = [transfer EXCEPT ![t] = row]
    /\ story' = [story EXCEPT ![t] = told]

ImportMovement(t, v, dir, usd, n) ==
    /\ AddRow(t, [venue |-> v, dir |-> dir, peer |-> "EXTERNAL", peerVenue |-> NULL,
                  money |-> usd, usd |-> usd, coins |-> n, source |-> "BYBIT",
                  review |-> TRUE, link |-> NULL], "open")
    /\ UNCHANGED <<txn, categories, held, req, stated, mishaps>>

RecordP2pOrder(t, v, dir, m, n) ==
    /\ AddRow(t, [venue |-> v, dir |-> dir, peer |-> "LEDGER", peerVenue |-> NULL,
                  money |-> m, usd |-> ToUsd[m], coins |-> n, source |-> "BYBIT",
                  review |-> FALSE, link |-> NULL], "other")
    /\ UNCHANGED <<txn, categories, held, req, stated, mishaps>>

-----------------------------------------------------------------------------
(***************************************************************************)
(* Transfers kept by hand.                                                 *)
(***************************************************************************)

Begin(r, step, t) == req' = [req EXCEPT ![r] = Doing(step, t)]
Goto(r, step) == req' = [req EXCEPT ![r] = IF step = "idle" THEN Idle
                                           ELSE [@ EXCEPT !.pc = step]]
At(r, step) == req[r].pc = step

ValidPeer(v, peer, pv) == IF peer = "VENUE" THEN pv \in Venues \ {v} ELSE pv = NULL

\* Only the venue the coin leaves is checked, and only when kept by hand.
CanLeave(v, dir, pv, n) ==
    LET from == IF dir = "OUT" THEN v ELSE pv IN
    from \in Manual => n <= Total(held[from])

\* Bound: the venue the coin reaches stays within MaxHeld.
RoomFor(v, dir, pv, n) ==
    LET to == IF dir = "IN" THEN v ELSE pv IN
    to \in Manual => Total(held[to]) + n <= MaxHeld

CreateTransfer(r, t, v, dir, peer, pv, m, n) ==
    /\ At(r, "idle")
    /\ ValidPeer(v, peer, pv)
    /\ n > 0 => CanLeave(v, dir, pv, n)
    /\ RoomFor(v, dir, pv, n)
    /\ AddRow(t, [venue |-> v, dir |-> dir, peer |-> peer, peerVenue |-> pv,
                  money |-> m, usd |-> ToUsd[m], coins |-> n, source |-> "MANUAL",
                  review |-> FALSE, link |-> NULL], "own")
    /\ IF n > 0 THEN Begin(r, "shift", t) ELSE UNCHANGED req
    /\ UNCHANGED <<txn, categories, held, stated, mishaps>>

ShiftCreated(r) ==
    /\ At(r, "shift")
    /\ ShiftComposition(req[r].t, 1)
    /\ Goto(r, "idle")
    /\ UNCHANGED <<books, story, stated, mishaps>>

EditAnything(t, dir, m) == Present(t)                            \* faulty version

\* The facts of an imported row are the exchange's, and so is the size of a coin
\* move: only its money side, against the wallet, is free to fix.
FreeToEdit(t, dir, m) ==
    /\ Present(t) /\ transfer[t].source = "MANUAL"
    /\ transfer[t].coins > 0 => /\ dir = transfer[t].dir
                                /\ m # transfer[t].money => transfer[t].peer = "LEDGER"

Edited(row, dir, m) == [row EXCEPT !.dir = dir, !.money = m, !.usd = ToUsd[m]]

UpdateTransfer(t, dir, m) ==
    /\ HandlerFree
    /\ FreeToEdit(t, dir, m)
    /\ transfer' = [transfer EXCEPT ![t] = Edited(@, dir, m)]
    /\ UNCHANGED <<txn, categories, held, req, story, stated, mishaps>>

DeleteRow(t) ==
    /\ transfer' = [transfer EXCEPT ![t] = NULL]
    /\ story' = [story EXCEPT ![t] = "none"]

\* The coins are put back before the record of having moved them is deleted.
RemoveTransfer(r, t) ==
    /\ At(r, "idle")
    /\ Present(t) /\ transfer[t].source = "MANUAL"
    /\ ShiftComposition(t, -1)
    /\ Begin(r, "delete", t)
    /\ UNCHANGED <<books, story, stated, mishaps>>

DeleteRemoved(r) ==
    /\ At(r, "delete")
    /\ Present(req[r].t)
    /\ DeleteRow(req[r].t)
    /\ Goto(r, "idle")
    /\ UNCHANGED <<txn, categories, held, stated, mishaps>>

-----------------------------------------------------------------------------
(***************************************************************************)
(* Classify: says what an imported movement was; a second answer replaces  *)
(* the first.  After the checks it undoes the coins the old answer moved,  *)
(* deletes the transaction the old answer made, records the new one,       *)
(* writes the row, and moves the coins again.                              *)
(***************************************************************************)

StartAnswer(r, t, merged, ans, step) ==
    req' = [req EXCEPT ![r] = [pc |-> step, t |-> t, merged |-> merged, new |-> NULL,
                               old |-> transfer[t].link, ans |-> ans]]

Classify(r, t, ans) ==
    /\ At(r, "idle")
    /\ Imported(t)
    /\ ans.cat # NULL => ans.peer = "LEDGER" /\ Fits(ans.cat, transfer[t].dir)
    /\ (ans.peer = "LEDGER") = (ans.money # NULL)
    /\ ValidPeer(transfer[t].venue, ans.peer, ans.peerVenue)
    /\ StartAnswer(r, t, NULL, ans, "unshift")
    /\ UNCHANGED <<books, held, story, stated, mishaps>>

\* The hand-recorded duplicate is folded in: its answer is taken over.
ClassifyReplacing(r, t, m) ==
    /\ At(r, "idle")
    /\ Imported(t)
    /\ Present(m) /\ transfer[m].source = "MANUAL"
    /\ transfer[m].venue = transfer[t].venue
    /\ transfer[m].dir = transfer[t].dir
    /\ StartAnswer(r, t, m, [peer |-> transfer[m].peer, peerVenue |-> transfer[m].peerVenue,
                             money |-> transfer[m].money, cat |-> NULL], "takeOver")
    /\ UNCHANGED <<books, held, story, stated, mishaps>>

TakeOver(r) ==
    /\ At(r, "takeOver")
    /\ Present(req[r].merged)
    /\ ShiftComposition(req[r].merged, -1)
    /\ Goto(r, "takeDelete")
    /\ UNCHANGED <<books, story, stated, mishaps>>

DeleteTakenOver(r) ==
    /\ At(r, "takeDelete")
    /\ Present(req[r].merged)
    /\ DeleteRow(req[r].merged)
    /\ Goto(r, "unshift")
    /\ UNCHANGED <<txn, categories, held, stated, mishaps>>

Unshift(r) ==
    /\ At(r, "unshift")
    /\ ShiftComposition(req[r].t, -1)
    /\ Goto(r, IF req[r].old # NULL THEN "drop"
               ELSE IF req[r].ans.cat # NULL THEN "record" ELSE "answer")
    /\ UNCHANGED <<books, story, stated, mishaps>>

DropLinkedTransaction(r) ==
    /\ At(r, "drop")
    /\ Exists(req[r].old)
    /\ txn' = [txn EXCEPT ![req[r].old] = NULL]
    /\ UnlinkDeleted({req[r].old})
    /\ Goto(r, IF req[r].ans.cat # NULL THEN "record" ELSE "answer")
    /\ UNCHANGED <<categories, held, stated, mishaps>>

RecordEarnedOrSpent(r, x) ==
    /\ At(r, "record")
    /\ CreateTxn(x, req[r].ans.cat, req[r].ans.money)
    /\ req' = [req EXCEPT ![r] = [@ EXCEPT !.pc = "answer", !.new = x]]
    /\ UNCHANGED <<transfer, categories, held, story, stated, mishaps>>

\* Faulty versions: the money said is written whatever the peer; still in review.
AnsweredInMoneySaid(row, ans, new) ==
    [row EXCEPT !.peer = ans.peer, !.peerVenue = ans.peerVenue, !.money = ans.money,
                !.review = FALSE, !.link = new]
AnsweredStillOpen(row, ans, new) ==
    [row EXCEPT !.peer = ans.peer, !.peerVenue = ans.peerVenue,
                !.money = IF ans.peer = "LEDGER" THEN ans.money ELSE row.usd, !.link = new]

Answered(row, ans, new) ==
    [row EXCEPT !.peer = ans.peer, !.peerVenue = ans.peerVenue,
                !.money = IF ans.peer = "LEDGER" THEN ans.money ELSE row.usd,
                !.review = FALSE, !.link = new]

WriteAnswer(r) ==
    LET t == req[r].t IN
    /\ At(r, "answer")
    /\ req[r].new # NULL => Exists(req[r].new)
    /\ transfer' = [transfer EXCEPT ![t] = Answered(transfer[t], req[r].ans, req[r].new)]
    /\ story' = [story EXCEPT ![t] = IF req[r].new # NULL THEN "earned" ELSE "other"]
    /\ Goto(r, "reshift")
    /\ UNCHANGED <<txn, categories, held, stated, mishaps>>

Reshift(r) ==
    /\ At(r, "reshift")
    /\ ShiftComposition(req[r].t, 1)
    /\ Goto(r, "idle")
    /\ UNCHANGED <<books, story, stated, mishaps>>

\* A handler ends between two writes: the plan's limit, a category or a row that
\* is gone, a database error, the process stopping.  Bound: where coins are
\* tracked this happens once, a repeated one would add coins without end.
Fail(r) ==
    /\ ~At(r, "idle")
    /\ "interrupted" \notin mishaps
    /\ Goto(r, "idle")
    /\ mishaps' = IF Manual = {} THEN mishaps ELSE mishaps \cup {"interrupted"}
    /\ UNCHANGED <<books, held, story, stated>>

-----------------------------------------------------------------------------
UserEdits ==
    \/ \E v \in Manual, s \in Slots, n \in ManualCoins :
          AddHolding(v, s, n) \/ UpdateHolding(v, s, n)
    \/ \E v \in Manual, s \in Slots : RemoveHolding(v, s)
    \/ \E x \in TxnIds, c \in Cats, m \in Money : AddTransaction(x, c, m)
    \/ \E X \in (SUBSET TxnIds) \ {{}} : RemoveTransactions(X)
    \/ \E c \in Cats : AddCategory(c) \/ RemoveCategory(c)
    \/ \E c, target \in Cats : MergeCategory(c, target)
    \/ \E t \in TransferIds, dir \in Directions, m \in Money : UpdateTransfer(t, dir, m)

Sync ==
    \E t \in TransferIds, v \in LiveVenues, dir \in Directions, m \in Money, n \in ImportCoins :
        ImportMovement(t, v, dir, m, n) \/ RecordP2pOrder(t, v, dir, m, n)

Handler(r) ==
    \/ \E x \in TxnIds, c \in Cats, m \in Money : UpdateTransaction(r, x, c, m)
    \/ WriteUpdated(r)
    \/ \E t \in TransferIds, v \in Venues, dir \in Directions, peer \in Peers,
          pv \in Venues \cup {NULL}, m \in Money, n \in ManualCoins :
          CreateTransfer(r, t, v, dir, peer, pv, m, n)
    \/ ShiftCreated(r)
    \/ \E t \in TransferIds : RemoveTransfer(r, t)
    \/ DeleteRemoved(r)
    \/ \E t \in TransferIds, ans \in Answer : Classify(r, t, ans)
    \/ \E t, m \in TransferIds : ClassifyReplacing(r, t, m)
    \/ TakeOver(r) \/ DeleteTakenOver(r)
    \/ Unshift(r) \/ DropLinkedTransaction(r)
    \/ \E x \in TxnIds : RecordEarnedOrSpent(r, x)
    \/ WriteAnswer(r) \/ Reshift(r)
    \/ Fail(r)

Next == UserEdits \/ Sync \/ \E r \in Requests : Handler(r)

Spec == Init /\ [][Next]_vars

-----------------------------------------------------------------------------
(***************************************************************************)
(* What must hold.                                                         *)
(***************************************************************************)

\* What the row of a movement looks like, for what the user last said of it.
RowTells(t) ==
    LET row == transfer[t] IN
    /\ Present(t) <=> story[t] # "none"
    /\ story[t] = "own" => row.source = "MANUAL"
    /\ story[t] \notin {"none", "own"} => row.source = "BYBIT"
    /\ Present(t) => /\ row.review <=> story[t] = "open"
                     /\ row.link # NULL <=> story[t] = "earned"
    /\ story[t] = "open" => row.peer = "EXTERNAL"
    /\ story[t] = "earned" => /\ row.peer = "LEDGER"
                              /\ Exists(row.link)
                              /\ Fits(txn[row.link].cat, row.dir)

\* Whatever handlers interleave or die halfway, the columns of a row agree with
\* each other and with the last answer: only a movement answered as earned is
\* tied to a transaction, which exists, is of the table its direction allows and
\* is tied to it alone, and only an unexplained one is up for review.
AnswersHold ==
    /\ \A t \in TransferIds : RowTells(t)
    /\ \A t, u \in TransferIds :
          story[t] = "earned" /\ story[u] = "earned" /\ transfer[t].link = transfer[u].link
             => t = u

\* What a handler has read, checked or created stays true until it is used, whatever
\* runs in between: the row it answers is still an imported one in the direction its
\* category was checked against, the row it deletes is one kept by hand, the
\* transaction it made belongs to no movement yet and to no other handler, and the
\* one it edits has not turned into another.
ReadsStand(r) ==
    LET q == req[r] IN
    /\ q.pc \notin {"idle"} \cup EditSteps => q.t \in TransferIds
    /\ q.pc \in AnswerSteps => Imported(q.t)
    /\ q.pc = "delete" /\ Present(q.t) => transfer[q.t].source = "MANUAL"
    /\ q.pc \in {"takeOver", "takeDelete"} =>
          /\ q.merged \in TransferIds
          /\ Present(q.merged) => transfer[q.merged].source = "MANUAL"
    /\ q.pc = "drop" => q.old # NULL
    /\ q.ans.peer = "LEDGER" => q.ans.money # NULL
    /\ q.pc \in AnswerSteps /\ q.ans.cat # NULL => /\ q.ans.peer = "LEDGER"
                                                  /\ Fits(q.ans.cat, transfer[q.t].dir)
    /\ q.pc = "record" => q.ans.cat # NULL
    /\ q.pc = "answer" /\ q.new # NULL =>
          /\ q.ans.peer = "LEDGER"
          /\ Exists(q.new) => Fits(txn[q.new].cat, transfer[q.t].dir)
          /\ \A t \in TransferIds : Present(t) => transfer[t].link # q.new
    /\ q.new # NULL => q.pc \in {"answer", "reshift"}
    /\ q.pc \in EditSteps =>
          /\ q.old # NULL /\ q.ans.cat # NULL /\ q.ans.money # NULL
          /\ Exists(q.old) => SameTable(q.ans.cat, txn[q.old].cat)

HandlersHold ==
    /\ \A r \in Requests : ReadsStand(r)
    /\ \A r, q \in Requests :
          At(r, "answer") /\ At(q, "answer") /\ req[r].new = req[q].new /\ req[r].new # NULL
             => r = q

\* One event seen from two sides nets to zero in the wallet: the transfer of an
\* earned movement carries exactly the money of its transaction, through edits,
\* merges of categories, second answers and interrupted handlers.
NetsToZero ==
    \A t \in TransferIds :
        story[t] = "earned" => transfer[t].money = txn[transfer[t].link].money

\* A movement still open is valued at what actually arrived, and reopening one
\* forgets the answer's money.
OpenAtFaceValue ==
    \A t \in TransferIds : story[t] = "open" => transfer[t].money = transfer[t].usd

Answering(t) == \E r \in Requests : req[r].t = t /\ At(r, "drop")

LosesTxn(t) == Imported(t) /\ transfer[t].link # NULL /\ txn'[transfer[t].link] = NULL

\* A transfer whose transaction is deleted goes back up for review, unless a new
\* answer is replacing that transaction or its whole category was deleted.
LinkEndsInReview ==
    [][\A t \in TransferIds : LosesTxn(t) =>
          \/ transfer'[t].review
          \/ Answering(t)
          \/ txn[transfer[t].link].cat \notin categories']_vars

\* What the exchange reported stays: no handler deletes an imported row, nor
\* changes its venue, direction, coins or the dollars that actually moved.
ImportedFactsKept ==
    [][\A t \in TransferIds : Imported(t) =>
          /\ transfer'[t] # NULL
          /\ transfer'[t].source = "BYBIT"
          /\ transfer'[t].venue = transfer[t].venue
          /\ transfer'[t].dir = transfer[t].dir
          /\ transfer'[t].coins = transfer[t].coins
          /\ transfer'[t].usd = transfer[t].usd]_vars

\* Coins a recorded transfer means for a manual venue.
Effect(t, v) ==
    LET row == transfer[t]
        towards == IF row.dir = "IN" THEN row.coins ELSE -row.coins
    IN  IF ~Present(t) THEN 0
        ELSE IF row.source = "MANUAL" /\ row.venue = v THEN towards
        ELSE IF row.peerVenue = v THEN -towards ELSE 0

Recorded(v) == stated[v] + MapThenSumSet(LAMBDA t : Effect(t, v), TransferIds)

AtRest == \A r \in Requests : At(r, "idle")

\* Between handlers, as long as none died halfway, a manual venue tracks at least
\* the coins its records add up to: a coin is never lost, however transfers are
\* recorded, removed, answered again or merged.
CoinsNeverLost ==
    AtRest /\ "interrupted" \notin mishaps => \A v \in Manual : Total(held[v]) >= Recorded(v)
=============================================================================
