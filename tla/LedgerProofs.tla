----------------------------- MODULE LedgerProofs -----------------------------
(***************************************************************************)
(* Theorems about Transfers, for any tables and any number of handlers,    *)
(* and about Reports, for any operations, currencies, rates and periods.   *)
(***************************************************************************)
EXTENDS Transfers, Reports, Sums, TLAPS

-----------------------------------------------------------------------------
(***************************************************************************)
(* Records: what the operators that rewrite a row or a handler return.     *)
(***************************************************************************)

LEMMA DoingType ==
    ASSUME NEW step \in Steps, NEW t \in TransferIds \cup {NULL}
    PROVE  /\ Doing(step, t) \in Request
           /\ Doing(step, t).pc = step /\ Doing(step, t).t = t
           /\ Doing(step, t).new = NULL /\ Doing(step, t).ans = NoAnswer
BY DEF Doing, Request, NoAnswer, Answer, Peers

LEMMA IdleType == Idle \in Request /\ Idle.pc = "idle" /\ Idle.new = NULL /\ Idle.ans = NoAnswer
BY DoingType DEF Idle, Steps, AnswerSteps, EditSteps

LEMMA BeginType ==
    ASSUME req \in [Requests -> Request], NEW r \in Requests, NEW step \in {"shift", "delete"},
           NEW t \in TransferIds, Begin(r, step, t)
    PROVE  req' \in [Requests -> Request]
<1>1. step \in Steps
  BY DEF Steps
<1>2. Doing(step, t) \in Request
  BY <1>1, DoingType
<1> QED
  BY <1>2 DEF Begin

LEMMA ReopenedType ==
    ASSUME NEW row \in Transfer
    PROVE  /\ Reopened(row) \in Transfer
           /\ Reopened(row).venue = row.venue /\ Reopened(row).dir = row.dir
           /\ Reopened(row).coins = row.coins /\ Reopened(row).source = row.source
           /\ Reopened(row).usd = row.usd
           /\ Reopened(row).peer = "EXTERNAL" /\ Reopened(row).money = row.usd
           /\ Reopened(row).review /\ Reopened(row).link = NULL
BY DEF Reopened, Transfer, Peers

LEMMA AnsweredType ==
    ASSUME NEW row \in Transfer, NEW ans \in Answer, NEW new \in TxnIds \cup {NULL},
           ans.peer = "LEDGER" => ans.money # NULL
    PROVE  /\ Answered(row, ans, new) \in Transfer
           /\ Answered(row, ans, new).venue = row.venue
           /\ Answered(row, ans, new).dir = row.dir
           /\ Answered(row, ans, new).coins = row.coins
           /\ Answered(row, ans, new).source = row.source
           /\ Answered(row, ans, new).usd = row.usd
           /\ Answered(row, ans, new).peer = ans.peer
           /\ ~Answered(row, ans, new).review
           /\ Answered(row, ans, new).link = new
<1> DEFINE m == IF ans.peer = "LEDGER" THEN ans.money ELSE row.usd
<1>1. m \in Money
  BY DEF Answer, Transfer
<1> QED
  BY <1>1 DEF Answered, Answer, Transfer

LEMMA EditedType ==
    ASSUME NEW row \in Transfer, NEW dir \in Directions, NEW m \in Money
    PROVE  /\ Edited(row, dir, m) \in Transfer
           /\ Edited(row, dir, m).source = row.source
           /\ (Edited(row, dir, m).review <=> row.review)
           /\ Edited(row, dir, m).link = row.link
           /\ Edited(row, dir, m).peer = row.peer
BY ConstantsAssumption DEF Edited, Transfer

LEMMA ResizedType ==
    ASSUME NEW row \in Transfer, NEW m \in Money
    PROVE  /\ Resized(row, m) \in Transfer
           /\ Resized(row, m).venue = row.venue /\ Resized(row, m).dir = row.dir
           /\ Resized(row, m).coins = row.coins /\ Resized(row, m).source = row.source
           /\ Resized(row, m).usd = row.usd /\ (Resized(row, m).review <=> row.review)
           /\ Resized(row, m).link = row.link /\ Resized(row, m).peer = row.peer
           /\ Resized(row, m).money = m
BY DEF Resized, Transfer

LEMMA UnlinkedType ==
    ASSUME NEW row \in Transfer
    PROVE  /\ Unlinked(row) \in Transfer
           /\ Unlinked(row).venue = row.venue /\ Unlinked(row).dir = row.dir
           /\ Unlinked(row).coins = row.coins /\ Unlinked(row).source = row.source
           /\ Unlinked(row).usd = row.usd /\ (Unlinked(row).review <=> row.review)
           /\ Unlinked(row).link = NULL
BY DEF Unlinked, Transfer

LEMMA GotoType ==
    ASSUME req \in [Requests -> Request], NEW r \in Requests, NEW step \in Steps, Goto(r, step)
    PROVE  /\ req' \in [Requests -> Request]
           /\ \A q \in Requests \ {r} : req'[q] = req[q]
           /\ step = "idle" => req'[r] = Idle
           /\ step # "idle" => /\ req'[r].pc = step
                              /\ req'[r].t = req[r].t /\ req'[r].merged = req[r].merged
                              /\ req'[r].old = req[r].old /\ req'[r].new = req[r].new
                              /\ req'[r].ans = req[r].ans
<1> DEFINE q == [req[r] EXCEPT !.pc = step]
<1>1. q \in Request /\ q.pc = step /\ q.t = req[r].t /\ q.merged = req[r].merged
      /\ q.old = req[r].old /\ q.new = req[r].new /\ q.ans = req[r].ans
  BY DEF Request
<1>2. req' = [req EXCEPT ![r] = IF step = "idle" THEN Idle ELSE q]
  BY DEF Goto
<1> HIDE DEF q
<1> QED
  BY <1>1, <1>2, IdleType

-----------------------------------------------------------------------------
(***************************************************************************)
(* Coins: whatever row they land on, a venue tracks a natural number.      *)
(***************************************************************************)

LEMMA MovedType ==
    ASSUME NEW h \in [Venues -> [Slots -> Nat]], NEW v, NEW delta \in Int,
           NEW g \in Moved(h, v, delta)
    PROVE  g \in [Venues -> [Slots -> Nat]]
<1>1. CASE v \notin Manual
  BY <1>1 DEF Moved
<1>2. CASE v \in Manual
  <2>1. PICK slots \in MovedSlots(h[v], delta) : g = [h EXCEPT ![v] = slots]
    BY <1>2 DEF Moved
  <2>2. h[v] \in [Slots -> Nat]
    BY <1>2 DEF Manual
  <2>3. RowsFor(h[v], delta) \subseteq Slots
    BY DEF RowsFor
  <2>4. slots \in [Slots -> Nat]
    BY <2>1, <2>2, <2>3 DEF MovedSlots
  <2> QED
    BY <2>1, <2>4
<1> QED
  BY <1>1, <1>2

LEMMA ShiftType ==
    ASSUME transfer \in [TransferIds -> Transfer \cup {NULL}],
           held \in [Venues -> [Slots -> Nat]],
           NEW t \in TransferIds, NEW sign \in {1, -1}, ShiftComposition(t, sign)
    PROVE  held' \in [Venues -> [Slots -> Nat]]
<1>1. CASE ~Present(t)
  BY <1>1 DEF ShiftComposition
<1>2. CASE Present(t)
  <2> DEFINE row     == transfer[t]
             towards == sign * (IF row.dir = "IN" THEN row.coins ELSE -row.coins)
  <2>1. row.coins \in Nat
    BY <1>2 DEF Present, Transfer
  <2>2. towards \in Int /\ -towards \in Int
    BY <2>1
  <2>3. PICK h \in Moved(held, row.venue, IF row.source = "MANUAL" THEN towards ELSE 0) :
           held' \in Moved(h, row.peerVenue, -towards)
    BY <1>2 DEF ShiftComposition
  <2> HIDE DEF row, towards
  <2>4. h \in [Venues -> [Slots -> Nat]]
    BY <2>2, <2>3, MovedType
  <2> QED
    BY <2>2, <2>3, <2>4, MovedType
<1> QED
  BY <1>1, <1>2

-----------------------------------------------------------------------------
(***************************************************************************)
(* Types.                                                                  *)
(***************************************************************************)

LEMMA TypeInit == Init => TypeOK
BY IdleType DEF Init, TypeOK, Stories

\* The row of a handler that is answering a movement.
LEMMA HandlersRow ==
    ASSUME TypeOK, HandlersHold, NEW r \in Requests, req[r].pc \notin {"idle"} \cup EditSteps
    PROVE  /\ req[r] \in Request /\ req[r].t \in TransferIds
           /\ req[r].pc \in AnswerSteps => transfer[req[r].t] \in Transfer
BY DEF TypeOK, HandlersHold, ReadsStand, Imported, Present

\* What an edit in progress was told.
LEMMA HandlersEdit ==
    ASSUME TypeOK, HandlersHold, NEW r \in Requests, req[r].pc \in EditSteps
    PROVE  /\ req[r].old \in TxnIds /\ req[r].ans.cat \in Cats /\ req[r].ans.money \in Money
           /\ Exists(req[r].old) => SameTable(req[r].ans.cat, txn[req[r].old].cat)
BY DEF TypeOK, HandlersHold, ReadsStand, Request, Answer

LEMMA TypeStep ==
    ASSUME TypeOK, HandlersHold, [Next]_vars
    PROVE  TypeOK'
<1> USE ConstantsAssumption
<1>1. ASSUME NEW v \in Manual, NEW s \in Slots, NEW n \in Nat, SetHolding(v, s, n)
      PROVE  TypeOK'
  <2>1. v \in Venues /\ held[v] \in [Slots -> Nat] /\ held[v][s] \in Nat /\ stated[v] \in Int
    BY <1>1 DEF Manual, TypeOK
  <2>2. held' \in [Venues -> [Slots -> Nat]] /\ stated' \in [Venues -> Int]
    BY <1>1, <2>1 DEF SetHolding, TypeOK
  <2> QED
    BY <1>1, <2>2 DEF SetHolding, books, TypeOK
<1>2. ASSUME NEW x \in TxnIds, NEW c \in Cats, NEW m \in Money, AddTransaction(x, c, m)
      PROVE  TypeOK'
  BY <1>2 DEF AddTransaction, CreateTxn, Txn, TypeOK
<1>3. ASSUME NEW r \in Requests, NEW x \in TxnIds, NEW c \in Cats, NEW m \in Money,
             UpdateTransaction(r, x, c, m)
      PROVE  TypeOK'
  <2> DEFINE q == [pc |-> IF m # txn[x].money THEN "resize" ELSE "rewrite",
                   t |-> NULL, merged |-> NULL, old |-> x, new |-> NULL,
                   ans |-> [NoAnswer EXCEPT !.money = m, !.cat = c]]
  <2>1. q \in Request
    BY DEF Request, Answer, NoAnswer, Peers, Steps, AnswerSteps, EditSteps
  <2>2. req' = [req EXCEPT ![r] = q]
    BY <1>3 DEF UpdateTransaction
  <2> HIDE DEF q
  <2> QED
    BY <1>3, <2>1, <2>2 DEF UpdateTransaction, books, TypeOK
<1>14. ASSUME NEW r \in Requests, WriteUpdated(r)
       PROVE  TypeOK'
  <2>1. req[r].old \in TxnIds /\ req[r].ans.cat \in Cats /\ req[r].ans.money \in Money
    BY <1>14, HandlersEdit DEF WriteUpdated
  <2>2. transfer' \in [TransferIds -> Transfer \cup {NULL}]
    BY <1>14, <2>1, ResizedType DEF WriteUpdated, SyncLinkedTransfer, Linked, Present, TypeOK
  <2>3. req' \in [Requests -> Request]
    BY <1>14, IdleType DEF WriteUpdated, TypeOK
  <2>4. txn' \in [TxnIds -> Txn \cup {NULL}]
    BY <1>14, <2>1 DEF WriteUpdated, Txn, TypeOK
  <2> QED
    BY <1>14, <2>2, <2>3, <2>4 DEF WriteUpdated, TypeOK
<1>4. ASSUME NEW X \in SUBSET TxnIds, RemoveTransactions(X)
      PROVE  TypeOK'
  <2>1. transfer' \in [TransferIds -> Transfer \cup {NULL}] /\ story' \in [TransferIds -> Stories]
    BY <1>4, ReopenedType
    DEF RemoveTransactions, ReopenLinkedTransfers, Linked, Present, Stories, TypeOK
  <2> QED
    BY <1>4, <2>1 DEF RemoveTransactions, TypeOK
<1>5. ASSUME NEW X, UnlinkDeleted(X)
      PROVE  transfer' \in [TransferIds -> Transfer \cup {NULL}] /\ story' \in [TransferIds -> Stories]
  BY <1>5, UnlinkedType DEF UnlinkDeleted, Linked, Present, Stories, TypeOK
<1>6. ASSUME NEW c \in Cats, AddCategory(c) \/ RemoveCategory(c)
      PROVE  TypeOK'
  BY <1>5, <1>6 DEF AddCategory, RemoveCategory, TypeOK
<1>7. ASSUME NEW c \in Cats, NEW target \in Cats, MergeCategory(c, target)
      PROVE  TypeOK'
  BY <1>7 DEF MergeCategory, Exists, Txn, TypeOK
<1>8. ASSUME NEW t \in TransferIds, NEW dir \in Directions, NEW m \in Money,
             UpdateTransfer(t, dir, m)
      PROVE  TypeOK'
  <2>1. transfer' \in [TransferIds -> Transfer \cup {NULL}]
    BY <1>8, EditedType DEF UpdateTransfer, FreeToEdit, Present, TypeOK
  <2> QED
    BY <1>8, <2>1 DEF UpdateTransfer, TypeOK
<1>9. ASSUME NEW t \in TransferIds, NEW row \in Transfer, NEW told \in Stories, AddRow(t, row, told)
      PROVE  transfer' \in [TransferIds -> Transfer \cup {NULL}] /\ story' \in [TransferIds -> Stories]
  BY <1>9 DEF AddRow, TypeOK
<1>10. ASSUME NEW t \in TransferIds, NEW v \in LiveVenues, NEW dir \in Directions,
              NEW m \in Money, NEW n \in ImportCoins,
              ImportMovement(t, v, dir, m, n) \/ RecordP2pOrder(t, v, dir, m, n)
       PROVE  TypeOK'
  BY <1>9, <1>10 DEF ImportMovement, RecordP2pOrder, Transfer, Peers, Stories, TypeOK
<1>11. ASSUME NEW r \in Requests, Handler(r)
       PROVE  TypeOK'
  <2>1. ASSUME NEW t \in TransferIds, NEW v \in Venues, NEW dir \in Directions, NEW peer \in Peers,
               NEW pv \in Venues \cup {NULL}, NEW m \in Money, NEW n \in ManualCoins,
               CreateTransfer(r, t, v, dir, peer, pv, m, n)
        PROVE  TypeOK'
    <3>1. transfer' \in [TransferIds -> Transfer \cup {NULL}] /\ story' \in [TransferIds -> Stories]
      BY <1>9, <2>1 DEF CreateTransfer, Transfer, Stories
    <3>2. req' \in [Requests -> Request]
      <4>1. UNCHANGED req \/ Begin(r, "shift", t)
        BY <2>1 DEF CreateTransfer
      <4> QED
        BY <4>1, BeginType DEF TypeOK
    <3> QED
      BY <2>1, <3>1, <3>2 DEF CreateTransfer, TypeOK
  <2>2. CASE ShiftCreated(r) \/ Unshift(r) \/ Reshift(r)
    <3>1. req[r].t \in TransferIds
      BY <1>11, <2>2, HandlersRow DEF ShiftCreated, Unshift, Reshift, At, AnswerSteps, EditSteps
    <3>2. held' \in [Venues -> [Slots -> Nat]]
      BY <2>2, <3>1, ShiftType DEF ShiftCreated, Unshift, Reshift, TypeOK
    <3>3. req' \in [Requests -> Request]
      BY <1>11, <2>2, GotoType DEF ShiftCreated, Unshift, Reshift, Steps, AnswerSteps, EditSteps, TypeOK
    <3> QED
      BY <2>2, <3>2, <3>3 DEF ShiftCreated, Unshift, Reshift, books, TypeOK
  <2>3. ASSUME NEW t \in TransferIds, RemoveTransfer(r, t)
        PROVE  TypeOK'
    <3>1. held' \in [Venues -> [Slots -> Nat]]
      BY <2>3, ShiftType DEF RemoveTransfer, TypeOK
    <3>2. req' \in [Requests -> Request]
      BY <2>3, BeginType DEF RemoveTransfer, TypeOK
    <3> QED
      BY <2>3, <3>1, <3>2 DEF RemoveTransfer, books, TypeOK
  <2>4. ASSUME NEW t, DeleteRow(t)
        PROVE  transfer' \in [TransferIds -> Transfer \cup {NULL}] /\ story' \in [TransferIds -> Stories]
    BY <2>4 DEF DeleteRow, Stories, TypeOK
  <2>5. CASE DeleteRemoved(r) \/ DeleteTakenOver(r)
    BY <1>11, <2>4, <2>5, GotoType DEF DeleteRemoved, DeleteTakenOver, Steps, AnswerSteps, EditSteps, TypeOK
  <2>6. ASSUME NEW t \in TransferIds, NEW merged \in TransferIds \cup {NULL}, NEW ans \in Answer,
               NEW step \in Steps, Present(t), StartAnswer(r, t, merged, ans, step)
        PROVE  req' \in [Requests -> Request]
    <3>1. transfer[t].link \in TxnIds \cup {NULL}
      BY <2>6 DEF Present, Transfer, TypeOK
    <3>2. [pc |-> step, t |-> t, merged |-> merged, new |-> NULL,
           old |-> transfer[t].link, ans |-> ans] \in Request
      BY <2>6, <3>1 DEF Request
    <3> QED
      BY <2>6, <3>2 DEF StartAnswer, TypeOK
  <2>7. ASSUME NEW t \in TransferIds, NEW ans \in Answer, Classify(r, t, ans)
        PROVE  TypeOK'
    BY <2>6, <2>7 DEF Classify, Imported, books, Steps, AnswerSteps, EditSteps, TypeOK
  <2>8. ASSUME NEW t \in TransferIds, NEW m \in TransferIds, ClassifyReplacing(r, t, m)
        PROVE  TypeOK'
    <3>1. transfer[m] \in Transfer
      BY <2>8 DEF ClassifyReplacing, Present, TypeOK
    <3>2. [peer |-> transfer[m].peer, peerVenue |-> transfer[m].peerVenue,
           money |-> transfer[m].money, cat |-> NULL] \in Answer
      BY <3>1 DEF Transfer, Answer
    <3>3. req' \in [Requests -> Request]
      BY <2>6, <2>8, <3>2 DEF ClassifyReplacing, Imported, Steps, AnswerSteps, EditSteps
    <3> QED
      BY <2>8, <3>3 DEF ClassifyReplacing, books, TypeOK
  <2>9. CASE TakeOver(r)
    <3>1. req[r].merged \in TransferIds
      BY <1>11, <2>9 DEF TakeOver, At, HandlersHold, ReadsStand
    <3>2. held' \in [Venues -> [Slots -> Nat]]
      BY <2>9, <3>1, ShiftType DEF TakeOver, TypeOK
    <3>3. req' \in [Requests -> Request]
      BY <1>11, <2>9, GotoType DEF TakeOver, Steps, AnswerSteps, EditSteps, TypeOK
    <3> QED
      BY <2>9, <3>2, <3>3 DEF TakeOver, books, TypeOK
  <2>10. CASE DropLinkedTransaction(r)
    <3>1. transfer' \in [TransferIds -> Transfer \cup {NULL}] /\ story' \in [TransferIds -> Stories]
      BY <1>5, <2>10 DEF DropLinkedTransaction
    <3>2. req' \in [Requests -> Request]
      BY <1>11, <2>10, GotoType DEF DropLinkedTransaction, Steps, AnswerSteps, EditSteps, TypeOK
    <3>3. txn' \in [TxnIds -> Txn \cup {NULL}]
      BY <2>10 DEF DropLinkedTransaction, TypeOK
    <3> QED
      BY <2>10, <3>1, <3>2, <3>3 DEF DropLinkedTransaction, TypeOK
  <2>11. ASSUME NEW x \in TxnIds, RecordEarnedOrSpent(r, x)
         PROVE  TypeOK'
    <3>1. req[r] \in Request /\ req[r].ans.cat \in Cats /\ req[r].ans.money \in Money
      BY <1>11, <2>11 DEF RecordEarnedOrSpent, At, HandlersHold, ReadsStand, Request, Answer, TypeOK, AnswerSteps, EditSteps
    <3>2. [req[r] EXCEPT !.pc = "answer", !.new = x] \in Request
      BY <3>1 DEF Request, Steps, AnswerSteps, EditSteps
    <3>3. req' \in [Requests -> Request]
      BY <2>11, <3>2 DEF RecordEarnedOrSpent, TypeOK
    <3> QED
      BY <2>11, <3>1, <3>3 DEF RecordEarnedOrSpent, CreateTxn, Txn, TypeOK
  <2>12. CASE WriteAnswer(r)
    <3>1. /\ req[r].t \in TransferIds /\ transfer[req[r].t] \in Transfer /\ req[r] \in Request
          /\ req[r].ans.peer = "LEDGER" => req[r].ans.money # NULL
      BY <1>11, <2>12, HandlersRow DEF WriteAnswer, At, HandlersHold, ReadsStand, AnswerSteps, EditSteps
    <3>2. Answered(transfer[req[r].t], req[r].ans, req[r].new) \in Transfer
      BY <3>1, AnsweredType DEF Request
    <3>3. transfer' \in [TransferIds -> Transfer \cup {NULL}] /\ story' \in [TransferIds -> Stories]
      BY <2>12, <3>1, <3>2 DEF WriteAnswer, Stories, TypeOK
    <3>4. req' \in [Requests -> Request]
      BY <1>11, <2>12, GotoType DEF WriteAnswer, Steps, AnswerSteps, EditSteps, TypeOK
    <3> QED
      BY <2>12, <3>3, <3>4 DEF WriteAnswer, TypeOK
  <2>13. CASE Fail(r)
    <3>1. req' \in [Requests -> Request]
      BY <1>11, <2>13, GotoType DEF Fail, Steps, AnswerSteps, EditSteps, TypeOK
    <3> QED
      BY <2>13, <3>1 DEF Fail, books, TypeOK
  <2> QED
    BY <1>3, <1>14, <1>11, <2>1, <2>2, <2>3, <2>5, <2>7, <2>8, <2>9, <2>10, <2>11, <2>12, <2>13 DEF Handler
<1>12. CASE UserEdits
  <2>1. ASSUME NEW v \in Manual, NEW s \in Slots, NEW n \in ManualCoins,
               AddHolding(v, s, n) \/ UpdateHolding(v, s, n) \/ RemoveHolding(v, s)
        PROVE  TypeOK'
    BY <1>1, <2>1 DEF AddHolding, UpdateHolding, RemoveHolding
  <2>2. ASSUME NEW v \in Manual, NEW s \in Slots, RemoveHolding(v, s)
        PROVE  TypeOK'
    BY <1>1, <2>2 DEF RemoveHolding
  <2> QED
    BY <1>2, <1>4, <1>6, <1>7, <1>8, <1>12, <2>1, <2>2 DEF UserEdits
<1>13. CASE UNCHANGED vars
  BY <1>13 DEF vars, TypeOK
<1> QED
  BY <1>10, <1>11, <1>12, <1>13 DEF Next, Sync

-----------------------------------------------------------------------------
(***************************************************************************)
(* What one step may do to a movement and to a transaction.  Every action  *)
(* of Transfers falls under these few cases, and the invariants follow     *)
(* from the cases alone.                                                   *)
(***************************************************************************)

Kept(t)     == transfer'[t] = transfer[t] /\ story'[t] = story[t]
ResizedTo(t, m) ==
    /\ Present(t) /\ transfer[t].link # NULL
    /\ transfer'[t] = Resized(transfer[t], m) /\ story'[t] = story[t]
    /\ txn'[transfer[t].link] # NULL /\ txn'[transfer[t].link].money = m
ReopenedRow(t) ==
    /\ Present(t) /\ transfer[t].link # NULL
    /\ transfer'[t] = Reopened(transfer[t]) /\ story'[t] = "open"
TornRow(t) ==
    /\ Present(t) /\ transfer[t].link # NULL
    /\ transfer'[t] = Unlinked(transfer[t]) /\ story'[t] = "torn"
EditedRow(t) ==
    /\ Present(t) /\ transfer[t].source = "MANUAL" /\ story'[t] = story[t]
    /\ \E dir \in Directions, m \in Money : transfer'[t] = Edited(transfer[t], dir, m)
AddedRow(t) ==
    /\ FreshRow(t)
    /\ transfer'[t] \in Transfer /\ transfer'[t].link = NULL
    /\ \/ story'[t] = "own" /\ transfer'[t].source = "MANUAL" /\ ~transfer'[t].review
       \/ story'[t] = "other" /\ transfer'[t].source = "BYBIT" /\ ~transfer'[t].review
       \/ /\ story'[t] = "open" /\ transfer'[t].source = "BYBIT" /\ transfer'[t].review
          /\ transfer'[t].peer = "EXTERNAL" /\ transfer'[t].money = transfer'[t].usd
DeletedRow(t) ==
    /\ Present(t) /\ transfer[t].source = "MANUAL"
    /\ transfer'[t] = NULL /\ story'[t] = "none"
AnsweredBy(r, t) ==
    /\ At(r, "answer") /\ req[r].t = t
    /\ req[r].new # NULL => Exists(req[r].new)
    /\ transfer'[t] = Answered(transfer[t], req[r].ans, req[r].new)
    /\ story'[t] = IF req[r].new # NULL THEN "earned" ELSE "other"
    /\ \A u \in TransferIds \ {t} : Kept(u)
    /\ txn' = txn
    /\ req'[r] # req[r]

RowEffect(t) ==
    \/ Kept(t)
    \/ \E m \in Money : ResizedTo(t, m)
    \/ ReopenedRow(t) \/ TornRow(t) \/ EditedRow(t) \/ AddedRow(t) \/ DeletedRow(t)
    \/ \E r \in Requests : AnsweredBy(r, t)

\* A deleted transaction takes the link of its movement with it.
TxnEffect(x) ==
    \/ txn'[x] = txn[x]
    \/ FreshTxn(x)
    \/ /\ Exists(x) /\ txn'[x] # NULL
       /\ SameTable(txn'[x].cat, txn[x].cat)
    \/ /\ txn'[x] = NULL
       /\ \A t \in TransferIds : Present(t) /\ transfer[t].link = x => ReopenedRow(t) \/ TornRow(t)

IInv == TypeOK /\ AnswersHold /\ HandlersHold /\ OpenAtFaceValue

\* Where an action leaves the rows, or the transactions, alone.
LEMMA RowsAlone ==
    ASSUME transfer' = transfer, story' = story
    PROVE  \A t \in TransferIds : RowEffect(t)
BY DEF RowEffect, Kept

LEMMA TxnsAlone == ASSUME txn' = txn PROVE \A x \in TxnIds : TxnEffect(x)
BY DEF TxnEffect

LEMMA TornEffect ==
    ASSUME NEW X \in SUBSET TxnIds, UnlinkDeleted(X), NEW t \in TransferIds
    PROVE  /\ RowEffect(t)
           /\ Present(t) /\ transfer[t].link \in X => TornRow(t)
<1>1. CASE t \in Linked(X)
  <2>1. Present(t) /\ transfer[t].link # NULL
    BY <1>1, ConstantsAssumption DEF Linked
  <2> QED
    BY <1>1, <2>1 DEF UnlinkDeleted, RowEffect, TornRow
<1>2. CASE t \notin Linked(X)
  BY <1>2 DEF UnlinkDeleted, Linked, RowEffect, Kept
<1> QED
  BY <1>1, <1>2

LEMMA ReopenedEffect ==
    ASSUME NEW X \in SUBSET TxnIds, ReopenLinkedTransfers(X), NEW t \in TransferIds
    PROVE  /\ RowEffect(t)
           /\ Present(t) /\ transfer[t].link \in X => ReopenedRow(t)
<1>1. CASE t \in Linked(X)
  <2>1. Present(t) /\ transfer[t].link # NULL
    BY <1>1, ConstantsAssumption DEF Linked
  <2> QED
    BY <1>1, <2>1 DEF ReopenLinkedTransfers, RowEffect, ReopenedRow
<1>2. CASE t \notin Linked(X)
  BY <1>2 DEF ReopenLinkedTransfers, Linked, RowEffect, Kept
<1> QED
  BY <1>1, <1>2

LEMMA AddedEffect ==
    ASSUME TypeOK, NEW t \in TransferIds, NEW row, NEW told, AddRow(t, row, told),
           row \in Transfer, row.link = NULL,
           \/ told = "own" /\ row.source = "MANUAL" /\ ~row.review
           \/ told = "other" /\ row.source = "BYBIT" /\ ~row.review
           \/ /\ told = "open" /\ row.source = "BYBIT" /\ row.review
              /\ row.peer = "EXTERNAL" /\ row.money = row.usd,
           NEW u \in TransferIds
    PROVE  RowEffect(u)
<1>1. CASE u = t
  BY <1>1 DEF AddRow, RowEffect, AddedRow, TypeOK
<1>2. CASE u # t
  BY <1>2 DEF AddRow, RowEffect, Kept, TypeOK
<1> QED
  BY <1>1, <1>2

LEMMA DeletedEffect ==
    ASSUME TypeOK, NEW t \in TransferIds, Present(t), transfer[t].source = "MANUAL",
           DeleteRow(t), NEW u \in TransferIds
    PROVE  RowEffect(u)
<1>1. CASE u = t
  BY <1>1 DEF DeleteRow, RowEffect, DeletedRow, TypeOK
<1>2. CASE u # t
  BY <1>2 DEF DeleteRow, RowEffect, Kept, TypeOK
<1> QED
  BY <1>1, <1>2

LEMMA CreatedEffect ==
    ASSUME TypeOK, NEW x \in TxnIds, NEW c, NEW m, CreateTxn(x, c, m)
    PROVE  \A y \in TxnIds : TxnEffect(y)
BY DEF CreateTxn, TxnEffect, TypeOK

LEMMA Effects ==
    ASSUME IInv, [Next]_vars
    PROVE  /\ \A t \in TransferIds : RowEffect(t)
           /\ \A x \in TxnIds : TxnEffect(x)
<1> DEFINE Goal == /\ \A t \in TransferIds : RowEffect(t)
                   /\ \A x \in TxnIds : TxnEffect(x)
<1> USE DEF IInv
<1>1. ASSUME NEW v, NEW s, NEW n, SetHolding(v, s, n)
      PROVE  Goal
  BY <1>1, RowsAlone, TxnsAlone DEF SetHolding, books
<1>2. ASSUME NEW x \in TxnIds, NEW c \in Cats, NEW m \in Money, AddTransaction(x, c, m)
      PROVE  Goal
  BY <1>2, RowsAlone, CreatedEffect DEF AddTransaction
<1>3. ASSUME NEW r \in Requests, WriteUpdated(r)
      PROVE  Goal
  <2> DEFINE x == req[r].old
             c == req[r].ans.cat
             m == req[r].ans.money
  <2>0. x \in TxnIds /\ c \in Cats /\ m \in Money /\ Exists(x) /\ SameTable(c, txn[x].cat)
    BY <1>3, HandlersEdit DEF WriteUpdated
  <2>1. /\ txn' = [txn EXCEPT ![x] = [cat |-> c, money |-> m]] /\ story' = story
        /\ transfer' = transfer \/ SyncLinkedTransfer(x, m)
    BY <1>3 DEF WriteUpdated
  <2> HIDE DEF x, c, m
  <2>2. [cat |-> c, money |-> m] # NULL
    BY <2>0, ConstantsAssumption DEF Txn
  <2>3. \A y \in TxnIds : TxnEffect(y)
    BY <2>0, <2>1, <2>2 DEF TxnEffect, TypeOK
  <2>4. CASE transfer' = transfer
    BY <2>1, <2>3, <2>4, RowsAlone
  <2>5. ASSUME SyncLinkedTransfer(x, m), NEW t \in TransferIds
        PROVE  RowEffect(t)
    <3>1. CASE t \in Linked({x})
      <4>1. Present(t) /\ transfer[t].link = x /\ x # NULL
        BY <2>0, <3>1, ConstantsAssumption DEF Linked
      <4>2. txn'[x] = [cat |-> c, money |-> m]
        BY <2>0, <2>1 DEF TypeOK
      <4>3. ResizedTo(t, m)
        BY <2>1, <2>2, <2>5, <3>1, <4>1, <4>2 DEF SyncLinkedTransfer, ResizedTo
      <4> QED
        BY <2>0, <4>3 DEF RowEffect
    <3>2. CASE t \notin Linked({x})
      BY <2>1, <2>5, <3>2 DEF SyncLinkedTransfer, RowEffect, Kept
    <3> QED
      BY <3>1, <3>2
  <2> QED
    BY <2>1, <2>3, <2>4, <2>5
<1>4. ASSUME NEW X \in SUBSET TxnIds, RemoveTransactions(X)
      PROVE  Goal
  BY <1>4, ReopenedEffect DEF RemoveTransactions, TxnEffect
<1>5. ASSUME NEW c \in Cats, AddCategory(c)
      PROVE  Goal
  BY <1>5, RowsAlone, TxnsAlone DEF AddCategory
<1>6. ASSUME NEW c \in Cats, RemoveCategory(c)
      PROVE  Goal
  <2> DEFINE Gone == {x \in TxnIds : Exists(x) /\ txn[x].cat = c}
  <2>1. UnlinkDeleted(Gone) /\ txn' = [x \in TxnIds |-> IF x \in Gone THEN NULL ELSE txn[x]]
    BY <1>6 DEF RemoveCategory
  <2>2. Gone \in SUBSET TxnIds
    OBVIOUS
  <2> HIDE DEF Gone
  <2> QED
    BY <2>1, <2>2, TornEffect DEF TxnEffect
<1>7. ASSUME NEW c \in Cats, NEW target \in Cats, MergeCategory(c, target)
      PROVE  Goal
  <2>1. ASSUME NEW x \in TxnIds
        PROVE  TxnEffect(x)
    <3>1. CASE Exists(x) /\ txn[x].cat = c
      <4>1. txn[x] \in Txn /\ txn'[x] = [txn[x] EXCEPT !.cat = target]
        BY <1>7, <3>1 DEF MergeCategory, Exists, TypeOK
      <4>2. txn'[x] \in Txn /\ txn'[x].cat = target
        BY <4>1 DEF Txn
      <4>3. txn'[x] # NULL
        BY <4>2, ConstantsAssumption
      <4> QED
        BY <1>7, <3>1, <4>2, <4>3 DEF MergeCategory, SameTable, TxnEffect
    <3>2. CASE ~(Exists(x) /\ txn[x].cat = c)
      BY <1>7, <3>2 DEF MergeCategory, TxnEffect
    <3> QED
      BY <3>1, <3>2
  <2> QED
    BY <1>7, <2>1, RowsAlone DEF MergeCategory
<1>8. ASSUME NEW t \in TransferIds, NEW dir \in Directions, NEW m \in Money,
             UpdateTransfer(t, dir, m)
      PROVE  Goal
  <2>1. Present(t) /\ transfer[t].source = "MANUAL"
    BY <1>8 DEF UpdateTransfer, FreeToEdit
  <2>2. transfer' = [transfer EXCEPT ![t] = Edited(@, dir, m)] /\ story' = story /\ txn' = txn
    BY <1>8 DEF UpdateTransfer
  <2>3. EditedRow(t)
    BY <2>1, <2>2 DEF EditedRow, TypeOK
  <2>4. \A u \in TransferIds \ {t} : Kept(u)
    BY <2>2 DEF Kept, TypeOK
  <2> QED
    BY <2>2, <2>3, <2>4, TxnsAlone DEF RowEffect
<1>9. ASSUME NEW t \in TransferIds, NEW v \in LiveVenues, NEW dir \in Directions,
             NEW m \in Money, NEW n \in ImportCoins,
             ImportMovement(t, v, dir, m, n) \/ RecordP2pOrder(t, v, dir, m, n)
      PROVE  Goal
  <2> USE ConstantsAssumption
  <2>1. CASE ImportMovement(t, v, dir, m, n)
    <3> DEFINE row == [venue |-> v, dir |-> dir, peer |-> "EXTERNAL", peerVenue |-> NULL,
                       money |-> m, usd |-> m, coins |-> n, source |-> "BYBIT",
                       review |-> TRUE, link |-> NULL]
    <3>1. row \in Transfer
      BY DEF Transfer, Peers
    <3>2. AddRow(t, row, "open") /\ txn' = txn
      BY <2>1 DEF ImportMovement
    <3>3. row.link = NULL /\ row.source = "BYBIT" /\ row.review /\ row.peer = "EXTERNAL"
          /\ row.money = row.usd
      OBVIOUS
    <3> HIDE DEF row
    <3> QED
      BY <3>1, <3>2, <3>3, AddedEffect, TxnsAlone
  <2>2. CASE RecordP2pOrder(t, v, dir, m, n)
    <3> DEFINE row == [venue |-> v, dir |-> dir, peer |-> "LEDGER", peerVenue |-> NULL,
                       money |-> m, usd |-> ToUsd[m], coins |-> n, source |-> "BYBIT",
                       review |-> FALSE, link |-> NULL]
    <3>1. row \in Transfer
      BY DEF Transfer, Peers
    <3>2. AddRow(t, row, "other") /\ txn' = txn
      BY <2>2 DEF RecordP2pOrder
    <3>3. row.link = NULL /\ row.source = "BYBIT" /\ ~row.review
      OBVIOUS
    <3> HIDE DEF row
    <3> QED
      BY <3>1, <3>2, <3>3, AddedEffect, TxnsAlone
  <2> QED
    BY <1>9, <2>1, <2>2
<1>10. ASSUME NEW r \in Requests, Handler(r)
       PROVE  Goal
  <2>1. ASSUME NEW t \in TransferIds, NEW v \in Venues, NEW dir \in Directions, NEW peer \in Peers,
               NEW pv \in Venues \cup {NULL}, NEW m \in Money, NEW n \in ManualCoins,
               CreateTransfer(r, t, v, dir, peer, pv, m, n)
        PROVE  Goal
    <3> DEFINE row == [venue |-> v, dir |-> dir, peer |-> peer, peerVenue |-> pv,
                       money |-> m, usd |-> ToUsd[m], coins |-> n, source |-> "MANUAL",
                       review |-> FALSE, link |-> NULL]
    <3>1. row \in Transfer
      BY ConstantsAssumption DEF Transfer
    <3>2. AddRow(t, row, "own") /\ txn' = txn
      BY <2>1 DEF CreateTransfer
    <3>3. row.link = NULL /\ row.source = "MANUAL" /\ ~row.review
      OBVIOUS
    <3> HIDE DEF row
    <3> QED
      BY <3>1, <3>2, <3>3, AddedEffect, TxnsAlone
  <2>2. CASE \/ ShiftCreated(r) \/ Unshift(r) \/ Reshift(r) \/ TakeOver(r) \/ Fail(r)
             \/ \E t \in TransferIds : RemoveTransfer(r, t)
             \/ \E t \in TransferIds, ans \in Answer : Classify(r, t, ans)
             \/ \E t, m \in TransferIds : ClassifyReplacing(r, t, m)
             \/ \E x \in TxnIds, c \in Cats, m \in Money : UpdateTransaction(r, x, c, m)
    <3>1. UNCHANGED <<books, story>>
      BY <2>2 DEF ShiftCreated, Unshift, Reshift, TakeOver, Fail, RemoveTransfer, Classify,
                  ClassifyReplacing, UpdateTransaction
    <3> QED
      BY <3>1, RowsAlone, TxnsAlone DEF books
  <2>3. CASE DeleteRemoved(r)
    <3>1. req[r].t \in TransferIds /\ Present(req[r].t) /\ transfer[req[r].t].source = "MANUAL"
      BY <1>10, <2>3 DEF DeleteRemoved, At, HandlersHold, ReadsStand, AnswerSteps, EditSteps
    <3> QED
      BY <2>3, <3>1, DeletedEffect, TxnsAlone DEF DeleteRemoved
  <2>4. CASE DeleteTakenOver(r)
    <3>1. /\ req[r].merged \in TransferIds /\ Present(req[r].merged)
          /\ transfer[req[r].merged].source = "MANUAL"
      BY <1>10, <2>4 DEF DeleteTakenOver, At, HandlersHold, ReadsStand
    <3> QED
      BY <2>4, <3>1, DeletedEffect, TxnsAlone DEF DeleteTakenOver
  <2>5. CASE DropLinkedTransaction(r)
    <3>1. req[r].old \in TxnIds
      BY <1>10, <2>5, HandlersRow DEF DropLinkedTransaction, At, HandlersHold, ReadsStand, Request, AnswerSteps, EditSteps
    <3>2. \A t \in TransferIds : /\ RowEffect(t)
                                 /\ Present(t) /\ transfer[t].link = req[r].old => TornRow(t)
      BY <2>5, <3>1, TornEffect DEF DropLinkedTransaction
    <3>3. \A x \in TxnIds : TxnEffect(x)
      BY <2>5, <3>2 DEF DropLinkedTransaction, TxnEffect, TypeOK
    <3> QED
      BY <3>2, <3>3
  <2>6. ASSUME NEW x \in TxnIds, RecordEarnedOrSpent(r, x)
        PROVE  Goal
    BY <2>6, RowsAlone, CreatedEffect DEF RecordEarnedOrSpent
  <2>7. CASE WriteAnswer(r)
    <3>1. req[r].t \in TransferIds
      BY <1>10, <2>7, HandlersRow DEF WriteAnswer, At, AnswerSteps, EditSteps
    <3>2. req'[r].pc = "reshift" /\ req[r].pc = "answer"
      BY <1>10, <2>7, GotoType DEF WriteAnswer, At, Steps, AnswerSteps, EditSteps, TypeOK
    <3>3. \A u \in TransferIds \ {req[r].t} : Kept(u)
      BY <2>7 DEF WriteAnswer, Kept, TypeOK
    <3>4. AnsweredBy(r, req[r].t)
      BY <2>7, <3>1, <3>2, <3>3 DEF WriteAnswer, AnsweredBy, TypeOK
    <3> QED
      BY <1>10, <2>7, <3>3, <3>4, TxnsAlone DEF WriteAnswer, RowEffect
  <2> QED
    BY <1>3, <1>10, <2>1, <2>2, <2>3, <2>4, <2>5, <2>6, <2>7 DEF Handler
<1>11. CASE UserEdits
  <2>1. ASSUME NEW v \in Manual, NEW s \in Slots, NEW n \in ManualCoins,
               AddHolding(v, s, n) \/ UpdateHolding(v, s, n)
        PROVE  Goal
    BY <1>1, <2>1 DEF AddHolding, UpdateHolding
  <2>2. ASSUME NEW v \in Manual, NEW s \in Slots, RemoveHolding(v, s)
        PROVE  Goal
    BY <1>1, <2>2 DEF RemoveHolding
  <2>3. ASSUME NEW X \in (SUBSET TxnIds) \ {{}}, RemoveTransactions(X)
        PROVE  Goal
    BY <1>4, <2>3
  <2>4. ASSUME NEW c \in Cats, AddCategory(c) \/ RemoveCategory(c)
        PROVE  Goal
    BY <1>5, <1>6, <2>4
  <2>5. ASSUME NEW x \in TxnIds, NEW c \in Cats, NEW m \in Money,
               AddTransaction(x, c, m)
        PROVE  Goal
    BY <1>2, <2>5
  <2>6. Goal
    <3> HIDE DEF Goal
    <3> QED
      BY <1>7, <1>8, <1>11, <2>1, <2>2, <2>3, <2>4, <2>5 DEF UserEdits
  <2> QED
    BY <2>6
<1>12. CASE UNCHANGED vars
  BY <1>12, RowsAlone, TxnsAlone DEF vars
<1> QED
  BY <1>9, <1>10, <1>11, <1>12 DEF Next, Sync

-----------------------------------------------------------------------------
(***************************************************************************)
(* The invariants follow from the effects.                                 *)
(***************************************************************************)

\* A transaction that is tied to a movement and stays, stays in its table.
LEMMA TableKept ==
    ASSUME TypeOK, NEW x \in TxnIds, TxnEffect(x), txn[x] # NULL, txn'[x] # NULL,
           NEW dir \in Directions, Fits(txn[x].cat, dir)
    PROVE  Fits(txn'[x].cat, dir)
BY ConstantsAssumption DEF TxnEffect, SameTable, FreshTxn, Exists, Fits, Directions

LEMMA RowsTyped ==
    ASSUME TypeOK, NEW t \in TransferIds, Present(t)
    PROVE  transfer[t] \in Transfer
BY DEF TypeOK, Present

\* The table of a movement's transaction before and after a step that keeps the link.
LEMMA LinkKept ==
    ASSUME IInv, \A x \in TxnIds : TxnEffect(x),
           NEW t \in TransferIds, story[t] = "earned",
           Kept(t) \/ \E m \in Money : ResizedTo(t, m)
    PROVE  /\ transfer[t].link \in TxnIds
           /\ txn'[transfer[t].link] # NULL
           /\ Fits(txn'[transfer[t].link].cat, transfer[t].dir)
<1> DEFINE x == transfer[t].link
<1>1. RowTells(t) /\ Present(t)
  BY DEF IInv, AnswersHold, RowTells
<1>2. transfer[t] \in Transfer
  BY <1>1, RowsTyped DEF IInv
<1>3. x \in TxnIds /\ txn[x] # NULL /\ Fits(txn[x].cat, transfer[t].dir)
  BY <1>1, <1>2 DEF RowTells, Exists, Transfer
<1>4. transfer'[t] # NULL /\ transfer'[t].link = x /\ x # NULL
  <2>1. CASE Kept(t)
    BY <1>1, <1>3, <2>1, ConstantsAssumption DEF Kept, Present
  <2>2. ASSUME NEW m \in Money, ResizedTo(t, m)
        PROVE  transfer'[t] # NULL /\ transfer'[t].link = x /\ x # NULL
    BY <1>2, <2>2, ResizedType, ConstantsAssumption DEF ResizedTo
  <2> QED
    BY <2>1, <2>2
<1>5. txn'[x] # NULL
  <2>1. ~ReopenedRow(t) /\ ~TornRow(t)
    BY <1>2, <1>4, ReopenedType, UnlinkedType DEF ReopenedRow, TornRow
  <2> QED
    BY <1>1, <1>3, <2>1 DEF TxnEffect, FreshTxn, Exists
<1> QED
  BY <1>2, <1>3, <1>5, TableKept DEF IInv, Transfer

LEMMA TellsStep ==
    ASSUME IInv, TypeOK', \A x \in TxnIds : TxnEffect(x),
           NEW t \in TransferIds, RowEffect(t)
    PROVE  /\ RowTells(t)'
           /\ story'[t] = "open" => transfer'[t].money = transfer'[t].usd
<1> USE DEF IInv
<1>1. RowTells(t) /\ (story[t] = "open" => transfer[t].money = transfer[t].usd)
  BY DEF AnswersHold, OpenAtFaceValue
<1>2. Present(t) => transfer[t] \in Transfer
  BY RowsTyped
<1>3. CASE Kept(t)
  BY <1>1, <1>3, LinkKept DEF Kept, RowTells, Present, Exists
<1>4. ASSUME NEW m \in Money, ResizedTo(t, m)
      PROVE  RowTells(t)' /\ story'[t] # "open"
  <2>1. story[t] = "earned" /\ story'[t] = "earned"
    BY <1>1, <1>4 DEF ResizedTo, RowTells
  <2>2. /\ transfer'[t] \in Transfer
        /\ transfer'[t].source = transfer[t].source /\ (transfer'[t].review <=> transfer[t].review)
        /\ transfer'[t].link = transfer[t].link /\ transfer'[t].peer = transfer[t].peer
        /\ transfer'[t].dir = transfer[t].dir
    BY <1>2, <1>4, ResizedType DEF ResizedTo
  <2>3. transfer'[t] # NULL
    BY <2>2, ConstantsAssumption
  <2> QED
    BY <1>1, <1>4, <2>1, <2>2, <2>3, LinkKept DEF RowTells, Present, Exists
<1>5. CASE ReopenedRow(t)
  <2>1. transfer'[t] # NULL
    BY <1>2, <1>5, ReopenedType, ConstantsAssumption DEF ReopenedRow
  <2> QED
    <3>1. transfer[t] \in Transfer /\ story[t] = "earned" /\ transfer[t].source = "BYBIT"
      BY <1>1, <1>2, <1>5 DEF ReopenedRow, RowTells
    <3>2. /\ story'[t] = "open" /\ transfer'[t].peer = "EXTERNAL" /\ transfer'[t].review
          /\ transfer'[t].link = NULL /\ transfer'[t].source = "BYBIT"
          /\ transfer'[t].money = transfer'[t].usd
      BY <1>5, <3>1, ReopenedType DEF ReopenedRow
    <3> QED
      BY <2>1, <3>2 DEF RowTells, Present
<1>6. CASE TornRow(t)
  <2>1. transfer'[t] # NULL
    BY <1>2, <1>6, UnlinkedType, ConstantsAssumption DEF TornRow
  <2> QED
    BY <1>1, <1>2, <1>6, <2>1, UnlinkedType DEF TornRow, RowTells, Present
<1>7. CASE EditedRow(t)
  <2>1. story[t] = "own"
    BY <1>1, <1>7 DEF EditedRow, RowTells
  <2>2. PICK dir \in Directions, m \in Money : transfer'[t] = Edited(transfer[t], dir, m)
    BY <1>7 DEF EditedRow
  <2>3. transfer'[t] # NULL
    BY <1>2, <1>7, <2>2, EditedType, ConstantsAssumption DEF EditedRow
  <2> QED
    BY <1>1, <1>2, <1>7, <2>1, <2>2, <2>3, EditedType DEF EditedRow, RowTells, Present
<1>8. CASE AddedRow(t)
  BY <1>8, ConstantsAssumption DEF AddedRow, RowTells, Present
<1>9. CASE DeletedRow(t)
  BY <1>9 DEF DeletedRow, RowTells, Present
<1>10. ASSUME NEW r \in Requests, AnsweredBy(r, t)
       PROVE  RowTells(t)' /\ story'[t] # "open"
  <2>1. ReadsStand(r) /\ req[r] \in Request /\ req[r].pc = "answer" /\ req[r].t = t
    BY <1>10 DEF AnsweredBy, At, HandlersHold, TypeOK
  <2>2. transfer[t] \in Transfer /\ transfer[t].source = "BYBIT"
    BY <1>2, <2>1 DEF ReadsStand, Imported, AnswerSteps, EditSteps
  <2>3. req[r].ans \in Answer /\ req[r].new \in TxnIds \cup {NULL}
        /\ (req[r].ans.peer = "LEDGER" => req[r].ans.money # NULL)
    BY <2>1 DEF ReadsStand, Request
  <2>4. /\ transfer'[t] \in Transfer /\ transfer'[t].source = "BYBIT" /\ ~transfer'[t].review
        /\ transfer'[t].link = req[r].new /\ transfer'[t].peer = req[r].ans.peer
        /\ transfer'[t].dir = transfer[t].dir
    <3> DEFINE ans == req[r].ans
               new == req[r].new
               row == transfer[t]
    <3>1. transfer'[t] = Answered(row, ans, new)
      BY <1>10 DEF AnsweredBy
    <3>2. row \in Transfer /\ row.source = "BYBIT" /\ ans \in Answer /\ new \in TxnIds \cup {NULL}
          /\ (ans.peer = "LEDGER" => ans.money # NULL)
      BY <2>2, <2>3
    <3> HIDE DEF row, ans, new
    <3>3. /\ transfer'[t] \in Transfer /\ transfer'[t].source = "BYBIT" /\ ~transfer'[t].review
          /\ transfer'[t].link = new /\ transfer'[t].peer = ans.peer /\ transfer'[t].dir = row.dir
      BY <3>1, <3>2, AnsweredType
    <3> QED
      BY <3>3 DEF row, ans, new
  <2>5. transfer'[t] # NULL
    BY <2>4, ConstantsAssumption
  <2>6. req[r].new # NULL => /\ req[r].ans.peer = "LEDGER"
                             /\ txn'[req[r].new] # NULL
                             /\ Fits(txn'[req[r].new].cat, transfer[t].dir)
    BY <1>10, <2>1 DEF AnsweredBy, ReadsStand, Exists
  <2> QED
    BY <1>10, <2>4, <2>5, <2>6 DEF AnsweredBy, RowTells, Present, Exists
<1> QED
  BY <1>3, <1>4, <1>5, <1>6, <1>7, <1>8, <1>9, <1>10 DEF RowEffect

\* A movement tied to a transaction after the step was tied to it before, or has just
\* been answered with a transaction that was tied to none.
LEMMA WasTied ==
    ASSUME IInv, NEW t \in TransferIds, RowEffect(t), transfer'[t] # NULL, transfer'[t].link # NULL
    PROVE  \/ Present(t) /\ transfer[t].link = transfer'[t].link
           \/ \E r \in Requests : AnsweredBy(r, t) /\ req[r].new = transfer'[t].link
<1> USE DEF IInv
<1>1. Present(t) => transfer[t] \in Transfer
  BY RowsTyped
<1>2. CASE Kept(t)
  BY <1>2 DEF Kept, Present
<1>3. ASSUME NEW m \in Money, ResizedTo(t, m)
      PROVE  Present(t) /\ transfer[t].link = transfer'[t].link
  BY <1>1, <1>3, ResizedType DEF ResizedTo
<1>4. ~ReopenedRow(t) /\ ~TornRow(t) /\ ~AddedRow(t) /\ ~DeletedRow(t)
  BY <1>1, ReopenedType, UnlinkedType DEF ReopenedRow, TornRow, AddedRow, DeletedRow
<1>5. CASE EditedRow(t)
  BY <1>1, <1>5, EditedType DEF EditedRow
<1>6. ASSUME NEW r \in Requests, AnsweredBy(r, t)
      PROVE  req[r].new = transfer'[t].link
  <2>1. ReadsStand(r) /\ req[r] \in Request /\ req[r].pc = "answer" /\ req[r].t = t
    BY <1>6 DEF AnsweredBy, At, HandlersHold, TypeOK
  <2> DEFINE ans == req[r].ans
             new == req[r].new
             row == transfer[t]
  <2>2. row \in Transfer /\ ans \in Answer /\ new \in TxnIds \cup {NULL}
        /\ (ans.peer = "LEDGER" => ans.money # NULL)
    BY <1>1, <2>1 DEF ReadsStand, Imported, Request, AnswerSteps, EditSteps
  <2>3. transfer'[t] = Answered(row, ans, new)
    BY <1>6 DEF AnsweredBy
  <2> HIDE DEF ans, new, row
  <2>4. transfer'[t].link = new
    BY <2>2, <2>3, AnsweredType
  <2> QED
    BY <2>4 DEF new
<1> QED
  BY <1>2, <1>3, <1>4, <1>5, <1>6 DEF RowEffect

LEMMA AnswersStep ==
    ASSUME IInv, TypeOK', \A x \in TxnIds : TxnEffect(x), \A t \in TransferIds : RowEffect(t)
    PROVE  AnswersHold' /\ OpenAtFaceValue'
<1> USE DEF IInv
<1>1. \A t \in TransferIds : RowTells(t)' /\ (story'[t] = "open" => transfer'[t].money = transfer'[t].usd)
  BY TellsStep
<1>2. ASSUME NEW t \in TransferIds, NEW u \in TransferIds,
             story'[t] = "earned", story'[u] = "earned", transfer'[t].link = transfer'[u].link
      PROVE  t = u
  <2>1. /\ transfer'[t] # NULL /\ transfer'[t].link # NULL
        /\ transfer'[u] # NULL /\ transfer'[u].link # NULL
    BY <1>1, <1>2 DEF RowTells, Present
  <2>2. ASSUME NEW r \in Requests, NEW v \in TransferIds, NEW w \in TransferIds, v # w,
               AnsweredBy(r, v), req[r].new = transfer'[v].link, transfer'[v].link # NULL,
               transfer'[w] # NULL, transfer'[w].link = transfer'[v].link
        PROVE  FALSE
    <3>1. transfer[w] = transfer'[w]
      BY <2>2 DEF AnsweredBy, Kept
    <3>2. ReadsStand(r) /\ req[r].pc = "answer"
      BY <2>2 DEF AnsweredBy, At, HandlersHold
    <3> QED
      BY <2>2, <3>1, <3>2 DEF ReadsStand, Present
  <2>3. CASE /\ Present(t) /\ transfer[t].link = transfer'[t].link
             /\ Present(u) /\ transfer[u].link = transfer'[u].link
    <3>1. story[t] = "earned" /\ story[u] = "earned"
      BY <2>1, <2>3 DEF AnswersHold, RowTells
    <3> QED
      BY <1>2, <2>3, <3>1 DEF AnswersHold
  <2> QED
    BY <1>2, <2>1, <2>2, <2>3, WasTied
<1> QED
  BY <1>1, <1>2 DEF AnswersHold, OpenAtFaceValue

\* The facts of an imported movement stay, and none appears under an id in use.
FactsKept ==
    /\ \A t \in TransferIds : Imported(t) =>
          /\ transfer'[t] # NULL
          /\ transfer'[t].source = "BYBIT"
          /\ transfer'[t].venue = transfer[t].venue
          /\ transfer'[t].dir = transfer[t].dir
          /\ transfer'[t].coins = transfer[t].coins
          /\ transfer'[t].usd = transfer[t].usd
    /\ \A t \in TransferIds :
          transfer'[t] # NULL /\ transfer'[t].source = "BYBIT" => Imported(t) \/ FreshRow(t)

LEMMA FactsStep ==
    ASSUME IInv, \A t \in TransferIds : RowEffect(t)
    PROVE  FactsKept
<1> USE DEF IInv
<1> SUFFICES ASSUME NEW t \in TransferIds
             PROVE  /\ Imported(t) => /\ transfer'[t] # NULL
                                      /\ transfer'[t].source = "BYBIT"
                                      /\ transfer'[t].venue = transfer[t].venue
                                      /\ transfer'[t].dir = transfer[t].dir
                                      /\ transfer'[t].coins = transfer[t].coins
                                      /\ transfer'[t].usd = transfer[t].usd
                    /\ transfer'[t] # NULL /\ transfer'[t].source = "BYBIT" => Imported(t) \/ FreshRow(t)
  BY DEF FactsKept
<1>1. Present(t) => transfer[t] \in Transfer
  BY RowsTyped
<1>2. CASE Kept(t)
  BY <1>2 DEF Kept, Imported, Present
<1>3. ASSUME NEW new \in Transfer, Present(t), transfer'[t] = new,
             new.source = transfer[t].source, new.venue = transfer[t].venue,
             new.dir = transfer[t].dir, new.coins = transfer[t].coins, new.usd = transfer[t].usd
      PROVE  /\ Imported(t) => /\ transfer'[t] # NULL
                               /\ transfer'[t].source = "BYBIT"
                               /\ transfer'[t].venue = transfer[t].venue
                               /\ transfer'[t].dir = transfer[t].dir
                               /\ transfer'[t].coins = transfer[t].coins
                               /\ transfer'[t].usd = transfer[t].usd
             /\ transfer'[t] # NULL /\ transfer'[t].source = "BYBIT" => Imported(t) \/ FreshRow(t)
  BY <1>3, ConstantsAssumption DEF Imported
<1>4. CASE ReopenedRow(t)
  BY <1>1, <1>3, <1>4, ReopenedType DEF ReopenedRow
<1>5. CASE TornRow(t)
  BY <1>1, <1>3, <1>5, UnlinkedType DEF TornRow
<1>6. CASE \E m \in Money : ResizedTo(t, m)
  BY <1>1, <1>3, <1>6, ResizedType DEF ResizedTo
<1>7. CASE EditedRow(t)
  BY <1>1, <1>7, EditedType DEF EditedRow, Imported
<1>8. CASE AddedRow(t)
  BY <1>8 DEF AddedRow, FreshRow, Imported
<1>9. CASE DeletedRow(t)
  BY <1>9 DEF DeletedRow, Imported
<1>10. CASE \E r \in Requests : AnsweredBy(r, t)
  <2> PICK r \in Requests : AnsweredBy(r, t)
    BY <1>10
  <2>1. ReadsStand(r) /\ req[r] \in Request /\ req[r].pc = "answer" /\ req[r].t = t
    BY DEF AnsweredBy, At, HandlersHold, TypeOK
  <2> DEFINE ans == req[r].ans
             new == req[r].new
  <2>2. Present(t) /\ ans \in Answer /\ new \in TxnIds \cup {NULL}
        /\ (ans.peer = "LEDGER" => ans.money # NULL)
    BY <2>1 DEF ReadsStand, Imported, Request, AnswerSteps, EditSteps
  <2>3. transfer'[t] = Answered(transfer[t], ans, new)
    BY DEF AnsweredBy
  <2> HIDE DEF ans, new
  <2> QED
    BY <1>1, <1>3, <2>2, <2>3, AnsweredType
<1> QED
  BY <1>2, <1>4, <1>5, <1>6, <1>7, <1>8, <1>9, <1>10 DEF RowEffect

-----------------------------------------------------------------------------
(***************************************************************************)
(* What a handler has read stands, first for the handlers a step is not    *)
(* about, then for the one that takes it.                                  *)
(***************************************************************************)

\* A row kept by hand under an id a handler holds never turns into an imported one.
LEMMA ManualStays ==
    ASSUME TypeOK, TypeOK', FactsKept, NEW t \in TransferIds, ~FreshRow(t) \/ Present(t),
           Present(t) => transfer[t].source = "MANUAL", transfer'[t] # NULL
    PROVE  transfer'[t].source = "MANUAL"
<1>1. transfer'[t].source \in {"MANUAL", "BYBIT"}
  BY DEF TypeOK, Transfer
<1> QED
  BY <1>1 DEF FactsKept, Imported, FreshRow

\* The direction a category was checked against stays.
LEMMA DirectionStays ==
    ASSUME TypeOK, FactsKept, NEW t \in TransferIds, Imported(t)
    PROVE  /\ transfer'[t] # NULL /\ transfer'[t].source = "BYBIT"
           /\ transfer'[t].dir = transfer[t].dir
           /\ transfer[t].dir \in Directions
BY RowsTyped DEF FactsKept, Imported, Present, Transfer

LEMMA OthersStand ==
    ASSUME IInv, TypeOK', FactsKept,
           \A x \in TxnIds : TxnEffect(x), \A t \in TransferIds : RowEffect(t),
           NEW q \in Requests, req'[q] = req[q]
    PROVE  ReadsStand(q)'
<1> USE DEF IInv
<1>1. ReadsStand(q) /\ req[q] \in Request
  BY DEF HandlersHold, TypeOK
<1>2. req[q].pc \in AnswerSteps =>
          /\ req[q].t \in TransferIds
          /\ transfer'[req[q].t] # NULL /\ transfer'[req[q].t].source = "BYBIT"
          /\ transfer'[req[q].t].dir = transfer[req[q].t].dir
          /\ transfer[req[q].t].dir \in Directions
  BY <1>1, DirectionStays DEF ReadsStand, AnswerSteps, EditSteps
<1>3. req[q].pc = "delete" /\ transfer'[req[q].t] # NULL => transfer'[req[q].t].source = "MANUAL"
  BY <1>1, ManualStays DEF ReadsStand, FreshRow, AnswerSteps, EditSteps
<1>4. req[q].pc \in {"takeOver", "takeDelete"} /\ transfer'[req[q].merged] # NULL
         => transfer'[req[q].merged].source = "MANUAL"
  BY <1>1, ManualStays DEF ReadsStand, FreshRow
<1>5. ASSUME req[q].pc = "answer", req[q].new # NULL
      PROVE  /\ txn'[req[q].new] # NULL => Fits(txn'[req[q].new].cat, transfer'[req[q].t].dir)
             /\ \A t \in TransferIds : transfer'[t] # NULL => transfer'[t].link # req[q].new
  <2> DEFINE x == req[q].new
  <2>1. x \in TxnIds /\ ~FreshTxn(x)
    BY <1>1, <1>5 DEF Request, FreshTxn
  <2>2. ASSUME txn'[x] # NULL
        PROVE  Fits(txn'[x].cat, transfer'[req[q].t].dir)
    <3>1. txn[x] # NULL /\ TxnEffect(x)
      BY <2>1, <2>2 DEF TxnEffect, Exists
    <3>2. Fits(txn[x].cat, transfer[req[q].t].dir)
      BY <1>1, <1>5, <3>1 DEF ReadsStand, Exists
    <3> QED
      BY <1>2, <1>5, <2>1, <2>2, <3>1, <3>2, TableKept DEF AnswerSteps
  <2>3. ASSUME NEW t \in TransferIds, transfer'[t] # NULL, transfer'[t].link = x
        PROVE  FALSE
    <3>1. CASE Present(t) /\ transfer[t].link = x
      BY <1>1, <1>5, <3>1 DEF ReadsStand
    <3>2. CASE \E r \in Requests : AnsweredBy(r, t) /\ req[r].new = x
      BY <1>5, <3>2 DEF AnsweredBy, At, HandlersHold
    <3> QED
      BY <1>5, <2>3, <3>1, <3>2, WasTied
  <2> QED
    BY <2>2, <2>3
<1>6. ASSUME req[q].pc \in EditSteps, txn'[req[q].old] # NULL
      PROVE  SameTable(req[q].ans.cat, txn'[req[q].old].cat)
  <2>1. req[q].old \in TxnIds /\ ~FreshTxn(req[q].old)
    BY <1>1, <1>6 DEF ReadsStand, Request, FreshTxn
  <2>2. txn[req[q].old] # NULL /\ TxnEffect(req[q].old)
    BY <1>6, <2>1 DEF TxnEffect, Exists
  <2>3. SameTable(req[q].ans.cat, txn[req[q].old].cat)
    BY <1>1, <1>6, <2>2 DEF ReadsStand, Exists
  <2> QED
    BY <1>6, <2>1, <2>2, <2>3, ConstantsAssumption DEF TxnEffect, SameTable
<1> QED
  BY <1>1, <1>2, <1>3, <1>4, <1>5, <1>6
  DEF ReadsStand, Present, Exists, Imported, AnswerSteps, EditSteps

LEMMA IdleStands ==
    ASSUME NEW r \in Requests, req'[r] = Idle
    PROVE  ReadsStand(r)'
BY IdleType DEF ReadsStand, NoAnswer, AnswerSteps, EditSteps

LEMMA GoesOn ==
    ASSUME IInv, TypeOK', FactsKept, NEW r \in Requests, NEW step, Goto(r, step),
           step \in {"takeDelete", "unshift", "drop", "record", "answer", "reshift"},
           req[r].pc \in AnswerSteps,
           step = "takeDelete" => At(r, "takeOver") /\ transfer' = transfer,
           step = "drop" => req[r].old # NULL,
           step = "record" => req[r].ans.cat # NULL,
           step # "reshift" => req[r].new = NULL
    PROVE  ReadsStand(r)'
<1> USE DEF IInv
<1>1. ReadsStand(r)
  BY DEF HandlersHold
<1>2. /\ req'[r].pc = step /\ req'[r].t = req[r].t /\ req'[r].merged = req[r].merged
      /\ req'[r].old = req[r].old /\ req'[r].new = req[r].new /\ req'[r].ans = req[r].ans
  BY GotoType DEF TypeOK, Steps, AnswerSteps, EditSteps
<1>3. Imported(req[r].t) /\ req[r].t \in TransferIds
  BY <1>1, Zenon DEF ReadsStand, At, AnswerSteps, EditSteps
<1>4. /\ transfer'[req[r].t] # NULL /\ transfer'[req[r].t].source = "BYBIT"
      /\ transfer'[req[r].t].dir = transfer[req[r].t].dir
  BY <1>3, DirectionStays
<1>5. step = "takeDelete" =>
          /\ req[r].merged \in TransferIds
          /\ transfer'[req[r].merged] # NULL => transfer'[req[r].merged].source = "MANUAL"
  BY <1>1 DEF ReadsStand, At, Present
<1>6. req[r].ans.peer = "LEDGER" => req[r].ans.money # NULL
  BY <1>1 DEF ReadsStand
<1>7. req[r].ans.cat # NULL =>
          /\ req[r].ans.peer = "LEDGER"
          /\ Fits(req[r].ans.cat, transfer'[req[r].t].dir)
  BY <1>1, <1>4 DEF ReadsStand
<1> DEFINE q == req'[r]
<1>8. q.pc \in AnswerSteps /\ q.t \in TransferIds
      /\ transfer'[q.t] # NULL /\ transfer'[q.t].source = "BYBIT"
  BY <1>2, <1>3, <1>4 DEF AnswerSteps
<1>9. q.pc \in {"takeOver", "takeDelete"} =>
          q.merged \in TransferIds /\ (transfer'[q.merged] # NULL => transfer'[q.merged].source = "MANUAL")
  <2>1. q.pc # "takeOver" /\ (q.pc = "takeDelete" => step = "takeDelete") /\ q.merged = req[r].merged
    BY <1>2
  <2> HIDE DEF q
  <2> QED
    BY <1>5, <2>1
<1>10. (q.pc = "drop" => q.old # NULL) /\ (q.pc = "record" => q.ans.cat # NULL)
       /\ (q.pc # "reshift" => q.new = NULL)
  BY <1>2
<1>11. (q.ans.peer = "LEDGER" => q.ans.money # NULL)
       /\ (q.ans.cat # NULL => q.ans.peer = "LEDGER" /\ Fits(q.ans.cat, transfer'[q.t].dir))
  BY <1>2, <1>6, <1>7
<1> HIDE DEF q
<1> QED
  BY <1>8, <1>9, <1>10, <1>11 DEF ReadsStand, Present, Imported, q, AnswerSteps, EditSteps

LEMMA ActorStands ==
    ASSUME IInv, TypeOK', FactsKept, NEW r \in Requests, Handler(r)
    PROVE  /\ \A q \in Requests \ {r} : req'[q] = req[q]
           /\ req'[r] = req[r] \/ ReadsStand(r)'
           /\ req'[r] # req[r] /\ req'[r].pc = "answer" /\ req'[r].new # NULL => FreshTxn(req'[r].new)
<1> DEFINE Goal == /\ \A q \in Requests \ {r} : req'[q] = req[q]
                   /\ req'[r] = req[r] \/ ReadsStand(r)'
                   /\ req'[r] # req[r] /\ req'[r].pc = "answer" /\ req'[r].new # NULL
                         => FreshTxn(req'[r].new)
<1> USE DEF IInv
<1>1. req \in [Requests -> Request] /\ req[r] \in Request /\ ReadsStand(r)
  BY DEF TypeOK, HandlersHold
<1>2. ASSUME Goto(r, "idle") PROVE Goal
  BY <1>1, <1>2, GotoType, IdleType, IdleStands DEF Steps, AnswerSteps, EditSteps
<1>3. ASSUME NEW step \in Steps \ {"idle"}, Goto(r, step), ReadsStand(r)', req[r].new = NULL \/ step # "answer"
      PROVE  Goal
  BY <1>1, <1>3, GotoType
<1>4. ASSUME NEW t \in TransferIds, NEW step \in {"shift", "delete"}, Begin(r, step, t),
             step = "delete" /\ transfer'[t] # NULL => transfer'[t].source = "MANUAL"
      PROVE  Goal
  <2>1. /\ req' = [req EXCEPT ![r] = Doing(step, t)]
        /\ Doing(step, t).pc = step /\ Doing(step, t).t = t
        /\ Doing(step, t).new = NULL /\ Doing(step, t).ans = NoAnswer
    BY <1>4, DoingType DEF Begin, Steps, AnswerSteps, EditSteps
  <2>2. /\ req'[r].pc = step /\ req'[r].t = t /\ req'[r].new = NULL /\ req'[r].ans = NoAnswer
        /\ \A q \in Requests \ {r} : req'[q] = req[q]
    BY <1>1, <2>1
  <2>3. ReadsStand(r)'
    BY <1>4, <2>2 DEF ReadsStand, Present, NoAnswer, AnswerSteps, EditSteps
  <2> QED
    BY <2>2, <2>3
<1>5. ASSUME NEW t \in TransferIds, NEW v \in Venues, NEW dir \in Directions, NEW peer \in Peers,
             NEW pv \in Venues \cup {NULL}, NEW m \in Money, NEW n \in ManualCoins,
             CreateTransfer(r, t, v, dir, peer, pv, m, n)
      PROVE  Goal
  BY <1>4, <1>5 DEF CreateTransfer
<1>6. CASE ShiftCreated(r) \/ DeleteRemoved(r) \/ Reshift(r) \/ Fail(r)
  BY <1>2, <1>6 DEF ShiftCreated, DeleteRemoved, Reshift, Fail
<1>7. ASSUME NEW t \in TransferIds, RemoveTransfer(r, t)
      PROVE  Goal
  BY <1>4, <1>7 DEF RemoveTransfer, books
<1>8. ASSUME NEW t \in TransferIds, NEW merged \in TransferIds \cup {NULL}, NEW ans \in Answer,
             NEW step \in {"unshift", "takeOver"}, StartAnswer(r, t, merged, ans, step),
             Imported(t), transfer' = transfer,
             ans.peer = "LEDGER" => ans.money # NULL,
             ans.cat # NULL => ans.peer = "LEDGER" /\ Fits(ans.cat, transfer[t].dir),
             step = "takeOver" => merged \in TransferIds /\ transfer[merged].source = "MANUAL"
      PROVE  Goal
  <2>1. /\ req'[r].pc = step /\ req'[r].t = t /\ req'[r].merged = merged
        /\ req'[r].new = NULL /\ req'[r].ans = ans
        /\ \A q \in Requests \ {r} : req'[q] = req[q]
    BY <1>1, <1>8 DEF StartAnswer
  <2>2. ReadsStand(r)'
    BY <1>8, <2>1 DEF ReadsStand, Imported, Present, AnswerSteps, EditSteps
  <2> QED
    BY <2>1, <2>2
<1>9. ASSUME NEW t \in TransferIds, NEW ans \in Answer, Classify(r, t, ans)
      PROVE  Goal
  BY <1>8, <1>9 DEF Classify, books
<1>10. ASSUME NEW t \in TransferIds, NEW m \in TransferIds, ClassifyReplacing(r, t, m)
       PROVE  Goal
  <2> DEFINE ans == [peer |-> transfer[m].peer, peerVenue |-> transfer[m].peerVenue,
                     money |-> transfer[m].money, cat |-> NULL]
  <2>1. transfer[m] \in Transfer /\ transfer[m].source = "MANUAL"
    BY <1>10, RowsTyped DEF ClassifyReplacing
  <2>2. ans \in Answer /\ ans.money # NULL /\ ans.cat = NULL
    BY <2>1, ConstantsAssumption DEF Transfer, Answer
  <2>3. Imported(t) /\ StartAnswer(r, t, m, ans, "takeOver") /\ transfer' = transfer
    BY <1>10 DEF ClassifyReplacing, books
  <2> HIDE DEF ans
  <2> QED
    BY <1>8, <2>1, <2>2, <2>3
<1>22. ASSUME NEW x \in TxnIds, NEW c \in Cats, NEW m \in Money, UpdateTransaction(r, x, c, m)
       PROVE  Goal
  <2> DEFINE step == IF m # txn[x].money THEN "resize" ELSE "rewrite"
  <2>1. /\ req'[r].pc = step /\ req'[r].old = x /\ req'[r].new = NULL
        /\ req'[r].ans = [NoAnswer EXCEPT !.money = m, !.cat = c]
        /\ \A q \in Requests \ {r} : req'[q] = req[q]
    BY <1>1, <1>22 DEF UpdateTransaction
  <2>2. /\ step \in EditSteps /\ step \notin {"idle", "shift", "delete"} \cup AnswerSteps
        /\ req'[r].ans.peer = "EXTERNAL" /\ req'[r].ans.money = m /\ req'[r].ans.cat = c
    BY <2>1 DEF EditSteps, AnswerSteps, NoAnswer
  <2>3. txn' = txn /\ SameTable(c, txn[x].cat) /\ x # NULL /\ c # NULL /\ m # NULL
    BY <1>22, ConstantsAssumption DEF UpdateTransaction, books
  <2> HIDE DEF step
  <2>4. ReadsStand(r)'
    BY <2>1, <2>2, <2>3 DEF ReadsStand, AnswerSteps, EditSteps, Exists
  <2> QED
    BY <2>1, <2>2, <2>4 DEF AnswerSteps
<1>23. CASE WriteUpdated(r)
  <2>1. req' = [req EXCEPT ![r] = Idle]
    BY <1>23 DEF WriteUpdated
  <2> QED
    BY <1>1, <2>1, IdleType, IdleStands
<1>24. CASE \E x \in TxnIds, c \in Cats, m \in Money : UpdateTransaction(r, x, c, m)
  BY <1>22, <1>24
<1>11. CASE TakeOver(r)
  <2>1. Goto(r, "takeDelete") /\ req[r].pc = "takeOver" /\ transfer' = transfer
    BY <1>11 DEF TakeOver, At, books
  <2>2. req[r].new = NULL
    BY <1>1, <2>1 DEF ReadsStand
  <2> QED
    BY <1>3, <2>1, <2>2, GoesOn DEF At, Steps, AnswerSteps, EditSteps
<1>12. CASE DeleteTakenOver(r)
  <2>1. Goto(r, "unshift") /\ req[r].pc = "takeDelete"
    BY <1>12 DEF DeleteTakenOver, At
  <2>2. req[r].new = NULL
    BY <1>1, <2>1 DEF ReadsStand
  <2> QED
    BY <1>3, <2>1, <2>2, GoesOn DEF At, Steps, AnswerSteps, EditSteps
<1>13. CASE Unshift(r)
  <2> DEFINE step == IF req[r].old # NULL THEN "drop"
                     ELSE IF req[r].ans.cat # NULL THEN "record" ELSE "answer"
  <2>1. Goto(r, step) /\ req[r].pc = "unshift"
    BY <1>13 DEF Unshift, At
  <2>2. req[r].new = NULL
    BY <1>1, <2>1 DEF ReadsStand
  <2>3. /\ step \in {"drop", "record", "answer"}
        /\ step = "drop" => req[r].old # NULL
        /\ step = "record" => req[r].ans.cat # NULL
    OBVIOUS
  <2> HIDE DEF step
  <2> QED
    BY <1>3, <2>1, <2>2, <2>3, GoesOn DEF At, Steps, AnswerSteps, EditSteps
<1>14. CASE DropLinkedTransaction(r)
  <2> DEFINE step == IF req[r].ans.cat # NULL THEN "record" ELSE "answer"
  <2>1. Goto(r, step) /\ req[r].pc = "drop"
    BY <1>14 DEF DropLinkedTransaction, At
  <2>2. req[r].new = NULL
    BY <1>1, <2>1 DEF ReadsStand
  <2>3. step \in {"record", "answer"} /\ (step = "record" => req[r].ans.cat # NULL)
    OBVIOUS
  <2> HIDE DEF step
  <2> QED
    BY <1>3, <2>1, <2>2, <2>3, GoesOn DEF At, Steps, AnswerSteps, EditSteps
<1>15. ASSUME NEW x \in TxnIds, RecordEarnedOrSpent(r, x)
       PROVE  Goal
  <2> DEFINE q == [req[r] EXCEPT !.pc = "answer", !.new = x]
  <2>1. /\ q.pc = "answer" /\ q.t = req[r].t /\ q.merged = req[r].merged
        /\ q.old = req[r].old /\ q.new = x /\ q.ans = req[r].ans
    BY <1>1 DEF Request
  <2>2. req' = [req EXCEPT ![r] = q] /\ req[r].pc = "record" /\ transfer' = transfer
        /\ FreshTxn(x) /\ txn' = [txn EXCEPT ![x] = [cat |-> req[r].ans.cat, money |-> req[r].ans.money]]
    BY <1>15 DEF RecordEarnedOrSpent, CreateTxn, At
  <2> HIDE DEF q
  <2>3. req'[r] = q /\ \A p \in Requests \ {r} : req'[p] = req[p]
    BY <1>1, <2>2
  <2>4. txn'[x].cat = req[r].ans.cat
    BY <1>15, <2>2 DEF TypeOK
  <2>5. /\ req[r].t \in TransferIds /\ Imported(req[r].t)
        /\ req[r].ans.cat # NULL /\ req[r].ans.peer = "LEDGER" /\ req[r].ans.money # NULL
        /\ Fits(req[r].ans.cat, transfer[req[r].t].dir)
    BY <1>1, <2>2 DEF ReadsStand, AnswerSteps, EditSteps
  <2>6. ASSUME NEW t \in TransferIds, Present(t)
        PROVE  transfer[t].link # x
    <3>1. RowTells(t) /\ ~Exists(x) /\ x # NULL
      BY <1>15, <2>2, ConstantsAssumption DEF AnswersHold, FreshTxn
    <3> QED
      BY <2>6, <3>1 DEF RowTells
  <2>7. ReadsStand(r)'
    BY <2>1, <2>2, <2>3, <2>4, <2>5, <2>6 DEF ReadsStand, Imported, Present, AnswerSteps, EditSteps
  <2> QED
    BY <2>1, <2>2, <2>3, <2>7
<1>16. CASE WriteAnswer(r)
  <2>1. Goto(r, "reshift") /\ req[r].pc = "answer"
    BY <1>16 DEF WriteAnswer, At
  <2> QED
    BY <1>3, <2>1, GoesOn DEF At, Steps, AnswerSteps, EditSteps
<1>17. CASE \E x \in TxnIds : RecordEarnedOrSpent(r, x)
  BY <1>15, <1>17
<1>18. CASE \E t \in TransferIds : RemoveTransfer(r, t)
  BY <1>7, <1>18
<1>19. CASE \E t \in TransferIds, ans \in Answer : Classify(r, t, ans)
  BY <1>9, <1>19
<1>20. CASE \E t, m \in TransferIds : ClassifyReplacing(r, t, m)
  BY <1>10, <1>20
<1>21. CASE \E t \in TransferIds, v \in Venues, dir \in Directions, peer \in Peers,
               pv \in Venues \cup {NULL}, m \in Money, n \in ManualCoins :
               CreateTransfer(r, t, v, dir, peer, pv, m, n)
  BY <1>5, <1>21
<1> QED
  BY <1>6, <1>11, <1>12, <1>13, <1>14, <1>16, <1>17, <1>18, <1>19, <1>20, <1>21,
     <1>23, <1>24 DEF Handler

LEMMA WhoActs ==
    ASSUME [Next]_vars, ~(\E r \in Requests : Handler(r))
    PROVE  req' = req
<1>1. CASE UserEdits
  <2>1. ASSUME NEW v, NEW s, NEW n,
               AddHolding(v, s, n) \/ UpdateHolding(v, s, n) \/ RemoveHolding(v, s)
        PROVE  req' = req
    BY <2>1 DEF AddHolding, UpdateHolding, RemoveHolding, SetHolding
  <2>2. ASSUME NEW x, NEW c, NEW m, AddTransaction(x, c, m) PROVE req' = req
    BY <2>2 DEF AddTransaction
  <2>3. ASSUME NEW X, RemoveTransactions(X) PROVE req' = req
    BY <2>3 DEF RemoveTransactions
  <2>4. ASSUME NEW c, NEW target,
               AddCategory(c) \/ RemoveCategory(c) \/ MergeCategory(c, target)
        PROVE  req' = req
    BY <2>4 DEF AddCategory, RemoveCategory, MergeCategory
  <2>5. ASSUME NEW t, NEW dir, NEW m, UpdateTransfer(t, dir, m) PROVE req' = req
    BY <2>5 DEF UpdateTransfer
  <2> QED
    BY <1>1, <2>1, <2>2, <2>3, <2>4, <2>5 DEF UserEdits
<1>2. CASE Sync
  BY <1>2 DEF Sync, ImportMovement, RecordP2pOrder
<1>3. CASE UNCHANGED vars
  BY <1>3 DEF vars
<1> QED
  BY <1>1, <1>2, <1>3 DEF Next

LEMMA HandlersStep ==
    ASSUME IInv, TypeOK', FactsKept, [Next]_vars,
           \A x \in TxnIds : TxnEffect(x), \A t \in TransferIds : RowEffect(t)
    PROVE  HandlersHold'
<1>1. CASE req' = req
  <2>1. \A q \in Requests : ReadsStand(q)'
    BY <1>1, OthersStand
  <2> QED
    BY <1>1, <2>1 DEF IInv, HandlersHold, At
<1>2. ASSUME NEW r \in Requests, Handler(r)
      PROVE  HandlersHold'
  <2>1. /\ \A q \in Requests \ {r} : req'[q] = req[q]
        /\ req'[r] = req[r] \/ ReadsStand(r)'
        /\ req'[r] # req[r] /\ req'[r].pc = "answer" /\ req'[r].new # NULL
              => FreshTxn(req'[r].new)
    BY <1>2, ActorStands
  <2>2. ASSUME NEW q \in Requests
        PROVE  ReadsStand(q)'
    BY <2>1, <2>2, OthersStand
  <2>3. ASSUME NEW p \in Requests, NEW q \in Requests, At(p, "answer")', At(q, "answer")',
               req'[p].new = req'[q].new, req'[p].new # NULL
        PROVE  p = q
    <3>1. CASE req'[p] = req[p] /\ req'[q] = req[q]
      BY <2>3, <3>1 DEF IInv, HandlersHold, At
    <3>2. CASE req'[p] # req[p]
      <4>1. FreshTxn(req'[p].new) /\ p = r
        BY <2>1, <2>3, <3>2 DEF At
      <4> QED
        BY <2>1, <2>3, <4>1 DEF FreshTxn
    <3>3. CASE req'[q] # req[q]
      <4>1. FreshTxn(req'[q].new) /\ q = r
        BY <2>1, <2>3, <3>3 DEF At
      <4> QED
        BY <2>1, <2>3, <4>1 DEF FreshTxn
    <3> QED
      BY <3>1, <3>2, <3>3
  <2> QED
    BY <2>2, <2>3 DEF HandlersHold
<1> QED
  BY <1>1, <1>2, WhoActs

-----------------------------------------------------------------------------
(***************************************************************************)
(* The theorems.                                                           *)
(***************************************************************************)

LEMMA InvInit == Init => IInv
<1> SUFFICES ASSUME Init
             PROVE  IInv
  OBVIOUS
<1>1. TypeOK
  BY TypeInit
<1>2. AnswersHold /\ OpenAtFaceValue
  BY DEF Init, AnswersHold, RowTells, OpenAtFaceValue, Present
<1>3. \A r \in Requests : req[r] = Idle /\ req[r].pc = "idle"
  BY IdleType DEF Init
<1>4. HandlersHold
  BY <1>3, IdleType DEF HandlersHold, ReadsStand, At, NoAnswer, AnswerSteps, EditSteps
<1> QED
  BY <1>1, <1>2, <1>4 DEF IInv

LEMMA InvStep == IInv /\ [Next]_vars => IInv' /\ FactsKept
<1> SUFFICES ASSUME IInv, [Next]_vars
             PROVE  IInv' /\ FactsKept
  OBVIOUS
<1>1. TypeOK'
  BY TypeStep DEF IInv
<1>2. (\A t \in TransferIds : RowEffect(t)) /\ \A x \in TxnIds : TxnEffect(x)
  BY Effects
<1>3. AnswersHold' /\ OpenAtFaceValue'
  BY <1>1, <1>2, AnswersStep
<1>4. FactsKept
  BY <1>2, FactsStep
<1>5. HandlersHold'
  BY <1>1, <1>2, <1>4, HandlersStep
<1> QED
  BY <1>1, <1>3, <1>4, <1>5 DEF IInv

LEMMA InvHolds == Spec => []IInv
BY InvInit, InvStep, PTL DEF Spec

\* The tables, the holdings and the handlers in progress keep their types.
THEOREM TypeCorrect == Spec => []TypeOK
<1>1. IInv => TypeOK
  BY DEF IInv
<1> QED
  BY <1>1, InvHolds, PTL

\* However many handlers of investing-transfers.service.ts interleave with each
\* other, with the sync and with edits of transactions and categories, and wherever
\* each of them stops, the columns of every movement agree with its last answer.
THEOREM AnswersCorrect == Spec => []AnswersHold
<1>1. IInv => AnswersHold
  BY DEF IInv
<1> QED
  BY <1>1, InvHolds, PTL

\* What a handler read before one of its awaits is still true when it is used.
THEOREM HandlersCorrect == Spec => []HandlersHold
<1>1. IInv => HandlersHold
  BY DEF IInv
<1> QED
  BY <1>1, InvHolds, PTL

\* A movement waiting for its answer is valued at the dollars that moved, also after
\* the answer it had was taken back.
THEOREM OpenMovementsAtFaceValue == Spec => []OpenAtFaceValue
<1>1. IInv => OpenAtFaceValue
  BY DEF IInv
<1> QED
  BY <1>1, InvHolds, PTL

\* No step of any handler deletes an imported movement or rewrites what the exchange
\* reported of it.
THEOREM ImportedFactsStay == Spec => ImportedFactsKept
<1>1. IInv /\ [Next]_vars => [\A t \in TransferIds : Imported(t) =>
          /\ transfer'[t] # NULL
          /\ transfer'[t].source = "BYBIT"
          /\ transfer'[t].venue = transfer[t].venue
          /\ transfer'[t].dir = transfer[t].dir
          /\ transfer'[t].coins = transfer[t].coins
          /\ transfer'[t].usd = transfer[t].usd]_vars
  BY InvStep DEF FactsKept
<1> QED
  BY <1>1, InvHolds, PTL DEF Spec, ImportedFactsKept

-----------------------------------------------------------------------------
(***************************************************************************)
(* A transaction that goes.  The one a handler is about to drop is tied to *)
(* the movement it answers and to no other, nor about to be.               *)
(***************************************************************************)

BeforeDrop == {"takeOver", "takeDelete", "unshift", "drop"}

DropsOwn ==
    \A r \in Requests : req[r].pc \in BeforeDrop /\ req[r].old # NULL =>
        /\ \A t \in TransferIds : Present(t) /\ transfer[t].link = req[r].old => t = req[r].t
        /\ \A q \in Requests : At(q, "answer") => req[q].new # req[r].old

LEMMA LinkIsEarned ==
    ASSUME IInv, NEW t \in TransferIds, Present(t), transfer[t].link # NULL
    PROVE  /\ story[t] = "earned" /\ transfer[t].link \in TxnIds /\ Exists(transfer[t].link)
           /\ \A u \in TransferIds : Present(u) /\ transfer[u].link = transfer[t].link => u = t
<1>1. \A u \in TransferIds : Present(u) /\ transfer[u].link # NULL => story[u] = "earned"
  BY DEF IInv, AnswersHold, RowTells
<1>2. transfer[t] \in Transfer
  BY RowsTyped DEF IInv
<1>3. Exists(transfer[t].link)
  BY <1>1 DEF IInv, AnswersHold, RowTells
<1> QED
  BY <1>1, <1>2, <1>3 DEF IInv, AnswersHold, Transfer

\* Where a link comes from.
LEMMA LinkMoves ==
    ASSUME IInv, NEW t \in TransferIds, RowEffect(t), transfer'[t] # NULL, transfer'[t].link # NULL
    PROVE  \/ Present(t) /\ transfer'[t].link = transfer[t].link
           \/ \E q \in Requests : At(q, "answer") /\ transfer'[t].link = req[q].new
<1>1. CASE Kept(t)
  BY <1>1 DEF Kept, Present
<1>2. ASSUME NEW m \in Money, ResizedTo(t, m) PROVE Present(t) /\ transfer'[t].link = transfer[t].link
  BY <1>2, RowsTyped, ResizedType DEF ResizedTo, IInv
<1>3. ~ReopenedRow(t) /\ ~TornRow(t)
  BY RowsTyped, ReopenedType, UnlinkedType DEF ReopenedRow, TornRow, IInv
<1>4. CASE EditedRow(t)
  BY <1>4, RowsTyped, EditedType DEF EditedRow, IInv
<1>5. ~AddedRow(t) /\ ~DeletedRow(t)
  BY DEF AddedRow, DeletedRow
<1>6. ASSUME NEW q \in Requests, AnsweredBy(q, t) PROVE At(q, "answer") /\ transfer'[t].link = req[q].new
  <2>1. /\ At(q, "answer") /\ req[q].t = t /\ ReadsStand(q) /\ req[q] \in Request
        /\ transfer'[t] = Answered(transfer[t], req[q].ans, req[q].new)
    BY <1>6 DEF AnsweredBy, IInv, HandlersHold, TypeOK
  <2>2. transfer[t] \in Transfer
    BY <2>1, RowsTyped DEF ReadsStand, At, Imported, AnswerSteps, IInv
  <2>3. /\ req[q].ans \in Answer /\ req[q].new \in TxnIds \cup {NULL}
        /\ req[q].ans.peer = "LEDGER" => req[q].ans.money # NULL
    BY <2>1 DEF ReadsStand, Request
  <2> QED
    BY <2>1, <2>2, <2>3, AnsweredType
<1> QED
  BY <1>1, <1>2, <1>3, <1>4, <1>5, <1>6 DEF RowEffect

\* Where the transaction a handler is to drop comes from.
LEMMA OldMoves ==
    ASSUME IInv, NEW r \in Requests, Handler(r), req'[r] # req[r],
           req'[r].pc \in BeforeDrop, req'[r].old # NULL
    PROVE  \/ req[r].pc \in BeforeDrop /\ req'[r].old = req[r].old /\ req'[r].t = req[r].t
           \/ /\ req'[r].t \in TransferIds /\ Present(req'[r].t)
              /\ req'[r].old = transfer[req'[r].t].link /\ transfer' = transfer
<1> DEFINE Goal == \/ req[r].pc \in BeforeDrop /\ req'[r].old = req[r].old /\ req'[r].t = req[r].t
                   \/ /\ req'[r].t \in TransferIds /\ Present(req'[r].t)
                      /\ req'[r].old = transfer[req'[r].t].link /\ transfer' = transfer
<1> USE DEF IInv
<1>1. req \in [Requests -> Request] /\ req[r] \in Request
  BY DEF TypeOK
<1>2. ~Goto(r, "idle")
  BY <1>1, GotoType, IdleType DEF Steps, BeforeDrop
<1>3. ASSUME NEW step \in Steps \ {"idle"}, Goto(r, step) PROVE step \in BeforeDrop /\ req'[r].old = req[r].old /\ req'[r].t = req[r].t
  BY <1>1, <1>3, GotoType
<1>4. ASSUME NEW t \in TransferIds, NEW step \in {"shift", "delete"}, Begin(r, step, t) PROVE FALSE
  <2>1. step \in Steps
    BY DEF Steps
  <2>2. req'[r].pc = step
    BY <1>1, <1>4, <2>1, DoingType DEF Begin
  <2> QED
    BY <2>2 DEF BeforeDrop
<1>5. ASSUME NEW x \in TxnIds, NEW c \in Cats, NEW m \in Money, UpdateTransaction(r, x, c, m) PROVE FALSE
  <2>1. req'[r].pc \in {"resize", "rewrite"}
    BY <1>1, <1>5 DEF UpdateTransaction
  <2> QED
    BY <2>1 DEF BeforeDrop
<1>6. ~WriteUpdated(r)
  BY <1>1, IdleType DEF WriteUpdated, BeforeDrop
<1>7. ASSUME NEW t \in TransferIds, NEW v \in Venues, NEW dir \in Directions, NEW peer \in Peers,
             NEW pv \in Venues \cup {NULL}, NEW m \in Money, NEW n \in ManualCoins,
             CreateTransfer(r, t, v, dir, peer, pv, m, n)
      PROVE  FALSE
  BY <1>4, <1>7 DEF CreateTransfer
<1>8. ASSUME NEW t \in TransferIds, RemoveTransfer(r, t) PROVE FALSE
  BY <1>4, <1>8 DEF RemoveTransfer
<1>9. ~ShiftCreated(r) /\ ~DeleteRemoved(r) /\ ~Reshift(r) /\ ~Fail(r)
  BY <1>2 DEF ShiftCreated, DeleteRemoved, Reshift, Fail
<1>10. ASSUME NEW t \in TransferIds, NEW ans, NEW merged, NEW step, Present(t), transfer' = transfer,
              StartAnswer(r, t, merged, ans, step)
       PROVE  Goal
  <2>1. req'[r].old = transfer[t].link /\ req'[r].t = t
    BY <1>1, <1>10 DEF StartAnswer
  <2> QED
    BY <1>10, <2>1
<1>11. ASSUME NEW t \in TransferIds, NEW ans \in Answer, Classify(r, t, ans) PROVE Goal
  BY <1>10, <1>11 DEF Classify, Imported, books
<1>12. ASSUME NEW t \in TransferIds, NEW m \in TransferIds, ClassifyReplacing(r, t, m) PROVE Goal
  <2>1. PICK ans : StartAnswer(r, t, m, ans, "takeOver")
    BY <1>12 DEF ClassifyReplacing
  <2> QED
    BY <1>10, <1>12, <2>1 DEF ClassifyReplacing, Imported, books
<1>13. CASE TakeOver(r) \/ DeleteTakenOver(r)
  <2>1. req[r].pc \in BeforeDrop /\ \E step \in {"takeDelete", "unshift"} : Goto(r, step)
    BY <1>13 DEF TakeOver, DeleteTakenOver, At, BeforeDrop
  <2> QED
    BY <1>3, <2>1 DEF Steps, AnswerSteps
<1>14. CASE Unshift(r) \/ DropLinkedTransaction(r) \/ WriteAnswer(r)
  <2>1. PICK step \in {"drop", "record", "answer", "reshift"} : Goto(r, step)
    BY <1>14 DEF Unshift, DropLinkedTransaction, WriteAnswer
  <2>2. step = "drop" /\ req'[r].old = req[r].old /\ req'[r].t = req[r].t
    BY <1>3, <2>1 DEF Steps, AnswerSteps, BeforeDrop
  <2>3. Goto(r, "record") \/ Goto(r, "answer") \/ Goto(r, "reshift") => FALSE
    BY <1>3 DEF Steps, AnswerSteps, BeforeDrop
  <2>4. CASE Unshift(r)
    BY <2>2, <2>4 DEF Unshift, At, BeforeDrop
  <2>5. CASE DropLinkedTransaction(r) \/ WriteAnswer(r)
    BY <2>3, <2>5 DEF DropLinkedTransaction, WriteAnswer
  <2> QED
    BY <1>14, <2>4, <2>5
<1>15. ASSUME NEW x \in TxnIds, RecordEarnedOrSpent(r, x) PROVE FALSE
  <2>1. req' = [req EXCEPT ![r] = [req[r] EXCEPT !.pc = "answer", !.new = x]]
    BY <1>15 DEF RecordEarnedOrSpent
  <2>2. req'[r].pc = "answer"
    BY <1>1, <2>1 DEF Request
  <2> QED
    BY <2>2 DEF BeforeDrop
<1> QED
  BY <1>5, <1>6, <1>7, <1>8, <1>9, <1>11, <1>12, <1>13, <1>14, <1>15 DEF Handler

LEMMA DropsStep ==
    ASSUME IInv, IInv', DropsOwn, [Next]_vars PROVE DropsOwn'
<1>1. (\A t \in TransferIds : RowEffect(t)) /\ FactsKept /\ TypeOK'
  BY Effects, InvStep DEF IInv
<1>2. ASSUME NEW q \in Requests, At(q, "answer")', req'[q].new # NULL
      PROVE  \/ At(q, "answer") /\ req'[q].new = req[q].new
             \/ FreshTxn(req'[q].new)
  <2>1. CASE req'[q] = req[q]
    BY <1>2, <2>1 DEF At
  <2>2. CASE req'[q] # req[q]
    <3>1. PICK r \in Requests : Handler(r)
      BY <2>2, WhoActs
    <3>2. r = q
      BY <1>1, <2>2, <3>1, ActorStands
    <3> QED
      BY <1>1, <1>2, <2>2, <3>1, <3>2, ActorStands DEF At
  <2> QED
    BY <2>1, <2>2
<1>3. ASSUME NEW r \in Requests, req'[r].pc \in BeforeDrop, req'[r].old # NULL
      PROVE  \/ req[r].pc \in BeforeDrop /\ req'[r].old = req[r].old /\ req'[r].t = req[r].t
             \/ /\ req'[r].t \in TransferIds /\ Present(req'[r].t)
                /\ req'[r].old = transfer[req'[r].t].link /\ transfer' = transfer
  <2>1. CASE req'[r] = req[r]
    BY <1>3, <2>1
  <2>2. CASE req'[r] # req[r]
    <3>1. PICK q \in Requests : Handler(q)
      BY <2>2, WhoActs
    <3>2. q = r
      BY <1>1, <2>2, <3>1, ActorStands
    <3> QED
      BY <1>3, <2>2, <3>1, <3>2, OldMoves
  <2> QED
    BY <2>1, <2>2
<1>4. \A q \in Requests : ReadsStand(q)
  BY DEF IInv, HandlersHold
<1>5. ASSUME NEW r \in Requests, req'[r].pc \in BeforeDrop, req'[r].old # NULL,
             NEW t \in TransferIds, transfer'[t] # NULL, transfer'[t].link = req'[r].old
      PROVE  t = req'[r].t
  <2>1. CASE req[r].pc \in BeforeDrop /\ req'[r].old = req[r].old /\ req'[r].t = req[r].t
    BY <1>1, <1>5, <2>1, LinkMoves DEF DropsOwn
  <2>2. CASE /\ req'[r].t \in TransferIds /\ Present(req'[r].t)
             /\ req'[r].old = transfer[req'[r].t].link /\ transfer' = transfer
    BY <1>5, <2>2, LinkIsEarned DEF Present
  <2> QED
    BY <1>3, <1>5, <2>1, <2>2
<1>6. ASSUME NEW r \in Requests, req'[r].pc \in BeforeDrop, req'[r].old # NULL,
             NEW q \in Requests, At(q, "answer")', req'[q].new = req'[r].old
      PROVE  FALSE
  <2>1. CASE req[r].pc \in BeforeDrop /\ req'[r].old = req[r].old /\ req'[r].t = req[r].t
    BY <1>2, <1>6, <2>1 DEF DropsOwn, FreshTxn
  <2>2. CASE /\ req'[r].t \in TransferIds /\ Present(req'[r].t)
             /\ req'[r].old = transfer[req'[r].t].link /\ transfer' = transfer
    <3>1. Exists(req'[q].new)
      BY <1>6, <2>2, LinkIsEarned
    <3>2. At(q, "answer") /\ req'[q].new = req[q].new
      BY <1>2, <1>6, <3>1 DEF FreshTxn
    <3> QED
      BY <1>4, <1>6, <2>2, <3>2 DEF ReadsStand, At
  <2> QED
    BY <1>3, <1>6, <2>1, <2>2
<1> QED
  BY <1>5, <1>6 DEF DropsOwn, Present

\* Only two kinds of step tear a link: dropping the old answer's transaction and removing a category.
LEMMA WhoTears ==
    ASSUME IInv, Next, NEW t \in TransferIds, story[t] = "earned", story'[t] = "torn"
    PROVE  \/ \E c \in Cats : RemoveCategory(c)
           \/ \E r \in Requests : DropLinkedTransaction(r)
<1>1. story \in [TransferIds -> Stories]
  BY DEF IInv, TypeOK
<1>2. ASSUME NEW X, ReopenLinkedTransfers(X) PROVE FALSE
  BY <1>1, <1>2 DEF ReopenLinkedTransfers
<1>3. ASSUME NEW u, NEW row, NEW told \in {"open", "own", "other"}, AddRow(u, row, told) PROVE FALSE
  BY <1>1, <1>3 DEF AddRow
<1>4. ASSUME NEW u, DeleteRow(u) PROVE FALSE
  BY <1>1, <1>4 DEF DeleteRow
<1>5. CASE UserEdits
  <2>1. ASSUME NEW v, NEW s, NEW n,
               AddHolding(v, s, n) \/ UpdateHolding(v, s, n) \/ RemoveHolding(v, s)
        PROVE  FALSE
    BY <2>1 DEF AddHolding, UpdateHolding, RemoveHolding, SetHolding
  <2>2. ASSUME NEW x, NEW c, NEW m, AddTransaction(x, c, m) PROVE FALSE
    BY <2>2 DEF AddTransaction
  <2>3. ASSUME NEW X, RemoveTransactions(X) PROVE FALSE
    BY <1>2, <2>3 DEF RemoveTransactions
  <2>4. ASSUME NEW c, NEW target, AddCategory(c) \/ MergeCategory(c, target) PROVE FALSE
    BY <2>4 DEF AddCategory, MergeCategory
  <2>5. ASSUME NEW u, NEW dir, NEW m, UpdateTransfer(u, dir, m) PROVE FALSE
    BY <2>5 DEF UpdateTransfer
  <2> QED
    BY <1>5, <2>1, <2>2, <2>3, <2>4, <2>5 DEF UserEdits
<1>6. CASE Sync
  <2>1. ASSUME NEW u, NEW v, NEW dir, NEW m, NEW n, ImportMovement(u, v, dir, m, n) PROVE FALSE
    BY <1>3, <2>1 DEF ImportMovement
  <2>2. ASSUME NEW u, NEW v, NEW dir, NEW m, NEW n, RecordP2pOrder(u, v, dir, m, n) PROVE FALSE
    BY <1>3, <2>2 DEF RecordP2pOrder
  <2> QED
    BY <1>6, <2>1, <2>2 DEF Sync
<1>7. ASSUME NEW r \in Requests, Handler(r) PROVE DropLinkedTransaction(r)
  <2>1. ASSUME NEW u, NEW v, NEW dir, NEW peer, NEW pv, NEW m, NEW n, CreateTransfer(r, u, v, dir, peer, pv, m, n)
        PROVE  FALSE
    BY <1>3, <2>1 DEF CreateTransfer
  <2>2. ~DeleteRemoved(r) /\ ~DeleteTakenOver(r)
    BY <1>4 DEF DeleteRemoved, DeleteTakenOver
  <2>3. ~WriteAnswer(r)
    BY <1>1 DEF WriteAnswer
  <2> QED
    BY <1>7, <2>1, <2>2, <2>3
       DEF Handler, UpdateTransaction, WriteUpdated, ShiftCreated, RemoveTransfer, Classify, ClassifyReplacing,
           TakeOver, Unshift, RecordEarnedOrSpent, Reshift, Fail, books
<1> QED
  BY <1>5, <1>6, <1>7 DEF Next

LEMMA DropsInit == Init => DropsOwn
BY IdleType DEF Init, DropsOwn, BeforeDrop

\* A movement whose transaction is deleted goes back up for review, whatever handlers run beside the
\* deletion, but for the answer that replaces that transaction itself and the removal of a whole
\* category (reopenLinkedTransfers, linked-transfers.util.ts).
THEOREM DeletedAnswersReopen == Spec => LinkEndsInReview
<1>1. IInv /\ DropsOwn /\ [Next]_vars => IInv' /\ DropsOwn'
  BY InvStep, DropsStep
<1>2. IInv /\ DropsOwn /\ [Next]_vars =>
         [\A t \in TransferIds : LosesTxn(t) =>
             \/ transfer'[t].review
             \/ Answering(t)
             \/ txn[transfer[t].link].cat \notin categories']_vars
  <2> SUFFICES ASSUME IInv, DropsOwn, Next, NEW t \in TransferIds, LosesTxn(t)
               PROVE  \/ transfer'[t].review
                      \/ Answering(t)
                      \/ txn[transfer[t].link].cat \notin categories'
    OBVIOUS
  <2>1. /\ Present(t) /\ transfer[t].link # NULL /\ transfer[t].link \in TxnIds
        /\ Exists(transfer[t].link) /\ story[t] = "earned" /\ transfer[t] \in Transfer
    BY LinkIsEarned, RowsTyped DEF LosesTxn, Imported, IInv
  <2>2. ReopenedRow(t) \/ TornRow(t)
    <3>1. TxnEffect(transfer[t].link)
      BY <2>1, Effects
    <3> QED
      BY <2>1, <3>1 DEF TxnEffect, LosesTxn, Exists, FreshTxn
  <2>3. CASE ReopenedRow(t)
    BY <2>1, <2>3, ReopenedType DEF ReopenedRow
  <2>4. CASE TornRow(t)
    <3>1. (\E c \in Cats : RemoveCategory(c)) \/ \E r \in Requests : DropLinkedTransaction(r)
      BY <2>1, <2>4, WhoTears DEF TornRow
    <3>2. ASSUME NEW c \in Cats, RemoveCategory(c) PROVE txn[transfer[t].link].cat \notin categories'
      BY <2>1, <3>2 DEF RemoveCategory, LosesTxn, Exists
    <3>3. ASSUME NEW r \in Requests, DropLinkedTransaction(r) PROVE Answering(t)
      <4>1. At(r, "drop") /\ transfer[t].link = req[r].old
        BY <2>1, <3>3 DEF DropLinkedTransaction, LosesTxn, Exists, IInv, TypeOK
      <4>2. req[r].t = t
        BY <2>1, <4>1 DEF DropsOwn, BeforeDrop, At
      <4> QED
        BY <4>1, <4>2 DEF Answering
    <3> QED
      BY <3>1, <3>2, <3>3
  <2> QED
    BY <2>2, <2>3, <2>4
<1>3. Init => IInv /\ DropsOwn
  BY InvInit, DropsInit
<1> QED
  BY <1>1, <1>2, <1>3, PTL DEF Spec, LinkEndsInReview

-----------------------------------------------------------------------------
(***************************************************************************)
(* One handler at a time.  What it read or made of a transaction is then   *)
(* still so when it writes, and the two rows of an earned movement net to  *)
(* zero.                                                                   *)
(***************************************************************************)

OneHandler == \A r, q \in Requests : r = q

\* An edit that takes the money to be unchanged writes the money there is, and the transaction
\* made for an answer has the answer's money.
MoneyStands ==
    \A r \in Requests :
        /\ At(r, "rewrite") /\ Exists(req[r].old) => txn[req[r].old].money = req[r].ans.money
        /\ At(r, "answer") /\ req[r].new # NULL /\ Exists(req[r].new)
              => txn[req[r].new].money = req[r].ans.money

\* Only an edit changes the money of a transaction.
LEMMA MoneyMoves ==
    ASSUME IInv, [Next]_vars, NEW x \in TxnIds, Exists(x), txn'[x] # NULL
    PROVE  \/ txn'[x].money = txn[x].money
           \/ \E r \in Requests : WriteUpdated(r) /\ req[r].old = x
<1> DEFINE Goal == \/ txn'[x].money = txn[x].money
                   \/ \E r \in Requests : WriteUpdated(r) /\ req[r].old = x
<1>1. txn \in [TxnIds -> Txn \cup {NULL}] /\ txn[x] \in Txn
  BY DEF IInv, TypeOK, Exists
<1>2. ASSUME NEW y, NEW c, NEW m, CreateTxn(y, c, m) PROVE Goal
  BY <1>1, <1>2 DEF CreateTxn, FreshTxn
<1>3. ASSUME NEW y \in TxnIds, txn' = [txn EXCEPT ![y] = NULL] PROVE Goal
  BY <1>1, <1>3
<1>4. CASE UserEdits
  <2>1. ASSUME NEW v, NEW s, NEW n,
               AddHolding(v, s, n) \/ UpdateHolding(v, s, n) \/ RemoveHolding(v, s)
        PROVE  Goal
    BY <2>1 DEF AddHolding, UpdateHolding, RemoveHolding, SetHolding, books
  <2>2. ASSUME NEW y, NEW c, NEW m, AddTransaction(y, c, m) PROVE Goal
    BY <1>2, <2>2 DEF AddTransaction
  <2>3. ASSUME NEW X, RemoveTransactions(X) PROVE Goal
    BY <2>3 DEF RemoveTransactions
  <2>4. ASSUME NEW c, NEW target, MergeCategory(c, target) PROVE Goal
    BY <1>1, <2>4 DEF MergeCategory, Txn
  <2>5. ASSUME NEW c, AddCategory(c) \/ RemoveCategory(c) PROVE Goal
    BY <2>5 DEF AddCategory, RemoveCategory
  <2>6. ASSUME NEW u, NEW dir, NEW m, UpdateTransfer(u, dir, m) PROVE Goal
    BY <2>6 DEF UpdateTransfer
  <2> QED
    BY <1>4, <2>1, <2>2, <2>3, <2>4, <2>5, <2>6 DEF UserEdits
<1>5. CASE Sync
  BY <1>5 DEF Sync, ImportMovement, RecordP2pOrder
<1>6. ASSUME NEW r \in Requests, Handler(r) PROVE Goal
  <2>1. CASE WriteUpdated(r)
    <3>1. txn' = [txn EXCEPT ![req[r].old] = [cat |-> req[r].ans.cat, money |-> req[r].ans.money]]
      BY <2>1 DEF WriteUpdated
    <3> QED
      BY <1>1, <2>1, <3>1
  <2>2. ASSUME NEW y, RecordEarnedOrSpent(r, y) PROVE Goal
    BY <1>2, <2>2 DEF RecordEarnedOrSpent
  <2>3. CASE DropLinkedTransaction(r)
    BY <1>1, <2>3 DEF DropLinkedTransaction
  <2>4. CASE txn' = txn
    BY <2>4
  <2>5. ASSUME NEW y, NEW c, NEW m, UpdateTransaction(r, y, c, m) PROVE txn' = txn
    BY <2>5 DEF UpdateTransaction, books
  <2>6. ASSUME NEW u, NEW v, NEW dir, NEW peer, NEW pv, NEW m, NEW n,
               CreateTransfer(r, u, v, dir, peer, pv, m, n)
        PROVE  txn' = txn
    BY <2>6 DEF CreateTransfer
  <2>7. ASSUME NEW u, RemoveTransfer(r, u) PROVE txn' = txn
    BY <2>7 DEF RemoveTransfer, books
  <2>8. ASSUME NEW u, NEW m, Classify(r, u, m) \/ ClassifyReplacing(r, u, m) PROVE txn' = txn
    BY <2>8 DEF Classify, ClassifyReplacing, books
  <2>9. CASE \/ ShiftCreated(r) \/ DeleteRemoved(r) \/ TakeOver(r) \/ DeleteTakenOver(r)
             \/ Unshift(r) \/ WriteAnswer(r) \/ Reshift(r) \/ Fail(r)
    BY <2>4, <2>9 DEF ShiftCreated, DeleteRemoved, TakeOver, DeleteTakenOver, Unshift, WriteAnswer,
                      Reshift, Fail, books
  <2> QED
    BY <1>6, <2>1, <2>2, <2>3, <2>4, <2>5, <2>6, <2>7, <2>8, <2>9 DEF Handler
<1>7. CASE UNCHANGED vars
  BY <1>7 DEF vars
<1> QED
  BY <1>4, <1>5, <1>6, <1>7 DEF Next

\* How a handler comes to rewrite a transaction, or to write an answer with one.
LEMMA MoneyRead ==
    ASSUME IInv, NEW r \in Requests, Handler(r), req'[r] # req[r]
    PROVE  /\ At(r, "rewrite")' => /\ txn' = txn
                                   /\ txn[req'[r].old].money = req'[r].ans.money
           /\ At(r, "answer")' /\ req'[r].new # NULL => txn'[req'[r].new].money = req'[r].ans.money
<1> DEFINE Goal == /\ At(r, "rewrite")' => /\ txn' = txn
                                           /\ txn[req'[r].old].money = req'[r].ans.money
                   /\ At(r, "answer")' /\ req'[r].new # NULL
                         => txn'[req'[r].new].money = req'[r].ans.money
<1> USE DEF IInv
<1>1. req \in [Requests -> Request] /\ req[r] \in Request /\ ReadsStand(r)
  BY DEF TypeOK, HandlersHold
<1>2. ASSUME NEW step \in Steps \ {"rewrite"}, Goto(r, step),
             step = "answer" => req[r].pc \notin {"answer", "reshift"}
      PROVE  Goal
  <2>1. CASE step = "idle"
    BY <1>1, <1>2, <2>1, GotoType, IdleType DEF At
  <2>2. CASE step # "idle"
    BY <1>1, <1>2, <2>2, GotoType DEF At, ReadsStand
  <2> QED
    BY <2>1, <2>2
<1>3. ASSUME NEW t \in TransferIds, NEW step \in {"shift", "delete"}, Begin(r, step, t) PROVE Goal
  <2>1. step \in Steps
    BY DEF Steps
  <2>2. req'[r].pc = step
    BY <1>1, <1>3, <2>1, DoingType DEF Begin
  <2> QED
    BY <2>2 DEF At
<1>4. ASSUME NEW x \in TxnIds, NEW c \in Cats, NEW m \in Money, UpdateTransaction(r, x, c, m) PROVE Goal
  <2>1. [NoAnswer EXCEPT !.money = m, !.cat = c].money = m
    BY DEF NoAnswer
  <2>2. /\ req'[r].pc = IF m # txn[x].money THEN "resize" ELSE "rewrite"
        /\ req'[r].old = x /\ req'[r].ans.money = m /\ txn' = txn
    BY <1>1, <1>4, <2>1 DEF UpdateTransaction, books
  <2> QED
    BY <2>2 DEF At
<1>5. CASE WriteUpdated(r)
  BY <1>1, <1>5, IdleType DEF WriteUpdated, At
<1>6. ASSUME NEW t \in TransferIds, NEW v \in Venues, NEW dir \in Directions, NEW peer \in Peers,
             NEW pv \in Venues \cup {NULL}, NEW m \in Money, NEW n \in ManualCoins,
             CreateTransfer(r, t, v, dir, peer, pv, m, n)
      PROVE  Goal
  BY <1>3, <1>6 DEF CreateTransfer
<1>7. ASSUME NEW t \in TransferIds, RemoveTransfer(r, t) PROVE Goal
  BY <1>3, <1>7 DEF RemoveTransfer
<1>8. CASE ShiftCreated(r) \/ DeleteRemoved(r) \/ Reshift(r) \/ Fail(r)
  BY <1>2, <1>8 DEF ShiftCreated, DeleteRemoved, Reshift, Fail, Steps
<1>9. ASSUME NEW t, NEW ans, NEW merged, NEW step \in {"unshift", "takeOver"},
             StartAnswer(r, t, merged, ans, step)
      PROVE  Goal
  <2>1. req'[r].pc = step
    BY <1>1, <1>9 DEF StartAnswer
  <2> QED
    BY <2>1 DEF At
<1>10. ASSUME NEW t \in TransferIds, NEW ans \in Answer, Classify(r, t, ans) PROVE Goal
  BY <1>9, <1>10 DEF Classify
<1>11. ASSUME NEW t \in TransferIds, NEW m \in TransferIds, ClassifyReplacing(r, t, m) PROVE Goal
  <2>1. PICK ans : StartAnswer(r, t, m, ans, "takeOver")
    BY <1>11 DEF ClassifyReplacing
  <2> QED
    BY <1>9, <2>1
<1>12. CASE \/ TakeOver(r) \/ DeleteTakenOver(r) \/ Unshift(r) \/ DropLinkedTransaction(r)
            \/ WriteAnswer(r)
  <2>1. PICK step \in {"takeDelete", "unshift", "drop", "record", "answer", "reshift"} :
           Goto(r, step) /\ (step = "answer" => req[r].pc \in {"unshift", "drop"})
    <3>1. CASE TakeOver(r) \/ DeleteTakenOver(r) \/ WriteAnswer(r)
      BY <3>1 DEF TakeOver, DeleteTakenOver, WriteAnswer
    <3>2. CASE Unshift(r) \/ DropLinkedTransaction(r)
      BY <3>2 DEF Unshift, DropLinkedTransaction, At
    <3> QED
      BY <1>12, <3>1, <3>2
  <2>2. step \in Steps \ {"rewrite"}
    BY DEF Steps, AnswerSteps
  <2> QED
    BY <1>2, <2>1, <2>2
<1>13. ASSUME NEW x \in TxnIds, RecordEarnedOrSpent(r, x) PROVE Goal
  <2>1. /\ req' = [req EXCEPT ![r] = [req[r] EXCEPT !.pc = "answer", !.new = x]]
        /\ txn' = [txn EXCEPT ![x] = [cat |-> req[r].ans.cat, money |-> req[r].ans.money]]
    BY <1>13 DEF RecordEarnedOrSpent, CreateTxn
  <2>2. req'[r].pc = "answer" /\ req'[r].new = x /\ req'[r].ans = req[r].ans
    BY <1>1, <2>1 DEF Request
  <2>3. txn'[x].money = req[r].ans.money
    BY <2>1 DEF TypeOK
  <2> QED
    BY <2>2, <2>3 DEF At
<1> QED
  BY <1>4, <1>5, <1>6, <1>7, <1>8, <1>10, <1>11, <1>12, <1>13 DEF Handler

LEMMA MoneyStandsStep ==
    ASSUME OneHandler, IInv, IInv', MoneyStands, [Next]_vars
    PROVE  MoneyStands'
<1>1. req \in [Requests -> Request] /\ \A x \in TxnIds : TxnEffect(x)
  BY Effects DEF IInv, TypeOK
<1>2. ASSUME NEW r \in Requests, req'[r] = req[r],
             NEW x \in TxnIds, x \in {req[r].old, req[r].new}, txn'[x] # NULL, req[r].pc # "idle"
      PROVE  Exists(x) /\ txn'[x].money = txn[x].money
  <2>1. Exists(x)
    BY <1>1, <1>2 DEF TxnEffect, FreshTxn, Exists
  <2>2. ASSUME NEW q \in Requests, WriteUpdated(q) PROVE FALSE
    <3>1. q = r
      BY DEF OneHandler
    <3> QED
      BY <1>1, <1>2, <2>2, <3>1, IdleType DEF WriteUpdated
  <2> QED
    BY <1>2, <2>1, <2>2, MoneyMoves
<1>3. ASSUME NEW r \in Requests
      PROVE  /\ At(r, "rewrite")' /\ Exists(req[r].old)'
                   => txn'[req'[r].old].money = req'[r].ans.money
             /\ At(r, "answer")' /\ req'[r].new # NULL /\ Exists(req[r].new)'
                   => txn'[req'[r].new].money = req'[r].ans.money
  <2>1. CASE req'[r] # req[r]
    <3>1. PICK q \in Requests : Handler(q)
      BY <2>1, WhoActs
    <3>2. Handler(r)
      BY <3>1 DEF OneHandler
    <3> QED
      BY <2>1, <3>2, MoneyRead
  <2>2. CASE req'[r] = req[r]
    <3>1. ASSUME At(r, "rewrite"), txn'[req[r].old] # NULL
          PROVE  txn'[req[r].old].money = req[r].ans.money
      <4>1. req[r].old \in TxnIds
        BY <3>1, HandlersEdit DEF IInv, At, EditSteps
      <4> QED
        BY <1>2, <2>2, <3>1, <4>1 DEF MoneyStands, At
    <3>2. ASSUME At(r, "answer"), req[r].new # NULL, txn'[req[r].new] # NULL
          PROVE  txn'[req[r].new].money = req[r].ans.money
      <4>1. req[r].new \in TxnIds
        BY <1>1, <3>2 DEF Request
      <4> QED
        BY <1>2, <2>2, <3>2, <4>1 DEF MoneyStands, At
    <3> QED
      BY <2>2, <3>1, <3>2 DEF At, Exists
  <2> QED
    BY <2>1, <2>2
<1> QED
  BY <1>3 DEF MoneyStands

LEMMA NetsStep ==
    ASSUME OneHandler, IInv, IInv', MoneyStands, NetsToZero, [Next]_vars
    PROVE  NetsToZero'
<1> SUFFICES ASSUME NEW t \in TransferIds, story'[t] = "earned"
             PROVE  transfer'[t].money = txn'[transfer'[t].link].money
  BY DEF NetsToZero
<1> USE DEF IInv
<1>1. RowEffect(t) /\ TypeOK
  BY Effects
<1>2. CASE Kept(t)
  <2> DEFINE x == transfer[t].link
  <2>1. /\ story[t] = "earned" /\ transfer'[t] = transfer[t] /\ Exists(x) /\ txn'[x] # NULL
        /\ Present(t) /\ x # NULL
    BY <1>2 DEF Kept, AnswersHold, RowTells, Exists
  <2>2. x \in TxnIds
    BY <1>1, <2>1, RowsTyped DEF Transfer
  <2>3. ASSUME NEW r \in Requests, WriteUpdated(r), req[r].old = x
        PROVE  txn'[x].money = transfer'[t].money
    <3>1. txn'[x].money = req[r].ans.money
      BY <1>1, <2>2, <2>3 DEF WriteUpdated, TypeOK
    <3>2. CASE req[r].pc = "resize"
      <4>1. t \in Linked({x}) /\ SyncLinkedTransfer(x, req[r].ans.money)
        BY <2>1, <2>3, <3>2 DEF Linked, WriteUpdated
      <4>2. transfer'[t] = Resized(transfer[t], req[r].ans.money)
        BY <4>1 DEF SyncLinkedTransfer
      <4>3. transfer[t] \in Transfer /\ req[r].ans.money \in Money
        BY <1>1, <2>1, <2>3, RowsTyped, HandlersEdit DEF WriteUpdated
      <4> QED
        BY <3>1, <4>2, <4>3, ResizedType
    <3>3. CASE req[r].pc = "rewrite"
      BY <2>1, <2>3, <3>1, <3>3 DEF MoneyStands, At, NetsToZero
    <3> QED
      BY <2>3, <3>2, <3>3 DEF WriteUpdated, EditSteps
  <2>4. CASE txn'[x].money = txn[x].money
    BY <2>1, <2>4 DEF NetsToZero
  <2> QED
    BY <2>1, <2>2, <2>3, <2>4, MoneyMoves
<1>3. ASSUME NEW m \in Money, ResizedTo(t, m)
      PROVE  transfer'[t].money = txn'[transfer'[t].link].money
  BY <1>1, <1>3, RowsTyped, ResizedType DEF ResizedTo
<1>4. ~ReopenedRow(t) /\ ~TornRow(t) /\ ~AddedRow(t) /\ ~DeletedRow(t)
  BY DEF ReopenedRow, TornRow, AddedRow, DeletedRow
<1>5. ~EditedRow(t)
  BY DEF EditedRow, AnswersHold, RowTells
<1>6. ASSUME NEW r \in Requests, AnsweredBy(r, t)
      PROVE  transfer'[t].money = txn'[transfer'[t].link].money
  <2>1. /\ At(r, "answer") /\ req[r].new # NULL /\ Exists(req[r].new) /\ ReadsStand(r)
        /\ transfer'[t] = Answered(transfer[t], req[r].ans, req[r].new) /\ txn' = txn
        /\ req[r].t = t /\ req[r] \in Request
    BY <1>1, <1>6 DEF AnsweredBy, HandlersHold, TypeOK
  <2>2. transfer[t] \in Transfer
    BY <1>1, <2>1, RowsTyped DEF ReadsStand, At, Imported, AnswerSteps
  <2>3. /\ req[r].ans.peer = "LEDGER" /\ req[r].ans.money # NULL
        /\ req[r].ans \in Answer /\ req[r].new \in TxnIds \cup {NULL}
    BY <2>1 DEF ReadsStand, At, Request
  <2>4. transfer'[t].link = req[r].new
    BY <2>1, <2>2, <2>3, AnsweredType
  <2>5. transfer'[t].money = req[r].ans.money
    BY <2>1, <2>2, <2>3 DEF Answered, Transfer
  <2> QED
    BY <2>1, <2>4, <2>5 DEF MoneyStands
<1> QED
  BY <1>1, <1>2, <1>3, <1>4, <1>5, <1>6 DEF RowEffect

\* Where one handler is in progress at a time, the transfer of an earned movement carries exactly
\* the money of its income or expense: through edits of either, merges of categories, second
\* answers and handlers that die between two of their writes.
THEOREM EarnedNetsToZero == ASSUME OneHandler PROVE Spec => []NetsToZero
<1>1. Init => MoneyStands /\ NetsToZero
  BY IdleType DEF Init, MoneyStands, NetsToZero, At
<1>2. IInv /\ IInv' /\ MoneyStands /\ NetsToZero /\ [Next]_vars => MoneyStands' /\ NetsToZero'
  BY MoneyStandsStep, NetsStep
<1> QED
  BY <1>1, <1>2, InvHolds, PTL DEF Spec

-----------------------------------------------------------------------------
(***************************************************************************)
(* Coins.  While one handler is in progress, the coins of at most one      *)
(* record are out: recorded and not yet applied, or taken back and not yet *)
(* applied again.  A manual venue tracks at least what the others add up   *)
(* to, and a handler at rest has none out.                                 *)
(***************************************************************************)

FewRecords == IsFiniteSet(TransferIds) /\ IsFiniteSet(Slots) /\ Slots # {} /\ Requests # {}

\* Coins a row means for a manual venue.
RowCoins(row, v) ==
    LET towards == IF row.dir = "IN" THEN row.coins ELSE -row.coins
    IN  IF ~(row # NULL) THEN 0
        ELSE IF row.source = "MANUAL" /\ row.venue = v THEN towards
        ELSE IF row.peerVenue = v THEN -towards ELSE 0

\* The record whose coins a handler has out.
Out(q) ==
    IF q.pc = "takeDelete" THEN q.merged
    ELSE IF q.pc \in {"shift", "delete", "drop", "record", "answer", "reshift"} THEN q.t
    ELSE NULL

Weight(c, o, t, v) == IF t = o THEN 0 ELSE RowCoins(c[t], v)
Weights(c, o, v) == [t \in TransferIds |-> Weight(c, o, t, v)]
Settled(c, o, v) == SumFunctionOnSet(Weights(c, o, v), TransferIds)

Enough(r, v) == Total(held[v]) >= stated[v] + Settled(transfer, Out(req[r]), v)

\* A coin kept by hand never moves from a venue to itself.
Apart == \A t \in TransferIds : Present(t) /\ transfer[t].source = "MANUAL" =>
             transfer[t].peerVenue # transfer[t].venue

CoinsHeld ==
    /\ Apart
    /\ "interrupted" \notin mishaps => \A r \in Requests, v \in Manual : Enough(r, v)

-----------------------------------------------------------------------------
(* The sums of the specification *)

LEMMA TotalIsSum == ASSUME NEW slots PROVE Total(slots) = SumFunctionOnSet(slots, Slots)
<1> DEFINE next(s) == CHOOSE x \in s : TRUE
           body(g) == [s \in SUBSET Slots |-> IF s = {} THEN 0 ELSE slots[next(s)] + g[s \ {next(s)}]]
<1>1. Total(slots) = (CHOOSE g : g = body(g))[Slots]
  BY DEF Total, MapThenSumSet, MapThenFoldSet
<1>2. ASSUME NEW g PROVE body(g) = [s \in SUBSET Slots |-> Summed(slots, g, s)]
  BY DEF Summed, Picked
<1>3. \A g : g = body(g) <=> AddsUp(g, slots, Slots)
  BY <1>2 DEF AddsUp
<1> HIDE DEF body
<1> QED
  BY <1>1, <1>3, SumIsFold DEF Fold

RecordedIn(c, v) == MapThenSumSet(LAMBDA t : RowCoins(c[t], v), TransferIds)

LEMMA RecordedInIsSum ==
    ASSUME NEW c, NEW v
    PROVE  RecordedIn(c, v) = SumFunctionOnSet([t \in TransferIds |-> RowCoins(c[t], v)], TransferIds)
<1> DEFINE f == [t \in TransferIds |-> RowCoins(c[t], v)]
           next(s) == CHOOSE x \in s : TRUE
           body(g) == [s \in SUBSET TransferIds |->
                          IF s = {} THEN 0 ELSE RowCoins(c[next(s)], v) + g[s \ {next(s)}]]
<1>1. RecordedIn(c, v) = (CHOOSE g : g = body(g))[TransferIds]
  BY DEF RecordedIn, MapThenSumSet, MapThenFoldSet
<1>2. ASSUME NEW g PROVE body(g) = [s \in SUBSET TransferIds |-> Summed(f, g, s)]
  <2>1. ASSUME NEW s \in SUBSET TransferIds, s # {} PROVE RowCoins(c[next(s)], v) = f[Picked(s)]
    BY <2>1 DEF Picked
  <2> HIDE DEF f
  <2> QED
    BY <2>1 DEF Summed, Picked
<1>3. \A g : g = body(g) <=> AddsUp(g, f, TransferIds)
  BY <1>2 DEF AddsUp
<1> HIDE DEF body, f
<1> QED
  BY <1>1, <1>3, SumIsFold DEF f, Fold

LEMMA RecordedIsSettled ==
    ASSUME NEW v
    PROVE  Recorded(v) = stated[v] + Settled(transfer, NULL, v)
<1>1. Recorded(v) = stated[v] + RecordedIn(transfer, v)
  BY DEF Recorded, RecordedIn, RowCoins, Effect, Present, MapThenSumSet, MapThenFoldSet
<1>2. Weights(transfer, NULL, v) = [t \in TransferIds |-> RowCoins(transfer[t], v)]
  BY ConstantsAssumption DEF Weights, Weight
<1> QED
  BY <1>1, <1>2, RecordedInIsSum DEF Settled

Tables == [TransferIds -> Transfer \cup {NULL}]

LEMMA RowCoinsInt == ASSUME NEW row \in Transfer \cup {NULL}, NEW v PROVE RowCoins(row, v) \in Int
BY DEF RowCoins, Transfer

LEMMA WeightsInt ==
    ASSUME NEW c \in Tables, NEW o, NEW v
    PROVE  \A t \in TransferIds : Weights(c, o, v)[t] \in Int
BY RowCoinsInt DEF Weights, Weight, Tables

LEMMA SettledInt ==
    ASSUME FewRecords, NEW c \in Tables, NEW o, NEW v
    PROVE  Settled(c, o, v) \in Int
BY WeightsInt, SumInt DEF FewRecords, Settled

LEMMA SettledSame ==
    ASSUME FewRecords, NEW c, NEW d, NEW o, NEW p, NEW v,
           \A t \in TransferIds : Weight(d, p, t, v) = Weight(c, o, t, v)
    PROVE  Settled(d, p, v) = Settled(c, o, v)
<1>1. \A t \in TransferIds : Weights(d, p, v)[t] = Weights(c, o, v)[t]
  BY DEF Weights
<1> QED
  BY <1>1, SumSame DEF FewRecords, Settled

\* The coins of one record are taken out.
LEMMA SettledWithout ==
    ASSUME FewRecords, NEW c \in Tables, NEW t \in TransferIds, NEW v
    PROVE  Settled(c, NULL, v) = Settled(c, t, v) + RowCoins(c[t], v)
<1> DEFINE f == Weights(c, t, v)
           h == Weights(c, NULL, v)
<1>1. f[t] = 0 /\ h[t] = RowCoins(c[t], v)
  BY ConstantsAssumption DEF Weights, Weight
<1>2. \A u \in TransferIds \ {t} : h[u] = f[u]
  BY ConstantsAssumption DEF Weights, Weight
<1>3. \A u \in TransferIds : f[u] \in Int /\ h[u] \in Int
  BY WeightsInt
<1> HIDE DEF f, h
<1>4. SumFunctionOnSet(h, TransferIds) = SumFunctionOnSet(f, TransferIds) - f[t] + h[t]
  BY <1>2, <1>3, SumChanged DEF FewRecords
<1>5. SumFunctionOnSet(f, TransferIds) \in Int /\ RowCoins(c[t], v) \in Int
  BY <1>1, <1>3, SumInt DEF FewRecords
<1>6. SumFunctionOnSet(h, TransferIds) = SumFunctionOnSet(f, TransferIds) + RowCoins(c[t], v)
  BY <1>1, <1>4, <1>5
<1> QED
  BY <1>6 DEF Settled, f, h

-----------------------------------------------------------------------------
(* What a shift of coins leaves on a venue *)

LEMMA TotalInt ==
    ASSUME FewRecords, NEW slots \in [Slots -> Nat]
    PROVE  Total(slots) \in Int
BY TotalIsSum, SumInt DEF FewRecords

LEMMA SlotsMoved ==
    ASSUME FewRecords, NEW slots \in [Slots -> Nat], NEW delta \in Int,
           NEW to \in MovedSlots(slots, delta)
    PROVE  to \in [Slots -> Nat] /\ Total(to) >= Total(slots) + delta
<1>1. Total(slots) \in Int
  BY TotalInt
<1>2. CASE delta = 0
  BY <1>1, <1>2 DEF MovedSlots
<1>3. CASE delta # 0 /\ RowsFor(slots, delta) = {}
  <2>1. to = slots /\ ~(delta > 0)
    BY <1>3 DEF MovedSlots, RowsFor, FewRecords
  <2> QED
    BY <1>1, <2>1
<1>4. CASE delta # 0 /\ RowsFor(slots, delta) # {}
  <2>1. PICK s \in RowsFor(slots, delta) :
           to = [slots EXCEPT ![s] = IF @ + delta > 0 THEN @ + delta ELSE 0]
    BY <1>4 DEF MovedSlots
  <2>2. s \in Slots
    BY DEF RowsFor
  <2>3. /\ to \in [Slots -> Nat] /\ to[s] >= slots[s] + delta
        /\ \A u \in Slots \ {s} : to[u] = slots[u]
    BY <2>1, <2>2
  <2>4. SumFunctionOnSet(to, Slots) = SumFunctionOnSet(slots, Slots) - slots[s] + to[s]
    BY <2>2, <2>3, SumChanged DEF FewRecords
  <2>5. slots[s] \in Int /\ to[s] \in Int
    BY <2>2, <2>3
  <2> QED
    BY <1>1, <2>3, <2>4, <2>5, TotalIsSum
<1> QED
  BY <1>2, <1>3, <1>4

LEMMA VenueMoved ==
    ASSUME FewRecords, NEW h \in [Venues -> [Slots -> Nat]], NEW w, NEW delta \in Int,
           NEW g \in Moved(h, w, delta), NEW v \in Manual
    PROVE  /\ g \in [Venues -> [Slots -> Nat]]
           /\ Total(g[v]) >= Total(h[v]) + (IF w = v THEN delta ELSE 0)
<1>1. g \in [Venues -> [Slots -> Nat]]
  BY MovedType
<1>2. v \in Venues /\ Total(h[v]) \in Int
  BY TotalInt DEF Manual
<1>3. CASE w \notin Manual
  <2>1. g = h /\ w # v
    BY <1>3 DEF Moved
  <2> QED
    BY <1>1, <1>2, <2>1
<1>4. CASE w \in Manual
  <2>1. PICK slots \in MovedSlots(h[w], delta) : g = [h EXCEPT ![w] = slots]
    BY <1>4 DEF Moved
  <2>2. CASE w = v
    <3>1. g[v] = slots /\ slots \in MovedSlots(h[v], delta) /\ h[v] \in [Slots -> Nat]
      BY <1>2, <2>1, <2>2
    <3>2. Total(slots) >= Total(h[v]) + delta
      BY <3>1, SlotsMoved
    <3> QED
      BY <1>1, <2>2, <3>1, <3>2
  <2>3. CASE w # v
    <3>1. g[v] = h[v]
      BY <1>2, <2>1, <2>3
    <3> QED
      BY <1>1, <1>2, <2>3, <3>1
  <2> QED
    BY <2>2, <2>3
<1> QED
  BY <1>3, <1>4

\* Each side of the record gets, or gives back, at least the coins it means.
LEMMA ShiftMoves ==
    ASSUME FewRecords, TypeOK, Apart, NEW t \in TransferIds, NEW sign \in {1, -1},
           ShiftComposition(t, sign), NEW v \in Manual
    PROVE  Total(held'[v]) >= Total(held[v]) + sign * RowCoins(transfer[t], v)
<1>1. held \in [Venues -> [Slots -> Nat]] /\ v \in Venues /\ Total(held[v]) \in Int
  BY TotalInt DEF TypeOK, Manual
<1>2. CASE ~Present(t)
  <2>1. held' = held /\ RowCoins(transfer[t], v) = 0
    BY <1>2 DEF ShiftComposition, Present, RowCoins
  <2> QED
    BY <1>1, <2>1
<1>3. CASE Present(t)
  <2> DEFINE row     == transfer[t]
             coins   == IF row.dir = "IN" THEN row.coins ELSE -row.coins
             towards == sign * coins
             own     == IF row.source = "MANUAL" THEN towards ELSE 0
  <2>1. row \in Transfer /\ row # NULL
    BY <1>3 DEF Present, TypeOK
  <2>2. coins \in Int /\ towards \in Int /\ -towards \in Int /\ own \in Int
    BY <2>1 DEF Transfer
  <2>3. PICK h \in Moved(held, row.venue, own) : held' \in Moved(h, row.peerVenue, -towards)
    BY <1>3 DEF ShiftComposition
  <2>4. /\ row.source = "MANUAL" => row.peerVenue # row.venue
        /\ RowCoins(row, v) = IF row.source = "MANUAL" /\ row.venue = v THEN coins
                              ELSE IF row.peerVenue = v THEN -coins ELSE 0
    BY <1>3, <2>1 DEF Apart, RowCoins
  <2>5. -towards = sign * (-coins)
    BY <2>2
  <2> HIDE DEF coins, towards, own
  <2>6. /\ h \in [Venues -> [Slots -> Nat]]
        /\ Total(h[v]) >= Total(held[v]) + (IF row.venue = v THEN own ELSE 0)
    BY <1>1, <2>2, <2>3, VenueMoved
  <2>7. /\ held' \in [Venues -> [Slots -> Nat]]
        /\ Total(held'[v]) >= Total(h[v]) + (IF row.peerVenue = v THEN -towards ELSE 0)
    BY <2>2, <2>3, <2>6, VenueMoved
  <2>8. Total(h[v]) \in Int /\ Total(held'[v]) \in Int
    BY <1>1, <2>6, <2>7, TotalInt
  <2>9. CASE row.source = "MANUAL" /\ row.venue = v
    <3>1. own = sign * coins /\ RowCoins(row, v) = coins /\ row.peerVenue # v
      BY <2>4, <2>9 DEF own, towards
    <3> QED
      BY <1>1, <2>2, <2>6, <2>7, <2>8, <2>9, <3>1
  <2>10. CASE ~(row.source = "MANUAL" /\ row.venue = v) /\ row.peerVenue = v
    <3>1. (IF row.venue = v THEN own ELSE 0) = 0 /\ RowCoins(row, v) = -coins
      BY <2>4, <2>10 DEF own
    <3> QED
      BY <1>1, <2>2, <2>5, <2>6, <2>7, <2>8, <2>10, <3>1
  <2>11. CASE ~(row.source = "MANUAL" /\ row.venue = v) /\ row.peerVenue # v
    <3>1. (IF row.venue = v THEN own ELSE 0) = 0 /\ RowCoins(row, v) = 0 /\ sign * 0 = 0
      BY <2>4, <2>11 DEF own
    <3> QED
      BY <1>1, <2>6, <2>7, <2>8, <2>11, <3>1
  <2> QED
    BY <2>9, <2>10, <2>11
<1> QED
  BY <1>2, <1>3

-----------------------------------------------------------------------------
(* What each kind of step leaves of the invariant *)

\* The row means the same coins for the same venues.
SameMove(row, new) ==
    /\ new.source = row.source /\ new.venue = row.venue /\ new.peerVenue = row.peerVenue
    /\ new.coins = row.coins
    /\ new.coins > 0 => new.dir = row.dir

Untouched(t) ==
    \/ transfer'[t] = transfer[t]
    \/ /\ transfer[t] \in Transfer /\ transfer'[t] \in Transfer
       /\ SameMove(transfer[t], transfer'[t])

LEMMA UntouchedCoins ==
    ASSUME NEW t, Untouched(t), NEW v
    PROVE  RowCoins(transfer'[t], v) = RowCoins(transfer[t], v)
<1>1. CASE transfer'[t] = transfer[t]
  BY <1>1
<1>2. CASE transfer[t] \in Transfer /\ transfer'[t] \in Transfer /\ SameMove(transfer[t], transfer'[t])
  <2> DEFINE row == transfer[t]
             new == transfer'[t]
  <2>1. row # NULL /\ new # NULL
    BY <1>2, ConstantsAssumption
  <2>2. CASE row.coins = 0
    BY <1>2, <2>1, <2>2 DEF SameMove, RowCoins
  <2>3. CASE row.coins # 0
    <3>1. new.coins > 0
      BY <1>2, <2>3 DEF SameMove, Transfer
    <3> QED
      BY <1>2, <2>1, <3>1 DEF SameMove, RowCoins
  <2> QED
    BY <2>2, <2>3
<1> QED
  BY <1>1, <1>2 DEF Untouched

LEMMA NoCoins == ASSUME NEW row, row.coins = 0, NEW v PROVE RowCoins(row, v) = 0
<1>1. 0 \in Int /\ \A n \in Int : n = 0 => -n = 0
  OBVIOUS
<1>2. -row.coins = 0
  BY <1>1, Zenon
<1> QED
  BY <1>2 DEF RowCoins

ApartRow(row) == row # NULL /\ row.source = "MANUAL" => row.peerVenue # row.venue

LEMMA UntouchedApart ==
    ASSUME Apart, NEW t \in TransferIds, Untouched(t)
    PROVE  ApartRow(transfer'[t])
BY ConstantsAssumption DEF Untouched, SameMove, Apart, Present, ApartRow

LEMMA StillApart == (\A t \in TransferIds : ApartRow(transfer'[t])) => Apart'
BY DEF Apart, ApartRow, Present

LEMMA StillEnough ==
    ASSUME FewRecords, NEW r, NEW v, Enough(r, v), held' = held, stated' = stated,
           \A t \in TransferIds : Weight(transfer', Out(req'[r]), t, v) = Weight(transfer, Out(req[r]), t, v)
    PROVE  Enough(r, v)'
<1>1. Settled(transfer', Out(req'[r]), v) = Settled(transfer, Out(req[r]), v)
  BY SettledSame
<1> QED
  BY <1>1 DEF Enough, Out

LEMMA QuietStep ==
    ASSUME FewRecords, CoinsHeld, held' = held, stated' = stated, mishaps' = mishaps,
           \A t \in TransferIds : Untouched(t),
           \A r \in Requests : Out(req'[r]) = Out(req[r])
    PROVE  CoinsHeld'
<1>1. Apart'
  BY UntouchedApart, StillApart DEF CoinsHeld
<1>2. ASSUME NEW r \in Requests, NEW v \in Manual, Enough(r, v) PROVE Enough(r, v)'
  <2>1. \A t \in TransferIds : Weight(transfer', Out(req'[r]), t, v) = Weight(transfer, Out(req[r]), t, v)
    BY UntouchedCoins DEF Weight
  <2> QED
    BY <1>2, <2>1, StillEnough
<1> QED
  BY <1>1, <1>2 DEF CoinsHeld, Manual

\* The coins of t are taken back, and are out.
LEMMA TakeOutStep ==
    ASSUME FewRecords, TypeOK, CoinsHeld, transfer' = transfer, stated' = stated, mishaps' = mishaps,
           NEW t \in TransferIds, ShiftComposition(t, -1),
           \A r \in Requests : Out(req[r]) = NULL /\ Out(req'[r]) = t
    PROVE  CoinsHeld'
<1>1. Apart'
  BY DEF CoinsHeld, Apart, Present
<1>2. ASSUME NEW r \in Requests, NEW v \in Manual, Enough(r, v) PROVE Enough(r, v)'
  <2>1. transfer \in Tables /\ v \in Venues /\ stated[v] \in Int /\ Total(held[v]) \in Int
    BY TotalInt DEF TypeOK, Tables, Manual
  <2>2. Total(held'[v]) >= Total(held[v]) + (-1) * RowCoins(transfer[t], v)
    BY ShiftMoves DEF CoinsHeld
  <2>3. Settled(transfer, NULL, v) = Settled(transfer, t, v) + RowCoins(transfer[t], v)
    BY <2>1, SettledWithout
  <2>4. Settled(transfer, t, v) \in Int /\ RowCoins(transfer[t], v) \in Int
    BY <2>1, SettledInt, RowCoinsInt DEF Tables
  <2>5. Total(held[v]) >= stated[v] + Settled(transfer, NULL, v)
    BY <1>2 DEF Enough
  <2>6. Total(held'[v]) \in Int
    BY <2>1, ShiftType, TotalInt DEF TypeOK
  <2>7. Total(held'[v]) >= stated[v] + Settled(transfer, t, v)
    BY <2>1, <2>2, <2>3, <2>4, <2>5, <2>6
  <2> QED
    BY <2>7 DEF Enough, Out
<1> QED
  BY <1>1, <1>2 DEF CoinsHeld, Manual

\* The coins of t, which were out, are applied.
LEMMA PutInStep ==
    ASSUME FewRecords, TypeOK, CoinsHeld, transfer' = transfer, stated' = stated, mishaps' = mishaps,
           NEW t \in TransferIds, ShiftComposition(t, 1),
           \A r \in Requests : Out(req[r]) = t /\ Out(req'[r]) = NULL
    PROVE  CoinsHeld'
<1>1. Apart'
  BY DEF CoinsHeld, Apart, Present
<1>2. ASSUME NEW r \in Requests, NEW v \in Manual, Enough(r, v) PROVE Enough(r, v)'
  <2>1. transfer \in Tables /\ v \in Venues /\ stated[v] \in Int /\ Total(held[v]) \in Int
    BY TotalInt DEF TypeOK, Tables, Manual
  <2>2. Total(held'[v]) >= Total(held[v]) + 1 * RowCoins(transfer[t], v)
    BY ShiftMoves DEF CoinsHeld
  <2>3. Settled(transfer, NULL, v) = Settled(transfer, t, v) + RowCoins(transfer[t], v)
    BY <2>1, SettledWithout
  <2>4. Settled(transfer, t, v) \in Int /\ RowCoins(transfer[t], v) \in Int
    BY <2>1, SettledInt, RowCoinsInt DEF Tables
  <2>5. Total(held[v]) >= stated[v] + Settled(transfer, t, v)
    BY <1>2 DEF Enough
  <2>6. Total(held'[v]) \in Int
    BY <2>1, ShiftType, TotalInt DEF TypeOK
  <2>7. Total(held'[v]) >= stated[v] + Settled(transfer, NULL, v)
    BY <2>1, <2>2, <2>3, <2>4, <2>5, <2>6
  <2> QED
    BY <2>7 DEF Enough, Out
<1> QED
  BY <1>1, <1>2 DEF CoinsHeld, Manual

\* Row t is written while its coins are out or come to nothing, before and after.
LEMMA RowStep ==
    ASSUME FewRecords, CoinsHeld, held' = held, stated' = stated, mishaps' = mishaps,
           NEW t \in TransferIds, \A u \in TransferIds \ {t} : transfer'[u] = transfer[u],
           ApartRow(transfer'[t]),
           \A r \in Requests :
               /\ \/ Out(req'[r]) = Out(req[r])
                  \/ Out(req[r]) \in {NULL, t} /\ Out(req'[r]) \in {NULL, t}
               /\ Out(req[r]) = t \/ \A v \in Manual : RowCoins(transfer[t], v) = 0
               /\ Out(req'[r]) = t \/ \A v \in Manual : RowCoins(transfer'[t], v) = 0
    PROVE  CoinsHeld'
<1>1. Apart'
  <2>1. \A u \in TransferIds \ {t} : ApartRow(transfer'[u])
    BY DEF CoinsHeld, Apart, ApartRow, Present
  <2> QED
    BY <2>1, StillApart
<1>2. ASSUME NEW r \in Requests, NEW v \in Manual, Enough(r, v) PROVE Enough(r, v)'
  <2>1. Weight(transfer', Out(req'[r]), t, v) = 0 /\ Weight(transfer, Out(req[r]), t, v) = 0
    BY DEF Weight
  <2>2. ASSUME NEW u \in TransferIds \ {t}
        PROVE  Weight(transfer', Out(req'[r]), u, v) = Weight(transfer, Out(req[r]), u, v)
    BY ConstantsAssumption DEF Weight
  <2> QED
    BY <1>2, <2>1, <2>2, StillEnough
<1> QED
  BY <1>1, <1>2 DEF CoinsHeld, Manual

\* The user states the coins of one row of one venue.
LEMMA HoldingStep ==
    ASSUME FewRecords, TypeOK, CoinsHeld, NEW w \in Manual, NEW s \in Slots, NEW n \in Nat,
           SetHolding(w, s, n)
    PROVE  CoinsHeld'
<1>1. /\ held' = [held EXCEPT ![w][s] = n] /\ stated' = [stated EXCEPT ![w] = @ + n - held[w][s]]
      /\ transfer' = transfer /\ req' = req /\ mishaps' = mishaps
  BY DEF SetHolding, books
<1>2. Apart'
  BY <1>1 DEF CoinsHeld, Apart, Present
<1>3. ASSUME NEW r \in Requests, NEW v \in Manual, Enough(r, v) PROVE Enough(r, v)'
  <2>1. v \in Venues /\ w \in Venues /\ stated[v] \in Int /\ held[v] \in [Slots -> Nat]
    BY DEF TypeOK, Manual
  <2>2. CASE v # w
    <3>1. held'[v] = held[v] /\ stated'[v] = stated[v]
      BY <1>1, <2>1, <2>2 DEF TypeOK
    <3> QED
      BY <1>1, <1>3, <3>1 DEF Enough
  <2>3. CASE v = w
    <3> DEFINE f == held[v]
               h == held'[v]
    <3>1. /\ h[s] = n /\ h[s] \in Int /\ f[s] \in Int /\ stated'[v] = stated[v] + n - f[s]
          /\ \A u \in Slots : f[u] \in Int
          /\ \A u \in Slots \ {s} : h[u] = f[u]
      BY <1>1, <2>1, <2>3 DEF TypeOK
    <3>2. Total(f) \in Int /\ Settled(transfer, Out(req[r]), v) \in Int
      BY <2>1, TotalInt, SettledInt DEF TypeOK, Tables
    <3> HIDE DEF f, h
    <3>3. SumFunctionOnSet(h, Slots) = SumFunctionOnSet(f, Slots) - f[s] + h[s]
      BY <3>1, SumChanged DEF FewRecords
    <3>4. Total(h) = Total(f) - f[s] + n
      BY <3>1, <3>3, TotalIsSum
    <3>5. Total(f) >= stated[v] + Settled(transfer, Out(req[r]), v)
      BY <1>3 DEF Enough, f
    <3>6. Total(h) >= stated'[v] + Settled(transfer, Out(req[r]), v)
      BY <2>1, <3>1, <3>2, <3>4, <3>5
    <3> QED
      BY <1>1, <3>6 DEF Enough, h
  <2> QED
    BY <2>2, <2>3
<1> QED
  BY <1>1, <1>2, <1>3 DEF CoinsHeld, Manual

-----------------------------------------------------------------------------
(* Which kind each action is *)

LEMMA RewrittenRows ==
    ASSUME NEW row \in Transfer, NEW m \in Money
    PROVE  /\ Resized(row, m) \in Transfer /\ SameMove(row, Resized(row, m))
           /\ Reopened(row) \in Transfer /\ SameMove(row, Reopened(row))
           /\ Unlinked(row) \in Transfer /\ SameMove(row, Unlinked(row))
<1>1. /\ Resized(row, m) \in Transfer /\ Reopened(row) \in Transfer /\ Unlinked(row) \in Transfer
  BY ResizedType, ReopenedType, UnlinkedType
<1>2. SameMove(row, Resized(row, m))
  BY DEF SameMove, Resized, Transfer
<1>3. SameMove(row, Reopened(row))
  BY DEF SameMove, Reopened, Transfer
<1>4. SameMove(row, Unlinked(row))
  BY DEF SameMove, Unlinked, Transfer
<1> QED
  BY <1>1, <1>2, <1>3, <1>4

LEMMA LinkedRows ==
    ASSUME TypeOK, NEW X,
           ReopenLinkedTransfers(X) \/ UnlinkDeleted(X) \/ (\E m \in Money : \E x : X = {x} /\ SyncLinkedTransfer(x, m)),
           NEW t \in TransferIds
    PROVE  Untouched(t)
<1>1. CASE t \notin Linked(X)
  BY <1>1 DEF ReopenLinkedTransfers, UnlinkDeleted, SyncLinkedTransfer, Untouched
<1>2. CASE t \in Linked(X)
  <2>1. transfer[t] \in Transfer
    BY <1>2 DEF Linked, Present, TypeOK
  <2>2. CASE ReopenLinkedTransfers(X)
    BY <1>2, <2>1, <2>2, ReopenedType, UnlinkedType, RewrittenRows DEF ReopenLinkedTransfers, Untouched, SameMove, Reopened, Transfer
  <2>3. CASE UnlinkDeleted(X)
    BY <1>2, <2>1, <2>3, UnlinkedType DEF UnlinkDeleted, Untouched, SameMove, Unlinked, Transfer
  <2>4. ASSUME NEW m \in Money, NEW x, X = {x}, SyncLinkedTransfer(x, m) PROVE Untouched(t)
    BY <1>2, <2>1, <2>4, RewrittenRows DEF SyncLinkedTransfer, Untouched
  <2> QED
    BY <2>2, <2>3, <2>4
<1> QED
  BY <1>1, <1>2

LEMMA EditedCoins ==
    ASSUME TypeOK, NEW t \in TransferIds, NEW dir \in Directions, NEW m \in Money, UpdateTransfer(t, dir, m),
           NEW u \in TransferIds
    PROVE  Untouched(u)
<1>1. CASE u # t
  BY <1>1 DEF UpdateTransfer, Untouched, TypeOK
<1>2. CASE u = t
  <2>1. transfer[t] \in Transfer /\ transfer'[t] = Edited(transfer[t], dir, m)
    BY DEF UpdateTransfer, FreeToEdit, Present, TypeOK
  <2>2. Edited(transfer[t], dir, m) \in Transfer
    BY <2>1, EditedType
  <2>3. SameMove(transfer[t], Edited(transfer[t], dir, m))
    BY <2>1 DEF SameMove, Edited, Transfer, UpdateTransfer, FreeToEdit
  <2> QED
    BY <1>2, <2>1, <2>2, <2>3 DEF Untouched
<1> QED
  BY <1>1, <1>2

LEMMA UserCoins ==
    ASSUME FewRecords, TypeOK, CoinsHeld, UserEdits
    PROVE  CoinsHeld'
<1>1. ASSUME NEW w \in Manual, NEW s \in Slots, NEW n \in ManualCoins,
             AddHolding(w, s, n) \/ UpdateHolding(w, s, n)
      PROVE  CoinsHeld'
  <2>1. n \in Nat /\ SetHolding(w, s, n)
    BY <1>1, ConstantsAssumption DEF AddHolding, UpdateHolding
  <2> QED
    BY <2>1, HoldingStep
<1>2. ASSUME NEW w \in Manual, NEW s \in Slots, RemoveHolding(w, s) PROVE CoinsHeld'
  <2>1. SetHolding(w, s, 0)
    BY <1>2 DEF RemoveHolding
  <2> QED
    BY <2>1, HoldingStep
<1>3. ASSUME NEW x, NEW c, NEW m, AddTransaction(x, c, m) PROVE CoinsHeld'
  BY <1>3, QuietStep DEF AddTransaction, Untouched
<1>4. ASSUME NEW X, RemoveTransactions(X) PROVE CoinsHeld'
  BY <1>4, QuietStep, LinkedRows DEF RemoveTransactions
<1>5. ASSUME NEW c, NEW target, AddCategory(c) \/ MergeCategory(c, target) PROVE CoinsHeld'
  BY <1>5, QuietStep DEF AddCategory, MergeCategory, Untouched
<1>6. ASSUME NEW c, RemoveCategory(c) PROVE CoinsHeld'
  <2>1. \A t \in TransferIds : Untouched(t)
    BY <1>6, LinkedRows DEF RemoveCategory
  <2> QED
    BY <1>6, <2>1, QuietStep DEF RemoveCategory
<1>7. ASSUME NEW t \in TransferIds, NEW dir \in Directions, NEW m \in Money, UpdateTransfer(t, dir, m)
      PROVE  CoinsHeld'
  <2>1. \A u \in TransferIds : Untouched(u)
    BY <1>7, EditedCoins
  <2> QED
    BY <1>7, <2>1, QuietStep DEF UpdateTransfer
<1> QED
  BY <1>1, <1>2, <1>3, <1>4, <1>5, <1>6, <1>7 DEF UserEdits

\* Imported rows mean no coins of a manual venue before they are answered.
LEMMA SyncCoins ==
    ASSUME FewRecords, TypeOK, CoinsHeld, Sync
    PROVE  CoinsHeld'
<1>1. PICK t \in TransferIds, v \in LiveVenues, dir \in Directions, m \in Money, n \in ImportCoins :
         ImportMovement(t, v, dir, m, n) \/ RecordP2pOrder(t, v, dir, m, n)
  BY DEF Sync
<1>2. PICK row, told : /\ AddRow(t, row, told) /\ row.source = "BYBIT" /\ row.peerVenue = NULL
                       /\ held' = held /\ req' = req /\ stated' = stated /\ mishaps' = mishaps
  <2>1. CASE ImportMovement(t, v, dir, m, n)
    BY <2>1 DEF ImportMovement
  <2>2. CASE RecordP2pOrder(t, v, dir, m, n)
    BY <2>2 DEF RecordP2pOrder
  <2> QED
    BY <1>1, <2>1, <2>2
<1>3. /\ transfer'[t] = row /\ \A u \in TransferIds \ {t} : transfer'[u] = transfer[u]
      /\ transfer[t] = NULL
  BY <1>2 DEF AddRow, FreshRow, Present, TypeOK
<1>4. ApartRow(row)
  BY <1>2 DEF ApartRow
<1>5. ASSUME NEW w \in Manual PROVE RowCoins(row, w) = 0 /\ RowCoins(transfer[t], w) = 0
  BY <1>2, <1>3, ConstantsAssumption DEF RowCoins, Manual
<1> QED
  BY <1>2, <1>3, <1>4, <1>5, RowStep

LEMMA Outs ==
    ASSUME NEW q, NEW o
    PROVE  /\ q = Idle => Out(q) = NULL
           /\ q = Doing("shift", o) \/ q = Doing("delete", o) => Out(q) = o
           /\ q.pc \in {"idle", "takeOver", "unshift", "resize", "rewrite"} => Out(q) = NULL
           /\ q.pc \in {"shift", "delete", "drop", "record", "answer", "reshift"} => Out(q) = q.t
           /\ q.pc = "takeDelete" => Out(q) = q.merged
BY DEF Out, Idle, Doing

\* The step of a handler, seen by its coins: where it was and where it goes.
Acts(r, o, p) == Out(req[r]) = o /\ Out(req'[r]) = p

LEMMA OneActs ==
    ASSUME OneHandler, NEW r \in Requests, NEW o, NEW p, Acts(r, o, p)
    PROVE  \A q \in Requests : Out(req[q]) = o /\ Out(req'[q]) = p
<1>1. \A q \in Requests : q = r
  BY DEF OneHandler
<1> QED
  BY <1>1 DEF Acts

LEMMA HandlerCoins ==
    ASSUME OneHandler, FewRecords, IInv, CoinsHeld, NEW r \in Requests, Handler(r)
    PROVE  CoinsHeld'
<1> DEFINE q == req[r]
<1>0. /\ TypeOK /\ req \in [Requests -> Request] /\ q \in Request /\ ReadsStand(r)
      /\ q.pc \notin {"idle"} \cup EditSteps => q.t \in TransferIds
  BY DEF IInv, TypeOK, HandlersHold, ReadsStand
<1>1. ASSUME NEW x, NEW c, NEW m, UpdateTransaction(r, x, c, m) PROVE CoinsHeld'
  <2>1. req'[r].pc \in {"resize", "rewrite"} /\ q.pc = "idle"
    BY <1>0, <1>1 DEF UpdateTransaction
  <2>2. Acts(r, NULL, NULL)
    BY <2>1, Outs DEF Acts
  <2> QED
    BY <1>1, <2>2, OneActs, QuietStep DEF UpdateTransaction, books, Untouched
<1>2. CASE WriteUpdated(r)
  <2>1. Acts(r, NULL, NULL)
    <3>1. req'[r] = Idle /\ q.pc \in {"resize", "rewrite"}
      BY <1>0, <1>2 DEF WriteUpdated, EditSteps
    <3> QED
      BY <3>1, Outs DEF Acts
  <2>2. \A t \in TransferIds : Untouched(t)
    <3>1. q.ans.money \in Money
      BY <1>0, <1>2, HandlersEdit DEF WriteUpdated, IInv
    <3>2. CASE SyncLinkedTransfer(q.old, q.ans.money)
      BY <1>0, <3>1, <3>2, LinkedRows
    <3>3. CASE UNCHANGED transfer
      BY <3>3 DEF Untouched
    <3> QED
      BY <1>2, <3>2, <3>3 DEF WriteUpdated
  <2> QED
    BY <1>2, <2>1, <2>2, OneActs, QuietStep DEF WriteUpdated
<1>3. ASSUME NEW t \in TransferIds, NEW v \in Venues, NEW dir \in Directions, NEW peer \in Peers,
             NEW pv \in Venues \cup {NULL}, NEW m \in Money, NEW n \in ManualCoins,
             CreateTransfer(r, t, v, dir, peer, pv, m, n)
      PROVE  CoinsHeld'
  <2> DEFINE row == [venue |-> v, dir |-> dir, peer |-> peer, peerVenue |-> pv,
                     money |-> m, usd |-> ToUsd[m], coins |-> n, source |-> "MANUAL",
                     review |-> FALSE, link |-> NULL]
  <2>1. /\ transfer'[t] = row /\ \A u \in TransferIds \ {t} : transfer'[u] = transfer[u]
        /\ transfer[t] = NULL
    BY <1>0, <1>3 DEF CreateTransfer, AddRow, FreshRow, Present, TypeOK
  <2>2. /\ held' = held /\ stated' = stated /\ mishaps' = mishaps /\ q.pc = "idle"
    BY <1>3 DEF CreateTransfer, At
  <2>3. ApartRow(row)
    BY <1>3, ConstantsAssumption DEF CreateTransfer, ValidPeer, ApartRow
  <2>4. \A w \in Manual : RowCoins(transfer[t], w) = 0
    BY <2>1 DEF RowCoins
  <2>5. CASE n > 0
    <3>1. req'[r] = Doing("shift", t)
      BY <1>0, <1>3, <2>5 DEF CreateTransfer, Begin
    <3>2. Acts(r, NULL, t)
      BY <2>2, <3>1, Outs DEF Acts
    <3> HIDE DEF row
    <3>3. ApartRow(transfer'[t])
      BY <2>1, <2>3
    <3>4. \A z \in Requests : Out(req[z]) = NULL /\ Out(req'[z]) = t
      BY <3>2, OneActs
    <3> QED
      BY <2>1, <2>2, <2>4, <3>3, <3>4, RowStep
  <2>6. CASE ~(n > 0)
    <3>1. req'[r] = req[r]
      BY <1>0, <1>3, <2>6 DEF CreateTransfer
    <3>2. Acts(r, NULL, NULL)
      BY <2>2, <3>1, Outs DEF Acts
    <3>3. n = 0
      BY <2>6, ConstantsAssumption
    <3>4. row.coins = 0
      BY <3>3
    <3> HIDE DEF row
    <3>5. ApartRow(transfer'[t]) /\ \A w \in Manual : RowCoins(transfer'[t], w) = 0
      BY <2>1, <2>3, <3>4, NoCoins
    <3>6. \A z \in Requests : Out(req[z]) = NULL /\ Out(req'[z]) = NULL
      BY <3>2, OneActs
    <3> QED
      BY <2>1, <2>2, <2>4, <3>5, <3>6, RowStep
  <2> QED
    BY <2>5, <2>6
<1>4. ASSUME NEW step \in Steps, Goto(r, step)
      PROVE  /\ step = "idle" => req'[r] = Idle
             /\ step # "idle" => req'[r].pc = step /\ req'[r].t = q.t /\ req'[r].merged = q.merged
  BY <1>0, <1>4, GotoType
<1>5. CASE ShiftCreated(r) \/ Reshift(r)
  <2>1. /\ q.pc \in {"shift", "reshift"} /\ ShiftComposition(q.t, 1) /\ Goto(r, "idle")
        /\ transfer' = transfer /\ stated' = stated /\ mishaps' = mishaps
    BY <1>5 DEF ShiftCreated, Reshift, At, books
  <2>2. q.t \in TransferIds /\ req'[r] = Idle
    BY <1>0, <1>4, <2>1 DEF Steps, EditSteps
  <2>3. Acts(r, q.t, NULL)
    BY <2>1, <2>2, Outs DEF Acts
  <2> QED
    BY <1>0, <2>1, <2>2, <2>3, OneActs, PutInStep
<1>6. ASSUME NEW t \in TransferIds, RemoveTransfer(r, t) PROVE CoinsHeld'
  <2>1. q.pc = "idle" /\ req'[r] = Doing("delete", t)
    BY <1>0, <1>6 DEF RemoveTransfer, Begin, At
  <2>2. Acts(r, NULL, t)
    BY <2>1, Outs DEF Acts
  <2> QED
    BY <1>0, <1>6, <2>2, OneActs, TakeOutStep DEF RemoveTransfer, books
<1>7. ASSUME NEW t \in TransferIds, DeleteRow(t), Acts(r, t, NULL),
             held' = held, stated' = stated, mishaps' = mishaps
      PROVE  CoinsHeld'
  <2>1. transfer'[t] = NULL /\ \A u \in TransferIds \ {t} : transfer'[u] = transfer[u]
    BY <1>0, <1>7 DEF DeleteRow, TypeOK
  <2>2. ApartRow(transfer'[t]) /\ \A w \in Manual : RowCoins(transfer'[t], w) = 0
    BY <2>1 DEF ApartRow, RowCoins
  <2> QED
    BY <1>7, <2>1, <2>2, OneActs, RowStep
<1>8. CASE DeleteRemoved(r)
  <2>1. q.pc = "delete" /\ Goto(r, "idle")
    BY <1>8 DEF DeleteRemoved, At
  <2>2. q.t \in TransferIds /\ req'[r] = Idle
    BY <1>0, <1>4, <2>1 DEF Steps, EditSteps
  <2>3. Acts(r, q.t, NULL)
    BY <2>1, <2>2, Outs DEF Acts
  <2> QED
    BY <1>7, <1>8, <2>2, <2>3 DEF DeleteRemoved
<1>9. ASSUME NEW t, NEW merged, NEW ans, NEW step \in {"unshift", "takeOver"},
             StartAnswer(r, t, merged, ans, step), q.pc = "idle"
      PROVE  Acts(r, NULL, NULL)
  <2>1. req'[r].pc = step
    BY <1>0, <1>9 DEF StartAnswer
  <2> QED
    BY <1>9, <2>1, Outs DEF Acts
<1>10. ASSUME NEW t, NEW ans, Classify(r, t, ans) PROVE CoinsHeld'
  <2>1. Acts(r, NULL, NULL)
    BY <1>9, <1>10 DEF Classify, At
  <2> QED
    BY <1>10, <2>1, OneActs, QuietStep DEF Classify, books, Untouched
<1>11. ASSUME NEW t, NEW m, ClassifyReplacing(r, t, m) PROVE CoinsHeld'
  <2>1. Acts(r, NULL, NULL)
    <3>1. PICK ans : StartAnswer(r, t, m, ans, "takeOver") /\ q.pc = "idle"
      BY <1>11 DEF ClassifyReplacing, At
    <3> QED
      BY <1>9, <3>1
  <2> QED
    BY <1>11, <2>1, OneActs, QuietStep DEF ClassifyReplacing, books, Untouched
<1>12. CASE TakeOver(r)
  <2>1. q.pc = "takeOver" /\ Goto(r, "takeDelete") /\ q.merged \in TransferIds
    BY <1>0, <1>12 DEF TakeOver, At, ReadsStand
  <2>2. req'[r].pc = "takeDelete" /\ req'[r].merged = q.merged
    BY <1>4, <2>1 DEF Steps, AnswerSteps
  <2>3. Acts(r, NULL, q.merged)
    BY <2>1, <2>2, Outs DEF Acts
  <2> QED
    BY <1>0, <1>12, <2>1, <2>3, OneActs, TakeOutStep DEF TakeOver, books
<1>13. CASE DeleteTakenOver(r)
  <2>1. q.pc = "takeDelete" /\ Goto(r, "unshift") /\ q.merged \in TransferIds
    BY <1>0, <1>13 DEF DeleteTakenOver, At, ReadsStand
  <2>2. req'[r].pc = "unshift"
    BY <1>4, <2>1 DEF Steps, AnswerSteps
  <2>3. Acts(r, q.merged, NULL)
    BY <2>1, <2>2, Outs DEF Acts
  <2> QED
    BY <1>7, <1>13, <2>1, <2>3 DEF DeleteTakenOver
<1>14. CASE Unshift(r)
  <2>1. PICK step \in {"drop", "record", "answer"} : Goto(r, step)
    BY <1>14 DEF Unshift
  <2>2. q.pc = "unshift" /\ req'[r].pc = step /\ req'[r].t = q.t /\ q.t \in TransferIds
    BY <1>0, <1>4, <1>14, <2>1 DEF Unshift, At, Steps, AnswerSteps, EditSteps
  <2>3. Acts(r, NULL, q.t)
    BY <2>2, Outs DEF Acts
  <2> QED
    BY <1>0, <1>14, <2>2, <2>3, OneActs, TakeOutStep DEF Unshift, books
<1>15. CASE DropLinkedTransaction(r)
  <2>1. PICK step \in {"record", "answer"} : Goto(r, step)
    BY <1>15 DEF DropLinkedTransaction
  <2>2. q.pc = "drop" /\ req'[r].pc = step /\ req'[r].t = q.t
    BY <1>4, <1>15, <2>1 DEF DropLinkedTransaction, At, Steps, AnswerSteps
  <2>3. Acts(r, q.t, q.t)
    BY <2>2, Outs DEF Acts
  <2>4. \A t \in TransferIds : Untouched(t)
    BY <1>0, <1>15, LinkedRows DEF DropLinkedTransaction
  <2> QED
    BY <1>15, <2>3, <2>4, OneActs, QuietStep DEF DropLinkedTransaction
<1>16. ASSUME NEW x, RecordEarnedOrSpent(r, x) PROVE CoinsHeld'
  <2>1. q.pc = "record" /\ req'[r].pc = "answer" /\ req'[r].t = q.t
    BY <1>0, <1>16 DEF RecordEarnedOrSpent, At, Request
  <2>2. Acts(r, q.t, q.t)
    BY <2>1, Outs DEF Acts
  <2> QED
    BY <1>16, <2>2, OneActs, QuietStep DEF RecordEarnedOrSpent, Untouched
<1>17. CASE WriteAnswer(r)
  <2>1. q.pc = "answer" /\ Goto(r, "reshift") /\ q.t \in TransferIds
    BY <1>0, <1>17 DEF WriteAnswer, At, EditSteps
  <2>2. req'[r].pc = "reshift" /\ req'[r].t = q.t
    BY <1>4, <2>1 DEF Steps, AnswerSteps
  <2>3. Acts(r, q.t, q.t)
    BY <2>1, <2>2, Outs DEF Acts
  <2>4. /\ transfer'[q.t] = Answered(transfer[q.t], q.ans, q.new)
        /\ \A u \in TransferIds \ {q.t} : transfer'[u] = transfer[u]
        /\ held' = held /\ stated' = stated /\ mishaps' = mishaps
    BY <1>0, <1>17, <2>1 DEF WriteAnswer, TypeOK
  <2>5. transfer[q.t] \in Transfer /\ transfer[q.t].source = "BYBIT"
    BY <1>0, <2>1 DEF ReadsStand, Imported, Present, AnswerSteps, TypeOK
  <2>6. transfer'[q.t].source = "BYBIT"
    BY <2>4, <2>5 DEF Answered, Transfer
  <2>7. ApartRow(transfer'[q.t])
    BY <2>6 DEF ApartRow
  <2> QED
    BY <2>1, <2>3, <2>4, <2>7, OneActs, RowStep
<1>18. CASE Fail(r)
  <2>1. transfer' = transfer /\ mishaps' = IF Manual = {} THEN mishaps ELSE mishaps \cup {"interrupted"}
    BY <1>18 DEF Fail, books
  <2>2. Apart'
    BY <2>1 DEF CoinsHeld, Apart, Present
  <2> QED
    BY <2>1, <2>2 DEF CoinsHeld, Manual
<1> QED
  BY <1>1, <1>2, <1>3, <1>5, <1>6, <1>8, <1>10, <1>11, <1>12, <1>13, <1>14, <1>15, <1>16, <1>17, <1>18
  DEF Handler

LEMMA CoinsStep ==
    ASSUME OneHandler, FewRecords, IInv, CoinsHeld, [Next]_vars
    PROVE  CoinsHeld'
<1>1. CASE UNCHANGED vars
  <2>1. /\ held' = held /\ stated' = stated /\ mishaps' = mishaps /\ req' = req
        /\ \A t \in TransferIds : Untouched(t)
    BY <1>1 DEF vars, Untouched
  <2> QED
    BY <2>1, QuietStep
<1> QED
  BY <1>1, UserCoins, SyncCoins, HandlerCoins DEF Next, IInv

LEMMA CoinsInit == FewRecords /\ Init => CoinsHeld
<1> SUFFICES ASSUME FewRecords, Init PROVE CoinsHeld
  OBVIOUS
<1>1. Apart
  BY DEF Init, Apart, Present
<1>2. ASSUME NEW r \in Requests, NEW v \in Manual PROVE Enough(r, v)
  <2>1. held[v] = [s \in Slots |-> 0] /\ stated[v] = 0
    BY DEF Init, Manual
  <2>2. Total(held[v]) = 0
    BY <2>1, TotalIsSum, SumNone DEF FewRecords
  <2>3. \A t \in TransferIds : Weights(transfer, Out(req[r]), v)[t] = 0
    BY DEF Init, Weights, Weight, RowCoins
  <2>4. Settled(transfer, Out(req[r]), v) = 0
    BY <2>3, SumNone DEF FewRecords, Settled
  <2> QED
    BY <2>1, <2>2, <2>4 DEF Enough
<1> QED
  BY <1>1, <1>2 DEF CoinsHeld

\* Where one handler is in progress at a time and none stopped halfway, a venue kept by hand
\* tracks, between handlers, at least the coins its records add up to: shiftComposition()
\* loses none of them, whatever rows it lands on and however transfers are recorded,
\* removed, answered again or merged.
THEOREM CoinsKept == ASSUME OneHandler, FewRecords PROVE Spec => []CoinsNeverLost
<1>1. Init => CoinsHeld
  BY CoinsInit
<1>2. IInv /\ CoinsHeld /\ [Next]_vars => CoinsHeld'
  BY CoinsStep
<1>3. CoinsHeld => CoinsNeverLost
  <2> SUFFICES ASSUME CoinsHeld, AtRest, "interrupted" \notin mishaps, NEW v \in Manual
               PROVE  Total(held[v]) >= Recorded(v)
    BY DEF CoinsNeverLost
  <2>1. PICK r \in Requests : TRUE
    BY DEF FewRecords
  <2>2. Enough(r, v) /\ Out(req[r]) = NULL
    BY Outs DEF CoinsHeld, AtRest, At
  <2> QED
    BY <2>2, RecordedIsSettled DEF Enough
<1> QED
  BY <1>1, <1>2, <1>3, InvHolds, PTL DEF Spec

-----------------------------------------------------------------------------
(***************************************************************************)
(* Reports.  What every figure is compared with is Exact, the period's     *)
(* operations one by one at the rate of their day.  First what the         *)
(* operators return, then that no route to a figure differs from it.       *)
(***************************************************************************)

\* The newest of some days is one of them, and so is the oldest.

LEMMA MaxIsOne ==
    ASSUME NEW S, IsFiniteSet(S), S # {}, \A x \in S : x \in Int
    PROVE  Max(S) \in S /\ \A x \in S : x <= Max(S)
<1> DEFINE Last(t) == \E p \in t : \A q \in t : p >= q
           Bad == {t \in SUBSET S : t # {} /\ ~Last(t)}
<1>1. Bad = {}
  <2>1. SUFFICES ASSUME Bad # {} PROVE FALSE
    OBVIOUS
  <2>2. PICK t \in Bad : \A u \in Bad : u \subseteq t => u = t
    <3>1. Bad \in SUBSET SUBSET S
      OBVIOUS
    <3> HIDE DEF Bad
    <3> QED
      BY <2>1, <3>1, Smallest
  <2>3. PICK p \in t : TRUE
    OBVIOUS
  <2>4. \A q \in t : q \in Int
    OBVIOUS
  <2>5. CASE t = {p}
    BY <2>2, <2>4, <2>5
  <2>6. CASE t # {p}
    <3> DEFINE rest == t \ {p}
    <3>0. rest # {} /\ rest \in SUBSET S /\ rest # t /\ rest \subseteq t
      BY <2>2, <2>3, <2>6
    <3>1. Last(rest)
      <4> HIDE DEF rest, Last
      <4> QED
        BY <2>2, <3>0
    <3>2. PICK q \in t \ {p} : \A x \in t \ {p} : q >= x
      BY <3>1
    <3>3. CASE q >= p
      BY <2>2, <3>2, <3>3
    <3>4. CASE p >= q
      <4>1. \A x \in t : p >= x
        BY <2>3, <2>4, <3>2, <3>4
      <4> QED
        BY <2>2, <2>3, <4>1
    <3> QED
      BY <2>3, <2>4, <3>2, <3>3, <3>4
  <2> QED
    BY <2>5, <2>6
<1>2. Last(S)
  BY <1>1
<1>3. Max(S) \in S /\ \A x \in S : Max(S) >= x
  BY <1>2 DEF Max
<1> QED
  BY <1>3

LEMMA MinIsOne ==
    ASSUME NEW S \in SUBSET Int, IsFiniteSet(S), S # {}
    PROVE  Min(S) \in S /\ \A x \in S : Min(S) <= x
<1> DEFINE T == {-x : x \in S}
           f == [x \in S |-> -x]
<1>1. IsFiniteSet(T)
  <2>1. f \in Surjection(S, T)
    BY DEF Surjection
  <2> HIDE DEF f, T
  <2> QED
    BY <2>1, FS_Surjection
<1>2. T \in SUBSET Int /\ T # {}
  OBVIOUS
<1>3. Max(T) \in T /\ \A x \in T : x <= Max(T)
  <2> HIDE DEF T
  <2> QED
    BY <1>1, <1>2, MaxIsOne
<1>4. PICK m \in S : Max(T) = -m
  BY <1>3
<1>5. \A x \in S : m <= x
  BY <1>3, <1>4
<1> QED
  BY <1>5 DEF Min

LEMMA DaysAreFinite ==
    /\ Days \subseteq Nat /\ Days \subseteq Int
    /\ \A S \in SUBSET Days : IsFiniteSet(S)
<1>1. 0 \in Int /\ MaxTime \div 2 \in Int
  BY RatesAssumption
<1>2. IsFiniteSet(Days)
  BY <1>1, FS_Interval DEF Days
<1>3. \A S \in SUBSET Days : IsFiniteSet(S)
  BY <1>2, FS_Subset
<1> QED
  BY <1>1, <1>3 DEF Days

\* The rates read once for a range are those of each day: the newest of the range, where there is
\* one, is the newest on record, and where there is none the newest is from before the range.
LEMMA ResolvedIsRateOn ==
    ASSUME NEW c \in All, NEW d \in Days, NEW from \in Int, NEW to \in Int, from <= d, d <= to
    PROVE  Resolve(c, d, from, to) = RateOn(c, d)
<1> DEFINE recorded == OnRecord(c, d)
           inRange == {e \in recorded : from <= e /\ e <= to}
<1>1. recorded \in SUBSET Days /\ inRange \in SUBSET Days /\ Days \subseteq Int
  BY DaysAreFinite DEF OnRecord
<1>2. IsFiniteSet(recorded) /\ IsFiniteSet(inRange)
  BY <1>1, DaysAreFinite
<1>3. \A e \in recorded : e <= d
  BY DEF OnRecord
<1>4. CASE inRange # {}
  <2>1. Max(inRange) \in inRange /\ \A x \in inRange : x <= Max(inRange)
    <3> HIDE DEF inRange
    <3> QED
      BY <1>1, <1>2, <1>4, MaxIsOne
  <2>2. recorded # {}
    BY <1>4
  <2>3. Max(recorded) \in recorded /\ \A x \in recorded : x <= Max(recorded)
    <3> HIDE DEF recorded
    <3> QED
      BY <1>1, <1>2, <2>2, MaxIsOne
  <2>4. Max(recorded) \in inRange
    <3>1. PICK x \in inRange : x = Max(inRange)
      BY <2>1
    <3>2. x \in recorded /\ from <= x /\ x \in Int /\ Max(recorded) \in Int /\ d \in Int
      BY <1>1, <2>3, <3>1
    <3>3. x <= Max(recorded) /\ Max(recorded) <= d
      BY <1>3, <2>3, <3>2
    <3>4. from <= Max(recorded) /\ Max(recorded) <= to
      BY <3>2, <3>3
    <3> QED
      BY <2>3, <3>4
  <2>5. Max(inRange) = Max(recorded)
    <3>1. Max(inRange) \in Int /\ Max(recorded) \in Int /\ Max(inRange) \in recorded
      BY <1>1, <2>1, <2>3
    <3>2. Max(inRange) <= Max(recorded) /\ Max(recorded) <= Max(inRange)
      BY <2>1, <2>3, <2>4, <3>1
    <3> QED
      BY <3>1, <3>2
  <2> QED
    BY <1>4, <2>2, <2>5 DEF Resolve, RateOn
<1>5. CASE inRange = {}
  <2>1. recorded = OnRecord(c, from - 1)
    <3>1. ASSUME NEW e \in recorded PROVE e <= from - 1
      <4>1. e \in Int /\ e <= d /\ d \in Int
        BY <1>1, <1>3
      <4>2. ~(from <= e /\ e <= to)
        BY <1>5
      <4> QED
        BY <4>1, <4>2
    <3>2. \A e \in Days : e <= from - 1 => e <= d
      BY <1>1
    <3> QED
      BY <3>1, <3>2 DEF OnRecord
  <2> QED
    BY <1>5, <2>1 DEF Resolve, RateOn, Seed
<1> QED
  BY <1>4, <1>5

LEMMA ResolverIsExact ==
    ASSUME NEW c \in All, NEW d \in Days, NEW from \in Int, NEW to \in Int, from <= d, d <= to
    PROVE  ResolverFor(from, to)[c][d] = ExactRates[c][d]
<1>1. ResolverFor(from, to)[c][d] = Resolve(c, d, from, to)
  BY DEF ResolverFor
<1>2. ExactRates[c][d] = RateOn(c, d)
  BY DEF ExactRates
<1> QED
  BY <1>1, <1>2, ResolvedIsRateOn

-----------------------------------------------------------------------------
(***************************************************************************)
(* Reports: totals.                                                        *)
(***************************************************************************)

Worths(S, base, rate) == [row \in S |-> Worth(row, base, rate)]

LEMMA WorthIsSum ==
    ASSUME NEW S, NEW base, NEW rate
    PROVE  TotalInBase(S, base, rate) =
               IF \E row \in S : Worth(row, base, rate) = NULL THEN NULL
               ELSE SumFunctionOnSet(Worths(S, base, rate), S)
<1> DEFINE f == Worths(S, base, rate)
           Added(g) == g = [s \in SUBSET S |-> IF s = {} THEN 0
                              ELSE Worth(Picked(s), base, rate) + g[s \ {Picked(s)}]]
<1>1. MapThenSumSet(LAMBDA row : Worth(row, base, rate), S) = (CHOOSE g : Added(g))[S]
  BY DEF MapThenSumSet, MapThenFoldSet, Picked
<1>2. ASSUME NEW g PROVE Added(g) <=> AddsUp(g, f, S)
  <2>1. ASSUME NEW s \in SUBSET S, s # {} PROVE f[Picked(s)] = Worth(Picked(s), base, rate)
    <3>1. Picked(s) \in S
      BY <2>1 DEF Picked
    <3> QED
      BY <3>1 DEF Worths
  <2>2. [s \in SUBSET S |-> IF s = {} THEN 0 ELSE Worth(Picked(s), base, rate) + g[s \ {Picked(s)}]]
        = [s \in SUBSET S |-> Summed(f, g, s)]
    <3> HIDE DEF f
    <3> QED
      BY <2>1 DEF Summed
  <2> QED
    BY <2>2 DEF AddsUp
<1>3. (CHOOSE g : Added(g)) = (CHOOSE g : AddsUp(g, f, S))
  <2> HIDE DEF Added, f
  <2> QED
    BY <1>2
<1> QED
  BY <1>1, <1>3, SumIsFold DEF TotalInBase, Fold

LEMMA TotalSame ==
    ASSUME NEW S, NEW base, NEW rate, NEW other,
           \A row \in S : Worth(row, base, rate) = Worth(row, base, other)
    PROVE  TotalInBase(S, base, rate) = TotalInBase(S, base, other)
<1>1. Worths(S, base, rate) = Worths(S, base, other)
  BY DEF Worths
<1> QED
  BY <1>1, WorthIsSum

\* What is counted is of the range the rates were read for.
LEMMA TotalIsExact ==
    ASSUME NEW S, NEW base \in All, NEW from \in Int, NEW to \in Int,
           \A row \in S : /\ row.currency \in All /\ row.day \in Days
                          /\ from <= row.day /\ row.day <= to
    PROVE  TotalInBase(S, base, ResolverFor(from, to)) = TotalInBase(S, base, ExactRates)
<1>1. ASSUME NEW row \in S
      PROVE  Worth(row, base, ResolverFor(from, to)) = Worth(row, base, ExactRates)
  <2>1. /\ ResolverFor(from, to)[row.currency][row.day] = ExactRates[row.currency][row.day]
        /\ ResolverFor(from, to)[base][row.day] = ExactRates[base][row.day]
    BY ResolverIsExact
  <2> QED
    BY <2>1 DEF Worth
<1> QED
  BY <1>1, TotalSame

-----------------------------------------------------------------------------
(***************************************************************************)
(* Reports: buckets, of any number of days.                                *)
(***************************************************************************)

LEMMA Division ==
    ASSUME NEW d \in Nat, NEW length \in Nat \ {0}
    PROVE  \E q \in Nat : /\ Start(d, length) = length * q /\ Start(d, length) \in Nat
                          /\ Start(d, length) <= d /\ d < Start(d, length) + length
                          /\ Start(d, length) % length = 0
<1> DEFINE q == d \div length
<1>1. q \in Nat /\ d % length \in 0..(length - 1) /\ d = (length * q) + (d % length)
  OBVIOUS
<1>2. length * q \in Nat
  BY <1>1
<1>3. (length * q) % length = 0
  BY <1>1
<1>4. /\ Start(d, length) = length * q /\ d = Start(d, length) + (d % length)
      /\ Start(d, length) \in Nat /\ d % length \in Nat /\ d % length < length
  BY <1>1, <1>2 DEF Start
<1>5. Start(d, length) <= d /\ d < Start(d, length) + length
  BY <1>4
<1>6. Start(d, length) % length = 0
  BY <1>3, <1>4
<1> QED
  BY <1>1, <1>4, <1>5, <1>6

LEMMA StartsInOrder ==
    ASSUME NEW d \in Nat, NEW e \in Nat, NEW length \in Nat \ {0}, d <= e
    PROVE  Start(d, length) <= Start(e, length)
<1>1. PICK p \in Nat : Start(d, length) = length * p /\ Start(d, length) <= d
  BY Division
<1>2. PICK q \in Nat : Start(e, length) = length * q /\ e < Start(e, length) + length
  BY Division
<1>3. SUFFICES ASSUME q < p PROVE FALSE
  <2>1. p <= q => length * p <= length * q
    OBVIOUS
  <2> QED
    BY <1>1, <1>2, <2>1
<1>4. length * (q + 1) <= length * p
  BY <1>3
<1>5. length * (q + 1) = length * q + length
  OBVIOUS
<1>6. length * p \in Nat /\ length * q \in Nat
  OBVIOUS
<1> QED
  BY <1>1, <1>2, <1>4, <1>5, <1>6

\* Every day of the range falls into one of its buckets.
LEMMA DayHasBucket ==
    ASSUME NEW from \in Days, NEW to \in Days, NEW d \in Days, NEW length \in Nat \ {0},
           from <= d, d <= to
    PROVE  Start(d, length) \in BuildBuckets(from, to, length)
<1>1. d \in Nat /\ from \in Nat /\ to \in Nat
  BY DaysAreFinite
<1>2. /\ Start(d, length) \in Nat /\ Start(d, length) <= d /\ Start(d, length) % length = 0
      /\ Start(from, length) \in Nat
  BY <1>1, Division
<1>3. Start(from, length) <= Start(d, length)
  BY <1>1, StartsInOrder
<1>4. Start(d, length) \in Days
  BY <1>1, <1>2, RatesAssumption DEF Days
<1> QED
  BY <1>1, <1>2, <1>3, <1>4 DEF BuildBuckets

-----------------------------------------------------------------------------
(***************************************************************************)
(* Reports: operations grouped by day and currency.                        *)
(***************************************************************************)

Amounts(S) == [r \in S |-> r.amount]
Dollars(S) == [r \in S |-> r.usd]

LEMMA AmountsAreSum ==
    ASSUME NEW S
    PROVE  MapThenSumSet(LAMBDA r : r.amount, S) = SumFunctionOnSet(Amounts(S), S)
<1> DEFINE f == Amounts(S)
           Added(g) == g = [s \in SUBSET S |-> IF s = {} THEN 0 ELSE Picked(s).amount + g[s \ {Picked(s)}]]
<1>1. MapThenSumSet(LAMBDA r : r.amount, S) = (CHOOSE g : Added(g))[S]
  BY DEF MapThenSumSet, MapThenFoldSet, Picked
<1>2. ASSUME NEW g PROVE Added(g) <=> AddsUp(g, f, S)
  <2>1. ASSUME NEW s \in SUBSET S, s # {} PROVE f[Picked(s)] = Picked(s).amount
    <3>1. Picked(s) \in S
      BY <2>1 DEF Picked
    <3> QED
      BY <3>1 DEF Amounts
  <2>2. [s \in SUBSET S |-> IF s = {} THEN 0 ELSE Picked(s).amount + g[s \ {Picked(s)}]]
        = [s \in SUBSET S |-> Summed(f, g, s)]
    <3> HIDE DEF f
    <3> QED
      BY <2>1 DEF Summed
  <2> QED
    BY <2>2 DEF AddsUp
<1>3. (CHOOSE g : Added(g)) = (CHOOSE g : AddsUp(g, f, S))
  <2> HIDE DEF Added, f
  <2> QED
    BY <1>2
<1> QED
  BY <1>1, <1>3, SumIsFold DEF Fold

LEMMA DollarsAreSum ==
    ASSUME NEW S
    PROVE  MapThenSumSet(LAMBDA r : r.usd, S) = SumFunctionOnSet(Dollars(S), S)
<1> DEFINE f == Dollars(S)
           Added(g) == g = [s \in SUBSET S |-> IF s = {} THEN 0 ELSE Picked(s).usd + g[s \ {Picked(s)}]]
<1>1. MapThenSumSet(LAMBDA r : r.usd, S) = (CHOOSE g : Added(g))[S]
  BY DEF MapThenSumSet, MapThenFoldSet, Picked
<1>2. ASSUME NEW g PROVE Added(g) <=> AddsUp(g, f, S)
  <2>1. ASSUME NEW s \in SUBSET S, s # {} PROVE f[Picked(s)] = Picked(s).usd
    <3>1. Picked(s) \in S
      BY <2>1 DEF Picked
    <3> QED
      BY <3>1 DEF Dollars
  <2>2. [s \in SUBSET S |-> IF s = {} THEN 0 ELSE Picked(s).usd + g[s \ {Picked(s)}]]
        = [s \in SUBSET S |-> Summed(f, g, s)]
    <3> HIDE DEF f
    <3> QED
      BY <2>1 DEF Summed
  <2> QED
    BY <2>2 DEF AddsUp
<1>3. (CHOOSE g : Added(g)) = (CHOOSE g : AddsUp(g, f, S))
  <2> HIDE DEF Added, f
  <2> QED
    BY <1>2
<1> QED
  BY <1>1, <1>3, SumIsFold DEF Fold

\* Operations as the handlers write them.
Written(S) ==
    /\ IsFiniteSet(S)
    /\ \A r \in S : /\ r.currency \in All /\ r.day \in Days
                    /\ r.amount = Amount /\ r.usd \in Int \cup {NULL}

\* The sum over a group, when all of it has snapshots or none of it.
LEMMA GroupIsSums ==
    ASSUME NEW S, Written(S), NEW key,
           (\A r \in S : r.usd = NULL) \/ (\A r \in S : r.usd # NULL)
    PROVE  /\ GroupSums(S, key).currency = key[1] /\ GroupSums(S, key).day = key[2]
           /\ GroupSums(S, key).amount = SumFunctionOnSet(Amounts(S), S)
           /\ GroupSums(S, key).usd = IF \A r \in S : r.usd = NULL THEN NULL
                                      ELSE SumFunctionOnSet(Dollars(S), S)
<1>1. GroupSums(S, key).amount = SumFunctionOnSet(Amounts(S), S)
  BY AmountsAreSum DEF GroupSums
<1>2. (\E r \in S : r.usd # NULL) => {r \in S : r.usd # NULL} = S
  OBVIOUS
<1>3. GroupSums(S, key).usd = IF \A r \in S : r.usd = NULL THEN NULL
                             ELSE SumFunctionOnSet(Dollars(S), S)
  BY <1>2, DollarsAreSum DEF GroupSums
<1>4. GroupSums(S, key).currency = key[1] /\ GroupSums(S, key).day = key[2]
  BY DEF GroupSums
<1> QED
  BY <1>1, <1>3, <1>4

\* Rates as they are found: one is nothing, or divides the amount of an operation.
Usable(rate) == \A c \in All, d \in Days : rate[c][d] \in Quotes \cup {1, NULL}

LEMMA UsableDivides ==
    ASSUME NEW rate, Usable(rate), NEW c \in All, NEW d \in Days, rate[c][d] # NULL
    PROVE  /\ rate[c][d] \in Nat \ {0}
           /\ Amount = rate[c][d] * (Amount \div rate[c][d]) /\ Amount \div rate[c][d] \in Nat
<1> DEFINE q == rate[c][d]
<1>1. q \in Nat \ {0} /\ Amount \in Nat /\ Amount % q = 0
  <2>1. Amount % 1 = 0
    BY RatesAssumption
  <2> QED
    <3>1. q = 1 \/ q \in Quotes
      BY DEF Usable
    <3>2. \A x \in Quotes : x \in Nat \ {0} /\ Amount % x = 0
      BY RatesAssumption, MoneyAssumption
    <3>3. Amount \in Nat
      BY RatesAssumption
    <3> HIDE DEF q
    <3>4. CASE q = 1
      BY <2>1, <3>3, <3>4
    <3>5. CASE q \in Quotes
      BY <3>2, <3>3, <3>5
    <3> QED
      BY <3>1, <3>4, <3>5
<1> HIDE DEF q
<1>2. Amount = q * (Amount \div q) /\ Amount \div q \in Nat
  BY <1>1, Whole
<1> QED
  BY <1>1, <1>2 DEF q

\* What a group is worth: as much as its operations.
LEMMA GroupIsWorth ==
    ASSUME NEW S, Written(S), S # {}, NEW c \in All, NEW d \in Days,
           \A r \in S : r.currency = c /\ r.day = d,
           (\A r \in S : r.usd = NULL) \/ (\A r \in S : r.usd # NULL),
           NEW base \in All, NEW rate, Usable(rate)
    PROVE  LET worth == Worth(GroupSums(S, <<c, d>>), base, rate)
           IN \/ worth = NULL /\ \A r \in S : Worth(r, base, rate) = NULL
              \/ /\ \A r \in S : Worth(r, base, rate) \in Int
                 /\ worth = SumFunctionOnSet(Worths(S, base, rate), S)
                 /\ worth \in Int
<1> DEFINE g == GroupSums(S, <<c, d>>)
           f == Worths(S, base, rate)
           amounts == SumFunctionOnSet(Amounts(S), S)
           dollars == SumFunctionOnSet(Dollars(S), S)
           own == rate[c][d]
           b == rate[base][d]
<1>1. /\ g.currency = c /\ g.day = d /\ g.amount = amounts
      /\ g.usd = IF \A r \in S : r.usd = NULL THEN NULL ELSE dollars
  BY GroupIsSums
<1>2. IsFiniteSet(S) /\ \A r \in S : Amounts(S)[r] = Amount /\ Dollars(S)[r] = r.usd /\ f[r] = Worth(r, base, rate)
  BY DEF Written, Amounts, Dollars, Worths
<1>3. amounts \in Int /\ Amount \in Int /\ NULL \notin Int
  <2>1. Amount \in Int /\ NULL \notin Int
    BY RatesAssumption, MoneyAssumption
  <2> QED
    BY <1>2, <2>1, SumInt
<1> HIDE DEF g, f, amounts, dollars
<1>4. \A r \in S : /\ r.currency = c /\ r.day = d /\ r.amount = Amount /\ r.usd \in Int \cup {NULL}
  BY DEF Written
<1>5. (\A r \in S : f[r] \in Int) => SumFunctionOnSet(f, S) \in Int
  BY <1>2, SumInt
<1>6. SUFFICES \/ Worth(g, base, rate) = NULL /\ \A r \in S : Worth(r, base, rate) = NULL
               \/ /\ \A r \in S : f[r] \in Int
                  /\ Worth(g, base, rate) = SumFunctionOnSet(f, S)
  BY <1>2, <1>5 DEF g, f
<1>7. CASE c = base
  <2>1. \A r \in S : Worth(r, base, rate) = Amount
    BY <1>4, <1>7 DEF Worth
  <2>2. Worth(g, base, rate) = amounts
    BY <1>1, <1>7 DEF Worth
  <2>3. \A r \in S : f[r] = Amounts(S)[r]
    BY <1>2, <2>1
  <2>4. SumFunctionOnSet(f, S) = amounts
    BY <1>2, <2>3, SumSame DEF amounts
  <2> QED
    BY <1>2, <1>3, <2>1, <2>2, <2>4
<1>8. CASE c # base /\ b = NULL
  BY <1>1, <1>4, <1>8 DEF Worth
<1>9. CASE c # base /\ b # NULL /\ \A r \in S : r.usd # NULL
  <2>1. g.usd = dollars
    BY <1>1, <1>9
  <2>2. \A r \in S : Dollars(S)[r] \in Int /\ Dollars(S)[r] = r.usd
    BY <1>2, <1>4, <1>9
  <2>3. dollars \in Int
    BY <1>2, <2>2, SumInt DEF dollars
  <2>4. b \in Int
    BY <1>9, UsableDivides
  <2>5. Worth(g, base, rate) = dollars * b
    <3>1. dollars # NULL
      BY <1>3, <2>3
    <3> QED
      BY <1>1, <1>9, <2>1, <3>1 DEF Worth
  <2>6. \A r \in S : f[r] = b * Dollars(S)[r] /\ f[r] \in Int
    <3>1. ASSUME NEW r \in S PROVE Worth(r, base, rate) = r.usd * b
      BY <1>3, <1>4, <1>9 DEF Worth
    <3> QED
      BY <1>2, <2>2, <2>4, <3>1
  <2>7. SumFunctionOnSet(f, S) = b * dollars
    BY <1>2, <2>2, <2>4, <2>6, SumScaled DEF dollars
  <2> QED
    BY <2>3, <2>4, <2>5, <2>6, <2>7
<1>10. CASE c # base /\ b # NULL /\ \A r \in S : r.usd = NULL
  <2>0. g.usd = NULL
    BY <1>1, <1>10
  <2>1. CASE own = NULL
    BY <1>1, <1>4, <1>10, <2>0, <2>1 DEF Worth
  <2>2. CASE own # NULL
    <3> DEFINE each == Amount \div own
               eachOf == [r \in S |-> each]
               all == SumFunctionOnSet(eachOf, S)
    <3>1. b \in Int /\ own \in Nat \ {0} /\ Amount = own * each /\ each \in Nat
      BY <1>10, <2>2, UsableDivides
    <3>2. each \in Int /\ own \in Int /\ each # NULL
      BY <1>3, <3>1
    <3> HIDE DEF each, own, b
    <3>3. \A r \in S : eachOf[r] = each /\ eachOf[r] \in Int
      BY <3>2
    <3> HIDE DEF eachOf
    <3>4. all \in Int
      BY <1>2, <3>3, SumInt
    <3>5. amounts = own * all
      <4>1. \A r \in S : Amounts(S)[r] = own * eachOf[r]
        BY <1>2, <3>1, <3>3
      <4> QED
        BY <1>2, <3>2, <3>3, <4>1, SumScaled DEF amounts
    <3> HIDE DEF all
    <3>6. amounts \div own = all
      BY <3>1, <3>4, <3>5, Multiple
    <3>7. Worth(g, base, rate) = all * b
      <4>1. amounts \div own # NULL
        BY <1>3, <3>4, <3>6
      <4>2. Worth(g, base, rate) = (amounts \div own) * b
        BY <1>1, <1>10, <2>0, <2>2, <4>1 DEF Worth, own, b
      <4> QED
        BY <3>6, <4>2
    <3>8. \A r \in S : f[r] = b * eachOf[r] /\ f[r] \in Int
      <4>1. ASSUME NEW r \in S PROVE Worth(r, base, rate) = each * b
        BY <1>4, <1>10, <2>2, <3>2 DEF Worth, each, own, b
      <4> QED
        BY <1>2, <3>1, <3>2, <3>3, <4>1
    <3>9. SumFunctionOnSet(f, S) = b * all
      BY <1>2, <3>1, <3>3, <3>8, SumScaled DEF all
    <3> QED
      BY <3>1, <3>4, <3>7, <3>8, <3>9
  <2> QED
    BY <2>1, <2>2
<1> QED
  BY <1>7, <1>8, <1>9, <1>10

GroupOfRow(F, row) == {r \in F : r.currency = row.currency /\ r.day = row.day}

\* No day has operations of one currency with and without a snapshot.
Unmixed(F) ==
    \A r, s \in F : r.currency = s.currency /\ r.day = s.day => (r.usd = NULL <=> s.usd = NULL)

\* The rows of the database, and the operations each of them stands for.
LEMMA GroupedRows ==
    ASSUME NEW F, Written(F), Unmixed(F)
    PROVE  /\ IsFiniteSet(Grouped(F))
           /\ \A g \in Grouped(F) :
                 /\ g.currency \in All /\ g.day \in Days
                 /\ g = GroupSums(GroupOfRow(F, g), <<g.currency, g.day>>)
                 /\ \E r \in F : r.currency = g.currency /\ r.day = g.day
           /\ \A r \in F : \E g \in Grouped(F) : r.currency = g.currency /\ r.day = g.day
<1> DEFINE Sum(key) == GroupSums({r \in F : <<r.currency, r.day>> = key}, key)
           f == [r \in F |-> Sum(<<r.currency, r.day>>)]
<1>1. ASSUME NEW r \in F
      PROVE  LET g == Sum(<<r.currency, r.day>>)
             IN /\ g.currency = r.currency /\ g.day = r.day
                /\ g = GroupSums(GroupOfRow(F, g), <<g.currency, g.day>>)
  <2> DEFINE g == Sum(<<r.currency, r.day>>)
  <2>1. g.currency = r.currency /\ g.day = r.day
    BY DEF GroupSums
  <2>2. GroupOfRow(F, g) = {s \in F : <<s.currency, s.day>> = <<r.currency, r.day>>}
    <3> HIDE DEF g
    <3> QED
      BY <2>1 DEF GroupOfRow
  <2> QED
    BY <2>1, <2>2
<1>2. \A g \in Grouped(F) : \E r \in F : g = Sum(<<r.currency, r.day>>)
  BY DEF Grouped
<1>3. \A r \in F : Sum(<<r.currency, r.day>>) \in Grouped(F)
  BY DEF Grouped
<1>4. IsFiniteSet(Grouped(F))
  <2>1. f \in Surjection(F, Grouped(F))
    <3> HIDE DEF Sum
    <3> QED
      BY <1>2, <1>3 DEF Surjection
  <2> HIDE DEF f
  <2> QED
    BY <2>1, FS_Surjection DEF Written
<1> HIDE DEF Sum
<1>5. \A r \in F : r.currency \in All /\ r.day \in Days
  BY DEF Written
<1> QED
  BY <1>1, <1>2, <1>3, <1>4, <1>5

\* Grouping does not change the total.
LEMMA GroupedSame ==
    ASSUME NEW F, Written(F), Unmixed(F), NEW base \in All, NEW rate, Usable(rate)
    PROVE  TotalInBase(Grouped(F), base, rate) = TotalInBase(F, base, rate)
<1> DEFINE T == Grouped(F)
           f == Worths(F, base, rate)
           h == Worths(T, base, rate)
           part == [g \in T |-> GroupOfRow(F, g)]
<1>1. /\ IsFiniteSet(T)
      /\ \A g \in T :
            /\ g.currency \in All /\ g.day \in Days
            /\ g = GroupSums(GroupOfRow(F, g), <<g.currency, g.day>>)
            /\ \E r \in F : r.currency = g.currency /\ r.day = g.day
      /\ \A r \in F : \E g \in T : r.currency = g.currency /\ r.day = g.day
  BY GroupedRows
<1> HIDE DEF T
<1>2. ASSUME NEW g \in T
      PROVE  LET S == GroupOfRow(F, g)
             IN \/ Worth(g, base, rate) = NULL /\ \A r \in S : Worth(r, base, rate) = NULL
                \/ /\ \A r \in S : Worth(r, base, rate) \in Int
                   /\ Worth(g, base, rate) = SumFunctionOnSet(Worths(S, base, rate), S)
                   /\ Worth(g, base, rate) \in Int
  <2> DEFINE S == GroupOfRow(F, g)
  <2>1. Written(S)
    BY FS_Subset DEF Written, GroupOfRow
  <2>2. S # {} /\ \A r \in S : r.currency = g.currency /\ r.day = g.day
    BY <1>1 DEF GroupOfRow
  <2>3. (\A r \in S : r.usd = NULL) \/ (\A r \in S : r.usd # NULL)
    BY DEF Unmixed, GroupOfRow
  <2>4. g = GroupSums(S, <<g.currency, g.day>>) /\ g.currency \in All /\ g.day \in Days
    BY <1>1
  <2> HIDE DEF S
  <2>5. LET worth == Worth(GroupSums(S, <<g.currency, g.day>>), base, rate)
        IN \/ worth = NULL /\ \A r \in S : Worth(r, base, rate) = NULL
           \/ /\ \A r \in S : Worth(r, base, rate) \in Int
              /\ worth = SumFunctionOnSet(Worths(S, base, rate), S)
              /\ worth \in Int
    BY <2>1, <2>2, <2>3, <2>4, GroupIsWorth
  <2>6. \/ Worth(g, base, rate) = NULL /\ \A r \in S : Worth(r, base, rate) = NULL
        \/ /\ \A r \in S : Worth(r, base, rate) \in Int
           /\ Worth(g, base, rate) = SumFunctionOnSet(Worths(S, base, rate), S)
           /\ Worth(g, base, rate) \in Int
    BY <2>4, <2>5
  <2> QED
    BY <2>6 DEF S
<1>3. \A r \in F : \E g \in T : r \in GroupOfRow(F, g)
  BY <1>1 DEF GroupOfRow
<1>4. \A g \in T : \E r \in F : r \in GroupOfRow(F, g)
  BY <1>1 DEF GroupOfRow
<1>5. NULL \notin Int
  BY MoneyAssumption
<1>6. (\E g \in T : Worth(g, base, rate) = NULL) <=> (\E r \in F : Worth(r, base, rate) = NULL)
  <2>1. ASSUME NEW g \in T, Worth(g, base, rate) = NULL
        PROVE  \E r \in F : Worth(r, base, rate) = NULL
    BY <1>2, <1>4, <1>5, <2>1
  <2>2. ASSUME NEW r \in F, Worth(r, base, rate) = NULL
        PROVE  \E g \in T : Worth(g, base, rate) = NULL
    BY <1>2, <1>3, <1>5, <2>2
  <2> QED
    BY <2>1, <2>2
<1>7. ASSUME ~\E g \in T : Worth(g, base, rate) = NULL
      PROVE  SumFunctionOnSet(h, T) = SumFunctionOnSet(f, F)
  <2>1. \A r \in F : Worth(r, base, rate) \in Int /\ f[r] = Worth(r, base, rate)
    BY <1>2, <1>3, <1>7 DEF Worths
  <2>2. ASSUME NEW g \in T
        PROVE  part[g] \in SUBSET F /\ h[g] = SumFunctionOnSet(f, part[g])
    <3> DEFINE S == GroupOfRow(F, g)
    <3>1. S \in SUBSET F /\ part[g] = S /\ h[g] = Worth(g, base, rate)
      BY DEF GroupOfRow, Worths
    <3>2. Worth(g, base, rate) = SumFunctionOnSet(Worths(S, base, rate), S)
      BY <1>2, <1>7
    <3>3. IsFiniteSet(S) /\ \A r \in S : Worths(S, base, rate)[r] = f[r]
      BY <2>1, <3>1, FS_Subset DEF Written, Worths
    <3> HIDE DEF S, f, h, part
    <3>4. SumFunctionOnSet(Worths(S, base, rate), S) = SumFunctionOnSet(f, S)
      BY <3>3, SumSame
    <3> QED
      BY <3>1, <3>2, <3>4
  <2>3. \A x, y \in T : x # y => part[x] \cap part[y] = {}
    <3>1. ASSUME NEW x \in T, NEW y \in T, NEW r \in part[x], r \in part[y] PROVE x = y
      <4>1. x.currency = y.currency /\ x.day = y.day
        BY <3>1 DEF GroupOfRow
      <4>2. GroupOfRow(F, x) = GroupOfRow(F, y)
        BY <4>1 DEF GroupOfRow
      <4>3. x = GroupSums(GroupOfRow(F, x), <<x.currency, x.day>>)
            /\ y = GroupSums(GroupOfRow(F, y), <<y.currency, y.day>>)
        BY <1>1
      <4> QED
        BY <4>1, <4>2, <4>3
    <3> HIDE DEF part
    <3> QED
      BY <3>1
  <2>4. UNION {part[g] : g \in T} = F
    BY <1>3 DEF GroupOfRow
  <2>5. IsFiniteSet(F) /\ \A r \in F : f[r] \in Int
    BY <2>1 DEF Written
  <2> HIDE DEF f, h, part
  <2>6. SumFunctionOnSet(h, T) = SumFunctionOnSet(f, UNION {part[g] : g \in T})
    BY <1>1, <2>2, <2>3, <2>5, SumOfParts
  <2> QED
    BY <2>4, <2>6
<1>8. TotalInBase(T, base, rate) = IF \E g \in T : Worth(g, base, rate) = NULL THEN NULL
                                  ELSE SumFunctionOnSet(h, T)
  BY WorthIsSum
<1>9. TotalInBase(F, base, rate) = IF \E r \in F : Worth(r, base, rate) = NULL THEN NULL
                                  ELSE SumFunctionOnSet(f, F)
  BY WorthIsSum
<1> HIDE DEF f, h
<1>10. TotalInBase(T, base, rate) = TotalInBase(F, base, rate)
  BY <1>6, <1>7, <1>8, <1>9
<1> QED
  BY <1>10 DEF T

-----------------------------------------------------------------------------
(***************************************************************************)
(* Reports: every figure of a period is the exact one.                     *)
(***************************************************************************)

\* The rows the handlers write are finitely many, each of the one amount.
ReportsInv ==
    /\ ReportsTypeOK
    /\ IsFiniteSet(rows)
    /\ \A r \in rows : r.amount = Amount

LEMMA RowsAreWritten == ReportsInv => \A S \in SUBSET rows : Written(S)
  BY FS_Subset DEF ReportsInv, ReportsTypeOK, Row, Written

LEMMA RangeIsDays ==
    ASSUME NEW from \in Days, NEW to \in Days
    PROVE  from \in Int /\ to \in Int /\ to + 1 \in Int
  BY DaysAreFinite

LEMMA SummaryIsExact ==
    ASSUME ReportsInv, NEW from \in Days, NEW to \in Days, from <= to, NEW base \in All, NEW kind \in Kinds,
           NEW length \in {1, Week}
    PROVE  Summary(kind, from, to, length, base) = Exact(kind, from, to, base)
<1> DEFINE found == Found(kind, from, to)
           buckets == BuildBuckets(from, to, length)
<1>1. length \in Nat \ {0}
  BY ReportsAssumption
<1>2. \A row \in found : row.currency \in All /\ row.day \in Days /\ from <= row.day /\ row.day <= to
  BY RowsAreWritten DEF Found, Written
<1>3. \A row \in found : Start(row.day, length) \in buckets
  <2> HIDE DEF found, buckets
  <2> QED
    BY <1>1, <1>2, DayHasBucket DEF buckets
<1>4. {row \in found : Start(row.day, length) \in buckets} = found
  BY <1>3
<1>5. Summary(kind, from, to, length, base)
      = TotalInBase({row \in found : Start(row.day, length) \in buckets}, base, ResolverFor(from, to))
  BY DEF Summary, ExpenseSummary, IncomeSummary, AggregateSummary, Kinds
<1> HIDE DEF found, buckets
<1>6. TotalInBase(found, base, ResolverFor(from, to)) = TotalInBase(found, base, ExactRates)
  BY <1>2, RangeIsDays, TotalIsExact
<1> QED
  BY <1>4, <1>5, <1>6 DEF Exact, found

LEMMA DetailsAreExact ==
    ASSUME ReportsInv, NEW from \in Days, NEW to \in Days, from <= to, NEW base \in All, NEW kind \in Kinds
    PROVE  StatDetails(kind, from, to, base) = Exact(kind, from, to, base)
<1> DEFINE found == Found(kind, from, to)
<1>1. \A row \in found : row.currency \in All /\ row.day \in Days /\ from <= row.day /\ row.day <= to
  BY RowsAreWritten DEF Found, Written
<1>2. StatDetails(kind, from, to, base) = TotalInBase(found, base, ResolverFor(from, to))
  BY DEF StatDetails, ExpenseStatDetails, IncomeStatDetails, Kinds
<1> HIDE DEF found
<1>3. TotalInBase(found, base, ResolverFor(from, to)) = TotalInBase(found, base, ExactRates)
  BY <1>1, RangeIsDays, TotalIsExact
<1> QED
  BY <1>2, <1>3 DEF Exact, found

LEMMA PageIsExact ==
    ASSUME ReportsInv, NEW from \in Days, NEW to \in Days, from <= to, NEW base \in All, NEW kind \in Kinds,
           NEW items, items = Found("income", from, to) \cup Found("expense", from, to), items # {}
    PROVE  PageTotals(items, base)[kind] = Exact(kind, from, to, base)
<1> DEFINE days == {row.day : row \in items}
           found == Found(kind, from, to)
<1>1. found = {row \in items : row.kind = kind}
  BY DEF Found, Kinds
<1>2. PageTotals(items, base)[kind]
      = TotalInBase({row \in items : row.kind = kind}, base, ResolverFor(Min(days), Max(days)))
  BY DEF PageTotals
<1>3. \A row \in items : row.currency \in All /\ row.day \in Days
  BY RowsAreWritten DEF Found, Written
<1>4. days \in SUBSET Days /\ days # {}
  BY <1>3
<1> HIDE DEF days, found
<1>5. IsFiniteSet(days) /\ \A d \in days : d \in Int
  BY <1>4, DaysAreFinite
<1>6. /\ Min(days) \in Int /\ Max(days) \in Int
      /\ \A d \in days : Min(days) <= d /\ d <= Max(days)
  <2>1. Max(days) \in days /\ \A d \in days : d <= Max(days)
    BY <1>4, <1>5, MaxIsOne
  <2>2. Min(days) \in days /\ \A d \in days : Min(days) <= d
    BY <1>4, <1>5, MinIsOne
  <2> QED
    BY <1>5, <2>1, <2>2
<1>7. \A row \in found : /\ row.currency \in All /\ row.day \in Days
                         /\ Min(days) <= row.day /\ row.day <= Max(days)
  BY <1>1, <1>3, <1>6 DEF days
<1>8. TotalInBase(found, base, ResolverFor(Min(days), Max(days))) = TotalInBase(found, base, ExactRates)
  BY <1>6, <1>7, TotalIsExact
<1> QED
  BY <1>1, <1>2, <1>8 DEF Exact, found

LEMMA FiguresAgree == ReportsInv => ReportsAgree
<1>1. SUFFICES ASSUME ReportsInv, NEW r \in Ranges, NEW base \in All, NEW kind \in Kinds
               PROVE  LET exact == Exact(kind, r[1], r[2], base)
                          items == Found("income", r[1], r[2]) \cup Found("expense", r[1], r[2])
                      IN /\ \A length \in {1, Week} : Summary(kind, r[1], r[2], length, base) = exact
                         /\ StatDetails(kind, r[1], r[2], base) = exact
                         /\ items # {} => PageTotals(items, base)[kind] = exact
  BY DEF ReportsAgree
<1>2. r[1] \in Days /\ r[2] \in Days /\ r[1] <= r[2]
  BY DEF Ranges
<1>3. \A length \in {1, Week} : Summary(kind, r[1], r[2], length, base) = Exact(kind, r[1], r[2], base)
  BY <1>1, <1>2, SummaryIsExact
<1>4. StatDetails(kind, r[1], r[2], base) = Exact(kind, r[1], r[2], base)
  BY <1>1, <1>2, DetailsAreExact
<1> DEFINE items == Found("income", r[1], r[2]) \cup Found("expense", r[1], r[2])
<1>5. items # {} => PageTotals(items, base)[kind] = Exact(kind, r[1], r[2], base)
  <2>1. items = Found("income", r[1], r[2]) \cup Found("expense", r[1], r[2])
    OBVIOUS
  <2> HIDE DEF items
  <2> QED
    BY <1>1, <1>2, <2>1, PageIsExact
<1> QED
  BY <1>3, <1>4, <1>5

LEMMA ExactRatesUsable == RatesTypeOK => Usable(ExactRates)
<1>1. SUFFICES ASSUME RatesTypeOK, NEW c \in All, NEW d \in Days
               PROVE  RateOn(c, d) \in Quotes \cup {1, NULL}
  BY DEF Usable, ExactRates
<1>2. CASE c = usd
  BY <1>2 DEF RateOn
<1>3. CASE c # usd /\ OnRecord(c, d) # {}
  <2> DEFINE recorded == OnRecord(c, d)
  <2>1. recorded \in SUBSET Days
    BY DEF OnRecord
  <2> HIDE DEF recorded
  <2>2. IsFiniteSet(recorded) /\ \A e \in recorded : e \in Int
    BY <2>1, DaysAreFinite
  <2>3. Max(recorded) \in Days
    BY <1>3, <2>1, <2>2, MaxIsOne DEF recorded
  <2>4. c \in Currencies
    BY <1>3 DEF All
  <2>5. table[Max(recorded)][c] \in Quotes \cup {NULL}
    BY <1>1, <2>3, <2>4 DEF RatesTypeOK, Quote
  <2> QED
    BY <1>3, <2>5 DEF RateOn, recorded
<1>4. CASE c # usd /\ OnRecord(c, d) = {}
  <2>1. c \in Currencies
    BY <1>4 DEF All
  <2>2. Live(c) \in Quotes \cup {NULL}
    BY <1>1, <2>1 DEF Live, RatesTypeOK, Quote
  <2> QED
    BY <1>4, <2>2 DEF RateOn
<1> QED
  BY <1>2, <1>3, <1>4

\* Rates reaching further than the range give the same total over its groups.
LEMMA GroupedIsExact ==
    ASSUME ReportsInv, NEW from \in Days, NEW to \in Days, NEW base \in All, NEW kind \in Kinds,
           ~Mixed(kind, from, to), NEW first \in Int, NEW last \in Int, first <= from, to <= last
    PROVE  TotalInBase(Grouped(Found(kind, from, to)), base, ResolverFor(first, last))
               = Exact(kind, from, to, base)
<1> DEFINE F == Found(kind, from, to)
<1>1. Written(F) /\ \A r \in F : r.day \in Days /\ from <= r.day /\ r.day <= to
  BY RowsAreWritten DEF Found, Written
<1>2. Unmixed(F)
  BY DEF Mixed, Unmixed
<1> HIDE DEF F
<1>3. \A g \in Grouped(F) : /\ g.currency \in All /\ g.day \in Days
                            /\ from <= g.day /\ g.day <= to
  BY <1>1, <1>2, GroupedRows
<1>4. \A g \in Grouped(F) : first <= g.day /\ g.day <= last
  <2>1. \A d \in Days : d \in Int
    BY DaysAreFinite
  <2> QED
    BY <1>3, <2>1
<1>5. TotalInBase(Grouped(F), base, ResolverFor(first, last)) = TotalInBase(Grouped(F), base, ExactRates)
  BY <1>3, <1>4, TotalIsExact
<1>6. TotalInBase(Grouped(F), base, ExactRates) = TotalInBase(F, base, ExactRates)
  BY <1>1, <1>2, ExactRatesUsable, GroupedSame DEF ReportsInv, ReportsTypeOK
<1> QED
  BY <1>5, <1>6 DEF Exact, F

LEMMA GroupedFiguresAgree == ReportsInv /\ Today \in Days => GroupedAgree
<1>1. SUFFICES ASSUME ReportsInv, Today \in Days, NEW r \in Ranges, NEW base \in All, NEW kind \in Kinds,
                      ~Mixed(kind, r[1], r[2])
               PROVE  /\ StatSummary(kind, r[1], r[2], base) = Exact(kind, r[1], r[2], base)
                      /\ MonthSummary(r[1], r[2], base)[kind] = Exact(kind, r[1], r[2], base)
                      /\ \A before \in {p \in Ranges : p[2] < r[1]} \cup {r} :
                            StatsByCategory(kind, r[1], r[2], before[1], before[2], base)
                                = Exact(kind, r[1], r[2], base)
  BY DEF GroupedAgree
<1> DEFINE from == r[1]
           to == r[2]
           groups == Grouped(Found(kind, from, to))
<1>2. from \in Days /\ to \in Days /\ from \in Int /\ to \in Int /\ to + 1 \in Int
  BY RangeIsDays DEF Ranges
<1>3. ASSUME NEW first \in Int, NEW last \in Int, first <= from, to <= last
      PROVE  TotalInBase(groups, base, ResolverFor(first, last)) = Exact(kind, from, to, base)
  <2> HIDE DEF from, to
  <2> QED
    BY <1>1, <1>2, <1>3, GroupedIsExact DEF from, to
<1>4. TotalInBase(groups, base, ResolverFor(from, to)) = Exact(kind, from, to, base)
  BY <1>2, <1>3
<1>5. StatSummary(kind, from, to, base) = Exact(kind, from, to, base)
  BY <1>4 DEF StatSummary, ExpenseStatSummary, IncomeStatSummary, Kinds
<1>6. TotalInBase(groups, base, ResolverFor(from, to + 1)) = Exact(kind, from, to, base)
  BY <1>2, <1>3
<1>7. MonthSummary(from, to, base)[kind] = Exact(kind, from, to, base)
  BY <1>6 DEF MonthSummary, Kinds
<1>8. ASSUME NEW before \in Ranges
      PROVE  StatsByCategory(kind, from, to, before[1], before[2], base) = Exact(kind, from, to, base)
  <2> DEFINE starts == {from, before[1]}
             ends == {to, before[2], Today}
  <2>1. before[1] \in Days /\ before[2] \in Days
    BY DEF Ranges
  <2>2. starts \in SUBSET Days /\ ends \in SUBSET Days /\ from \in starts /\ to \in ends
    BY <1>1, <1>2, <2>1
  <2> HIDE DEF starts, ends, from, to
  <2>3. /\ IsFiniteSet(starts) /\ \A d \in starts : d \in Int
        /\ IsFiniteSet(ends) /\ \A d \in ends : d \in Int
    BY <2>2, DaysAreFinite
  <2>4. Min(starts) \in Int /\ Min(starts) <= from
    BY <2>2, <2>3, MinIsOne
  <2>5. Max(ends) \in Int /\ to <= Max(ends)
    BY <2>2, <2>3, MaxIsOne
  <2>6. TotalInBase(groups, base, ResolverFor(Min(starts), Max(ends))) = Exact(kind, from, to, base)
    BY <1>3, <2>4, <2>5
  <2> QED
    BY <2>6 DEF StatsByCategory, ExpenseStatsByCategory, IncomeStatsByCategory, Kinds, starts, ends
<1> QED
  BY <1>5, <1>7, <1>8

-----------------------------------------------------------------------------
(***************************************************************************)
(* Reports: every step keeps the types.                                    *)
(***************************************************************************)

LEMMA TodayIsDay == RatesTypeOK => Today \in Days
<1>1. SUFFICES ASSUME now \in Nat, MaxTime \in Nat, now <= MaxTime
               PROVE  now \div 2 \in 0..(MaxTime \div 2)
  BY RatesAssumption DEF RatesTypeOK, Today, Days
<1> QED
  BY <1>1

LEMMA RateIsQuote ==
    ASSUME RatesTypeOK, NEW c \in All, NEW d \in Days
    PROVE  RateOn(c, d) \in Quotes \cup {1, NULL}
  BY ExactRatesUsable DEF Usable, ExactRates

LEMMA SnapshotIsWhole ==
    ASSUME RatesTypeOK, NEW c \in All, NEW d \in Days
    PROVE  InDollars(Amount, c, d) \in Int \cup {NULL}
<1> DEFINE rate == RateOn(c, d)
<1>1. rate \in Quotes \cup {1, NULL}
  BY RateIsQuote
<1>2. Amount \in Nat /\ \A q \in Quotes : q \in Nat \ {0}
  BY RatesAssumption, MoneyAssumption
<1> HIDE DEF rate
<1>3. rate # NULL => Amount \div rate \in Int
  <2>1. CASE rate = 1
    BY <1>2, <2>1
  <2>2. CASE rate \in Quotes
    BY <1>2, <2>2
  <2> QED
    BY <1>1, <2>1, <2>2
<1> QED
  BY <1>2, <1>3 DEF InDollars, rate

LEMMA OperationIsRow ==
    ASSUME RatesTypeOK, NEW i \in Ids, NEW kind \in Kinds, NEW day \in Days, NEW c \in All
    PROVE  /\ Operation(i, kind, day, c) \in Row
           /\ Operation(i, kind, day, c).amount = Amount /\ Operation(i, kind, day, c).id = i
  BY SnapshotIsWhole, RatesAssumption DEF Operation, Row

LEMMA ReportsInvInit == ReportsInit => ReportsInv
<1>1. SUFFICES ASSUME ReportsInit PROVE ReportsInv
  OBVIOUS
<1>2. MaxTime \in Nat /\ MaxTime \div 2 \in Nat
  BY RatesAssumption
<1>3. RatesTypeOK
  <2>1. NoQuote \in Quote
    BY DEF NoQuote, Quote
  <2>2. 0 \in Days
    BY <1>2 DEF Days
  <2> QED
    BY <1>1, <1>2, <2>1, <2>2 DEF ReportsInit, RatesInit, RatesTypeOK, NoCapture
<1> QED
  BY <1>1, <1>3, FS_EmptySet DEF ReportsInit, ReportsInv, ReportsTypeOK

LEMMA RatesStep == RatesTypeOK /\ RatesNext => RatesTypeOK'
<1>1. SUFFICES ASSUME RatesTypeOK, RatesNext PROVE RatesTypeOK'
  OBVIOUS
<1>2. Today \in Days
  BY <1>1, TodayIsDay
<1>3. NoQuote \in Quote /\ 0 \in Days
  BY RatesAssumption DEF NoQuote, Quote, Days
<1>4. NoCapture \in [pc: {"idle", "create", "refresh"}, day: Days, rates: Quote]
  BY <1>3 DEF NoCapture
<1>5. ASSUME NEW day \in Days, NEW rates \in Quote PROVE Inserted(day, rates) \in [Days -> Quote]
  BY <1>1, <1>5 DEF Inserted, RatesTypeOK, Quote
<1>6. ASSUME NEW day \in Days, NEW rates \in Quote PROVE Refreshed(day, rates) \in [Days -> Quote]
  BY <1>1, <1>6 DEF Refreshed, RatesTypeOK, Quote
<1>7. market \in Quote
  BY <1>1 DEF RatesTypeOK, Quote
<1>8. CASE FetchRates
  <2>1. now \in Nat
    BY <1>1, RatesAssumption DEF RatesTypeOK
  <2> QED
    BY <1>1, <1>7, <1>8, <2>1 DEF FetchRates, RatesTypeOK
<1>9. CASE StartCapture
  <2>1. cache.rates \in Quote
    BY <1>1, <1>9 DEF RatesTypeOK, StartCapture
  <2>2. capture' \in [pc: {"idle", "create", "refresh"}, day: Days, rates: Quote]
    BY <1>2, <1>9, <2>1 DEF StartCapture
  <2> QED
    BY <1>1, <1>9, <2>2 DEF StartCapture, RatesTypeOK
<1>10. CASE CreateRows
  <2>1. capture.day \in Days /\ capture.rates \in Quote
    BY <1>1 DEF RatesTypeOK
  <2>2. table' = Inserted(capture.day, capture.rates)
    BY <1>10 DEF CreateRows
  <2>3. table' \in [Days -> Quote]
    BY <1>5, <2>1, <2>2
  <2>4. capture' \in [pc: {"idle", "create", "refresh"}, day: Days, rates: Quote]
    BY <1>1, <1>4, <1>10 DEF CreateRows, RatesTypeOK
  <2> QED
    BY <1>1, <1>10, <2>3, <2>4 DEF CreateRows, RatesTypeOK
<1>11. CASE RefreshRows
  <2>1. capture.day \in Days /\ capture.rates \in Quote
    BY <1>1 DEF RatesTypeOK
  <2>2. table' \in [Days -> Quote]
    BY <1>6, <1>11, <2>1 DEF RefreshRows
  <2> QED
    BY <1>1, <1>4, <1>11, <2>2 DEF RefreshRows, RatesTypeOK
<1>12. CASE Tick
  <2>1. now' \in 0..MaxTime
    BY <1>1, <1>12, RatesAssumption DEF Tick, RatesTypeOK
  <2> QED
    BY <1>1, <1>12, <2>1 DEF Tick, RatesTypeOK
<1>13. CASE Restart
  BY <1>1, <1>4, <1>13 DEF Restart, RatesTypeOK
<1>14. ASSUME NEW day \in Days, NEW rates \in Quote, Backfill(day, rates) PROVE RatesTypeOK'
  <2>1. table' \in [Days -> Quote]
    BY <1>5, <1>14 DEF Backfill, Filled
  <2> QED
    BY <1>1, <1>14, <2>1 DEF Backfill, RatesTypeOK
<1>15. ASSUME NEW c \in Currencies, NEW quote \in Quotes, MarketMoves(c, quote) PROVE RatesTypeOK'
  BY <1>1, <1>15 DEF MarketMoves, RatesTypeOK
<1> QED
  BY <1>1, <1>8, <1>9, <1>10, <1>11, <1>12, <1>13, <1>14, <1>15 DEF RatesNext

LEMMA ReportsInvStep == ReportsInv /\ [ReportsNext]_reportVars => ReportsInv'
<1>1. SUFFICES ASSUME ReportsInv, [ReportsNext]_reportVars PROVE ReportsInv'
  OBVIOUS
<1>2. RatesTypeOK
  BY <1>1 DEF ReportsInv, ReportsTypeOK
<1>3. ASSUME RatesNext, UNCHANGED rows PROVE ReportsInv'
  <2>1. RatesTypeOK'
    BY <1>2, <1>3, RatesStep
  <2> QED
    BY <1>1, <1>3, <2>1 DEF ReportsInv, ReportsTypeOK
<1>4. ASSUME UNCHANGED rateVars PROVE RatesTypeOK'
  BY <1>2, <1>4 DEF rateVars, RatesTypeOK
<1>5. ASSUME NEW i \in Ids, NEW kind \in Kinds, NEW day \in Days, NEW c \in All,
             \A r \in rows : r.id # i,
             rows' = rows \cup {Operation(i, kind, day, c)}, UNCHANGED rateVars
      PROVE  ReportsInv'
  <2> DEFINE new == Operation(i, kind, day, c)
  <2>1. new \in Row /\ new.amount = Amount /\ new.id = i
    BY <1>2, OperationIsRow
  <2> HIDE DEF new
  <2>2. rows' = rows \cup {new}
    BY <1>5 DEF new
  <2>3. IsFiniteSet(rows')
    BY <1>1, <2>2, FS_AddElement DEF ReportsInv
  <2>4. rows' \subseteq Row /\ \A r, s \in rows' : r.id = s.id => r = s
    BY <1>1, <1>5, <2>1, <2>2 DEF ReportsInv, ReportsTypeOK
  <2>5. \A r \in rows' : r.amount = Amount
    BY <1>1, <2>1, <2>2 DEF ReportsInv
  <2> QED
    BY <1>4, <1>5, <2>3, <2>4, <2>5 DEF ReportsInv, ReportsTypeOK
<1>6. ASSUME NEW r \in rows, NEW day \in Days, NEW c \in All, Rewrite(r, day, c) PROVE ReportsInv'
  <2> DEFINE new == Operation(r.id, r.kind, day, c)
  <2>1. r.id \in Ids /\ r.kind \in Kinds
    BY <1>1 DEF ReportsInv, ReportsTypeOK, Row
  <2>2. new \in Row /\ new.amount = Amount /\ new.id = r.id
    BY <1>2, <2>1, OperationIsRow
  <2> HIDE DEF new
  <2>3. rows' = (rows \ {r}) \cup {new} /\ UNCHANGED rateVars
    BY <1>6 DEF new, Rewrite
  <2>4. IsFiniteSet(rows')
    <3>1. IsFiniteSet(rows \ {r})
      BY <1>1, FS_Subset DEF ReportsInv
    <3> QED
      BY <2>3, <3>1, FS_AddElement
  <2>5. rows' \subseteq Row /\ \A x, y \in rows' : x.id = y.id => x = y
    BY <1>1, <2>2, <2>3 DEF ReportsInv, ReportsTypeOK
  <2>6. \A x \in rows' : x.amount = Amount
    BY <1>1, <2>2, <2>3 DEF ReportsInv
  <2> QED
    BY <1>4, <2>3, <2>4, <2>5, <2>6 DEF ReportsInv, ReportsTypeOK
<1>7. ASSUME NEW day \in Days, NEW c \in All, NEW i \in Ids, AddExpense(i, day, c) PROVE ReportsInv'
  BY <1>5, <1>7 DEF AddExpense, Kinds
<1>8. ASSUME NEW day \in Days, NEW c \in All, NEW i \in Ids, AddIncome(i, day, c) PROVE ReportsInv'
  BY <1>5, <1>8 DEF AddIncome, Kinds
<1>9. ASSUME NEW day \in Days, NEW c \in All, NEW r \in rows,
             UpdateExpense(r, day, c) \/ UpdateIncome(r, day, c)
      PROVE  ReportsInv'
  BY <1>6, <1>9 DEF UpdateExpense, UpdateIncome
<1>10. CASE UNCHANGED reportVars
  <2>1. UNCHANGED rateVars /\ UNCHANGED rows
    BY <1>10 DEF reportVars
  <2> QED
    BY <1>1, <1>4, <2>1 DEF ReportsInv, ReportsTypeOK
<1> QED
  BY <1>1, <1>3, <1>7, <1>8, <1>9, <1>10 DEF ReportsNext

\* Rates, caches, the nightly job and operations keep their types, whatever is quoted, filled in or
\* edited (fx-rates.service.ts:161-224, expenses.service.ts:21-119).
THEOREM ReportsTyped == ReportsSpec => []ReportsTypeOK
<1>1. ReportsInv => ReportsTypeOK
  BY DEF ReportsInv
<1> QED
  BY <1>1, ReportsInvInit, ReportsInvStep, PTL DEF ReportsSpec

\* For any rates, currencies, buckets and operations, the summary, the details and a page of the list
\* come to what the operations of the period come to one by one, although each reads its rates once
\* for a range of its own (summary.util.ts:38-178, transactions.service.ts:41-134).
THEOREM EveryFigureAgrees == ReportsSpec => []ReportsAgree
  BY ReportsInvInit, ReportsInvStep, FiguresAgree, PTL DEF ReportsSpec

\* What the database groups by day and currency first comes to the same, unless a group has operations
\* with and without a snapshot in dollars (expense-categories.service.ts:49-153,
\* expenses.service.ts:151-205, notifications.service.ts:74-176).
THEOREM GroupsAgree == ReportsSpec => []GroupedAgree
<1>1. ReportsInv => GroupedAgree
  BY GroupedFiguresAgree, TodayIsDay DEF ReportsInv, ReportsTypeOK
<1> QED
  BY <1>1, ReportsInvInit, ReportsInvStep, PTL DEF ReportsSpec

-----------------------------------------------------------------------------
(***************************************************************************)
(* Reports: closed periods.                                                *)
(***************************************************************************)

\* A day is rewritten that has not ended, or filled in where it had nothing.
LEMMA TableStep ==
    ASSUME ReportsInv, [ReportsNext]_reportVars, ~LateCapture,
           NEW c \in Currencies, NEW d \in Days, d < Today
    PROVE  table'[d][c] = table[d][c] \/ (table[d][c] = NULL /\ table'[d][c] # NULL)
<1>1. table \in [Days -> Quote] /\ capture.day \in Days /\ capture.rates \in Quote
  BY DEF ReportsInv, ReportsTypeOK, RatesTypeOK
<1>2. ASSUME NEW day \in Days, NEW rates \in Quote, table' = Inserted(day, rates)
      PROVE  table'[d][c] = table[d][c] \/ (table[d][c] = NULL /\ table'[d][c] # NULL)
  BY <1>1, <1>2 DEF Inserted, Quote
<1>3. CASE CreateRows
  BY <1>1, <1>2, <1>3 DEF CreateRows
<1>4. CASE RefreshRows
  <2>1. capture.day # d
    <3>1. capture.day \in Int /\ d \in Int /\ Today \in Int
      BY <1>1, DaysAreFinite, TodayIsDay DEF ReportsInv, ReportsTypeOK
    <3>2. ~(capture.day < Today)
      BY <1>4 DEF RefreshRows, LateCapture
    <3> QED
      BY <3>1, <3>2
  <2> QED
    BY <1>1, <1>4, <2>1 DEF RefreshRows, Refreshed
<1>5. ASSUME NEW day \in Days, NEW rates \in Quote, Backfill(day, rates)
      PROVE  table'[d][c] = table[d][c] \/ (table[d][c] = NULL /\ table'[d][c] # NULL)
  BY <1>2, <1>5 DEF Backfill, Filled
<1>6. CASE UNCHANGED table
  BY <1>6
<1>7. ASSUME ReportsNext, ~CreateRows, ~RefreshRows,
             ~\E day \in Days, rates \in Quote : Backfill(day, rates)
      PROVE  UNCHANGED table
  <2>1. CASE RatesNext
    BY <1>7, <2>1 DEF RatesNext, FetchRates, StartCapture, Tick, Restart, MarketMoves
  <2>2. CASE ~RatesNext
    BY <1>7, <2>2 DEF ReportsNext, AddExpense, AddIncome, UpdateExpense, UpdateIncome, Rewrite, rateVars
  <2> QED
    BY <2>1, <2>2
<1>8. CASE UNCHANGED reportVars
  BY <1>8 DEF reportVars, rateVars
<1> QED
  BY <1>3, <1>4, <1>5, <1>6, <1>7, <1>8

LEMMA RateStays ==
    ASSUME NEW c \in All, NEW d \in Days, c # usd => OnRecord(c, d) # {},
           \A e \in Days : e <= d => table'[e][c] = table[e][c]
    PROVE  RateOn(c, d)' = RateOn(c, d)
<1>1. OnRecord(c, d)' = OnRecord(c, d)
  BY DEF OnRecord
<1>2. CASE c = usd
  BY <1>2 DEF RateOn
<1>3. CASE c # usd
  <2> DEFINE recorded == OnRecord(c, d)
  <2>1. recorded # {} /\ recorded \in SUBSET Days /\ \A e \in recorded : e <= d
    BY <1>3 DEF OnRecord
  <2>2. RateOn(c, d) = table[Max(recorded)][c]
    BY <1>3, <2>1 DEF RateOn
  <2>3. RateOn(c, d)' = table'[Max(recorded)][c]
    BY <1>1, <1>3, <2>1 DEF RateOn
  <2> HIDE DEF recorded
  <2>4. Max(recorded) \in recorded
    BY <2>1, DaysAreFinite, MaxIsOne
  <2> QED
    BY <2>1, <2>2, <2>3, <2>4
<1> QED
  BY <1>2, <1>3

LEMMA ClosedStays ==
    ASSUME ReportsInv, ReportsAgree, ReportsAgree', [ReportsNext]_reportVars, rows' = rows, ~LateCapture,
           NEW r \in Ranges, r[2] < Today, NEW base \in All, NEW kind \in Kinds, Known(r, base),
           ~\E c \in Currencies, d \in Days : d <= r[2] /\ table[d][c] = NULL /\ table'[d][c] # NULL
    PROVE  Summary(kind, r[1], r[2], 1, base)' = Summary(kind, r[1], r[2], 1, base)
<1>1. Summary(kind, r[1], r[2], 1, base) = Exact(kind, r[1], r[2], base)
  BY DEF ReportsAgree
<1>2. Summary(kind, r[1], r[2], 1, base)' = Exact(kind, r[1], r[2], base)'
  BY DEF ReportsAgree
<1> DEFINE F == Found(kind, r[1], r[2])
<1>3. PICK R : R = ExactRates'
  OBVIOUS
<1>4. Exact(kind, r[1], r[2], base) = TotalInBase(F, base, ExactRates)
  BY DEF Exact
<1>5. Exact(kind, r[1], r[2], base)' = TotalInBase(F, base, R)
  BY <1>3 DEF Exact, Found
<1>6. r[1] \in Days /\ r[2] \in Days
  BY DEF Ranges
<1>7. \A d \in Days : d \in Int
  BY DaysAreFinite
<1>8. Today \in Int
  BY TodayIsDay, DaysAreFinite DEF ReportsInv, ReportsTypeOK
<1>9. ASSUME NEW d \in Days, d <= r[2], NEW c \in Currencies PROVE table'[d][c] = table[d][c]
  <2>1. d < Today
    BY <1>6, <1>7, <1>8, <1>9
  <2> QED
    BY <1>9, <2>1, TableStep
<1>10. ASSUME NEW row \in F, NEW c \in {base, row.currency}
       PROVE  R[c][row.day] = ExactRates[c][row.day]
  <2>1. row \in rows /\ row.day \in Days /\ r[1] <= row.day /\ row.day <= r[2] /\ c \in All
    BY RowsAreWritten DEF Found, Written
  <2> DEFINE d == row.day
  <2>2. c # usd => OnRecord(c, d) # {}
    BY <2>1 DEF Known
  <2>3. c # usd => \A e \in Days : e <= d => table'[e][c] = table[e][c]
    <3>1. c # usd => c \in Currencies
      BY <2>1 DEF All
    <3>2. \A e \in Days : e <= d => e <= r[2]
      BY <1>6, <1>7, <2>1
    <3> QED
      BY <1>9, <3>1, <3>2
  <2> HIDE DEF d
  <2>4. RateOn(c, d)' = RateOn(c, d)
    <3>1. CASE c = usd
      BY <3>1 DEF RateOn
    <3>2. CASE c # usd
      BY <2>1, <2>2, <2>3, <3>2, RateStays DEF d
    <3> QED
      BY <3>1, <3>2
  <2>5. ExactRates[c][d] = RateOn(c, d) /\ R[c][d] = RateOn(c, d)'
    BY <1>3, <2>1 DEF ExactRates, d
  <2> QED
    BY <2>4, <2>5 DEF d
<1>11. \A row \in F : Worth(row, base, ExactRates) = Worth(row, base, R)
  BY <1>10 DEF Worth
<1> HIDE DEF F
<1>12. TotalInBase(F, base, ExactRates) = TotalInBase(F, base, R)
  BY <1>11, TotalSame
<1> QED
  BY <1>1, <1>2, <1>4, <1>5, <1>12

\* No step moves the summary of a period that ended, once the rates it needs are on record, but a
\* backfill of a day that had none, or the edit of an operation; the nightly job that began before
\* midnight is excepted (currency.service.ts:138-139, fx-rates.service.ts:199-224).
THEOREM ClosedPeriodsAreKept == ReportsSpec => ClosedPeriodsStay
<1> DEFINE Stays ==
      rows' = rows /\ ~LateCapture =>
         \A r \in {p \in Ranges : p[2] < Today}, base \in All, kind \in Kinds :
             Known(r, base) =>
                \/ Summary(kind, r[1], r[2], 1, base)' = Summary(kind, r[1], r[2], 1, base)
                \/ \E c \in Currencies, d \in Days :
                       d <= r[2] /\ table[d][c] = NULL /\ table'[d][c] # NULL
<1>1. ReportsInv /\ ReportsAgree /\ ReportsAgree' /\ [ReportsNext]_reportVars => [Stays]_reportVars
  BY ClosedStays
<1>2. ClosedPeriodsStay <=> [][Stays]_reportVars
  BY DEF ClosedPeriodsStay
<1>3. ReportsSpec => []ReportsInv /\ []ReportsAgree
  BY ReportsInvInit, ReportsInvStep, FiguresAgree, PTL DEF ReportsSpec
<1> HIDE DEF Stays
<1> QED
  BY <1>1, <1>2, <1>3, PTL DEF ReportsSpec
===============================================================================
