------------------------------ MODULE RecordsProofs ------------------------------
(***************************************************************************)
(* Theorems about VenueRecords, for any number of orders and venues, any   *)
(* reach of the copy and any throttling of it, and about Trades, for any   *)
(* number of rows, edits at once and trades that may be entered.           *)
(***************************************************************************)
EXTENDS VenueRecords, Trades, Sums, TLAPS

(***************************************************************************)
(* Types.  A run has what its next step writes with, and until its account *)
(* is gone there is one; only what the exchange has is copied, recorded or *)
(* about to be, and what is copied as complete is complete there.          *)
(***************************************************************************)

Placed(o) == order[o] # NULL
Complete(o) == Placed(o) /\ order[o].done # NULL

RunKnows ==
    /\ ~At("idle") /\ ~run.gone => account # NULL
    /\ At("upsert") => run.order # NULL /\ Placed(run.order) /\ (run.done => Complete(run.order))
    /\ At("record") => /\ run.todo # {} => run.venue # NULL
                       /\ \A o \in run.todo : Placed(o)

CopiesWhatIs ==
    /\ \A o \in Orders : p2p[o] # NULL => Placed(o) /\ (p2p[o].done => Complete(o))
    /\ \A v \in Venues, o \in Orders : Recorded(v, o) => Placed(o)

InOrder ==
    \A o \in Orders : Placed(o) =>
        /\ order[o].placed <= clock
        /\ Complete(o) => order[o].placed <= order[o].done /\ order[o].done <= clock

Sound == TypeOK /\ RunKnows /\ CopiesWhatIs /\ InOrder

LEMMA OrdersAre == ASSUME TypeOK, NEW o \in Orders, Placed(o) PROVE order[o] \in Order
BY DEF TypeOK, Placed

LEMMA VenuesAre == ASSUME TypeOK, NEW v \in Venues, Present(v) PROVE venue[v] \in Venue
BY DEF TypeOK, Present

LEMMA TimeIs == Time \subseteq Int /\ 0 \in Time /\ NULL \notin Time
BY RecordsAssumption DEF Time, Horizon

LEMMA IdleIsRun == Idle \in Run /\ NoAccount \in Account /\ NoAccount # NULL
<1>1. NoAccount \in Account
  BY DEF NoAccount, Account
<1> QED
  BY <1>1, TimeIs, RecordsAssumption DEF Idle, Run, Steps

LEMMA InitSound == Init => Sound
<1> SUFFICES ASSUME Init PROVE Sound
  OBVIOUS
<1>1. TypeOK
  BY IdleIsRun, TimeIs DEF Init, TypeOK, Account
<1>2. At("idle")
  BY DEF Init, At, Idle
<1> QED
  BY <1>1, <1>2, RecordsAssumption DEF Init, Sound, RunKnows, CopiesWhatIs, InOrder, At, Placed, Recorded

\* An order changes as orders do.
LEMMA OrderSound ==
    ASSUME Sound, NEW o \in Orders, NEW n \in Order, order' = [order EXCEPT ![o] = n],
           n.placed <= clock, n.done # NULL => n.placed <= n.done /\ n.done <= clock,
           Complete(o) => n.done # NULL,
           UNCHANGED <<clock, account, p2p, venue, transfer, extra, run, removing, spoilt>>,
           wanted' \subseteq Orders
    PROVE  Sound'
<1> USE DEF Sound
<1>1. order' \in [Orders -> Order \cup {NULL}]
  BY DEF TypeOK
<1>2. \A x \in Orders : (Placed(x) => Placed(x)') /\ (Complete(x) => Complete(x)')
  BY RecordsAssumption DEF TypeOK, Placed, Complete
<1>3. InOrder'
  BY RecordsAssumption DEF TypeOK, InOrder, Placed, Complete
<1>4. RunKnows'
  BY <1>2 DEF RunKnows, At, TypeOK, Run
<1>5. CopiesWhatIs'
  BY <1>2 DEF CopiesWhatIs, Recorded, TypeOK
<1> QED
  BY <1>1, <1>3, <1>4, <1>5 DEF TypeOK

\* Time passes and orders are placed and complete.
LEMMA ExchangeSound ==
    Sound /\ (Tick \/ \E o \in Orders : PlaceOrder(o) \/ CompleteOrder(o)) => Sound'
<1> SUFFICES ASSUME Sound, Tick \/ \E o \in Orders : PlaceOrder(o) \/ CompleteOrder(o) PROVE Sound'
  OBVIOUS
<1> USE DEF Sound
<1>1. CASE Tick
  <2>1. clock' \in Time /\ clock < clock'
    BY <1>1, RecordsAssumption DEF Tick, TypeOK, Time, Horizon
  <2>2. InOrder'
    <3> SUFFICES ASSUME NEW o \in Orders, Placed(o)
                 PROVE  /\ order[o].placed <= clock'
                        /\ Complete(o) => order[o].placed <= order[o].done /\ order[o].done <= clock'
      BY <1>1 DEF Tick, InOrder, Placed, Complete
    <3>1. order[o].placed \in Int /\ (Complete(o) => order[o].done \in Int) /\ clock \in Int /\ clock' \in Int
      BY OrdersAre, TimeIs, <2>1 DEF Order, Complete, TypeOK
    <3> QED
      BY <2>1, <3>1 DEF InOrder
  <2> QED
    BY <1>1, <2>1, <2>2 DEF Tick, tables, history, TypeOK, RunKnows, CopiesWhatIs, At, Placed, Complete, Recorded
<1>2. ASSUME NEW o \in Orders, PlaceOrder(o) PROVE Sound'
  <2> DEFINE n == [placed |-> clock, done |-> NULL]
  <2>1. n \in Order /\ n.placed <= clock /\ n.done = NULL
    BY TimeIs DEF TypeOK, Order
  <2>2. order' = [order EXCEPT ![o] = n] /\ ~Complete(o)
    BY <1>2 DEF PlaceOrder, Complete, Placed
  <2> HIDE DEF n
  <2> QED
    BY <1>2, <2>1, <2>2, OrderSound DEF PlaceOrder, tables, history, TypeOK
<1>3. ASSUME NEW o \in Orders, CompleteOrder(o) PROVE Sound'
  <2> DEFINE n == [order[o] EXCEPT !.done = clock]
  <2>1. order[o] \in Order /\ order[o].placed <= clock /\ Placed(o)
    BY <1>3, OrdersAre DEF CompleteOrder, Placed, InOrder
  <2>2. n \in Order /\ n.placed <= clock /\ n.done = clock /\ n.placed <= n.done /\ n.done <= clock
    BY <2>1, TimeIs DEF TypeOK, Order
  <2>3. order' = [order EXCEPT ![o] = n] /\ n.done # NULL
    BY <1>3, <2>2, TimeIs DEF CompleteOrder, TypeOK
  <2> HIDE DEF n
  <2> QED
    BY <1>3, <2>2, <2>3, OrderSound DEF CompleteOrder, tables, history, TypeOK
<1> QED
  BY <1>1, <1>2, <1>3

\* One more record, of an order there is, on a venue there is.
LEMMA RecordedSound ==
    ASSUME Sound, NEW v \in Venues, NEW o \in Orders, Present(v), Placed(o), NEW how \in {"hand", "auto"},
           transfer' = [transfer EXCEPT ![<<v, o>>] = how],
           UNCHANGED <<clock, order, account, p2p, venue, extra, removing, wanted>>,
           spoilt' \subseteq Orders, run' \in Run, RunKnows'
    PROVE  Sound'
<1> USE DEF Sound
<1>1. /\ transfer' \in [Venues \X Orders -> {NULL, "hand", "auto"}]
      /\ \A k \in Venues \X Orders : k # <<v, o>> => transfer'[k] = transfer[k]
  BY DEF TypeOK
<1>2. \A k \in Venues \X Orders : transfer'[k] # NULL => venue[k[1]] # NULL
  BY <1>1 DEF TypeOK, Present
<1>3. CopiesWhatIs'
  <2>1. \A w \in Venues, x \in Orders : transfer'[<<w, x>>] # NULL => Placed(x)
    BY <1>1 DEF CopiesWhatIs, Recorded
  <2> QED
    BY <2>1 DEF CopiesWhatIs, Recorded, Placed, Complete
<1> QED
  BY <1>1, <1>2, <1>3 DEF TypeOK, InOrder, Placed, Complete

\* The tables of the user change; orders and time do not, and runs at most lose their account.
LEMMA UserSound == Sound /\ User => Sound'
<1> SUFFICES ASSUME Sound, User PROVE Sound'
  OBVIOUS
<1> USE DEF Sound
<1>1. CASE Connect
  <2>1. PICK v \in Venues : ~Present(v) /\ venue' = [venue EXCEPT ![v] = [connected |-> TRUE, live |-> TRUE]]
    BY <1>1 DEF Connect
  <2>2. venue' \in [Venues -> Venue \cup {NULL}] /\ \A w \in Venues : Present(w) => Present(w)'
    BY <2>1, RecordsAssumption DEF TypeOK, Venue, Present
  <2>3. account' \in Account /\ account' # NULL
    BY <1>1, IdleIsRun DEF Connect
  <2> QED
    BY <1>1, <2>2, <2>3 DEF Connect, history, TypeOK, RunKnows, CopiesWhatIs, InOrder, At, Placed, Complete, Recorded, Present
<1>2. CASE Disconnect
  <2>1. \A v \in Venues : v \in LiveVenues => [venue[v] EXCEPT !.connected = FALSE] \in Venue
    BY VenuesAre DEF LiveVenues, Venue
  <2>2. venue' \in [Venues -> Venue \cup {NULL}] /\ \A v \in Venues : Present(v) => Present(v)'
    BY <1>2, <2>1, RecordsAssumption DEF Disconnect, TypeOK, Present
  <2>3. \A o \in Orders : p2p[o] # NULL => p2p[o] \in Copy /\ [p2p[o] EXCEPT !.mine = FALSE] \in Copy
    BY DEF TypeOK, Copy
  <2>4. /\ p2p' \in [Orders -> Copy \cup {NULL}]
        /\ \A o \in Orders : p2p'[o] # NULL => p2p[o] # NULL /\ p2p'[o].done = p2p[o].done
    BY <1>2, <2>3, RecordsAssumption DEF Disconnect, TypeOK, Copy
  <2>5. /\ run' \in Run /\ run'.pc = run.pc /\ run'.order = run.order /\ run'.done = run.done
        /\ run'.todo = run.todo /\ run'.venue = run.venue
        /\ (run'.gone \/ run'.pc = "idle")
    BY <1>2 DEF Disconnect, TypeOK, Run, At
  <2>6. CopiesWhatIs'
    BY <1>2, <2>4 DEF Disconnect, CopiesWhatIs, Placed, Complete, Recorded
  <2>7. RunKnows'
    BY <1>2, <2>5 DEF Disconnect, RunKnows, At, Placed, Complete
  <2> QED
    BY <1>2, <2>2, <2>4, <2>5, <2>6, <2>7 DEF Disconnect, TypeOK, InOrder, Placed, Complete, Present
<1>3. CASE RemoveVenue
  <2>1. run' \in Run /\ (run' = run \/ run'.pc = "idle")
    BY <1>3, IdleIsRun DEF RemoveVenue, TypeOK, Idle
  <2>2. venue' \in [Venues -> Venue \cup {NULL}]
        /\ \A v \in Venues : v # removing => venue'[v] = venue[v]
    BY <1>3 DEF RemoveVenue, TypeOK
  <2>3. /\ transfer' \in [Venues \X Orders -> {NULL, "hand", "auto"}]
        /\ \A k \in Venues \X Orders : transfer'[k] = IF k[1] = removing THEN NULL ELSE transfer[k]
    BY <1>3 DEF RemoveVenue, Cascaded, TypeOK
  <2>4. \A k \in Venues \X Orders : transfer'[k] # NULL => venue'[k[1]] # NULL
    BY <2>2, <2>3 DEF TypeOK
  <2>5. RunKnows'
    BY <1>3, <2>1 DEF RemoveVenue, RunKnows, At, Placed, Complete
  <2>6. CopiesWhatIs'
    BY <1>3, <2>3 DEF RemoveVenue, CopiesWhatIs, Recorded, Placed, Complete
  <2>7. extra' \subseteq {v \in Venues : venue'[v] # NULL}
    BY <1>3, <2>2 DEF RemoveVenue, TypeOK
  <2> QED
    BY <1>3, <2>1, <2>2, <2>3, <2>4, <2>5, <2>6, <2>7 DEF RemoveVenue, history, TypeOK, InOrder, Placed, Complete
<1>4. ASSUME NEW on \in BOOLEAN, SwitchAutoRecord(on) PROVE Sound'
  <2>1. clock' \in Time /\ clock <= clock' /\ clock \in Int
    BY <1>4, RecordsAssumption DEF SwitchAutoRecord, TypeOK, Time, Horizon
  <2>2. AutoFrom(account.autoFrom, on, clock') \in Time \cup {NULL}
    BY <1>4, <2>1 DEF SwitchAutoRecord, AutoFrom, TypeOK, Account
  <2>3. account' \in Account /\ account' # NULL
    BY <1>4, <2>2, RecordsAssumption DEF SwitchAutoRecord, TypeOK, Account
  <2>4. InOrder'
    <3> SUFFICES ASSUME NEW o \in Orders, Placed(o)
                 PROVE  /\ order[o].placed <= clock'
                        /\ Complete(o) => order[o].placed <= order[o].done /\ order[o].done <= clock'
      BY <1>4 DEF SwitchAutoRecord, InOrder, Placed, Complete
    <3>1. order[o].placed \in Int /\ (Complete(o) => order[o].done \in Int) /\ clock' \in Int
      BY OrdersAre, TimeIs, <2>1 DEF Order, Complete
    <3> QED
      BY <2>1, <3>1 DEF InOrder
  <2> QED
    BY <1>4, <2>1, <2>3, <2>4 DEF SwitchAutoRecord, TypeOK, RunKnows, CopiesWhatIs, At, Placed, Complete, Recorded
<1>5. ASSUME NEW v \in Venues, CreateManual(v) PROVE Sound'
  <2>1. venue' \in [Venues -> Venue \cup {NULL}] /\ \A w \in Venues : Present(w) => Present(w)'
    BY <1>5, RecordsAssumption DEF CreateManual, TypeOK, Venue, Present
  <2> QED
    BY <1>5, <2>1 DEF CreateManual, history, TypeOK, RunKnows, CopiesWhatIs, InOrder, At, Placed, Complete, Recorded, Present
<1>6. ASSUME NEW v \in Venues, AddAdjustment(v) \/ RemoveAdjustment(v) \/ CountRecords(v) PROVE Sound'
  BY <1>6 DEF AddAdjustment, RemoveAdjustment, CountRecords, tables, history, TypeOK, RunKnows, CopiesWhatIs, InOrder,
              At, Placed, Complete, Recorded, Present
<1>7. ASSUME NEW v \in Venues, NEW o \in Orders, RecordByHand(v, o) PROVE Sound'
  <2>1. Present(v) /\ Placed(o)
    BY <1>7 DEF RecordByHand, LiveVenues, CopiesWhatIs
  <2>2. transfer' = [transfer EXCEPT ![<<v, o>>] = "hand"]
    BY <1>7 DEF RecordByHand
  <2> QED
    BY <1>7, <2>1, RecordedSound DEF RecordByHand, history, TypeOK, RunKnows, At, Placed, Complete
<1>8. ASSUME NEW v \in Venues, NEW o \in Orders, RemoveRecord(v, o) PROVE Sound'
  <2>1. /\ transfer' \in [Venues \X Orders -> {NULL, "hand", "auto"}]
        /\ \A k \in Venues \X Orders : transfer'[k] # NULL => transfer[k] # NULL
    BY <1>8 DEF RemoveRecord, TypeOK
  <2>2. CopiesWhatIs'
    BY <1>8, <2>1 DEF RemoveRecord, CopiesWhatIs, Recorded, Placed, Complete
  <2> QED
    BY <1>8, <2>1, <2>2 DEF RemoveRecord, history, TypeOK, RunKnows, InOrder, At, Placed, Complete
<1> QED
  BY <1>1, <1>2, <1>3, <1>4, <1>5, <1>6, <1>7, <1>8 DEF User

LEMMA RunSound == Sound /\ (SyncIfDue \/ RefreshForTab \/ Proceed \/ Fail) => Sound'
<1> SUFFICES ASSUME Sound, SyncIfDue \/ RefreshForTab \/ Proceed \/ Fail PROVE Sound'
  OBVIOUS
<1> USE DEF Sound
<1>1. ASSUME NEW q \in Run, run' = q, UNCHANGED <<clock, order, account, p2p, venue, transfer, extra, removing, history>>,
             q.pc # "idle" /\ ~q.gone => account # NULL,
             q.pc = "upsert" => q.order # NULL /\ Placed(q.order) /\ (q.done => Complete(q.order)),
             q.pc = "record" => (q.todo # {} => q.venue # NULL) /\ \A o \in q.todo : Placed(o)
      PROVE  Sound'
  BY <1>1 DEF history, TypeOK, RunKnows, CopiesWhatIs, InOrder, At, Placed, Complete, Recorded
<1>2. CASE SyncIfDue \/ RefreshForTab
  <2>1. Copying \in Run /\ Copying.pc = "copy"
    BY <1>2, IdleIsRun DEF SyncIfDue, RefreshForTab, Start, Copying, Idle, Run, Steps, TypeOK
  <2> QED
    BY <1>1, <1>2, <2>1 DEF SyncIfDue, RefreshForTab, Start, tables
<1>3. CASE Refused \/ Fail
  <2>1. Idle.pc = "idle"
    BY DEF Idle
  <2> QED
    BY <1>1, <1>3, <2>1, IdleIsRun DEF Refused, Fail, tables
<1>4. ASSUME NEW o \in Orders, FetchOrder(o) PROVE Sound'
  <2> DEFINE d == order[o].done # NULL
             q == [run EXCEPT !.pc = "upsert", !.order = o, !.done = d]
  <2>1. Placed(o) /\ (d => Complete(o)) /\ d \in BOOLEAN
    BY <1>4 DEF FetchOrder, InWindow, Placed, Complete
  <2> HIDE DEF d
  <2>2. q \in Run /\ q.pc = "upsert" /\ q.order = o /\ q.done = d /\ q.gone = run.gone
    BY <2>1 DEF TypeOK, Run, Steps
  <2>3. run' = q
    BY <1>4 DEF FetchOrder, d
  <2> HIDE DEF q
  <2> QED
    BY <1>1, <1>4, <2>1, <2>2, <2>3, RecordsAssumption DEF FetchOrder, tables, RunKnows, At
<1>5. CASE UpsertOrder
  <2> DEFINE o == run.order
             q == [run EXCEPT !.pc = "copy", !.todo = @ \ {o}, !.order = NULL, !.done = FALSE]
             c == [done |-> run.done, mine |-> TRUE]
  <2>1. o \in Orders /\ Placed(o) /\ (run.done => Complete(o)) /\ account # NULL
    BY <1>5 DEF UpsertOrder, RunKnows, At, TypeOK, Run
  <2>2. q \in Run /\ q.pc = "copy" /\ run' = q
    BY <1>5 DEF UpsertOrder, TypeOK, Run, Steps
  <2>3. c \in Copy /\ c.done = run.done /\ p2p' = [p2p EXCEPT ![o] = c]
    BY <1>5 DEF UpsertOrder, TypeOK, Run, Copy
  <2> HIDE DEF q, c
  <2>4. p2p' \in [Orders -> Copy \cup {NULL}] /\ \A x \in Orders : p2p'[x] = IF x = o THEN c ELSE p2p[x]
    BY <2>3 DEF TypeOK
  <2>5. CopiesWhatIs'
    BY <1>5, <2>1, <2>3, <2>4 DEF UpsertOrder, CopiesWhatIs, Recorded, Placed, Complete
  <2>6. RunKnows'
    BY <1>5, <2>1, <2>2 DEF UpsertOrder, RunKnows, At
  <2>7. spoilt' \subseteq Orders
    BY <1>5, <2>1 DEF UpsertOrder, TypeOK
  <2> HIDE DEF o
  <2> QED
    BY <1>5, <2>2, <2>4, <2>5, <2>6, <2>7 DEF UpsertOrder, TypeOK, InOrder, Placed, Complete
<1>6. CASE AutoRecord
  <2>1. PICK v \in Venues \cup {NULL}, todo \in SUBSET Orders :
            /\ run' = Recording(run, v, todo)
            /\ todo # {} => v # NULL
            /\ \A o \in todo : Placed(o)
    <3>1. CASE run' = Recording(run, NULL, {})
      BY <3>1
    <3>2. ASSUME NEW v \in LiveVenues, run' = Recording(run, v, ToRecord(run.seen, p2p) \ Taken(v))
          PROVE  \E w \in Venues \cup {NULL}, todo \in SUBSET Orders :
                    /\ run' = Recording(run, w, todo) /\ (todo # {} => w # NULL) /\ \A o \in todo : Placed(o)
      <4>1. v \in Venues /\ v # NULL
        BY RecordsAssumption DEF LiveVenues
      <4>2. ToRecord(run.seen, p2p) \in SUBSET Orders /\ \A o \in ToRecord(run.seen, p2p) : Placed(o)
        BY DEF ToRecord, CopiesWhatIs
      <4> QED
        BY <3>2, <4>1, <4>2
    <3> QED
      BY <1>6, <3>1, <3>2 DEF AutoRecord
  <2> DEFINE q == Recording(run, v, todo)
  <2>2. q \in Run /\ q.pc = "record" /\ q.gone = run.gone /\ q.todo = todo /\ q.venue = v
    BY IdleIsRun DEF Recording, Idle, Run, Steps, TypeOK
  <2> HIDE DEF q
  <2>3. ~run.gone => account # NULL
    BY <1>6 DEF AutoRecord, At, RunKnows
  <2>4. run' = q
    BY <2>1 DEF q
  <2> QED
    BY <1>1, <1>6, <2>1, <2>2, <2>3, <2>4 DEF AutoRecord, tables
<1>7. CASE OrdersCopied
  <2>1. account \in Account /\ account # NULL
    BY <1>7 DEF OrdersCopied, RunKnows, At, TypeOK
  <2>2. account' \in Account /\ account' # NULL
    BY <1>7, <2>1, RecordsAssumption DEF OrdersCopied, CopiedAt, TypeOK, Run, Account
  <2>3. run' \in Run /\ run'.pc = "idle"
    BY <1>7, IdleIsRun DEF OrdersCopied, Idle
  <2> QED
    BY <1>7, <2>2, <2>3 DEF OrdersCopied, history, TypeOK, RunKnows, CopiesWhatIs, InOrder, At, Placed, Complete, Recorded
<1>8. ASSUME NEW o \in Orders, RecordOrder(o) PROVE Sound'
  <2> DEFINE q == [run EXCEPT !.todo = @ \ {o}]
  <2>1. run.venue \in Venues /\ Present(run.venue) /\ Placed(o)
    BY <1>8 DEF RecordOrder, RunKnows, At, TypeOK, Run
  <2>2. q \in Run /\ q.pc = run.pc /\ q.gone = run.gone /\ q.todo \subseteq run.todo /\ q.venue = run.venue /\ run' = q
    BY <1>8 DEF RecordOrder, TypeOK, Run
  <2> HIDE DEF q
  <2>3. RunKnows'
    BY <1>8, <2>2 DEF RecordOrder, RunKnows, At, Placed, Complete
  <2>4. spoilt' \subseteq Orders /\ run' \in Run
    BY <1>8, <2>2 DEF RecordOrder, TypeOK
  <2>5. transfer' = [transfer EXCEPT ![<<run.venue, o>>] = "auto"]
    BY <1>8 DEF RecordOrder
  <2>6. UNCHANGED <<clock, order, account, p2p, venue, extra, removing, wanted>>
    BY <1>8 DEF RecordOrder
  <2> QED
    BY <2>1, <2>3, <2>4, <2>5, <2>6, RecordedSound
<1> QED
  BY <1>2, <1>3, <1>4, <1>5, <1>6, <1>7, <1>8 DEF Proceed

LEMMA BesideSound == Sound /\ CopyBeside => Sound'
<1> SUFFICES ASSUME Sound, CopyBeside PROVE Sound'
  OBVIOUS
<1> USE DEF Sound
<1>1. \A o \in InWindow(Copying) : o \in Orders /\ Placed(o)
  BY DEF InWindow, Copying, Idle, Placed
<1>2. /\ p2p' \in [Orders -> Copy \cup {NULL}]
      /\ \A o \in Orders : p2p'[o] = IF o \notin InWindow(Copying) THEN p2p[o]
                                     ELSE [done |-> order[o].done # NULL, mine |-> TRUE]
  BY DEF CopyBeside, TypeOK, Copy
<1>3. \A o \in Orders : p2p'[o] # NULL => Placed(o) /\ (p2p'[o].done => Complete(o))
  <2> SUFFICES ASSUME NEW o \in Orders, p2p'[o] # NULL PROVE Placed(o) /\ (p2p'[o].done => Complete(o))
    OBVIOUS
  <2>1. CASE o \in InWindow(Copying)
    <3> DEFINE d == order[o].done # NULL
    <3>1. Placed(o) /\ (d => Complete(o)) /\ d \in BOOLEAN
      BY <1>1, <2>1 DEF Complete
    <3>2. p2p'[o] = [done |-> d, mine |-> TRUE]
      BY <1>2, <2>1
    <3> HIDE DEF d
    <3>3. p2p'[o].done = d
      BY <3>1, <3>2
    <3> QED
      BY <3>1, <3>3
  <2>2. CASE o \notin InWindow(Copying)
    BY <1>2, <2>2 DEF CopiesWhatIs
  <2> QED
    BY <2>1, <2>2
<1>4. PICK recorded \in SUBSET (Venues \X Orders) :
         /\ \A k \in recorded : k[1] \in LiveVenues /\ k[2] \in Orders /\ Placed(k[2])
         /\ transfer' = [k \in Venues \X Orders |-> IF k \in recorded THEN "auto" ELSE transfer[k]]
  <2> DEFINE all == {k \in Venues \X Orders : k[1] \in LiveVenues /\ k[2] \in ToRecord(account, p2p') \ Taken(k[1])}
  <2>1. \A k \in all : k[1] \in LiveVenues /\ k[2] \in Orders /\ Placed(k[2])
    BY <1>3 DEF ToRecord
  <2>2. transfer' = [k \in Venues \X Orders |-> IF k \in all THEN "auto" ELSE transfer[k]]
    BY DEF CopyBeside
  <2> HIDE DEF all
  <2>3. all \in SUBSET (Venues \X Orders)
    BY DEF all
  <2> QED
    BY <2>1, <2>2, <2>3
<1>5. /\ transfer' \in [Venues \X Orders -> {NULL, "hand", "auto"}]
      /\ \A k \in Venues \X Orders : transfer'[k] # NULL => transfer[k] # NULL \/ k \in recorded
  BY <1>4 DEF TypeOK
<1>6. \A k \in Venues \X Orders : transfer'[k] # NULL => venue[k[1]] # NULL
  BY <1>4, <1>5 DEF TypeOK, LiveVenues, Present
<1>7. CopiesWhatIs'
  <2>1. \A v \in Venues, o \in Orders : transfer'[<<v, o>>] # NULL => Placed(o)
    BY <1>4, <1>5 DEF CopiesWhatIs, Recorded
  <2> QED
    BY <1>3, <2>1 DEF CopyBeside, CopiesWhatIs, Recorded, Placed, Complete
<1>8. account' \in Account /\ account' # NULL
  BY RecordsAssumption DEF CopyBeside, TypeOK, Account
<1> QED
  BY <1>2, <1>5, <1>6, <1>7, <1>8 DEF CopyBeside, history, TypeOK, RunKnows, InOrder, At, Placed, Complete

LEMMA NextSound == Sound /\ [Next]_vars => Sound'
<1>1. Sound /\ UNCHANGED vars => Sound'
  BY DEF Sound, vars, tables, history, TypeOK, RunKnows, CopiesWhatIs, InOrder, At, Placed, Complete, Recorded
<1> QED
  BY <1>1, ExchangeSound, UserSound, RunSound, BesideSound DEF Next

\* Every column keeps its type, a record and a coin are on a venue that exists, whenever venues
\* are removed, and a run never writes what it has not read (investing-p2p.service.ts:91-228).
THEOREM TypeCorrect == Spec => []TypeOK
<1>1. Spec => []Sound
  BY InitSound, NextSound, PTL DEF Spec
<1> QED
  BY <1>1, PTL DEF Sound

(***************************************************************************)
(* The copy.  What completed before a copy began, it has or still has to   *)
(* read: what it does not reach back to was complete by the copy before.   *)
(***************************************************************************)

CopiedAs(o) == o \in spoilt \/ (p2p[o] # NULL /\ p2p[o].done)

FinishedBy(o, t) == Placed(o) /\ InReach(o) /\ order[o].done < t

Covered(t, but) ==
    /\ t <= clock
    /\ \A o \in Orders : FinishedBy(o, t) => CopiedAs(o) \/ o \in but

Follows(seen) == seen # NULL /\ seen.syncedAt # NULL => Covered(seen.syncedAt, {})

RunFollows ==
    /\ run.pc \in {"copy", "upsert"} => Follows(run.seen) /\ Covered(run.now, run.todo)
    /\ At("upsert") /\ FinishedBy(run.order, run.now) => run.done
    /\ At("record") => Covered(run.now, {})

Following == Follows(account) /\ RunFollows

LEMMA InitFollowing == Init => Following
BY DEF Init, Following, Follows, RunFollows, At, Idle

\* What was finished before now stays as it is, and time only advances.
LEMMA FinishedStays ==
    Sound /\ [Next]_vars =>
        /\ clock \in Int /\ clock' \in Int /\ clock <= clock'
        /\ \A o \in Orders, t \in Int :
              t <= clock /\ Complete(o)' /\ order'[o].done < t => order'[o] = order[o]
        /\ \A o \in Orders : Placed(o) => Placed(o)' /\ order'[o].placed = order[o].placed
<1> SUFFICES ASSUME Sound, [Next]_vars
             PROVE  /\ clock \in Int /\ clock' \in Int /\ clock <= clock'
                    /\ \A o \in Orders, t \in Int :
                          t <= clock /\ Complete(o)' /\ order'[o].done < t => order'[o] = order[o]
                    /\ \A o \in Orders : Placed(o) => Placed(o)' /\ order'[o].placed = order[o].placed
  OBVIOUS
<1>1. clock \in Int
  BY TimeIs DEF Sound, TypeOK
<1>3. ASSUME NEW on \in BOOLEAN, SwitchAutoRecord(on) PROVE clock' \in Int /\ clock <= clock' /\ order' = order
  BY <1>1, <1>3 DEF SwitchAutoRecord
<1>4. ASSUME NEW o \in Orders, PlaceOrder(o)
      PROVE  clock' = clock /\ order[o] = NULL /\ order'[o].done = NULL /\ \A x \in Orders \ {o} : order'[x] = order[x]
  BY <1>4 DEF PlaceOrder, Sound, TypeOK
<1>5. ASSUME NEW o \in Orders, CompleteOrder(o)
      PROVE  /\ clock' = clock /\ order'[o].done = clock /\ \A x \in Orders \ {o} : order'[x] = order[x]
             /\ order'[o] # NULL /\ order'[o].placed = order[o].placed
  <2> DEFINE n == [order[o] EXCEPT !.done = clock]
  <2>1. order[o] \in Order
    BY <1>5, OrdersAre DEF CompleteOrder, Placed, Sound
  <2>2. n \in Order /\ n.done = clock /\ n.placed = order[o].placed
    BY <2>1 DEF Order, Sound, TypeOK
  <2>3. order' = [order EXCEPT ![o] = n] /\ clock' = clock
    BY <1>5 DEF CompleteOrder
  <2> HIDE DEF n
  <2>4. order'[o] = n /\ \A x \in Orders \ {o} : order'[x] = order[x]
    BY <2>3 DEF Sound, TypeOK
  <2> QED
    BY <2>2, <2>3, <2>4, RecordsAssumption
<1>6. CASE UNCHANGED <<clock, order>>
  BY <1>1, <1>6 DEF Placed
<1>7. \/ Tick \/ UNCHANGED <<clock, order>>
      \/ \E o \in Orders : PlaceOrder(o) \/ CompleteOrder(o)
      \/ \E on \in BOOLEAN : SwitchAutoRecord(on)
  BY DEF Next, vars, User, Proceed, Connect, Disconnect, RemoveVenue, CreateManual, AddAdjustment, RemoveAdjustment,
         CountRecords, RecordByHand, RemoveRecord, SyncIfDue, RefreshForTab, Start, CopyBeside, UpsertOrder, AutoRecord,
         OrdersCopied, Refused, FetchOrder, RecordOrder, Fail
<1>8. CASE Tick
  BY <1>1, <1>8 DEF Tick, Placed
<1>9. ASSUME NEW o \in Orders, PlaceOrder(o)
      PROVE  /\ \A x \in Orders, t \in Int : Complete(x)' => order'[x] = order[x]
             /\ \A x \in Orders : Placed(x) => Placed(x)' /\ order'[x].placed = order[x].placed
  BY <1>4, <1>9 DEF Placed, Complete
<1>10. ASSUME NEW o \in Orders, CompleteOrder(o)
       PROVE  /\ \A x \in Orders, t \in Int : t <= clock /\ order'[x].done < t => order'[x] = order[x]
              /\ \A x \in Orders : Placed(x) => Placed(x)' /\ order'[x].placed = order[x].placed
  BY <1>1, <1>5, <1>10 DEF Placed
<1>11. ASSUME NEW on \in BOOLEAN, SwitchAutoRecord(on)
       PROVE  \A x \in Orders : Placed(x) => Placed(x)' /\ order'[x].placed = order[x].placed
  BY <1>3, <1>11 DEF Placed
<1> QED
  BY <1>1, <1>3, <1>4, <1>5, <1>6, <1>7, <1>8, <1>9, <1>10, <1>11

\* What has been copied by then stays copied, as far as the step does not undo a copy.
LEMMA StaysCovered ==
    ASSUME Sound, [Next]_vars, \A o \in Orders : CopiedAs(o) => CopiedAs(o)',
           NEW t \in Int, NEW but, Covered(t, but)
    PROVE  t <= clock' /\ \A o \in Orders : FinishedBy(o, t)' => CopiedAs(o)' \/ o \in but
<1>1. t <= clock' /\ t <= clock
  BY FinishedStays DEF Covered
<1>2. ASSUME NEW o \in Orders, FinishedBy(o, t)' PROVE FinishedBy(o, t)
  <2>1. Complete(o)' /\ order'[o].done < t
    BY <1>2 DEF FinishedBy, InReach, Complete
  <2>2. order'[o] = order[o]
    BY <1>1, <2>1, FinishedStays
  <2> QED
    BY <1>2, <2>2 DEF FinishedBy, InReach, Placed
<1> QED
  BY <1>1, <1>2 DEF Covered

LEMMA SeenAre == Sound => /\ run \in Run /\ run.seen \in Account /\ run.now \in Int
                          /\ run.seen.syncedAt \in Int \cup {NULL}
                          /\ account # NULL => account.syncedAt \in Int \cup {NULL}
BY TimeIs DEF Sound, TypeOK, Run, Account

\* Nothing is read or written that was copied: accounts and runs go on as they were, or end.
LEMMA FollowingStays ==
    ASSUME Sound, Following, [Next]_vars, \A o \in Orders : CopiedAs(o) => CopiedAs(o)',
           account' # NULL /\ account'.syncedAt # NULL =>
              account # NULL /\ account'.syncedAt = account.syncedAt,
           \/ run'.pc = "idle"
           \/ /\ run'.pc = run.pc /\ run'.now = run.now
              /\ run.pc \in {"copy", "upsert"} =>
                    /\ run'.seen = run.seen /\ run'.todo = run.todo
                    /\ run'.order = run.order /\ run'.done = run.done
    PROVE  Following'
<1>1. Follows(account)'
  BY SeenAre, StaysCovered DEF Following, Follows, Covered, FinishedBy, InReach, Placed, CopiedAs
<1>2. CASE run'.pc = "idle"
  BY <1>1, <1>2 DEF Following, RunFollows, At
<1>3. CASE run'.pc = run.pc /\ run.pc \in {"copy", "upsert"} /\ run'.now = run.now /\ run'.seen = run.seen
           /\ run'.todo = run.todo /\ run'.order = run.order /\ run'.done = run.done
  <2>1. Follows(run.seen)'
    BY <1>3, SeenAre, StaysCovered, RecordsAssumption DEF Following, RunFollows, Follows, Covered, FinishedBy, InReach, Placed, CopiedAs
  <2>2. Covered(run.now, run.todo)'
    BY <1>3, SeenAre, StaysCovered DEF Following, RunFollows, Covered, FinishedBy, InReach, Placed, CopiedAs
  <2>3. ASSUME At("upsert"), FinishedBy(run.order, run.now)' PROVE run.done
    <3>1. run.order \in Orders /\ run.now <= clock
      BY <1>3, <2>3 DEF Sound, RunKnows, TypeOK, Run, Following, RunFollows, Covered
    <3>2. Complete(run.order)' /\ order'[run.order].done < run.now
      BY <1>3, <2>3 DEF FinishedBy, InReach, Complete, Placed
    <3>3. order'[run.order] = order[run.order]
      <4>1. run.now \in Int
        BY SeenAre
      <4> QED
        BY <1>3, <3>1, <3>2, <4>1, FinishedStays DEF Complete, Placed
    <3> QED
      BY <1>3, <2>3, <3>3 DEF FinishedBy, InReach, Placed, Following, RunFollows
  <2> QED
    BY <1>1, <1>3, <2>1, <2>2, <2>3 DEF Following, RunFollows, At
<1>4. CASE run'.pc = run.pc /\ run.pc \notin {"copy", "upsert"} /\ run'.now = run.now
  BY <1>1, <1>4, SeenAre, StaysCovered DEF Following, RunFollows, Covered, At, FinishedBy, InReach, Placed, CopiedAs
<1> QED
  BY <1>2, <1>3, <1>4

\* What a copy does not reach back to was complete by the copy before.
LEMMA ReachesBack ==
    ASSUME Sound, NEW seen \in Account, Follows(seen), NEW now \in Int, NEW o \in Orders, FinishedBy(o, now)
    PROVE  \/ CopiedAs(o)
           \/ CopyStart(seen) <= order[o].placed /\ order[o].placed <= now
<1>1. order[o].placed \in Nat /\ order[o].done \in Int /\ order[o].placed <= order[o].done
  BY OrdersAre, TimeIs DEF FinishedBy, InReach, Order, Time, Sound, InOrder, Complete
<1>2. order[o].done < now /\ order[o].done - order[o].placed <= Behind /\ Behind \in Nat
  BY RecordsAssumption DEF FinishedBy, InReach
<1>3. CASE seen.syncedAt = NULL
  BY <1>1, <1>2, <1>3 DEF CopyStart
<1>4. CASE seen.syncedAt # NULL
  <2>1. seen.syncedAt \in Int /\ seen # NULL
    BY <1>4, TimeIs, RecordsAssumption DEF Account
  <2>2. CASE order[o].done < seen.syncedAt
    BY <1>4, <2>1, <2>2 DEF Follows, Covered, FinishedBy
  <2>3. CASE ~(order[o].done < seen.syncedAt)
    BY <1>1, <1>2, <1>4, <2>1, <2>3 DEF CopyStart
  <2> QED
    BY <2>2, <2>3
<1> QED
  BY <1>3, <1>4

LEMMA CopyStays == UNCHANGED <<p2p, spoilt>> => \A o \in Orders : CopiedAs(o) => CopiedAs(o)'
BY DEF CopiedAs

LEMMA ExchangeFollowing ==
    Sound /\ Following /\ (Tick \/ \E o \in Orders : PlaceOrder(o) \/ CompleteOrder(o)) => Following'
<1> SUFFICES ASSUME Sound, Following, Tick \/ \E o \in Orders : PlaceOrder(o) \/ CompleteOrder(o) PROVE Following'
  OBVIOUS
<1>1. UNCHANGED <<account, p2p, run, spoilt>>
  BY DEF Tick, PlaceOrder, CompleteOrder, tables, history
<1>2. [Next]_vars
  BY DEF Next
<1> QED
  BY <1>1, <1>2, CopyStays, FollowingStays

LEMMA UserFollowing == Sound /\ Following /\ User => Following'
<1> SUFFICES ASSUME Sound, Following, User PROVE Following'
  OBVIOUS
<1>1. [Next]_vars
  BY DEF Next
<1>2. CASE Connect
  <2>1. account' = NoAccount /\ UNCHANGED <<p2p, run, spoilt>> /\ NoAccount.syncedAt = NULL
    BY <1>2 DEF Connect, history, NoAccount
  <2> QED
    BY <1>1, <2>1, CopyStays, FollowingStays
<1>3. CASE Disconnect
  <2>1. \A o \in Orders : CopiedAs(o) => CopiedAs(o)'
    <3>1. \A o \in Orders : p2p[o] # NULL => p2p[o] \in Copy /\ [p2p[o] EXCEPT !.mine = FALSE] \in Copy
      BY DEF Sound, TypeOK, Copy
    <3>2. \A o \in Orders : p2p[o] # NULL => p2p'[o] # NULL /\ (p2p[o].done => p2p'[o].done)
      BY <1>3, <3>1, RecordsAssumption DEF Disconnect, Copy
    <3> QED
      BY <1>3, <3>2 DEF Disconnect, CopiedAs
  <2>2. account' = NULL
    BY <1>3 DEF Disconnect
  <2>3. \/ run'.pc = "idle"
        \/ /\ run'.pc = run.pc /\ run'.now = run.now /\ run'.seen = run.seen
           /\ run'.todo = run.todo /\ run'.order = run.order /\ run'.done = run.done
    BY <1>3 DEF Disconnect, At, Sound, TypeOK, Run
  <2> QED
    BY <1>1, <2>1, <2>2, <2>3, FollowingStays
<1>4. CASE RemoveVenue
  <2>1. UNCHANGED <<account, p2p, spoilt>> /\ (run' = run \/ run'.pc = "idle")
    BY <1>4 DEF RemoveVenue, history, Idle
  <2> QED
    BY <1>1, <2>1, CopyStays, FollowingStays
<1>5. ASSUME NEW on \in BOOLEAN, SwitchAutoRecord(on) PROVE Following'
  <2>1. UNCHANGED <<p2p, run, spoilt>> /\ account # NULL /\ account \in Account
    BY <1>5 DEF SwitchAutoRecord, Sound, TypeOK
  <2>2. account'.syncedAt = account.syncedAt
    BY <1>5, <2>1 DEF SwitchAutoRecord, Account
  <2> QED
    BY <1>1, <2>1, <2>2, CopyStays, FollowingStays
<1>6. CASE UNCHANGED <<account, p2p, run, spoilt>>
  BY <1>1, <1>6, CopyStays, FollowingStays
<1>7. \/ Connect \/ Disconnect \/ RemoveVenue \/ UNCHANGED <<account, p2p, run, spoilt>>
      \/ \E on \in BOOLEAN : SwitchAutoRecord(on)
  BY DEF User, CreateManual, AddAdjustment, RemoveAdjustment, CountRecords, RecordByHand, RemoveRecord, tables, history
<1> QED
  BY <1>2, <1>3, <1>4, <1>5, <1>6, <1>7

LEMMA RunFollowing == Sound /\ Following /\ (SyncIfDue \/ RefreshForTab \/ Proceed \/ Fail) => Following'
<1> SUFFICES ASSUME Sound, Following, SyncIfDue \/ RefreshForTab \/ Proceed \/ Fail PROVE Following'
  OBVIOUS
<1>1. [Next]_vars
  BY DEF Next
<1>2. clock \in Int /\ run \in Run
  BY SeenAre, TimeIs DEF Sound, TypeOK
<1>3. CASE SyncIfDue \/ RefreshForTab
  <2>1. run' = Copying /\ Copying.pc = "copy" /\ Copying.seen = account /\ Copying.now = clock /\ Copying.todo = Orders
    BY <1>3 DEF SyncIfDue, RefreshForTab, Start, Copying, Idle
  <2>2. UNCHANGED <<clock, order, account, p2p, spoilt>>
    BY <1>3 DEF SyncIfDue, RefreshForTab, Start, tables, history
  <2> QED
    BY <1>2, <2>1, <2>2 DEF Following, RunFollows, Follows, Covered, At, FinishedBy, InReach, Placed, CopiedAs
<1>4. CASE Refused \/ Fail
  <2>1. UNCHANGED <<account, p2p, spoilt>> /\ run'.pc = "idle"
    BY <1>4 DEF Refused, Fail, tables, history, Idle
  <2> QED
    BY <1>1, <2>1, CopyStays, FollowingStays
<1>5. ASSUME NEW o \in Orders, FetchOrder(o) PROVE Following'
  <2> DEFINE d == order[o].done # NULL
             q == [run EXCEPT !.pc = "upsert", !.order = o, !.done = d]
  <2> HIDE DEF d
  <2>1. q.pc = "upsert" /\ q.order = o /\ q.done = d /\ q.seen = run.seen /\ q.now = run.now /\ q.todo = run.todo
    BY <1>2 DEF Run
  <2>2. run' = q /\ At("copy") /\ UNCHANGED <<clock, order, account, p2p, spoilt>>
    BY <1>5 DEF FetchOrder, tables, history, d
  <2>3. FinishedBy(o, run.now) => d
    BY DEF FinishedBy, InReach, d
  <2> HIDE DEF q
  <2> QED
    BY <2>1, <2>2, <2>3 DEF Following, RunFollows, Follows, Covered, At, FinishedBy, InReach, Placed, CopiedAs
<1>6. CASE UpsertOrder
  <2>1. PICK o \in Orders : o = run.order /\ At("upsert")
    BY <1>6, <1>2 DEF UpsertOrder, Sound, RunKnows, Run
  <2> DEFINE q == [run EXCEPT !.pc = "copy", !.todo = @ \ {o}, !.order = NULL, !.done = FALSE]
             c == [done |-> run.done, mine |-> TRUE]
  <2>2. q.pc = "copy" /\ q.seen = run.seen /\ q.now = run.now /\ q.todo = run.todo \ {o} /\ run' = q
    BY <1>6, <1>2, <2>1 DEF UpsertOrder, Run, At
  <2>3. c \in Copy /\ c.done = run.done /\ c # NULL /\ p2p' = [p2p EXCEPT ![o] = c]
    <3>1. run.done \in BOOLEAN /\ p2p' = [p2p EXCEPT ![o] = c]
      BY <1>6, <1>2, <2>1 DEF UpsertOrder, Run
    <3>2. c \in Copy
      BY <3>1 DEF Copy
    <3>3. c.done = run.done
      OBVIOUS
    <3> QED
      BY <3>1, <3>2, <3>3, RecordsAssumption
  <2> HIDE DEF q, c
  <2>4. p2p'[o] = c /\ \A x \in Orders : x # o => p2p'[x] = p2p[x]
    BY <2>1, <2>3 DEF Sound, TypeOK
  <2>5. /\ UNCHANGED <<clock, order, account>> /\ spoilt \subseteq spoilt'
        /\ p2p[o] # NULL /\ p2p[o].done /\ ~run.done => o \in spoilt'
    BY <1>6, <2>1 DEF UpsertOrder
  <2>6. \A x \in Orders : CopiedAs(x) => CopiedAs(x)'
    BY <2>3, <2>4, <2>5 DEF CopiedAs
  <2>7. Follows(account)'
    BY <1>1, <2>5, <2>6, SeenAre, StaysCovered DEF Following, Follows, Covered, FinishedBy, InReach, Placed, CopiedAs
  <2>8. Follows(run.seen)'
    <3>1. Follows(run.seen)
      BY <2>1 DEF Following, RunFollows, At
    <3> QED
      BY <1>1, <2>2, <2>6, <3>1, SeenAre, StaysCovered, RecordsAssumption
         DEF Follows, Covered, FinishedBy, InReach, Placed, CopiedAs
  <2>9. Covered(run.now, run.todo)'
    <3>1. Covered(run.now, run.todo) /\ (FinishedBy(o, run.now) => run.done)
      BY <2>1 DEF Following, RunFollows, At
    <3>2. FinishedBy(o, run.now) => CopiedAs(o)'
      BY <2>3, <2>4, <3>1 DEF CopiedAs
    <3> QED
      BY <2>2, <2>5, <2>6, <3>1, <3>2 DEF Covered, FinishedBy, InReach, Placed
  <2> QED
    BY <2>2, <2>7, <2>8, <2>9 DEF Following, RunFollows, At
<1>7. CASE AutoRecord
  <2>1. run'.pc = "record" /\ run'.now = run.now
    BY <1>7 DEF AutoRecord, Recording, Idle
  <2>2. UNCHANGED <<clock, order, account, p2p, spoilt>> /\ At("copy") /\ InWindow(run) = {}
    BY <1>7 DEF AutoRecord, tables, history
  <2>3. ASSUME NEW o \in Orders, FinishedBy(o, run.now) PROVE CopiedAs(o)
    <3>1. Follows(run.seen) /\ (CopiedAs(o) \/ o \in run.todo) /\ Placed(o)
      BY <2>2, <2>3 DEF Following, RunFollows, Covered, At, FinishedBy
    <3>2. CopiedAs(o) \/ (CopyStart(run.seen) <= order[o].placed /\ order[o].placed <= run.now)
      BY <2>3, <3>1, SeenAre, ReachesBack
    <3> QED
      BY <2>2, <3>1, <3>2 DEF InWindow, Placed
  <2>4. Covered(run.now, {})
    BY <2>2, <2>3 DEF Following, RunFollows, Covered, At
  <2> QED
    BY <2>1, <2>2, <2>4 DEF Following, RunFollows, Follows, Covered, At, FinishedBy, InReach, Placed, CopiedAs
<1>8. CASE OrdersCopied
  <2>1. account \in Account /\ At("record") /\ run'.pc = "idle"
    BY <1>8 DEF OrdersCopied, Sound, RunKnows, At, TypeOK, Idle
  <2>2. account'.syncedAt = run.now /\ UNCHANGED <<clock, order, p2p, spoilt>>
    BY <1>8, <2>1 DEF OrdersCopied, CopiedAt, history, Account
  <2> QED
    BY <2>1, <2>2 DEF Following, RunFollows, Follows, Covered, At, FinishedBy, InReach, Placed, CopiedAs
<1>9. ASSUME NEW o \in Orders, RecordOrder(o) PROVE Following'
  <2>1. /\ UNCHANGED <<account, p2p>> /\ spoilt \subseteq spoilt' /\ At("record")
        /\ run'.pc = run.pc /\ run'.now = run.now
    BY <1>2, <1>9 DEF RecordOrder, Run
  <2>2. \A x \in Orders : CopiedAs(x) => CopiedAs(x)'
    BY <2>1 DEF CopiedAs
  <2> QED
    BY <1>1, <2>1, <2>2, FollowingStays DEF At
<1> QED
  BY <1>3, <1>4, <1>5, <1>6, <1>7, <1>8, <1>9 DEF Proceed

LEMMA BesideFollowing == Sound /\ Following /\ CopyBeside => Following'
<1> SUFFICES ASSUME Sound, Following, CopyBeside PROVE Following'
  OBVIOUS
<1>1. [Next]_vars
  BY DEF Next
<1>2. clock \in Int /\ account \in Account /\ account # NULL
  BY TimeIs DEF Sound, TypeOK, CopyBeside
<1>3. /\ account'.syncedAt = clock /\ UNCHANGED <<clock, order, run, spoilt>>
      /\ p2p' = [o \in Orders |-> IF o \notin InWindow(Copying) THEN p2p[o]
                                  ELSE [done |-> order[o].done # NULL, mine |-> TRUE]]
  BY <1>2 DEF CopyBeside, history, Account
<1>4. \A o \in InWindow(Copying) : Complete(o) => CopiedAs(o)'
  <2> SUFFICES ASSUME NEW o \in InWindow(Copying), Complete(o) PROVE CopiedAs(o)'
    OBVIOUS
  <2> DEFINE d == order[o].done # NULL
             c == [done |-> d, mine |-> TRUE]
  <2>1. o \in Orders /\ p2p'[o] = c
    BY <1>3 DEF InWindow, Copying, Idle
  <2>2. d
    BY DEF Complete
  <2> HIDE DEF d
  <2>3. c \in Copy /\ c.done
    BY <2>2 DEF Copy
  <2> HIDE DEF c
  <2> QED
    BY <2>1, <2>3, RecordsAssumption DEF CopiedAs
<1>5. \A o \in Orders : CopiedAs(o) => CopiedAs(o)'
  BY <1>3, <1>4 DEF CopiedAs, Sound, CopiesWhatIs
<1>6. ASSUME NEW o \in Orders, FinishedBy(o, clock) PROVE CopiedAs(o)'
  <2>1. CopiedAs(o) \/ (CopyStart(account) <= order[o].placed /\ order[o].placed <= clock)
    BY <1>2, <1>6, ReachesBack DEF Following
  <2>2. Complete(o)
    BY <1>6 DEF FinishedBy, InReach, Complete
  <2>3. o \in InWindow(Copying) \/ CopiedAs(o)
    BY <2>1, <2>2 DEF InWindow, Copying, Idle, Complete, Placed
  <2> QED
    BY <1>4, <1>5, <2>2, <2>3
<1>7. Follows(account)'
  BY <1>2, <1>3, <1>6 DEF Follows, Covered, FinishedBy, InReach, Placed
<1>8. RunFollows'
  <2>1. run.pc \in {"copy", "upsert"} => Follows(run.seen)'
    BY <1>1, <1>3, <1>5, SeenAre, StaysCovered, RecordsAssumption
       DEF Following, RunFollows, Follows, Covered, FinishedBy, InReach, Placed, CopiedAs
  <2> QED
    BY <1>3, <1>5, <2>1 DEF Following, RunFollows, Covered, At, FinishedBy, InReach, Placed
<1> QED
  BY <1>7, <1>8 DEF Following

LEMMA NextFollowing == Sound /\ Following /\ [Next]_vars => Following'
<1>1. Sound /\ Following /\ UNCHANGED vars => Following'
  BY DEF vars, tables, history, Following, RunFollows, Follows, Covered, At, FinishedBy, InReach, Placed, CopiedAs
<1> QED
  BY <1>1, ExchangeFollowing, UserFollowing, RunFollowing, BesideFollowing DEF Next

\* An order that completed before the last copy began, soon enough after it was placed, is
\* complete in the copy, whatever failed or was interrupted, unless an overlapping run wrote the
\* status it had read earlier (refreshP2pOrders, investing-p2p.service.ts:104-151).
THEOREM CopyIsFollowed == Spec => []CopyFollows
<1>1. Spec => [](Sound /\ Following)
  <2>1. Init => Sound /\ Following
    BY InitSound, InitFollowing
  <2>2. Sound /\ Following /\ [Next]_vars => (Sound /\ Following)'
    BY NextSound, NextFollowing
  <2> QED
    BY <2>1, <2>2, PTL DEF Spec
<1>2. Sound /\ Following => CopyFollows
  BY DEF Following, Follows, Covered, FinishedBy, Placed, CopiedAs, CopyFollows
<1> QED
  BY <1>1, <1>2, PTL

(***************************************************************************)
(* The records.  Venues of former accounts have only orders placed before  *)
(* automatic recording was switched on for the account there is now.       *)
(***************************************************************************)

OneLive ==
    /\ \A v, w \in LiveVenues : v = w
    /\ account = NULL => LiveVenues = {}
    /\ removing # NULL => removing \in Venues /\ Present(removing) /\ removing \notin LiveVenues

\* Whatever was placed since is on no former venue.
Since(from) ==
    from # NULL =>
        \A w \in Venues \ LiveVenues, o \in Orders :
            Recorded(w, o) /\ order[o].placed >= from => o \in spoilt

RunRecords ==
    /\ run.pc \in {"copy", "upsert"} /\ ~run.gone => Since(run.seen.autoFrom)
    /\ At("record") /\ run.todo # {} =>
          \/ run.gone
          \/ /\ run.venue \in LiveVenues
             /\ \A w \in Venues \ LiveVenues, o \in run.todo : Recorded(w, o) => o \in spoilt

AccountRecords == account # NULL => Since(account.autoFrom)

Recordings == OrderRecordedOnce /\ OneLive /\ RunRecords /\ AccountRecords

LEMMA InitRecordings == Init => Recordings
BY DEF Init, Recordings, OrderRecordedOnce, OneLive, RunRecords, AccountRecords, Recorded, LiveVenues, Present, At, Idle

\* Nothing is recorded that was not, on venues that stay live or former.
LEMMA RecordsStay ==
    ASSUME Sound, Recordings, [Next]_vars,
           LiveVenues' = LiveVenues, spoilt \subseteq spoilt',
           \A w \in Venues, o \in Orders : Recorded(w, o)' => Recorded(w, o)
    PROVE  /\ OrderRecordedOnce'
           /\ \A from \in Time \cup {NULL} : Since(from) => Since(from)'
           /\ \A w \in Venues \ LiveVenues, o \in Orders :
                 (Recorded(w, o) => o \in spoilt) => (Recorded(w, o)' => o \in spoilt')
<1>1. OrderRecordedOnce'
  BY DEF Recordings, OrderRecordedOnce
<1>2. ASSUME NEW from \in Time \cup {NULL}, Since(from) PROVE Since(from)'
  <2> SUFFICES ASSUME from # NULL, NEW w \in Venues \ LiveVenues, NEW o \in Orders,
                      Recorded(w, o)', order'[o].placed >= from
               PROVE  o \in spoilt'
    BY DEF Since
  <2>1. Recorded(w, o) /\ Placed(o)
    BY DEF Sound, CopiesWhatIs
  <2>2. order'[o].placed = order[o].placed
    BY <2>1, FinishedStays
  <2> QED
    BY <1>2, <2>1, <2>2 DEF Since
<1> QED
  BY <1>1, <1>2

LEMMA RecordingsStay ==
    ASSUME Sound, Recordings, [Next]_vars,
           LiveVenues' = LiveVenues, spoilt \subseteq spoilt',
           \A w \in Venues, o \in Orders : Recorded(w, o)' => Recorded(w, o),
           account = NULL <=> account' = NULL,
           account # NULL => account'.autoFrom = account.autoFrom,
           removing' # NULL => removing' = removing /\ Present(removing)',
           \/ run'.pc = "idle"
           \/ /\ run'.pc = run.pc /\ run'.gone = run.gone /\ run'.seen = run.seen
              /\ run'.venue = run.venue /\ run'.todo = run.todo
           \/ run.pc \in {"copy", "upsert"} /\ run'.pc \in {"copy", "upsert"}
              /\ run'.gone = run.gone /\ run'.seen = run.seen
    PROVE  Recordings'
<1>1. account # NULL => account.autoFrom \in Time \cup {NULL}
  BY DEF Sound, TypeOK, Account
<1>2. run.seen.autoFrom \in Time \cup {NULL}
  BY DEF Sound, TypeOK, Run, Account
<1>3. OneLive'
  BY DEF Recordings, OneLive
<1>4. AccountRecords'
  BY <1>1, RecordsStay DEF Recordings, AccountRecords, Since, Recorded
<1>5. RunRecords'
  <2>1. CASE run'.pc = "idle"
    BY <2>1 DEF RunRecords, At
  <2>2. CASE /\ run'.pc \in {"copy", "upsert"} /\ run.pc \in {"copy", "upsert"}
             /\ run'.gone = run.gone /\ run'.seen = run.seen
    BY <1>2, <2>2, RecordsStay DEF Recordings, RunRecords, At, Since, Recorded
  <2>3. CASE /\ run'.pc = run.pc /\ run'.gone = run.gone /\ run'.venue = run.venue /\ run'.todo = run.todo
             /\ run.pc \notin {"copy", "upsert"}
    <3> SUFFICES ASSUME At("record"), run.todo # {}, ~run.gone
                 PROVE  /\ run.venue \in LiveVenues
                        /\ \A w \in Venues \ LiveVenues, o \in run.todo : Recorded(w, o)' => o \in spoilt'
      BY <2>3 DEF RunRecords, At
    <3>1. run.todo \subseteq Orders
      BY DEF Sound, TypeOK, Run
    <3> QED
      BY <2>3, <3>1, RecordsStay DEF Recordings, RunRecords
  <2> QED
    BY <2>1, <2>2, <2>3
<1> QED
  BY <1>3, <1>4, <1>5, RecordsStay DEF Recordings

LEMMA ExchangeRecordings ==
    Sound /\ Recordings /\ (Tick \/ \E o \in Orders : PlaceOrder(o) \/ CompleteOrder(o)) => Recordings'
<1> SUFFICES ASSUME Sound, Recordings, Tick \/ \E o \in Orders : PlaceOrder(o) \/ CompleteOrder(o) PROVE Recordings'
  OBVIOUS
<1>1. UNCHANGED <<account, venue, transfer, run, removing, spoilt>>
  BY DEF Tick, PlaceOrder, CompleteOrder, tables, history
<1>2. [Next]_vars
  BY DEF Next
<1>3. LiveVenues' = LiveVenues /\ \A w \in Venues, o \in Orders : Recorded(w, o)' => Recorded(w, o)
  BY <1>1 DEF LiveVenues, Present, Recorded
<1>4. removing' # NULL => removing' = removing /\ Present(removing)'
  BY <1>1 DEF Present, Recordings, OneLive
<1> QED
  BY <1>1, <1>2, <1>3, <1>4, RecordingsStay

LEMMA UserRecordings == Sound /\ Recordings /\ User => Recordings'
<1> SUFFICES ASSUME Sound, Recordings, User PROVE Recordings'
  OBVIOUS
<1>1. [Next]_vars
  BY DEF Next
<1>2. CASE Connect
  <2>1. PICK v \in Venues : ~Present(v) /\ venue' = [venue EXCEPT ![v] = [connected |-> TRUE, live |-> TRUE]]
    BY <1>2 DEF Connect
  <2>2. account = NULL /\ account' = NoAccount /\ UNCHANGED <<order, transfer, run, removing, spoilt>>
    BY <1>2 DEF Connect, history
  <2>3. LiveVenues' \subseteq {v} /\ \A w \in Venues : w # v => venue'[w] = venue[w]
    BY <2>1, <2>2 DEF Sound, TypeOK, LiveVenues, Present, Recordings, OneLive
  <2>4. NoAccount.autoFrom = NULL
    BY DEF NoAccount
  <2>5. OneLive'
    BY <2>1, <2>2, <2>3, IdleIsRun DEF Recordings, OneLive, Present
  <2>6. run.pc = "idle" \/ run.gone
    BY <2>2 DEF Sound, RunKnows, At
  <2> QED
    BY <2>2, <2>4, <2>5, <2>6 DEF Recordings, OrderRecordedOnce, AccountRecords, RunRecords, Since, Recorded, At
<1>3. CASE Disconnect
  <2>1. account' = NULL /\ UNCHANGED <<order, transfer, removing, spoilt>> /\ (run'.gone \/ run'.pc = "idle")
    BY <1>3 DEF Disconnect, Sound, TypeOK, Run, At
  <2>2. \A v \in LiveVenues : ~[venue[v] EXCEPT !.connected = FALSE].connected
    BY VenuesAre DEF LiveVenues, Sound, Venue
  <2>3. LiveVenues' = {} /\ \A v \in Venues : Present(v) => Present(v)'
    <3>1. \A v \in Venues : venue'[v] = IF v \in LiveVenues THEN [venue[v] EXCEPT !.connected = FALSE] ELSE venue[v]
      BY <1>3 DEF Disconnect
    <3>2. \A v \in LiveVenues : [venue[v] EXCEPT !.connected = FALSE] \in Venue
      BY VenuesAre DEF LiveVenues, Sound, Venue
    <3> QED
      BY <2>2, <3>1, <3>2, RecordsAssumption DEF LiveVenues, Present
  <2>4. OneLive'
    BY <2>1, <2>3 DEF Recordings, OneLive
  <2> QED
    BY <2>1, <2>4 DEF Recordings, OrderRecordedOnce, AccountRecords, RunRecords, Recorded, At
<1>4. CASE RemoveVenue
  <2>1. UNCHANGED <<account, spoilt>> /\ (run' = run \/ run'.pc = "idle") /\ removing' = NULL
    BY <1>4 DEF RemoveVenue, history, Idle
  <2>2. LiveVenues' = LiveVenues
    BY <1>4 DEF RemoveVenue, LiveVenues, Present, Recordings, OneLive, Sound, TypeOK
  <2>3. \A w \in Venues, o \in Orders : Recorded(w, o)' => Recorded(w, o)
    BY <1>4 DEF RemoveVenue, Cascaded, Recorded
  <2> QED
    BY <1>1, <2>1, <2>2, <2>3, RecordingsStay
<1>5. ASSUME NEW on \in BOOLEAN, SwitchAutoRecord(on) PROVE Recordings'
  <2>1. UNCHANGED <<order, venue, transfer, run, removing, spoilt>> /\ account # NULL /\ account \in Account
    BY <1>5 DEF SwitchAutoRecord, Sound, TypeOK
  <2>2. account' = [account EXCEPT !.autoFrom = AutoFrom(account.autoFrom, on, clock')] /\ account' # NULL
    <3>1. Sound' /\ account' = [account EXCEPT !.autoFrom = AutoFrom(account.autoFrom, on, clock')]
      BY <1>1, <1>5, NextSound DEF SwitchAutoRecord
    <3>2. AutoFrom(account.autoFrom, on, clock') \in Time \cup {NULL}
      BY <2>1, <3>1 DEF Sound, TypeOK, Account, AutoFrom
    <3>3. account' \in Account
      BY <2>1, <3>1, <3>2 DEF Account
    <3> QED
      BY <3>1, <3>3, RecordsAssumption
  <2>3. account'.autoFrom = AutoFrom(account.autoFrom, on, clock')
    BY <2>1, <2>2 DEF Account
  <2>4. Since(account.autoFrom)
    BY <2>1 DEF Recordings, AccountRecords
  <2>5. CASE account'.autoFrom = account.autoFrom \/ account'.autoFrom = NULL
    BY <2>1, <2>2, <2>4, <2>5
       DEF Recordings, OneLive, OrderRecordedOnce, AccountRecords, RunRecords, Since, Recorded, LiveVenues, Present, At
  <2>6. CASE ~(account'.autoFrom = account.autoFrom \/ account'.autoFrom = NULL)
    <3>1. account'.autoFrom = clock + 1
      BY <1>5, <2>1, <2>3, <2>6 DEF SwitchAutoRecord, AutoFrom, AutoOn
    <3>2. \A w \in Venues, o \in Orders : Recorded(w, o) => ~(order[o].placed >= clock + 1)
      <4> SUFFICES ASSUME NEW w \in Venues, NEW o \in Orders, Recorded(w, o) PROVE ~(order[o].placed >= clock + 1)
        OBVIOUS
      <4>1. Placed(o) /\ order[o].placed <= clock
        BY DEF Sound, CopiesWhatIs, InOrder
      <4>2. order[o].placed \in Int /\ clock \in Int
        BY <4>1, OrdersAre, TimeIs DEF Sound, Order, TypeOK
      <4> QED
        BY <4>1, <4>2
    <3>3. AccountRecords'
      BY <2>1, <3>1, <3>2 DEF AccountRecords, Since, Recorded
    <3> QED
      BY <2>1, <2>2, <3>3
         DEF Recordings, OneLive, OrderRecordedOnce, RunRecords, Since, Recorded, LiveVenues, Present, At
  <2> QED
    BY <2>5, <2>6
<1>6. ASSUME NEW v \in Venues, CreateManual(v) PROVE Recordings'
  <2>1. UNCHANGED <<account, transfer, run, removing, spoilt>>
    BY <1>6 DEF CreateManual, history
  <2>2. LiveVenues' = LiveVenues /\ \A w \in Venues : Present(w) => Present(w)'
    BY <1>6, RecordsAssumption DEF CreateManual, LiveVenues, Present, Sound, TypeOK, Venue
  <2>3. \A w \in Venues, o \in Orders : Recorded(w, o)' => Recorded(w, o)
    BY <2>1 DEF Recorded
  <2>4. removing' # NULL => removing' = removing /\ Present(removing)'
    BY <2>1, <2>2 DEF Recordings, OneLive
  <2> QED
    BY <1>1, <2>1, <2>2, <2>3, <2>4, RecordingsStay
<1>7. ASSUME NEW v \in Venues, AddAdjustment(v) \/ RemoveAdjustment(v) PROVE Recordings'
  <2>1. UNCHANGED <<account, venue, transfer, run, removing, spoilt>>
    BY <1>7 DEF AddAdjustment, RemoveAdjustment, history
  <2>2. LiveVenues' = LiveVenues /\ \A w \in Venues, o \in Orders : Recorded(w, o)' => Recorded(w, o)
    BY <2>1 DEF LiveVenues, Present, Recorded
  <2>3. removing' # NULL => removing' = removing /\ Present(removing)'
    BY <2>1 DEF Present, Recordings, OneLive
  <2> QED
    BY <1>1, <2>1, <2>2, <2>3, RecordingsStay
<1>8. ASSUME NEW v \in Venues, CountRecords(v) PROVE Recordings'
  BY <1>8 DEF CountRecords, Removable, tables, history, Recordings, OneLive, OrderRecordedOnce, AccountRecords,
              RunRecords, Since, Recorded, LiveVenues, Present, At
<1>9. ASSUME NEW v \in Venues, NEW o \in Orders, RecordByHand(v, o) PROVE Recordings'
  <2>1. /\ v \in LiveVenues /\ \A w \in Venues : ~Recorded(w, o)
        /\ transfer' = [transfer EXCEPT ![<<v, o>>] = "hand"]
        /\ UNCHANGED <<order, account, venue, run, removing, spoilt>>
    BY <1>9 DEF RecordByHand, history
  <2>2. \A w \in Venues, x \in Orders : <<w, x>> # <<v, o>> => transfer'[<<w, x>>] = transfer[<<w, x>>]
    BY <2>1 DEF Sound, TypeOK
  <2>3. \A w \in Venues, x \in Orders : Recorded(w, x)' => Recorded(w, x) \/ (w = v /\ x = o)
    BY <2>2 DEF Recorded
  <2>4. OrderRecordedOnce'
    BY <2>1, <2>3 DEF Recordings, OrderRecordedOnce
  <2>5. LiveVenues' = LiveVenues /\ OneLive'
    BY <2>1 DEF Recordings, OneLive, LiveVenues, Present
  <2>6. \A w \in Venues \ LiveVenues, x \in Orders : transfer'[<<w, x>>] # NULL => transfer[<<w, x>>] # NULL
    BY <2>1, <2>2
  <2>7. AccountRecords'
    BY <2>1, <2>5, <2>6 DEF Recordings, AccountRecords, Since, Recorded
  <2>8. RunRecords'
    <3>1. run.todo \subseteq Orders
      BY DEF Sound, TypeOK, Run
    <3> QED
      BY <2>1, <2>5, <2>6, <3>1 DEF Recordings, RunRecords, Since, Recorded, At
  <2> QED
    BY <2>4, <2>5, <2>7, <2>8 DEF Recordings
<1>10. ASSUME NEW v \in Venues, NEW o \in Orders, RemoveRecord(v, o) PROVE Recordings'
  <2>1. UNCHANGED <<account, venue, run, removing, spoilt>> /\ transfer' = [transfer EXCEPT ![<<v, o>>] = NULL]
    BY <1>10 DEF RemoveRecord, history
  <2>2. LiveVenues' = LiveVenues
    BY <2>1 DEF LiveVenues, Present
  <2>3. \A w \in Venues, x \in Orders : Recorded(w, x)' => Recorded(w, x)
    BY <2>1 DEF Recorded, Sound, TypeOK
  <2>4. removing' # NULL => removing' = removing /\ Present(removing)'
    BY <2>1 DEF Present, Recordings, OneLive
  <2> QED
    BY <1>1, <2>1, <2>2, <2>3, <2>4, RecordingsStay
<1> QED
  BY <1>2, <1>3, <1>4, <1>5, <1>6, <1>7, <1>8, <1>9, <1>10 DEF User

LEMMA RunRecordings == Sound /\ Recordings /\ (SyncIfDue \/ RefreshForTab \/ Proceed \/ Fail) => Recordings'
<1> SUFFICES ASSUME Sound, Recordings, SyncIfDue \/ RefreshForTab \/ Proceed \/ Fail PROVE Recordings'
  OBVIOUS
<1>1. [Next]_vars
  BY DEF Next
<1>2. run \in Run
  BY SeenAre
<1>3. ASSUME UNCHANGED <<order, account, venue, transfer, removing, spoilt>>, RunRecords' PROVE Recordings'
  BY <1>3 DEF Recordings, OneLive, OrderRecordedOnce, AccountRecords, Since, Recorded, LiveVenues, Present
<1>4. CASE SyncIfDue \/ RefreshForTab
  <2>1. run' = Copying /\ Copying.pc = "copy" /\ Copying.seen = account /\ account # NULL
    BY <1>4 DEF SyncIfDue, RefreshForTab, Start, Copying, Idle
  <2>2. UNCHANGED <<order, account, venue, transfer, removing, spoilt>>
    BY <1>4 DEF SyncIfDue, RefreshForTab, Start, tables, history
  <2>3. RunRecords'
    BY <2>1, <2>2 DEF Recordings, AccountRecords, RunRecords, Since, Recorded, LiveVenues, Present, At
  <2> QED
    BY <1>3, <2>2, <2>3
<1>5. CASE Refused \/ Fail
  <2>1. UNCHANGED <<order, account, venue, transfer, removing, spoilt>> /\ run'.pc = "idle"
    BY <1>5 DEF Refused, Fail, tables, history, Idle
  <2> QED
    BY <1>3, <2>1 DEF RunRecords, At
<1>6. ASSUME NEW o \in Orders, FetchOrder(o) PROVE Recordings'
  <2>1. UNCHANGED <<order, account, venue, transfer, removing, spoilt>>
    BY <1>6 DEF FetchOrder, tables, history
  <2>2. run'.pc = "upsert" /\ run'.gone = run.gone /\ run'.seen = run.seen /\ run.pc = "copy"
    BY <1>2, <1>6 DEF FetchOrder, Run, At
  <2>3. RunRecords'
    BY <2>1, <2>2 DEF Recordings, RunRecords, Since, Recorded, LiveVenues, Present, At
  <2> QED
    BY <1>3, <2>1, <2>3
<1>7. CASE UpsertOrder
  <2>1. UNCHANGED <<account, venue, transfer, removing>> /\ spoilt \subseteq spoilt'
    BY <1>7 DEF UpsertOrder
  <2>2. run'.pc = "copy" /\ run'.gone = run.gone /\ run'.seen = run.seen /\ run.pc = "upsert"
    BY <1>2, <1>7 DEF UpsertOrder, Run, At
  <2>3. LiveVenues' = LiveVenues /\ \A w \in Venues, o \in Orders : Recorded(w, o)' => Recorded(w, o)
    BY <2>1 DEF LiveVenues, Present, Recorded
  <2>4. removing' # NULL => removing' = removing /\ Present(removing)'
    BY <2>1 DEF Present, Recordings, OneLive
  <2> QED
    BY <1>1, <2>1, <2>2, <2>3, <2>4, RecordingsStay
<1>8. CASE AutoRecord
  <2>1. UNCHANGED <<order, account, venue, transfer, removing, spoilt>> /\ At("copy")
    BY <1>8 DEF AutoRecord, tables, history
  <2>2. CASE run' = Recording(run, NULL, {})
    <3>1. run'.pc = "record" /\ run'.todo = {}
      BY <2>2 DEF Recording, Idle
    <3> QED
      BY <1>3, <2>1, <3>1 DEF RunRecords, At
  <2>3. ASSUME NEW v \in LiveVenues, ~run.gone, run.seen.autoFrom # NULL,
               run' = Recording(run, v, ToRecord(run.seen, p2p) \ Taken(v))
        PROVE  Recordings'
    <3>1. run'.pc = "record" /\ run'.venue = v /\ run'.todo \subseteq ToRecord(run.seen, p2p)
      BY <2>3 DEF Recording, Idle
    <3>2. Since(run.seen.autoFrom)
      BY <2>1, <2>3 DEF Recordings, RunRecords, At
    <3>3. \A w \in Venues \ LiveVenues, o \in run'.todo : Recorded(w, o) => o \in spoilt
      BY <2>3, <3>1, <3>2 DEF ToRecord, Since
    <3>4. RunRecords'
      BY <2>1, <3>1, <3>3 DEF RunRecords, At, LiveVenues, Present, Recorded
    <3> QED
      BY <1>3, <2>1, <3>4
  <2> QED
    BY <1>8, <2>2, <2>3 DEF AutoRecord
<1>9. CASE OrdersCopied
  <2>1. account \in Account /\ account # NULL
    BY <1>9 DEF OrdersCopied, Sound, RunKnows, At, TypeOK
  <2>2. account' # NULL
    <3>1. Sound' /\ account' = [account EXCEPT !.syncedAt = run.now]
      BY <1>9, RunSound DEF OrdersCopied, CopiedAt, Proceed
    <3>2. run.now \in Time
      BY <1>2 DEF Run
    <3>3. account' \in Account
      BY <2>1, <3>1, <3>2 DEF Account
    <3> QED
      BY <3>3, RecordsAssumption
  <2>3. account'.autoFrom = account.autoFrom /\ UNCHANGED <<venue, transfer, removing, spoilt>> /\ run'.pc = "idle"
    BY <1>9, <2>1 DEF OrdersCopied, CopiedAt, history, Account, Idle
  <2>4. LiveVenues' = LiveVenues /\ \A w \in Venues, o \in Orders : Recorded(w, o)' => Recorded(w, o)
    BY <2>3 DEF LiveVenues, Present, Recorded
  <2>5. removing' # NULL => removing' = removing /\ Present(removing)'
    BY <2>3 DEF Present, Recordings, OneLive
  <2> QED
    BY <1>1, <2>1, <2>2, <2>3, <2>4, <2>5, RecordingsStay
<1>10. ASSUME NEW o \in Orders, RecordOrder(o) PROVE Recordings'
  <2>1. PICK v \in Venues : v = run.venue
    BY <1>2, <1>10 DEF RecordOrder, Sound, RunKnows, At, Run
  <2>2. /\ At("record") /\ o \in run.todo /\ transfer' = [transfer EXCEPT ![<<v, o>>] = "auto"]
        /\ spoilt \subseteq spoilt' /\ (run.gone => o \in spoilt')
        /\ UNCHANGED <<order, account, venue, removing>>
    BY <1>10, <2>1 DEF RecordOrder
  <2>3. run'.pc = "record" /\ run'.gone = run.gone /\ run'.venue = v /\ run'.todo \subseteq run.todo
    BY <1>2, <1>10, <2>1, <2>2 DEF RecordOrder, Run, At
  <2>4. \A w \in Venues, x \in Orders : <<w, x>> # <<v, o>> => transfer'[<<w, x>>] = transfer[<<w, x>>]
    BY <2>2 DEF Sound, TypeOK
  <2>5. \A w \in Venues, x \in Orders : transfer'[<<w, x>>] # NULL => Recorded(w, x) \/ (w = v /\ x = o)
    BY <2>4 DEF Recorded
  <2>6. o \in spoilt' \/ (v \in LiveVenues /\ \A w \in Venues : Recorded(w, o) => w = v \/ o \in spoilt')
    BY <2>1, <2>2 DEF Recordings, RunRecords, OneLive
  <2>7. OrderRecordedOnce'
    <3> SUFFICES ASSUME NEW w \in Venues, NEW u \in Venues, NEW x \in Orders,
                        transfer'[<<w, x>>] # NULL, transfer'[<<u, x>>] # NULL
                 PROVE  w = u \/ x \in spoilt'
      BY DEF OrderRecordedOnce, Recorded
    <3> QED
      BY <2>2, <2>5, <2>6 DEF Recordings, OrderRecordedOnce
  <2>8. LiveVenues' = LiveVenues /\ OneLive'
    BY <2>2 DEF Recordings, OneLive, LiveVenues, Present
  <2>9. \A w \in Venues \ LiveVenues, x \in Orders :
           transfer'[<<w, x>>] # NULL => transfer[<<w, x>>] # NULL \/ x \in spoilt'
    BY <2>4, <2>6
  <2>10. AccountRecords'
    BY <2>2, <2>8, <2>9 DEF Recordings, AccountRecords, Since, Recorded
  <2>11. RunRecords'
    <3> SUFFICES ASSUME ~run.gone
                 PROVE  /\ v \in LiveVenues
                        /\ \A w \in Venues \ LiveVenues, x \in run'.todo : transfer'[<<w, x>>] # NULL => x \in spoilt'
      BY <2>3, <2>8 DEF RunRecords, At, Recorded
    <3>1. run.todo \subseteq Orders
      BY <1>2 DEF Run
    <3>2. v \in LiveVenues /\ \A w \in Venues \ LiveVenues, x \in run.todo : Recorded(w, x) => x \in spoilt
      BY <2>1, <2>2 DEF Recordings, RunRecords
    <3> QED
      BY <2>2, <2>3, <2>9, <3>1, <3>2 DEF Recorded
  <2> QED
    BY <2>7, <2>8, <2>10, <2>11 DEF Recordings
<1> QED
  BY <1>4, <1>5, <1>6, <1>7, <1>8, <1>9, <1>10 DEF Proceed

LEMMA BesideRecordings == Sound /\ Recordings /\ CopyBeside => Recordings'
<1> SUFFICES ASSUME Sound, Recordings, CopyBeside PROVE Recordings'
  OBVIOUS
<1>1. account \in Account /\ account # NULL /\ account' # NULL
  BY BesideSound, RecordsAssumption DEF CopyBeside, Sound, TypeOK, Account
<1>2. account'.autoFrom = account.autoFrom /\ UNCHANGED <<order, venue, run, removing, spoilt>>
  BY <1>1 DEF CopyBeside, history, Account
<1>3. LiveVenues' = LiveVenues /\ OneLive'
  BY <1>1, <1>2 DEF Recordings, OneLive, LiveVenues, Present
<1>4. Since(account.autoFrom)
  BY <1>1 DEF Recordings, AccountRecords
<1>5. \A w \in Venues, o \in Orders : transfer'[<<w, o>>] # NULL =>
         \/ Recorded(w, o)
         \/ w \in LiveVenues /\ account.autoFrom # NULL /\ order[o].placed >= account.autoFrom
  <2> DEFINE record == ToRecord(account, p2p')
  <2>1. transfer' = [k \in Venues \X Orders |->
                      IF k[1] \in LiveVenues /\ k[2] \in record \ Taken(k[1]) THEN "auto" ELSE transfer[k]]
    BY DEF CopyBeside
  <2>2. \A o \in record : account.autoFrom # NULL /\ order[o].placed >= account.autoFrom
    BY DEF ToRecord
  <2> HIDE DEF record
  <2> QED
    BY <2>1, <2>2 DEF Recorded
<1>6. OrderRecordedOnce'
  <2> SUFFICES ASSUME NEW w \in Venues, NEW u \in Venues, NEW o \in Orders,
                      transfer'[<<w, o>>] # NULL, transfer'[<<u, o>>] # NULL
               PROVE  w = u \/ o \in spoilt
    BY <1>2 DEF OrderRecordedOnce, Recorded
  <2> QED
    BY <1>4, <1>5 DEF Recordings, OrderRecordedOnce, OneLive, Since
<1>7. \A w \in Venues \ LiveVenues, o \in Orders : transfer'[<<w, o>>] # NULL => transfer[<<w, o>>] # NULL
  BY <1>5 DEF Recorded
<1>8. AccountRecords'
  BY <1>2, <1>3, <1>4, <1>7 DEF AccountRecords, Since, Recorded
<1>9. RunRecords'
  <2>1. run.todo \subseteq Orders
    BY DEF Sound, TypeOK, Run
  <2> QED
    BY <1>2, <1>3, <1>7, <2>1 DEF Recordings, RunRecords, Since, Recorded, At
<1> QED
  BY <1>3, <1>6, <1>8, <1>9 DEF Recordings

LEMMA NextRecordings == Sound /\ Recordings /\ [Next]_vars => Recordings'
<1>1. Sound /\ Recordings /\ UNCHANGED vars => Recordings'
  BY DEF vars, tables, history, Recordings, OneLive, OrderRecordedOnce, AccountRecords, RunRecords, Since, Recorded,
         LiveVenues, Present, At
<1> QED
  BY <1>1, ExchangeRecordings, UserRecordings, RunRecordings, BesideRecordings DEF Next

\* An order becomes one transfer, on one venue: whatever runs overlap, whatever the user records
\* by hand meanwhile, and although an account that is connected again copies the same orders into
\* a new venue, unless a run that outlived its account recorded it on the former one
\* (recordP2pOrders, investing-transfers.service.ts:411-444).
THEOREM OrderIsRecordedOnce == Spec => []OrderRecordedOnce
<1>1. Spec => [](Sound /\ Recordings)
  <2>1. Init => Sound /\ Recordings
    BY InitSound, InitRecordings
  <2>2. Sound /\ Recordings /\ [Next]_vars => (Sound /\ Recordings)'
    BY NextSound, NextRecordings
  <2> QED
    BY <2>1, <2>2, PTL DEF Spec
<1>2. Sound /\ Recordings => OrderRecordedOnce
  BY DEF Recordings
<1> QED
  BY <1>1, <1>2, PTL

-----------------------------------------------------------------------------
(***************************************************************************)
(* Trades: what a row is after an edit, whoever else writes meanwhile.  An *)
(* edit in progress is what follows from its row as it still is (Fits),    *)
(* until another edit of that row is written; so each write leaves a row   *)
(* that is complete (RowsComplete).                                        *)
(***************************************************************************)

\* What an edit may write over a row.
Given(p) ==
    /\ DOMAIN p \subseteq {"side", "qty", "entry", "exit", "closed", "pnl", "status"}
    /\ "side" \in DOMAIN p => p["side"] \in Sides
    /\ "qty" \in DOMAIN p => p["qty"] \in Nat
    /\ "entry" \in DOMAIN p => p["entry"] \in Nat
    /\ "exit" \in DOMAIN p => p["exit"] \in Prices
    /\ "closed" \in DOMAIN p => p["closed"] = Now
    /\ "pnl" \in DOMAIN p => p["pnl"] \in Optional(Int)
    /\ "status" \in DOMAIN p => p["status"] = "CLOSED"

\* What an edit of a row writes.
PatchOf(dto, row) == Over(ClosedPnl(dto, row), Over(Closes(dto, row), dto))

\* The columns of a row some are written over.
LEMMA OverRow ==
    ASSUME NEW row \in Position, NEW p, Given(p)
    PROVE  LET new == Over(p, row)
           IN /\ new \in Position
              /\ new.source = row.source
              /\ new.side = IF "side" \in DOMAIN p THEN p["side"] ELSE row.side
              /\ new.qty = IF "qty" \in DOMAIN p THEN p["qty"] ELSE row.qty
              /\ new.entry = IF "entry" \in DOMAIN p THEN p["entry"] ELSE row.entry
              /\ new.exit = IF "exit" \in DOMAIN p THEN p["exit"] ELSE row.exit
              /\ new.closed = IF "closed" \in DOMAIN p THEN p["closed"] ELSE row.closed
              /\ new.pnl = IF "pnl" \in DOMAIN p THEN p["pnl"] ELSE row.pnl
              /\ new.status = IF "status" \in DOMAIN p THEN p["status"] ELSE row.status
<1> DEFINE cols == {"source", "category", "status", "side", "qty", "entry", "exit", "pnl", "opened", "closed"}
           new == Over(p, row)
<1>1. DOMAIN row = cols
  BY DEF Position
<1>2. DOMAIN p \cup DOMAIN row = cols
  BY <1>1 DEF Given
<1>3. new = [c \in cols |-> IF c \in DOMAIN p THEN p[c] ELSE row[c]]
  BY <1>2 DEF Over
<1>4. /\ "source" \notin DOMAIN p /\ "category" \notin DOMAIN p /\ "opened" \notin DOMAIN p
  BY DEF Given
<1>5. new = [source |-> row.source, category |-> row.category,
             status |-> IF "status" \in DOMAIN p THEN p["status"] ELSE row.status,
             side |-> IF "side" \in DOMAIN p THEN p["side"] ELSE row.side,
             qty |-> IF "qty" \in DOMAIN p THEN p["qty"] ELSE row.qty,
             entry |-> IF "entry" \in DOMAIN p THEN p["entry"] ELSE row.entry,
             exit |-> IF "exit" \in DOMAIN p THEN p["exit"] ELSE row.exit,
             pnl |-> IF "pnl" \in DOMAIN p THEN p["pnl"] ELSE row.pnl,
             opened |-> row.opened,
             closed |-> IF "closed" \in DOMAIN p THEN p["closed"] ELSE row.closed]
  BY <1>3, <1>4
<1>6. new \in Position
  BY <1>5 DEF Given, Position, Optional
<1> QED
  BY <1>5, <1>6

\* No column that has a value has this one.
LEMMA NoValue == NULL \notin Int /\ NULL \notin Prices /\ NULL # Now /\ NULL \notin TradeIds
<1>1. NULL \notin Int /\ NULL \notin TradeIds
  BY TradesAssumption
<1>2. \A x \in Prices : x \in Int
  BY TradesAssumption
<1>3. Now \in Int
  BY TradesAssumption
<1> QED
  BY <1>1, <1>2, <1>3

LEMMA EditGiven ==
    ASSUME NEW dto \in Edits
    PROVE  Given(dto) /\ "status" \notin DOMAIN dto /\ ("pnl" \in DOMAIN dto => dto["pnl"] \in Int)
<1>1. DOMAIN dto \subseteq {"side", "qty", "entry", "exit", "closed", "pnl"}
      /\ \A c \in DOMAIN dto : dto[c] \in Columns[c]
  BY TradesAssumption DEF Columns
<1> QED
  BY <1>1 DEF Given, Columns, Optional

\* Which columns an edit writes, and with what.
LEMMA PatchColumns ==
    ASSUME NEW dto \in Edits, NEW row \in Position
    PROVE  LET p == PatchOf(dto, row)
               result == Resulting(dto, row)
               touched == {"side", "qty", "entry", "exit"} \cap DOMAIN dto # {}
           IN /\ Given(p)
              /\ \A c \in {"side", "qty", "entry", "exit", "closed"} :
                    (c \in DOMAIN p <=> c \in DOMAIN dto) /\ (c \in DOMAIN dto => p[c] = dto[c])
              /\ "status" \in DOMAIN p <=> row.status = "OPEN" /\ result.exit # NULL
              /\ result.exit = NULL => "pnl" \in DOMAIN p /\ p["pnl"] = NULL
              /\ result.exit # NULL /\ "pnl" \in DOMAIN dto => "pnl" \in DOMAIN p /\ p["pnl"] = dto["pnl"]
              /\ result.exit # NULL /\ "pnl" \notin DOMAIN dto /\ touched =>
                    /\ "pnl" \in DOMAIN p
                    /\ p["pnl"] = ComputePnl(result.side, result.qty, result.entry, result.exit)
              /\ result.exit # NULL /\ "pnl" \notin DOMAIN dto /\ ~touched => "pnl" \notin DOMAIN p
<1> DEFINE result == Resulting(dto, row)
           money == ClosedPnl(dto, row)
           state == Closes(dto, row)
           inner == Over(state, dto)
           p == Over(money, inner)
           touched == {"side", "qty", "entry", "exit"} \cap DOMAIN dto # {}
<1>1. Given(dto) /\ "status" \notin DOMAIN dto /\ ("pnl" \in DOMAIN dto => dto["pnl"] \in Int)
  BY EditGiven
<1>2. /\ result \in Position
      /\ result.exit = IF "exit" \in DOMAIN dto THEN dto["exit"] ELSE row.exit
  BY <1>1, OverRow DEF Resulting
<1> HIDE DEF result
<1>3. /\ DOMAIN state \subseteq {"status"}
      /\ "status" \in DOMAIN state <=> row.status = "OPEN" /\ result.exit # NULL
      /\ "status" \in DOMAIN state => state["status"] = "CLOSED"
  BY DEF Closes, Unchanged, result
<1>4. /\ DOMAIN money \subseteq {"pnl"}
      /\ result.exit = NULL => "pnl" \in DOMAIN money /\ money["pnl"] = NULL
      /\ result.exit # NULL /\ "pnl" \in DOMAIN dto => "pnl" \in DOMAIN money /\ money["pnl"] = dto["pnl"]
      /\ result.exit # NULL /\ "pnl" \notin DOMAIN dto /\ touched =>
            /\ "pnl" \in DOMAIN money
            /\ money["pnl"] = ComputePnl(result.side, result.qty, result.entry, result.exit)
      /\ result.exit # NULL /\ "pnl" \notin DOMAIN dto /\ ~touched => "pnl" \notin DOMAIN money
  <2>1. "pnl" \in DOMAIN dto => dto.pnl = dto["pnl"]
    OBVIOUS
  <2> QED
    BY <2>1 DEF ClosedPnl, Unchanged, InputsChanged, result
<1>5. "pnl" \in DOMAIN money => money["pnl"] \in Optional(Int)
  <2>1. result.exit # NULL => result.exit \in Int
    <3>1. result.exit \in Prices \cup {NULL}
      BY <1>2 DEF Position, Optional
    <3>2. \A x \in Prices : x \in Int
      BY TradesAssumption
    <3> QED
      BY <3>1, <3>2
  <2>2. result.side \in Sides /\ result.qty \in Int /\ result.entry \in Int
    BY <1>2 DEF Position
  <2>3. result.exit # NULL => ComputePnl(result.side, result.qty, result.entry, result.exit) \in Int
    BY <2>1, <2>2 DEF ComputePnl
  <2> HIDE DEF money
  <2> QED
    BY <1>1, <1>4, <2>3 DEF Optional
<1> HIDE DEF money, state
<1>6. /\ DOMAIN inner = DOMAIN state \cup DOMAIN dto
      /\ \A c \in DOMAIN inner : inner[c] = IF c \in DOMAIN state THEN state[c] ELSE dto[c]
  BY DEF Over
<1> HIDE DEF inner
<1>7. /\ DOMAIN p = DOMAIN money \cup DOMAIN inner
      /\ \A c \in DOMAIN p : p[c] = IF c \in DOMAIN money THEN money[c] ELSE inner[c]
  BY DEF Over
<1>8. PatchOf(dto, row) = p
  BY DEF PatchOf, inner, money, state
<1> HIDE DEF p
<1>9. Given(p)
  BY <1>1, <1>3, <1>4, <1>5, <1>6, <1>7 DEF Given
<1>10. \A c \in {"side", "qty", "entry", "exit", "closed"} :
          (c \in DOMAIN p <=> c \in DOMAIN dto) /\ (c \in DOMAIN dto => p[c] = dto[c])
  BY <1>3, <1>4, <1>6, <1>7
<1>11. "status" \in DOMAIN p <=> row.status = "OPEN" /\ result.exit # NULL
  BY <1>1, <1>3, <1>4, <1>6, <1>7
<1>12. "pnl" \in DOMAIN p <=> "pnl" \in DOMAIN money \/ "pnl" \in DOMAIN dto
  BY <1>3, <1>4, <1>6, <1>7
<1>13. "pnl" \in DOMAIN money => p["pnl"] = money["pnl"]
  BY <1>7
<1> QED
  BY <1>4, <1>8, <1>9, <1>10, <1>11, <1>12, <1>13 DEF result

\* What ClosedIsComplete asks of a row, and of one whose profit was not entered.
Settled(row) == \A c \in {"exit", "closed", "pnl"} : (row[c] # NULL) = (row.status = "CLOSED")

Reckoned(row) ==
    row.status = "CLOSED" /\ row.source = "manual" =>
        row.pnl = ComputePnl(row.side, row.qty, row.entry, row.exit)

\* An edit in progress is of an entry by hand, and while no other was written since it follows from
\* the row as it is.
Fits(e) ==
    /\ e.id \in TradeIds /\ Given(e.patch)
    /\ positions[e.id] # NULL =>
          /\ positions[e.id].source = "manual"
          /\ e.id \notin overlapped =>
                \E dto \in Edits :
                   LET result == Resulting(dto, positions[e.id])
                   IN e.patch = PatchOf(dto, positions[e.id]) /\ (result.exit = NULL) = (result.closed = NULL)

RowsAre == positions \in [TradeIds -> Position \cup {NULL}] /\ IsFiniteSet(Rows)

EditsFit == edit = [r \in Requests |-> edit[r]] /\ \A r \in Requests : edit[r] = NoEdit \/ Fits(edit[r])

RowsComplete ==
    \A i \in Rows \ overlapped : Settled(positions[i]) /\ (i \notin entered => Reckoned(positions[i]))

TradesInv == RowsAre /\ EditsFit /\ RowsComplete

LEMMA CompleteIsSettled == TradesInv => ClosedIsComplete
  BY DEF TradesInv, RowsComplete, Settled, Reckoned, ClosedIsComplete

\* A patch made of a complete row makes a complete row.
LEMMA PatchCompletes ==
    ASSUME NEW dto \in Edits, NEW row \in Position, Settled(row), row.source = "manual",
           LET result == Resulting(dto, row) IN (result.exit = NULL) = (result.closed = NULL)
    PROVE  LET p == PatchOf(dto, row)
               new == Over(p, row)
           IN /\ Settled(new)
              /\ "pnl" \notin DOMAIN p /\ Reckoned(row) => Reckoned(new)
              /\ "pnl" \in DOMAIN p /\ ~EntersPnl(p, new) => Reckoned(new)
<1> DEFINE p == PatchOf(dto, row)
           new == Over(p, row)
           result == Resulting(dto, row)
           touched == {"side", "qty", "entry", "exit"} \cap DOMAIN dto # {}
<1>1. /\ Given(p)
      /\ \A c \in {"side", "qty", "entry", "exit", "closed"} :
            (c \in DOMAIN p <=> c \in DOMAIN dto) /\ (c \in DOMAIN dto => p[c] = dto[c])
      /\ "status" \in DOMAIN p <=> row.status = "OPEN" /\ result.exit # NULL
      /\ result.exit = NULL => "pnl" \in DOMAIN p /\ p["pnl"] = NULL
      /\ result.exit # NULL /\ "pnl" \in DOMAIN dto => "pnl" \in DOMAIN p /\ p["pnl"] = dto["pnl"]
      /\ result.exit # NULL /\ "pnl" \notin DOMAIN dto /\ touched =>
            /\ "pnl" \in DOMAIN p
            /\ p["pnl"] = ComputePnl(result.side, result.qty, result.entry, result.exit)
      /\ result.exit # NULL /\ "pnl" \notin DOMAIN dto /\ ~touched => "pnl" \notin DOMAIN p
  BY PatchColumns
<1>2. Given(dto) /\ "status" \notin DOMAIN dto /\ ("pnl" \in DOMAIN dto => dto["pnl"] \in Int)
  BY EditGiven
<1>3. /\ result \in Position
      /\ result.side = IF "side" \in DOMAIN dto THEN dto["side"] ELSE row.side
      /\ result.qty = IF "qty" \in DOMAIN dto THEN dto["qty"] ELSE row.qty
      /\ result.entry = IF "entry" \in DOMAIN dto THEN dto["entry"] ELSE row.entry
      /\ result.exit = IF "exit" \in DOMAIN dto THEN dto["exit"] ELSE row.exit
      /\ result.closed = IF "closed" \in DOMAIN dto THEN dto["closed"] ELSE row.closed
  BY <1>2, OverRow DEF Resulting
<1> HIDE DEF result, p
<1>4. /\ new.source = row.source
      /\ new.side = IF "side" \in DOMAIN p THEN p["side"] ELSE row.side
      /\ new.qty = IF "qty" \in DOMAIN p THEN p["qty"] ELSE row.qty
      /\ new.entry = IF "entry" \in DOMAIN p THEN p["entry"] ELSE row.entry
      /\ new.exit = IF "exit" \in DOMAIN p THEN p["exit"] ELSE row.exit
      /\ new.closed = IF "closed" \in DOMAIN p THEN p["closed"] ELSE row.closed
      /\ new.pnl = IF "pnl" \in DOMAIN p THEN p["pnl"] ELSE row.pnl
      /\ new.status = IF "status" \in DOMAIN p THEN p["status"] ELSE row.status
  BY <1>1, OverRow
<1> HIDE DEF new
<1>5. /\ new.side = result.side /\ new.qty = result.qty /\ new.entry = result.entry
      /\ new.exit = result.exit /\ new.closed = result.closed
  BY <1>1, <1>3, <1>4
<1>6. /\ row.status \in {"OPEN", "CLOSED"} /\ ((row.exit # NULL) = (row.status = "CLOSED"))
      /\ ((row.closed # NULL) = (row.status = "CLOSED")) /\ ((row.pnl # NULL) = (row.status = "CLOSED"))
  BY DEF Position, Settled
<1>7. NULL \notin Int /\ NULL \notin Prices /\ NULL # Now
  BY NoValue
<1>8. result.exit # NULL => result.exit \in Int
  <2>1. result.exit \in Prices \cup {NULL}
    BY <1>3 DEF Position, Optional
  <2>2. \A x \in Prices : x \in Int
    BY TradesAssumption
  <2> QED
    BY <2>1, <2>2
<1>9. result.exit # NULL => ComputePnl(result.side, result.qty, result.entry, result.exit) \in Int
  <2>1. result.side \in Sides /\ result.qty \in Int /\ result.entry \in Int
    BY <1>3 DEF Position
  <2> QED
    BY <1>8, <2>1 DEF ComputePnl
<1>10. CASE result.exit = NULL
  <2>1. row.status = "OPEN"
    <3>1. "exit" \notin DOMAIN dto
      BY <1>2, <1>3, <1>7, <1>10 DEF Given
    <3> QED
      BY <1>3, <1>6, <1>10, <3>1
  <2>2. new.status = "OPEN" /\ new.pnl = NULL /\ new.exit = NULL /\ new.closed = NULL
    BY <1>1, <1>4, <1>5, <1>10, <2>1 DEF result
  <2> QED
    BY <1>10, <2>2 DEF Settled, Reckoned, p, new
<1>11. CASE result.exit # NULL
  <2>1. new.status = "CLOSED" /\ new.exit # NULL /\ new.closed # NULL
    BY <1>1, <1>4, <1>5, <1>6, <1>11 DEF result, Given
  <2>2. CASE "pnl" \in DOMAIN dto
    <3>1. "pnl" \in DOMAIN p /\ p["pnl"] \in Int /\ new.pnl = p["pnl"]
      BY <1>1, <1>2, <1>4, <1>11, <2>2
    <3>2. new.pnl # NULL /\ p["pnl"] # NULL
      BY <1>7, <3>1
    <3>3. ~EntersPnl(p, new) => Reckoned(new)
      BY <3>1, <3>2 DEF EntersPnl, Reckoned
    <3> QED
      BY <2>1, <3>1, <3>2, <3>3 DEF Settled, p, new
  <2>3. CASE "pnl" \notin DOMAIN dto /\ touched
    <3>1. "pnl" \in DOMAIN p /\ new.pnl = ComputePnl(new.side, new.qty, new.entry, new.exit)
      BY <1>1, <1>4, <1>5, <1>11, <2>3
    <3>2. new.pnl # NULL
      BY <1>5, <1>7, <1>9, <1>11, <3>1
    <3> QED
      BY <2>1, <3>1, <3>2 DEF Settled, Reckoned, p, new
  <2>4. CASE "pnl" \notin DOMAIN dto /\ ~touched
    <3>1. "pnl" \notin DOMAIN p /\ new.pnl = row.pnl
      BY <1>1, <1>4, <1>11, <2>4
    <3>2. /\ new.side = row.side /\ new.qty = row.qty /\ new.entry = row.entry /\ new.exit = row.exit
      BY <1>3, <1>5, <2>4
    <3>3. row.status = "CLOSED"
      BY <1>5, <1>6, <1>11, <3>2
    <3>4. new.pnl # NULL
      BY <1>6, <3>1, <3>3
    <3>5. Reckoned(row) => Reckoned(new)
      BY <1>4, <3>1, <3>2, <3>3 DEF Reckoned
    <3> QED
      BY <2>1, <3>1, <3>4, <3>5 DEF Settled, p, new
  <2> QED
    BY <2>2, <2>3, <2>4
<1> QED
  BY <1>10, <1>11

LEMMA TradesInvInit == ASSUME TradesInit PROVE TradesInv
<1>1. Rows = {}
  BY DEF Rows, TradesInit
<1>2. RowsAre
  BY <1>1, FS_EmptySet DEF RowsAre, TradesInit
<1>3. EditsFit
  BY DEF EditsFit, TradesInit
<1>4. RowsComplete
  BY <1>1 DEF RowsComplete
<1> QED
  BY <1>2, <1>3, <1>4 DEF TradesInv

LEMMA PutRows ==
    ASSUME RowsAre, NEW i \in TradeIds, NEW row \in Position \cup {NULL}, Put(i, row)
    PROVE  RowsAre' /\ positions'[i] = row /\ \A j \in TradeIds \ {i} : positions'[j] = positions[j]
<1>1. /\ positions' \in [TradeIds -> Position \cup {NULL}]
      /\ positions'[i] = row /\ \A j \in TradeIds \ {i} : positions'[j] = positions[j]
  BY DEF RowsAre, Put
<1>2. Rows' \subseteq Rows \cup {i}
  BY <1>1 DEF Rows
<1>3. IsFiniteSet(Rows \cup {i})
  BY FS_AddElement DEF RowsAre
<1>4. IsFiniteSet(Rows')
  BY <1>2, <1>3, FS_Subset
<1> QED
  BY <1>1, <1>4 DEF RowsAre

\* A step that writes one row, of which no edit is in progress or which goes, and no edit.
LEMMA OneRowStep ==
    ASSUME TradesInv, NEW i \in TradeIds, NEW row \in Position \cup {NULL}, Put(i, row),
           UNCHANGED edit,
           \A r \in Requests : edit[r] # NoEdit => edit[r].id # i \/ row = NULL,
           \A j \in TradeIds \ {i} : (j \in entered' <=> j \in entered) /\ (j \in overlapped' <=> j \in overlapped),
           row # NULL => Settled(row) /\ (i \notin entered' => Reckoned(row))
    PROVE  TradesInv'
<1>1. RowsAre' /\ positions'[i] = row /\ \A j \in TradeIds \ {i} : positions'[j] = positions[j]
  BY PutRows DEF TradesInv
<1>2. EditsFit'
  <2>1. edit' = [r \in Requests |-> edit'[r]]
    BY DEF TradesInv, EditsFit
  <2>2. ASSUME NEW r \in Requests, edit'[r] # NoEdit PROVE Fits(edit[r])'
    <3>1. Fits(edit[r]) /\ (edit[r].id # i \/ row = NULL)
      BY <2>2 DEF TradesInv, EditsFit
    <3>2. CASE edit[r].id = i
      BY <1>1, <3>1, <3>2 DEF Fits
    <3>3. CASE edit[r].id # i
      <4>1. positions'[edit[r].id] = positions[edit[r].id] /\ (edit[r].id \in overlapped' <=> edit[r].id \in overlapped)
        BY <1>1, <3>1, <3>3 DEF Fits
      <4> QED
        BY <3>1, <4>1 DEF Fits
    <3> QED
      BY <3>2, <3>3
  <2> QED
    BY <2>1, <2>2 DEF EditsFit
<1>3. RowsComplete'
  <2> SUFFICES ASSUME NEW j \in TradeIds, positions'[j] # NULL, j \notin overlapped'
               PROVE  Settled(positions'[j]) /\ (j \notin entered' => Reckoned(positions'[j]))
    BY DEF RowsComplete, Rows
  <2>1. CASE j = i
    BY <1>1, <2>1
  <2>2. CASE j # i
    <3>1. positions'[j] = positions[j] /\ (j \in entered' <=> j \in entered) /\ j \notin overlapped
      BY <1>1, <2>2
    <3> QED
      BY <3>1 DEF TradesInv, RowsComplete, Rows
  <2> QED
    BY <2>1, <2>2
<1> QED
  BY <1>1, <1>2, <1>3 DEF TradesInv

LEMMA OpenedIsPosition ==
    ASSUME NEW e \in Entries, NEW source \in {"bybit", "manual"},
           NEW category \in {"linear", "spot", "manual"}
    PROVE  LET row == Opened(source, category, e)
           IN row \in Position /\ Settled(row) /\ Reckoned(row)
<1>1. e \in [side: Sides, qty: Nat \ {0}, entry: Nat \ {0}, opened: Optional(Nat)]
  BY TradesAssumption
<1>2. Opened(source, category, e) \in Position
  BY <1>1 DEF Opened, Position, Optional
<1> QED
  BY <1>2 DEF Opened, Settled, Reckoned

LEMMA AddTradeStep ==
    ASSUME TradesInv, NEW i \in TradeIds, NEW e \in Entries,
           NEW exit \in Optional(Prices), NEW pnl \in Optional(Earned), AddManualPosition(i, e, exit, pnl)
    PROVE  TradesInv'
<1> DEFINE open == Opened("manual", "manual", e)
           made == IF pnl # NULL THEN pnl ELSE ComputePnl(e.side, e.qty, e.entry, exit)
           row == IF exit = NULL THEN open
                  ELSE [open EXCEPT !.status = "CLOSED", !.exit = exit, !.closed = Now, !.pnl = made]
<1>1. open \in Position /\ Settled(open) /\ Reckoned(open)
  BY OpenedIsPosition
<1>2. NULL \notin Int /\ NULL \notin Prices /\ NULL # Now
  BY NoValue
<1>3. exit # NULL => made \in Int
  <2>1. /\ e \in [side: Sides, qty: Nat \ {0}, entry: Nat \ {0}, opened: Optional(Nat)]
        /\ \A x \in Prices : x \in Int
        /\ \A x \in Earned : x \in Int
    BY TradesAssumption
  <2>2. CASE pnl # NULL
    BY <2>1, <2>2 DEF Optional
  <2>3. ASSUME pnl = NULL, exit # NULL PROVE made \in Int
    <3>1. exit \in Int /\ e.qty \in Int /\ e.entry \in Int
      BY <2>1, <2>3 DEF Optional
    <3> QED
      BY <2>3, <3>1 DEF ComputePnl
  <2> QED
    BY <2>2, <2>3
<1>4. exit # NULL => /\ row \in Position /\ Settled(row)
                     /\ pnl = NULL => Reckoned(row)
  <2> SUFFICES ASSUME exit # NULL PROVE /\ row \in Position /\ Settled(row)
                                        /\ pnl = NULL => Reckoned(row)
    OBVIOUS
  <2>1. row = [source |-> "manual", category |-> "manual", status |-> "CLOSED", side |-> e.side,
               qty |-> e.qty, entry |-> e.entry, exit |-> exit, pnl |-> made, opened |-> e.opened,
               closed |-> Now]
    BY DEF Opened
  <2>2. e \in [side: Sides, qty: Nat \ {0}, entry: Nat \ {0}, opened: Optional(Nat)]
    BY TradesAssumption
  <2>3. pnl = NULL => made = ComputePnl(e.side, e.qty, e.entry, exit)
    OBVIOUS
  <2> HIDE DEF made, row
  <2>4. row \in Position
    BY <1>3, <2>1, <2>2 DEF Position, Optional
  <2>5. made # NULL
    BY <1>2, <1>3
  <2>6. Settled(row)
    BY <1>2, <2>1, <2>5 DEF Settled
  <2> QED
    BY <2>1, <2>3, <2>4, <2>6 DEF Reckoned
<1>5. row \in Position /\ Settled(row) /\ (i \notin entered' => Reckoned(row))
  <2>1. CASE exit = NULL
    BY <1>1, <2>1
  <2>2. CASE exit # NULL
    BY <1>4, <2>2 DEF AddManualPosition
  <2> QED
    BY <2>1, <2>2
<1>6. Put(i, row) /\ UNCHANGED <<edit, overlapped>> /\ (entered' = entered \/ entered' = entered \cup {i})
  BY DEF AddManualPosition
<1>7. \A r \in Requests : edit[r].id # i
  BY DEF AddManualPosition, Unused
<1> HIDE DEF row
<1> QED
  BY <1>5, <1>6, <1>7, OneRowStep

LEMMA SyncOpensStep ==
    ASSUME TradesInv, NEW i \in TradeIds, NEW e \in Entries,
           NEW category \in {"linear", "spot"}, SyncOpens(i, category, e)
    PROVE  TradesInv'
<1> DEFINE row == Opened("bybit", category, e)
<1>1. row \in Position /\ Settled(row) /\ Reckoned(row)
  BY OpenedIsPosition
<1>2. Put(i, row) /\ UNCHANGED <<edit, entered, overlapped>> /\ \A r \in Requests : edit[r].id # i
  BY DEF SyncOpens, Unused
<1> HIDE DEF row
<1> QED
  BY <1>1, <1>2, OneRowStep

LEMMA SyncClosesStep ==
    ASSUME TradesInv, NEW i \in TradeIds, NEW exit \in Prices, NEW pnl \in Earned,
           SyncCloses(i, exit, pnl)
    PROVE  TradesInv'
<1> DEFINE end == [status |-> "CLOSED", exit |-> exit, closed |-> Now, pnl |-> pnl]
<1> PICK old : old = positions[i]
  OBVIOUS
<1> PICK row : row = Over(end, old)
  OBVIOUS
<1>1. old \in Position /\ old.source = "bybit"
  BY DEF SyncCloses, TradesInv, RowsAre
<1>2. NULL \notin Int /\ NULL \notin Prices /\ NULL # Now /\ pnl \in Int
  <2>1. \A x \in Earned : x \in Int
    BY TradesAssumption
  <2> QED
    BY <2>1, NoValue
<1>3. /\ DOMAIN end = {"status", "exit", "closed", "pnl"} /\ end["status"] = "CLOSED"
      /\ end["exit"] = exit /\ end["closed"] = Now /\ end["pnl"] = pnl
  OBVIOUS
<1>4. Put(i, row) /\ UNCHANGED <<edit, entered, overlapped>>
  BY DEF SyncCloses
<1>5. \A r \in Requests : edit[r] # NoEdit => edit[r].id # i
  <2> SUFFICES ASSUME NEW r \in Requests, edit[r] # NoEdit, edit[r].id = i PROVE FALSE
    OBVIOUS
  <2>1. Fits(edit[r]) /\ positions[i] # NULL
    BY DEF TradesInv, EditsFit, SyncCloses
  <2> QED
    BY <1>1, <2>1 DEF Fits
<1> HIDE DEF end
<1>6. Given(end)
  BY <1>2, <1>3 DEF Given, Optional
<1>7. /\ row \in Position /\ row.source = "bybit" /\ row.status = "CLOSED"
      /\ row.exit = exit /\ row.closed = Now /\ row.pnl = pnl
  BY <1>1, <1>3, <1>6, OverRow
<1>8. Settled(row) /\ Reckoned(row)
  BY <1>2, <1>7 DEF Settled, Reckoned
<1> QED
  BY <1>4, <1>5, <1>7, <1>8, OneRowStep

LEMMA RemoveTradeStep ==
    ASSUME TradesInv, NEW i \in TradeIds, RemoveManualPosition(i)
    PROVE  TradesInv'
<1>1. /\ Put(i, NULL) /\ UNCHANGED edit
      /\ entered' = entered \ {i} /\ overlapped' = overlapped \ {i}
  BY DEF RemoveManualPosition
<1> QED
  BY <1>1, OneRowStep

\* What an edit has read is what it changes until another is written.
LEMMA ReadTradeStep ==
    ASSUME TradesInv, NEW r \in Requests, NEW i \in TradeIds, NEW dto \in Edits,
           UpdateManualPosition(r, i, dto)
    PROVE  TradesInv'
<1> DEFINE row == positions[i]
           result == Resulting(dto, row)
           e == [id |-> i, patch |-> PatchOf(dto, row)]
<1>1. row # NULL /\ row.source = "manual" /\ ((result.exit = NULL) = (result.closed = NULL))
  BY DEF UpdateManualPosition
<1>2. row \in Position
  BY <1>1 DEF TradesInv, RowsAre
<1>3. edit' = [edit EXCEPT ![r] = e] /\ UNCHANGED <<positions, entered, overlapped>>
  BY DEF UpdateManualPosition, PatchOf
<1>4. Given(PatchOf(dto, row))
  BY <1>2, PatchColumns
<1>5. Fits(e)
  <2>1. e.id = i /\ e.patch = PatchOf(dto, row)
    OBVIOUS
  <2> HIDE DEF e
  <2> QED
    BY <1>1, <1>4, <2>1 DEF Fits
<1>6. RowsAre' /\ RowsComplete'
  BY <1>3 DEF TradesInv, RowsAre, RowsComplete, Rows
<1> HIDE DEF e
<1>7. EditsFit'
  <2>1. edit' = [q \in Requests |-> edit'[q]] /\ edit'[r] = e /\ \A q \in Requests \ {r} : edit'[q] = edit[q]
    BY <1>3 DEF TradesInv, EditsFit
  <2>2. ASSUME NEW q \in Requests, edit'[q] # NoEdit PROVE Fits(edit[q])'
    <3>1. Fits(edit'[q])
      BY <1>5, <2>1, <2>2 DEF TradesInv, EditsFit
    <3> QED
      BY <1>3, <3>1 DEF Fits
  <2> QED
    BY <2>1, <2>2 DEF EditsFit
<1> QED
  BY <1>6, <1>7 DEF TradesInv

LEMMA DropEditStep ==
    ASSUME TradesInv, NEW r \in Requests, DropEdit(r)
    PROVE  TradesInv'
<1>1. edit' = [edit EXCEPT ![r] = NoEdit] /\ UNCHANGED <<positions, entered, overlapped>>
  BY DEF DropEdit
<1>2. RowsAre' /\ RowsComplete'
  BY <1>1 DEF TradesInv, RowsAre, RowsComplete, Rows
<1>3. EditsFit'
  <2>1. edit' = [q \in Requests |-> edit'[q]] /\ edit'[r] = NoEdit /\ \A q \in Requests \ {r} : edit'[q] = edit[q]
    BY <1>1 DEF TradesInv, EditsFit
  <2>2. ASSUME NEW q \in Requests, edit'[q] # NoEdit PROVE Fits(edit[q])'
    <3>1. Fits(edit'[q])
      BY <2>1, <2>2 DEF TradesInv, EditsFit
    <3> QED
      BY <1>1, <3>1 DEF Fits
  <2> QED
    BY <2>1, <2>2 DEF EditsFit
<1> QED
  BY <1>2, <1>3 DEF TradesInv

\* The write of a patch, whoever else has read the row.
LEMMA WriteTradeStep ==
    ASSUME TradesInv, NEW r \in Requests, WritePosition(r)
    PROVE  TradesInv'
<1> PICK i, patch : i = edit[r].id /\ patch = edit[r].patch
  OBVIOUS
<1> PICK old : old = positions[i]
  OBVIOUS
<1> PICK row : row = Over(patch, old)
  OBVIOUS
<1>1. /\ edit[r] # NoEdit /\ old # NULL /\ Put(i, row)
      /\ overlapped' = IF \E q \in Requests \ {r} : edit[q].id = i THEN overlapped \cup {i} ELSE overlapped
      /\ entered' = IF "pnl" \notin DOMAIN patch THEN entered
                    ELSE IF EntersPnl(patch, row) THEN entered \cup {i} ELSE entered \ {i}
      /\ edit' = [edit EXCEPT ![r] = NoEdit]
  BY DEF WritePosition
<1>2. /\ i \in TradeIds /\ Given(patch) /\ old.source = "manual"
      /\ i \notin overlapped =>
            \E dto \in Edits :
               LET result == Resulting(dto, old)
               IN patch = PatchOf(dto, old) /\ (result.exit = NULL) = (result.closed = NULL)
  BY <1>1 DEF TradesInv, EditsFit, Fits
<1>3. old \in Position
  BY <1>1, <1>2 DEF TradesInv, RowsAre
<1>4. row \in Position /\ row.source = "manual"
  BY <1>2, <1>3, OverRow
<1>5. RowsAre' /\ positions'[i] = row /\ \A j \in TradeIds \ {i} : positions'[j] = positions[j]
  BY <1>1, <1>2, <1>4, PutRows DEF TradesInv
<1>6. EditsFit'
  <2>1. edit' = [q \in Requests |-> edit'[q]] /\ edit'[r] = NoEdit /\ \A q \in Requests \ {r} : edit'[q] = edit[q]
    BY <1>1 DEF TradesInv, EditsFit
  <2>2. ASSUME NEW q \in Requests, edit'[q] # NoEdit PROVE Fits(edit[q])'
    <3>1. q # r /\ edit'[q] = edit[q] /\ Fits(edit[q])
      BY <2>1, <2>2 DEF TradesInv, EditsFit
    <3> PICK e : e = edit[q]
      OBVIOUS
    <3>2. e = edit'[q] /\ e = edit[q] /\ Fits(e)
      BY <3>1
    <3>3. CASE e.id = i
      <4>1. i \in overlapped'
        BY <1>1, <3>1, <3>2, <3>3
      <4> QED
        BY <1>4, <1>5, <3>2, <3>3, <4>1 DEF Fits
    <3>4. CASE e.id # i
      <4>1. positions'[e.id] = positions[e.id] /\ (e.id \in overlapped' <=> e.id \in overlapped)
        BY <1>1, <1>5, <3>2, <3>4 DEF Fits
      <4> QED
        BY <3>2, <4>1 DEF Fits
    <3> QED
      BY <3>3, <3>4
  <2> QED
    BY <2>1, <2>2 DEF EditsFit
<1>7. ASSUME i \notin overlapped' PROVE Settled(row) /\ (i \notin entered' => Reckoned(row))
  <2>1. i \notin overlapped
    BY <1>1, <1>7
  <2>2. Settled(old) /\ (i \notin entered => Reckoned(old))
    BY <1>1, <1>2, <2>1 DEF TradesInv, RowsComplete, Rows
  <2>3. PICK dto \in Edits :
           /\ patch = PatchOf(dto, old)
           /\ LET result == Resulting(dto, old) IN (result.exit = NULL) = (result.closed = NULL)
    BY <1>2, <2>1
  <2>4. /\ Settled(row)
        /\ "pnl" \notin DOMAIN patch /\ Reckoned(old) => Reckoned(row)
        /\ "pnl" \in DOMAIN patch /\ ~EntersPnl(patch, row) => Reckoned(row)
    BY <1>2, <1>3, <2>2, <2>3, PatchCompletes
  <2> QED
    BY <1>1, <2>2, <2>4
<1>8. RowsComplete'
  <2> SUFFICES ASSUME NEW j \in TradeIds, positions'[j] # NULL, j \notin overlapped'
               PROVE  Settled(positions'[j]) /\ (j \notin entered' => Reckoned(positions'[j]))
    BY DEF RowsComplete, Rows
  <2>1. CASE j = i
    BY <1>5, <1>7, <2>1
  <2>2. CASE j # i
    <3>1. positions'[j] = positions[j] /\ (j \in entered' <=> j \in entered) /\ j \notin overlapped
      BY <1>1, <1>5, <2>2
    <3> QED
      BY <3>1 DEF TradesInv, RowsComplete, Rows
  <2> QED
    BY <2>1, <2>2
<1> QED
  BY <1>5, <1>6, <1>8 DEF TradesInv

LEMMA TradesInvStep ==
    ASSUME TradesInv, [TradesNext]_tradesVars
    PROVE  TradesInv'
<1>1. CASE UNCHANGED tradesVars
  BY <1>1 DEF tradesVars, TradesInv, RowsAre, Rows, EditsFit, Fits, RowsComplete
<1>2. ASSUME NEW category \in {"linear", "spot"}, NEW price \in Optional(Prices), FetchPrices(category, price)
      PROVE  TradesInv'
  BY <1>2 DEF FetchPrices, TradesInv, RowsAre, Rows, EditsFit, Fits, RowsComplete
<1> QED
  BY <1>1, <1>2, AddTradeStep, SyncOpensStep, SyncClosesStep, RemoveTradeStep, ReadTradeStep,
     DropEditStep, WriteTradeStep DEF TradesNext

\* A closed trade has an exit, a closing time and a profit, and an open one has none of them; the
\* profit of one entered by hand is what its columns come to unless the user gave another, however
\* edits, removals and the sync interleave (updateManualPosition); two edits that had both read a
\* row before either wrote it are the exception.
THEOREM ClosedTradesAreComplete == TradesSpec => []ClosedIsComplete
<1>1. TradesInit => TradesInv
  BY TradesInvInit
<1>2. TradesInv /\ [TradesNext]_tradesVars => TradesInv'
  BY TradesInvStep
<1>3. TradesInv => ClosedIsComplete
  BY CompleteIsSettled
<1> QED
  BY <1>1, <1>2, <1>3, PTL DEF TradesSpec

-----------------------------------------------------------------------------
(***************************************************************************)
(* Trades: the list, the totals and the curve, from the types of the rows. *)
(* A query comes to a condition on each row (ListIs), so that the sets     *)
(* which the code selects by routes of its own are seen to be the same.    *)
(***************************************************************************)

Profits(S) == [i \in S |-> positions[i].pnl]

LEMMA ProfitsAreSum ==
    ASSUME NEW S
    PROVE  SumPnl(S) = SumFunctionOnSet(Profits({i \in S : positions[i].pnl # NULL}),
                                        {i \in S : positions[i].pnl # NULL})
<1> DEFINE N == {i \in S : positions[i].pnl # NULL}
           f == Profits(N)
           Added(g) == g = [s \in SUBSET N |-> IF s = {} THEN 0 ELSE positions[Picked(s)].pnl + g[s \ {Picked(s)}]]
<1>1. SumPnl(S) = (CHOOSE g : Added(g))[N]
  BY DEF SumPnl, MapThenSumSet, MapThenFoldSet, Picked
<1> HIDE DEF N
<1>2. ASSUME NEW g PROVE Added(g) <=> AddsUp(g, f, N)
  <2>1. ASSUME NEW s \in SUBSET N, s # {} PROVE f[Picked(s)] = positions[Picked(s)].pnl
    <3>1. Picked(s) \in N
      BY <2>1 DEF Picked
    <3> QED
      BY <3>1 DEF Profits
  <2>2. [s \in SUBSET N |-> IF s = {} THEN 0 ELSE positions[Picked(s)].pnl + g[s \ {Picked(s)}]]
        = [s \in SUBSET N |-> Summed(f, g, s)]
    <3> HIDE DEF f
    <3> QED
      BY <2>1 DEF Summed
  <2> QED
    BY <2>2 DEF AddsUp
<1>3. (CHOOSE g : Added(g)) = (CHOOSE g : AddsUp(g, f, N))
  <2> HIDE DEF Added, f
  <2> QED
    BY <1>2
<1>4. SumPnl(S) = SumFunctionOnSet(f, N)
  BY <1>1, <1>3, SumIsFold DEF Fold
<1> QED
  BY <1>4 DEF N

Heights(S) == [p \in S |-> p[3]]

LEMMA HeightsAreSum ==
    ASSUME NEW S
    PROVE  MapThenSumSet(LAMBDA point : point[3], S) = SumFunctionOnSet(Heights(S), S)
<1> DEFINE f == Heights(S)
           Added(g) == g = [s \in SUBSET S |-> IF s = {} THEN 0 ELSE Picked(s)[3] + g[s \ {Picked(s)}]]
<1>1. MapThenSumSet(LAMBDA point : point[3], S) = (CHOOSE g : Added(g))[S]
  BY DEF MapThenSumSet, MapThenFoldSet, Picked
<1>2. ASSUME NEW g PROVE Added(g) <=> AddsUp(g, f, S)
  <2>1. ASSUME NEW s \in SUBSET S, s # {} PROVE f[Picked(s)] = Picked(s)[3]
    <3>1. Picked(s) \in S
      BY <2>1 DEF Picked
    <3> QED
      BY <3>1 DEF Heights
  <2>2. [s \in SUBSET S |-> IF s = {} THEN 0 ELSE Picked(s)[3] + g[s \ {Picked(s)}]]
        = [s \in SUBSET S |-> Summed(f, g, s)]
    <3> HIDE DEF f
    <3> QED
      BY <2>1 DEF Summed
  <2> QED
    BY <2>2 DEF AddsUp
<1>3. (CHOOSE g : Added(g)) = (CHOOSE g : AddsUp(g, f, S))
  <2> HIDE DEF Added, f
  <2> QED
    BY <1>2
<1> QED
  BY <1>1, <1>3, SumIsFold DEF Fold

\* The profit a curve rises by at a row.
Rise(i) == IF positions[i].pnl = NULL THEN 0 ELSE positions[i].pnl

\* A curve has a point of each row: what it comes to is what the rows come to.
LEMMA CurveAddsUp ==
    ASSUME RowsAre, NEW S, S \subseteq Rows
    PROVE  MapThenSumSet(LAMBDA point : point[3], {<<i, positions[i].closed, Rise(i)>> : i \in S}) = SumPnl(S)
<1> DEFINE at == [i \in S |-> <<i, positions[i].closed, Rise(i)>>]
           C == {<<i, positions[i].closed, Rise(i)>> : i \in S}
           N == {i \in S : positions[i].pnl # NULL}
           f == [i \in S |-> Rise(i)]
           h == Heights(C)
           part == [p \in C |-> {p[1]}]
<1>1. IsFiniteSet(S) /\ IsFiniteSet(N) /\ IsFiniteSet(S \ N)
  BY FS_Subset DEF RowsAre
<1>2. \A i \in S : positions[i] \in Position
  BY DEF RowsAre, Rows
<1>3. \A i \in S : f[i] \in Int /\ f[i] = Rise(i)
  BY <1>2 DEF Rise, Position, Optional
<1>4. IsFiniteSet(C)
  <2>1. at \in Surjection(S, C)
    BY DEF Surjection
  <2> HIDE DEF at, C
  <2> QED
    BY <1>1, <2>1, FS_Surjection
<1>5. ASSUME NEW p \in C PROVE part[p] = {p[1]} /\ p[1] \in S /\ h[p] = f[p[1]]
                              /\ p = <<p[1], positions[p[1]].closed, Rise(p[1])>>
  BY DEF Heights
<1>6. ASSUME NEW p \in C PROVE part[p] \in SUBSET S /\ h[p] = SumFunctionOnSet(f, part[p])
  <2> HIDE DEF C, h, f, part
  <2>0. part[p] = {p[1]} /\ p[1] \in S /\ h[p] = f[p[1]]
    BY <1>5
  <2> PICK i : i = p[1]
    OBVIOUS
  <2>1. IsFiniteSet({i}) /\ {i} \ {i} = {} /\ \A x \in {i} : f[x] \in Int
    BY <1>3, <2>0, FS_Singleton
  <2>2. SumFunctionOnSet(f, {i}) = f[i] + SumFunctionOnSet(f, {i} \ {i})
    BY <2>1, SumRemove
  <2>3. SumFunctionOnSet(f, {i}) = f[i]
    <3>1. {i} \ {i} = {}
      BY <2>1
    <3>2. SumFunctionOnSet(f, {i}) = f[i] + SumFunctionOnSet(f, {})
      BY <2>2, <3>1, Zenon
    <3>3. SumFunctionOnSet(f, {}) = 0
      BY SumEmpty
    <3> QED
      BY <2>1, <3>2, <3>3
  <2> QED
    BY <2>0, <2>3
<1>7. \A p, q \in C : p # q => part[p] \cap part[q] = {}
  <2> HIDE DEF C, h, f, part
  <2> QED
    BY <1>5
<1>8. UNION {part[p] : p \in C} = S
  <2>1. ASSUME NEW i \in S PROVE i \in UNION {part[p] : p \in C}
    <3> PICK p : p = <<i, positions[i].closed, Rise(i)>>
      OBVIOUS
    <3>1. p \in C /\ p[1] = i
      OBVIOUS
    <3>2. part[p] = {i}
      BY <1>5, <3>1
    <3> HIDE DEF C, part
    <3> QED
      BY <3>1, <3>2
  <2> HIDE DEF C, h, f
  <2> QED
    BY <2>1, <1>5
<1>9. SumFunctionOnSet(h, C) = SumFunctionOnSet(f, S)
  <2> HIDE DEF C, h, f, part
  <2>1. SumFunctionOnSet(h, C) = SumFunctionOnSet(f, UNION {part[p] : p \in C})
    BY <1>1, <1>3, <1>4, <1>6, <1>7, SumOfParts
  <2> QED
    BY <1>8, <2>1
<1>10. SumFunctionOnSet(f, S) = SumFunctionOnSet(f, N) + SumFunctionOnSet(f, S \ N)
  <2>1. N \cup (S \ N) = S /\ N \cap (S \ N) = {}
    OBVIOUS
  <2> HIDE DEF N, f
  <2> QED
    BY <1>1, <1>3, <2>1, SumDisjoint
<1>11. SumFunctionOnSet(f, S \ N) = 0
  <2>1. \A i \in S \ N : f[i] = 0
    BY DEF Rise
  <2> HIDE DEF N, f
  <2> QED
    BY <1>1, <2>1, SumNone
<1>12. SumFunctionOnSet(f, N) = SumFunctionOnSet(Profits(N), N)
  <2>1. \A i \in N : f[i] = Profits(N)[i]
    BY DEF Rise, Profits
  <2> HIDE DEF N, f
  <2> QED
    BY <1>1, <2>1, SumSame
<1>13. SumFunctionOnSet(f, N) \in Int
  BY <1>1, <1>3, SumInt
<1>14. SumPnl(S) = SumFunctionOnSet(Profits(N), N)
  BY ProfitsAreSum
<1>15. MapThenSumSet(LAMBDA point : point[3], C) = SumFunctionOnSet(h, C)
  BY HeightsAreSum
<1> QED
  BY <1>9, <1>10, <1>11, <1>12, <1>13, <1>14, <1>15

LEMMA QueryChanged ==
    ASSUME NEW q \in Queries, NEW s \in {NULL, "OPEN", "CLOSED"}
    PROVE  LET r == [q EXCEPT !.status = s]
               n == [q EXCEPT !.pnl = NULL]
           IN /\ r \in Queries /\ r.status = s /\ r.pnl = q.pnl /\ r.hideDust = q.hideDust /\ r.from = q.from
              /\ n \in Queries /\ n.status = q.status /\ n.pnl = NULL /\ n.hideDust = q.hideDust /\ n.from = q.from
  BY DEF Queries

\* The filters but for the status asked for.
Within(q, date, i) ==
    /\ q.hideDust => positions[i].qty * positions[i].entry >= Dust
    /\ q.from # NULL => positions[i][date] # NULL /\ positions[i][date] >= q.from

LEMMA WhereIs ==
    ASSUME NEW q, NEW date
    PROVE  BuildPositionsWhere(q, date)
           = {i \in Rows : q.status \in {NULL, positions[i].status} /\ Within(q, date, i)}
  BY DEF BuildPositionsWhere, Within

\* The list, whatever the route the filter by sign takes.
LEMMA ListIs ==
    ASSUME RowsAre, NEW q \in Queries
    PROVE  GetPositions(q)
           = {i \in Rows : /\ q.status \in {NULL, positions[i].status} /\ Within(q, "opened", i)
                           /\ q.pnl # NULL =>
                                 HasSign(q.pnl, IF positions[i].status = "OPEN" THEN Unrealized(positions[i])
                                                ELSE positions[i].pnl)}
<1> PICK where : where = BuildPositionsWhere(q, "opened")
  OBVIOUS
<1>1. where = {i \in Rows : q.status \in {NULL, positions[i].status} /\ Within(q, "opened", i)}
  BY WhereIs
<1>2. \A i \in Rows : positions[i].status \in {"OPEN", "CLOSED"}
  BY DEF RowsAre, Rows, Position
<1> PICK open : open = OpenIdsMatchingPnlSign(q)
  OBVIOUS
<1>3. open = {i \in Rows : /\ positions[i].status = "OPEN" /\ Within(q, "opened", i)
                           /\ HasSign(q.pnl, Unrealized(positions[i]))}
  <2> PICK r : r = [q EXCEPT !.status = "OPEN"]
    OBVIOUS
  <2>1. r.status = "OPEN" /\ r.hideDust = q.hideDust /\ r.from = q.from
    BY QueryChanged
  <2>2. \A i \in Rows : Within(r, "opened", i) <=> Within(q, "opened", i)
    BY <2>1 DEF Within
  <2>3. "OPEN" # NULL
    BY TradesAssumption
  <2>4. BuildPositionsWhere(r, "opened")
        = {i \in Rows : r.status \in {NULL, positions[i].status} /\ Within(r, "opened", i)}
    BY WhereIs
  <2>5. open = {i \in BuildPositionsWhere(r, "opened") : HasSign(q.pnl, Unrealized(positions[i]))}
    BY DEF OpenIdsMatchingPnlSign
  <2>6. \A i \in Rows : r.status \in {NULL, positions[i].status} <=> positions[i].status = "OPEN"
    BY <2>1, <2>3
  <2>7. BuildPositionsWhere(r, "opened") = {i \in Rows : positions[i].status = "OPEN" /\ Within(q, "opened", i)}
    BY <2>2, <2>4, <2>6
  <2> QED
    BY <2>5, <2>7
<1>4. GetPositions(q) =
        IF q.pnl = NULL THEN where
        ELSE {i \in where : positions[i].status = "CLOSED" /\ HasSign(q.pnl, positions[i].pnl)}
             \cup (IF q.status = "CLOSED" THEN {} ELSE where \cap open)
  BY DEF GetPositions, ApplyPnlFilter
<1>5. CASE q.pnl = NULL
  BY <1>1, <1>4, <1>5
<1>6. CASE q.pnl # NULL
  <2>1. GetPositions(q) = {i \in where : positions[i].status = "CLOSED" /\ HasSign(q.pnl, positions[i].pnl)}
                          \cup (IF q.status = "CLOSED" THEN {} ELSE where \cap open)
    BY <1>4, <1>6
  <2>2. "OPEN" # NULL /\ "CLOSED" # NULL
    BY TradesAssumption
  <2>3. ASSUME NEW i \in Rows
        PROVE  i \in GetPositions(q) <=>
                  /\ q.status \in {NULL, positions[i].status} /\ Within(q, "opened", i)
                  /\ HasSign(q.pnl, IF positions[i].status = "OPEN" THEN Unrealized(positions[i])
                                    ELSE positions[i].pnl)
    <3>1. CASE positions[i].status = "OPEN"
      BY <1>1, <1>3, <2>1, <2>2, <3>1
    <3>2. CASE positions[i].status = "CLOSED"
      BY <1>1, <1>3, <2>1, <2>2, <3>2
    <3> QED
      BY <1>2, <3>1, <3>2
  <2>4. GetPositions(q) \subseteq Rows
    BY <1>1, <2>1
  <2> QED
    BY <1>6, <2>3, <2>4
<1> QED
  BY <1>5, <1>6

Splits(S, A, B) == A \cup B = S /\ A \cap B = {}

LEMMA CountsAddUp ==
    ASSUME NEW S, IsFiniteSet(S), NEW A, NEW B, Splits(S, A, B)
    PROVE  /\ Cardinality(S) = Cardinality(A) + Cardinality(B)
           /\ Cardinality(A) \in Nat /\ Cardinality(B) \in Nat
<1>1. IsFiniteSet(A) /\ IsFiniteSet(B)
  BY FS_Subset DEF Splits
<1>2. Cardinality(A \cup B) = Cardinality(A) + Cardinality(B) - Cardinality(A \cap B)
  BY <1>1, FS_Union
<1>3. Cardinality(A \cap B) = 0 /\ Cardinality(A) \in Nat /\ Cardinality(B) \in Nat
  BY <1>1, FS_EmptySet, FS_CardinalityType DEF Splits
<1> QED
  BY <1>2, <1>3 DEF Splits

LEMMA OneFigureAgrees ==
    ASSUME RowsAre, NEW q \in Queries
    PROVE  LET list == GetPositions(q)
               summary == GetPositionsSummary(q)
               Shown(i) == IF positions[i].status = "OPEN" THEN Unrealized(positions[i])
                           ELSE positions[i].pnl
           IN /\ summary.openCount + summary.closedCount = Cardinality(list)
              /\ summary.totalPnl = SumPnl(list)
              /\ q.pnl # NULL =>
                   list = {i \in GetPositions([q EXCEPT !.pnl = NULL]) : HasSign(q.pnl, Shown(i))}
              /\ ~(q.status = "OPEN" /\ q.pnl = NULL) =>
                   /\ summary.winCount =
                         Cardinality({i \in list : positions[i].status = "CLOSED" /\ HasSign("positive", positions[i].pnl)})
                   /\ summary.lossCount =
                         Cardinality({i \in list : positions[i].status = "CLOSED" /\ HasSign("negative", positions[i].pnl)})
                   /\ summary.breakevenCount =
                         Cardinality({i \in list : positions[i].status = "CLOSED" /\ positions[i].pnl \in {0, NULL}})
              /\ q = [q EXCEPT !.status = "CLOSED", !.pnl = NULL, !.from = NULL] =>
                   summary.totalPnl = MapThenSumSet(LAMBDA point : point[3], GetEquityCurve(q))
<1> PICK list : list = GetPositions(q)
  OBVIOUS
<1> PICK summary : summary = GetPositionsSummary(q)
  OBVIOUS
<1> PICK shut : shut = [q EXCEPT !.status = "CLOSED"]
  OBVIOUS
<1> PICK any : any = [q EXCEPT !.pnl = NULL]
  OBVIOUS
<1> DEFINE Shown(i) == IF positions[i].status = "OPEN" THEN Unrealized(positions[i]) ELSE positions[i].pnl
           closed == {i \in list : positions[i].status = "CLOSED"}
           counted == IF q.pnl = NULL THEN GetPositions(shut) ELSE closed
           wins == Cardinality({i \in counted : HasSign("positive", positions[i].pnl)})
           losses == Cardinality({i \in counted : HasSign("negative", positions[i].pnl)})
<1>1. /\ shut \in Queries /\ shut.status = "CLOSED" /\ shut.pnl = q.pnl
      /\ shut.hideDust = q.hideDust /\ shut.from = q.from
      /\ any \in Queries /\ any.pnl = NULL /\ any.status = q.status
      /\ any.hideDust = q.hideDust /\ any.from = q.from
  BY QueryChanged
<1>2. \A i \in Rows : positions[i] \in Position /\ positions[i].status \in {"OPEN", "CLOSED"}
  BY DEF RowsAre, Rows, Position
<1>3. list = {i \in Rows : /\ q.status \in {NULL, positions[i].status} /\ Within(q, "opened", i)
                           /\ q.pnl # NULL => HasSign(q.pnl, Shown(i))}
  BY ListIs
<1>4. "OPEN" # NULL /\ "CLOSED" # NULL /\ NULL \notin Int
  <2>1. NULL \notin Int
    BY NoValue
  <2> QED
    BY <2>1, TradesAssumption
<1>5. list \subseteq Rows /\ IsFiniteSet(list) /\ IsFiniteSet(closed)
  BY <1>3, FS_Subset DEF RowsAre
<1>6. /\ summary.totalPnl = SumPnl(list) /\ summary.openCount = Cardinality(list \ closed)
      /\ summary.closedCount = Cardinality(closed) /\ summary.winCount = wins
      /\ summary.lossCount = losses /\ summary.breakevenCount = Max({Cardinality(closed) - wins - losses, 0})
  BY DEF GetPositionsSummary
<1>7. summary.openCount + summary.closedCount = Cardinality(list)
  <2>1. Splits(list, list \ closed, closed)
    BY DEF Splits
  <2> HIDE DEF closed
  <2>2. /\ Cardinality(list) = Cardinality(list \ closed) + Cardinality(closed)
        /\ Cardinality(list \ closed) \in Nat /\ Cardinality(closed) \in Nat
    BY <1>5, <2>1, CountsAddUp
  <2> QED
    BY <1>6, <2>2
<1>8. q.pnl # NULL => list = {i \in GetPositions(any) : HasSign(q.pnl, Shown(i))}
  <2>1. GetPositions(any) = {i \in Rows : /\ any.status \in {NULL, positions[i].status} /\ Within(any, "opened", i)
                                          /\ any.pnl # NULL => HasSign(any.pnl, Shown(i))}
    BY <1>1, ListIs
  <2>2. \A i \in Rows : Within(any, "opened", i) <=> Within(q, "opened", i)
    BY <1>1 DEF Within
  <2>3. GetPositions(any) = {i \in Rows : q.status \in {NULL, positions[i].status} /\ Within(q, "opened", i)}
    BY <1>1, <2>1, <2>2
  <2> HIDE DEF Shown
  <2> QED
    BY <1>3, <2>3
<1>9. ASSUME ~(q.status = "OPEN" /\ q.pnl = NULL)
      PROVE  /\ summary.winCount = Cardinality({i \in closed : HasSign("positive", positions[i].pnl)})
             /\ summary.lossCount = Cardinality({i \in closed : HasSign("negative", positions[i].pnl)})
             /\ summary.breakevenCount = Cardinality({i \in closed : positions[i].pnl \in {0, NULL}})
  <2>1. counted = closed
    <3>1. CASE q.pnl # NULL
      BY <3>1
    <3>2. CASE q.pnl = NULL
      <4>1. q.status \in {NULL, "CLOSED"}
        BY <1>9, <3>2 DEF Queries
      <4>2. GetPositions(shut) = {i \in Rows : /\ shut.status \in {NULL, positions[i].status} /\ Within(shut, "opened", i)
                                               /\ shut.pnl # NULL => HasSign(shut.pnl, Shown(i))}
        BY <1>1, ListIs
      <4>3. \A i \in Rows : Within(shut, "opened", i) <=> Within(q, "opened", i)
        BY <1>1 DEF Within
      <4>4. GetPositions(shut) = {i \in Rows : positions[i].status = "CLOSED" /\ Within(q, "opened", i)}
        BY <1>1, <1>4, <3>2, <4>2, <4>3
      <4>5. closed = {i \in Rows : positions[i].status = "CLOSED" /\ Within(q, "opened", i)}
        BY <1>3, <3>2, <4>1
      <4> QED
        BY <3>2, <4>4, <4>5
    <3> QED
      BY <3>1, <3>2
  <2> DEFINE up == {i \in closed : HasSign("positive", positions[i].pnl)}
             down == {i \in closed : HasSign("negative", positions[i].pnl)}
             even == {i \in closed : positions[i].pnl \in {0, NULL}}
  <2>2. \A i \in closed : positions[i].pnl = NULL \/ positions[i].pnl \in Int
    BY <1>2, <1>5 DEF Position, Optional
  <2>3. Splits(closed, up \cup down, even) /\ Splits(up \cup down, up, down) /\ up \cup down \subseteq closed
    <3> HIDE DEF closed
    <3> QED
      BY <1>4, <2>2 DEF HasSign, Splits
  <2>4. wins = Cardinality(up) /\ losses = Cardinality(down)
    BY <2>1
  <2> HIDE DEF up, down, even, closed, wins, losses
  <2>5. IsFiniteSet(up \cup down)
    BY <1>5, <2>3, FS_Subset
  <2>6. /\ Cardinality(closed) = Cardinality(up \cup down) + Cardinality(even)
        /\ Cardinality(even) \in Nat
    BY <1>5, <2>3, CountsAddUp
  <2>7. /\ Cardinality(up \cup down) = Cardinality(up) + Cardinality(down)
        /\ Cardinality(up) \in Nat /\ Cardinality(down) \in Nat
    BY <2>3, <2>5, CountsAddUp
  <2>8. Cardinality(closed) - wins - losses = Cardinality(even)
    BY <2>4, <2>6, <2>7
  <2>9. Max({Cardinality(even), 0}) = Cardinality(even)
    <3> PICK n \in Nat : n = Cardinality(even)
      BY <2>6
    <3>1. Max({n, 0}) = n
      BY DEF Max
    <3> QED
      BY <3>1
  <2> QED
    BY <1>6, <2>4, <2>8, <2>9 DEF up, down, even
<1>10. ASSUME q = [q EXCEPT !.status = "CLOSED", !.pnl = NULL, !.from = NULL]
       PROVE  summary.totalPnl = MapThenSumSet(LAMBDA point : point[3], GetEquityCurve(q))
  <2>1. q.status = "CLOSED" /\ q.pnl = NULL /\ q.from = NULL
    BY <1>10 DEF Queries
  <2>2. BuildPositionsWhere(shut, "closed")
        = {i \in Rows : shut.status \in {NULL, positions[i].status} /\ Within(shut, "closed", i)}
    BY WhereIs
  <2>3. \A i \in Rows : Within(shut, "closed", i) <=> Within(q, "opened", i)
    BY <1>1, <2>1 DEF Within
  <2>4. BuildPositionsWhere(shut, "closed") = list
    BY <1>1, <1>3, <2>1, <2>2, <2>3
  <2>5. GetEquityCurve(q) = {<<i, positions[i].closed, Rise(i)>> : i \in list}
    BY <2>4 DEF GetEquityCurve, Rise
  <2>6. MapThenSumSet(LAMBDA point : point[3], {<<i, positions[i].closed, Rise(i)>> : i \in list}) = SumPnl(list)
    BY <1>5, CurveAddsUp
  <2> QED
    BY <1>6, <2>5, <2>6
<1>11. /\ closed = {i \in list : positions[i].status = "CLOSED"}
       /\ {i \in closed : HasSign("positive", positions[i].pnl)}
          = {i \in list : positions[i].status = "CLOSED" /\ HasSign("positive", positions[i].pnl)}
       /\ {i \in closed : HasSign("negative", positions[i].pnl)}
          = {i \in list : positions[i].status = "CLOSED" /\ HasSign("negative", positions[i].pnl)}
       /\ {i \in closed : positions[i].pnl \in {0, NULL}}
          = {i \in list : positions[i].status = "CLOSED" /\ positions[i].pnl \in {0, NULL}}
  OBVIOUS
<1> HIDE DEF closed, Shown
<1> QED
  BY <1>6, <1>7, <1>8, <1>9, <1>10, <1>11 DEF Shown

LEMMA FiguresAgree == ASSUME RowsAre PROVE TradeFiguresAgree
  BY OneFigureAgrees DEF TradeFiguresAgree

\* For every query the totals are those of the list, wins, losses and neither add up, a filter by
\* sign keeps the rows that show a profit of that sign, and the curve comes to the same profit
\* (getPositions, getPositionsSummary, getEquityCurve, applyPnlFilter).
THEOREM TradeFiguresAlwaysAgree == TradesSpec => []TradeFiguresAgree
<1>1. TradesInit => TradesInv
  BY TradesInvInit
<1>2. TradesInv /\ [TradesNext]_tradesVars => TradesInv'
  BY TradesInvStep
<1>3. TradesInv => TradeFiguresAgree
  BY FiguresAgree DEF TradesInv
<1> QED
  BY <1>1, <1>2, <1>3, PTL DEF TradesSpec
=============================================================================
