------------------------------- MODULE Matching -------------------------------
(***************************************************************************)
(* How the diary pairs fills. Spot: every purchase is a lot, a sale        *)
(* consumes the newest lots first, and each pairing is a row of the diary, *)
(* which every sync writes over the rows of the sync before. Derivatives:  *)
(* the exchange reports what was closed, and the fills tell since when it  *)
(* had been open.                                                          *)
(*                                                                         *)
(* One symbol of each. A fill is identified by its place in the order of   *)
(* execution. Fees are left out but for a purchase's in the coin bought,   *)
(* which makes the lot smaller.                                            *)
(***************************************************************************)
EXTENDS Integers, FiniteSets, SequencesExt

CONSTANTS
    Quantities, \* quantities of fills
    Fees,       \* fees of purchases, in the coin
    Bounds,     \* how many fills there are of each market, and the highest fee, in each part of the run
    NULL

MatchingAssumption ==
    /\ Quantities \subseteq Nat \ {0} /\ Fees \subseteq Nat
    /\ Bounds \subseteq [spot: Nat, linear: Nat, fee: Nat] /\ NULL \notin Int

VARIABLES
    bound,   \* the bounds of this part of the run
    fills,   \* spot fills executed: a sequence
    known,   \* the places of those the sync has stored
    diary,   \* positions of category spot, by orderId
    pc,      \* the rebuild: "idle", or "open" between its two loops
    late,    \* history: a fill was stored after the diary was built from a later one
    built,   \* history: the fills the last complete rebuild matched
    traded,  \* derivative fills executed: a sequence
    closings \* closing records the exchange reported, in order

spot   == <<fills, known, diary, pc, late, built>>
linear == <<traded, closings>>
vars   == <<bound, spot, linear>>

Fill    == [side: {"Buy", "Sell"}, qty: Quantities, fee: Fees]
Order   == [lot: Nat, sale: Nat \cup {NULL}]   \* spot-open:<lot>, or spot:<lot>:<sale>
Entry   == [order: Order, qty: Nat, sale: Nat \cup {NULL}]   \* open, or closed by a sale

TypeOK ==
    /\ fills \in Seq(Fill) /\ known \subseteq DOMAIN fills
    /\ diary \subseteq Entry /\ \A e, f \in diary : e.order = f.order => e = f
    /\ pc \in {"idle", "open"} /\ late \in BOOLEAN /\ built \subseteq known
    /\ bound \in Bounds
    /\ traded \in Seq([side: {"Buy", "Sell"}, qty: Quantities, closedSize: Nat])
    /\ closings \in Seq([side: {"Buy", "Sell"}, qty: Nat, at: Nat])

Init ==
    /\ fills = <<>> /\ known = {} /\ diary = {} /\ pc = "idle" /\ late = FALSE
    /\ built = {} /\ bound \in Bounds
    /\ traded = <<>> /\ closings = <<>>

-----------------------------------------------------------------------------
(* Consuming lots *)

Sum(lots, places) == FoldFunctionOnSet(+, 0, [i \in DOMAIN lots |-> lots[i].qty], places)

\* What a quantity takes of a lot when the lots at `ahead` are consumed before it.
Take(lots, i, qty, ahead) ==
    LET left == qty - Sum(lots, ahead)
    IN IF left <= 0 THEN 0 ELSE IF left < lots[i].qty THEN left ELSE lots[i].qty

Newer(lots, i) == (i + 1)..Len(lots)
Older(lots, i) == 1..(i - 1)

\* The lots after a quantity took `taken[i]` of each; drained ones are gone.
Remaining(lots, taken) ==
    SelectSeq([i \in DOMAIN lots |-> [lots[i] EXCEPT !.qty = @ - taken[i]]], LAMBDA lot : lot.qty > 0)

-----------------------------------------------------------------------------
(* Spot: computeSpotPositions and rebuildSpotPositions *)

\* Faulty version: the oldest lots are consumed first.
OldestFirst(lots, qty) == [i \in DOMAIN lots |-> Take(lots, i, qty, Older(lots, i))]

Taken(lots, qty) == [i \in DOMAIN lots |-> Take(lots, i, qty, Newer(lots, i))]

\* One fill of the walk: a purchase is a new lot, a sale consumes lots, each into a slice.
Match(acc, place) ==
    LET fill == fills[place]
        received == fill.qty - fill.fee
        taken == Taken(acc.lots, fill.qty)
    IN IF fill.side = "Buy"
       THEN IF received <= 0 THEN acc
            ELSE [acc EXCEPT !.lots = Append(@, [id |-> place, qty |-> received])]
       ELSE [lots |-> Remaining(acc.lots, taken),
             slices |-> acc.slices \cup
                 {[lot |-> acc.lots[i].id, sale |-> place, qty |-> taken[i],
                   closesLot |-> taken[i] = acc.lots[i].qty] :
                      i \in {j \in DOMAIN acc.lots : taken[j] > 0}}]

Matched == FoldLeft(Match, [lots |-> <<>>, slices |-> {}], SetToSortSeq(known, <))

\* A slice that drains its lot is the lot's own row, another one a row of its own.
OrderOf(slice) == [lot |-> slice.lot, sale |-> IF slice.closesLot THEN NULL ELSE slice.sale]

Upserted(entries) ==
    {e \in diary : \A f \in entries : f.order # e.order} \cup entries

\* saveExecutions: fills the exchange lists, in any order.
Store(place) ==
    /\ pc = "idle" /\ place \in DOMAIN fills \ known
    /\ known' = known \cup {place}
    /\ late' = (late \/ \E e \in diary : place < e.order.lot \/ (e.sale # NULL /\ place < e.sale))
    /\ UNCHANGED <<bound, fills, diary, pc, built, linear>>

WriteClosed ==
    /\ pc = "idle" /\ known # {}
    /\ diary' = Upserted({[order |-> OrderOf(s), qty |-> s.qty, sale |-> s.sale] : s \in Matched.slices})
    /\ pc' = "open"
    /\ UNCHANGED <<bound, fills, known, late, built, linear>>

WriteOpen ==
    /\ pc = "open"
    /\ diary' = Upserted({[order |-> [lot |-> l.id, sale |-> NULL], qty |-> l.qty, sale |-> NULL] :
                              l \in ToSet(Matched.lots)})
    /\ pc' = "idle" /\ built' = known
    /\ UNCHANGED <<bound, fills, known, late, linear>>

\* The process stops between the two loops; the next sync starts over.
Stop ==
    /\ pc = "open" /\ pc' = "idle"
    /\ UNCHANGED <<bound, fills, known, diary, late, built, linear>>

Execute(fill) ==
    /\ Len(fills) < bound.spot /\ fill.fee <= bound.fee
    /\ fill.side = "Sell" => fill.fee = 0
    /\ fills' = Append(fills, fill)
    /\ UNCHANGED <<bound, known, diary, pc, late, built, linear>>

-----------------------------------------------------------------------------
(* Derivatives: deriveLinearOpenedAt *)

Opposite(side) == IF side = "Buy" THEN "Sell" ELSE "Buy"

\* What is open of a side after n fills: what its fills opened less what closed it.
OpenSize(side, n) ==
    FoldLeft(LAMBDA size, f : size + (IF f.side = side THEN f.qty - f.closedSize ELSE -f.closedSize),
             0, SubSeq(traded, 1, n))

\* The exchange closes what is open of the other side before it opens.
Trade(side, qty) ==
    LET open == OpenSize(Opposite(side), Len(traded))
        closed == IF open < qty THEN open ELSE qty
    IN /\ Len(traded) < bound.linear
       /\ traded' = Append(traded, [side |-> side, qty |-> qty, closedSize |-> closed])
       /\ closings' = IF closed = 0 THEN closings
                      ELSE Append(closings, [side |-> side, qty |-> closed, at |-> Len(traded) + 1])
       /\ UNCHANGED <<bound, spot>>

\* Faulty version: a fill counts as opening in full, as if closedSize were missing.
Whole(fill) == fill.qty

OpeningQty(fill) == fill.qty - fill.closedSize

\* Fills up to the closing that the walk has not fed yet go to the queue of their side.
Fed(acc, upTo) ==
    LET fresh(side) == SelectSeq([i \in 1..upTo |-> [id |-> i, qty |-> OpeningQty(traded[i])]],
                                 LAMBDA l : l.id > acc.fed /\ traded[l.id].side = side /\ l.qty > 0)
    IN [acc EXCEPT !.fed = upTo,
                   !.queues = [side \in {"Buy", "Sell"} |-> acc.queues[side] \o fresh(side)]]

\* One closing: the oldest lots of the entry side; the first one touched dates the position.
Derive(acc, closing) ==
    LET fed == Fed(acc, closing.at)
        side == Opposite(closing.side)
        lots == fed.queues[side]
        taken == [i \in DOMAIN lots |-> Take(lots, i, closing.qty, Older(lots, i))]
    IN [fed EXCEPT !.queues[side] = Remaining(lots, taken),
                   !.openedAt = Append(@, IF lots = <<>> THEN NULL ELSE lots[1].id)]

OpenedAt ==
    FoldLeft(Derive, [fed |-> 0, queues |-> [side \in {"Buy", "Sell"} |-> <<>>], openedAt |-> <<>>],
             closings).openedAt

Next ==
    \/ \E fill \in Fill : Execute(fill)
    \/ \E place \in DOMAIN fills : Store(place)
    \/ WriteClosed \/ WriteOpen \/ Stop
    \/ \E side \in {"Buy", "Sell"}, qty \in Quantities : Trade(side, qty)

Spec == Init /\ [][Next]_vars

-----------------------------------------------------------------------------
(* Properties *)

QtyOf(entries) == FoldFunctionOnSet(+, 0, [e \in entries |-> e.qty], entries)

Received(place) ==
    IF fills[place].side = "Sell" \/ fills[place].qty <= fills[place].fee THEN 0
    ELSE fills[place].qty - fills[place].fee

\* What the diary says was left of a lot once the fills up to a place were matched.
LeftAfter(lot, place) ==
    Received(lot) - QtyOf({e \in diary : e.order.lot = lot /\ e.sale # NULL /\ e.sale <= place})

\* The diary accounts for every coin: each purchase is there in full, open or closed, and a sale
\* closes as much as was held, newest purchases first (spot-lifo.util.ts:1-10): once rebuilt, and
\* whatever rebuild was cut off before. A fill stored after the diary was built from a later one
\* leaves rows of the former matching behind (investing-sync.service.ts:270-320 only writes rows).
DiaryMatchesFills ==
    built = known /\ ~late =>
        /\ \A p \in known : QtyOf({e \in diary : e.order.lot = p}) = Received(p)
        /\ \A e \in diary : e.sale # NULL =>
               \A p \in known : e.order.lot < p /\ p < e.sale => LeftAfter(p, e.sale) = 0

\* A closed position was opened before it was closed, by a fill of the entry side that opened
\* something, and not before the symbol was last flat (linear-fifo.util.ts:1-5).
OpenedSinceFlat ==
    \A i \in DOMAIN closings :
        LET at == OpenedAt[i]
        IN /\ at # NULL /\ at < closings[i].at
           /\ traded[at].side = Opposite(closings[i].side)
           /\ traded[at].closedSize < traded[at].qty
           /\ \A n \in at..(closings[i].at - 1) : OpenSize(traded[at].side, n) > 0
=============================================================================
