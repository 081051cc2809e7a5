--------------------------- MODULE VenueSyncProofs ---------------------------
(***************************************************************************)
(* Theorems about VenueSync, for any number of movements and venues, any   *)
(* window and overlap of the import, and any lateness of the exchange that *)
(* the overlap covers.                                                     *)
(***************************************************************************)
EXTENDS VenueSync, Sums, TLAPS

(***************************************************************************)
(* Types.  FUND never holds less than nothing, because a withdrawal or a   *)
(* move takes what is there; a run has the venue it writes to; and stamps, *)
(* baselines and cursors lie in the past.                                  *)
(***************************************************************************)

Events == gains + moved + Cardinality(Deposits) + Cardinality(Debits)
Funds == Events <= MaxEvents /\ InFund >= 0

Succeeded(m) == movement[m] # NULL /\ movement[m].at # NULL

Stamps ==
    \A m \in Movements :
        /\ movement[m] # NULL /\ ~Succeeded(m) => movement[m].out /\ ~movement[m].listed
        /\ Succeeded(m) => movement[m].at <= clock /\ movement[m].at < MaxTime

\* Whatever is stamped from now on is stamped later.
Past(t) == t < clock \/ clock = MaxTime + 1

Opened(v) == Present(v) /\ venue[v].openingFundAt # NULL

VenueTimes ==
    \A v \in Venues : Present(v) =>
        /\ Opened(v) => venue[v].openingFundAt <= clock
        /\ venue[v].syncedTo # NULL => Past(venue[v].syncedTo)

Importing == run.pc \in {"import", "advance"}

RunKnows ==
    /\ At("read") => run.venue \in Venues /\ Present(run.venue)
    /\ Importing =>
          /\ run.venue \in Venues /\ Opened(run.venue)
          /\ run.floor <= venue[run.venue].openingFundAt
          /\ run.to <= run.now /\ Past(run.now)

Sound == TypeOK /\ Funds /\ Stamps /\ VenueTimes /\ RunKnows

LEMMA TimeIs == Time \subseteq Nat /\ 0 \in Time /\ 1 \in Time /\ NULL \notin Time /\ NULL \notin Money /\ 0 \in Money
BY VenueAssumption DEF Time, Money

LEMMA IdleIsRun == Idle \in Run /\ NewVenue \in Venue
BY TimeIs DEF Idle, Run, Steps, NewVenue, Venue

LEMMA MovementsAre == ASSUME TypeOK, NEW m \in Movements, movement[m] # NULL PROVE movement[m] \in Movement
BY DEF TypeOK

LEMMA VenuesAre == ASSUME TypeOK, NEW v \in Venues, Present(v) PROVE venue[v] \in Venue
BY DEF TypeOK, Present

LEMMA Counted ==
    /\ Cardinality(Deposits) \in Nat /\ Cardinality(Debits) \in Nat
    /\ IsFiniteSet(Deposits) /\ IsFiniteSet(Debits)
    /\ Cardinality(Deposits \cup Debits) = Cardinality(Deposits) + Cardinality(Debits)
<1>1. IsFiniteSet(Deposits) /\ IsFiniteSet(Debits)
  BY VenueAssumption, FS_Subset DEF Deposits, Debits
<1>2. Deposits \cap Debits = {}
  BY DEF Deposits, Debits
<1>3. Cardinality(Deposits) \in Nat /\ Cardinality(Debits) \in Nat
  BY <1>1, FS_CardinalityType
<1>4. Cardinality(Deposits \cup Debits) = Cardinality(Deposits) + Cardinality(Debits) - 0
  BY <1>1, <1>2, FS_Union, FS_EmptySet
<1> QED
  BY <1>1, <1>3, <1>4

LEMMA InFundIs == TypeOK /\ Funds => InFund \in Money /\ InTrading \in Money /\ gains \in Money
BY Counted, VenueAssumption DEF TypeOK, Funds, Events, InFund, InTrading, Money

LEMMA InitSound == Init => Sound
<1> SUFFICES ASSUME Init PROVE Sound
  OBVIOUS
<1>1. TypeOK
  <2>1. 1 \in Time /\ 0 \in 0..MaxEvents /\ 0 \in Money
    BY TimeIs, VenueAssumption
  <2>2. /\ movement \in [Movements -> Movement \cup {NULL}] /\ venue \in [Venues -> Venue \cup {NULL}]
        /\ transfer \in [Venues \X Movements -> {NULL, -1, 0, 1}]
        /\ \A v \in Venues : venue[v] = NULL
    BY DEF Init
  <2> QED
    BY <2>1, <2>2, IdleIsRun DEF Init, TypeOK
<1>2. Deposits = {} /\ Debits = {}
  BY DEF Init, Deposits, Debits
<1>3. Cardinality(Deposits) = 0 /\ Cardinality(Debits) = 0
  BY <1>2, FS_EmptySet
<1>4. Funds
  BY <1>3, VenueAssumption DEF Init, Funds, Events, InFund
<1>5. At("idle")
  BY DEF Init, At, Idle
<1> QED
  BY <1>1, <1>4, <1>5 DEF Init, Sound, Stamps, Succeeded, VenueTimes, RunKnows, Importing, At, Present

\* A movement changes as movements do.
LEMMA MovementSound ==
    ASSUME Sound, NEW m \in Movements, NEW n \in Movement, movement' = [movement EXCEPT ![m] = n],
           n.at = NULL => n.out /\ ~n.listed, n.at # NULL => n.at <= clock /\ n.at < MaxTime,
           Funds', blurred' \in BOOLEAN, UNCHANGED <<clock, gains, moved, tables, run, won>>
    PROVE  Sound'
<1> USE DEF Sound
<1>1. TypeOK'
  BY DEF TypeOK, tables
<1>2. movement'[m] = n /\ n # NULL /\ \A x \in Movements : x # m => movement'[x] = movement[x]
  BY VenueAssumption DEF TypeOK
<1>3. Stamps'
  BY <1>2 DEF Stamps, Succeeded
<1> QED
  BY <1>1, <1>3 DEF tables, VenueTimes, RunKnows, Opened, Present, Past, Importing, At

\* One more deposit or withdrawal, while more may happen.
LEMMA OneMore ==
    ASSUME TypeOK, NEW m \in Movements, movement[m] = NULL, NEW n \in Movement, movement' = [movement EXCEPT ![m] = n]
    PROVE  IF n.out THEN /\ Cardinality(Debits)' = Cardinality(Debits) + 1
                         /\ Cardinality(Deposits)' = Cardinality(Deposits)
                    ELSE /\ Cardinality(Deposits)' = Cardinality(Deposits) + 1
                         /\ Cardinality(Debits)' = Cardinality(Debits)
<1>1. movement'[m] = n /\ n # NULL /\ \A x \in Movements : x # m => movement'[x] = movement[x]
  BY VenueAssumption DEF TypeOK
<1>2. CASE n.out
  <2>1. Debits' = Debits \cup {m} /\ m \notin Debits /\ Deposits' = Deposits
    BY <1>1, <1>2 DEF Debits, Deposits
  <2>2. Cardinality(Debits \cup {m}) = Cardinality(Debits) + 1
    BY <2>1, Counted, FS_AddElement
  <2> QED
    BY <1>2, <2>1, <2>2
<1>3. CASE ~n.out
  <2>1. Deposits' = Deposits \cup {m} /\ m \notin Deposits /\ Debits' = Debits
    BY <1>1, <1>3 DEF Debits, Deposits
  <2>2. Cardinality(Deposits \cup {m}) = Cardinality(Deposits) + 1
    BY <2>1, Counted, FS_AddElement
  <2> QED
    BY <1>3, <2>1, <2>2
<1> QED
  BY <1>2, <1>3

LEMMA SameCount ==
    ASSUME TypeOK, NEW m \in Movements, movement[m] # NULL, NEW n \in Movement, movement' = [movement EXCEPT ![m] = n],
           n.out <=> movement[m].out
    PROVE  Deposits' = Deposits /\ Debits' = Debits
<1>1. movement'[m] = n /\ n # NULL /\ \A x \in Movements : x # m => movement'[x] = movement[x]
  BY VenueAssumption DEF TypeOK
<1> QED
  BY <1>1 DEF Deposits, Debits

LEMMA BlurredIs == TypeOK /\ FundChanges => blurred' \in BOOLEAN
BY DEF FundChanges, TypeOK

LEMMA ExchangeSound == Sound /\ Exchange => Sound'
<1> SUFFICES ASSUME Sound, Exchange PROVE Sound'
  OBVIOUS
<1> USE DEF Sound
<1>0. /\ gains \in Nat /\ moved \in Nat /\ MaxEvents \in Nat /\ clock \in Time
      /\ Events <= MaxEvents /\ InFund >= 0
  BY VenueAssumption DEF TypeOK, Funds
<1>1. CASE Tick
  <2>1. clock' \in Time /\ clock < clock' /\ clock < MaxTime /\ MaxTime \in Nat
    BY <1>1, <1>0, VenueAssumption DEF Tick, Time
  <2>2. Stamps'
    <3> SUFFICES ASSUME NEW m \in Movements, Succeeded(m) PROVE movement[m].at <= clock' /\ movement[m].at < MaxTime
      BY <1>1 DEF Tick, exchange, Stamps, Succeeded
    <3>1. movement[m].at \in Nat
      BY MovementsAre, TimeIs DEF Succeeded, Movement
    <3> QED
      BY <1>0, <2>1, <3>1, TimeIs DEF Stamps
  <2>3. VenueTimes'
    <3> SUFFICES ASSUME NEW v \in Venues, Present(v)
                 PROVE  /\ Opened(v) => venue[v].openingFundAt <= clock'
                        /\ venue[v].syncedTo # NULL => venue[v].syncedTo < clock' \/ clock' = MaxTime + 1
      BY <1>1 DEF Tick, tables, VenueTimes, Opened, Present, Past
    <3>1. venue[v].openingFundAt \in Nat \cup {NULL} /\ venue[v].syncedTo \in Nat \cup {NULL}
      BY VenuesAre, TimeIs DEF Venue
    <3> QED
      BY <1>0, <2>1, <3>1, TimeIs DEF VenueTimes, Past, Opened
  <2>4. RunKnows'
    <3>1. run.now \in Nat
      BY TimeIs DEF TypeOK, Run
    <3>2. Past(run.now) => Past(run.now)'
      BY <1>0, <1>1, <2>1, <3>1, TimeIs DEF Past, Tick
    <3> QED
      BY <1>1, <3>2 DEF Tick, tables, RunKnows, Opened, Present, Importing, At
  <2> QED
    BY <1>1, <2>1, <2>2, <2>3, <2>4 DEF Tick, exchange, tables, history, TypeOK, Funds, Events, InFund, Deposits, Debits
<1>2. CASE MoveToTrading
  <2>1. moved' = moved + 1 /\ UNCHANGED <<clock, gains, movement, tables, run, won>> /\ blurred' \in BOOLEAN
    BY <1>2 DEF MoveToTrading, TypeOK
  <2>2. Events + 1 <= MaxEvents /\ InFund > 0
    BY <1>0, <1>2, Counted DEF MoveToTrading, MoreHappens, Events
  <2>3. Funds' /\ moved' \in 0..MaxEvents
    <3>1. Deposits' = Deposits /\ Debits' = Debits
      BY <2>1 DEF Deposits, Debits
    <3> QED
      BY <1>0, <2>1, <2>2, <3>1, Counted DEF Funds, Events, InFund
  <2> QED
    BY <2>1, <2>3 DEF tables, TypeOK, Stamps, Succeeded, VenueTimes, RunKnows, Opened, Present, Past, Importing, At
<1>3. CASE Trade
  <2>1. gains' = gains + 1 /\ UNCHANGED <<clock, moved, movement, tables, run, history>>
    BY <1>3 DEF Trade
  <2>2. Events + 1 <= MaxEvents
    BY <1>0, <1>3, Counted DEF Trade, MoreHappens, Events
  <2>3. Funds' /\ gains' \in 0..MaxEvents
    <3>1. Deposits' = Deposits /\ Debits' = Debits
      BY <2>1 DEF Deposits, Debits
    <3> QED
      BY <1>0, <2>1, <2>2, <3>1, Counted DEF Funds, Events, InFund
  <2> QED
    BY <2>1, <2>3 DEF tables, history, TypeOK, Stamps, Succeeded, VenueTimes, RunKnows, Opened, Present, Past, Importing, At
<1>4. ASSUME NEW m \in Movements, Deposit(m) PROVE Sound'
  <2> DEFINE n == Stamped(FALSE)
  <2>1. n \in Movement /\ n.at <= clock /\ n.at < MaxTime /\ n.at # NULL /\ ~n.out
    BY <1>0, <1>4, TimeIs DEF Deposit, Stamped, Movement
  <2>2. movement[m] = NULL /\ movement' = [movement EXCEPT ![m] = n] /\ Events + 1 <= MaxEvents
    BY <1>0, <1>4, Counted DEF Deposit, MoreHappens, Events
  <2> HIDE DEF n
  <2>3. Cardinality(Deposits)' = Cardinality(Deposits) + 1 /\ Cardinality(Debits)' = Cardinality(Debits)
    BY <2>1, <2>2, OneMore
  <2>4. Funds'
    BY <1>0, <1>4, <2>2, <2>3, Counted DEF Deposit, Funds, Events, InFund
  <2> QED
    BY <1>4, <2>1, <2>2, <2>4, BlurredIs, MovementSound DEF Deposit
<1>5. ASSUME NEW m \in Movements, Withdraw(m) PROVE Sound'
  <2> DEFINE n == [Stamped(TRUE) EXCEPT !.at = NULL]
  <2>1. n \in Movement /\ n.at = NULL /\ n.out /\ ~n.listed
    BY <1>0 DEF Stamped, Movement
  <2>2. movement[m] = NULL /\ movement' = [movement EXCEPT ![m] = n] /\ Events + 1 <= MaxEvents /\ InFund > 0
    BY <1>0, <1>5, Counted DEF Withdraw, MoreHappens, Events
  <2> HIDE DEF n
  <2>3. Cardinality(Debits)' = Cardinality(Debits) + 1 /\ Cardinality(Deposits)' = Cardinality(Deposits)
    BY <2>1, <2>2, OneMore
  <2>4. Funds'
    BY <1>0, <1>5, <2>2, <2>3, Counted DEF Withdraw, Funds, Events, InFund
  <2> QED
    BY <1>5, <2>1, <2>2, <2>4, BlurredIs, MovementSound DEF Withdraw
<1>6. ASSUME NEW m \in Movements, NEW n \in Movement, movement[m] # NULL, movement' = [movement EXCEPT ![m] = n],
             n.out <=> movement[m].out, n.at # NULL, n.at <= clock, n.at < MaxTime,
             UNCHANGED <<clock, gains, moved, tables, run, history>>
      PROVE  Sound'
  <2>1. Deposits' = Deposits /\ Debits' = Debits
    BY <1>6, SameCount
  <2>2. Funds'
    BY <1>6, <2>1 DEF Funds, Events, InFund
  <2> QED
    BY <1>6, <2>2, MovementSound DEF history, TypeOK
<1>7. ASSUME NEW m \in Movements, WithdrawalSucceeds(m) PROVE Sound'
  <2> DEFINE n == Stamped(TRUE)
  <2>1. n \in Movement /\ n.at <= clock /\ n.at < MaxTime /\ n.at # NULL /\ n.out
    BY <1>0, <1>7, TimeIs DEF WithdrawalSucceeds, Stamped, Movement
  <2>2. movement[m] # NULL /\ movement' = [movement EXCEPT ![m] = n] /\ movement[m].out
    BY <1>7 DEF WithdrawalSucceeds, Stamps, Succeeded
  <2> HIDE DEF n
  <2> QED
    BY <1>6, <1>7, <2>1, <2>2 DEF WithdrawalSucceeds
<1>8. ASSUME NEW m \in Movements, ListMovement(m) PROVE Sound'
  <2> DEFINE n == [movement[m] EXCEPT !.listed = TRUE]
  <2>1. movement[m] \in Movement /\ Succeeded(m)
    BY <1>8, MovementsAre DEF ListMovement, Succeeded
  <2>2. n \in Movement /\ n.at = movement[m].at /\ (n.out <=> movement[m].out)
    BY <2>1 DEF Movement
  <2>3. movement' = [movement EXCEPT ![m] = n]
    BY <1>8 DEF ListMovement
  <2> HIDE DEF n
  <2> QED
    BY <1>6, <1>8, <2>1, <2>2, <2>3 DEF ListMovement, Stamps, Succeeded
<1> QED
  BY <1>1, <1>2, <1>3, <1>4, <1>5, <1>7, <1>8 DEF Exchange

LEMMA MomentIs ==
    Sound /\ Moment => /\ clock' \in Time /\ clock <= clock'
                       /\ \A t \in Time : t <= clock => t < clock' \/ clock' = MaxTime + 1
                       /\ \A t \in Time : Past(t) => t < clock' \/ clock' = MaxTime + 1
BY VenueAssumption DEF Sound, TypeOK, Moment, Least, Time, Past

\* Time may pass, and rows of venues change as rows do: a baseline moves forward, and so stays.
LEMMA RowsSound ==
    ASSUME Sound, clock' = clock \/ Moment, UNCHANGED <<exchange>>,
           connected' \in BOOLEAN, won' \in Money, blurred' \in BOOLEAN,
           transfer' \in [Venues \X Movements -> {NULL, -1, 0, 1}],
           venue' \in [Venues -> Venue \cup {NULL}],
           \A v \in Venues : Present(v) => Present(v)',
           \A v \in Venues : Present(v)' =>
              \/ /\ Present(v) /\ venue'[v].openingFund = venue[v].openingFund
                 /\ venue'[v].openingFundAt = venue[v].openingFundAt
              \/ venue'[v].openingFund \in Money /\ venue'[v].openingFundAt = clock'
              \/ ~Present(v) /\ venue'[v].openingFund = NULL /\ venue'[v].openingFundAt = NULL,
           \A v \in Venues : Present(v)' =>
              \/ Present(v) /\ venue'[v].syncedTo = venue[v].syncedTo
              \/ venue'[v].syncedTo = NULL
              \/ Opened(v)' /\ (venue'[v].syncedTo < clock \/ clock = MaxTime + 1),
           run' \in Run,
           \/ run' = run
           \/ run'.pc = "read" /\ run'.venue \in Venues /\ venue'[run'.venue] # NULL
           \/ /\ run'.pc = run.pc /\ run'.venue = run.venue /\ run'.now = run.now
              /\ run'.floor = run.floor /\ run'.to = run.to
           \/ run'.pc \in {"idle", "create", "movements"}
           \/ /\ run'.pc \in {"import", "advance"} /\ venue' = venue
              /\ run'.venue \in Venues /\ venue[run'.venue] # NULL /\ venue[run'.venue].openingFundAt # NULL
              /\ run'.floor <= venue[run'.venue].openingFundAt
              /\ run'.to <= run'.now /\ (run'.now < clock' \/ clock' = MaxTime + 1)
           \/ /\ run'.pc \in {"import", "advance"}
              /\ run.pc = "advance" /\ run'.venue = run.venue /\ run'.now = run.now
              /\ run'.floor = run.floor /\ run'.to <= run.now
    PROVE  Sound'
<1> USE DEF Sound
<1>1. clock \in Time /\ clock' \in Time /\ clock <= clock'
  BY MomentIs, TimeIs DEF TypeOK
<1>2. \A t \in Time : Past(t) => t < clock' \/ clock' = MaxTime + 1
  BY MomentIs DEF Past
<1>3. \A v \in Venues : Present(v) =>
         /\ venue[v].openingFundAt \in Time \cup {NULL} /\ venue[v].syncedTo \in Time \cup {NULL}
         /\ venue[v].openingFund \in Money \cup {NULL}
  BY VenuesAre DEF Venue
<1>4. \A v \in Venues : Present(v)' =>
         /\ venue'[v].openingFund = NULL <=> venue'[v].openingFundAt = NULL
         /\ venue'[v].syncedTo # NULL => venue'[v].openingFundAt # NULL
  <2> SUFFICES ASSUME NEW v \in Venues, Present(v)'
               PROVE  /\ venue'[v].openingFund = NULL <=> venue'[v].openingFundAt = NULL
                      /\ venue'[v].syncedTo # NULL => venue'[v].openingFundAt # NULL
    OBVIOUS
  <2>1. Present(v) => /\ venue[v].openingFund = NULL <=> venue[v].openingFundAt = NULL
                      /\ venue[v].syncedTo # NULL => venue[v].openingFundAt # NULL
    BY DEF TypeOK, Present
  <2>2. venue'[v].openingFund = NULL <=> venue'[v].openingFundAt = NULL
    BY <1>1, <2>1, TimeIs
  <2>3. ~Present(v) => venue'[v].syncedTo = NULL \/ Opened(v)'
    OBVIOUS
  <2>4. Present(v) /\ venue[v].openingFundAt # NULL => venue'[v].openingFundAt # NULL
    BY <1>1, TimeIs
  <2> QED
    BY <2>1, <2>2, <2>3, <2>4 DEF Opened
<1>5. TypeOK'
  BY <1>1, <1>4 DEF TypeOK, exchange, Present
<1>6. Stamps'
  <2>1. \A m \in Movements : Succeeded(m) => movement[m].at \in Time
    BY MovementsAre DEF Succeeded, Movement
  <2> QED
    BY <1>1, <2>1, TimeIs DEF exchange, Stamps, Succeeded
<1>7. \A v \in Venues : Opened(v) =>
         /\ Opened(v)' /\ venue[v].openingFundAt \in Time /\ venue'[v].openingFundAt \in Time
         /\ venue[v].openingFundAt <= venue'[v].openingFundAt /\ venue'[v].openingFundAt <= clock'
  <2> SUFFICES ASSUME NEW v \in Venues, Opened(v)
               PROVE  /\ Opened(v)' /\ venue[v].openingFundAt \in Time /\ venue'[v].openingFundAt \in Time
                      /\ venue[v].openingFundAt <= venue'[v].openingFundAt /\ venue'[v].openingFundAt <= clock'
    OBVIOUS
  <2>1. Present(v) /\ Present(v)' /\ venue[v].openingFundAt \in Time /\ venue[v].openingFundAt <= clock
    BY <1>3 DEF Opened, VenueTimes
  <2>2. venue'[v].openingFundAt = venue[v].openingFundAt \/ venue'[v].openingFundAt = clock'
    BY <2>1
  <2>3. venue'[v].openingFundAt \in Time /\ venue'[v].openingFundAt # NULL
    BY <1>1, <2>1, <2>2, TimeIs
  <2>4. clock \in Nat /\ clock' \in Nat /\ venue[v].openingFundAt \in Nat
    BY <1>1, <2>1, TimeIs
  <2>5. venue[v].openingFundAt <= venue'[v].openingFundAt /\ venue'[v].openingFundAt <= clock'
    BY <1>1, <2>1, <2>2, <2>4
  <2> QED
    BY <2>1, <2>3, <2>5 DEF Opened
<1>8. VenueTimes'
  <2>1. ASSUME NEW v \in Venues, Present(v)', venue'[v].openingFundAt # NULL PROVE venue'[v].openingFundAt <= clock'
    <3>1. CASE Present(v) /\ venue'[v].openingFundAt = venue[v].openingFundAt
      BY <1>7, <2>1, <3>1 DEF Opened
    <3> QED
      BY <1>1, <2>1, <3>1, TimeIs
  <2>2. ASSUME NEW v \in Venues, Present(v)', venue'[v].syncedTo # NULL
        PROVE  venue'[v].syncedTo < clock' \/ clock' = MaxTime + 1
    <3>1. venue'[v].syncedTo < clock \/ clock = MaxTime + 1
      BY <2>2 DEF VenueTimes, Past
    <3>2. venue'[v].syncedTo \in Time
      BY <2>2 DEF Present, Venue
    <3> QED
      BY <1>2, <3>1, <3>2 DEF Past
  <2> QED
    BY <2>1, <2>2 DEF VenueTimes, Opened, Past
<1>9. RunKnows'
  <2>1. /\ run.now \in Time /\ run.floor \in Time /\ run.to \in Time /\ run'.to \in Time
        /\ run'.pc \in Steps /\ run.pc \in Steps
    BY DEF TypeOK, Run
  <2>2. CASE Importing /\ run'.venue = run.venue /\ run'.now = run.now /\ run'.floor = run.floor /\ run'.to <= run.now
             /\ run'.pc \in {"import", "advance"}
    <3>1. PICK v \in Venues : v = run.venue /\ Opened(v) /\ run.floor <= venue[v].openingFundAt /\ Past(run.now)
      BY <2>2 DEF RunKnows
    <3>2. /\ Opened(v)' /\ run.floor <= venue'[v].openingFundAt
          /\ run.now < clock' \/ clock' = MaxTime + 1
      <4>1. run.now < clock' \/ clock' = MaxTime + 1
        BY <1>2, <2>1, <3>1
      <4>2. /\ Opened(v)' /\ venue[v].openingFundAt \in Nat /\ venue'[v].openingFundAt \in Nat /\ run.floor \in Nat
            /\ venue[v].openingFundAt <= venue'[v].openingFundAt
        BY <1>7, <2>1, <3>1, TimeIs
      <4> QED
        BY <3>1, <4>1, <4>2
    <3> QED
      BY <2>2, <3>1, <3>2 DEF RunKnows, Importing, At, Past, Opened, Present
  <2>3. CASE run'.pc = "read" /\ run'.venue \in Venues /\ venue'[run'.venue] # NULL
    BY <2>3 DEF RunKnows, Importing, At, Present
  <2>4. CASE run'.pc \in {"idle", "create", "movements"}
    BY <2>4 DEF RunKnows, Importing, At
  <2>5. CASE /\ run'.pc \in {"import", "advance"} /\ venue' = venue
             /\ run'.venue \in Venues /\ venue[run'.venue] # NULL /\ venue[run'.venue].openingFundAt # NULL
             /\ run'.floor <= venue[run'.venue].openingFundAt
             /\ run'.to <= run'.now /\ (run'.now < clock' \/ clock' = MaxTime + 1)
    BY <2>5 DEF RunKnows, Importing, At, Past, Opened, Present
  <2>6. CASE /\ run'.pc = run.pc /\ run'.venue = run.venue /\ run'.now = run.now
             /\ run'.floor = run.floor /\ run'.to = run.to
    <3>1. CASE Importing
      BY <2>2, <2>6, <3>1 DEF RunKnows, Importing, At
    <3>2. CASE At("read")
      BY <2>3, <2>6, <3>2 DEF RunKnows, At, Present
    <3> QED
      BY <2>1, <2>4, <2>6, <3>1, <3>2 DEF Steps, Importing, At
  <2> QED
    BY <2>2, <2>3, <2>4, <2>5, <2>6 DEF Importing
<1>10. Funds'
  BY DEF exchange, Funds, Events, InFund, Deposits, Debits
<1> QED
  BY <1>5, <1>6, <1>8, <1>9, <1>10

LEMMA AccountSound == Sound /\ (Connect \/ Disconnect) => Sound'
<1> SUFFICES ASSUME Sound, Connect \/ Disconnect PROVE Sound'
  OBVIOUS
<1> USE DEF Sound
<1>1. CASE Connect
  BY <1>1 DEF Connect, exchange, history, TypeOK, Funds, Events, InFund, Deposits, Debits, Stamps, Succeeded, VenueTimes,
              RunKnows, Opened, Present, Past, Importing, At
<1>2. CASE Disconnect
  <2>1. \A v \in Venues : v \in LiveVenues =>
           LET row == [venue[v] EXCEPT !.connected = FALSE] IN
           /\ row \in Venue /\ row.openingFund = venue[v].openingFund
           /\ row.openingFundAt = venue[v].openingFundAt /\ row.syncedTo = venue[v].syncedTo
    BY VenuesAre DEF LiveVenues, Venue
  <2>2. \A v \in Venues : venue'[v] = IF v \in LiveVenues THEN [venue[v] EXCEPT !.connected = FALSE] ELSE venue[v]
    BY <1>2 DEF Disconnect
  <2>3. \A v \in Venues : v \in LiveVenues => Present(v)
    BY DEF LiveVenues
  <2>4. /\ venue' \in [Venues -> Venue \cup {NULL}]
        /\ \A v \in Venues : Present(v) => Present(v)'
        /\ \A v \in Venues : Present(v)' =>
              /\ Present(v) /\ venue'[v].openingFund = venue[v].openingFund
              /\ venue'[v].openingFundAt = venue[v].openingFundAt /\ venue'[v].syncedTo = venue[v].syncedTo
    BY <1>2, <2>1, <2>2, <2>3, VenueAssumption DEF Disconnect, TypeOK, Present
  <2>5. /\ run' \in Run /\ run'.pc = run.pc /\ run'.venue = run.venue /\ run'.now = run.now
        /\ run'.floor = run.floor /\ run'.to = run.to
    BY <1>2 DEF Disconnect, TypeOK, Run
  <2>6. Moment /\ connected' \in BOOLEAN /\ UNCHANGED <<exchange, transfer, history>>
    BY <1>2 DEF Disconnect
  <2> QED
    BY <2>4, <2>5, <2>6, RowsSound DEF history, TypeOK
<1> QED
  BY <1>1, <1>2

\* What a run that reads v goes on with.
LEMMA ReadingIs ==
    ASSUME NEW q \in Run, NEW v \in Venues, NEW row
    PROVE  LET r == Reading(q, v, row) IN
           /\ r \in Run /\ r.pc = "read" /\ r.venue = v /\ r.gone = q.gone
<1>1. Baseless(row) \subseteq Half
  BY DEF Baseless
<1> QED
  BY <1>1 DEF Reading, Run, Steps

\* What a row becomes when balances are written on it.
LEMMA StoredIs ==
    ASSUME NEW row \in Venue, NEW q, q.trading \in Money \cup {NULL}, q.fund \in Money \cup {NULL}, NEW now \in Time
    PROVE  LET new == WithFund(WithTrading(row, q), q, now) IN
           /\ new \in Venue /\ new.syncedTo = row.syncedTo /\ new.connected = row.connected
           /\ \/ new.openingFund = row.openingFund /\ new.openingFundAt = row.openingFundAt
              \/ new.openingFund \in Money /\ new.openingFundAt = now
<1> DEFINE mid == WithTrading(row, q)
<1>1. /\ mid \in Venue /\ mid.syncedTo = row.syncedTo /\ mid.connected = row.connected
      /\ mid.openingFund = row.openingFund /\ mid.openingFundAt = row.openingFundAt
  <2>1. CASE q.trading = NULL
    BY <2>1 DEF WithTrading
  <2>2. CASE q.trading # NULL
    <3> DEFINE o == IF TakesBaseline(q, "trading") THEN q.trading ELSE row.opening
    <3>1. mid = [row EXCEPT !.balance = q.trading, !.opening = o]
      BY <2>2 DEF WithTrading
    <3>2. o \in Money \cup {NULL} /\ q.trading \in Money \cup {NULL}
      BY DEF Venue
    <3> HIDE DEF o, mid
    <3> QED
      BY <3>1, <3>2 DEF Venue
  <2> QED
    BY <2>1, <2>2
<1> HIDE DEF mid
<1> DEFINE new == WithFund(mid, q, now)
<1>2. /\ new \in Venue /\ new.syncedTo = mid.syncedTo /\ new.connected = mid.connected
      /\ \/ new.openingFund = mid.openingFund /\ new.openingFundAt = mid.openingFundAt
         \/ new.openingFund \in Money /\ new.openingFundAt = now
  <2>1. CASE q.fund = NULL
    BY <1>1, <2>1 DEF WithFund
  <2>2. CASE q.fund # NULL /\ TakesBaseline(q, "fund")
    <3>1. new = [mid EXCEPT !.fund = q.fund, !.openingFund = q.fund, !.openingFundAt = now]
      BY <2>2 DEF WithFund
    <3> HIDE DEF new
    <3> QED
      BY <1>1, <2>2, <3>1 DEF Venue
  <2>3. CASE q.fund # NULL /\ ~TakesBaseline(q, "fund")
    <3>1. new = [mid EXCEPT !.fund = q.fund, !.openingFund = mid.openingFund, !.openingFundAt = mid.openingFundAt]
      BY <2>3 DEF WithFund
    <3> HIDE DEF new
    <3> QED
      BY <1>1, <2>3, <3>1 DEF Venue
  <2> QED
    BY <2>1, <2>2, <2>3
<1> QED
  BY <1>1, <1>2 DEF mid

\* A run's balances, or another's, are written on a venue that is there or created for it.
LEMMA StoreSound ==
    ASSUME Sound, NEW v \in Venues, NEW row \in Venue, row = IF Present(v) THEN venue[v] ELSE NewVenue,
           NEW q, q.venue = v, q.trading \in Money \cup {NULL}, q.fund \in Money \cup {NULL}, q.won \in Money,
           Store(q, row), UNCHANGED <<exchange, connected, transfer>>,
           run' \in Run, run' = run \/ run'.pc \in {"idle", "movements"}
    PROVE  Sound'
<1> USE DEF Sound
<1>1. Moment
  BY DEF Store
<1>2. clock' \in Time
  BY <1>1, MomentIs
<1> DEFINE new == WithFund(WithTrading(row, q), q, clock')
<1>3. /\ new \in Venue /\ new.syncedTo = row.syncedTo
      /\ \/ new.openingFund = row.openingFund /\ new.openingFundAt = row.openingFundAt
         \/ new.openingFund \in Money /\ new.openingFundAt = clock'
  BY <1>2, StoredIs
<1>4. venue' = [venue EXCEPT ![v] = new]
  BY DEF Store
<1> HIDE DEF new
<1>5. /\ venue' \in [Venues -> Venue \cup {NULL}] /\ venue'[v] = new /\ new # NULL
      /\ \A w \in Venues : w # v => venue'[w] = venue[w]
  BY <1>3, <1>4, VenueAssumption DEF TypeOK
<1>6. NewVenue.openingFund = NULL /\ NewVenue.openingFundAt = NULL /\ NewVenue.syncedTo = NULL
  BY DEF NewVenue
<1>7. won' \in Money /\ blurred' \in BOOLEAN
  BY DEF Store, TypeOK
<1>8. \A w \in Venues : Present(w) => Present(w)'
  BY <1>5 DEF Present
<1>9. \A w \in Venues : Present(w)' =>
         \/ /\ Present(w) /\ venue'[w].openingFund = venue[w].openingFund
            /\ venue'[w].openingFundAt = venue[w].openingFundAt
         \/ venue'[w].openingFund \in Money /\ venue'[w].openingFundAt = clock'
         \/ ~Present(w) /\ venue'[w].openingFund = NULL /\ venue'[w].openingFundAt = NULL
  BY <1>3, <1>5, <1>6 DEF Present
<1>10. \A w \in Venues : Present(w)' =>
         (Present(w) /\ venue'[w].syncedTo = venue[w].syncedTo) \/ venue'[w].syncedTo = NULL
  BY <1>3, <1>5, <1>6 DEF Present
<1> QED
  BY <1>1, <1>5, <1>7, <1>8, <1>9, <1>10, RowsSound DEF TypeOK

\* A run goes on, and nothing else changes.
LEMMA RunSound ==
    ASSUME Sound, UNCHANGED <<clock, exchange, tables, history>>, run' \in Run, RunKnows'
    PROVE  Sound'
BY DEF Sound, exchange, tables, history, TypeOK, Funds, Events, InFund, Deposits, Debits, Stamps, Succeeded, VenueTimes,
       Opened, Present, Past

LEMMA ReadingSound ==
    Sound /\ (EnsureForAccount \/ CreateVenue \/ ReadTradingBalance \/ ReadFundBalance
                 \/ RefreshLiveBalance \/ \E v \in Venues : RefreshBeside(v)) => Sound'
<1> SUFFICES ASSUME Sound, EnsureForAccount \/ CreateVenue \/ ReadTradingBalance \/ ReadFundBalance
                             \/ RefreshLiveBalance \/ \E v \in Venues : RefreshBeside(v)
             PROVE  Sound'
  OBVIOUS
<1>0. run \in Run /\ TypeOK /\ Funds
  BY DEF Sound, TypeOK
<1>1. CASE EnsureForAccount
  <2>1. CASE \E v \in Mine : run' = Reading(run, v, venue[v])
    <3>1. PICK v \in Mine : run' = Reading(run, v, venue[v])
      BY <2>1
    <3>2. v \in Venues /\ Present(v)
      BY DEF Mine, LiveVenues
    <3>3. run' \in Run /\ run'.pc = "read" /\ run'.venue = v
      BY <1>0, <3>1, <3>2, ReadingIs
    <3>4. UNCHANGED <<clock, exchange, tables, history>>
      BY <1>1 DEF EnsureForAccount
    <3> QED
      BY <3>2, <3>3, <3>4, RunSound DEF RunKnows, At, Importing, Present, tables
  <2>2. CASE run' = [run EXCEPT !.pc = "create"]
    <3>1. run' \in Run /\ run'.pc = "create"
      BY <1>0, <2>2 DEF Run, Steps
    <3>2. UNCHANGED <<clock, exchange, tables, history>>
      BY <1>1 DEF EnsureForAccount
    <3> QED
      BY <3>1, <3>2, RunSound DEF RunKnows, At, Importing
  <2> QED
    BY <1>1, <2>1, <2>2 DEF EnsureForAccount
<1>2. CASE CreateVenue
  <2>1. PICK v \in Venues : ~Present(v) /\ venue' = [venue EXCEPT ![v] = NewVenue] /\ run' = Reading(run, v, NewVenue)
    BY <1>2 DEF CreateVenue
  <2>2. run' \in Run /\ run'.pc = "read" /\ run'.venue = v
    BY <1>0, <2>1, ReadingIs
  <2>3. UNCHANGED <<clock, exchange, connected, transfer, history>>
    BY <1>2 DEF CreateVenue
  <2>4. /\ venue' \in [Venues -> Venue \cup {NULL}] /\ venue'[v] = NewVenue /\ NewVenue # NULL
        /\ \A w \in Venues : w # v => venue'[w] = venue[w]
    BY <1>0, <2>1, IdleIsRun, VenueAssumption DEF TypeOK
  <2>5. NewVenue.openingFund = NULL /\ NewVenue.openingFundAt = NULL /\ NewVenue.syncedTo = NULL
    BY DEF NewVenue
  <2>6. \A w \in Venues : Present(w) => Present(w)'
    BY <2>4 DEF Present
  <2>7. \A w \in Venues : Present(w)' =>
         \/ /\ Present(w) /\ venue'[w].openingFund = venue[w].openingFund
            /\ venue'[w].openingFundAt = venue[w].openingFundAt
         \/ ~Present(w) /\ venue'[w].openingFund = NULL /\ venue'[w].openingFundAt = NULL
    BY <2>1, <2>4, <2>5 DEF Present
  <2>8. \A w \in Venues : Present(w)' =>
         (Present(w) /\ venue'[w].syncedTo = venue[w].syncedTo) \/ venue'[w].syncedTo = NULL
    BY <2>4, <2>5 DEF Present
  <2> QED
    BY <1>0, <2>2, <2>3, <2>4, <2>6, <2>7, <2>8, RowsSound DEF TypeOK, history
<1>3. CASE ReadTradingBalance
  <2>1. PICK read \in {InTrading, NULL} :
           run' = [run EXCEPT !.todo = @ \ {"trading"}, !.trading = read, !.won = IF read = NULL THEN 0 ELSE gains]
    BY <1>3 DEF ReadTradingBalance
  <2>2. read \in Money \cup {NULL} /\ (IF read = NULL THEN 0 ELSE gains) \in Money
    BY <1>0, InFundIs, TimeIs
  <2>3. run' \in Run /\ run'.pc = run.pc /\ run'.venue = run.venue /\ run'.now = run.now /\ run'.floor = run.floor
        /\ run'.to = run.to
    BY <1>0, <2>1, <2>2 DEF Run
  <2>4. UNCHANGED <<clock, exchange, tables, history>>
    BY <1>3 DEF ReadTradingBalance
  <2> QED
    BY <2>3, <2>4, RunSound DEF Sound, RunKnows, At, Importing, Opened, Present, tables, Past
<1>4. CASE ReadFundBalance
  <2>1. PICK read \in {InFund, NULL} : run' = [run EXCEPT !.todo = @ \ {"fund"}, !.fund = read]
    BY <1>4 DEF ReadFundBalance
  <2>2. read \in Money \cup {NULL}
    BY <1>0, InFundIs
  <2>3. run' \in Run /\ run'.pc = run.pc /\ run'.venue = run.venue /\ run'.now = run.now /\ run'.floor = run.floor
        /\ run'.to = run.to
    BY <1>0, <2>1, <2>2 DEF Run
  <2>4. UNCHANGED <<clock, exchange, tables, history>>
    BY <1>4 DEF ReadFundBalance
  <2> QED
    BY <2>3, <2>4, RunSound DEF Sound, RunKnows, At, Importing, Opened, Present, tables, Past
<1>5. CASE RefreshLiveBalance
  <2>1. run' \in Run /\ run'.pc = "movements"
    BY <1>0, <1>5, IdleIsRun DEF RefreshLiveBalance, Run, Steps
  <2>2. CASE run.trading = NULL /\ run.fund = NULL
    <3>1. UNCHANGED <<clock, exchange, tables, history>>
      BY <1>5, <2>2 DEF RefreshLiveBalance, tables
    <3> QED
      BY <2>1, <3>1, RunSound DEF RunKnows, At, Importing
  <2>3. CASE ~(run.trading = NULL /\ run.fund = NULL)
    <3>1. PICK v \in Venues : v = run.venue /\ Present(v)
      BY <1>5 DEF RefreshLiveBalance, Sound, RunKnows
    <3>2. Store(run, venue[v]) /\ UNCHANGED <<exchange, connected, transfer>>
      BY <1>5, <2>3, <3>1 DEF RefreshLiveBalance
    <3>3. venue[v] \in Venue
      BY <1>0, <3>1, VenuesAre
    <3>4. run.trading \in Money \cup {NULL} /\ run.fund \in Money \cup {NULL} /\ run.won \in Money
      BY <1>0 DEF Run
    <3> QED
      BY <2>1, <3>1, <3>2, <3>3, <3>4, StoreSound
  <2> QED
    BY <2>2, <2>3
<1>6. ASSUME NEW v \in Venues, RefreshBeside(v) PROVE Sound'
  <2> DEFINE row == IF Present(v) THEN venue[v] ELSE NewVenue
  <2>1. row \in Venue
    BY <1>0, VenuesAre, IdleIsRun
  <2>2. PICK trading \in {InTrading, NULL}, fund \in {InFund, NULL} :
           Store([Reading(Idle, v, row) EXCEPT !.trading = trading, !.fund = fund, !.won = gains], row)
    BY <1>6 DEF RefreshBeside
  <2> DEFINE r == Reading(Idle, v, row)
             q == [r EXCEPT !.trading = trading, !.fund = fund, !.won = gains]
  <2>3. r \in Run /\ r.venue = v
    BY IdleIsRun, ReadingIs
  <2>4. trading \in Money \cup {NULL} /\ fund \in Money \cup {NULL} /\ gains \in Money
    BY <1>0, InFundIs
  <2>5. Store(q, row)
    BY <2>2
  <2> HIDE DEF r
  <2>6. q.venue = v /\ q.trading = trading /\ q.fund = fund /\ q.won = gains
    BY <2>3 DEF Run
  <2> HIDE DEF q
  <2>7. UNCHANGED <<exchange, connected, transfer, run>>
    BY <1>6 DEF RefreshBeside
  <2>8. row = IF Present(v) THEN venue[v] ELSE NewVenue
    OBVIOUS
  <2> HIDE DEF row
  <2> QED
    BY <1>0, <2>1, <2>4, <2>5, <2>6, <2>7, <2>8, StoreSound
<1> QED
  BY <1>1, <1>2, <1>3, <1>4, <1>5, <1>6

\* A window that is opened begins before the run's moment, and ends by it.
LEMMA WindowIs ==
    ASSUME NEW q \in Run, NEW start \in Nat, NEW edge
    PROVE  LET w == OpenWindow(q, start, edge) IN
           /\ w \in Run
           /\ \/ w = Idle /\ ~(start < q.now)
              \/ /\ w.pc = "import" /\ w.gone = q.gone /\ w.venue = q.venue /\ w.now = q.now /\ w.floor = q.floor
                 /\ start <= w.to /\ w.to <= w.now /\ w.got = FetchWindow(start - edge, w.to)
<1>1. q.now \in Time /\ q.now \in Nat /\ Window \in Nat
  BY TimeIs, VenueAssumption DEF Run
<1>2. CASE start < q.now
  <2> DEFINE to == Least(start + Window, q.now)
             got == FetchWindow(start - edge, to)
             w == [q EXCEPT !.pc = "import", !.to = to, !.got = got]
  <2>1. to \in Time /\ start <= to /\ to <= q.now
    <3>1. to \in Nat /\ start <= to /\ to <= q.now
      BY <1>1, <1>2 DEF Least
    <3>2. q.now <= MaxTime + 1 /\ MaxTime \in Nat
      BY <1>1, VenueAssumption DEF Time
    <3> QED
      BY <1>1, <3>1, <3>2 DEF Time
  <2>2. got \in SUBSET Movements
    BY DEF FetchWindow
  <2>3. OpenWindow(q, start, edge) = w
    BY <1>2 DEF OpenWindow
  <2>4. got = FetchWindow(start - edge, to)
    OBVIOUS
  <2> HIDE DEF to, got
  <2>5. w \in Run /\ w.to = to /\ w.got = got /\ w.pc = "import" /\ w.gone = q.gone /\ w.venue = q.venue /\ w.now = q.now /\ w.floor = q.floor
    BY <2>1, <2>2 DEF Run, Steps
  <2> HIDE DEF w
  <2> QED
    BY <2>1, <2>3, <2>4, <2>5
<1>3. CASE ~(start < q.now)
  BY <1>3, IdleIsRun DEF OpenWindow
<1> QED
  BY <1>2, <1>3

\* An import begins at the baseline, or not before it and the overlap behind the cursor.
LEMMA ImportStartIs ==
    ASSUME NEW row, row.openingFundAt \in Nat, row.syncedTo \in Nat \cup {NULL}
    PROVE  LET start == ImportStart(row) IN
           /\ start \in Nat /\ row.openingFundAt <= start
           /\ start = row.openingFundAt \/ (row.syncedTo # NULL /\ start = row.syncedTo - Overlap)
<1>1. Overlap \in Nat
  BY VenueAssumption
<1>2. CASE row.syncedTo = NULL
  BY <1>2 DEF ImportStart, Floor
<1>3. CASE row.syncedTo # NULL
  <2>1. row.syncedTo \in Nat
    BY <1>3
  <2>2. ImportStart(row) = Most(row.syncedTo - Overlap, row.openingFundAt)
    BY <1>3 DEF ImportStart, Floor
  <2> QED
    BY <1>1, <1>3, <2>1, <2>2 DEF Most
<1> QED
  BY <1>2, <1>3

\* The run an import begins with.
LEMMA StartIs ==
    ASSUME Sound, NEW edge, StartImport(edge), run'.pc # "idle"
    PROVE  \E v \in Mine :
              /\ Opened(v) /\ run' \in Run /\ run'.pc = "import" /\ run'.venue = v /\ run'.gone = run.gone
              /\ run'.now = clock /\ run'.floor = venue[v].openingFundAt /\ run'.to <= run'.now
              /\ ImportStart(venue[v]) <= run'.to /\ run'.got = FetchWindow(ImportStart(venue[v]) - edge, run'.to)
              /\ run'.to \in Nat /\ Moment
<1> USE DEF Sound
<1>1. PICK v \in Mine :
         IF venue[v].openingFundAt = NULL THEN run' = Idle
         ELSE /\ run' = OpenWindow([run EXCEPT !.venue = v, !.now = clock, !.floor = Floor(venue[v])],
                                   ImportStart(venue[v]), edge)
              /\ Moment
  BY DEF StartImport
<1>2. v \in Venues /\ Present(v) /\ venue[v].openingFundAt # NULL
  BY <1>1 DEF Mine, LiveVenues, Idle
<1>3. venue[v].openingFundAt \in Time /\ venue[v].syncedTo \in Time \cup {NULL} /\ Overlap \in Nat
  BY <1>2, VenuesAre, VenueAssumption DEF Venue
<1>4. ImportStart(venue[v]) \in Nat
  BY <1>2, <1>3, TimeIs, ImportStartIs
<1> DEFINE q == [run EXCEPT !.venue = v, !.now = clock, !.floor = Floor(venue[v])]
           start == ImportStart(venue[v])
<1>5. q \in Run /\ q.venue = v /\ q.now = clock /\ q.floor = venue[v].openingFundAt /\ q.gone = run.gone
  BY <1>2, <1>3 DEF Floor, TypeOK, Run
<1>6. run' = OpenWindow(q, start, edge) /\ Moment
  BY <1>1, <1>2
<1>7. start \in Nat /\ start = ImportStart(venue[v])
  BY <1>4
<1> HIDE DEF q, start
<1>8. run' \in Run /\ run' # Idle
  BY <1>5, <1>6, <1>7, WindowIs DEF Idle
<1>9. /\ run'.pc = "import" /\ run'.gone = q.gone /\ run'.venue = q.venue /\ run'.now = q.now /\ run'.floor = q.floor
      /\ start <= run'.to /\ run'.to <= run'.now /\ run'.got = FetchWindow(start - edge, run'.to)
  BY <1>5, <1>6, <1>7, <1>8, WindowIs
<1>10. run'.to \in Nat
  BY <1>8, TimeIs DEF Run
<1> QED
  BY <1>2, <1>5, <1>6, <1>7, <1>8, <1>9, <1>10 DEF Opened

\* The run an import goes on with.
LEMMA AdvanceIs ==
    ASSUME Sound, NEW edge, AdvanceCursor(edge), run'.pc # "idle"
    PROVE  /\ run' \in Run /\ run'.pc = "import" /\ run'.venue = run.venue /\ run'.gone = run.gone
           /\ run'.now = run.now /\ run'.floor = run.floor /\ run'.to <= run'.now
           /\ run.to <= run'.to /\ run'.got = FetchWindow(run.to - edge, run'.to)
<1>1. run' = OpenWindow(run, run.to, edge)
  BY DEF AdvanceCursor
<1>2. run \in Run /\ run.to \in Nat
  BY TimeIs DEF Sound, TypeOK, Run
<1> QED
  BY <1>1, <1>2, WindowIs DEF Idle

LEMMA ImportSound ==
    Sound /\ ((\E edge \in {0, Softness} : StartImport(edge) \/ AdvanceCursor(edge))
                 \/ (\E priced \in BOOLEAN : Import(priced)) \/ Fail) => Sound'
<1> SUFFICES ASSUME Sound, (\E edge \in {0, Softness} : StartImport(edge) \/ AdvanceCursor(edge))
                             \/ (\E priced \in BOOLEAN : Import(priced)) \/ Fail
             PROVE  Sound'
  OBVIOUS
<1>0. run \in Run /\ TypeOK
  BY DEF Sound, TypeOK
<1>1. ASSUME NEW edge \in {0, Softness}, StartImport(edge) PROVE Sound'
  <2>1. UNCHANGED <<exchange, tables, history>>
    BY <1>1 DEF StartImport
  <2>2. clock' = clock \/ Moment
    BY <1>1 DEF StartImport
  <2>3. /\ UNCHANGED <<exchange, venue>> /\ connected' \in BOOLEAN /\ won' \in Money /\ blurred' \in BOOLEAN
        /\ transfer' \in [Venues \X Movements -> {NULL, -1, 0, 1}]
        /\ venue' \in [Venues -> Venue \cup {NULL}]
        /\ \A v \in Venues : Present(v) => Present(v)'
        /\ \A v \in Venues : Present(v)' => /\ Present(v) /\ venue'[v].openingFund = venue[v].openingFund
                                            /\ venue'[v].openingFundAt = venue[v].openingFundAt
                                            /\ venue'[v].syncedTo = venue[v].syncedTo
    BY <1>0, <2>1 DEF tables, history, TypeOK, Present
  <2>4. CASE run'.pc = "idle"
    <3>1. run' \in Run
      <4>1. PICK v \in Mine : \/ run' = Idle
                              \/ /\ venue[v].openingFundAt # NULL
                                 /\ run' = OpenWindow([run EXCEPT !.venue = v, !.now = clock, !.floor = Floor(venue[v])],
                                                      ImportStart(venue[v]), edge)
        BY <1>1 DEF StartImport
      <4>2. CASE run' = Idle
        BY <4>2, IdleIsRun
      <4>3. CASE run' # Idle
        <5>1. v \in Venues /\ Present(v) /\ venue[v].openingFundAt \in Time /\ venue[v].syncedTo \in Time \cup {NULL} /\ Overlap \in Nat
          BY <1>0, <4>1, <4>3, VenuesAre, VenueAssumption DEF Mine, LiveVenues, Venue
        <5>2. ImportStart(venue[v]) \in Nat
          BY <5>1, TimeIs, ImportStartIs
        <5>3. [run EXCEPT !.venue = v, !.now = clock, !.floor = Floor(venue[v])] \in Run
          BY <1>0, <5>1 DEF Floor, TypeOK, Run
        <5> QED
          BY <4>1, <4>3, <5>2, <5>3, WindowIs
      <4> QED
        BY <4>2, <4>3
    <3> QED
      BY <1>0, <2>1, <2>2, <2>4, <2>3, <3>1, RowsSound
  <2>5. CASE run'.pc # "idle"
    <3>1. PICK v \in Mine :
              /\ Opened(v) /\ run' \in Run /\ run'.pc = "import" /\ run'.venue = v
              /\ run'.now = clock /\ run'.floor = venue[v].openingFundAt /\ run'.to <= run'.now
              /\ Moment
      BY <1>1, <2>5, StartIs
    <3>2. v \in Venues /\ clock \in Nat /\ venue[v].openingFundAt \in Nat /\ clock \in Time
      BY <1>0, <3>1, VenuesAre, TimeIs DEF Mine, LiveVenues, TypeOK, Venue, Opened
    <3>3. clock < clock' \/ clock' = MaxTime + 1
      BY <3>1, <3>2, MomentIs
    <3>4. /\ run'.pc \in {"import", "advance"} /\ venue' = venue
          /\ run'.venue \in Venues /\ venue[run'.venue] # NULL /\ venue[run'.venue].openingFundAt # NULL
          /\ run'.floor <= venue[run'.venue].openingFundAt
          /\ run'.to <= run'.now /\ (run'.now < clock' \/ clock' = MaxTime + 1)
      BY <2>1, <3>1, <3>2, <3>3 DEF tables, Opened, Present
    <3> QED
      BY <1>0, <2>1, <2>2, <2>3, <3>1, <3>4, RowsSound
  <2> QED
    BY <2>4, <2>5
<1>2. ASSUME NEW edge \in {0, Softness}, AdvanceCursor(edge) PROVE Sound'
  <2>1. PICK v \in Venues : /\ v = run.venue /\ Opened(v) /\ run.to <= run.now /\ Past(run.now) /\ run.pc = "advance"
    BY <1>2 DEF AdvanceCursor, Sound, RunKnows, Importing, At
  <2> DEFINE new == [venue[v] EXCEPT !.syncedTo = run.to]
  <2>2. venue' = [venue EXCEPT ![v] = new] /\ UNCHANGED <<clock, exchange, connected, transfer, history>>
    BY <1>2, <2>1 DEF AdvanceCursor, CursorAfter
  <2>3. venue[v] \in Venue /\ run.to \in Time /\ run.now \in Time /\ clock \in Nat
    BY <1>0, <2>1, VenuesAre, TimeIs DEF Opened, Run, TypeOK
  <2>4. /\ new \in Venue /\ new.syncedTo = run.to /\ new.openingFund = venue[v].openingFund
        /\ new.openingFundAt = venue[v].openingFundAt
    BY <2>3 DEF Venue
  <2> HIDE DEF new
  <2>5. /\ venue' \in [Venues -> Venue \cup {NULL}] /\ venue'[v] = new /\ new # NULL
        /\ \A w \in Venues : w # v => venue'[w] = venue[w]
    BY <1>0, <2>2, <2>4, VenueAssumption DEF TypeOK
  <2>6. run.to < clock \/ clock = MaxTime + 1
    <3>1. run.to \in Nat /\ run.now \in Nat
      BY <2>3, TimeIs
    <3> QED
      BY <2>1, <2>3, <3>1 DEF Past
  <2>7. \A w \in Venues : Present(w) => Present(w)'
    BY <2>5 DEF Present
  <2>8. \A w \in Venues : Present(w)' =>
         /\ Present(w) /\ venue'[w].openingFund = venue[w].openingFund
         /\ venue'[w].openingFundAt = venue[w].openingFundAt
    BY <2>1, <2>4, <2>5 DEF Present, Opened
  <2>9. Opened(v)'
    BY <2>1, <2>4, <2>5 DEF Present, Opened
  <2>10. \A w \in Venues : Present(w)' =>
         \/ Present(w) /\ venue'[w].syncedTo = venue[w].syncedTo
         \/ Opened(w)' /\ (venue'[w].syncedTo < clock \/ clock = MaxTime + 1)
    BY <2>4, <2>5, <2>6, <2>9 DEF Present
  <2>11. /\ run' \in Run
         /\ \/ run'.pc \in {"idle", "create", "movements"}
            \/ /\ run'.pc \in {"import", "advance"}
               /\ run.pc = "advance" /\ run'.venue = run.venue /\ run'.now = run.now
               /\ run'.floor = run.floor /\ run'.to <= run.now
    <3>1. run' \in Run
      BY <1>0, <1>2, <2>3, TimeIs, WindowIs DEF AdvanceCursor
    <3> QED
      BY <1>2, <2>1, <3>1, AdvanceIs
  <2> QED
    BY <1>0, <2>2, <2>5, <2>7, <2>8, <2>10, <2>11, RowsSound DEF TypeOK, history
<1>3. ASSUME NEW priced \in BOOLEAN, Import(priced) PROVE Sound'
  <2>1. run' = [run EXCEPT !.pc = "advance", !.got = {}] /\ run.pc = "import"
    BY <1>3 DEF Import, At
  <2>2. /\ run' \in Run /\ run'.pc = "advance" /\ run'.venue = run.venue /\ run'.now = run.now
        /\ run'.floor = run.floor /\ run'.to = run.to
    BY <1>0, <2>1 DEF Run, Steps
  <2>3. RunKnows'
    BY <1>3, <2>1, <2>2 DEF Import, Sound, RunKnows, Importing, At, Opened, Present, Past
  <2>4. transfer' \in [Venues \X Movements -> {NULL, -1, 0, 1}]
    <3> DEFINE worth(m) == IF ~priced THEN 0 ELSE IF movement[m].out THEN -1 ELSE 1
               fresh == {m \in SinceBaseline(run) : ~Recorded(run.venue, m)}
    <3>1. transfer' = [k \in Venues \X Movements |-> IF k[1] = run.venue /\ k[2] \in fresh THEN worth(k[2]) ELSE transfer[k]]
      BY <1>3 DEF Import
    <3>2. \A m : worth(m) \in {NULL, -1, 0, 1}
      OBVIOUS
    <3> HIDE DEF worth, fresh
    <3> QED
      BY <1>0, <3>1, <3>2 DEF TypeOK
  <2>5. blurred' \in BOOLEAN /\ UNCHANGED <<clock, exchange, connected, venue, won>>
    BY <1>0, <1>3 DEF Import, TypeOK
  <2> QED
    BY <2>2, <2>3, <2>4, <2>5 DEF Sound, exchange, TypeOK, Funds, Events, InFund, Deposits, Debits, Stamps, Succeeded,
                                  VenueTimes, Opened, Present, Past
<1>4. CASE Fail
  <2>1. run' = Idle /\ UNCHANGED <<clock, exchange, tables, history>>
    BY <1>4 DEF Fail
  <2>2. run' \in Run /\ run'.pc = "idle"
    BY <2>1, IdleIsRun DEF Idle
  <2> QED
    BY <2>1, <2>2, RunSound DEF RunKnows, At, Importing
<1> QED
  BY <1>1, <1>2, <1>3, <1>4

LEMMA NextSound == Sound /\ [Next]_vars => Sound'
<1>1. Sound /\ UNCHANGED vars => Sound'
  BY DEF Sound, vars, exchange, tables, history, TypeOK, Funds, Events, InFund, Deposits, Debits, Stamps, Succeeded,
         VenueTimes, RunKnows, Importing, At, Opened, Present, Past
<1> QED
  BY <1>1, ExchangeSound, AccountSound, ReadingSound, ImportSound DEF Next, Sync

\* Every column keeps its type, FUND its money and a run the venue it reads, whatever moves on the
\* exchange and wherever a run dies (syncAccount, investing-sync.service.ts:67-115).
THEOREM TypeCorrect == Spec => []TypeOK
<1>1. Spec => []Sound
  BY InitSound, NextSound, PTL DEF Spec
<1> QED
  BY <1>1, PTL DEF Sound

(***************************************************************************)
(* What any step does to what has happened, to what is recorded, and to    *)
(* the rows of the venues.                                                 *)
(***************************************************************************)

LEMMA Happened ==
    Sound /\ [Next]_vars =>
        /\ clock \in Nat /\ clock' \in Nat /\ clock <= clock'
        /\ \A m \in Movements :
              /\ Succeeded(m) => /\ Succeeded(m)' /\ movement'[m].at = movement[m].at
                                 /\ movement[m].at \in Nat
                                 /\ movement[m].listed => movement'[m].listed
              /\ Succeeded(m)' /\ ~Succeeded(m) => movement'[m].at = clock /\ clock < MaxTime
<1> SUFFICES ASSUME Sound, [Next]_vars
             PROVE  /\ clock \in Nat /\ clock' \in Nat /\ clock <= clock'
                    /\ \A m \in Movements :
                          /\ Succeeded(m) => /\ Succeeded(m)' /\ movement'[m].at = movement[m].at
                                             /\ movement[m].at \in Nat
                                             /\ movement[m].listed => movement'[m].listed
                          /\ Succeeded(m)' /\ ~Succeeded(m) => movement'[m].at = clock /\ clock < MaxTime
  OBVIOUS
<1>1. clock \in Nat /\ clock' \in Nat
  BY NextSound, TimeIs DEF Sound, TypeOK
<1>2. clock <= clock'
  <2>1. clock' = clock \/ clock' = clock + 1 \/ Moment
    BY DEF Next, vars, Exchange, Sync, Tick, MoveToTrading, Trade, Deposit, Withdraw, WithdrawalSucceeds, ListMovement,
           Connect, Disconnect, EnsureForAccount, CreateVenue, ReadTradingBalance, ReadFundBalance, RefreshLiveBalance,
           RefreshBeside, Store, StartImport, AdvanceCursor, Import, Fail
  <2> QED
    BY <1>1, <2>1, MomentIs
<1>3. \A m \in Movements : Succeeded(m) => movement[m].at \in Nat
  BY MovementsAre, TimeIs DEF Sound, Succeeded, Movement
<1>4. CASE UNCHANGED movement
  BY <1>1, <1>2, <1>3, <1>4 DEF Succeeded
<1>5. ASSUME NEW m \in Movements, Deposit(m) \/ Withdraw(m) \/ WithdrawalSucceeds(m) \/ ListMovement(m)
      PROVE  \A x \in Movements :
                  /\ Succeeded(x) => /\ Succeeded(x)' /\ movement'[x].at = movement[x].at
                                     /\ movement[x].listed => movement'[x].listed
                  /\ Succeeded(x)' /\ ~Succeeded(x) => movement'[x].at = clock /\ clock < MaxTime
  <2>1. ASSUME NEW n \in Movement, movement' = [movement EXCEPT ![m] = n]
        PROVE  movement'[m] = n /\ n # NULL /\ \A x \in Movements : x # m => movement'[x] = movement[x]
    BY <2>1, VenueAssumption DEF Sound, TypeOK
  <2>2. CASE Deposit(m) \/ WithdrawalSucceeds(m)
    <3>1. PICK out \in BOOLEAN : movement' = [movement EXCEPT ![m] = Stamped(out)] /\ clock < MaxTime /\ ~Succeeded(m)
      BY <2>2 DEF Deposit, WithdrawalSucceeds, Succeeded
    <3>2. Stamped(out) \in Movement /\ Stamped(out).at = clock
      BY DEF Stamped, Movement, Sound, TypeOK
    <3> QED
      BY <2>1, <3>1, <3>2 DEF Succeeded
  <2>3. CASE Withdraw(m)
    <3> DEFINE n == [Stamped(TRUE) EXCEPT !.at = NULL]
    <3>1. n \in Movement /\ n.at = NULL
      BY DEF Stamped, Movement
    <3>2. movement' = [movement EXCEPT ![m] = n] /\ ~Succeeded(m)
      BY <2>3 DEF Withdraw, Succeeded
    <3> HIDE DEF n
    <3> QED
      BY <2>1, <3>1, <3>2 DEF Succeeded
  <2>4. CASE ListMovement(m)
    <3> DEFINE n == [movement[m] EXCEPT !.listed = TRUE]
    <3>1. movement[m] \in Movement /\ movement' = [movement EXCEPT ![m] = n] /\ Succeeded(m)
      BY <2>4, MovementsAre DEF ListMovement, Sound, Succeeded
    <3>2. n \in Movement /\ n.at = movement[m].at /\ n.listed
      BY <3>1 DEF Movement
    <3> HIDE DEF n
    <3> QED
      BY <2>1, <3>1, <3>2 DEF Succeeded
  <2> QED
    BY <1>5, <2>2, <2>3, <2>4
<1>6. UNCHANGED movement \/ \E m \in Movements : Deposit(m) \/ Withdraw(m) \/ WithdrawalSucceeds(m) \/ ListMovement(m)
  BY DEF Next, vars, exchange, Exchange, Sync, Tick, MoveToTrading, Trade,
         Connect, Disconnect, EnsureForAccount, CreateVenue, ReadTradingBalance, ReadFundBalance, RefreshLiveBalance,
         RefreshBeside, StartImport, AdvanceCursor, Import, Fail
<1> QED
  BY <1>1, <1>2, <1>3, <1>4, <1>5, <1>6

\* What an import adds, and nothing else does.
LEMMA RecordsKept ==
    Sound /\ [Next]_vars =>
        \A v \in Venues, m \in Movements :
            /\ Recorded(v, m) => transfer'[<<v, m>>] # NULL
            /\ transfer'[<<v, m>>] # NULL /\ ~Recorded(v, m) =>
                  At("import") /\ v = run.venue /\ m \in SinceBaseline(run)
<1> SUFFICES ASSUME Sound, [Next]_vars, NEW v \in Venues, NEW m \in Movements
             PROVE  /\ Recorded(v, m) => transfer'[<<v, m>>] # NULL
                    /\ transfer'[<<v, m>>] # NULL /\ ~Recorded(v, m) =>
                          At("import") /\ v = run.venue /\ m \in SinceBaseline(run)
  OBVIOUS
<1>1. CASE UNCHANGED transfer
  BY <1>1 DEF Recorded
<1>2. ASSUME NEW priced \in BOOLEAN, Import(priced)
      PROVE  /\ Recorded(v, m) => transfer'[<<v, m>>] # NULL
             /\ transfer'[<<v, m>>] # NULL /\ ~Recorded(v, m) =>
                   At("import") /\ v = run.venue /\ m \in SinceBaseline(run)
  <2> DEFINE worth(x) == IF ~priced THEN 0 ELSE IF movement[x].out THEN -1 ELSE 1
             fresh == {x \in SinceBaseline(run) : ~Recorded(run.venue, x)}
  <2>1. transfer' = [k \in Venues \X Movements |-> IF k[1] = run.venue /\ k[2] \in fresh THEN worth(k[2]) ELSE transfer[k]]
    BY <1>2 DEF Import
  <2>2. worth(m) # NULL
    BY VenueAssumption
  <2>3. m \in fresh => m \in SinceBaseline(run) /\ ~Recorded(run.venue, m)
    OBVIOUS
  <2> HIDE DEF worth, fresh
  <2>4. transfer'[<<v, m>>] = IF v = run.venue /\ m \in fresh THEN worth(m) ELSE transfer[<<v, m>>]
    BY <2>1
  <2> QED
    BY <1>2, <2>2, <2>3, <2>4 DEF Recorded, Import
<1>3. UNCHANGED transfer \/ \E priced \in BOOLEAN : Import(priced)
  BY DEF Next, vars, tables, Exchange, Sync, Tick, MoveToTrading, Trade, Deposit, Withdraw, WithdrawalSucceeds,
         ListMovement, Connect, Disconnect, EnsureForAccount, CreateVenue, ReadTradingBalance, ReadFundBalance,
         RefreshLiveBalance, RefreshBeside, StartImport, AdvanceCursor, Fail
<1> QED
  BY <1>1, <1>2, <1>3

\* Rows change by what is stored on them and by the cursor; a live venue is created while there
\* is none, and there is none once its account is gone.
RowMoves(v) ==
    /\ Present(v) => venue'[v] # NULL
    /\ venue'[v] # NULL =>
          /\ \/ Present(v) /\ venue'[v].openingFundAt = venue[v].openingFundAt
             \/ venue'[v].openingFundAt = clock' /\ Moment
             \/ ~Present(v) /\ venue'[v].openingFundAt = NULL
          /\ \/ Present(v) /\ venue'[v].syncedTo = venue[v].syncedTo
             \/ ~Present(v) /\ venue'[v].syncedTo = NULL
             \/ /\ At("advance") /\ v = run.venue /\ venue'[v].syncedTo = run.to
                /\ venue'[v].openingFundAt = venue[v].openingFundAt

LiveMove ==
    \/ LiveVenues' = LiveVenues /\ (connected => connected')
    \/ /\ LiveVenues = {} /\ (\E v \in Venues : LiveVenues' = {v} /\ ~Present(v))
       /\ connected' = connected /\ (connected \/ (At("create") /\ ~run.gone))
    \/ LiveVenues' = {} /\ connected' = FALSE /\ (run'.gone \/ run'.pc = "idle")

LEMMA RowIs ==
    ASSUME Sound, NEW v \in Venues, NEW new \in Venue, venue' = [venue EXCEPT ![v] = new]
    PROVE  venue'[v] = new /\ new # NULL /\ \A w \in Venues : w # v => venue'[w] = venue[w]
BY VenueAssumption DEF Sound, TypeOK

\* Storing what was read, on the venue or on one created for it.
LEMMA StoreMoves ==
    ASSUME Sound, NEW v \in Venues, NEW row \in Venue, row = IF Present(v) THEN venue[v] ELSE NewVenue,
           NEW q, q.venue = v, q.trading \in Money \cup {NULL}, q.fund \in Money \cup {NULL},
           Store(q, row), UNCHANGED connected, Present(v) \/ (LiveVenues = {} /\ connected)
    PROVE  (\A w \in Venues : RowMoves(w)) /\ LiveMove
<1>1. Moment /\ clock' \in Time
  BY MomentIs DEF Store
<1> DEFINE new == WithFund(WithTrading(row, q), q, clock')
<1>2. /\ new \in Venue /\ new.syncedTo = row.syncedTo /\ new.connected = row.connected
      /\ new.openingFundAt = row.openingFundAt \/ new.openingFundAt = clock'
  BY <1>1, StoredIs
<1>3. venue' = [venue EXCEPT ![v] = new]
  BY DEF Store
<1> HIDE DEF new
<1>4. venue'[v] = new /\ new # NULL /\ \A w \in Venues : w # v => venue'[w] = venue[w]
  BY <1>2, <1>3, RowIs
<1>5. NewVenue.openingFundAt = NULL /\ NewVenue.syncedTo = NULL /\ NewVenue.connected
  BY DEF NewVenue
<1>6. \A w \in Venues : RowMoves(w)
  BY <1>1, <1>2, <1>4, <1>5 DEF RowMoves, Present
<1>7. LiveMove
  <2>1. CASE Present(v)
    <3>1. LiveVenues' = LiveVenues
      BY <1>2, <1>4, <2>1 DEF LiveVenues, Present
    <3> QED
      BY <3>1 DEF LiveMove
  <2>2. CASE ~Present(v)
    <3>1. \A w \in Venues : venue[w] # NULL => ~venue[w].connected
      BY <2>2 DEF LiveVenues, Present
    <3>2. \A w \in Venues : (venue'[w] # NULL /\ venue'[w].connected) <=> w = v
      BY <1>2, <1>4, <1>5, <2>2, <3>1
    <3>3. LiveVenues' = {v}
      BY <3>2 DEF LiveVenues, Present
    <3> QED
      BY <2>2, <3>3 DEF LiveMove, Sound, TypeOK
  <2> QED
    BY <2>1, <2>2
<1> QED
  BY <1>6, <1>7

LEMMA RowsMove == Sound /\ [Next]_vars => (\A v \in Venues : RowMoves(v)) /\ LiveMove
<1> SUFFICES ASSUME Sound, [Next]_vars PROVE (\A v \in Venues : RowMoves(v)) /\ LiveMove
  OBVIOUS
<1>0. run \in Run /\ TypeOK /\ Funds
  BY DEF Sound, TypeOK
<1>1. CASE UNCHANGED <<venue, connected>>
  BY <1>1 DEF RowMoves, LiveMove, LiveVenues, Present
<1>2. CASE Connect
  <2>1. UNCHANGED venue /\ connected' = TRUE /\ LiveVenues' = LiveVenues
    BY <1>2 DEF Connect, LiveVenues, Present
  <2> QED
    BY <1>2, <2>1 DEF RowMoves, LiveMove, Present
<1>3. CASE Disconnect
  <2>1. \A v \in LiveVenues :
           LET row == [venue[v] EXCEPT !.connected = FALSE] IN
           /\ row \in Venue /\ row.openingFundAt = venue[v].openingFundAt /\ row.syncedTo = venue[v].syncedTo
           /\ ~row.connected
    BY <1>0, VenuesAre DEF LiveVenues, Venue
  <2>2. \A v \in Venues : venue'[v] = IF v \in LiveVenues THEN [venue[v] EXCEPT !.connected = FALSE] ELSE venue[v]
    BY <1>3 DEF Disconnect
  <2>3. \A v \in Venues : v \in LiveVenues => Present(v)
    BY DEF LiveVenues
  <2>4. \A v \in Venues : RowMoves(v)
    BY <2>1, <2>2, <2>3, VenueAssumption DEF RowMoves, Present
  <2>5. LiveVenues' = {}
    BY <2>1, <2>2 DEF LiveVenues, Present
  <2>6. connected' = FALSE /\ (run'.gone \/ run'.pc = "idle")
    BY <1>0, <1>3 DEF Disconnect, At, Run
  <2> QED
    BY <2>4, <2>5, <2>6 DEF LiveMove
<1>4. CASE CreateVenue
  <2>1. PICK v \in Venues : ~Present(v) /\ venue' = [venue EXCEPT ![v] = NewVenue]
    BY <1>4 DEF CreateVenue
  <2>2. venue'[v] = NewVenue /\ NewVenue # NULL /\ \A w \in Venues : w # v => venue'[w] = venue[w]
    BY <2>1, IdleIsRun, RowIs
  <2>3. NewVenue.openingFundAt = NULL /\ NewVenue.syncedTo = NULL /\ NewVenue.connected
    BY DEF NewVenue
  <2>4. \A w \in Venues : RowMoves(w)
    BY <2>1, <2>2, <2>3 DEF RowMoves, Present
  <2>5. LiveVenues = {} /\ UNCHANGED connected
    BY <1>4 DEF CreateVenue, Unclaimed
  <2>6. \A w \in Venues : venue[w] # NULL => ~venue[w].connected
    BY <2>5 DEF LiveVenues, Present
  <2>7. \A w \in Venues : (venue'[w] # NULL /\ venue'[w].connected) <=> w = v
    BY <2>2, <2>3, <2>6
  <2>8. LiveVenues' = {v} /\ At("create") /\ ~run.gone
    BY <1>4, <2>7 DEF LiveVenues, Present, CreateVenue, Unclaimed
  <2> QED
    BY <2>1, <2>4, <2>5, <2>8 DEF LiveMove
<1>5. CASE RefreshLiveBalance
  <2>1. CASE run.trading = NULL /\ run.fund = NULL
    BY <1>1, <1>5, <2>1 DEF RefreshLiveBalance
  <2>2. CASE ~(run.trading = NULL /\ run.fund = NULL)
    <3>1. PICK v \in Venues : v = run.venue /\ Present(v)
      BY <1>5 DEF RefreshLiveBalance, Sound, RunKnows
    <3>2. Store(run, venue[v]) /\ UNCHANGED connected
      BY <1>5, <2>2, <3>1 DEF RefreshLiveBalance
    <3>3. venue[v] \in Venue
      BY <1>0, <3>1, VenuesAre
    <3>4. run.trading \in Money \cup {NULL} /\ run.fund \in Money \cup {NULL}
      BY <1>0 DEF Run
    <3> QED
      BY <3>1, <3>2, <3>3, <3>4, StoreMoves
  <2> QED
    BY <2>1, <2>2
<1>6. ASSUME NEW v \in Venues, RefreshBeside(v) PROVE (\A w \in Venues : RowMoves(w)) /\ LiveMove
  <2> DEFINE row == IF Present(v) THEN venue[v] ELSE NewVenue
  <2>1. row \in Venue
    BY <1>0, VenuesAre, IdleIsRun
  <2>2. PICK trading \in {InTrading, NULL}, fund \in {InFund, NULL} :
           Store([Reading(Idle, v, row) EXCEPT !.trading = trading, !.fund = fund, !.won = gains], row)
    BY <1>6 DEF RefreshBeside
  <2> DEFINE r == Reading(Idle, v, row)
             q == [r EXCEPT !.trading = trading, !.fund = fund, !.won = gains]
  <2>3. r \in Run /\ r.venue = v
    BY IdleIsRun, ReadingIs
  <2>4. trading \in Money \cup {NULL} /\ fund \in Money \cup {NULL}
    BY <1>0, InFundIs
  <2>5. Store(q, row)
    BY <2>2
  <2> HIDE DEF r
  <2>6. q.venue = v /\ q.trading = trading /\ q.fund = fund
    BY <2>3 DEF Run
  <2> HIDE DEF q
  <2>7. UNCHANGED connected /\ (Present(v) \/ (LiveVenues = {} /\ connected))
    BY <1>6 DEF RefreshBeside, LiveVenues
  <2>8. row = IF Present(v) THEN venue[v] ELSE NewVenue
    OBVIOUS
  <2> HIDE DEF row
  <2> QED
    BY <2>1, <2>4, <2>5, <2>6, <2>7, <2>8, StoreMoves
<1>7. ASSUME NEW edge, AdvanceCursor(edge) PROVE (\A w \in Venues : RowMoves(w)) /\ LiveMove
  <2>1. PICK v \in Venues : /\ v = run.venue /\ Opened(v) /\ run.pc = "advance"
    BY <1>7 DEF AdvanceCursor, Sound, RunKnows, Importing, At
  <2> DEFINE new == [venue[v] EXCEPT !.syncedTo = run.to]
  <2>2. venue' = [venue EXCEPT ![v] = new] /\ UNCHANGED connected
    BY <1>7, <2>1 DEF AdvanceCursor, CursorAfter
  <2>3. venue[v] \in Venue /\ run.to \in Time
    BY <1>0, <2>1, VenuesAre DEF Opened, Run
  <2>4. /\ new \in Venue /\ new.syncedTo = run.to /\ new.openingFundAt = venue[v].openingFundAt
        /\ new.connected = venue[v].connected
    BY <2>3 DEF Venue
  <2> HIDE DEF new
  <2>5. venue'[v] = new /\ new # NULL /\ \A w \in Venues : w # v => venue'[w] = venue[w]
    BY <2>2, <2>4, RowIs
  <2>6. \A w \in Venues : RowMoves(w)
    BY <2>1, <2>4, <2>5 DEF RowMoves, Present, Opened, At
  <2>7. LiveVenues' = LiveVenues
    BY <2>1, <2>4, <2>5 DEF LiveVenues, Present, Opened
  <2> QED
    BY <2>2, <2>6, <2>7 DEF LiveMove
<1>8. \/ UNCHANGED <<venue, connected>> \/ Connect \/ Disconnect \/ CreateVenue \/ RefreshLiveBalance
      \/ (\E v \in Venues : RefreshBeside(v)) \/ \E edge \in {0, Softness} : AdvanceCursor(edge)
  BY DEF Next, vars, tables, Exchange, Sync, Tick, MoveToTrading, Trade, Deposit, Withdraw, WithdrawalSucceeds,
         ListMovement, EnsureForAccount, ReadTradingBalance, ReadFundBalance, StartImport, Import, Fail
<1> QED
  BY <1>1, <1>2, <1>3, <1>4, <1>5, <1>6, <1>7, <1>8

\* How a run comes to be importing, and goes on.
SameImport ==
    /\ run'.pc = run.pc /\ run'.venue = run.venue /\ run'.now = run.now
    /\ run'.floor = run.floor /\ run'.to = run.to /\ run'.got = run.got
    /\ run'.gone = run.gone \/ (run'.gone /\ LiveVenues' = {})

LEMMA RunMoves ==
    Sound /\ [Next]_vars =>
        \/ run'.pc \notin {"import", "advance"} \/ SameImport
        \/ \E edge \in {0, Softness} : StartImport(edge) \/ AdvanceCursor(edge)
        \/ \E priced \in BOOLEAN : Import(priced)
<1> SUFFICES ASSUME Sound, [Next]_vars, run'.pc \in {"import", "advance"}
             PROVE  \/ SameImport
                    \/ \E edge \in {0, Softness} : StartImport(edge) \/ AdvanceCursor(edge)
                    \/ \E priced \in BOOLEAN : Import(priced)
  OBVIOUS
<1>0. run \in Run
  BY DEF Sound, TypeOK
<1>1. CASE UNCHANGED run
  BY <1>1 DEF SameImport
<1>2. CASE Disconnect
  <2>1. run' = run \/ run' = [run EXCEPT !.gone = TRUE]
    BY <1>2 DEF Disconnect
  <2>2. LiveVenues' = {}
    <3>1. \A v \in LiveVenues : ~[venue[v] EXCEPT !.connected = FALSE].connected
      BY VenuesAre DEF LiveVenues, Venue, Sound
    <3>2. \A v \in Venues : venue'[v] = IF v \in LiveVenues THEN [venue[v] EXCEPT !.connected = FALSE] ELSE venue[v]
      BY <1>2 DEF Disconnect
    <3> QED
      BY <3>1, <3>2 DEF LiveVenues, Present
  <2> QED
    BY <1>0, <2>1, <2>2 DEF SameImport, Run
<1>3. CASE Fail
  BY <1>3 DEF Fail, Idle
<1>4. CASE EnsureForAccount
  <2>1. ASSUME NEW v \in Mine, run' = Reading(run, v, venue[v]) PROVE run'.pc = "read"
    BY <1>0, <2>1, ReadingIs DEF Mine, LiveVenues
  <2>2. run' = [run EXCEPT !.pc = "create"] => run'.pc = "create"
    BY <1>0 DEF Run
  <2> QED
    BY <1>4, <2>1, <2>2 DEF EnsureForAccount
<1>5. CASE CreateVenue
  BY <1>0, <1>5, ReadingIs DEF CreateVenue
<1>6. CASE ReadTradingBalance \/ ReadFundBalance
  BY <1>0, <1>6 DEF ReadTradingBalance, ReadFundBalance, At, Run
<1>7. CASE RefreshLiveBalance
  BY <1>7, IdleIsRun DEF RefreshLiveBalance, Run
<1>8. \/ UNCHANGED run \/ Disconnect \/ Fail \/ EnsureForAccount \/ CreateVenue
      \/ ReadTradingBalance \/ ReadFundBalance \/ RefreshLiveBalance
      \/ (\E edge \in {0, Softness} : StartImport(edge) \/ AdvanceCursor(edge))
      \/ \E priced \in BOOLEAN : Import(priced)
  BY DEF Next, vars, Exchange, Sync, Tick, MoveToTrading, Trade, Deposit, Withdraw, WithdrawalSucceeds, ListMovement,
         Connect, RefreshBeside
<1> QED
  BY <1>1, <1>2, <1>3, <1>4, <1>5, <1>6, <1>7, <1>8

\* What an import fetched and the baseline allows is recorded by it.
LEMMA ImportRecords ==
    ASSUME NEW priced \in BOOLEAN, Import(priced), run.venue \in Venues, run.got \subseteq Movements
    PROVE  \A m \in SinceBaseline(run) : transfer'[<<run.venue, m>>] # NULL
<1> DEFINE worth(x) == IF ~priced THEN 0 ELSE IF movement[x].out THEN -1 ELSE 1
           fresh == {x \in SinceBaseline(run) : ~Recorded(run.venue, x)}
<1>1. transfer' = [k \in Venues \X Movements |-> IF k[1] = run.venue /\ k[2] \in fresh THEN worth(k[2]) ELSE transfer[k]]
  BY DEF Import
<1>2. \A m : worth(m) # NULL
  BY VenueAssumption
<1>3. \A m \in SinceBaseline(run) : m \in Movements /\ (m \in fresh \/ Recorded(run.venue, m))
  BY DEF SinceBaseline
<1> HIDE DEF worth, fresh
<1> QED
  BY <1>1, <1>2, <1>3 DEF Recorded

(***************************************************************************)
(* Completeness of the import.  What is overdue at the moment a run took   *)
(* is listed by then; the run has it, or will have, once its windows are   *)
(* past it; and where they begin, an earlier run had what lies before.     *)
(***************************************************************************)

Due(m, t) == Succeeded(m) /\ movement[m].at + Overlap <= t

Brought(m) == Recorded(run.venue, m) \/ (At("import") /\ m \in run.got)

RunMissesNothing ==
    Importing =>
        \A m \in Movements : Due(m, run.now) =>
            /\ movement[m].listed
            /\ run.floor <= movement[m].at /\ movement[m].at <= run.to => Brought(m)

NoneMissed ==
    \A v \in Venues, m \in Movements :
        /\ Present(v) /\ venue[v].syncedTo # NULL
        /\ Due(m, venue[v].syncedTo) /\ movement[m].at >= venue[v].openingFundAt
        => Recorded(v, m)

LEMMA InitNoneMissed == Init => RunMissesNothing /\ NoneMissed
BY DEF Init, RunMissesNothing, NoneMissed, Importing, At, Idle, Present

\* What is due at a past moment was due before the step.
LEMMA DueBefore ==
    ASSUME Sound, [Next]_vars, NEW m \in Movements, NEW t \in Nat, Past(t),
           Succeeded(m)', movement'[m].at + Overlap <= t
    PROVE  /\ Due(m, t) /\ movement'[m].at = movement[m].at /\ movement[m].at \in Nat
           /\ movement[m].listed => movement'[m].listed
<1>1. Overlap \in Nat /\ MaxTime \in Nat /\ clock \in Nat
  BY Happened, VenueAssumption
<1>2. Succeeded(m)
  <2>1. CASE movement'[m].at = clock /\ clock < MaxTime
    BY <1>1, <2>1 DEF Past
  <2> QED
    BY <2>1, Happened
<1> QED
  BY <1>2, Happened DEF Due

LEMMA NextRunMissesNothing == Sound /\ RunMissesNothing /\ NoneMissed /\ [Next]_vars => RunMissesNothing'
<1> SUFFICES ASSUME Sound, RunMissesNothing, NoneMissed, [Next]_vars, run'.pc \in {"import", "advance"},
                    NEW m \in Movements, Succeeded(m)', movement'[m].at + Overlap <= run'.now
             PROVE  /\ movement'[m].listed
                    /\ run'.floor <= movement'[m].at /\ movement'[m].at <= run'.to =>
                          transfer'[<<run'.venue, m>>] # NULL \/ (run'.pc = "import" /\ m \in run'.got)
  BY DEF RunMissesNothing, Importing, At, Due, Succeeded, Brought, Recorded
<1>0. run \in Run /\ run.now \in Nat /\ run.to \in Nat /\ run.floor \in Nat /\ Overlap \in Nat /\ clock \in Nat
  BY TimeIs, VenueAssumption DEF Sound, TypeOK, Run
<1>1. CASE SameImport
  <2>1. Importing /\ Past(run.now) /\ run.venue \in Venues
    BY <1>1 DEF SameImport, Importing, At, Sound, RunKnows
  <2>2. Due(m, run.now) /\ movement'[m].at = movement[m].at /\ (movement[m].listed => movement'[m].listed)
    BY <1>0, <1>1, <2>1, DueBefore DEF SameImport
  <2>3. /\ movement[m].listed
        /\ run.floor <= movement[m].at /\ movement[m].at <= run.to => Brought(m)
    BY <2>1, <2>2 DEF RunMissesNothing
  <2>4. Recorded(run.venue, m) => transfer'[<<run.venue, m>>] # NULL
    BY <2>1, RecordsKept
  <2> QED
    BY <1>1, <2>2, <2>3, <2>4 DEF SameImport, Brought, At
<1>2. ASSUME NEW edge \in {0, Softness}, StartImport(edge)
      PROVE  /\ movement'[m].listed
             /\ run'.floor <= movement'[m].at /\ movement'[m].at <= run'.to =>
                   transfer'[<<run'.venue, m>>] # NULL \/ m \in run'.got
  <2>1. PICK v \in Mine :
              /\ Opened(v) /\ run'.venue = v /\ run'.now = clock /\ run'.floor = venue[v].openingFundAt
              /\ run'.got = FetchWindow(ImportStart(venue[v]) - edge, run'.to) /\ Moment
    BY <1>2, StartIs
  <2>2. UNCHANGED <<movement, transfer>>
    BY <1>2 DEF StartImport, exchange, tables
  <2>3. v \in Venues /\ Present(v) /\ venue[v].openingFundAt \in Nat /\ venue[v].syncedTo \in Nat \cup {NULL}
    BY <2>1, VenuesAre, TimeIs DEF Mine, LiveVenues, Opened, Sound, Venue
  <2>4. Succeeded(m) /\ movement[m].at \in Nat /\ movement[m].at + Overlap <= clock
    BY <2>1, <2>2, MovementsAre, TimeIs DEF Succeeded, Sound, Movement
  <2>5. movement[m].listed
    <3>1. Lateness \in Nat /\ Lateness <= Overlap
      BY <1>0, VenueAssumption
    <3>2. ~movement[m].listed => clock < movement[m].at + Lateness
      BY <2>1, <2>4 DEF Moment, OnTime, Succeeded
    <3> QED
      BY <1>0, <2>4, <3>1, <3>2
  <2>6. ASSUME venue[v].openingFundAt <= movement[m].at, movement[m].at <= run'.to
        PROVE  Recorded(v, m) \/ m \in FetchWindow(ImportStart(venue[v]) - edge, run'.to)
    <3> DEFINE start == ImportStart(venue[v])
    <3>1. /\ start \in Nat
          /\ start = venue[v].openingFundAt \/ (venue[v].syncedTo # NULL /\ start = venue[v].syncedTo - Overlap)
      BY <2>3, ImportStartIs
    <3>2. edge \in Nat
      BY VenueAssumption
    <3> HIDE DEF start
    <3>3. CASE start - edge <= movement[m].at
      BY <2>4, <2>5, <2>6, <3>3 DEF FetchWindow, start, Succeeded
    <3>4. CASE ~(start - edge <= movement[m].at)
      <4>1. movement[m].at < start
        BY <2>4, <3>1, <3>2, <3>4
      <4>2. venue[v].syncedTo \in Nat /\ venue[v].syncedTo # NULL /\ start = venue[v].syncedTo - Overlap
        BY <2>3, <2>4, <2>6, <3>1, <4>1
      <4>3. movement[m].at + Overlap <= venue[v].syncedTo
        BY <1>0, <2>4, <4>1, <4>2
      <4> QED
        BY <2>3, <2>4, <2>6, <4>2, <4>3 DEF NoneMissed, Due
    <3> QED
      BY <3>3, <3>4
  <2> QED
    BY <2>1, <2>2, <2>5, <2>6 DEF Recorded
<1>3. ASSUME NEW priced \in BOOLEAN, Import(priced)
      PROVE  /\ movement'[m].listed
             /\ run'.floor <= movement'[m].at /\ movement'[m].at <= run'.to => transfer'[<<run'.venue, m>>] # NULL
  <2>1. At("import") /\ UNCHANGED movement /\ run' = [run EXCEPT !.pc = "advance", !.got = {}]
    BY <1>3 DEF Import, exchange
  <2>2. run'.venue = run.venue /\ run'.now = run.now /\ run'.floor = run.floor /\ run'.to = run.to
    BY <1>0, <2>1 DEF Run
  <2>3. run.venue \in Venues /\ Importing /\ run.got \subseteq Movements
    BY <1>0, <2>1 DEF Sound, RunKnows, Importing, At, Run
  <2>4. Due(m, run.now)
    BY <2>1, <2>2 DEF Due, Succeeded
  <2>5. /\ movement[m].listed
        /\ run.floor <= movement[m].at /\ movement[m].at <= run.to => Brought(m)
    BY <2>3, <2>4 DEF RunMissesNothing
  <2>6. ASSUME run.floor <= movement[m].at, Brought(m) PROVE transfer'[<<run.venue, m>>] # NULL
    <3>1. CASE Recorded(run.venue, m)
      BY <2>3, <3>1, RecordsKept
    <3>2. CASE m \in run.got
      <4>1. movement[m].at \in Nat
        BY <2>4, MovementsAre, TimeIs DEF Due, Succeeded, Sound, Movement
      <4>2. m \in SinceBaseline(run)
        BY <1>0, <2>6, <3>2, <4>1 DEF SinceBaseline
      <4> QED
        BY <1>3, <2>3, <4>2, ImportRecords
    <3> QED
      BY <2>6, <3>1, <3>2 DEF Brought
  <2> QED
    BY <2>1, <2>2, <2>5, <2>6
<1>4. ASSUME NEW edge \in {0, Softness}, AdvanceCursor(edge)
      PROVE  /\ movement'[m].listed
             /\ run'.floor <= movement'[m].at /\ movement'[m].at <= run'.to =>
                   transfer'[<<run'.venue, m>>] # NULL \/ m \in run'.got
  <2>1. At("advance") /\ UNCHANGED <<movement, transfer>>
    BY <1>4 DEF AdvanceCursor, exchange
  <2>2. /\ run'.venue = run.venue /\ run'.now = run.now /\ run'.floor = run.floor
        /\ run'.got = FetchWindow(run.to - edge, run'.to)
    BY <1>4, AdvanceIs
  <2>3. Due(m, run.now) /\ Importing /\ movement[m].at \in Nat
    BY <2>1, <2>2, MovementsAre, TimeIs DEF Due, Succeeded, Importing, At, Sound, Movement
  <2>4. /\ movement[m].listed
        /\ run.floor <= movement[m].at /\ movement[m].at <= run.to => Recorded(run.venue, m)
    BY <2>1, <2>3 DEF RunMissesNothing, Brought, At
  <2>5. ASSUME ~(movement[m].at <= run.to), movement[m].at <= run'.to PROVE m \in FetchWindow(run.to - edge, run'.to)
    <3>1. edge \in Nat
      BY VenueAssumption
    <3>2. run.to - edge <= movement[m].at
      BY <1>0, <2>3, <2>5, <3>1
    <3> QED
      BY <2>3, <2>4, <2>5, <3>2 DEF FetchWindow, Due, Succeeded
  <2> QED
    BY <2>1, <2>2, <2>4, <2>5 DEF Recorded
<1>5. CASE \E edge \in {0, Softness} : StartImport(edge)
  <2>1. run'.pc = "import"
    BY <1>5, StartIs
  <2> QED
    BY <1>2, <1>5, <2>1
<1>6. CASE \E edge \in {0, Softness} : AdvanceCursor(edge)
  <2>1. run'.pc = "import"
    BY <1>6, AdvanceIs
  <2> QED
    BY <1>4, <1>6, <2>1
<1> QED
  BY <1>1, <1>3, <1>5, <1>6, RunMoves

LEMMA NextNoneMissed == Sound /\ RunMissesNothing /\ NoneMissed /\ [Next]_vars => NoneMissed'
<1> SUFFICES ASSUME Sound, RunMissesNothing, NoneMissed, [Next]_vars, NEW v \in Venues, NEW m \in Movements,
                    venue'[v] # NULL, venue'[v].syncedTo # NULL, Succeeded(m)',
                    movement'[m].at + Overlap <= venue'[v].syncedTo, movement'[m].at >= venue'[v].openingFundAt
             PROVE  transfer'[<<v, m>>] # NULL
  BY DEF NoneMissed, Due, Succeeded, Present, Recorded
<1>0. clock' \in Nat /\ clock \in Nat /\ clock <= clock' /\ Overlap \in Nat /\ run.now \in Nat /\ run.to \in Nat /\ run.floor \in Nat
  BY Happened, TimeIs, VenueAssumption DEF Sound, TypeOK, Run
<1>1. RowMoves(v)
  BY RowsMove
<1>2. CASE Present(v) /\ venue'[v].syncedTo = venue[v].syncedTo
  <2>1. venue[v].syncedTo \in Nat /\ Past(venue[v].syncedTo) /\ venue[v].openingFundAt \in Nat
        /\ venue[v].openingFundAt <= clock
    BY <1>2, VenuesAre, TimeIs DEF Sound, VenueTimes, Opened, TypeOK, Present, Venue
  <2>2. Due(m, venue[v].syncedTo) /\ movement'[m].at = movement[m].at /\ movement[m].at \in Nat
    BY <1>2, <2>1, DueBefore
  <2>3. venue'[v].openingFundAt = venue[v].openingFundAt \/ venue'[v].openingFundAt = clock'
    BY <1>1, <1>2 DEF RowMoves
  <2>4. movement[m].at >= venue[v].openingFundAt
    BY <1>0, <2>1, <2>2, <2>3
  <2>5. Recorded(v, m)
    BY <1>2, <2>1, <2>2, <2>4 DEF NoneMissed
  <2> QED
    BY <2>5, RecordsKept
<1>3. CASE At("advance") /\ v = run.venue /\ venue'[v].syncedTo = run.to /\ venue'[v].openingFundAt = venue[v].openingFundAt
  <2>1. /\ Importing /\ Opened(v) /\ run.floor <= venue[v].openingFundAt /\ run.to <= run.now /\ Past(run.now)
        /\ venue[v].openingFundAt \in Nat
    BY <1>3, VenuesAre, TimeIs DEF Sound, RunKnows, Importing, At, Opened, Venue
  <2>2. Past(run.to)
    BY <1>0, <2>1 DEF Past
  <2>3. Due(m, run.to) /\ movement'[m].at = movement[m].at /\ movement[m].at \in Nat
    BY <1>0, <1>3, <2>2, DueBefore
  <2>4. Due(m, run.now) /\ run.floor <= movement[m].at /\ movement[m].at <= run.to
    BY <1>0, <1>3, <2>1, <2>3 DEF Due
  <2>5. Recorded(v, m)
    BY <1>3, <2>1, <2>4 DEF RunMissesNothing, Brought, At
  <2> QED
    BY <2>5, RecordsKept
<1> QED
  BY <1>1, <1>2, <1>3 DEF RowMoves

\* Whatever the windows, the overlap and the cursor, and wherever runs die: once the cursor is past a
\* movement by more than the overlap, and FUND had its baseline before it, the venue has it
\* (importSince, investing-movements.service.ts:67-100).
THEOREM ImportIsComplete == Spec => []NothingMissed
<1>1. Spec => [](Sound /\ RunMissesNothing /\ NoneMissed)
  <2>1. Init => Sound /\ RunMissesNothing /\ NoneMissed
    BY InitSound, InitNoneMissed
  <2>2. Sound /\ RunMissesNothing /\ NoneMissed /\ [Next]_vars => (Sound /\ RunMissesNothing /\ NoneMissed)'
    BY NextSound, NextRunMissesNothing, NextNoneMissed
  <2> QED
    BY <2>1, <2>2, PTL DEF Spec
<1>2. Sound /\ RunMissesNothing /\ NoneMissed => NothingMissed
  BY DEF NoneMissed, NothingMissed, Due, Succeeded, LiveVenues
<1> QED
  BY <1>1, <1>2, PTL

(***************************************************************************)
(* Each movement on one venue.  What former venues have lies before the    *)
(* baseline of the venue there is; what any other has, before the floor of *)
(* the run that imports; and a run that outlives its account took its      *)
(* moment before the next venue has its baseline.                          *)
(***************************************************************************)

OneLive ==
    /\ \A v, w \in LiveVenues : v = w
    /\ ~connected => LiveVenues = {}
    /\ ~At("idle") /\ ~run.gone => connected

RecordedIsPast ==
    /\ \A v \in Venues, m \in Movements : Recorded(v, m) => Succeeded(m) /\ movement[m].at < clock
    /\ At("import") => \A m \in run.got : Succeeded(m) /\ movement[m].at <= run.to

FormerBefore ==
    \A v \in LiveVenues, w \in Venues \ LiveVenues, m \in Movements :
        Opened(v) /\ Recorded(w, m) => movement[m].at < venue[v].openingFundAt

OthersBefore ==
    Importing =>
        \A w \in Venues \ {run.venue}, m \in Movements : Recorded(w, m) => movement[m].at < run.floor

RunBefore ==
    Importing =>
        IF run.gone
        THEN \A v \in LiveVenues : Opened(v) =>
                run.now < venue[v].openingFundAt \/ venue[v].openingFundAt = MaxTime + 1
        ELSE run.venue \in LiveVenues

Once == RecordedOnce /\ OneLive /\ RecordedIsPast /\ FormerBefore /\ OthersBefore /\ RunBefore

LEMMA InitOnce == Init => Once
BY DEF Init, Once, RecordedOnce, OneLive, RecordedIsPast, FormerBefore, OthersBefore, RunBefore, Importing, At, Idle,
       LiveVenues, Present, Recorded

\* A run has an account until it is gone.
LEMMA RunConnected ==
    Sound /\ OneLive /\ [Next]_vars => (run'.pc # "idle" /\ ~run'.gone => connected')
<1> SUFFICES ASSUME Sound, OneLive, [Next]_vars, run'.pc # "idle", ~run'.gone PROVE connected'
  OBVIOUS
<1>0. run \in Run
  BY DEF Sound, TypeOK
<1>1. CASE EnsureForAccount
  BY <1>1 DEF EnsureForAccount, tables
<1>2. CASE Disconnect
  BY <1>0, <1>2 DEF Disconnect, At, Run
<1>3. CASE Fail
  BY <1>3 DEF Fail, Idle
<1>4. ASSUME run.pc # "idle", run'.gone = run.gone, connected' = connected PROVE connected'
  BY <1>4 DEF OneLive, At
<1>5. CASE CreateVenue
  <2>1. run'.gone = run.gone
    BY <1>0, <1>5, ReadingIs DEF CreateVenue
  <2> QED
    BY <1>4, <1>5, <2>1 DEF CreateVenue, At
<1>6. CASE ReadTradingBalance \/ ReadFundBalance
  BY <1>0, <1>4, <1>6 DEF ReadTradingBalance, ReadFundBalance, At, Run, tables
<1>7. CASE RefreshLiveBalance
  BY <1>4, <1>7, IdleIsRun DEF RefreshLiveBalance, At, Run
<1>8. ASSUME NEW edge \in {0, Softness}, StartImport(edge) PROVE connected'
  <2>1. run'.gone = run.gone
    BY <1>8, StartIs
  <2> QED
    BY <1>4, <1>8, <2>1 DEF StartImport, At, tables
<1>9. ASSUME NEW edge \in {0, Softness}, AdvanceCursor(edge) PROVE connected'
  <2>1. run'.gone = run.gone
    BY <1>9, AdvanceIs
  <2> QED
    BY <1>4, <1>9, <2>1 DEF AdvanceCursor, At
<1>10. ASSUME NEW priced \in BOOLEAN, Import(priced) PROVE connected'
  BY <1>0, <1>4, <1>10 DEF Import, At, Run
<1>11. CASE UNCHANGED run /\ (UNCHANGED connected \/ connected')
  BY <1>4, <1>11
<1>12. \/ UNCHANGED run /\ (UNCHANGED connected \/ connected')
       \/ Disconnect \/ Fail \/ EnsureForAccount \/ CreateVenue
       \/ ReadTradingBalance \/ ReadFundBalance \/ RefreshLiveBalance
       \/ (\E edge \in {0, Softness} : StartImport(edge) \/ AdvanceCursor(edge))
       \/ \E priced \in BOOLEAN : Import(priced)
  BY DEF Next, vars, tables, Exchange, Sync, Tick, MoveToTrading, Trade, Deposit, Withdraw, WithdrawalSucceeds, ListMovement,
         Connect, RefreshBeside
<1> QED
  BY <1>1, <1>2, <1>3, <1>5, <1>6, <1>7, <1>8, <1>9, <1>10, <1>11, <1>12

LEMMA NextOneLive == Sound /\ OneLive /\ [Next]_vars => OneLive'
<1> SUFFICES ASSUME Sound, OneLive, [Next]_vars PROVE OneLive'
  OBVIOUS
<1>1. LiveMove /\ (run'.pc # "idle" /\ ~run'.gone => connected')
  BY RowsMove, RunConnected
<1>2. (\A v, w \in LiveVenues' : v = w) /\ (~connected' => LiveVenues' = {})
  BY <1>1 DEF LiveMove, OneLive, At
<1> QED
  BY <1>1, <1>2 DEF OneLive, At

\* What an import adds was stamped by the run's moment.
LEMMA ImportedBy ==
    ASSUME Sound, RecordedIsPast, At("import"), NEW m \in SinceBaseline(run)
    PROVE  /\ m \in Movements /\ Succeeded(m) /\ movement[m].at \in Nat /\ run.floor <= movement[m].at
           /\ movement[m].at <= run.now /\ movement[m].at < clock /\ movement[m].at < MaxTime
           /\ run.now \in Nat /\ Past(run.now)
<1>1. m \in run.got /\ movement[m].at >= run.floor /\ m \in Movements
  BY DEF SinceBaseline, Sound, TypeOK, Run
<1>2. Succeeded(m) /\ movement[m].at <= run.to
  BY <1>1 DEF RecordedIsPast
<1>3. run.to <= run.now /\ Past(run.now)
  BY DEF Sound, RunKnows, Importing, At
<1>5. movement[m].at < MaxTime
  BY <1>1, <1>2 DEF Sound, Stamps
<1>6. run.to \in Nat /\ run.now \in Nat /\ run.floor \in Nat /\ MaxTime \in Nat /\ clock \in Nat
  BY TimeIs, VenueAssumption DEF Sound, TypeOK, Run
<1>4. movement[m].at \in Nat
  BY <1>1, <1>2, MovementsAre, TimeIs DEF Succeeded, Sound, Movement
<1> QED
  BY <1>1, <1>2, <1>3, <1>4, <1>5, <1>6 DEF Past

LEMMA NextRecordedIsPast == Sound /\ RecordedIsPast /\ [Next]_vars => RecordedIsPast'
<1> SUFFICES ASSUME Sound, RecordedIsPast, [Next]_vars PROVE RecordedIsPast'
  OBVIOUS
<1>1. clock \in Nat /\ clock' \in Nat /\ clock <= clock'
  BY Happened
<1>2. ASSUME NEW v \in Venues, NEW m \in Movements, transfer'[<<v, m>>] # NULL
      PROVE  Succeeded(m)' /\ movement'[m].at < clock'
  <2>1. CASE Recorded(v, m)
    <3>1. Succeeded(m) /\ movement[m].at < clock
      BY <2>1 DEF RecordedIsPast
    <3> QED
      BY <1>1, <3>1, Happened
  <2>2. CASE ~Recorded(v, m)
    <3>1. At("import") /\ m \in SinceBaseline(run)
      BY <1>2, <2>2, RecordsKept
    <3>2. Succeeded(m) /\ movement[m].at \in Nat /\ movement[m].at < clock
      BY <3>1, ImportedBy
    <3> QED
      BY <1>1, <3>2, Happened
  <2> QED
    BY <2>1, <2>2
<1>3. ASSUME run'.pc = "import", NEW m \in run'.got PROVE Succeeded(m)' /\ movement'[m].at <= run'.to
  <2>1. CASE SameImport
    <3>1. m \in Movements /\ Succeeded(m) /\ movement[m].at <= run.to
      BY <1>3, <2>1 DEF SameImport, RecordedIsPast, At, Sound, TypeOK, Run
    <3> QED
      BY <2>1, <3>1, Happened DEF SameImport
  <2>2. ASSUME NEW from, run'.got = FetchWindow(from, run'.to), UNCHANGED movement
        PROVE  Succeeded(m)' /\ movement'[m].at <= run'.to
    <3>1. m \in Movements /\ movement[m] # NULL /\ movement[m].listed /\ movement[m].at <= run'.to
      BY <1>3, <2>2 DEF FetchWindow
    <3>2. Succeeded(m)
      BY <3>1 DEF Sound, Stamps
    <3> QED
      BY <2>2, <3>1, <3>2 DEF Succeeded
  <2>3. ASSUME NEW edge \in {0, Softness}, StartImport(edge) PROVE Succeeded(m)' /\ movement'[m].at <= run'.to
    <3>1. \E from : run'.got = FetchWindow(from, run'.to)
      BY <1>3, <2>3, StartIs
    <3> QED
      BY <2>2, <2>3, <3>1 DEF StartImport, exchange
  <2>4. ASSUME NEW edge \in {0, Softness}, AdvanceCursor(edge) PROVE Succeeded(m)' /\ movement'[m].at <= run'.to
    <3>1. run'.got = FetchWindow(run.to - edge, run'.to)
      BY <1>3, <2>4, AdvanceIs
    <3> QED
      BY <2>2, <2>4, <3>1 DEF AdvanceCursor, exchange
  <2>5. ASSUME NEW priced \in BOOLEAN, Import(priced) PROVE FALSE
    BY <1>3, <2>5 DEF Import, Sound, TypeOK, Run
  <2> QED
    BY <1>3, <2>1, <2>3, <2>4, <2>5, RunMoves
<1> QED
  BY <1>2, <1>3 DEF RecordedIsPast, Recorded, At

LEMMA NextFormerBefore ==
    Sound /\ Once /\ [Next]_vars => FormerBefore'
<1> SUFFICES ASSUME Sound, Once, [Next]_vars, NEW v \in LiveVenues', NEW w \in Venues, w \notin LiveVenues',
                    NEW m \in Movements, Opened(v)', transfer'[<<w, m>>] # NULL
             PROVE  movement'[m].at < venue'[v].openingFundAt
  BY DEF FormerBefore, Recorded
<1> USE DEF Once
<1>1. v \in Venues /\ venue'[v] # NULL /\ venue'[v].openingFundAt # NULL
  BY DEF LiveVenues, Opened, Present
<1>2. RowMoves(v) /\ LiveMove
  BY <1>1, RowsMove
<1>3. CASE venue'[v].openingFundAt = clock'
  <2>1. movement'[m].at < clock'
    BY NextRecordedIsPast DEF RecordedIsPast, Recorded
  <2> QED
    BY <1>3, <2>1
<1>4. CASE Present(v) /\ venue'[v].openingFundAt = venue[v].openingFundAt
  <2>1. LiveVenues' = LiveVenues
    BY <1>2, <1>4 DEF LiveMove
  <2>2. v \in LiveVenues /\ w \notin LiveVenues /\ Opened(v)
    BY <1>1, <1>4, <2>1 DEF Opened
  <2>3. movement[m].at < venue[v].openingFundAt /\ Succeeded(m)
    <3>1. CASE Recorded(w, m)
      BY <2>2, <3>1 DEF FormerBefore, RecordedIsPast
    <3>2. CASE ~Recorded(w, m)
      <4>1. At("import") /\ w = run.venue /\ m \in SinceBaseline(run)
        BY <3>2, RecordsKept
      <4>2. run.now < venue[v].openingFundAt \/ venue[v].openingFundAt = MaxTime + 1
        BY <2>2, <4>1 DEF RunBefore, Importing, At
      <4>3. venue[v].openingFundAt \in Nat /\ MaxTime \in Nat
        BY <1>1, <2>2, VenuesAre, TimeIs, VenueAssumption DEF Sound, Opened, Venue
      <4> QED
        BY <4>1, <4>2, <4>3, ImportedBy
    <3> QED
      BY <3>1, <3>2
  <2> QED
    BY <1>4, <2>3, Happened
<1> QED
  BY <1>1, <1>2, <1>3, <1>4 DEF RowMoves

\* A run that goes on importing keeps its venue, its floor and its moment.
LEMMA GoesOn ==
    ASSUME Sound, [Next]_vars, run'.pc \in {"import", "advance"}
    PROVE  \/ \E edge \in {0, Softness} : StartImport(edge)
           \/ /\ Importing /\ run'.venue = run.venue /\ run'.floor = run.floor /\ run'.now = run.now
              /\ run'.gone = run.gone \/ (run'.gone /\ LiveVenues' = {})
<1>1. CASE SameImport
  BY <1>1 DEF SameImport, Importing, At
<1>2. ASSUME NEW edge \in {0, Softness}, AdvanceCursor(edge)
      PROVE  Importing /\ run'.venue = run.venue /\ run'.floor = run.floor /\ run'.now = run.now /\ run'.gone = run.gone
  BY <1>2, AdvanceIs DEF AdvanceCursor, Importing, At
<1>3. ASSUME NEW priced \in BOOLEAN, Import(priced)
      PROVE  Importing /\ run'.venue = run.venue /\ run'.floor = run.floor /\ run'.now = run.now /\ run'.gone = run.gone
  BY <1>3 DEF Import, Importing, At, Sound, TypeOK, Run
<1> QED
  BY <1>1, <1>2, <1>3, RunMoves

LEMMA NextOthersBefore == Sound /\ Once /\ [Next]_vars => OthersBefore'
<1> SUFFICES ASSUME Sound, Once, [Next]_vars, run'.pc \in {"import", "advance"}, NEW w \in Venues, w # run'.venue,
                    NEW m \in Movements, transfer'[<<w, m>>] # NULL
             PROVE  movement'[m].at < run'.floor
  BY DEF OthersBefore, Importing, At, Recorded
<1> USE DEF Once
<1>1. ASSUME NEW edge \in {0, Softness}, StartImport(edge) PROVE movement'[m].at < run'.floor
  <2>1. PICK v \in Mine : Opened(v) /\ run'.venue = v /\ run'.floor = venue[v].openingFundAt
    BY <1>1, StartIs
  <2>2. UNCHANGED <<movement, transfer>>
    BY <1>1 DEF StartImport, exchange, tables
  <2>3. v \in LiveVenues /\ w \notin LiveVenues
    BY <2>1 DEF Mine, OneLive
  <2> QED
    BY <2>1, <2>2, <2>3 DEF FormerBefore, Recorded
<1>2. CASE Importing /\ run'.venue = run.venue /\ run'.floor = run.floor
  <2>1. Recorded(w, m)
    BY <1>2, RecordsKept
  <2>2. movement[m].at < run.floor /\ Succeeded(m)
    BY <1>2, <2>1 DEF OthersBefore, RecordedIsPast
  <2> QED
    BY <1>2, <2>2, Happened
<1> QED
  BY <1>1, <1>2, GoesOn

LEMMA NextRunBefore == Sound /\ Once /\ [Next]_vars => RunBefore'
<1> SUFFICES ASSUME Sound, Once, [Next]_vars, run'.pc \in {"import", "advance"}
             PROVE  IF run'.gone
                    THEN \A v \in LiveVenues' : Opened(v)' =>
                            run'.now < venue'[v].openingFundAt \/ venue'[v].openingFundAt = MaxTime + 1
                    ELSE run'.venue \in LiveVenues'
  BY DEF RunBefore, Importing, At
<1> USE DEF Once
<1>1. ASSUME NEW edge \in {0, Softness}, StartImport(edge)
      PROVE  ~run'.gone /\ run'.venue \in LiveVenues'
  <2>1. PICK v \in Mine : run'.venue = v /\ run'.gone = run.gone
    BY <1>1, StartIs
  <2>2. UNCHANGED venue
    BY <1>1 DEF StartImport, tables
  <2> QED
    BY <2>1, <2>2 DEF Mine, LiveVenues, Present
<1>2. CASE /\ Importing /\ run'.venue = run.venue /\ run'.now = run.now
           /\ run'.gone = run.gone \/ (run'.gone /\ LiveVenues' = {})
  <2>0. LiveMove
    BY RowsMove
  <2>1. CASE ~run'.gone
    <3>1. run.venue \in LiveVenues
      BY <1>2, <2>1 DEF RunBefore
    <3> QED
      BY <1>2, <2>0, <2>1, <3>1 DEF LiveMove
  <2>2. ASSUME run'.gone, NEW v \in LiveVenues', Opened(v)'
        PROVE  run'.now < venue'[v].openingFundAt \/ venue'[v].openingFundAt = MaxTime + 1
    <3>1. run.gone /\ v \in Venues /\ venue'[v] # NULL /\ venue'[v].openingFundAt # NULL
      BY <1>2, <2>2 DEF LiveVenues, Opened, Present
    <3>2. RowMoves(v)
      BY <3>1, RowsMove
    <3>3. CASE venue'[v].openingFundAt = clock' /\ Moment
      <4>1. Past(run.now) /\ run.now \in Time
        BY <1>2 DEF Sound, RunKnows, TypeOK, Run
      <4> QED
        BY <1>2, <3>3, <4>1, MomentIs
    <3>4. CASE Present(v) /\ venue'[v].openingFundAt = venue[v].openingFundAt
      <4>1. v \in LiveVenues /\ Opened(v)
        BY <2>0, <2>2, <3>1, <3>4 DEF LiveMove, Opened
      <4> QED
        BY <1>2, <3>1, <3>4, <4>1 DEF RunBefore
    <3> QED
      BY <3>1, <3>2, <3>3, <3>4 DEF RowMoves
  <2> QED
    BY <2>1, <2>2
<1> QED
  BY <1>1, <1>2, GoesOn

LEMMA NextRecordedOnce == Sound /\ Once /\ [Next]_vars => RecordedOnce'
<1> SUFFICES ASSUME Sound, Once, [Next]_vars, NEW v \in Venues, NEW w \in Venues, NEW m \in Movements,
                    transfer'[<<v, m>>] # NULL, transfer'[<<w, m>>] # NULL
             PROVE  v = w
  BY DEF RecordedOnce, Recorded
<1> USE DEF Once
<1>1. ASSUME NEW a \in Venues, NEW b \in Venues, ~Recorded(a, m), transfer'[<<a, m>>] # NULL, Recorded(b, m)
      PROVE  a = b
  <2>1. At("import") /\ a = run.venue /\ m \in SinceBaseline(run)
    BY <1>1, RecordsKept
  <2>2. run.floor <= movement[m].at /\ movement[m].at \in Nat /\ run.floor \in Nat
    BY <2>1, ImportedBy, TimeIs DEF Sound, TypeOK, Run
  <2>3. b # run.venue => movement[m].at < run.floor
    BY <1>1, <2>1 DEF OthersBefore, Importing, At
  <2> QED
    BY <2>1, <2>2, <2>3
<1>2. CASE Recorded(v, m) /\ Recorded(w, m)
  BY <1>2 DEF RecordedOnce
<1>3. CASE ~Recorded(v, m) /\ ~Recorded(w, m)
  BY <1>3, RecordsKept
<1> QED
  BY <1>1, <1>2, <1>3

\* A deposit or a withdrawal is a transfer of one venue only, although a run may outlive its account
\* and an account connected again has a venue of its own: the floor of an import is its own baseline,
\* and never from before it (importSince, investing-movements.service.ts:67-100).
THEOREM MovementIsRecordedOnce == Spec => []RecordedOnce
<1>1. Spec => [](Sound /\ Once)
  <2>1. Init => Sound /\ Once
    BY InitSound, InitOnce
  <2>2. Sound /\ Once /\ [Next]_vars => (Sound /\ Once)'
    BY NextSound, NextOneLive, NextRecordedIsPast, NextFormerBefore, NextOthersBefore, NextRunBefore, NextRecordedOnce DEF Once
  <2> QED
    BY <2>1, <2>2, PTL DEF Spec
<1>2. Sound /\ Once => RecordedOnce
  BY DEF Once
<1> QED
  BY <1>1, <1>2, PTL

(***************************************************************************)
(* The result of a venue.  Unless it is blurred, what a run has            *)
(* photographed is still so; the two baselines together are what trading   *)
(* had won and FUND had been brought before the moment of the baseline,    *)
(* wherever money was moved between the halves; and a live venue's         *)
(* transfers are the movements since that moment, each at its worth.       *)
(***************************************************************************)

InBefore(mv, t)  == {m \in Movements : mv[m] # NULL /\ ~mv[m].out /\ mv[m].at # NULL /\ mv[m].at < t}
OutBefore(mv, t) == {m \in Movements : mv[m] # NULL /\ mv[m].out /\ mv[m].at # NULL /\ mv[m].at < t}
NetBefore(mv, t) == Cardinality(InBefore(mv, t)) - Cardinality(OutBefore(mv, t))

\* With gains g when trading was photographed, x moved to it since, and b brought in before.
Baseline(opening, fund, g, x, b) ==
    /\ opening # NULL /\ fund = NULL => opening = g + x
    /\ opening = NULL /\ fund # NULL => fund = 1 + b - x
    /\ opening # NULL /\ fund # NULL => opening + fund = g + 1 + b

Baselines ==
    \A v \in LiveVenues :
        Baseline(venue[v].opening, venue[v].openingFund, won, moved, NetBefore(movement, venue[v].openingFundAt))

\* What q has read is what there is.
Shot(q) ==
    /\ "trading" \in q.first \ q.todo /\ q.trading # NULL => q.trading = q.won + moved
    /\ "fund" \in q.first \ q.todo /\ q.fund # NULL => q.fund = InFund

Photographs == At("read") => Shot(run)

WorthOf(m) == IF movement[m].out THEN -1 ELSE 1

RecordsWorth ==
    \A v \in LiveVenues, m \in Movements : Recorded(v, m) =>
        /\ Succeeded(m) /\ movement[m].at >= venue[v].openingFundAt
        /\ transfer[<<v, m>>] = WorthOf(m)

RecordsOpened == \A v \in Venues, m \in Movements : Recorded(v, m) => Opened(v)

RunFloor == Importing => run.floor = venue[run.venue].openingFundAt

Sharp == Photographs /\ Baselines /\ RecordsWorth

Figures == RecordsOpened /\ RunFloor /\ (blurred \/ Sharp)

LEMMA InitFigures == Init => Figures
BY DEF Init, Figures, RecordsOpened, RunFloor, Sharp, Photographs, Baselines, RecordsWorth, Importing, At, Idle, LiveVenues,
       Present, Recorded

-----------------------------------------------------------------------------
(* What a step does to the exchange *)

LEMMA OutStays ==
    Sound /\ [Next]_vars =>
        \A m \in Movements : movement[m] # NULL => movement'[m] # NULL /\ (movement'[m].out <=> movement[m].out)
<1> SUFFICES ASSUME Sound, [Next]_vars, NEW m \in Movements, movement[m] # NULL
             PROVE  movement'[m] # NULL /\ (movement'[m].out <=> movement[m].out)
  OBVIOUS
<1>1. CASE UNCHANGED movement
  BY <1>1
<1>2. ASSUME NEW x \in Movements, Deposit(x) \/ Withdraw(x) \/ WithdrawalSucceeds(x) \/ ListMovement(x)
      PROVE  movement'[m] # NULL /\ (movement'[m].out <=> movement[m].out)
  <2>1. CASE x # m
    <3>1. \E n : movement' = [movement EXCEPT ![x] = n]
      BY <1>2 DEF Deposit, Withdraw, WithdrawalSucceeds, ListMovement
    <3> QED
      BY <2>1, <3>1 DEF Sound, TypeOK
  <2>2. CASE WithdrawalSucceeds(m)
    <3>1. movement[m].out
      BY <2>2 DEF WithdrawalSucceeds, Sound, Stamps, Succeeded
    <3>2. Stamped(TRUE).out /\ Stamped(TRUE) \in Movement
      BY DEF Stamped, Movement, Sound, TypeOK
    <3>3. movement'[m] = Stamped(TRUE)
      BY <2>2 DEF WithdrawalSucceeds, Sound, TypeOK
    <3> QED
      BY <3>1, <3>2, <3>3, VenueAssumption
  <2>3. CASE ListMovement(m)
    <3> DEFINE n == [movement[m] EXCEPT !.listed = TRUE]
    <3>1. movement[m] \in Movement /\ movement'[m] = n
      BY <2>3, MovementsAre DEF ListMovement, Sound, TypeOK
    <3>2. n \in Movement /\ (n.out <=> movement[m].out)
      BY <3>1 DEF Movement
    <3> HIDE DEF n
    <3> QED
      BY <3>1, <3>2, VenueAssumption
  <2>4. ~Deposit(m) /\ ~Withdraw(m)
    BY DEF Deposit, Withdraw
  <2> QED
    BY <1>2, <2>1, <2>2, <2>3, <2>4
<1>3. UNCHANGED movement \/ \E x \in Movements : Deposit(x) \/ Withdraw(x) \/ WithdrawalSucceeds(x) \/ ListMovement(x)
  BY DEF Next, vars, exchange, Exchange, Sync, Tick, MoveToTrading, Trade,
         Connect, Disconnect, EnsureForAccount, CreateVenue, ReadTradingBalance, ReadFundBalance, RefreshLiveBalance,
         RefreshBeside, StartImport, AdvanceCursor, Import, Fail
<1> QED
  BY <1>1, <1>2, <1>3

\* What was brought before a moment that has passed stays what it is.
LEMMA NetStays ==
    ASSUME Sound, [Next]_vars, NEW t \in Nat, t <= clock
    PROVE  NetBefore(movement', t) = NetBefore(movement, t)
<1>1. ASSUME NEW m \in Movements
      PROVE  /\ Succeeded(m) /\ movement[m].at < t <=> Succeeded(m)' /\ movement'[m].at < t
             /\ Succeeded(m) => (movement'[m].out <=> movement[m].out)
  BY Happened, OutStays DEF Succeeded
<1>2. InBefore(movement', t) = InBefore(movement, t) /\ OutBefore(movement', t) = OutBefore(movement, t)
  BY <1>1 DEF InBefore, OutBefore, Succeeded
<1> QED
  BY <1>2 DEF NetBefore

LEMMA Unblurred == Sound /\ [Next]_vars /\ ~blurred' => ~blurred
<1> SUFFICES ASSUME Sound, [Next]_vars, blurred PROVE blurred'
  OBVIOUS
<1>1. CASE UNCHANGED blurred
  BY <1>1
<1>2. ASSUME FundChanges PROVE blurred'
  BY <1>2 DEF FundChanges
<1>3. CASE MoveToTrading
  BY <1>3 DEF MoveToTrading
<1>4. ASSUME NEW q, NEW row, Store(q, row) PROVE blurred'
  BY <1>4 DEF Store
<1>5. ASSUME NEW priced \in BOOLEAN, Import(priced) PROVE blurred'
  BY <1>5 DEF Import
<1>6. \/ UNCHANGED blurred \/ FundChanges \/ MoveToTrading \/ (\E q, row : Store(q, row))
      \/ \E priced \in BOOLEAN : Import(priced)
  BY DEF Next, vars, history, Exchange, Sync, Tick, Trade, Deposit, Withdraw, WithdrawalSucceeds, ListMovement,
         Connect, Disconnect, EnsureForAccount, CreateVenue, ReadTradingBalance,
         ReadFundBalance, RefreshLiveBalance, RefreshBeside, StartImport, AdvanceCursor, Fail
<1> QED
  BY <1>1, <1>2, <1>3, <1>4, <1>5, <1>6

\* Between the photograph of a half and its being stored no money moves there.
LEMMA PhotographStays ==
    ASSUME Sound, [Next]_vars, ~blurred'
    PROVE  /\ Photographed("trading") => moved' = moved
           /\ Photographed("fund") => InFund' = InFund
<1>1. CASE UNCHANGED <<movement, moved>>
  BY <1>1 DEF InFund, Deposits, Debits
<1>2. CASE MoveToTrading
  BY <1>2 DEF MoveToTrading
<1>3. ASSUME NEW m \in Movements, Deposit(m) \/ Withdraw(m)
      PROVE  moved' = moved /\ ~Photographed("fund")
  BY <1>3 DEF Deposit, Withdraw, FundChanges
<1>4. ASSUME NEW m \in Movements, WithdrawalSucceeds(m) \/ ListMovement(m)
      PROVE  moved' = moved /\ InFund' = InFund
  <2>1. PICK n \in Movement : movement' = [movement EXCEPT ![m] = n] /\ (n.out <=> movement[m].out)
    <3>1. movement[m] \in Movement
      BY <1>4, MovementsAre DEF WithdrawalSucceeds, ListMovement, Sound
    <3>2. CASE WithdrawalSucceeds(m)
      <4>1. movement[m].out
        BY <3>2 DEF WithdrawalSucceeds, Sound, Stamps, Succeeded
      <4>2. Stamped(TRUE).out /\ Stamped(TRUE) \in Movement
        BY DEF Stamped, Movement, Sound, TypeOK
      <4> QED
        BY <3>2, <4>1, <4>2 DEF WithdrawalSucceeds
    <3>3. CASE ListMovement(m)
      <4> DEFINE n == [movement[m] EXCEPT !.listed = TRUE]
      <4>1. n \in Movement /\ (n.out <=> movement[m].out)
        BY <3>1 DEF Movement
      <4>2. movement' = [movement EXCEPT ![m] = n]
        BY <3>3 DEF ListMovement
      <4> HIDE DEF n
      <4> QED
        BY <4>1, <4>2
    <3> QED
      BY <1>4, <3>2, <3>3
  <2>2. movement[m] # NULL /\ moved' = moved
    BY <1>4 DEF WithdrawalSucceeds, ListMovement
  <2>3. Deposits' = Deposits /\ Debits' = Debits
    BY <2>1, <2>2, SameCount DEF Sound
  <2> QED
    BY <2>2, <2>3 DEF InFund
<1>5. \/ UNCHANGED <<movement, moved>> \/ MoveToTrading
      \/ \E m \in Movements : Deposit(m) \/ Withdraw(m) \/ WithdrawalSucceeds(m) \/ ListMovement(m)
  BY DEF Next, vars, exchange, Exchange, Sync, Tick, Trade,
         Connect, Disconnect, EnsureForAccount, CreateVenue, ReadTradingBalance, ReadFundBalance, RefreshLiveBalance,
         RefreshBeside, StartImport, AdvanceCursor, Import, Fail
<1> QED
  BY <1>1, <1>2, <1>3, <1>4, <1>5

-----------------------------------------------------------------------------
(* What a step does to the baselines *)

\* The row of a venue, or the one it would be created with.
RowOf(v) == IF Present(v) THEN venue[v] ELSE NewVenue

TradingStep(v) ==
    \/ venue'[v].opening = RowOf(v).opening /\ won' = won
    \/ RowOf(v).opening = NULL /\ venue'[v].opening = won' + moved /\ UNCHANGED <<movement, moved>>

FundStep(v) ==
    \/ venue'[v].openingFund = RowOf(v).openingFund /\ venue'[v].openingFundAt = RowOf(v).openingFundAt
    \/ /\ RowOf(v).openingFund = NULL /\ venue'[v].openingFund = InFund /\ venue'[v].openingFundAt = clock'
       /\ Moment /\ (\A m \in Debits : movement[m].at # NULL) /\ UNCHANGED <<movement, moved>>

RowIn == \A v \in Venues : RowOf(v) \in Venue

LEMMA RowsAre == Sound => RowIn
BY VenuesAre, IdleIsRun DEF RowIn, RowOf, Sound

LEMMA StoredFigures ==
    ASSUME NEW row \in Venue, NEW q, q.trading \in Money \cup {NULL}, q.fund \in Money \cup {NULL}, NEW now \in Time
    PROVE  LET new == WithFund(WithTrading(row, q), q, now)
               trades == q.trading # NULL /\ "trading" \in q.first
               funds == q.fund # NULL /\ "fund" \in q.first
           IN /\ new.opening = IF trades THEN q.trading ELSE row.opening
              /\ new.openingFund = IF funds THEN q.fund ELSE row.openingFund
              /\ new.openingFundAt = IF funds THEN now ELSE row.openingFundAt
<1> DEFINE mid == WithTrading(row, q)
           new == WithFund(mid, q, now)
<1>1. /\ mid \in Venue /\ mid.openingFund = row.openingFund /\ mid.openingFundAt = row.openingFundAt
      /\ mid.opening = IF q.trading # NULL /\ "trading" \in q.first THEN q.trading ELSE row.opening
  <2>1. CASE q.trading = NULL
    BY <2>1 DEF WithTrading
  <2>2. CASE q.trading # NULL
    <3> DEFINE o == IF TakesBaseline(q, "trading") THEN q.trading ELSE row.opening
    <3>1. o \in Money \cup {NULL} /\ q.trading \in Money
      BY <2>2 DEF Venue
    <3>2. mid = [row EXCEPT !.balance = q.trading, !.opening = o]
      BY <2>2 DEF WithTrading
    <3>3. o = IF "trading" \in q.first THEN q.trading ELSE row.opening
      BY DEF TakesBaseline
    <3> HIDE DEF o, mid
    <3> QED
      BY <2>2, <3>1, <3>2, <3>3 DEF Venue
  <2> QED
    BY <2>1, <2>2
<1> HIDE DEF mid
<1>2. /\ new.opening = mid.opening
      /\ new.openingFund = IF q.fund # NULL /\ "fund" \in q.first THEN q.fund ELSE mid.openingFund
      /\ new.openingFundAt = IF q.fund # NULL /\ "fund" \in q.first THEN now ELSE mid.openingFundAt
  <2>1. CASE q.fund = NULL
    BY <2>1 DEF WithFund
  <2>2. CASE q.fund # NULL
    <3> DEFINE o == IF TakesBaseline(q, "fund") THEN q.fund ELSE mid.openingFund
               t == IF TakesBaseline(q, "fund") THEN now ELSE mid.openingFundAt
    <3>1. new = [mid EXCEPT !.fund = q.fund, !.openingFund = o, !.openingFundAt = t]
      BY <2>2 DEF WithFund
    <3>2. /\ o = IF "fund" \in q.first THEN q.fund ELSE mid.openingFund
          /\ t = IF "fund" \in q.first THEN now ELSE mid.openingFundAt
      BY DEF TakesBaseline
    <3> HIDE DEF o, t, new
    <3> QED
      BY <1>1, <2>2, <3>1, <3>2 DEF Venue
  <2> QED
    BY <2>1, <2>2
<1> HIDE DEF new
<1>3. /\ new.opening = IF q.trading # NULL /\ "trading" \in q.first THEN q.trading ELSE row.opening
      /\ new.openingFund = IF q.fund # NULL /\ "fund" \in q.first THEN q.fund ELSE row.openingFund
      /\ new.openingFundAt = IF q.fund # NULL /\ "fund" \in q.first THEN now ELSE row.openingFundAt
  BY <1>1, <1>2
<1> QED
  BY <1>3 DEF new, mid

\* A photograph is stored on a venue that has no baseline yet, while nothing is on its way out.
LEMMA StoreSteps ==
    ASSUME Sound, OneLive', ~blurred', NEW v \in Venues, NEW q, q.venue = v, q.todo = {},
           q.trading \in Money \cup {NULL}, q.fund \in Money \cup {NULL}, Shot(q),
           Store(q, RowOf(v)), UNCHANGED <<movement, moved>>
    PROVE  \A w \in LiveVenues' : TradingStep(w) /\ FundStep(w)
<1>1. Moment /\ clock' \in Time /\ RowOf(v) \in Venue
  BY MomentIs, RowsAre DEF Store, RowIn
<1>2. PICK new \in Venue :
         /\ new.connected = RowOf(v).connected
         /\ new.opening = IF q.trading # NULL /\ "trading" \in q.first THEN q.trading ELSE RowOf(v).opening
         /\ new.openingFund = IF q.fund # NULL /\ "fund" \in q.first THEN q.fund ELSE RowOf(v).openingFund
         /\ new.openingFundAt = IF q.fund # NULL /\ "fund" \in q.first THEN clock' ELSE RowOf(v).openingFundAt
         /\ venue' = [venue EXCEPT ![v] = new]
  <2> DEFINE new == WithFund(WithTrading(RowOf(v), q), q, clock')
  <2>1. new \in Venue /\ new.connected = RowOf(v).connected
    BY <1>1, StoredIs
  <2>2. /\ new.opening = IF q.trading # NULL /\ "trading" \in q.first THEN q.trading ELSE RowOf(v).opening
        /\ new.openingFund = IF q.fund # NULL /\ "fund" \in q.first THEN q.fund ELSE RowOf(v).openingFund
        /\ new.openingFundAt = IF q.fund # NULL /\ "fund" \in q.first THEN clock' ELSE RowOf(v).openingFundAt
    BY <1>1, StoredFigures
  <2>3. venue' = [venue EXCEPT ![v] = new]
    BY DEF Store
  <2> HIDE DEF new
  <2> QED
    BY <2>1, <2>2, <2>3
<1>3. venue'[v] = new /\ new # NULL /\ \A w \in Venues : w # v => venue'[w] = venue[w]
  BY <1>2, RowIs
<1>4. ASSUME NEW w \in LiveVenues', w # v PROVE TradingStep(w) /\ FundStep(w)
  <2>1. w \in Venues /\ venue'[w] = venue[w] /\ Present(w)
    BY <1>3, <1>4 DEF LiveVenues, Present
  <2>2. ~RowOf(v).connected
    <3>1. v \notin LiveVenues'
      BY <1>4 DEF OneLive
    <3> QED
      BY <1>2, <1>3, <3>1 DEF LiveVenues, Present
  <2>3. won' = won
    BY <2>2 DEF Store
  <2> QED
    BY <2>1, <2>3 DEF TradingStep, FundStep, RowOf
<1>5. ASSUME v \in LiveVenues' PROVE TradingStep(v) /\ FundStep(v)
  <2>1. RowOf(v).connected
    BY <1>2, <1>3, <1>5 DEF LiveVenues
  <2>2. ~Replaces(q, RowOf(v)) /\ ~InFlight(q)
    BY <2>1 DEF Store
  <2>3. TradingStep(v)
    <3>1. CASE q.trading # NULL /\ "trading" \in q.first
      <4>1. won' = q.won
        BY <2>1, <3>1 DEF Store, TakesBaseline
      <4>2. q.trading = q.won + moved
        BY <3>1 DEF Shot
      <4>3. RowOf(v).opening = NULL
        BY <2>2, <3>1 DEF Replaces
      <4>4. venue'[v].opening = won' + moved
        BY <1>2, <1>3, <3>1, <4>1, <4>2
      <4> QED
        BY <4>3, <4>4 DEF TradingStep
    <3>2. CASE ~(q.trading # NULL /\ "trading" \in q.first)
      <4>1. won' = won
        BY <3>2 DEF Store, TakesBaseline
      <4>2. venue'[v].opening = RowOf(v).opening
        BY <1>2, <1>3, <3>2
      <4> QED
        BY <4>1, <4>2 DEF TradingStep
    <3> QED
      BY <3>1, <3>2
  <2>4. FundStep(v)
    <3>1. CASE q.fund # NULL /\ "fund" \in q.first
      <4>1. q.fund = InFund
        BY <3>1 DEF Shot
      <4>2. RowOf(v).openingFund = NULL /\ (\A m \in Debits : movement[m].at # NULL)
        BY <2>2, <3>1 DEF Replaces, InFlight, TakesBaseline
      <4>3. venue'[v].openingFund = InFund /\ venue'[v].openingFundAt = clock'
        BY <1>2, <1>3, <3>1, <4>1
      <4> QED
        BY <1>1, <4>2, <4>3 DEF FundStep
    <3>2. CASE ~(q.fund # NULL /\ "fund" \in q.first)
      <4>1. venue'[v].openingFund = RowOf(v).openingFund /\ venue'[v].openingFundAt = RowOf(v).openingFundAt
        BY <1>2, <1>3, <3>2
      <4> QED
        BY <4>1 DEF FundStep
    <3> QED
      BY <3>1, <3>2
  <2> QED
    BY <2>3, <2>4
<1> QED
  BY <1>4, <1>5

LEMMA BaselineSteps ==
    ASSUME Sound, Photographs, OneLive', [Next]_vars, ~blurred'
    PROVE  \A v \in LiveVenues' : TradingStep(v) /\ FundStep(v)
<1>0. run \in Run /\ TypeOK /\ Funds
  BY DEF Sound, TypeOK
<1>1. CASE UNCHANGED <<venue, won>>
  BY <1>1 DEF TradingStep, FundStep, RowOf, LiveVenues, Present
<1>2. CASE Disconnect
  <2>1. \A v \in LiveVenues : [venue[v] EXCEPT !.connected = FALSE].connected = FALSE
    BY <1>0, VenuesAre DEF LiveVenues, Venue
  <2>2. \A v \in Venues : venue'[v] = IF v \in LiveVenues THEN [venue[v] EXCEPT !.connected = FALSE] ELSE venue[v]
    BY <1>2 DEF Disconnect
  <2>3. LiveVenues' = {}
    BY <2>1, <2>2 DEF LiveVenues, Present
  <2> QED
    BY <2>3
<1>3. CASE CreateVenue
  <2>1. PICK v \in Venues : ~Present(v) /\ venue' = [venue EXCEPT ![v] = NewVenue] /\ won' = won
    BY <1>3 DEF CreateVenue, history
  <2>2. venue'[v] = NewVenue /\ \A w \in Venues : w # v => venue'[w] = venue[w]
    BY <2>1, IdleIsRun, RowIs
  <2>3. \A w \in LiveVenues' : venue'[w] = RowOf(w)
    BY <2>1, <2>2 DEF RowOf, LiveVenues, Present
  <2> QED
    BY <2>1, <2>3 DEF TradingStep, FundStep
<1>4. CASE RefreshLiveBalance
  <2>1. CASE run.trading = NULL /\ run.fund = NULL
    BY <1>1, <1>4, <2>1 DEF RefreshLiveBalance, history
  <2>2. CASE ~(run.trading = NULL /\ run.fund = NULL)
    <3>1. PICK v \in Venues : v = run.venue /\ Present(v)
      BY <1>4 DEF RefreshLiveBalance, Sound, RunKnows
    <3>2. Store(run, RowOf(v)) /\ UNCHANGED <<movement, moved>> /\ run.todo = {}
      BY <1>4, <2>2, <3>1 DEF RefreshLiveBalance, RowOf, exchange
    <3>3. Shot(run)
      BY <1>4 DEF RefreshLiveBalance, Photographs
    <3>4. run.trading \in Money \cup {NULL} /\ run.fund \in Money \cup {NULL}
      BY <1>0 DEF Run
    <3> QED
      BY <3>1, <3>2, <3>3, <3>4, StoreSteps
  <2> QED
    BY <2>1, <2>2
<1>5. ASSUME NEW v \in Venues, RefreshBeside(v)
      PROVE  \A w \in LiveVenues' : TradingStep(w) /\ FundStep(w)
  <2> DEFINE r == Reading(Idle, v, RowOf(v))
  <2>1. PICK trading \in {InTrading, NULL}, fund \in {InFund, NULL} :
           Store([r EXCEPT !.trading = trading, !.fund = fund, !.won = gains], RowOf(v))
    BY <1>5 DEF RefreshBeside, RowOf
  <2> DEFINE q == [[r EXCEPT !.trading = trading, !.fund = fund, !.won = gains] EXCEPT !.todo = {}]
  <2>2. r \in Run /\ r.venue = v
    BY IdleIsRun, ReadingIs
  <2>3. trading \in Money \cup {NULL} /\ fund \in Money \cup {NULL}
    BY <1>0, InFundIs
  <2>4. UNCHANGED <<movement, moved>>
    BY <1>5 DEF RefreshBeside, exchange
  <2> HIDE DEF r
  <2>5. /\ q.venue = v /\ q.trading = trading /\ q.fund = fund /\ q.won = gains /\ q.todo = {}
        /\ q.first = [r EXCEPT !.trading = trading, !.fund = fund, !.won = gains].first
    BY <2>2 DEF Run
  <2>6. Store(q, RowOf(v))
    BY <2>1, <2>2 DEF Store, WithTrading, WithFund, TakesBaseline, Replaces, InFlight, Run
  <2> HIDE DEF q
  <2>7. Shot(q)
    BY <2>5, VenueAssumption DEF Shot, InTrading
  <2> QED
    BY <2>3, <2>4, <2>5, <2>6, <2>7, StoreSteps
<1>6. ASSUME NEW edge, AdvanceCursor(edge) PROVE \A v \in LiveVenues' : TradingStep(v) /\ FundStep(v)
  <2>1. PICK v \in Venues : v = run.venue /\ Opened(v)
    BY <1>6 DEF AdvanceCursor, Sound, RunKnows, Importing, At
  <2> DEFINE new == [venue[v] EXCEPT !.syncedTo = run.to]
  <2>2. venue' = [venue EXCEPT ![v] = new] /\ won' = won
    BY <1>6, <2>1 DEF AdvanceCursor, CursorAfter, history
  <2>3. venue[v] \in Venue /\ run.to \in Time
    BY <1>0, <2>1, VenuesAre DEF Opened, Run
  <2>4. /\ new \in Venue /\ new.opening = venue[v].opening /\ new.openingFund = venue[v].openingFund
        /\ new.openingFundAt = venue[v].openingFundAt
    BY <2>3 DEF Venue
  <2> HIDE DEF new
  <2>5. venue'[v] = new /\ \A w \in Venues : w # v => venue'[w] = venue[w]
    BY <2>2, <2>4, RowIs
  <2>6. \A w \in LiveVenues' : /\ w \in Venues /\ Present(w) /\ venue'[w].opening = venue[w].opening
                               /\ venue'[w].openingFund = venue[w].openingFund
                               /\ venue'[w].openingFundAt = venue[w].openingFundAt
    BY <2>1, <2>4, <2>5 DEF LiveVenues, Present, Opened
  <2> QED
    BY <2>2, <2>6 DEF TradingStep, FundStep, RowOf
<1>7. \/ UNCHANGED <<venue, won>> \/ Disconnect \/ CreateVenue \/ RefreshLiveBalance
      \/ (\E v \in Venues : RefreshBeside(v)) \/ \E edge \in {0, Softness} : AdvanceCursor(edge)
  BY DEF Next, vars, tables, history, Exchange, Sync, Tick, MoveToTrading, Trade, Deposit, Withdraw, WithdrawalSucceeds,
         ListMovement, Connect, EnsureForAccount, ReadTradingBalance, ReadFundBalance, StartImport, Import, Fail
<1> QED
  BY <1>1, <1>2, <1>3, <1>4, <1>5, <1>6, <1>7

\* At a moment taken when every withdrawal has its stamp, all there is was brought before it.
LEMMA NetNow ==
    ASSUME Sound, Moment, UNCHANGED <<movement>>, \A m \in Debits : movement[m].at # NULL
    PROVE  NetBefore(movement', clock') = Cardinality(Deposits) - Cardinality(Debits)
<1>1. ASSUME NEW m \in Movements, movement[m] # NULL PROVE movement[m].at # NULL /\ movement[m].at < clock'
  <2>1. Succeeded(m)
    BY <1>1 DEF Sound, Stamps, Succeeded, Debits
  <2>2. movement[m].at \in Time /\ movement[m].at <= clock /\ movement[m].at < MaxTime
    BY <1>1, <2>1, MovementsAre DEF Sound, Stamps, Succeeded, Movement
  <2>3. movement[m].at < clock' \/ clock' = MaxTime + 1
    BY <2>2, MomentIs
  <2> QED
    BY <2>1, <2>2, <2>3, VenueAssumption DEF Succeeded, Time
<1>2. InBefore(movement', clock') = Deposits /\ OutBefore(movement', clock') = Debits
  BY <1>1 DEF InBefore, OutBefore, Deposits, Debits
<1> QED
  BY <1>2 DEF NetBefore

LEMMA NetIsInt == ASSUME NEW mv, NEW t PROVE NetBefore(mv, t) \in Int
<1>1. IsFiniteSet(InBefore(mv, t)) /\ IsFiniteSet(OutBefore(mv, t))
  BY VenueAssumption, FS_Subset DEF InBefore, OutBefore
<1> QED
  BY <1>1, FS_CardinalityType DEF NetBefore

\* Money moved over while one half has its baseline and the other has not, blurs the result.
LEMMA MovedWithin ==
    ASSUME Sound, [Next]_vars, ~blurred', NEW v \in LiveVenues
    PROVE  moved' = moved \/ (venue[v].opening = NULL <=> venue[v].openingFund = NULL)
<1>1. CASE MoveToTrading
  BY <1>1 DEF MoveToTrading
<1>2. MoveToTrading \/ UNCHANGED moved
  BY DEF Next, vars, exchange, Exchange, Sync, Tick, Trade, Deposit, Withdraw, WithdrawalSucceeds, ListMovement,
         Connect, Disconnect, EnsureForAccount, CreateVenue, ReadTradingBalance, ReadFundBalance, RefreshLiveBalance,
         RefreshBeside, StartImport, AdvanceCursor, Import, Fail
<1> QED
  BY <1>1, <1>2

LEMMA LiveBefore ==
    ASSUME Sound, [Next]_vars, NEW v \in LiveVenues', Present(v)
    PROVE  v \in LiveVenues
BY RowsMove DEF LiveMove

LEMMA NextBaselines ==
    ASSUME Sound, Sharp, OneLive', [Next]_vars, ~blurred'
    PROVE  Baselines'
<1> SUFFICES ASSUME NEW v \in LiveVenues'
             PROVE  Baseline(venue'[v].opening, venue'[v].openingFund, won', moved', NetBefore(movement', venue'[v].openingFundAt))
  BY DEF Baselines
<1>0. v \in Venues /\ won \in Int /\ moved \in Int /\ won' \in Int /\ moved' \in Int /\ clock \in Nat /\ NULL \notin Int
      /\ Money \subseteq Int
  BY NextSound, TimeIs, VenueAssumption DEF LiveVenues, Sound, TypeOK, Money
<1>1. TradingStep(v) /\ FundStep(v)
  BY BaselineSteps DEF Sharp
<1>2. PICK row \in Venue : row = RowOf(v)
  BY <1>0, RowsAre DEF RowIn
<1>3. row.opening \in Int \cup {NULL} /\ row.openingFund \in Int \cup {NULL} /\ row.openingFundAt \in Nat \cup {NULL}
  BY <1>0, <1>2, TimeIs DEF Venue
<1>4. PICK b \in Int : b = NetBefore(movement, row.openingFundAt)
  BY NetIsInt
<1>5. Baseline(row.opening, row.openingFund, won, moved, b)
  <2>1. CASE Present(v)
    BY <1>2, <1>4, <2>1, LiveBefore DEF Sharp, Baselines, RowOf
  <2>2. CASE ~Present(v)
    BY <1>2, <2>2 DEF RowOf, NewVenue, Baseline
  <2> QED
    BY <2>1, <2>2
<1>6. row.openingFund # NULL => NetBefore(movement', row.openingFundAt) = b
  <2>1. SUFFICES ASSUME row.openingFund # NULL PROVE NetBefore(movement', row.openingFundAt) = b
    OBVIOUS
  <2>2. Present(v) /\ row = venue[v]
    BY <1>2, <2>1 DEF RowOf, NewVenue
  <2>3. row.openingFundAt # NULL /\ row.openingFundAt <= clock
    BY <1>0, <2>1, <2>2 DEF Sound, TypeOK, VenueTimes, Opened, Present
  <2> QED
    BY <1>3, <1>4, <2>3, NetStays
<1>7. moved' = moved \/ (row.opening = NULL <=> row.openingFund = NULL)
  <2>1. CASE Present(v)
    BY <1>2, <2>1, LiveBefore, MovedWithin DEF RowOf
  <2>2. CASE ~Present(v)
    BY <1>2, <2>2 DEF RowOf, NewVenue
  <2> QED
    BY <2>1, <2>2
<1> DEFINE TradingKept == venue'[v].opening = row.opening /\ won' = won
           TradingTaken == row.opening = NULL /\ venue'[v].opening = won' + moved /\ UNCHANGED <<movement, moved>>
           FundKept == venue'[v].openingFund = row.openingFund /\ venue'[v].openingFundAt = row.openingFundAt
           FundTaken == \E d \in Int : /\ row.openingFund = NULL /\ venue'[v].openingFund = 1 + d - moved
                                      /\ NetBefore(movement', venue'[v].openingFundAt) = d /\ UNCHANGED moved
<1>8. TradingKept \/ TradingTaken
  BY <1>1, <1>2 DEF TradingStep
<1>9. FundKept \/ FundTaken
  <2>1. CASE FundKept
    BY <2>1
  <2>2. CASE /\ RowOf(v).openingFund = NULL /\ venue'[v].openingFund = InFund /\ venue'[v].openingFundAt = clock'
             /\ Moment /\ (\A m \in Debits : movement[m].at # NULL) /\ UNCHANGED <<movement, moved>>
    <3>1. PICK d \in Int : d = Cardinality(Deposits) - Cardinality(Debits)
      BY Counted
    <3>2. NetBefore(movement', clock') = d
      BY <2>2, <3>1, NetNow
    <3>3. InFund = 1 + d - moved
      BY <1>0, <3>1, Counted DEF InFund
    <3> QED
      BY <1>2, <2>2, <3>2, <3>3
  <2> QED
    BY <1>1, <1>2, <2>1, <2>2 DEF FundStep
<1>10. CASE TradingKept /\ FundKept
  BY <1>0, <1>3, <1>5, <1>6, <1>7, <1>10 DEF Baseline
<1>11. CASE TradingTaken /\ FundKept
  BY <1>0, <1>3, <1>5, <1>6, <1>11 DEF Baseline
<1>12. CASE TradingKept /\ FundTaken
  <2>1. PICK d \in Int : /\ row.openingFund = NULL /\ venue'[v].openingFund = 1 + d - moved
                         /\ NetBefore(movement', venue'[v].openingFundAt) = d /\ UNCHANGED moved
    BY <1>12
  <2> QED
    BY <1>0, <1>3, <1>5, <1>12, <2>1 DEF Baseline
<1>13. CASE TradingTaken /\ FundTaken
  <2>1. PICK d \in Int : /\ row.openingFund = NULL /\ venue'[v].openingFund = 1 + d - moved
                         /\ NetBefore(movement', venue'[v].openingFundAt) = d /\ UNCHANGED moved
    BY <1>13
  <2> QED
    BY <1>0, <1>13, <2>1 DEF Baseline
<1> QED
  BY <1>8, <1>9, <1>10, <1>11, <1>12, <1>13

-----------------------------------------------------------------------------
(* What a step does to what a run has photographed *)

SameRead ==
    /\ At("read") /\ run'.first = run.first /\ run'.todo = run.todo
    /\ run'.trading = run.trading /\ run'.fund = run.fund /\ run'.won = run.won

LEMMA ReadMoves ==
    ASSUME Sound, [Next]_vars, run'.pc = "read"
    PROVE  SameRead \/ run'.first \ run'.todo = {} \/ ReadTradingBalance \/ ReadFundBalance
<1>0. run \in Run
  BY DEF Sound, TypeOK
<1>1. CASE UNCHANGED run
  BY <1>1 DEF SameRead, At
<1>2. CASE Disconnect
  BY <1>0, <1>2 DEF Disconnect, SameRead, At, Run
<1>3. ASSUME NEW v \in Venues, NEW row, run' = Reading(run, v, row) PROVE run'.first \ run'.todo = {}
  <2>1. Baseless(row) \subseteq Half
    BY DEF Baseless
  <2>2. run'.first = Baseless(row) /\ run'.todo = Half
    BY <1>0, <1>3 DEF Reading, Run
  <2> QED
    BY <2>1, <2>2
<1>4. CASE EnsureForAccount
  <2>1. ~(run' = [run EXCEPT !.pc = "create"])
    BY <1>0 DEF Run
  <2>2. PICK v \in Mine : run' = Reading(run, v, venue[v])
    BY <1>4, <2>1 DEF EnsureForAccount
  <2> QED
    BY <1>3, <2>2 DEF Mine, LiveVenues
<1>5. CASE CreateVenue
  BY <1>3, <1>5 DEF CreateVenue
<1>6. ~RefreshLiveBalance /\ ~Fail
  <2>1. ~RefreshLiveBalance
    BY IdleIsRun DEF RefreshLiveBalance, Run
  <2>2. ~Fail
    BY DEF Fail, Idle
  <2> QED
    BY <2>1, <2>2
<1>7. ASSUME NEW edge \in {0, Softness} PROVE ~StartImport(edge) /\ ~AdvanceCursor(edge)
  BY StartIs, AdvanceIs
<1>8. ASSUME NEW priced \in BOOLEAN PROVE ~Import(priced)
  BY <1>0 DEF Import, Run
<1>9. \/ UNCHANGED run \/ Disconnect \/ EnsureForAccount \/ CreateVenue \/ ReadTradingBalance \/ ReadFundBalance
      \/ RefreshLiveBalance \/ Fail \/ (\E edge \in {0, Softness} : StartImport(edge) \/ AdvanceCursor(edge))
      \/ \E priced \in BOOLEAN : Import(priced)
  BY DEF Next, vars, Exchange, Sync, Tick, MoveToTrading, Trade, Deposit, Withdraw, WithdrawalSucceeds, ListMovement,
         Connect, RefreshBeside
<1> QED
  BY <1>1, <1>2, <1>4, <1>5, <1>6, <1>7, <1>8, <1>9

LEMMA NextPhotographs ==
    ASSUME Sound, Photographs, [Next]_vars, ~blurred'
    PROVE  Photographs'
<1> SUFFICES ASSUME run'.pc = "read"
             PROVE  /\ "trading" \in run'.first \ run'.todo /\ run'.trading # NULL => run'.trading = run'.won + moved'
                    /\ "fund" \in run'.first \ run'.todo /\ run'.fund # NULL => run'.fund = InFund'
  BY DEF Photographs, Shot, At
<1>0. run \in Run
  BY DEF Sound, TypeOK
<1>1. CASE SameRead
  BY <1>1, PhotographStays DEF SameRead, Photographs, Shot, Photographed
<1>2. CASE run'.first \ run'.todo = {}
  BY <1>2
<1>3. CASE ReadTradingBalance
  <2>1. UNCHANGED <<movement, moved, gains>> /\ InFund' = InFund /\ At("read")
    BY <1>3 DEF ReadTradingBalance, exchange, InFund, Deposits, Debits
  <2>2. PICK read \in {InTrading, NULL} :
           run' = [run EXCEPT !.todo = @ \ {"trading"}, !.trading = read, !.won = IF read = NULL THEN 0 ELSE gains]
    BY <1>3 DEF ReadTradingBalance
  <2>3. /\ run'.first = run.first /\ run'.todo = run.todo \ {"trading"} /\ run'.fund = run.fund
        /\ run'.trading = read /\ (read # NULL => run'.won = gains)
    BY <1>0, <2>2 DEF Run
  <2>4. run'.trading # NULL => run'.trading = run'.won + moved'
    BY <2>1, <2>2, <2>3 DEF InTrading
  <2>5. "fund" \in run'.first \ run'.todo /\ run'.fund # NULL => run'.fund = InFund'
    BY <2>1, <2>3 DEF Photographs, Shot
  <2> QED
    BY <2>4, <2>5
<1>4. CASE ReadFundBalance
  <2>1. UNCHANGED <<movement, moved, gains>> /\ InFund' = InFund /\ At("read")
    BY <1>4 DEF ReadFundBalance, exchange, InFund, Deposits, Debits
  <2>2. PICK read \in {InFund, NULL} : run' = [run EXCEPT !.todo = @ \ {"fund"}, !.fund = read]
    BY <1>4 DEF ReadFundBalance
  <2>3. /\ run'.first = run.first /\ run'.todo = run.todo \ {"fund"} /\ run'.trading = run.trading
        /\ run'.fund = read /\ run'.won = run.won
    BY <1>0, <2>2 DEF Run
  <2>4. run'.fund # NULL => run'.fund = InFund'
    BY <2>1, <2>2, <2>3
  <2>5. "trading" \in run'.first \ run'.todo /\ run'.trading # NULL => run'.trading = run'.won + moved'
    BY <2>1, <2>3 DEF Photographs, Shot
  <2> QED
    BY <2>4, <2>5
<1> QED
  BY <1>1, <1>2, <1>3, <1>4, ReadMoves

-----------------------------------------------------------------------------
(* What a step does to the transfers *)

\* A transfer is not written again.
LEMMA TransferStays ==
    ASSUME Sound, [Next]_vars, NEW v \in Venues, NEW m \in Movements, Recorded(v, m)
    PROVE  transfer'[<<v, m>>] = transfer[<<v, m>>]
<1>1. CASE UNCHANGED transfer
  BY <1>1
<1>2. ASSUME NEW priced \in BOOLEAN, Import(priced)
      PROVE  transfer'[<<v, m>>] = transfer[<<v, m>>]
  <2> DEFINE worth(x) == IF ~priced THEN 0 ELSE IF movement[x].out THEN -1 ELSE 1
             fresh == {x \in SinceBaseline(run) : ~Recorded(run.venue, x)}
  <2>1. transfer' = [k \in Venues \X Movements |-> IF k[1] = run.venue /\ k[2] \in fresh THEN worth(k[2]) ELSE transfer[k]]
    BY <1>2 DEF Import
  <2>2. ~(v = run.venue /\ m \in fresh)
    OBVIOUS
  <2> HIDE DEF worth, fresh
  <2> QED
    BY <2>1, <2>2
<1>3. UNCHANGED transfer \/ \E priced \in BOOLEAN : Import(priced)
  BY DEF Next, vars, tables, Exchange, Sync, Tick, MoveToTrading, Trade, Deposit, Withdraw, WithdrawalSucceeds,
         ListMovement, Connect, Disconnect, EnsureForAccount, CreateVenue, ReadTradingBalance, ReadFundBalance,
         RefreshLiveBalance, RefreshBeside, StartImport, AdvanceCursor, Fail
<1> QED
  BY <1>1, <1>2, <1>3

\* A new one is worth the movement, unless a price was missing.
LEMMA TransferAdded ==
    ASSUME Sound, [Next]_vars, ~blurred', NEW v \in Venues, NEW m \in Movements, ~Recorded(v, m), transfer'[<<v, m>>] # NULL
    PROVE  transfer'[<<v, m>>] = WorthOf(m) /\ UNCHANGED <<venue, movement, clock>>
<1>1. PICK priced \in BOOLEAN : Import(priced)
  <2>1. UNCHANGED transfer \/ \E priced \in BOOLEAN : Import(priced)
    BY DEF Next, vars, tables, Exchange, Sync, Tick, MoveToTrading, Trade, Deposit, Withdraw, WithdrawalSucceeds,
           ListMovement, Connect, Disconnect, EnsureForAccount, CreateVenue, ReadTradingBalance, ReadFundBalance,
           RefreshLiveBalance, RefreshBeside, StartImport, AdvanceCursor, Fail
  <2> QED
    BY <2>1 DEF Recorded
<1> DEFINE worth(x) == IF ~priced THEN 0 ELSE IF movement[x].out THEN -1 ELSE 1
           fresh == {x \in SinceBaseline(run) : ~Recorded(run.venue, x)}
<1>2. transfer' = [k \in Venues \X Movements |-> IF k[1] = run.venue /\ k[2] \in fresh THEN worth(k[2]) ELSE transfer[k]]
  BY <1>1 DEF Import
<1>3. m \in fresh /\ v = run.venue
  <2>1. At("import") /\ v = run.venue /\ m \in SinceBaseline(run)
    BY RecordsKept
  <2> QED
    BY <2>1
<1>4. priced
  BY <1>1, <1>3 DEF Import
<1>5. worth(m) = WorthOf(m)
  BY <1>4 DEF WorthOf
<1> HIDE DEF worth, fresh
<1>6. transfer'[<<v, m>>] = worth(m)
  BY <1>2, <1>3
<1> QED
  BY <1>1, <1>5, <1>6 DEF Import, exchange

LEMMA NextRecordsOpened == Sound /\ RecordsOpened /\ [Next]_vars => RecordsOpened'
<1> SUFFICES ASSUME Sound, RecordsOpened, [Next]_vars, NEW v \in Venues, NEW m \in Movements, transfer'[<<v, m>>] # NULL
             PROVE  venue'[v] # NULL /\ venue'[v].openingFundAt # NULL
  BY DEF RecordsOpened, Opened, Present, Recorded
<1>1. Opened(v)
  BY RecordsKept DEF RecordsOpened, Sound, RunKnows, Importing, At
<1>2. venue'[v] # NULL
  BY <1>1, RowsMove DEF RowMoves, Opened
<1>3. clock' # NULL
  BY Happened, VenueAssumption
<1> QED
  BY <1>1, <1>2, <1>3, RowsMove DEF RowMoves, Opened, Present

\* While a run imports, nothing moves a baseline that is there.
LEMMA NextRunFloor == Sound /\ RunFloor /\ [Next]_vars => RunFloor'
<1> SUFFICES ASSUME Sound, RunFloor, [Next]_vars, run'.pc \in {"import", "advance"}
             PROVE  run'.floor = venue'[run'.venue].openingFundAt
  BY DEF RunFloor, Importing, At
<1>0. TypeOK /\ Funds
  BY DEF Sound
<1>1. ASSUME NEW edge \in {0, Softness}, StartImport(edge) PROVE run'.floor = venue'[run'.venue].openingFundAt
  <2>1. UNCHANGED venue
    BY <1>1 DEF StartImport, tables
  <2> QED
    BY <1>1, <2>1, StartIs
<1>2. CASE Importing /\ run'.venue = run.venue /\ run'.floor = run.floor
  <2>1. PICK v \in Venues : v = run.venue /\ Opened(v) /\ run.floor = venue[v].openingFundAt
    BY <1>2 DEF Sound, RunKnows, RunFloor
  <2>2. ASSUME NEW w \in Venues, RefreshBeside(w) PROVE venue'[v].openingFundAt = venue[v].openingFundAt
    <3> DEFINE r == Reading(Idle, w, RowOf(w))
    <3>1. PICK trading \in {InTrading, NULL}, fund \in {InFund, NULL} :
             Store([r EXCEPT !.trading = trading, !.fund = fund, !.won = gains], RowOf(w))
      BY <2>2 DEF RefreshBeside, RowOf
    <3> DEFINE q == [r EXCEPT !.trading = trading, !.fund = fund, !.won = gains]
    <3>2. r \in Run /\ r.venue = w /\ RowOf(w) \in Venue /\ clock' \in Time
      BY <3>1, IdleIsRun, ReadingIs, RowsAre, MomentIs DEF RowIn, Store
    <3>3. r.first = Baseless(RowOf(w))
      BY IdleIsRun DEF Reading, Run
    <3>4. trading \in Money \cup {NULL} /\ fund \in Money \cup {NULL}
      BY <1>0, InFundIs
    <3> HIDE DEF r
    <3>5. q.venue = w /\ q.trading = trading /\ q.fund = fund /\ q.first = Baseless(RowOf(w))
      BY <3>2, <3>3 DEF Run
    <3> DEFINE new == WithFund(WithTrading(RowOf(w), q), q, clock')
    <3>6. venue' = [venue EXCEPT ![w] = new]
      BY <3>1, <3>5 DEF Store
    <3> HIDE DEF q
    <3>7. /\ new \in Venue
          /\ new.openingFundAt = IF q.fund # NULL /\ "fund" \in q.first THEN clock' ELSE RowOf(w).openingFundAt
      BY <3>2, <3>4, <3>5, StoredIs, StoredFigures
    <3> HIDE DEF new
    <3>8. CASE v = w
      <4>1. RowOf(w) = venue[v] /\ venue[v].openingFund # NULL
        BY <2>1, <3>8 DEF RowOf, Opened, Sound, TypeOK, Present
      <4>2. "fund" \notin Baseless(RowOf(w))
        BY <4>1 DEF Baseless
      <4> QED
        BY <3>5, <3>6, <3>7, <3>8, <4>1, <4>2, RowIs
    <3>9. CASE v # w
      BY <3>6, <3>7, <3>9, RowIs
    <3> QED
      BY <3>8, <3>9
  <2>3. venue'[v].openingFundAt = venue[v].openingFundAt
    <3>1. CASE UNCHANGED venue
      BY <3>1
    <3>2. CASE Disconnect
      <4>1. venue[v] \in Venue /\ venue'[v] = IF v \in LiveVenues THEN [venue[v] EXCEPT !.connected = FALSE] ELSE venue[v]
        BY <1>0, <2>1, <3>2, VenuesAre DEF Disconnect, Opened
      <4> QED
        BY <4>1 DEF Venue
    <3>3. ASSUME NEW edge, AdvanceCursor(edge) PROVE venue'[v].openingFundAt = venue[v].openingFundAt
      <4>1. venue[v] \in Venue /\ venue' = [venue EXCEPT ![v].syncedTo = run.to]
        BY <1>0, <2>1, <3>3, VenuesAre DEF AdvanceCursor, CursorAfter, Opened
      <4> QED
        BY <1>0, <4>1 DEF TypeOK, Venue
    <3>4. ~CreateVenue /\ ~RefreshLiveBalance
      BY <1>2 DEF CreateVenue, RefreshLiveBalance, At, Importing
    <3>5. \/ UNCHANGED venue \/ Disconnect \/ CreateVenue \/ RefreshLiveBalance
          \/ (\E w \in Venues : RefreshBeside(w)) \/ \E edge \in {0, Softness} : AdvanceCursor(edge)
      BY DEF Next, vars, tables, Exchange, Sync, Tick, MoveToTrading, Trade, Deposit, Withdraw, WithdrawalSucceeds,
             ListMovement, Connect, EnsureForAccount, ReadTradingBalance, ReadFundBalance, StartImport, Import, Fail
    <3> QED
      BY <2>2, <3>1, <3>2, <3>3, <3>4, <3>5
  <2> QED
    BY <1>2, <2>1, <2>3
<1> QED
  BY <1>1, <1>2, GoesOn

LEMMA NextTransfers ==
    ASSUME Sound, RecordedIsPast, RecordsOpened, RunFloor, Sharp, OneLive', [Next]_vars, ~blurred'
    PROVE  RecordsWorth'
<1> SUFFICES ASSUME NEW v \in LiveVenues', NEW m \in Movements, transfer'[<<v, m>>] # NULL
             PROVE  /\ Succeeded(m)' /\ movement'[m].at >= venue'[v].openingFundAt
                    /\ transfer'[<<v, m>>] = IF movement'[m].out THEN -1 ELSE 1
  BY DEF RecordsWorth, Recorded, WorthOf
<1>0. v \in Venues
  BY DEF LiveVenues
<1>1. CASE Recorded(v, m)
  <2>1. Opened(v) /\ v \in LiveVenues
    BY <1>0, <1>1, LiveBefore DEF RecordsOpened, Opened
  <2>2. Succeeded(m) /\ movement[m].at >= venue[v].openingFundAt /\ transfer[<<v, m>>] = WorthOf(m)
    BY <1>1, <2>1 DEF Sharp, RecordsWorth
  <2>3. venue'[v].openingFundAt = venue[v].openingFundAt
    <3>1. RowOf(v) = venue[v] /\ venue[v].openingFund # NULL
      BY <1>0, <2>1 DEF RowOf, Opened, Present, Sound, TypeOK
    <3> QED
      BY <3>1, BaselineSteps DEF Sharp, FundStep
  <2>4. Succeeded(m)' /\ movement'[m].at = movement[m].at /\ (movement'[m].out <=> movement[m].out)
    BY <2>2, Happened, OutStays DEF Succeeded
  <2>5. transfer'[<<v, m>>] = IF movement'[m].out THEN -1 ELSE 1
    BY <1>0, <1>1, <2>2, <2>4, TransferStays DEF WorthOf
  <2> QED
    BY <2>2, <2>3, <2>4, <2>5
<1>2. CASE ~Recorded(v, m)
  <2>1. At("import") /\ v = run.venue /\ m \in SinceBaseline(run)
    BY <1>0, <1>2, RecordsKept
  <2>2. transfer'[<<v, m>>] = WorthOf(m) /\ UNCHANGED <<venue, movement, clock>>
    BY <1>0, <1>2, TransferAdded
  <2>3. Succeeded(m) /\ run.floor <= movement[m].at /\ run.floor = venue[v].openingFundAt /\ movement[m].at \in Nat
    BY <2>1, ImportedBy DEF RunFloor, Importing, At
  <2>4. run.floor \in Nat
    BY TimeIs DEF Sound, TypeOK, Run
  <2> QED
    BY <2>2, <2>3, <2>4 DEF WorthOf, Succeeded
<1> QED
  BY <1>1, <1>2

LEMMA NextFigures == Sound /\ Once /\ Figures /\ [Next]_vars => Figures'
<1> SUFFICES ASSUME Sound, Once, Figures, [Next]_vars PROVE Figures'
  OBVIOUS
<1>1. RecordsOpened' /\ RunFloor' /\ OneLive'
  BY NextRecordsOpened, NextRunFloor, NextOneLive DEF Figures, Once
<1>2. ASSUME ~blurred' PROVE Sharp'
  <2>1. Sharp
    BY <1>2, Unblurred DEF Figures
  <2>2. Photographs' /\ Baselines' /\ RecordsWorth'
    BY <1>1, <1>2, <2>1, NextPhotographs, NextBaselines, NextTransfers DEF Sharp, Figures, Once
  <2> QED
    BY <2>2 DEF Sharp
<1> QED
  BY <1>1, <1>2 DEF Figures

-----------------------------------------------------------------------------
(* A settled venue *)

Records(v) == {m \in Movements : Recorded(v, m)}
TransfersOf(v) == [m \in Movements |-> transfer[<<v, m>>]]

LEMMA NetTransferredIsSum ==
    ASSUME TypeOK, NEW v \in Venues
    PROVE  NetTransferred(v) = SumFunctionOnSet(TransfersOf(v), Records(v))
<1> DEFINE f == TransfersOf(v)
           R == Records(v)
           next(s) == CHOOSE x \in s : TRUE
           body(g) == [s \in SUBSET R |-> IF s = {} THEN 0 ELSE g[s \ {next(s)}] + transfer[<<v, next(s)>>]]
<1>1. NetTransferred(v) = (CHOOSE g : g = body(g))[R]
  BY DEF NetTransferred, FoldSet, MapThenFoldSet, Records
<1>2. ASSUME NEW g
      PROVE  body(g) = [s \in SUBSET R |-> IF s = {} THEN 0 ELSE g[s \ {Picked(s)}] + f[Picked(s)]]
  <2>1. ASSUME NEW s \in SUBSET R, s # {} PROVE transfer[<<v, next(s)>>] = f[Picked(s)]
    BY <2>1 DEF Picked, TransfersOf, Records
  <2> HIDE DEF f, R
  <2> QED
    BY <2>1 DEF Picked
<1>3. \A g : g = body(g) <=> AddsLast(g, f, R)
  BY <1>2 DEF AddsLast
<1>4. IsFiniteSet(R) /\ \A m \in R : f[m] \in Int
  <2>1. IsFiniteSet(R)
    BY VenueAssumption, FS_Subset DEF Records
  <2>2. ASSUME NEW m \in R PROVE f[m] \in Int
    <3>1. m \in Movements /\ transfer[<<v, m>>] # NULL
      BY DEF Records, Recorded
    <3>2. transfer[<<v, m>>] \in {NULL, -1, 0, 1}
      BY <3>1 DEF TypeOK
    <3> QED
      BY <3>1, <3>2 DEF TransfersOf
  <2> QED
    BY <2>1, <2>2
<1> HIDE DEF body, f, R
<1>5. NetTransferred(v) = (CHOOSE g : AddsLast(g, f, R))[R]
  BY <1>1, <1>3
<1> QED
  BY <1>4, <1>5, SumAddedLast DEF f, R

\* What a settled venue's transfers come to is what came in and went out since its baseline.
LEMMA NetSinceBaseline ==
    ASSUME Sound, RecordsWorth, NothingMissed, NEW v \in LiveVenues, Settled(v)
    PROVE  NetTransferred(v) = Cardinality(Deposits) - Cardinality(Debits) - NetBefore(movement, venue[v].openingFundAt)
<1> DEFINE f == TransfersOf(v)
           In == {m \in Records(v) : f[m] = 1}
           Out == {m \in Records(v) : f[m] = -1}
<1>0. v \in Venues
  BY DEF LiveVenues
<1>1. PICK t \in Nat : t = venue[v].openingFundAt
  BY <1>0, VenuesAre, TimeIs DEF Settled, LiveVenues, Sound, TypeOK, Venue, Present
<1>2. ASSUME NEW m \in Movements, movement[m] # NULL
      PROVE  /\ movement[m].at # NULL /\ movement[m].at \in Nat /\ (Recorded(v, m) <=> ~(movement[m].at < t))
             /\ movement[m].out \in BOOLEAN
  <2>1. Succeeded(m) /\ movement[m].at \in Nat /\ movement[m].out \in BOOLEAN
    BY <1>2, MovementsAre, TimeIs DEF Settled, Succeeded, Sound, Movement
  <2>2. Recorded(v, m) => movement[m].at >= t
    BY <1>1 DEF RecordsWorth
  <2>3. movement[m].at >= t => Recorded(v, m)
    BY <1>1, <1>2, <2>1 DEF Settled, NothingMissed, Succeeded
  <2> QED
    BY <1>1, <2>1, <2>2, <2>3 DEF Succeeded
<1>3. ASSUME NEW m \in Movements, Recorded(v, m)
      PROVE  movement[m] # NULL /\ f[m] = IF movement[m].out THEN -1 ELSE 1
  BY <1>3 DEF RecordsWorth, Succeeded, TransfersOf, WorthOf
<1> HIDE DEF f
<1>4. NetTransferred(v) = Cardinality(In) - Cardinality(Out)
  <2>1. NetTransferred(v) = SumFunctionOnSet(f, Records(v))
    BY <1>0, NetTransferredIsSum DEF Sound, f
  <2>2. IsFiniteSet(Records(v)) /\ \A m \in Records(v) : f[m] \in {1, -1}
    BY <1>3, VenueAssumption, FS_Subset DEF Records
  <2> QED
    BY <2>1, <2>2, SumOfOnes
<1>5. Deposits = In \cup InBefore(movement, t) /\ In \cap InBefore(movement, t) = {}
  BY <1>2, <1>3 DEF Deposits, InBefore, Records
<1>6. Debits = Out \cup OutBefore(movement, t) /\ Out \cap OutBefore(movement, t) = {}
  BY <1>2, <1>3 DEF Debits, OutBefore, Records
<1>7. IsFiniteSet(In) /\ IsFiniteSet(Out) /\ IsFiniteSet(InBefore(movement, t)) /\ IsFiniteSet(OutBefore(movement, t))
  BY VenueAssumption, FS_Subset DEF Records, InBefore, OutBefore
<1> HIDE DEF In, Out
<1>8. /\ Cardinality(Deposits) = Cardinality(In) + Cardinality(InBefore(movement, t)) - 0
      /\ Cardinality(Debits) = Cardinality(Out) + Cardinality(OutBefore(movement, t)) - 0
  BY <1>5, <1>6, <1>7, FS_Union, FS_EmptySet
<1>9. /\ Cardinality(In) \in Nat /\ Cardinality(InBefore(movement, t)) \in Nat
      /\ Cardinality(Out) \in Nat /\ Cardinality(OutBefore(movement, t)) \in Nat
  BY <1>7, FS_CardinalityType
<1> QED
  BY <1>1, <1>4, <1>8, <1>9 DEF NetBefore

LEMMA SettledResult ==
    ASSUME Sound, Sharp, NothingMissed, NEW v \in LiveVenues, Settled(v)
    PROVE  ResultOf(venue[v], NetTransferred(v)) = gains - won
<1> DEFINE row == venue[v]
           b == NetBefore(movement, row.openingFundAt)
<1>1. row.opening # NULL /\ row.openingFund # NULL /\ row.balance = InTrading /\ row.fund = InFund
  BY DEF Settled
<1>2. row \in Venue /\ gains \in Int /\ moved \in Int /\ won \in Int /\ Money \subseteq Int /\ NULL \notin Int
  BY VenuesAre, VenueAssumption DEF Sound, TypeOK, LiveVenues, Money
<1>3. row.opening \in Int /\ row.openingFund \in Int
  BY <1>1, <1>2 DEF Venue
<1>4. row.opening + row.openingFund = won + 1 + b
  BY <1>1 DEF Sharp, Baselines, Baseline
<1>5. NetTransferred(v) = Cardinality(Deposits) - Cardinality(Debits) - b
  BY NetSinceBaseline DEF Sharp
<1>6. b \in Int /\ Cardinality(Deposits) \in Nat /\ Cardinality(Debits) \in Nat
  BY NetIsInt, Counted
<1>7. InTrading \in Int /\ InFund \in Int
  BY <1>2, <1>6 DEF InTrading, InFund
<1> HIDE DEF row, b
<1>8. ResultOf(row, NetTransferred(v)) = (InTrading + InFund) - (row.opening + row.openingFund) - NetTransferred(v)
  <2>1. OrZero(row.opening) = row.opening /\ OrZero(row.openingFund) = row.openingFund
    BY <1>1 DEF OrZero
  <2>2. ValueOf(row) = InTrading + InFund
    BY <1>1, <1>2, <1>7 DEF ValueOf, OrZero
  <2> QED
    BY <2>1, <2>2 DEF ResultOf
<1>9. ResultOf(row, NetTransferred(v)) = gains - won
  BY <1>2, <1>3, <1>4, <1>5, <1>6, <1>8 DEF InTrading, InFund
<1> QED
  BY <1>9 DEF row

\* The result of a settled venue is what trading has won since its baseline, whatever was there before,
\* came in, went out or was moved between the halves, whatever runs overlapped and died - unless the
\* baseline was taken while money was moving, or written twice, or a price was missing
\* (refreshLiveBalance and resultOf, importSince).
THEOREM ResultIsWon == Spec => []ResultIsTradingOnly
<1>1. Spec => [](Sound /\ Once /\ Figures)
  <2>1. Init => Sound /\ Once /\ Figures
    BY InitSound, InitOnce, InitFigures
  <2>2. Sound /\ Once /\ Figures /\ [Next]_vars => (Sound /\ Once /\ Figures)'
    BY NextSound, NextOneLive, NextRecordedIsPast, NextFormerBefore, NextOthersBefore, NextRunBefore, NextRecordedOnce,
       NextFigures DEF Once
  <2> QED
    BY <2>1, <2>2, PTL DEF Spec
<1>2. Sound /\ Once /\ Figures /\ NothingMissed => ResultIsTradingOnly
  BY SettledResult DEF Figures, ResultIsTradingOnly
<1> QED
  BY <1>1, <1>2, ImportIsComplete, PTL
===============================================================================
