-------------------------- MODULE PositionSyncProofs --------------------------
(***************************************************************************)
(* Theorems about PositionSync, for any trades, closings, windows and      *)
(* lateness the overlap covers.                                            *)
(***************************************************************************)
EXTENDS PositionSync, TLAPS

(***************************************************************************)
(* Types, for any number of runs.  A run has, at each step, what its next  *)
(* one writes with, and a closed row names the order that closed it.       *)
(***************************************************************************)

RunKnows(q) ==
    /\ \A o \in q.todo : closing[o] # NULL
    /\ q.pc \in {"conflict", "write", "upsert"} => q.rec # NULL /\ closing[q.rec] # NULL
    /\ q.pc \in {"conflict", "write"} => q.mine # NULL
    /\ q.pc \in {"findLive", "writeLive"} => q.live # NULL

ClosedHasOrder == \A i \in RowIds : Present(i) /\ ~row[i].open => row[i].order # NULL

Sound ==
    /\ TypeOK
    /\ \A r \in Runs : RunKnows(run[r])
    /\ ClosedHasOrder

LEMMA IdleIsRun ==
    /\ Idle \in Run /\ RunKnows(Idle) /\ NeverSynced \in Account
    /\ Idle.pc = "idle" /\ Idle.news = {} /\ Idle.todo = {} /\ Idle.mine = NULL /\ Idle.other = NULL
<1>1. NeverSynced \in Account
  BY DEF NeverSynced, Account
<1>2. 0 \in Time
  BY SyncAssumption DEF Time
<1> QED
  BY <1>1, <1>2 DEF Idle, Run, Steps, RunKnows

LEMMA RowsAre == ASSUME TypeOK, NEW i \in RowIds, Present(i) PROVE row[i] \in Row
BY DEF TypeOK, Present

LEMMA ClosingsAre == ASSUME TypeOK, NEW o \in Orders, closing[o] # NULL PROVE closing[o] \in Closing
BY DEF TypeOK

LEMMA ClosedRow ==
    ASSUME TypeOK, NEW o \in Orders, closing[o] # NULL
    PROVE  ClosedBy(o) \in Row /\ ClosedBy(o) # NULL /\ ~ClosedBy(o).open /\ ClosedBy(o).order = o
<1>1. closing[o].trade \in Trades
  BY ClosingsAre DEF Closing
<1>2. ClosedBy(o) \in Row
  BY <1>1 DEF ClosedBy, Row
<1>3. ~ClosedBy(o).open /\ ClosedBy(o).order = o
  BY DEF ClosedBy
<1> QED
  BY <1>2, <1>3, SyncAssumption

\* One run goes on, and its new state is one it may be in.
LEMMA RunsKept ==
    ASSUME TypeOK, \A p \in Runs : RunKnows(run[p]), UNCHANGED closing,
           NEW r \in Runs, NEW q \in Run, RunKnows(q), run' = [run EXCEPT ![r] = q]
    PROVE  run' \in [Runs -> Run] /\ \A p \in Runs : RunKnows(run[p])'
<1>1. run' \in [Runs -> Run] /\ \A p \in Runs : run'[p] = IF p = r THEN q ELSE run[p]
  BY DEF TypeOK
<1> QED
  BY <1>1 DEF RunKnows

LEMMA OnlyRuns ==
    ASSUME Sound, run' \in [Runs -> Run], \A p \in Runs : RunKnows(run[p])',
           UNCHANGED <<exchange, diary, notified, told>>,
           clock' \in Time, account' \in Account, since' \in Time \cup {NULL},
           mishaps' \subseteq {"interrupted", "unsent"}
    PROVE  Sound'
BY DEF Sound, TypeOK, exchange, diary, ClosedHasOrder, Present

\* What happens on the exchange leaves what runs have read as it was.
LEMMA ExchangeSound == Sound /\ Exchange => Sound'
<1> SUFFICES ASSUME Sound, Exchange PROVE Sound'
  OBVIOUS
<1> USE DEF Sound
<1>1. ASSUME closing' \in [Orders -> Closing \cup {NULL}],
             \A o \in Orders : closing[o] # NULL => closing'[o] # NULL,
             live' \in traded' \cup {NULL}, traded' \subseteq Trades, clock' \in Time,
             UNCHANGED <<diary, account, notified, run, history>>
      PROVE  Sound'
  <2>1. \A r \in Runs : run[r] \in Run
    BY DEF TypeOK
  <2>2. \A r \in Runs : RunKnows(run[r])'
    BY <1>1, <2>1 DEF RunKnows, Run
  <2> QED
    BY <1>1, <2>2 DEF TypeOK, diary, history, ClosedHasOrder, Present
<1>2. CASE Tick
  <2>1. clock' \in Time
    BY <1>2, SyncAssumption DEF Tick, TypeOK, Time
  <2> QED
    BY <1>1, <1>2, <2>1 DEF Tick, exchange, TypeOK
<1>3. ASSUME NEW tr \in Trades, OpenTrade(tr) PROVE Sound'
  BY <1>1, <1>3 DEF OpenTrade, TypeOK
<1>4. ASSUME NEW o \in Orders, NEW left \in {NULL, live}, CloseTrade(o, left) PROVE Sound'
  <2> DEFINE c == [trade |-> live, at |-> clock, listed |-> FALSE, late |-> FALSE]
  <2>1. c \in Closing
    BY <1>4 DEF CloseTrade, TypeOK, Closing, Time
  <2>2. closing' = [closing EXCEPT ![o] = c]
    BY <1>4 DEF CloseTrade
  <2> HIDE DEF c
  <2>3. closing' \in [Orders -> Closing \cup {NULL}]
    BY <2>1, <2>2 DEF TypeOK
  <2>4. \A x \in Orders : closing[x] # NULL => closing'[x] # NULL
    BY <2>1, <2>2, SyncAssumption DEF TypeOK
  <2> QED
    BY <1>1, <1>4, <2>3, <2>4 DEF CloseTrade, TypeOK
<1>5. ASSUME NEW o \in Orders, ListClosing(o) PROVE Sound'
  <2> DEFINE was == clock > closing[o].at
             c == [closing[o] EXCEPT !.listed = TRUE, !.late = was]
  <2>1. closing' = [closing EXCEPT ![o] = c]
    BY <1>5 DEF ListClosing
  <2>2. was \in BOOLEAN
    OBVIOUS
  <2> HIDE DEF was
  <2>3. c \in Closing
    BY <1>5, <2>2, ClosingsAre DEF ListClosing, Closing
  <2> HIDE DEF c
  <2>4. closing' \in [Orders -> Closing \cup {NULL}]
    BY <2>1, <2>3 DEF TypeOK
  <2>5. \A x \in Orders : closing[x] # NULL => closing'[x] # NULL
    BY <2>1, <2>3, SyncAssumption DEF TypeOK
  <2> QED
    BY <1>1, <1>5, <2>4, <2>5 DEF ListClosing, TypeOK
<1> QED
  BY <1>2, <1>3, <1>4, <1>5 DEF Exchange

LEMMA UserSound == Sound /\ User => Sound'
<1> SUFFICES ASSUME Sound, User PROVE Sound'
  OBVIOUS
<1> USE DEF Sound
<1>1. ASSUME NEW n \in Notes, RemovePositionNote(n) PROVE Sound'
  <2>1. note' \in [Notes -> Note \cup {NULL}] /\ \A m \in Notes : note'[m] # NULL => note'[m] = note[m]
    BY <1>1 DEF RemovePositionNote, TypeOK
  <2> QED
    BY <1>1, <2>1 DEF RemovePositionNote, exchange, history, TypeOK, ClosedHasOrder, Present, RunKnows
<1>2. ASSUME NEW n \in Notes, NEW i \in RowIds, AddPositionNote(n, i) PROVE Sound'
  <2> DEFINE new == [row |-> i, trade |-> row[i].trade]
  <2>1. new \in Note
    BY <1>2, RowsAre DEF AddPositionNote, Note, Row
  <2>2. note' \in [Notes -> Note \cup {NULL}]
        /\ \A m \in Notes : note'[m] # NULL => note'[m] = note[m] \/ note'[m].row = i
    BY <1>2, <2>1 DEF AddPositionNote, TypeOK
  <2> QED
    BY <1>2, <2>2 DEF AddPositionNote, exchange, history, TypeOK, ClosedHasOrder, Present, RunKnows
<1> QED
  BY <1>1, <1>2 DEF User

LEMMA RunIs ==
    ASSUME TypeOK, NEW r \in Runs
    PROVE  run[r] \in Run
BY DEF TypeOK

LEMMA WindowsStart ==
    ASSUME NEW cursor \in Time \cup {NULL} PROVE WindowStart(cursor) \in Time
BY SyncAssumption DEF WindowStart, Time

LEMMA WindowOpens ==
    ASSUME NEW q \in Run, NEW start \in Time, RunKnows(q)
    PROVE  /\ OpenWindow(q, start) \in Run /\ RunKnows(OpenWindow(q, start))
           /\ OpenWindow(q, start).pc \in {"fetch", "snapshot"}
           /\ OpenWindow(q, start).now = q.now
           /\ OpenWindow(q, start).pc = "fetch" =>
                 /\ OpenWindow(q, start).from = start
                 /\ OpenWindow(q, start).to <= q.now
<1> DEFINE to == Least(start + Window, q.now)
<1>1. q.now \in Time
  BY DEF Run
<1>2. to \in Time /\ to <= q.now
  BY <1>1, SyncAssumption DEF Least, Time
<1> HIDE DEF to
<1>3. CASE start < q.now
  <2>1. OpenWindow(q, start) = [q EXCEPT !.pc = "fetch", !.from = start, !.to = to]
    BY <1>3 DEF OpenWindow, to
  <2> QED
    BY <2>1, <1>2 DEF Run, Steps, RunKnows
<1>4. CASE ~(start < q.now)
  BY <1>4 DEF OpenWindow, Run, Steps, RunKnows
<1> QED
  BY <1>3, <1>4

\* What a run that only reads, or ends, leaves alone.
Reads == UNCHANGED <<exchange, diary, notified, told>>

LEMMA WindowStepsSound ==
    ASSUME Sound, NEW r \in Runs,
           ReadAccount(r) \/ Begin(r) \/ FetchClosed(r) \/ AdvanceCursor(r)
    PROVE  Sound'
<1>1. run[r] \in Run /\ RunKnows(run[r]) /\ TypeOK /\ \A p \in Runs : RunKnows(run[p])
  BY RunIs DEF Sound
<1>2. CASE ReadAccount(r)
  <2> DEFINE q == [Idle EXCEPT !.pc = "begin", !.seen = account]
  <2>1. q \in Run /\ RunKnows(q)
    BY <1>1, IdleIsRun DEF Run, Steps, RunKnows, TypeOK
  <2>2. run' = [run EXCEPT ![r] = q] /\ UNCHANGED closing
    BY <1>2 DEF ReadAccount, exchange
  <2> HIDE DEF q
  <2>3. run' \in [Runs -> Run] /\ \A p \in Runs : RunKnows(run[p])'
    BY <1>1, <2>1, <2>2, RunsKept
  <2> QED
    BY <1>1, <1>2, <2>3, OnlyRuns DEF ReadAccount, history, TypeOK
<1>3. CASE Begin(r)
  <2> DEFINE had == [run[r] EXCEPT !.now = clock]
             start == WindowStart(run[r].seen.cursor)
             q == OpenWindow(had, start)
  <2>1. had \in Run /\ RunKnows(had)
    BY <1>1 DEF Run, RunKnows, TypeOK
  <2>2. start \in Time
    BY <1>1, WindowsStart DEF Run, Account
  <2>3. run' = [run EXCEPT ![r] = q] /\ UNCHANGED closing
    BY <1>3 DEF Begin, exchange
  <2> HIDE DEF had, start
  <2>4. q \in Run /\ RunKnows(q)
    BY <2>1, <2>2, WindowOpens
  <2> HIDE DEF q
  <2>5. run' \in [Runs -> Run] /\ \A p \in Runs : RunKnows(run[p])'
    BY <1>1, <2>3, <2>4, RunsKept
  <2>6. clock' \in Time
    BY <1>1, <1>3, SyncAssumption DEF Begin, Least, TypeOK, Time
  <2> QED
    BY <1>1, <1>3, <2>5, <2>6, OnlyRuns DEF Begin, history, TypeOK
<1>4. CASE FetchClosed(r)
  <2> DEFINE todo == {o \in Orders : /\ closing[o] # NULL /\ closing[o].listed
                                     /\ run[r].from <= closing[o].at
                                     /\ closing[o].at <= run[r].to}
             q == [run[r] EXCEPT !.pc = "next", !.todo = todo]
  <2>1. todo \subseteq Orders /\ \A o \in todo : closing[o] # NULL
    OBVIOUS
  <2>2. run' = [run EXCEPT ![r] = q] /\ UNCHANGED closing
    BY <1>1, <1>4 DEF FetchClosed, exchange, TypeOK
  <2> HIDE DEF todo
  <2>3. q \in Run /\ RunKnows(q)
    BY <1>1, <2>1 DEF Run, Steps, RunKnows
  <2> HIDE DEF q
  <2>4. run' \in [Runs -> Run] /\ \A p \in Runs : RunKnows(run[p])'
    BY <1>1, <2>2, <2>3, RunsKept
  <2> QED
    BY <1>1, <1>4, <2>4, OnlyRuns DEF FetchClosed, history, TypeOK
<1>5. CASE AdvanceCursor(r)
  <2> DEFINE q == OpenWindow(run[r], run[r].to)
  <2>1. run[r].to \in Time
    BY <1>1 DEF Run
  <2>2. run' = [run EXCEPT ![r] = q] /\ UNCHANGED closing
    BY <1>5 DEF AdvanceCursor, exchange
  <2>3. q \in Run /\ RunKnows(q)
    BY <1>1, <2>1, WindowOpens
  <2> HIDE DEF q
  <2>4. run' \in [Runs -> Run] /\ \A p \in Runs : RunKnows(run[p])'
    BY <1>1, <2>2, <2>3, RunsKept
  <2>5. account' \in Account
    BY <1>1, <1>5, <2>1 DEF AdvanceCursor, CursorAfter, TypeOK, Account
  <2> QED
    BY <1>1, <1>5, <2>4, <2>5, OnlyRuns DEF AdvanceCursor, history, TypeOK
<1> QED
  BY <1>2, <1>3, <1>4, <1>5

LEMMA FindStepsSound ==
    ASSUME Sound, NEW r \in Runs,
           \/ \E o \in Orders : FindOpenRow(r, o)
           \/ FindConflicting(r) \/ FetchOpen(r) \/ FindTracked(r)
    PROVE  Sound'
<1>1. run[r] \in Run /\ RunKnows(run[r]) /\ TypeOK /\ \A p \in Runs : RunKnows(run[p])
  BY RunIs DEF Sound
<1>2. SUFFICES ASSUME NEW q \in Run, RunKnows(q), run' = [run EXCEPT ![r] = q],
                      UNCHANGED <<clock, exchange, diary, account, notified, history>>
               PROVE  Sound'
  <2>1. ASSUME NEW o \in Orders, FindOpenRow(r, o) PROVE Sound'
    <3>1. CASE \E i \in Open : run' = [run EXCEPT ![r].pc = "conflict", ![r].rec = o, ![r].mine = i]
      <4>1. PICK i \in Open : run' = [run EXCEPT ![r].pc = "conflict", ![r].rec = o, ![r].mine = i]
        BY <3>1
      <4> DEFINE q == [run[r] EXCEPT !.pc = "conflict", !.rec = o, !.mine = i]
      <4>2. i \in RowIds /\ i # NULL /\ o # NULL /\ closing[o] # NULL
        BY <1>1, <2>1, SyncAssumption DEF Open, FindOpenRow, RunKnows
      <4>3. q \in Run /\ RunKnows(q)
        BY <1>1, <4>2 DEF Run, Steps, RunKnows
      <4>4. run' = [run EXCEPT ![r] = q]
        BY <1>1, <4>1 DEF TypeOK
      <4> QED
        BY <1>2, <2>1, <4>3, <4>4 DEF FindOpenRow
    <3>2. CASE run' = [run EXCEPT ![r].pc = "upsert", ![r].rec = o]
      <4> DEFINE q == [run[r] EXCEPT !.pc = "upsert", !.rec = o]
      <4>2. o # NULL /\ closing[o] # NULL
        BY <1>1, <2>1, SyncAssumption DEF FindOpenRow, RunKnows
      <4>3. q \in Run /\ RunKnows(q)
        BY <1>1, <4>2 DEF Run, Steps, RunKnows
      <4>4. run' = [run EXCEPT ![r] = q]
        BY <1>1, <3>2 DEF TypeOK
      <4> QED
        BY <1>2, <2>1, <4>3, <4>4 DEF FindOpenRow
    <3> QED
      BY <2>1, <3>1, <3>2 DEF FindOpenRow
  <2>2. ASSUME FindConflicting(r) PROVE Sound'
    <3>1. PICK i \in RowIds \cup {NULL} : run' = [run EXCEPT ![r].pc = "write", ![r].other = i]
      BY <2>2 DEF FindConflicting, RowsOf
    <3> DEFINE q == [run[r] EXCEPT !.pc = "write", !.other = i]
    <3>2. q \in Run /\ RunKnows(q)
      BY <1>1, <2>2, <3>1 DEF Run, Steps, RunKnows, FindConflicting, At
    <3>3. run' = [run EXCEPT ![r] = q]
      BY <1>1, <3>1 DEF TypeOK
    <3> QED
      BY <1>2, <2>2, <3>2, <3>3 DEF FindConflicting
  <2>3. ASSUME FetchOpen(r) PROVE Sound'
    <3> DEFINE pc == IF live = NULL THEN "collect" ELSE "findLive"
               q == [run[r] EXCEPT !.pc = pc, !.live = live]
    <3>1. live \in Trades \cup {NULL} /\ pc \in Steps /\ (pc = "findLive" => live # NULL)
          /\ pc \in {"collect", "findLive"}
      BY <1>1 DEF TypeOK, Steps
    <3>2. run' = [run EXCEPT ![r] = q]
      BY <1>1, <2>3 DEF FetchOpen, TypeOK
    <3> HIDE DEF pc
    <3>3. q \in Run /\ RunKnows(q)
      BY <1>1, <3>1 DEF Run, RunKnows
    <3> QED
      BY <1>2, <2>3, <3>2, <3>3 DEF FetchOpen
  <2>4. ASSUME FindTracked(r) PROVE Sound'
    <3>1. PICK i \in RowIds \cup {NULL} : run' = [run EXCEPT ![r].pc = "writeLive", ![r].mine = i]
      BY <2>4 DEF FindTracked, Tracked, Open
    <3> DEFINE q == [run[r] EXCEPT !.pc = "writeLive", !.mine = i]
    <3>2. q \in Run /\ RunKnows(q)
      BY <1>1, <2>4, <3>1 DEF Run, Steps, RunKnows, FindTracked, At
    <3>3. run' = [run EXCEPT ![r] = q]
      BY <1>1, <3>1 DEF TypeOK
    <3> QED
      BY <1>2, <2>4, <3>2, <3>3 DEF FindTracked
  <2> QED
    BY <2>1, <2>2, <2>3, <2>4
<1>3. run' \in [Runs -> Run] /\ \A p \in Runs : RunKnows(run[p])'
  BY <1>1, <1>2, RunsKept DEF exchange
<1> QED
  BY <1>1, <1>2, <1>3, OnlyRuns DEF history, TypeOK

\* The write of a closing into the row the trade was tracked under.
LEMMA ClosedWriteSound == ASSUME Sound, NEW r \in Runs, WriteClosed(r) PROVE Sound'
<1> DEFINE q    == run[r]
           o    == q.rec
           mine == q.mine
           gone == IF q.other = mine THEN NULL ELSE q.other
           done == [q EXCEPT !.pc = "next", !.todo = @ \ {o},
                             !.rec = NULL, !.mine = NULL, !.other = NULL]
<1>1. TypeOK /\ q \in Run /\ RunKnows(q) /\ q.pc = "write"
  BY RunIs DEF Sound, WriteClosed, At
<1>2. o \in Orders /\ closing[o] # NULL /\ mine \in RowIds /\ gone \in RowIds \cup {NULL}
  BY <1>1 DEF RunKnows, Run
<1>3. gone # mine
  BY <1>2, SyncAssumption
<1>4. /\ row' = [i \in RowIds |-> IF i = mine THEN ClosedBy(o)
                                  ELSE IF i = gone THEN NULL ELSE row[i]]
      /\ note' = [n \in Notes |-> IF gone = NULL THEN note[n] ELSE NotesMoved(n, gone, mine)]
      /\ run' = [run EXCEPT ![r] = done]
      /\ UNCHANGED <<clock, exchange, account, notified, history>>
  BY <1>1 DEF WriteClosed, Written, TypeOK
<1>5. done \in Run /\ RunKnows(done)
  BY <1>1 DEF Run, Steps, RunKnows
<1> HIDE DEF done, gone
<1>6. run' \in [Runs -> Run] /\ \A p \in Runs : RunKnows(run[p])'
  BY <1>1, <1>4, <1>5, RunsKept DEF Sound, exchange
<1>7. ClosedBy(o) \in Row /\ ClosedBy(o) # NULL /\ ~ClosedBy(o).open /\ ClosedBy(o).order = o
  BY <1>1, <1>2, ClosedRow
<1> HIDE DEF o, mine
<1>8. row' \in [RowIds -> Row \cup {NULL}]
  BY <1>1, <1>4, <1>7 DEF TypeOK
<1>9. \A i \in RowIds : row[i] # NULL /\ i # gone => row'[i] # NULL
  BY <1>4, <1>7
<1>10. note' \in [Notes -> Note \cup {NULL}]
       /\ \A n \in Notes : note'[n] # NULL => row'[note'[n].row] # NULL
  <2>1. CASE gone = NULL
    <3>1. note' = note
      BY <1>1, <1>4, <2>1 DEF TypeOK
    <3>2. \A n \in Notes : note[n] # NULL => note[n].row \in RowIds /\ note[n].row # gone
      BY <1>1, <2>1, SyncAssumption DEF TypeOK, Note
    <3> QED
      BY <1>1, <1>9, <3>1, <3>2 DEF TypeOK
  <2>2. CASE gone # NULL
    <3> SUFFICES ASSUME NEW n \in Notes
                 PROVE  /\ NotesMoved(n, gone, mine) \in Note \cup {NULL}
                        /\ NotesMoved(n, gone, mine) # NULL =>
                             row'[NotesMoved(n, gone, mine).row] # NULL
      BY <1>4, <2>2
    <3>1. note[n] \in Note \cup {NULL} /\ (note[n] # NULL => row[note[n].row] # NULL)
      BY <1>1 DEF TypeOK
    <3>2. row'[mine] # NULL
      BY <1>2, <1>4, <1>7
    <3>3. CASE note[n] # NULL /\ note[n].row = gone
      <4>1. NotesMoved(n, gone, mine) = [note[n] EXCEPT !.row = mine] /\ note[n] \in Note
        BY <3>1, <3>3 DEF NotesMoved
      <4>2. NotesMoved(n, gone, mine) \in Note /\ NotesMoved(n, gone, mine).row = mine
        BY <1>2, <4>1 DEF Note
      <4> QED
        BY <3>2, <4>2
    <3>4. CASE ~(note[n] # NULL /\ note[n].row = gone)
      <4>1. NotesMoved(n, gone, mine) = note[n]
        BY <3>4 DEF NotesMoved
      <4>2. note[n] # NULL => note[n].row \in RowIds
        BY <3>1 DEF Note
      <4> QED
        BY <1>9, <3>1, <3>4, <4>1, <4>2
    <3> QED
      BY <3>3, <3>4
  <2> QED
    BY <2>1, <2>2
<1>11. ClosedHasOrder'
  BY <1>2, <1>4, <1>7, SyncAssumption DEF Sound, ClosedHasOrder, Present
<1> QED
  BY <1>1, <1>4, <1>6, <1>8, <1>10, <1>11 DEF Sound, TypeOK, exchange, history

\* A write that leaves every row that is there, and the notes.
LEMMA WriteKeeps ==
    ASSUME Sound, NEW i \in RowIds, NEW new \in Row, new.open \/ new.order # NULL,
           row' = [row EXCEPT ![i] = new], UNCHANGED <<clock, exchange, note, account, history>>,
           notified' \subseteq RowIds,
           run' \in [Runs -> Run], \A p \in Runs : RunKnows(run[p])'
    PROVE  Sound'
<1>1. new # NULL
  BY SyncAssumption
<1>2. row' \in [RowIds -> Row \cup {NULL}] /\ \A j \in RowIds : row[j] # NULL => row'[j] # NULL
  BY <1>1 DEF Sound, TypeOK
<1>3. \A n \in Notes : note'[n] # NULL => row'[note'[n].row] # NULL
  BY <1>2 DEF Sound, TypeOK, Note
<1>4. ClosedHasOrder'
  BY <1>1 DEF Sound, TypeOK, ClosedHasOrder, Present
<1> QED
  BY <1>2, <1>3, <1>4 DEF Sound, TypeOK, exchange, history

LEMMA RowWritesSound ==
    ASSUME Sound, NEW r \in Runs, UpsertClosed(r) \/ WriteOpen(r) PROVE Sound'
<1>1. run[r] \in Run /\ RunKnows(run[r]) /\ TypeOK /\ \A p \in Runs : RunKnows(run[p])
  BY RunIs DEF Sound
<1>2. CASE UpsertClosed(r)
  <2> DEFINE o == run[r].rec
             q == [run[r] EXCEPT !.pc = "next", !.todo = @ \ {o},
                                 !.rec = NULL, !.mine = NULL, !.other = NULL]
  <2>1. o \in Orders /\ closing[o] # NULL
    BY <1>1, <1>2 DEF UpsertClosed, At, RunKnows, Run
  <2>2. q \in Run /\ RunKnows(q)
    BY <1>1 DEF Run, Steps, RunKnows
  <2>3. run' = [run EXCEPT ![r] = q]
    BY <1>1, <1>2 DEF UpsertClosed, Written, TypeOK
  <2> HIDE DEF q
  <2>4. run' \in [Runs -> Run] /\ \A p \in Runs : RunKnows(run[p])'
    BY <1>1, <1>2, <2>2, <2>3, RunsKept DEF UpsertClosed, exchange
  <2>5. PICK i \in RowIds : /\ row' = [row EXCEPT ![i] = ClosedBy(o)]
                            /\ notified' = IF Present(i) THEN notified ELSE notified \ {i}
    BY <1>2 DEF UpsertClosed
  <2>6. ClosedBy(o) \in Row /\ ClosedBy(o).order # NULL
    BY <1>1, <2>1, ClosedRow, SyncAssumption
  <2>7. notified' \subseteq RowIds
    BY <1>1, <2>5 DEF TypeOK
  <2>8. UNCHANGED <<clock, exchange, note, account, history>>
    BY <1>2 DEF UpsertClosed
  <2> HIDE DEF o
  <2> QED
    BY <2>4, <2>5, <2>6, <2>7, <2>8, WriteKeeps
<1>3. CASE WriteOpen(r)
  <2> DEFINE q == [run[r] EXCEPT !.pc = "collect", !.mine = NULL, !.live = NULL]
             tr == run[r].live
  <2>1. tr \in Trades
    BY <1>1, <1>3 DEF WriteOpen, At, RunKnows, Run
  <2>2. q \in Run /\ RunKnows(q)
    BY <1>1 DEF Run, Steps, RunKnows
  <2>3. run' = [run EXCEPT ![r] = q]
    BY <1>1, <1>3 DEF WriteOpen, TypeOK
  <2> HIDE DEF q
  <2>4. run' \in [Runs -> Run] /\ \A p \in Runs : RunKnows(run[p])'
    BY <1>1, <1>3, <2>2, <2>3, RunsKept DEF WriteOpen, exchange
  <2>5. UNCHANGED <<clock, exchange, note, account, history>>
    BY <1>3 DEF WriteOpen
  <2>6. CASE run[r].mine # NULL
    <3> DEFINE i == run[r].mine
               new == [row[i] EXCEPT !.open = TRUE, !.trade = tr]
    <3>1. i \in RowIds /\ Present(i)
      BY <1>1, <1>3, <2>6 DEF WriteOpen, Run
    <3>2. row[i] \in Row
      BY <1>1, <3>1, RowsAre
    <3>3. new \in Row /\ new.open
      BY <2>1, <3>2 DEF Row
    <3>4. row' = [row EXCEPT ![i] = new] /\ notified' \subseteq RowIds
      BY <1>1, <1>3, <2>6 DEF WriteOpen, TypeOK
    <3> HIDE DEF i, new
    <3> QED
      BY <2>4, <2>5, <3>1, <3>3, <3>4, WriteKeeps
  <2>7. CASE run[r].mine = NULL
    <3> DEFINE new == [open |-> TRUE, order |-> NULL, trade |-> tr]
    <3>1. PICK i \in RowIds : row' = [row EXCEPT ![i] = new] /\ notified' = notified \ {i}
      BY <1>3, <2>7 DEF WriteOpen
    <3>2. new \in Row /\ new.open
      BY <2>1 DEF Row
    <3>3. notified' \subseteq RowIds
      BY <1>1, <3>1 DEF TypeOK
    <3> HIDE DEF new
    <3> QED
      BY <2>4, <2>5, <3>1, <3>2, <3>3, WriteKeeps
  <2> QED
    BY <2>6, <2>7
<1> QED
  BY <1>2, <1>3

LEMMA AnnouncingSound ==
    ASSUME Sound, NEW r \in Runs,
           \/ Collect(r) \/ Finish(r) \/ Fail(r)
           \/ \E news \in run[r].news : Announce(r, news) \/ AnnounceFails(r, news)
    PROVE  Sound'
<1>1. run[r] \in Run /\ RunKnows(run[r]) /\ TypeOK /\ \A p \in Runs : RunKnows(run[p])
  BY RunIs DEF Sound
<1>2. CASE Collect(r)
  <2> DEFINE recent == {j \in RowIds \ Open : Present(j) /\ NewlyClosed(row[j].order, run[r])}
             news == IF run[r].seen.lastSync = NULL THEN {}
                     ELSE {[row |-> i, order |-> row[i].order] : i \in recent}
             q == [run[r] EXCEPT !.pc = "tell", !.news = news]
  <2>1. \A i \in recent : i \in RowIds /\ row[i].order \in Orders
    BY <1>1, RowsAre DEF Sound, ClosedHasOrder, Open, Row
  <2>2. run' = [run EXCEPT ![r] = q]
    BY <1>1, <1>2 DEF Collect, TypeOK
  <2> HIDE DEF recent
  <2>3. news \subseteq News
    BY <2>1 DEF News
  <2> HIDE DEF news
  <2>4. q \in Run /\ RunKnows(q)
    BY <1>1, <2>3 DEF Run, Steps, RunKnows
  <2> HIDE DEF q
  <2>5. run' \in [Runs -> Run] /\ \A p \in Runs : RunKnows(run[p])'
    BY <1>1, <1>2, <2>2, <2>4, RunsKept DEF Collect, exchange
  <2> QED
    BY <1>1, <1>2, <2>5, OnlyRuns DEF Collect, history, TypeOK
<1>3. ASSUME NEW news \in run[r].news, Announce(r, news) \/ AnnounceFails(r, news) PROVE Sound'
  <2> DEFINE q == [run[r] EXCEPT !.news = @ \ {news}]
  <2>1. q \in Run /\ RunKnows(q)
    BY <1>1 DEF Run, RunKnows
  <2>2. run' = [run EXCEPT ![r] = q] /\ UNCHANGED <<clock, exchange, diary, account, since>>
    BY <1>1, <1>3 DEF Announce, AnnounceFails, TypeOK
  <2> HIDE DEF q
  <2>3. run' \in [Runs -> Run] /\ \A p \in Runs : RunKnows(run[p])'
    BY <1>1, <2>1, <2>2, RunsKept DEF exchange
  <2>4. news.row \in RowIds /\ news.order \in Orders
    BY <1>1 DEF Run, News
  <2>5. /\ notified' \subseteq RowIds /\ told' \in [Orders -> 0..2]
        /\ mishaps' \subseteq {"interrupted", "unsent"}
    <3>1. CASE Announce(r, news)
      <4> DEFINE n == IF news.row \notin notified /\ told[news.order] < 2
                      THEN told[news.order] + 1 ELSE told[news.order]
      <4>1. n \in 0..2
        BY <1>1, <2>4 DEF TypeOK
      <4>2. told' = [told EXCEPT ![news.order] = n]
        BY <3>1 DEF Announce
      <4> HIDE DEF n
      <4> QED
        BY <1>1, <2>4, <3>1, <4>1, <4>2 DEF Announce, TypeOK
    <3>2. CASE AnnounceFails(r, news)
      BY <1>1, <3>2 DEF AnnounceFails, TypeOK
    <3> QED
      BY <1>3, <3>1, <3>2
  <2> QED
    BY <1>1, <2>2, <2>3, <2>5 DEF Sound, TypeOK, ClosedHasOrder, Present, exchange, diary
<1>4. CASE Finish(r) \/ Fail(r)
  <2>1. run' = [run EXCEPT ![r] = Idle] /\ UNCHANGED closing
    BY <1>4 DEF Finish, Fail, exchange
  <2>2. run' \in [Runs -> Run] /\ \A p \in Runs : RunKnows(run[p])'
    BY <1>1, <2>1, IdleIsRun, RunsKept
  <2>3. account' \in Account /\ since' \in Time \cup {NULL}
        /\ mishaps' \subseteq {"interrupted", "unsent"}
    BY <1>1, <1>4 DEF Finish, Fail, TypeOK, Account, Run
  <2> QED
    BY <1>1, <1>4, <2>2, <2>3, OnlyRuns DEF Finish, Fail, TypeOK
<1> QED
  BY <1>2, <1>3, <1>4

LEMMA InitSound == Init => Sound
<1> SUFFICES ASSUME Init PROVE Sound
  OBVIOUS
<1>1. \A r \in Runs : run[r] \in Run /\ RunKnows(run[r])
  BY IdleIsRun DEF Init
<1>2. clock \in Time /\ account \in Account
  BY IdleIsRun, SyncAssumption DEF Init, Time
<1> QED
  BY <1>1, <1>2 DEF Init, Sound, TypeOK, ClosedHasOrder, Present

LEMMA StepSound == ASSUME Sound, NEW r \in Runs, Step(r) \/ Fail(r) PROVE Sound'
BY WindowStepsSound, FindStepsSound, ClosedWriteSound, RowWritesSound, AnnouncingSound DEF Step

LEMMA NextSound == Sound /\ [Next]_vars => Sound'
<1> SUFFICES ASSUME Sound, [Next]_vars PROVE Sound'
  OBVIOUS
<1>1. CASE UNCHANGED vars
  BY <1>1 DEF vars, exchange, diary, history, Sound, TypeOK, ClosedHasOrder, Present, RunKnows
<1> QED
  BY <1>1, ExchangeSound, UserSound, StepSound DEF Next

\* Every variable has its type, no note outlives its row, and every step of a run has what
\* it writes with, however many runs overlap and wherever one dies.
THEOREM TypeCorrect == Spec => []TypeOK
<1>1. Sound => TypeOK
  BY DEF Sound
<1> QED
  BY <1>1, InitSound, NextSound, PTL DEF Spec

-----------------------------------------------------------------------------
(***************************************************************************)
(* One run at a time.  The rows of the diary are then an open one at most  *)
(* and one for each closing recorded, and what the run read of them is     *)
(* still so when it writes.                                                *)
(***************************************************************************)

OneAtATime == \A r, p \in Runs : r = p

Tidy ==
    /\ \A i, j \in Open : i = j
    /\ \A i \in RowIds : Present(i) =>
          IF row[i].open THEN row[i].order = NULL
          ELSE closing[row[i].order] # NULL /\ row[i] = ClosedBy(row[i].order)

RowsRead(q) ==
    /\ q.pc \in {"conflict", "write"} => q.mine \in Open
    /\ q.pc = "write" => IF q.other = NULL THEN RowsOf(q.rec) = {} ELSE q.other \in RowsOf(q.rec)
    /\ q.pc = "upsert" => Open = {}
    /\ q.pc = "writeLive" => IF q.mine = NULL THEN Open = {} ELSE q.mine \in Open

DiaryTidy == Tidy /\ \A r \in Runs : RowsRead(run[r])

\* What closed so long before t that the exchange had listed it by then.
Due(o, t) == closing[o] # NULL /\ closing[o].at + Overlap <= t

Past(t) == t < clock \/ clock = MaxTime

\* A run's window reaches no further than its now, what is due before the window is in the
\* diary, and what is due in it is, or is still to do.
Covers(q) ==
    /\ q.pc = "begin" => q.seen.cursor = account.cursor
    /\ q.pc \in {"fetch", "next", "conflict", "write", "upsert"} =>
          /\ Past(q.now) /\ q.to <= q.now
          /\ \A o \in Orders : Due(o, q.now) =>
                /\ closing[o].listed
                /\ closing[o].at < q.from => Recorded(o)
                /\ q.pc # "fetch" /\ closing[o].at <= q.to => Recorded(o) \/ o \in q.todo

Covered ==
    /\ account.cursor # NULL => Past(account.cursor)
    /\ NothingSkipped
    /\ \A r \in Runs : Covers(run[r])

\* What a tidy diary has of a closing is recorded.
LEMMA InDiary ==
    ASSUME TypeOK, Tidy, NEW o \in Orders
    PROVE  /\ Recorded(o) <=> RowsOf(o) # {}
           /\ RowsOf(o) # {} => closing[o] # NULL
<1>1. \A i \in RowsOf(o) : row[i] = ClosedBy(o) /\ closing[o] # NULL
  BY SyncAssumption DEF RowsOf, Tidy
<1> QED
  BY <1>1 DEF Recorded

\* Closings are what they were, and there may be more of them.
Onward == \A o \in Orders : closing[o] # NULL =>
             closing'[o] # NULL /\ closing'[o].trade = closing[o].trade

LEMMA RowsSame ==
    ASSUME Sound, Tidy, UNCHANGED row, Onward
    PROVE  Tidy' /\ Open' = Open /\ \A o : RowsOf(o)' = RowsOf(o)
<1>1. Open' = Open /\ (\A o : RowsOf(o)' = RowsOf(o)) /\ \A i \in RowIds : Present(i)' <=> Present(i)
  BY DEF Open, RowsOf, Present
<1>2. ASSUME NEW i \in RowIds, Present(i), ~row[i].open
      PROVE  closing'[row[i].order] # NULL /\ ClosedBy(row[i].order)' = ClosedBy(row[i].order)
  <2>1. row[i].order \in Orders /\ closing[row[i].order] # NULL
    BY <1>2, RowsAre DEF Sound, ClosedHasOrder, Tidy, Row
  <2> QED
    BY <2>1 DEF Onward, ClosedBy
<1> QED
  BY <1>1, <1>2 DEF Tidy

LEMMA ExchangeOnward ==
    ASSUME Sound, Exchange
    PROVE  Onward /\ UNCHANGED <<diary, account, run, notified, history>>
<1>1. CASE Tick
  BY <1>1 DEF Tick, Onward, exchange
<1>2. CASE \E tr \in Trades : OpenTrade(tr)
  BY <1>2 DEF OpenTrade, Onward
<1>3. ASSUME NEW o \in Orders, NEW left \in {NULL, live}, CloseTrade(o, left) PROVE Onward
  BY <1>3 DEF CloseTrade, Onward, Sound, TypeOK
<1>4. ASSUME NEW o \in Orders, ListClosing(o) PROVE Onward
  <2> DEFINE was == clock > closing[o].at
             c == [closing[o] EXCEPT !.listed = TRUE, !.late = was]
  <2>1. closing' = [closing EXCEPT ![o] = c]
    BY <1>4 DEF ListClosing
  <2> HIDE DEF was
  <2>2. c \in [trade: Trades, at: 0..MaxTime, listed: {TRUE}, late: {was}] /\ c.trade = closing[o].trade
    BY <1>4, ClosingsAre DEF ListClosing, Closing, Sound
  <2>3. was \in BOOLEAN
    BY DEF was
  <2>4. c # NULL
    BY <2>2, <2>3, SyncAssumption DEF Closing
  <2> HIDE DEF c
  <2> QED
    BY <2>1, <2>2, <2>4 DEF Onward, Sound, TypeOK
<1> QED
  BY <1>1, <1>2, <1>3, <1>4 DEF Exchange, Tick, OpenTrade, CloseTrade, ListClosing

\* The steps of a run that write no row.
LEMMA ReadingTidy ==
    ASSUME OneAtATime, Sound, DiaryTidy, NEW r \in Runs, UNCHANGED <<row, closing>>,
           Sound', NEW q, run' = [run EXCEPT ![r] = q], RowsRead(q)
    PROVE  DiaryTidy'
<1>1. Tidy' /\ Open' = Open /\ \A o : RowsOf(o)' = RowsOf(o)
  BY RowsSame DEF DiaryTidy, Onward
<1>2. \A p \in Runs : run'[p] = q
  BY DEF OneAtATime, Sound, TypeOK
<1> QED
  BY <1>1, <1>2 DEF DiaryTidy, RowsRead

Grows == \A o \in Orders : Recorded(o) => Recorded(o)'

LEMMA RowsSameGrows ==
    ASSUME Sound, Sound', Tidy, UNCHANGED row, Onward PROVE Grows
BY RowsSame, InDiary DEF Grows, Recorded, Sound, RowsOf, Present, Tidy, ClosedBy, Onward

LEMMA ReadsTidy ==
    ASSUME OneAtATime, Sound, DiaryTidy, NEW r \in Runs, Sound',
           \/ ReadAccount(r) \/ Begin(r) \/ FetchClosed(r) \/ AdvanceCursor(r)
           \/ \E o \in Orders : FindOpenRow(r, o)
           \/ FindConflicting(r) \/ FetchOpen(r) \/ FindTracked(r)
           \/ Collect(r) \/ Finish(r) \/ Fail(r)
           \/ \E news \in run[r].news : Announce(r, news) \/ AnnounceFails(r, news)
    PROVE  DiaryTidy' /\ UNCHANGED <<diary, closing>>
<1>1. run[r] \in Run /\ RowsRead(run[r]) /\ run \in [Runs -> Run] /\ run' \in [Runs -> Run]
  BY RunIs DEF Sound, DiaryTidy, TypeOK
<1>2. SUFFICES RowsRead(run'[r]) /\ UNCHANGED <<diary, closing>>
  <2>1. run' = [run EXCEPT ![r] = run'[r]]
    BY <1>1 DEF OneAtATime, Sound, TypeOK
  <2> QED
    BY <1>2, <2>1, ReadingTidy DEF diary
<1>3. ASSUME run'[r].pc \notin {"conflict", "write", "upsert", "writeLive"}
      PROVE  RowsRead(run'[r])
  BY <1>3 DEF RowsRead
<1>4. CASE ReadAccount(r) \/ Finish(r) \/ Fail(r)
  <2>1. [Idle EXCEPT !.pc = "begin", !.seen = account].pc = "begin" /\ Idle.pc = "idle"
    BY IdleIsRun DEF Run
  <2>2. run'[r].pc \in {"begin", "idle"}
    BY <1>4, <2>1 DEF ReadAccount, Finish, Fail, Sound, TypeOK
  <2> QED
    BY <1>3, <1>4, <2>2 DEF ReadAccount, Finish, Fail, exchange, diary
<1>5. CASE Begin(r) \/ AdvanceCursor(r)
  <2>1. run'[r].pc \in {"fetch", "snapshot"}
    <3>1. \A q, start : q \in Run => OpenWindow(q, start).pc \in {"fetch", "snapshot"}
      BY DEF OpenWindow, Run
    <3>2. [run[r] EXCEPT !.now = clock] \in Run
      BY <1>1 DEF Run, Sound, TypeOK
    <3> QED
      BY <1>1, <1>5, <3>1, <3>2 DEF Begin, AdvanceCursor, Sound, TypeOK
  <2> QED
    BY <1>3, <1>5, <2>1 DEF Begin, AdvanceCursor, exchange, diary
<1>6. CASE FetchClosed(r) \/ FetchOpen(r) \/ Collect(r)
  <2>1. run'[r].pc \in {"next", "collect", "findLive", "tell"}
    BY <1>1, <1>6 DEF FetchClosed, FetchOpen, Collect, Sound, TypeOK, Run
  <2> QED
    BY <1>3, <1>6, <2>1 DEF FetchClosed, FetchOpen, Collect, exchange, diary
<1>7. ASSUME NEW o \in Orders, FindOpenRow(r, o) PROVE RowsRead(run'[r]) /\ UNCHANGED <<diary, closing>>
  <2>1. \/ run'[r].pc = "conflict" /\ run'[r].mine \in Open
        \/ run'[r].pc = "upsert" /\ Open = {}
    <3>1. CASE \E i \in Open : run' = [run EXCEPT ![r].pc = "conflict", ![r].rec = o, ![r].mine = i]
      <4>1. PICK i \in Open : run' = [run EXCEPT ![r].pc = "conflict", ![r].rec = o, ![r].mine = i]
        BY <3>1
      <4>2. run'[r] = [run[r] EXCEPT !.pc = "conflict", !.rec = o, !.mine = i]
        BY <1>1, <4>1
      <4> QED
        BY <1>1, <4>2 DEF Run
    <3>2. CASE Open = {} /\ run' = [run EXCEPT ![r].pc = "upsert", ![r].rec = o]
      <4>1. run'[r] = [run[r] EXCEPT !.pc = "upsert", !.rec = o]
        BY <1>1, <3>2
      <4> QED
        BY <1>1, <3>2, <4>1 DEF Run
    <3> QED
      BY <1>7, <3>1, <3>2 DEF FindOpenRow
  <2> QED
    BY <1>7, <2>1 DEF FindOpenRow, RowsRead, exchange, diary
<1>8. CASE FindConflicting(r)
  <2>1. run[r].mine \in Open
    BY <1>1, <1>8 DEF FindConflicting, At, RowsRead
  <2>2. PICK i \in IF RowsOf(run[r].rec) = {} THEN {NULL} ELSE RowsOf(run[r].rec) :
               run' = [run EXCEPT ![r].pc = "write", ![r].other = i]
    BY <1>8 DEF FindConflicting
  <2>3. run'[r] = [run[r] EXCEPT !.pc = "write", !.other = i]
    BY <1>1, <2>2
  <2>4. NULL \notin RowsOf(run[r].rec)
    BY SyncAssumption DEF RowsOf
  <2>5. /\ run'[r].pc = "write" /\ run'[r].mine = run[r].mine
        /\ run'[r].rec = run[r].rec /\ run'[r].other = i
    BY <1>1, <2>3 DEF Run
  <2> QED
    BY <1>8, <2>1, <2>2, <2>4, <2>5 DEF FindConflicting, RowsRead, exchange, diary
<1>9. CASE FindTracked(r)
  <2>1. PICK i \in Tracked : run' = [run EXCEPT ![r].pc = "writeLive", ![r].mine = i]
    BY <1>9 DEF FindTracked
  <2>2. run'[r] = [run[r] EXCEPT !.pc = "writeLive", !.mine = i]
    BY <1>1, <2>1
  <2>3. run'[r].pc = "writeLive" /\ run'[r].mine = i
    BY <1>1, <2>2 DEF Run
  <2>4. NULL \notin Open
    BY SyncAssumption DEF Open
  <2> QED
    BY <1>9, <2>1, <2>3, <2>4 DEF FindTracked, Tracked, RowsRead, exchange, diary
<1>10. ASSUME NEW news \in run[r].news, Announce(r, news) \/ AnnounceFails(r, news)
       PROVE  RowsRead(run'[r]) /\ UNCHANGED <<diary, closing>>
  <2>1. run'[r].pc = "tell"
    BY <1>1, <1>10 DEF Announce, AnnounceFails, At, Sound, TypeOK, Run
  <2> QED
    BY <1>3, <1>10, <2>1 DEF Announce, AnnounceFails, exchange, diary
<1> QED
  BY <1>4, <1>5, <1>6, <1>7, <1>8, <1>9, <1>10

\* The steps that write one: what was recorded stays recorded, as does what is written.
Records(o) == closing[o] # NULL /\ Recorded(o)'

LEMMA ClosedWriteTidy ==
    ASSUME OneAtATime, Sound, DiaryTidy, NEW r \in Runs, Sound', WriteClosed(r),
           NEW o, o = run[r].rec
    PROVE  DiaryTidy' /\ Grows /\ Records(o) /\ UNCHANGED closing
<1> DEFINE mine == run[r].mine
           gone == IF run[r].other = mine THEN NULL ELSE run[r].other
<1>1. run[r] \in Run /\ RunKnows(run[r]) /\ RowsRead(run[r]) /\ run[r].pc = "write"
      /\ TypeOK /\ Tidy
  BY RunIs DEF Sound, DiaryTidy, WriteClosed, At
<1>2. o \in Orders /\ o # NULL /\ closing[o] # NULL /\ mine \in Open /\ mine \in RowIds /\ Present(mine)
  BY <1>1 DEF RunKnows, RowsRead, Run, Open
<1>3. row[mine].order = NULL /\ row[mine].open
  BY <1>1, <1>2 DEF Tidy, Open
<1>4. RowsOf(o) \subseteq {gone} /\ (gone # NULL => gone \in RowsOf(o))
  <2>1. mine \notin RowsOf(o)
    BY <1>2, <1>3 DEF RowsOf
  <2>2. RowsOf(o) \subseteq {mine, gone}
    BY DEF WriteClosed
  <2>3. run[r].other # NULL => run[r].other \in RowsOf(o)
    BY <1>1 DEF RowsRead
  <2> QED
    BY <2>1, <2>2, <2>3
<1>5. UNCHANGED closing
      /\ row' = [i \in RowIds |-> IF i = mine THEN ClosedBy(o)
                                 ELSE IF i = gone THEN NULL ELSE row[i]]
  BY DEF WriteClosed, exchange
<1>6. \A p \in Runs : run'[p].pc = "next"
  BY <1>1 DEF WriteClosed, Written, OneAtATime, TypeOK, Run
<1>7. ClosedBy(o) # NULL /\ ~ClosedBy(o).open /\ ClosedBy(o).order = o
  BY <1>1, <1>2, ClosedRow
<1>8. \A x : ClosedBy(x)' = ClosedBy(x)
  BY <1>5 DEF ClosedBy
<1> HIDE DEF gone, mine
<1>9. \A i \in RowIds : i # mine => row'[i] = NULL \/ (row'[i] = row[i] /\ ~row[i].open)
  BY <1>1, <1>2, <1>5 DEF Tidy, Open, Present
<1>10. Tidy'
  <2>1. Open' = {}
    BY <1>2, <1>5, <1>7, <1>9 DEF Open, Present
  <2>2. \A i \in RowIds : Present(i)' /\ i # mine =>
           Present(i) /\ ~row'[i].open /\ closing'[row'[i].order] # NULL
           /\ row'[i] = ClosedBy(row'[i].order)
    BY <1>1, <1>5, <1>9 DEF Tidy, Present
  <2>3. ~row'[mine].open /\ closing'[row'[mine].order] # NULL /\ row'[mine] = ClosedBy(row'[mine].order)
    BY <1>2, <1>5, <1>7
  <2> QED
    BY <1>8, <2>1, <2>2, <2>3 DEF Tidy
<1>11. Recorded(o)'
  <2>1. mine \in RowsOf(o)' /\ row'[mine] = ClosedBy(o)'
    BY <1>2, <1>5, <1>7, <1>8 DEF RowsOf, Present
  <2> QED
    BY <2>1 DEF Recorded
<1>12. Grows
  <2> SUFFICES ASSUME NEW x \in Orders, Recorded(x), x # o PROVE Recorded(x)'
    BY <1>11 DEF Grows
  <2>1. PICK i \in RowsOf(x) : row[i] = ClosedBy(x)
    BY DEF Recorded
  <2>2. i \in RowIds /\ Present(i) /\ row[i].order = x
    BY DEF RowsOf
  <2>3. i # mine /\ i # gone
    BY <1>3, <1>4, <2>2, SyncAssumption DEF RowsOf
  <2>4. row'[i] = row[i]
    BY <1>5, <2>2, <2>3
  <2>5. i \in RowsOf(x)' /\ row'[i] = ClosedBy(x)'
    BY <1>8, <2>1, <2>2, <2>4 DEF RowsOf, Present
  <2> QED
    BY <2>5 DEF Recorded
<1>13. DiaryTidy'
  BY <1>6, <1>10 DEF DiaryTidy, RowsRead
<1> QED
  BY <1>2, <1>5, <1>11, <1>12, <1>13 DEF Records

LEMMA UpsertTidy ==
    ASSUME OneAtATime, Sound, DiaryTidy, NEW r \in Runs, Sound', UpsertClosed(r),
           NEW o, o = run[r].rec
    PROVE  DiaryTidy' /\ Grows /\ Records(o) /\ UNCHANGED closing
<1>1. run[r] \in Run /\ RunKnows(run[r]) /\ RowsRead(run[r]) /\ run[r].pc = "upsert"
      /\ TypeOK /\ Tidy
  BY RunIs DEF Sound, DiaryTidy, UpsertClosed, At
<1>2. o \in Orders /\ o # NULL /\ closing[o] # NULL /\ Open = {}
  BY <1>1 DEF RunKnows, RowsRead, Run
<1>3. PICK i \in RowIds : /\ Present(i) => row[i].order = o
                          /\ row' = [row EXCEPT ![i] = ClosedBy(o)]
  BY DEF UpsertClosed, FreshRow, RowsOf
<1>4. UNCHANGED closing /\ \A x : ClosedBy(x)' = ClosedBy(x)
  BY DEF UpsertClosed, exchange, ClosedBy
<1>5. \A p \in Runs : run'[p].pc = "next"
  BY <1>1 DEF UpsertClosed, Written, OneAtATime, TypeOK, Run
<1>6. ClosedBy(o) # NULL /\ ~ClosedBy(o).open /\ ClosedBy(o).order = o
  BY <1>1, <1>2, ClosedRow
<1>7. row'[i] = ClosedBy(o) /\ \A j \in RowIds : j # i => row'[j] = row[j]
  BY <1>1, <1>3 DEF TypeOK
<1>8. Open' = {}
  BY <1>2, <1>6, <1>7 DEF Open, Present
<1>9. Tidy'
  BY <1>1, <1>2, <1>4, <1>6, <1>7, <1>8 DEF Tidy, Open, Present
<1>10. i \in RowsOf(o)' /\ row'[i] = ClosedBy(o)'
  BY <1>4, <1>6, <1>7 DEF RowsOf, Present
<1>11. Recorded(o)'
  BY <1>10 DEF Recorded
<1>12. Grows
  <2> SUFFICES ASSUME NEW x \in Orders, Recorded(x), x # o PROVE Recorded(x)'
    BY <1>11 DEF Grows
  <2>1. PICK j \in RowsOf(x) : row[j] = ClosedBy(x)
    BY DEF Recorded
  <2>2. j \in RowsOf(x)' /\ row'[j] = ClosedBy(x)'
    BY <1>3, <1>4, <1>7, <2>1 DEF RowsOf, Present
  <2> QED
    BY <2>2 DEF Recorded
<1>13. DiaryTidy'
  BY <1>5, <1>9 DEF DiaryTidy, RowsRead
<1> QED
  BY <1>2, <1>4, <1>11, <1>12, <1>13 DEF Records

LEMMA OpenWriteTidy ==
    ASSUME OneAtATime, Sound, DiaryTidy, NEW r \in Runs, Sound', WriteOpen(r)
    PROVE  DiaryTidy' /\ Grows /\ UNCHANGED closing
<1> DEFINE q == run[r]
<1>1. q \in Run /\ RunKnows(q) /\ RowsRead(q) /\ q.pc = "writeLive" /\ TypeOK /\ Tidy
  BY RunIs DEF Sound, DiaryTidy, WriteOpen, At
<1>2. PICK i \in RowIds : /\ Open \subseteq {i} /\ (Present(i) => i \in Open)
                          /\ row' = [row EXCEPT ![i] = row'[i]]
                          /\ row'[i] # NULL /\ row'[i].open /\ row'[i].order = NULL
  <2>1. CASE q.mine # NULL
    <3> DEFINE new == [row[q.mine] EXCEPT !.open = TRUE, !.trade = q.live]
    <3>1. q.mine \in Open /\ q.mine \in RowIds /\ row[q.mine].order = NULL /\ row[q.mine] \in Row
      BY <1>1, <2>1, RowsAre DEF RowsRead, Tidy, Open, Run
    <3>2. row' = [row EXCEPT ![q.mine] = new]
      BY <1>1, <2>1 DEF WriteOpen, TypeOK
    <3>3. q.live \in Trades
      BY <1>1 DEF RunKnows, Run
    <3>4. new \in Row /\ new.open /\ new.order = NULL
      BY <3>1, <3>3 DEF Row
    <3> HIDE DEF new
    <3>5. row'[q.mine] = new
      BY <1>1, <3>1, <3>2 DEF TypeOK
    <3> QED
      BY <1>1, <3>1, <3>2, <3>4, <3>5, SyncAssumption DEF Tidy
  <2>2. CASE q.mine = NULL
    <3> DEFINE new == [open |-> TRUE, order |-> NULL, trade |-> q.live]
    <3>1. PICK i \in RowIds : FreshRow(i) /\ row' = [row EXCEPT ![i] = new]
      BY <2>2 DEF WriteOpen
    <3>2. q.live \in Trades
      BY <1>1 DEF RunKnows, Run
    <3>3. new \in Row /\ new.open /\ new.order = NULL
      BY <3>2 DEF Row
    <3> HIDE DEF new
    <3>4. row'[i] = new /\ Open = {}
      BY <1>1, <2>2, <3>1 DEF TypeOK, RowsRead
    <3> QED
      BY <3>1, <3>3, <3>4, SyncAssumption DEF FreshRow
  <2> QED
    BY <2>1, <2>2
<1>3. UNCHANGED closing /\ \A x : ClosedBy(x)' = ClosedBy(x)
  BY DEF WriteOpen, exchange, ClosedBy
<1>4. \A p \in Runs : run'[p].pc = "collect"
  BY <1>1 DEF WriteOpen, OneAtATime, TypeOK, Run
<1>5. \A j \in RowIds : j # i => row'[j] = row[j]
  BY <1>1, <1>2 DEF TypeOK
<1>6. Open' = {i}
  BY <1>2, <1>5 DEF Open, Present
<1>7. Tidy'
  BY <1>1, <1>2, <1>3, <1>5, <1>6 DEF Tidy, Open, Present
<1>8. Grows
  <2> SUFFICES ASSUME NEW x \in Orders, Recorded(x) PROVE Recorded(x)'
    BY DEF Grows
  <2>1. PICK j \in RowsOf(x) : row[j] = ClosedBy(x)
    BY DEF Recorded
  <2>2. j \in RowIds /\ Present(j) /\ row[j].order = x /\ x # NULL
    BY <2>1, SyncAssumption DEF RowsOf
  <2>3. j # i
    BY <1>1, <1>2, <2>2 DEF Tidy, Open
  <2>4. j \in RowsOf(x)' /\ row'[j] = ClosedBy(x)'
    BY <1>3, <1>5, <2>1, <2>2, <2>3 DEF RowsOf, Present
  <2> QED
    BY <2>4 DEF Recorded
<1>9. DiaryTidy'
  BY <1>4, <1>7 DEF DiaryTidy, RowsRead
<1> QED
  BY <1>3, <1>8, <1>9

LEMMA StepTidy ==
    ASSUME OneAtATime, Sound, Sound', DiaryTidy, NEW r \in Runs, Step(r) \/ Fail(r)
    PROVE  DiaryTidy' /\ Grows /\ UNCHANGED closing
<1>1. CASE WriteClosed(r)
  BY <1>1, ClosedWriteTidy
<1>2. CASE UpsertClosed(r)
  BY <1>2, UpsertTidy
<1>3. CASE WriteOpen(r)
  BY <1>3, OpenWriteTidy
<1>4. CASE ~(WriteClosed(r) \/ UpsertClosed(r) \/ WriteOpen(r))
  <2>1. DiaryTidy' /\ UNCHANGED <<row, closing>>
    BY <1>4, ReadsTidy DEF Step, diary
  <2>2. Onward
    BY <2>1 DEF Onward
  <2> QED
    BY <2>1, <2>2, RowsSameGrows DEF DiaryTidy
<1> QED
  BY <1>1, <1>2, <1>3, <1>4

LEMMA NextTidy ==
    ASSUME OneAtATime, Sound, Sound', DiaryTidy, [Next]_vars
    PROVE  DiaryTidy' /\ Grows
<1>1. ASSUME UNCHANGED <<row, run>>, Onward PROVE DiaryTidy' /\ Grows
  BY <1>1, RowsSame, RowsSameGrows DEF DiaryTidy, RowsRead
<1>2. CASE Exchange
  BY <1>1, <1>2, ExchangeOnward DEF diary
<1>3. CASE User
  BY <1>1, <1>3 DEF User, AddPositionNote, RemovePositionNote, Onward, exchange
<1>4. CASE UNCHANGED vars
  BY <1>1, <1>4 DEF vars, Onward, exchange, diary
<1> QED
  BY <1>2, <1>3, <1>4, StepTidy DEF Next

LEMMA InitTidy == Init => DiaryTidy
<1> SUFFICES ASSUME Init PROVE DiaryTidy
  OBVIOUS
<1>1. \A i \in RowIds : ~Present(i)
  BY DEF Init, Present
<1>2. \A r \in Runs : run[r].pc = "idle"
  BY IdleIsRun DEF Init
<1> QED
  BY <1>1, <1>2 DEF DiaryTidy, Tidy, RowsRead, Open

\* There is never more than one open row, nor one with a closing's order on it, when the runs
\* of an account do not overlap: a closing finds the row its trade was tracked under
\* (syncClosedPnl, syncOpenPositions).
THEOREM OneOpenRowHolds == ASSUME OneAtATime PROVE Spec => []OneOpenRow
<1>1. Init => Sound /\ DiaryTidy
  BY InitSound, InitTidy
<1>2. Sound /\ DiaryTidy /\ [Next]_vars => Sound' /\ DiaryTidy'
  BY NextSound, NextTidy
<1>3. Sound /\ DiaryTidy => OneOpenRow
  BY DEF DiaryTidy, Tidy, OneOpenRow, Open
<1> QED
  BY <1>1, <1>2, <1>3, PTL DEF Spec

-----------------------------------------------------------------------------
(***************************************************************************)
(* The diary implements the book.                                          *)
(***************************************************************************)

LEMMA SameRecorded ==
    ASSUME Sound, Sound', Tidy, UNCHANGED row, Onward
    PROVE  \A o \in Orders : Recorded(o)' <=> Recorded(o)
<1>1. ASSUME NEW o \in Orders, Recorded(o)' PROVE Recorded(o)
  <2>1. RowsOf(o)' = RowsOf(o) /\ RowsOf(o)' # {}
    BY <1>1, RowsSame DEF Recorded
  <2> QED
    BY <2>1, InDiary DEF Sound
<1>2. ASSUME NEW o \in Orders, Recorded(o) PROVE Recorded(o)'
  BY <1>2, RowsSameGrows DEF Grows
<1> QED
  BY <1>1, <1>2

LEMMA OnlyClosed == ASSUME Sound, Tidy PROVE {o \in Orders : Recorded(o)} \subseteq {o \in Orders : closing[o] # NULL}
BY InDiary DEF Sound, Recorded

LEMMA ExchangeIsClosing ==
    ASSUME Sound, Sound', Tidy, Exchange
    PROVE  (\E c \in Orders : Book!Close(c)) \/ UNCHANGED Book!book
<1>1. Onward /\ UNCHANGED <<row, note>> /\ \A o \in Orders : Recorded(o)' <=> Recorded(o)
  BY ExchangeOnward, SameRecorded DEF diary
<1>2. {o \in Orders : Recorded(o)}' = {o \in Orders : Recorded(o)}
  BY <1>1
<1>3. {n \in Notes : note[n] # NULL}' = {n \in Notes : note[n] # NULL}
  BY <1>1
<1>4. CASE {o \in Orders : closing[o] # NULL}' = {o \in Orders : closing[o] # NULL}
  BY <1>1, <1>2, <1>3, <1>4 DEF Book!book
<1>5. CASE {o \in Orders : closing[o] # NULL}' # {o \in Orders : closing[o] # NULL}
  <2>1. \A o \in Orders : closing[o] # NULL => closing'[o] # NULL
    BY <1>1 DEF Onward
  <2>2. PICK o \in Orders : closing[o] = NULL /\ \E left \in {NULL, live} : CloseTrade(o, left)
    <3>1. PICK c \in Orders : closing[c] = NULL /\ closing'[c] # NULL
      BY <1>5, <2>1
    <3>2. closing' # closing
      BY <3>1
    <3>3. \A x \in Orders : ~ListClosing(x)
      BY <3>1 DEF ListClosing, Sound, TypeOK
    <3>4. ~Tick /\ \A tr \in Trades : ~OpenTrade(tr)
      BY <3>2 DEF Tick, OpenTrade, exchange
    <3>5. PICK x \in Orders : CloseTrade(x, NULL) \/ CloseTrade(x, live)
      BY <3>3, <3>4 DEF Exchange
    <3> QED
      BY <3>5 DEF CloseTrade
  <2>3. {x \in Orders : closing[x] # NULL}' = {x \in Orders : closing[x] # NULL} \cup {o}
    BY <1>5, <2>1, <2>2 DEF CloseTrade, Sound, TypeOK
  <2> QED
    BY <1>1, <1>2, <1>3, <2>2, <2>3 DEF Book!Close
<1> QED
  BY <1>4, <1>5

LEMMA UserKeepsBook ==
    ASSUME Sound, Sound', Tidy, User
    PROVE  \E n \in Notes : Book!AddNote(n) \/ Book!RemoveNote(n)
<1>1. UNCHANGED <<row, closing>>
  BY DEF User, AddPositionNote, RemovePositionNote, exchange
<1>2. {o \in Orders : Recorded(o)}' = {o \in Orders : Recorded(o)}
  BY <1>1, SameRecorded DEF Onward
<1>3. {o \in Orders : closing[o] # NULL}' = {o \in Orders : closing[o] # NULL}
  BY <1>1
<1>4. PICK n \in Notes : RemovePositionNote(n) \/ \E i \in RowIds : AddPositionNote(n, i)
  BY DEF User
<1>5. CASE RemovePositionNote(n)
  <2>1. {m \in Notes : note[m] # NULL}' = {m \in Notes : note[m] # NULL} \ {n}
    BY <1>5 DEF RemovePositionNote, Sound, TypeOK
  <2> QED
    BY <1>1, <1>2, <1>3, <2>1 DEF Book!RemoveNote
<1>6. ASSUME NEW i \in RowIds, AddPositionNote(n, i) PROVE Book!AddNote(n)
  <2> DEFINE new == [row |-> i, trade |-> row[i].trade]
  <2>1. new \in Note
    BY <1>6, RowsAre DEF AddPositionNote, Note, Row, Sound
  <2>2. note' = [note EXCEPT ![n] = new]
    BY <1>6 DEF AddPositionNote
  <2> HIDE DEF new
  <2>3. {m \in Notes : note[m] # NULL}' = {m \in Notes : note[m] # NULL} \cup {n}
    BY <2>1, <2>2, SyncAssumption DEF Sound, TypeOK
  <2> QED
    BY <1>1, <1>2, <1>3, <2>3 DEF Book!AddNote
<1> QED
  BY <1>4, <1>5, <1>6

\* A run keeps every note, moving those of a row it deletes.
LEMMA NotesStay ==
    ASSUME Sound, NEW r \in Runs, Step(r) \/ Fail(r), NEW n \in Notes
    PROVE  note'[n] # NULL <=> note[n] # NULL
<1>1. CASE WriteClosed(r)
  <2> DEFINE mine == run[r].mine
             gone == IF run[r].other = mine THEN NULL ELSE run[r].other
  <2>1. note'[n] = IF gone = NULL THEN note[n] ELSE NotesMoved(n, gone, mine)
    BY <1>1 DEF WriteClosed
  <2>2. note[n] # NULL => note[n] \in Note
    BY DEF Sound, TypeOK
  <2>3. mine \in RowIds
    BY <1>1, RunIs DEF WriteClosed, At, Sound, RunKnows, Run
  <2> HIDE DEF mine, gone
  <2>4. note[n] # NULL => [note[n] EXCEPT !.row = mine] \in Note
    BY <2>2, <2>3 DEF Note
  <2> QED
    BY <2>1, <2>4, SyncAssumption DEF NotesMoved
<1>2. CASE ~WriteClosed(r)
  <2>1. UNCHANGED note
    BY <1>2 DEF Step, Fail, ReadAccount, Begin, FetchClosed, FindOpenRow, FindConflicting,
         UpsertClosed, AdvanceCursor, FetchOpen, FindTracked, WriteOpen, Collect, Announce,
         AnnounceFails, Finish, diary
  <2> QED
    BY <2>1
<1> QED
  BY <1>1, <1>2

LEMMA RunKeepsBook ==
    ASSUME OneAtATime, Sound, Sound', DiaryTidy, NEW r \in Runs, Step(r) \/ Fail(r)
    PROVE  \E new \in SUBSET {o \in Orders : closing[o] # NULL} : Book!Rewrite(new)
<1> DEFINE new == {o \in Orders : Recorded(o)'}
<1>1. DiaryTidy' /\ Grows /\ UNCHANGED closing
  BY StepTidy
<1>2. new \subseteq {o \in Orders : closing[o] # NULL}
  <2>1. Tidy'
    BY <1>1 DEF DiaryTidy
  <2>2. ASSUME NEW o \in Orders, Recorded(o)' PROVE closing'[o] # NULL
    <3>1. PICK i \in RowIds : row'[i] # NULL /\ row'[i].order = o /\ row'[i] = ClosedBy(o)'
      BY <2>2 DEF Recorded, RowsOf, Present
    <3>2. ~row'[i].open
      BY <3>1 DEF ClosedBy
    <3> QED
      BY <2>1, <3>1, <3>2 DEF Tidy, Present
  <2> QED
    BY <1>1, <2>2
<1>3. {o \in Orders : Recorded(o)}' = {o \in Orders : Recorded(o)} \cup new
  BY <1>1 DEF Grows
<1>4. {n \in Notes : note[n] # NULL}' = {n \in Notes : note[n] # NULL}
  BY NotesStay
<1>5. {o \in Orders : closing[o] # NULL}' = {o \in Orders : closing[o] # NULL}
  BY <1>1
<1> HIDE DEF new
<1> QED
  BY <1>2, <1>3, <1>4, <1>5 DEF Book!Rewrite

\* The diary keeps the book it promises when the runs of an account do not overlap: a closing
\* it has it never loses, only closings are in it, and only the user removes a note
\* (syncClosedPnl).
THEOREM BookIsKept == ASSUME OneAtATime PROVE Spec => KeepsBook
<1>1. Init => Sound /\ DiaryTidy
  BY InitSound, InitTidy
<1>2. Sound /\ DiaryTidy /\ [Next]_vars => Sound' /\ DiaryTidy'
  BY NextSound, NextTidy
<1>3. Init => Book!Init
  BY DEF Init, Book!Init, Recorded, RowsOf, Present
<1>4. Sound /\ Sound' /\ DiaryTidy /\ [Next]_vars => [Book!Next]_(Book!book)
  <2> SUFFICES ASSUME Sound, Sound', DiaryTidy, [Next]_vars PROVE [Book!Next]_(Book!book)
    OBVIOUS
  <2>1. CASE UNCHANGED vars
    <3>1. UNCHANGED <<row, closing, note>>
      BY <2>1 DEF vars, exchange, diary
    <3>2. {o \in Orders : Recorded(o)}' = {o \in Orders : Recorded(o)}
      BY <3>1, SameRecorded DEF Onward, DiaryTidy
    <3> QED
      BY <3>1, <3>2 DEF Book!book
  <2>2. CASE Exchange
    BY <2>2, ExchangeIsClosing DEF Book!Next, DiaryTidy
  <2>3. CASE User
    BY <2>3, UserKeepsBook DEF Book!Next, DiaryTidy
  <2>4. ASSUME NEW r \in Runs, Step(r) \/ Fail(r) PROVE Book!Next
    BY <2>4, RunKeepsBook DEF Book!Next
  <2> QED
    BY <2>1, <2>2, <2>3, <2>4 DEF Next
<1> QED
  BY <1>1, <1>2, <1>3, <1>4, PTL DEF Spec, KeepsBook, Book!Spec

-----------------------------------------------------------------------------
(***************************************************************************)
(* Nothing is skipped: the cursor follows the windows, and the windows     *)
(* what the exchange lists.                                                *)
(***************************************************************************)

LEMMA Moments ==
    ASSUME TypeOK
    PROVE  /\ clock \in Nat /\ MaxTime \in Nat /\ Overlap \in Nat /\ clock <= MaxTime
           /\ account.cursor \in Nat \cup {NULL} /\ NULL \notin Nat
           /\ \A o \in Orders : closing[o] # NULL => closing[o].at \in Nat
           /\ \A r \in Runs : /\ run[r].now \in Nat /\ run[r].from \in Nat /\ run[r].to \in Nat
                             /\ run[r].seen.cursor \in Nat \cup {NULL}
BY SyncAssumption, ClosingsAre, RunIs DEF TypeOK, Time, Account, Closing, Run

\* The run has fetched the window it is in.
Writing == {"next", "conflict", "write", "upsert"}

LEMMA StaysCovered ==
    ASSUME OneAtATime, Sound, Sound', Covered, Grows, NEW r \in Runs,
           UNCHANGED <<clock, closing>>, account'.cursor = account.cursor,
           \/ run'[r].pc \notin Writing \cup {"begin", "fetch"}
           \/ /\ run[r].pc \in Writing /\ run'[r].pc \in Writing
              /\ run'[r].now = run[r].now /\ run'[r].from = run[r].from /\ run'[r].to = run[r].to
              /\ \A o \in Orders : Recorded(o) \/ o \in run[r].todo => Recorded(o)' \/ o \in run'[r].todo
    PROVE  Covered'
<1>1. \A p \in Runs : p = r
  BY DEF OneAtATime
<1>2. \A o, t : Due(o, t)' <=> Due(o, t)
  BY DEF Due
<1>3. \A t : Past(t)' <=> Past(t)
  BY DEF Past
<1>4. NothingSkipped'
  BY DEF NothingSkipped, Grows, Covered
<1>5. Covers(run[r])'
  <2>1. CASE run'[r].pc \notin Writing \cup {"begin", "fetch"}
    BY <2>1 DEF Covers, Writing
  <2>2. CASE /\ run[r].pc \in Writing /\ run'[r].pc \in Writing
             /\ run'[r].now = run[r].now /\ run'[r].from = run[r].from /\ run'[r].to = run[r].to
             /\ \A o \in Orders : Recorded(o) \/ o \in run[r].todo => Recorded(o)' \/ o \in run'[r].todo
    <3>1. Covers(run[r])
      BY DEF Covered
    <3>2. Past(run[r].now)' /\ run'[r].to <= run'[r].now
      BY <2>2, <3>1 DEF Covers, Writing, Past
    <3>3. ASSUME NEW o \in Orders, Due(o, run[r].now)'
          PROVE  /\ closing'[o].listed
                 /\ closing'[o].at < run'[r].from => Recorded(o)'
                 /\ closing'[o].at <= run'[r].to => Recorded(o)' \/ o \in run'[r].todo
      <4>1. Due(o, run[r].now)
        BY <2>2, <3>3 DEF Due
      <4> QED
        BY <2>2, <3>1, <4>1 DEF Covers, Writing, Grows
    <3> QED
      BY <2>2, <3>2, <3>3 DEF Covers, Writing
  <2> QED
    BY <2>1, <2>2
<1> QED
  BY <1>1, <1>3, <1>4, <1>5 DEF Covered

\* Time passes and closings appear, none of them in the past.
LEMMA OutsideCovered ==
    ASSUME Sound, Sound', Covered, Grows, UNCHANGED <<run, account>>,
           \/ Exchange
           \/ UNCHANGED <<clock, closing>>
    PROVE  Covered'
<1>1. clock' = clock \/ clock' = clock + 1
  BY DEF Exchange, Tick, OpenTrade, CloseTrade, ListClosing
<1>2. \A t \in Nat : Past(t) => Past(t)'
  BY <1>1, Moments DEF Past, Sound, TypeOK, Time
<1>3. ASSUME NEW o \in Orders, NEW t \in Nat, Past(t), Due(o, t)'
      PROVE  Due(o, t) /\ closing'[o].at = closing[o].at /\ (closing[o].listed => closing'[o].listed)
  <2>1. CASE closing'[o] = closing[o]
    BY <1>3, <2>1 DEF Due
  <2>2. CASE closing'[o] # closing[o]
    <3>1. PICK x \in Orders : CloseTrade(x, NULL) \/ CloseTrade(x, live) \/ ListClosing(x)
      BY <2>2 DEF Exchange, Tick, OpenTrade, exchange
    <3>2. x = o
      BY <2>2, <3>1 DEF CloseTrade, ListClosing, Sound, TypeOK
    <3>3. CASE CloseTrade(o, NULL) \/ CloseTrade(o, live)
      <4>1. closing'[o].at = clock /\ clock < MaxTime
        BY <3>3 DEF CloseTrade, Sound, TypeOK
      <4>2. clock + Overlap <= t
        BY <1>3, <4>1 DEF Due
      <4> QED
        BY <1>3, <4>1, <4>2, Moments DEF Past, Sound
    <3>4. CASE ListClosing(o)
      <4> DEFINE was == clock > closing[o].at
      <4>1. closing' = [closing EXCEPT ![o] = [closing[o] EXCEPT !.listed = TRUE, !.late = was]]
        BY <3>4 DEF ListClosing
      <4>2. closing[o] \in Closing
        BY <3>4, ClosingsAre DEF ListClosing, Sound
      <4> HIDE DEF was
      <4>3. closing'[o] = [closing[o] EXCEPT !.listed = TRUE, !.late = was]
        BY <4>1 DEF Sound, TypeOK
      <4>4. closing'[o].at = closing[o].at /\ closing'[o].listed
        BY <4>2, <4>3 DEF Closing
      <4> QED
        BY <1>3, <3>4, <4>4 DEF Due, ListClosing
    <3> QED
      BY <3>1, <3>2, <3>3, <3>4
  <2> QED
    BY <2>1, <2>2
<1>4. account.cursor # NULL => Past(account.cursor)'
  BY <1>2, Moments DEF Covered, Sound
<1>5. NothingSkipped'
  <2> SUFFICES ASSUME NEW o \in Orders, account.cursor # NULL, Due(o, account.cursor)'
               PROVE  Recorded(o)'
    BY DEF NothingSkipped, Due
  <2>1. Due(o, account.cursor)
    BY <1>3, Moments DEF Covered, Sound
  <2> QED
    BY <2>1 DEF Due, Covered, NothingSkipped, Grows
<1>6. ASSUME NEW r \in Runs PROVE Covers(run[r])'
  <2>1. Covers(run[r]) /\ run[r].now \in Nat
    BY Moments DEF Covered, Sound
  <2>2. CASE run[r].pc \in Writing \cup {"fetch"}
    <3>1. Past(run[r].now) /\ Past(run[r].now)' /\ run[r].to <= run[r].now
      BY <1>2, <2>1, <2>2 DEF Covers, Writing
    <3>2. ASSUME NEW o \in Orders, Due(o, run[r].now)'
          PROVE  /\ closing'[o].listed
                 /\ closing'[o].at < run[r].from => Recorded(o)'
                 /\ run[r].pc # "fetch" /\ closing'[o].at <= run[r].to => Recorded(o)' \/ o \in run[r].todo
      BY <1>3, <2>1, <2>2, <3>1, <3>2 DEF Covers, Writing, Grows
    <3> QED
      BY <2>2, <3>1, <3>2 DEF Covers, Writing
  <2>3. CASE run[r].pc \notin Writing \cup {"fetch"}
    BY <2>1, <2>3 DEF Covers, Writing
  <2> QED
    BY <2>2, <2>3
<1> QED
  BY <1>4, <1>5, <1>6 DEF Covered

LEMMA BeginCovered ==
    ASSUME OneAtATime, Sound, Sound', Covered, Grows, NEW r \in Runs, Begin(r)
    PROVE  Covered'
<1> DEFINE had == [run[r] EXCEPT !.now = clock]
           start == WindowStart(run[r].seen.cursor)
<1>1. run[r] \in Run /\ run[r].seen.cursor = account.cursor /\ UNCHANGED <<closing, account>>
  BY RunIs DEF Begin, At, Covered, Covers, Sound, exchange
<1>2. had \in Run /\ had.now = clock /\ RunKnows(had) /\ start \in Time
  BY <1>1, WindowsStart DEF Sound, TypeOK, Run, RunKnows, Account
<1>3. run'[r] = OpenWindow(had, start)
  BY DEF Begin, Sound, TypeOK
<1> HIDE DEF had
<1>4. /\ run'[r].pc \in {"fetch", "snapshot"} /\ run'[r].now = clock
      /\ run'[r].pc = "fetch" => run'[r].from = start /\ run'[r].to <= clock
  BY <1>2, <1>3, WindowOpens
<1>5. clock' = clock + 1 \/ (clock' = MaxTime /\ clock = MaxTime)
  BY Moments DEF Begin, Least, Sound
<1>6. \A t \in Nat : t <= clock => Past(t)'
  BY <1>5, Moments DEF Past, Sound
<1>7. NothingSkipped' /\ (account'.cursor # NULL => Past(account.cursor)')
  <2>1. account.cursor # NULL => account.cursor <= clock
    BY Moments DEF Covered, Past, Sound, TypeOK, Account, Time
  <2> QED
    BY <1>1, <1>6, <2>1, Moments DEF Covered, NothingSkipped, Grows, Sound, Past
<1>8. ASSUME run'[r].pc = "fetch", NEW o \in Orders, closing[o] # NULL,
             closing[o].at + Overlap <= clock
      PROVE  closing[o].listed /\ (closing[o].at < start => Recorded(o)')
  <2>1. closing[o].at \in Nat /\ Lateness \in Nat /\ Lateness <= Overlap
    BY <1>8, Moments, SyncAssumption DEF Sound
  <2>2. closing[o].listed
    <3>1. ~(clock < closing[o].at + Lateness)
      BY <1>8, <2>1, Moments DEF Sound
    <3> QED
      BY <1>8, <3>1 DEF Begin, AllListed
  <2>3. ASSUME closing[o].at < start PROVE Recorded(o)'
    <3>1. account.cursor # NULL /\ closing[o].at + Overlap <= account.cursor
      BY <1>1, <2>1, <2>3, Moments DEF WindowStart, Sound
    <3> QED
      BY <1>8, <3>1 DEF Covered, NothingSkipped, Grows
  <2> QED
    BY <2>2, <2>3
<1>9. Covers(run[r])'
  <2>1. CASE run'[r].pc = "fetch"
    <3>1. Past(run[r].now)' /\ run'[r].to <= run'[r].now
      BY <1>4, <1>6, <2>1, Moments DEF Sound, Past
    <3>2. ASSUME NEW o \in Orders, Due(o, run[r].now)'
          PROVE  closing'[o].listed /\ (closing'[o].at < run'[r].from => Recorded(o)')
      BY <1>1, <1>4, <1>8, <2>1, <3>2 DEF Due
    <3> QED
      BY <2>1, <3>1, <3>2 DEF Covers
  <2>2. CASE run'[r].pc = "snapshot"
    BY <2>2 DEF Covers
  <2> QED
    BY <1>4, <2>1, <2>2
<1> QED
  BY <1>7, <1>9 DEF Covered, OneAtATime

LEMMA FetchCovered ==
    ASSUME OneAtATime, Sound, Sound', Covered, Grows, NEW r \in Runs, FetchClosed(r)
    PROVE  Covered'
<1> DEFINE todo == {o \in Orders : /\ closing[o] # NULL /\ closing[o].listed
                                   /\ run[r].from <= closing[o].at
                                   /\ closing[o].at <= run[r].to}
<1>1. run[r] \in Run /\ run[r].pc = "fetch" /\ Covers(run[r]) /\ UNCHANGED <<clock, closing, account>>
  BY RunIs DEF FetchClosed, At, Covered, Sound, exchange
<1>2. run'[r] = [run[r] EXCEPT !.pc = "next", !.todo = todo]
  BY DEF FetchClosed, Sound, TypeOK
<1> HIDE DEF todo
<1>3. /\ run'[r].pc = "next" /\ run'[r].todo = todo
      /\ run'[r].now = run[r].now /\ run'[r].from = run[r].from /\ run'[r].to = run[r].to
  BY <1>1, <1>2 DEF Run
<1>4. Past(run[r].now)' /\ run'[r].to <= run'[r].now
  BY <1>1, <1>3 DEF Covers, Past
<1>5. ASSUME NEW o \in Orders, Due(o, run[r].now)'
      PROVE  /\ closing'[o].listed
             /\ closing'[o].at < run'[r].from => Recorded(o)'
             /\ closing'[o].at <= run'[r].to => Recorded(o)' \/ o \in run'[r].todo
  <2>1. Due(o, run[r].now) /\ closing[o] # NULL
    BY <1>1, <1>3, <1>5 DEF Due
  <2>2. closing[o].listed /\ (closing[o].at < run[r].from => Recorded(o)')
    BY <1>1, <2>1 DEF Covers, Grows
  <2>3. closing[o].at \in Nat /\ run[r].from \in Nat
    BY <2>1, Moments DEF Sound
  <2> QED
    BY <1>1, <1>3, <2>1, <2>2, <2>3 DEF todo
<1>6. Covers(run[r])'
  BY <1>3, <1>4, <1>5 DEF Covers
<1>7. NothingSkipped' /\ (account'.cursor # NULL => Past(account.cursor)')
  BY <1>1 DEF Covered, NothingSkipped, Grows, Past
<1> QED
  BY <1>6, <1>7 DEF Covered, OneAtATime

\* Everything in the window is done: the cursor may follow it.
LEMMA AdvanceCovered ==
    ASSUME OneAtATime, Sound, Sound', Covered, Grows, NEW r \in Runs, AdvanceCursor(r)
    PROVE  Covered'
<1>1. /\ run[r] \in Run /\ run[r].pc = "next" /\ run[r].todo = {} /\ Covers(run[r])
      /\ RunKnows(run[r]) /\ run[r].to \in Time /\ UNCHANGED <<clock, closing>>
  BY RunIs DEF AdvanceCursor, At, Covered, Sound, Run, exchange
<1>2. account'.cursor = run[r].to
  BY DEF AdvanceCursor, CursorAfter, Sound, TypeOK, Account
<1>3. run'[r] = OpenWindow(run[r], run[r].to)
  BY DEF AdvanceCursor, Sound, TypeOK
<1>4. /\ run'[r].pc \in {"fetch", "snapshot"} /\ run'[r].now = run[r].now
      /\ run'[r].pc = "fetch" => run'[r].from = run[r].to /\ run'[r].to <= run[r].now
  BY <1>1, <1>3, WindowOpens
<1>5. run[r].to <= run[r].now /\ Past(run[r].now)
  BY <1>1 DEF Covers
<1>6. ASSUME NEW o \in Orders, Due(o, run[r].now), closing[o].at <= run[r].to
      PROVE  Recorded(o)'
  BY <1>1, <1>6 DEF Covers, Grows
<1>7. NothingSkipped'
  <2> SUFFICES ASSUME NEW o \in Orders, closing[o] # NULL, closing[o].at + Overlap <= run[r].to
               PROVE  Recorded(o)'
    BY <1>1, <1>2 DEF NothingSkipped
  <2>1. closing[o].at <= run[r].to /\ closing[o].at + Overlap <= run[r].now
    BY <1>5, Moments DEF Sound
  <2> QED
    BY <1>6, <2>1 DEF Due
<1>8. Past(account.cursor)'
  BY <1>1, <1>2, <1>5, Moments DEF Past, Sound
<1>9. Covers(run[r])'
  <2>1. CASE run'[r].pc = "fetch"
    <3>1. Past(run[r].now)' /\ run'[r].to <= run'[r].now
      BY <1>1, <1>4, <1>5, <2>1 DEF Past
    <3>2. ASSUME NEW o \in Orders, Due(o, run[r].now)'
          PROVE  closing'[o].listed /\ (closing'[o].at < run'[r].from => Recorded(o)')
      <4>1. Due(o, run[r].now) /\ closing[o] # NULL
        BY <1>1, <1>4, <3>2 DEF Due
      <4>2. closing[o].at \in Nat /\ run[r].to \in Nat
        BY <4>1, Moments DEF Sound
      <4>3. closing[o].at < run[r].to => closing[o].at <= run[r].to
        BY <4>2
      <4>4. closing[o].listed
        BY <1>1, <4>1 DEF Covers
      <4> QED
        BY <1>1, <1>4, <1>6, <2>1, <4>1, <4>3, <4>4
    <3> QED
      BY <2>1, <3>1, <3>2 DEF Covers
  <2>2. CASE run'[r].pc = "snapshot"
    BY <2>2 DEF Covers
  <2> QED
    BY <1>4, <2>1, <2>2
<1> QED
  BY <1>7, <1>8, <1>9 DEF Covered, OneAtATime

LEMMA StepCovered ==
    ASSUME OneAtATime, Sound, Sound', DiaryTidy, Covered, NEW r \in Runs, Step(r) \/ Fail(r)
    PROVE  Covered'
<1>1. run[r] \in Run /\ run \in [Runs -> Run] /\ run' \in [Runs -> Run] /\ Grows /\ UNCHANGED closing
  BY RunIs, StepTidy DEF Sound, TypeOK
<1>2. CASE Begin(r) \/ FetchClosed(r) \/ AdvanceCursor(r)
  BY <1>1, <1>2, BeginCovered, FetchCovered, AdvanceCovered
<1>3. CASE ReadAccount(r)
  <2>1. run'[r].pc = "begin" /\ run'[r].seen = account /\ UNCHANGED <<clock, closing, account>>
    <3>1. /\ [Idle EXCEPT !.pc = "begin", !.seen = account].pc = "begin"
          /\ [Idle EXCEPT !.pc = "begin", !.seen = account].seen = account
      BY IdleIsRun DEF Run
    <3> QED
      BY <1>1, <1>3, <3>1 DEF ReadAccount
  <2>2. Covers(run[r])'
    BY <2>1 DEF Covers
  <2> QED
    BY <1>1, <2>1, <2>2 DEF Covered, NothingSkipped, Grows, Past, OneAtATime
<1>4. ASSUME NEW o \in Orders, FindOpenRow(r, o) PROVE Covered'
  <2>1. \E i \in RowIds \cup {NULL} : \E pc \in {"conflict", "upsert"} :
           run'[r] = [run[r] EXCEPT !.pc = pc, !.rec = o, !.mine = i]
    <3>1. CASE \E i \in Open : run' = [run EXCEPT ![r].pc = "conflict", ![r].rec = o, ![r].mine = i]
      BY <1>1, <3>1 DEF Open
    <3>2. CASE run' = [run EXCEPT ![r].pc = "upsert", ![r].rec = o]
      <4>1. run'[r] = [run[r] EXCEPT !.pc = "upsert", !.rec = o]
        BY <1>1, <3>2
      <4>2. run'[r] = [run[r] EXCEPT !.pc = "upsert", !.rec = o, !.mine = run[r].mine]
        BY <1>1, <4>1 DEF Run
      <4> QED
        BY <1>1, <4>2 DEF Run
    <3> QED
      BY <1>4, <3>1, <3>2 DEF FindOpenRow
  <2>2. /\ run'[r].pc \in {"conflict", "upsert"} /\ run'[r].todo = run[r].todo
        /\ run'[r].now = run[r].now /\ run'[r].from = run[r].from /\ run'[r].to = run[r].to
    BY <1>1, <2>1 DEF Run
  <2>3. run[r].pc = "next" /\ UNCHANGED <<clock, closing, account>>
    BY <1>4 DEF FindOpenRow, At, exchange
  <2> QED
    BY <1>1, <2>2, <2>3, StaysCovered DEF Writing, Grows
<1>5. CASE FindConflicting(r)
  <2>1. PICK i : run' = [run EXCEPT ![r].pc = "write", ![r].other = i]
    BY <1>5 DEF FindConflicting
  <2>2. run'[r] = [run[r] EXCEPT !.pc = "write", !.other = i]
    BY <1>1, <2>1
  <2>3. /\ run'[r].pc = "write" /\ run'[r].todo = run[r].todo
        /\ run'[r].now = run[r].now /\ run'[r].from = run[r].from /\ run'[r].to = run[r].to
    BY <1>1, <2>2 DEF Run
  <2>4. run[r].pc = "conflict" /\ UNCHANGED <<clock, closing, account>>
    BY <1>5 DEF FindConflicting, At, exchange
  <2> QED
    BY <1>1, <2>3, <2>4, StaysCovered DEF Writing, Grows
<1>6. CASE WriteClosed(r) \/ UpsertClosed(r)
  <2>1. PICK o : o = run[r].rec
    OBVIOUS
  <2>2. Recorded(o)'
    BY <1>6, <2>1, ClosedWriteTidy, UpsertTidy DEF Records
  <2>3. Written(r) /\ run[r].pc \in {"write", "upsert"} /\ UNCHANGED <<clock, closing, account>>
    BY <1>6 DEF WriteClosed, UpsertClosed, At, exchange
  <2>4. run'[r] = [run[r] EXCEPT !.pc = "next", !.todo = @ \ {o},
                                 !.rec = NULL, !.mine = NULL, !.other = NULL]
    BY <1>1, <2>1, <2>3 DEF Written
  <2>5. /\ run'[r].pc = "next" /\ run'[r].todo = run[r].todo \ {o}
        /\ run'[r].now = run[r].now /\ run'[r].from = run[r].from /\ run'[r].to = run[r].to
    BY <1>1, <2>4 DEF Run
  <2> QED
    BY <1>1, <2>2, <2>3, <2>5, StaysCovered DEF Writing, Grows
<1>7. CASE \/ FetchOpen(r) \/ FindTracked(r) \/ WriteOpen(r) \/ Collect(r) \/ Finish(r) \/ Fail(r)
           \/ \E news \in run[r].news : Announce(r, news) \/ AnnounceFails(r, news)
  <2>1. run'[r].pc \notin Writing \cup {"begin", "fetch"}
    <3>1. CASE FetchOpen(r) \/ FindTracked(r) \/ WriteOpen(r) \/ Collect(r)
      <4>1. run'[r].pc \in {"collect", "findLive", "writeLive", "tell"}
        BY <1>1, <3>1 DEF FetchOpen, FindTracked, WriteOpen, Collect, Run
      <4> QED
        BY <4>1 DEF Writing
    <3>2. CASE Finish(r) \/ Fail(r)
      BY <1>1, <3>2, IdleIsRun DEF Finish, Fail, Writing
    <3>3. ASSUME NEW news \in run[r].news, Announce(r, news) \/ AnnounceFails(r, news)
          PROVE  run'[r].pc = "tell"
      <4>1. run[r].pc = "tell" /\ run'[r] = [run[r] EXCEPT !.news = @ \ {news}]
        BY <1>1, <3>3 DEF Announce, AnnounceFails, At
      <4> QED
        BY <1>1, <4>1 DEF Run
    <3> QED
      BY <1>7, <3>1, <3>2, <3>3 DEF Writing
  <2>2. UNCHANGED <<clock, closing>> /\ account'.cursor = account.cursor
    BY <1>7 DEF FetchOpen, FindTracked, WriteOpen, Collect, Finish, Fail, Announce, AnnounceFails,
         exchange, Sound, TypeOK, Account
  <2> QED
    BY <1>1, <2>1, <2>2, StaysCovered
<1> QED
  BY <1>2, <1>3, <1>4, <1>5, <1>6, <1>7 DEF Step

LEMMA NextCovered ==
    ASSUME OneAtATime, Sound, Sound', DiaryTidy, Covered, [Next]_vars PROVE Covered'
<1>1. Grows
  BY NextTidy
<1>2. CASE Exchange
  BY <1>1, <1>2, ExchangeOnward, OutsideCovered
<1>3. CASE User \/ UNCHANGED vars
  <2>1. UNCHANGED <<run, account, clock, closing>>
    BY <1>3 DEF User, AddPositionNote, RemovePositionNote, vars, exchange
  <2> QED
    BY <1>1, <2>1, OutsideCovered
<1> QED
  BY <1>2, <1>3, StepCovered DEF Next

LEMMA InitCovered == Init => Covered
<1> SUFFICES ASSUME Init PROVE Covered
  OBVIOUS
<1>1. account.cursor = NULL
  BY DEF Init, NeverSynced
<1>2. \A r \in Runs : run[r].pc = "idle"
  BY IdleIsRun DEF Init
<1> QED
  BY <1>1, <1>2 DEF Covered, NothingSkipped, Covers

\* Whatever closed further behind the cursor than the overlap is in the diary, for any window
\* and any overlap that covers the exchange's lateness, wherever runs die (syncClosedPnl).
THEOREM NothingIsSkipped == ASSUME OneAtATime PROVE Spec => []NothingSkipped
<1>1. Init => Sound /\ DiaryTidy /\ Covered
  BY InitSound, InitTidy, InitCovered
<1>2. Sound /\ DiaryTidy /\ Covered /\ [Next]_vars => Sound' /\ DiaryTidy' /\ Covered'
  BY NextSound, NextTidy, NextCovered
<1>3. Covered => NothingSkipped
  BY DEF Covered
<1> QED
  BY <1>1, <1>2, <1>3, PTL DEF Spec

-----------------------------------------------------------------------------
(***************************************************************************)
(* Each closing is announced once.  What the exchange lists at once is in  *)
(* the diary of the run that begins after it, so that it is among the news *)
(* of that run, unless an earlier one has announced it.                    *)
(***************************************************************************)

Windows == Writing \cup {"fetch"}
Later == {"snapshot", "findLive", "writeLive", "collect", "tell"}

Prompt(o) == closing[o] # NULL /\ closing[o].listed /\ ~closing[o].late

Timely ==
    /\ clock >= 1
    /\ \A o \in Orders : closing[o] # NULL =>
          /\ closing[o].at <= clock /\ closing[o].at < MaxTime
          /\ Recorded(o) => closing[o].at < clock

PromptsIn ==
    account.cursor # NULL =>
       \A o \in Orders : Prompt(o) /\ closing[o].at <= account.cursor => Recorded(o)

\* What a run records closed before it began; and of what was listed at once it skips nothing.
InTime(q) ==
    /\ q.pc \in Windows \cup Later =>
          /\ Past(q.now)
          /\ \A o \in Orders : Recorded(o) => closing[o].at <= q.now
    /\ q.pc \in Writing => \A o \in q.todo : closing[o].at <= q.now
    /\ q.pc \in {"conflict", "write", "upsert"} => q.rec \in q.todo
    /\ \A o \in Orders : Prompt(o) /\ closing[o].at <= q.now =>
          /\ q.pc \in Windows /\ closing[o].at < q.from => Recorded(o)
          /\ q.pc \in Writing /\ closing[o].at <= q.to => Recorded(o) \/ o \in q.todo
          /\ q.pc \in Later => Recorded(o)

Prompted == Timely /\ PromptsIn /\ \A r \in Runs : InTime(run[r])

OneRowEach ==
    \A i, j \in RowIds :
       Present(i) /\ Present(j) /\ row[i].order # NULL /\ row[i].order = row[j].order => i = j

Syncs ==
    /\ since = NULL <=> account.lastSync = NULL
    /\ since # NULL => since <= account.lastSync /\ Past(account.lastSync)

\* The news of a run are closed rows, of what closed after the last run; all that is to be told is
\* among them.
Telling(q) ==
    /\ q.pc # "idle" => q.seen.lastSync = account.lastSync
    /\ q.pc \in Windows \cup Later /\ account.lastSync # NULL => account.lastSync <= q.now
    /\ q.pc = "tell" =>
          /\ \A n \in q.news :
                /\ account.lastSync # NULL /\ closing[n.order].at > account.lastSync
                /\ Present(n.row) /\ ~row[n.row].open /\ row[n.row].order = n.order
          /\ account.lastSync # NULL =>
                \A o \in Orders :
                   /\ Prompt(o) /\ closing[o].at > account.lastSync /\ closing[o].at <= q.now
                   => told[o] > 0 \/ "unsent" \in mishaps \/ \E n \in q.news : n.order = o

\* The run in progress has announced it.
ToldNow(o) == \E r \in Runs : run[r].pc = "tell" /\ \A n \in run[r].news : n.order # o

Told ==
    /\ \A o \in Orders : told[o] > 0 =>
          /\ since # NULL
          /\ "interrupted" \in mishaps \/ closing[o].at <= account.lastSync \/ ToldNow(o)
    /\ \A i \in notified : Present(i) => ~row[i].open /\ told[row[i].order] > 0

Announcing == OneRowEach /\ Syncs /\ Told /\ AnnouncedOnce /\ \A r \in Runs : Telling(run[r])

LEMMA Times ==
    ASSUME TypeOK
    PROVE  /\ clock \in Nat /\ MaxTime \in Nat /\ clock <= MaxTime /\ NULL \notin Nat
           /\ account.cursor \in Nat \cup {NULL} /\ account.lastSync \in Nat \cup {NULL}
           /\ since \in Nat \cup {NULL}
           /\ \A o \in Orders : told[o] \in Nat /\ (closing[o] # NULL => closing[o].at \in Nat)
           /\ \A r \in Runs : run[r].now \in Nat /\ run[r].now <= MaxTime
                             /\ run[r].from \in Nat /\ run[r].to \in Nat
BY SyncAssumption, ClosingsAre, RunIs DEF TypeOK, Time, Account, Closing, Run

\* What the exchange does to a closing.
LEMMA ClosingMoves ==
    ASSUME Sound, Exchange, NEW o \in Orders
    PROVE  \/ closing'[o] = closing[o]
           \/ /\ closing[o] = NULL /\ closing'[o] # NULL /\ closing'[o].at = clock /\ clock < MaxTime
              /\ ~closing'[o].listed /\ clock' = clock
           \/ /\ closing[o] # NULL /\ closing'[o] # NULL /\ closing'[o].at = closing[o].at
              /\ ~closing[o].listed /\ closing'[o].listed /\ clock' = clock
              /\ closing'[o].late <=> clock > closing[o].at
<1>1. CASE closing'[o] = closing[o]
  BY <1>1
<1>2. CASE closing'[o] # closing[o]
  <2>1. PICK x \in Orders : CloseTrade(x, NULL) \/ CloseTrade(x, live) \/ ListClosing(x)
    BY <1>2 DEF Exchange, Tick, OpenTrade, exchange
  <2>2. x = o
    BY <1>2, <2>1 DEF CloseTrade, ListClosing, Sound, TypeOK
  <2>3. CASE CloseTrade(o, NULL) \/ CloseTrade(o, live)
    <3> DEFINE c == [trade |-> live, at |-> clock, listed |-> FALSE, late |-> FALSE]
    <3>1. closing' = [closing EXCEPT ![o] = c] /\ live \in Trades /\ closing[o] = NULL
          /\ clock < MaxTime /\ clock' = clock
      BY <2>3 DEF CloseTrade, Sound, TypeOK
    <3>2. c \in Closing
      BY <3>1 DEF Sound, TypeOK, Closing, Time
    <3>3. closing'[o] = c
      BY <3>1 DEF Sound, TypeOK
    <3>4. closing'[o] # NULL
      BY <3>2, <3>3, SyncAssumption
    <3> QED
      BY <3>1, <3>3, <3>4
  <2>4. CASE ListClosing(o)
    <3> DEFINE was == clock > closing[o].at
               c == [closing[o] EXCEPT !.listed = TRUE, !.late = was]
    <3>1. closing' = [closing EXCEPT ![o] = c] /\ closing[o] # NULL /\ ~closing[o].listed /\ clock' = clock
      BY <2>4 DEF ListClosing
    <3>2. closing[o] \in Closing /\ was \in BOOLEAN
      BY <3>1, ClosingsAre DEF Sound
    <3> HIDE DEF was
    <3>3. c \in Closing /\ c.at = closing[o].at /\ c.listed /\ c.late = was
      BY <3>2 DEF Closing
    <3>4. closing'[o] = c
      BY <3>1 DEF Sound, TypeOK
    <3> HIDE DEF c
    <3>5. closing'[o] # NULL
      BY <3>3, <3>4, SyncAssumption
    <3> QED
      BY <3>1, <3>3, <3>4, <3>5 DEF was
  <2> QED
    BY <2>1, <2>2, <2>3, <2>4
<1> QED
  BY <1>1, <1>2

\* Time goes on and closings appear: none of what is listed at once is in the past.
LEMMA OutsideMoves ==
    ASSUME Sound, Timely, Exchange
    PROVE  /\ clock' >= clock /\ \A t \in Nat : Past(t) => Past(t)'
           /\ \A o \in Orders :
                 /\ closing[o] # NULL => closing'[o] # NULL /\ closing'[o].at = closing[o].at
                 /\ closing'[o] # NULL => closing'[o].at <= clock' /\ closing'[o].at < MaxTime
                 /\ \A t \in Nat : Prompt(o)' /\ closing'[o].at <= t /\ Past(t) => Prompt(o)
<1>1. clock' = clock \/ (clock' = clock + 1 /\ clock < MaxTime)
  BY DEF Exchange, Tick, OpenTrade, CloseTrade, ListClosing
<1>2. clock' >= clock /\ clock' \in Nat /\ clock \in Nat
  BY <1>1, Times DEF Sound
<1>3. \A t \in Nat : Past(t) => Past(t)'
  BY <1>1, Times DEF Past, Sound
<1>4. ASSUME NEW o \in Orders
      PROVE  /\ closing[o] # NULL => closing'[o] # NULL /\ closing'[o].at = closing[o].at
             /\ closing'[o] # NULL => closing'[o].at <= clock' /\ closing'[o].at < MaxTime
             /\ \A t \in Nat : Prompt(o)' /\ closing'[o].at <= t /\ Past(t) => Prompt(o)
  <2>1. closing[o] # NULL => closing[o].at \in Nat /\ closing[o].at <= clock /\ closing[o].at < MaxTime
    BY Times DEF Sound, Timely
  <2>2. CASE closing'[o] = closing[o]
    BY <1>2, <2>1, <2>2 DEF Prompt
  <2>3. CASE /\ closing[o] = NULL /\ closing'[o] # NULL /\ closing'[o].at = clock /\ clock < MaxTime
             /\ ~closing'[o].listed /\ clock' = clock
    BY <1>2, <2>3 DEF Prompt
  <2>4. CASE /\ closing[o] # NULL /\ closing'[o] # NULL /\ closing'[o].at = closing[o].at
             /\ ~closing[o].listed /\ closing'[o].listed /\ clock' = clock
             /\ closing'[o].late <=> clock > closing[o].at
    <3>1. ASSUME NEW t \in Nat, Prompt(o)', closing'[o].at <= t, Past(t) PROVE FALSE
      <4>1. ~(clock > closing[o].at)
        BY <2>4, <3>1 DEF Prompt
      <4>2. closing[o].at = clock /\ clock < MaxTime
        BY <1>2, <2>1, <2>4, <4>1
      <4> QED
        BY <1>2, <2>4, <3>1, <4>2 DEF Past
    <3> QED
      BY <2>1, <2>4, <3>1
  <2> QED
    BY <2>2, <2>3, <2>4, ClosingMoves
<1> QED
  BY <1>2, <1>3, <1>4

LEMMA OutsidePrompted ==
    ASSUME Sound, Sound', DiaryTidy, Covered, Prompted, Exchange
    PROVE  Prompted'
<1>1. UNCHANGED <<row, run, account>> /\ Onward
  BY ExchangeOnward DEF diary
<1>2. \A o \in Orders : Recorded(o)' <=> Recorded(o)
  BY <1>1, SameRecorded DEF DiaryTidy
<1>3. \A o \in Orders : Recorded(o) => closing[o] # NULL
  BY InDiary DEF Sound, DiaryTidy
<1>4. Timely'
  <2>1. clock \in Nat /\ clock' \in Nat /\ clock >= 1 /\ clock' >= clock
    BY SyncAssumption, OutsideMoves DEF Prompted, Timely, Sound, TypeOK, Time
  <2>2. ASSUME NEW o \in Orders, Recorded(o)' PROVE closing'[o].at < clock'
    <3>1. closing[o] # NULL /\ closing[o].at < clock
      BY <1>2, <1>3, <2>2 DEF Prompted, Timely
    <3>2. closing'[o].at = closing[o].at /\ closing[o].at \in Nat
      BY <3>1, OutsideMoves, Times DEF Prompted, Sound
    <3> QED
      BY <2>1, <3>1, <3>2
  <2>3. clock' >= 1
    BY <2>1
  <2> QED
    BY <2>2, <2>3, OutsideMoves DEF Prompted, Timely
<1>5. PromptsIn'
  <2> SUFFICES ASSUME account.cursor # NULL, NEW o \in Orders, Prompt(o)', closing'[o].at <= account.cursor
               PROVE  Recorded(o)
    BY <1>1, <1>2 DEF PromptsIn
  <2>1. account.cursor \in Nat /\ Past(account.cursor)
    BY Times DEF Sound, Covered
  <2>2. Prompt(o) /\ closing'[o].at = closing[o].at
    BY <2>1, OutsideMoves DEF Prompted, Prompt
  <2> QED
    BY <2>2 DEF Prompted, PromptsIn
<1>6. ASSUME NEW r \in Runs PROVE InTime(run[r])'
  <2>1. InTime(run[r]) /\ run[r].now \in Nat /\ run[r] \in Run
    BY Times, RunIs DEF Prompted, Sound
  <2>2. run[r].todo \subseteq Orders /\ \A o \in run[r].todo : closing[o] # NULL
    BY <2>1 DEF Run, Sound, RunKnows
  <2>3. CASE run[r].pc \in Windows \cup Later
    <3>1. Past(run[r].now) /\ Past(run[r].now)'
      <4>1. Past(run[r].now)
        BY <2>1, <2>3 DEF InTime
      <4> QED
        BY <1>1, <2>1, <4>1, OutsideMoves DEF Prompted, Past
    <3>2. ASSUME NEW o \in Orders, Prompt(o)', closing'[o].at <= run[r].now
          PROVE  Prompt(o) /\ closing'[o].at = closing[o].at
      BY <2>1, <3>1, <3>2, OutsideMoves DEF Prompted, Prompt
    <3>3. \A o \in Orders : Recorded(o)' => closing'[o].at <= run[r].now
      BY <1>2, <1>3, <2>1, <2>3, OutsideMoves DEF InTime, Prompted
    <3>4. run[r].pc \in Writing => \A o \in run[r].todo : closing'[o].at <= run[r].now
      BY <2>1, <2>2, OutsideMoves DEF InTime, Prompted
    <3> QED
      BY <1>1, <1>2, <2>1, <2>3, <3>1, <3>2, <3>3, <3>4 DEF InTime
  <2>4. CASE run[r].pc \notin Windows \cup Later
    BY <1>1, <2>1, <2>4 DEF InTime, Windows, Writing
  <2> QED
    BY <2>3, <2>4
<1> QED
  BY <1>4, <1>5, <1>6 DEF Prompted

\* A run goes on: what it adds to the diary was still to do.
LEMMA GoesOnPrompted ==
    ASSUME OneAtATime, Sound, Sound', DiaryTidy, Prompted, Grows, NEW r \in Runs,
           UNCHANGED <<clock, closing>>, account'.cursor = account.cursor,
           \A o \in Orders : Recorded(o)' => Recorded(o) \/ (run[r].pc \in Writing /\ o \in run[r].todo),
           \/ run'[r].pc \in {"idle", "begin"}
           \/ run[r].pc \in Later /\ run'[r].pc \in Later /\ run'[r].now = run[r].now
           \/ /\ run[r].pc \in Writing /\ run'[r].pc \in Writing
              /\ run'[r].now = run[r].now /\ run'[r].from = run[r].from /\ run'[r].to = run[r].to
              /\ run'[r].todo \subseteq run[r].todo
              /\ run'[r].pc # "next" => run'[r].rec \in run'[r].todo
              /\ \A o \in Orders : Recorded(o) \/ o \in run[r].todo => Recorded(o)' \/ o \in run'[r].todo
    PROVE  Prompted'
<1>1. \A p \in Runs : p = r
  BY DEF OneAtATime
<1>2. \A o \in Orders : Prompt(o)' <=> Prompt(o)
  BY DEF Prompt
<1>3. InTime(run[r]) /\ run[r].now \in Nat /\ run[r].now <= MaxTime
  BY Times DEF Prompted, Sound
<1>4. ASSUME run[r].pc \in Windows \cup Later, NEW o \in Orders, Recorded(o)'
      PROVE  closing[o].at <= run[r].now
  BY <1>3, <1>4 DEF InTime
<1>5. Timely'
  <2> SUFFICES ASSUME NEW o \in Orders, closing[o] # NULL, Recorded(o)' PROVE closing[o].at < clock
    BY DEF Prompted, Timely
  <2>1. CASE Recorded(o)
    BY <2>1 DEF Prompted, Timely
  <2>2. CASE run[r].pc \in Writing /\ o \in run[r].todo
    <3>1. closing[o].at <= run[r].now /\ Past(run[r].now)
      BY <1>3, <2>2 DEF InTime, Windows
    <3>2. closing[o].at < MaxTime /\ closing[o].at \in Nat /\ clock \in Nat /\ MaxTime \in Nat
      BY Times DEF Prompted, Timely, Sound
    <3> QED
      BY <1>3, <3>1, <3>2 DEF Past
  <2> QED
    BY <2>1, <2>2
<1>6. PromptsIn'
  BY <1>2 DEF Prompted, PromptsIn, Grows
<1>7. InTime(run[r])'
  <2>1. CASE run'[r].pc \in {"idle", "begin"}
    BY <2>1 DEF InTime, Windows, Writing, Later
  <2>2. CASE run[r].pc \in Later /\ run'[r].pc \in Later /\ run'[r].now = run[r].now
    <3>1. Past(run[r].now) /\ Past(run[r].now)'
      BY <1>3, <2>2 DEF InTime, Past
    <3>2. run'[r].pc \notin Windows /\ run'[r].pc \notin Writing /\ run[r].pc \notin Writing
      BY <2>2 DEF Windows, Writing, Later
    <3> QED
      BY <1>2, <1>3, <1>4, <2>2, <3>1, <3>2 DEF InTime, Grows, Writing
  <2>3. CASE /\ run[r].pc \in Writing /\ run'[r].pc \in Writing
             /\ run'[r].now = run[r].now /\ run'[r].from = run[r].from /\ run'[r].to = run[r].to
             /\ run'[r].todo \subseteq run[r].todo
             /\ run'[r].pc # "next" => run'[r].rec \in run'[r].todo
             /\ \A o \in Orders : Recorded(o) \/ o \in run[r].todo => Recorded(o)' \/ o \in run'[r].todo
    <3>1. run[r].pc \in Windows /\ run[r].pc \notin Later /\ run'[r].pc \in Windows /\ run'[r].pc \notin Later
      BY <2>3 DEF Windows, Writing, Later
    <3>2. Past(run[r].now) /\ Past(run[r].now)'
      BY <1>3, <2>3, <3>1 DEF InTime, Past
    <3>3. run'[r].pc \in {"conflict", "write", "upsert"} => run'[r].pc # "next"
      OBVIOUS
    <3> QED
      BY <1>2, <1>3, <1>4, <2>3, <3>1, <3>2, <3>3 DEF InTime, Grows
  <2> QED
    BY <2>1, <2>2, <2>3
<1> QED
  BY <1>1, <1>5, <1>6, <1>7 DEF Prompted

\* The run's windows begin behind the cursor, or where the history does.
LEMMA WindowBehind ==
    ASSUME Sound, NEW r \in Runs
    PROVE  LET start == WindowStart(run[r].seen.cursor) IN
           start = 0 \/ (run[r].seen.cursor \in Nat /\ start <= run[r].seen.cursor)
<1>1. run[r].seen.cursor \in Nat \cup {NULL} /\ Overlap \in Nat
  BY Moments DEF Sound
<1> QED
  BY <1>1 DEF WindowStart

LEMMA OpensWindow ==
    ASSUME NEW q \in Run, NEW start
    PROVE  /\ OpenWindow(q, start).pc \in {"fetch", "snapshot"} /\ OpenWindow(q, start).now = q.now
           /\ OpenWindow(q, start).todo = q.todo /\ OpenWindow(q, start).seen = q.seen
           /\ OpenWindow(q, start).pc = "fetch" => OpenWindow(q, start).from = start
           /\ OpenWindow(q, start).pc = "snapshot" => ~(start < q.now)
BY DEF OpenWindow, Run

LEMMA BeginPrompted ==
    ASSUME OneAtATime, Sound, Sound', DiaryTidy, Covered, Prompted, Grows, NEW r \in Runs, Begin(r)
    PROVE  Prompted'
<1> DEFINE had == [run[r] EXCEPT !.now = clock]
           start == WindowStart(run[r].seen.cursor)
<1>1. /\ run[r] \in Run /\ run[r].seen.cursor = account.cursor /\ UNCHANGED <<row, closing, account>>
      /\ run'[r] = OpenWindow(had, start)
  BY RunIs DEF Begin, At, Covered, Covers, Sound, TypeOK, exchange, diary
<1>2. had \in Run /\ had.now = clock
  BY <1>1 DEF Sound, TypeOK, Run
<1>3. /\ run'[r].pc \in {"fetch", "snapshot"} /\ run'[r].now = clock
      /\ run'[r].pc = "fetch" => run'[r].from = start
      /\ run'[r].pc = "snapshot" => ~(start < clock)
  <2> HIDE DEF had, start
  <2> QED
    BY <1>1, <1>2, OpensWindow
<1>4. start = 0 \/ (account.cursor \in Nat /\ start <= account.cursor)
  BY <1>1, WindowBehind
<1>5. \A o \in Orders : Recorded(o)' <=> Recorded(o)
  BY <1>1, SameRecorded DEF DiaryTidy, Onward
<1>6. \A o \in Orders : Prompt(o)' <=> Prompt(o)
  BY <1>1 DEF Prompt
<1>7. clock \in Nat /\ MaxTime \in Nat /\ NULL \notin Nat /\ clock >= 1 /\ start \in Nat
      /\ clock <= MaxTime /\ \A o \in Orders : closing[o] # NULL => closing[o].at \in Nat
  BY <1>1, <1>4, Times, WindowsStart DEF Prompted, Timely, Sound, Run, Account, TypeOK, Time
<1> HIDE DEF start, had
<1>8. clock' = clock + 1 \/ (clock' = clock /\ clock = MaxTime)
  BY <1>7 DEF Begin, Least
<1>9. ASSUME NEW o \in Orders, Prompt(o), closing[o].at <= clock,
             closing[o].at < start \/ ~(start < clock)
      PROVE  Recorded(o)
  <2>1. account.cursor \in Nat /\ closing[o].at <= account.cursor
    BY <1>4, <1>7, <1>9 DEF Prompt
  <2> QED
    BY <1>7, <1>9, <2>1 DEF Prompted, PromptsIn
<1>10. Timely'
  <2>1. \A o \in Orders : closing[o] # NULL =>
           /\ closing[o].at <= clock' /\ closing[o].at < MaxTime
           /\ Recorded(o) => closing[o].at < clock'
    BY <1>7, <1>8 DEF Prompted, Timely
  <2> QED
    BY <1>1, <1>5, <1>7, <1>8, <2>1 DEF Timely
<1>11. PromptsIn'
  BY <1>1, <1>5, <1>6 DEF Prompted, PromptsIn
<1>12. InTime(run[r])'
  <2>1. Past(run[r].now)'
    BY <1>1, <1>3, <1>7, <1>8 DEF Past
  <2>2. \A o \in Orders : Recorded(o)' => closing'[o].at <= run'[r].now
    <3>1. \A o \in Orders : Recorded(o) => closing[o] # NULL
      BY InDiary DEF Sound, DiaryTidy
    <3> QED
      BY <1>1, <1>3, <1>5, <3>1 DEF Prompted, Timely
  <2>3. ASSUME NEW o \in Orders, Prompt(o)', closing'[o].at <= run'[r].now
        PROVE  /\ run'[r].pc = "fetch" /\ closing'[o].at < run'[r].from => Recorded(o)'
               /\ run'[r].pc = "snapshot" => Recorded(o)'
    BY <1>1, <1>3, <1>5, <1>6, <1>9, <2>3
  <2> QED
    BY <1>3, <2>1, <2>2, <2>3 DEF InTime, Windows, Writing, Later
<1> QED
  BY <1>10, <1>11, <1>12 DEF Prompted, OneAtATime

LEMMA FetchPrompted ==
    ASSUME OneAtATime, Sound, Sound', DiaryTidy, Covered, Prompted, Grows, NEW r \in Runs, FetchClosed(r)
    PROVE  Prompted'
<1> DEFINE todo == {o \in Orders : /\ closing[o] # NULL /\ closing[o].listed
                                   /\ run[r].from <= closing[o].at
                                   /\ closing[o].at <= run[r].to}
<1>1. /\ run[r] \in Run /\ run[r].pc = "fetch" /\ Covers(run[r]) /\ InTime(run[r])
      /\ UNCHANGED <<clock, row, closing, account>>
  BY RunIs DEF FetchClosed, At, Covered, Prompted, Sound, exchange, diary
<1>2. run'[r] = [run[r] EXCEPT !.pc = "next", !.todo = todo]
  BY DEF FetchClosed, Sound, TypeOK
<1>3. /\ run'[r].pc = "next" /\ run'[r].todo = todo
      /\ run'[r].now = run[r].now /\ run'[r].from = run[r].from /\ run'[r].to = run[r].to
  <2> HIDE DEF todo
  <2> QED
    BY <1>1, <1>2 DEF Run
<1>4. \A o \in Orders : (Recorded(o)' <=> Recorded(o)) /\ (Prompt(o)' <=> Prompt(o))
  BY <1>1, SameRecorded DEF DiaryTidy, Onward, Prompt
<1>5. Timely' /\ PromptsIn'
  BY <1>1, <1>4 DEF Prompted, Timely, PromptsIn
<1>6. /\ run[r].now \in Nat /\ run[r].from \in Nat /\ run[r].to \in Nat /\ run[r].to <= run[r].now
      /\ \A o \in Orders : closing[o] # NULL => closing[o].at \in Nat
  BY <1>1, Times DEF Sound, Covers
<1>7. \A o \in todo : closing[o].at <= run[r].now
  BY <1>6
<1>8. ASSUME NEW o \in Orders, Prompt(o), closing[o].at <= run[r].now
      PROVE  /\ closing[o].at < run[r].from => Recorded(o)
             /\ closing[o].at <= run[r].to => Recorded(o) \/ o \in todo
  <2>1. closing[o].at < run[r].from => Recorded(o)
    BY <1>1, <1>8 DEF InTime, Windows
  <2> QED
    BY <1>6, <1>8, <2>1 DEF Prompt
<1> HIDE DEF todo
<1>9. InTime(run[r])'
  <2>1. Past(run[r].now)' /\ \A o \in Orders : Recorded(o) => closing[o].at <= run[r].now
    BY <1>1, <1>3 DEF InTime, Windows, Past
  <2> QED
    BY <1>1, <1>3, <1>4, <1>7, <1>8, <2>1 DEF InTime, Windows, Writing, Later
<1> QED
  BY <1>5, <1>9 DEF Prompted, OneAtATime

LEMMA AdvancePrompted ==
    ASSUME OneAtATime, Sound, Sound', DiaryTidy, Covered, Prompted, Grows, NEW r \in Runs, AdvanceCursor(r)
    PROVE  Prompted'
<1>1. /\ run[r] \in Run /\ run[r].pc = "next" /\ run[r].todo = {} /\ Covers(run[r]) /\ InTime(run[r])
      /\ UNCHANGED <<clock, row, closing>> /\ account'.cursor = run[r].to
      /\ run'[r] = OpenWindow(run[r], run[r].to)
  BY RunIs DEF AdvanceCursor, CursorAfter, At, Covered, Prompted, Sound, TypeOK, Account, exchange, diary
<1>2. /\ run'[r].pc \in {"fetch", "snapshot"} /\ run'[r].now = run[r].now
      /\ run'[r].pc = "fetch" => run'[r].from = run[r].to
      /\ run'[r].pc = "snapshot" => ~(run[r].to < run[r].now)
  BY <1>1, OpensWindow
<1>3. \A o \in Orders : (Recorded(o)' <=> Recorded(o)) /\ (Prompt(o)' <=> Prompt(o))
  BY <1>1, SameRecorded DEF DiaryTidy, Onward, Prompt
<1>4. /\ run[r].now \in Nat /\ run[r].to \in Nat /\ run[r].to <= run[r].now
      /\ \A o \in Orders : closing[o] # NULL => closing[o].at \in Nat
  BY <1>1, Times DEF Sound, Covers
<1>5. ASSUME NEW o \in Orders, Prompt(o), closing[o].at <= run[r].to PROVE Recorded(o)
  <2>1. closing[o].at <= run[r].now
    BY <1>4, <1>5 DEF Prompt
  <2> QED
    BY <1>1, <1>5, <2>1 DEF InTime, Writing
<1>6. Timely' /\ PromptsIn'
  BY <1>1, <1>3, <1>5 DEF Prompted, Timely, PromptsIn
<1>7. InTime(run[r])'
  <2>1. Past(run[r].now)' /\ \A o \in Orders : Recorded(o) => closing[o].at <= run[r].now
    BY <1>1, <1>2 DEF InTime, Windows, Writing, Past
  <2>2. ASSUME NEW o \in Orders, Prompt(o), closing[o].at <= run[r].now
        PROVE  /\ run'[r].pc = "fetch" /\ closing[o].at < run'[r].from => Recorded(o)
               /\ run'[r].pc = "snapshot" => Recorded(o)
    <3>1. closing[o].at \in Nat
      BY <1>4, <2>2 DEF Prompt
    <3> QED
      BY <1>2, <1>4, <1>5, <2>2, <3>1
  <2> QED
    BY <1>1, <1>2, <1>3, <2>1, <2>2 DEF InTime, Windows, Writing, Later
<1> QED
  BY <1>6, <1>7 DEF Prompted, OneAtATime

\* What writing a closing does to the rows: one becomes the closing's, another may go.
LEMMA ClosedRowWritten ==
    ASSUME OneAtATime, Sound, DiaryTidy, NEW r \in Runs, WriteClosed(r) \/ UpsertClosed(r),
           NEW o, o = run[r].rec
    PROVE  /\ o \in Orders /\ closing[o] # NULL /\ notified' \subseteq notified /\ UNCHANGED closing
           /\ \E i \in RowIds :
                 /\ row'[i] = ClosedBy(o)
                 /\ \A j \in RowIds : j # i /\ row'[j] # NULL =>
                       row'[j] = row[j] /\ (OneRowEach => row[j].order # o)
                 /\ i \in notified' => Present(i) /\ (row[i].open \/ row[i].order = o)
<1>1. run[r] \in Run /\ RunKnows(run[r]) /\ RowsRead(run[r]) /\ run[r].pc \in {"write", "upsert"}
      /\ TypeOK /\ Tidy
  BY RunIs DEF Sound, DiaryTidy, WriteClosed, UpsertClosed, At
<1>2. o \in Orders /\ o # NULL /\ closing[o] # NULL
  BY <1>1 DEF RunKnows, Run
<1>3. notified' \subseteq notified /\ UNCHANGED closing
  BY DEF WriteClosed, UpsertClosed, exchange
<1>4. CASE WriteClosed(r)
  <2> DEFINE gone == IF run[r].other = run[r].mine THEN NULL ELSE run[r].other
  <2>1. PICK mine : mine = run[r].mine
    OBVIOUS
  <2>2. /\ mine \in Open /\ mine \in RowIds /\ Present(mine) /\ row[mine].open
        /\ RowsOf(o) \subseteq {mine, gone}
        /\ row' = [i \in RowIds |-> IF i = mine THEN ClosedBy(o) ELSE IF i = gone THEN NULL ELSE row[i]]
    BY <1>1, <1>4, <2>1 DEF RowsRead, WriteClosed, At, Open
  <2> HIDE DEF gone
  <2>3. ASSUME NEW j \in RowIds, j # mine, row'[j] # NULL
        PROVE  row'[j] = row[j] /\ row[j].order # o
    <3>1. j # gone /\ row'[j] = row[j] /\ Present(j)
      BY <2>2, <2>3 DEF Present
    <3> QED
      BY <2>2, <2>3, <3>1 DEF RowsOf
  <2> QED
    BY <1>2, <1>3, <2>2, <2>3
<1>5. CASE UpsertClosed(r)
  <2>1. PICK i \in RowIds : /\ IF RowsOf(o) = {} THEN FreshRow(i) ELSE i \in RowsOf(o)
                            /\ row' = [row EXCEPT ![i] = ClosedBy(o)]
                            /\ notified' = IF Present(i) THEN notified ELSE notified \ {i}
    BY <1>5 DEF UpsertClosed
  <2>2. row'[i] = ClosedBy(o) /\ \A j \in RowIds : j # i => row'[j] = row[j]
    BY <1>1, <2>1 DEF TypeOK
  <2>3. ASSUME NEW j \in RowIds, j # i, row'[j] # NULL, OneRowEach
        PROVE  row[j].order # o
    <3>1. Present(j)
      BY <2>2, <2>3 DEF Present
    <3>2. i \in RowsOf(o) => Present(i) /\ row[i].order = o
      BY DEF RowsOf
    <3> QED
      BY <1>2, <2>1, <2>3, <3>1, <3>2 DEF OneRowEach, RowsOf
  <2>4. i \in notified' => Present(i) /\ row[i].order = o
    BY <2>1 DEF RowsOf, FreshRow
  <2> QED
    BY <1>2, <1>3, <2>2, <2>3, <2>4
<1> QED
  BY <1>4, <1>5

LEMMA OpenRowWritten ==
    ASSUME OneAtATime, Sound, DiaryTidy, NEW r \in Runs, WriteOpen(r)
    PROVE  /\ notified' \subseteq notified /\ UNCHANGED closing
           /\ \E i \in RowIds :
                 /\ row'[i] # NULL /\ row'[i].open /\ row'[i].order = NULL
                 /\ \A j \in RowIds : j # i => row'[j] = row[j]
                 /\ Present(i) => row[i].open
                 /\ i \in notified' => Present(i)
<1> DEFINE q == run[r]
<1>1. q \in Run /\ RunKnows(q) /\ RowsRead(q) /\ q.pc = "writeLive" /\ TypeOK /\ Tidy
  BY RunIs DEF Sound, DiaryTidy, WriteOpen, At
<1>2. UNCHANGED closing
  BY DEF WriteOpen, exchange
<1>3. q.live \in Trades
  BY <1>1 DEF RunKnows, Run
<1>4. CASE q.mine # NULL
  <2> DEFINE new == [row[q.mine] EXCEPT !.open = TRUE, !.trade = q.live]
  <2>1. q.mine \in Open /\ q.mine \in RowIds /\ row[q.mine].order = NULL /\ row[q.mine] \in Row
        /\ Present(q.mine) /\ row[q.mine].open
    BY <1>1, <1>4, RowsAre DEF RowsRead, Tidy, Open, Run
  <2>2. row' = [row EXCEPT ![q.mine] = new] /\ notified' = notified
    BY <1>1, <1>4 DEF WriteOpen, TypeOK
  <2>3. new \in Row /\ new.open /\ new.order = NULL
    BY <1>3, <2>1 DEF Row
  <2> HIDE DEF new
  <2>4. row'[q.mine] = new /\ \A j \in RowIds : j # q.mine => row'[j] = row[j]
    BY <1>1, <2>1, <2>2 DEF TypeOK
  <2> QED
    BY <1>2, <2>1, <2>2, <2>3, <2>4, SyncAssumption
<1>5. CASE q.mine = NULL
  <2> DEFINE new == [open |-> TRUE, order |-> NULL, trade |-> q.live]
  <2>1. PICK i \in RowIds : FreshRow(i) /\ row' = [row EXCEPT ![i] = new] /\ notified' = notified \ {i}
    BY <1>5 DEF WriteOpen
  <2>2. new \in Row /\ new.open /\ new.order = NULL
    BY <1>3 DEF Row
  <2> HIDE DEF new
  <2>3. row'[i] = new /\ \A j \in RowIds : j # i => row'[j] = row[j]
    BY <1>1, <2>1 DEF TypeOK
  <2> QED
    BY <1>2, <2>1, <2>2, <2>3, SyncAssumption DEF FreshRow
<1> QED
  BY <1>4, <1>5

\* A step of a run adds to the diary only the closing it writes.
LEMMA OnlyWritten ==
    ASSUME OneAtATime, Sound, Sound', DiaryTidy, DiaryTidy', NEW r \in Runs, Step(r) \/ Fail(r),
           NEW o \in Orders, Recorded(o)'
    PROVE  Recorded(o) \/ ((WriteClosed(r) \/ UpsertClosed(r)) /\ o = run[r].rec)
<1>1. PICK i \in RowsOf(o)' : row'[i] = ClosedBy(o)'
  BY DEF Recorded
<1>2. i \in RowIds /\ row'[i] # NULL /\ row'[i].order = o /\ o # NULL
  BY <1>1, SyncAssumption DEF RowsOf, Present
<1>3. ASSUME row'[i] = row[i] PROVE Recorded(o)
  <2>1. i \in RowsOf(o)
    BY <1>2, <1>3 DEF RowsOf, Present
  <2> QED
    BY <2>1, InDiary DEF Sound, DiaryTidy
<1>4. CASE WriteClosed(r) \/ UpsertClosed(r)
  <2>1. PICK c : c = run[r].rec
    OBVIOUS
  <2>2. c \in Orders /\ closing[c] # NULL /\ \E k \in RowIds :
           row'[k] = ClosedBy(c) /\ \A j \in RowIds : j # k /\ row'[j] # NULL => row'[j] = row[j]
    BY <1>4, <2>1, ClosedRowWritten
  <2>3. ClosedBy(c).order = c
    BY DEF ClosedBy
  <2> QED
    BY <1>2, <1>3, <1>4, <2>1, <2>2, <2>3
<1>5. CASE WriteOpen(r)
  <2>1. \E k \in RowIds : row'[k].order = NULL /\ \A j \in RowIds : j # k => row'[j] = row[j]
    BY <1>5, OpenRowWritten
  <2> QED
    BY <1>2, <1>3, <2>1
<1>6. CASE ~(WriteClosed(r) \/ UpsertClosed(r) \/ WriteOpen(r))
  <2>1. UNCHANGED row
    BY <1>6, ReadsTidy DEF Step, diary
  <2> QED
    BY <1>3, <2>1
<1> QED
  BY <1>4, <1>5, <1>6

LEMMA StepPrompted ==
    ASSUME OneAtATime, Sound, Sound', DiaryTidy, DiaryTidy', Covered, Prompted,
           NEW r \in Runs, Step(r) \/ Fail(r)
    PROVE  Prompted'
<1>1. run[r] \in Run /\ run \in [Runs -> Run] /\ run' \in [Runs -> Run] /\ Grows /\ UNCHANGED closing
      /\ InTime(run[r])
  BY RunIs, StepTidy DEF Sound, TypeOK, Prompted
<1>2. CASE Begin(r) \/ FetchClosed(r) \/ AdvanceCursor(r)
  BY <1>1, <1>2, BeginPrompted, FetchPrompted, AdvancePrompted
<1>3. ASSUME ~(Begin(r) \/ FetchClosed(r) \/ AdvanceCursor(r))
      PROVE  UNCHANGED clock /\ account'.cursor = account.cursor
  BY <1>3 DEF Step, ReadAccount, FindOpenRow, FindConflicting, WriteClosed, UpsertClosed, FetchOpen,
       FindTracked, WriteOpen, Collect, Finish, Fail, Announce, AnnounceFails, exchange, Sound, TypeOK, Account
<1>4. ASSUME ~(WriteClosed(r) \/ UpsertClosed(r)), NEW o \in Orders, Recorded(o)' PROVE Recorded(o)
  BY <1>4, OnlyWritten
<1>5. CASE ReadAccount(r) \/ Finish(r) \/ Fail(r)
  <2>1. [Idle EXCEPT !.pc = "begin", !.seen = account].pc = "begin" /\ Idle.pc = "idle"
    BY IdleIsRun DEF Run
  <2>2. run'[r].pc \in {"begin", "idle"}
    BY <1>1, <1>5, <2>1 DEF ReadAccount, Finish, Fail
  <2>3. UNCHANGED clock /\ account'.cursor = account.cursor /\ ~(WriteClosed(r) \/ UpsertClosed(r))
    <3>1. CASE ReadAccount(r)
      BY <3>1 DEF ReadAccount, WriteClosed, UpsertClosed, At
    <3>2. CASE Finish(r)
      BY <3>2 DEF Finish, WriteClosed, UpsertClosed, At, Sound, TypeOK, Account
    <3>3. CASE Fail(r)
      <4>1. run'[r].pc = "idle" /\ UNCHANGED <<clock, account>>
        BY <1>1, <2>1, <3>3 DEF Fail
      <4>2. WriteClosed(r) \/ UpsertClosed(r) => run'[r].pc = "next"
        BY <1>1 DEF WriteClosed, UpsertClosed, Written, Run
      <4> QED
        BY <4>1, <4>2
    <3> QED
      BY <1>5, <3>1, <3>2, <3>3
  <2> QED
    BY <1>1, <1>4, <2>2, <2>3, GoesOnPrompted
<1>6. ASSUME NEW o \in Orders, FindOpenRow(r, o) PROVE Prompted'
  <2>1. \E i \in RowIds \cup {NULL} : \E pc \in {"conflict", "upsert"} :
           run'[r] = [run[r] EXCEPT !.pc = pc, !.rec = o, !.mine = i]
    <3>1. CASE \E i \in Open : run' = [run EXCEPT ![r].pc = "conflict", ![r].rec = o, ![r].mine = i]
      BY <1>1, <3>1 DEF Open
    <3>2. CASE run' = [run EXCEPT ![r].pc = "upsert", ![r].rec = o]
      <4>1. run'[r] = [run[r] EXCEPT !.pc = "upsert", !.rec = o]
        BY <1>1, <3>2
      <4>2. run'[r] = [run[r] EXCEPT !.pc = "upsert", !.rec = o, !.mine = run[r].mine]
        BY <1>1, <4>1 DEF Run
      <4> QED
        BY <1>1, <4>2 DEF Run
    <3> QED
      BY <1>6, <3>1, <3>2 DEF FindOpenRow
  <2>2. /\ run'[r].pc \in {"conflict", "upsert"} /\ run'[r].todo = run[r].todo /\ run'[r].rec = o
        /\ run'[r].now = run[r].now /\ run'[r].from = run[r].from /\ run'[r].to = run[r].to
    BY <1>1, <2>1 DEF Run
  <2>3. run[r].pc = "next" /\ o \in run[r].todo /\ UNCHANGED <<clock, closing, account>>
        /\ ~(WriteClosed(r) \/ UpsertClosed(r))
    BY <1>6 DEF FindOpenRow, WriteClosed, UpsertClosed, At, exchange
  <2> QED
    BY <1>1, <1>4, <2>2, <2>3, GoesOnPrompted DEF Writing, Grows
<1>7. CASE FindConflicting(r)
  <2>1. PICK i : run' = [run EXCEPT ![r].pc = "write", ![r].other = i]
    BY <1>7 DEF FindConflicting
  <2>2. run'[r] = [run[r] EXCEPT !.pc = "write", !.other = i]
    BY <1>1, <2>1
  <2>3. /\ run'[r].pc = "write" /\ run'[r].todo = run[r].todo /\ run'[r].rec = run[r].rec
        /\ run'[r].now = run[r].now /\ run'[r].from = run[r].from /\ run'[r].to = run[r].to
    BY <1>1, <2>2 DEF Run
  <2>4. run[r].pc = "conflict" /\ UNCHANGED <<clock, closing, account>>
        /\ ~(WriteClosed(r) \/ UpsertClosed(r))
    BY <1>7 DEF FindConflicting, WriteClosed, UpsertClosed, At, exchange
  <2>5. run[r].rec \in run[r].todo
    BY <1>1, <2>4 DEF InTime
  <2> QED
    BY <1>1, <1>4, <2>3, <2>4, <2>5, GoesOnPrompted DEF Writing, Grows
<1>8. CASE WriteClosed(r) \/ UpsertClosed(r)
  <2>1. PICK o : o = run[r].rec
    OBVIOUS
  <2>2. Recorded(o)'
    BY <1>8, <2>1, ClosedWriteTidy, UpsertTidy DEF Records
  <2>3. Written(r) /\ run[r].pc \in {"write", "upsert"} /\ UNCHANGED <<clock, closing, account>>
    BY <1>8 DEF WriteClosed, UpsertClosed, At, exchange
  <2>4. run'[r] = [run[r] EXCEPT !.pc = "next", !.todo = @ \ {o},
                                 !.rec = NULL, !.mine = NULL, !.other = NULL]
    BY <1>1, <2>1, <2>3 DEF Written
  <2>5. /\ run'[r].pc = "next" /\ run'[r].todo = run[r].todo \ {o}
        /\ run'[r].now = run[r].now /\ run'[r].from = run[r].from /\ run'[r].to = run[r].to
    BY <1>1, <2>4 DEF Run
  <2>6. o \in run[r].todo
    BY <1>1, <2>1, <2>3 DEF InTime
  <2>7. \A x \in Orders : Recorded(x)' => Recorded(x) \/ x = o
    BY <2>1, OnlyWritten
  <2> QED
    BY <1>1, <2>2, <2>3, <2>5, <2>6, <2>7, GoesOnPrompted DEF Writing, Grows
<1>9. CASE \/ FetchOpen(r) \/ FindTracked(r) \/ WriteOpen(r) \/ Collect(r)
           \/ \E news \in run[r].news : Announce(r, news) \/ AnnounceFails(r, news)
  <2>1. run[r].pc \in Later /\ run'[r].pc \in Later /\ run'[r].now = run[r].now
    <3>1. CASE FetchOpen(r) \/ FindTracked(r) \/ WriteOpen(r) \/ Collect(r)
      <4>1. /\ run'[r].pc \in {"collect", "findLive", "writeLive", "tell"} /\ run'[r].now = run[r].now
            /\ run[r].pc \in {"snapshot", "findLive", "writeLive", "collect"}
        BY <1>1, <3>1 DEF FetchOpen, FindTracked, WriteOpen, Collect, Run, At
      <4> QED
        BY <4>1 DEF Later
    <3>2. ASSUME NEW news \in run[r].news, Announce(r, news) \/ AnnounceFails(r, news)
          PROVE  run[r].pc = "tell" /\ run'[r].pc = "tell" /\ run'[r].now = run[r].now
      <4>1. run[r].pc = "tell" /\ run'[r] = [run[r] EXCEPT !.news = @ \ {news}]
        BY <1>1, <3>2 DEF Announce, AnnounceFails, At
      <4> QED
        BY <1>1, <4>1 DEF Run
    <3> QED
      BY <1>9, <3>1, <3>2 DEF Later
  <2>2. UNCHANGED <<clock, account>>
    BY <1>9 DEF FetchOpen, FindTracked, WriteOpen, Collect, Announce, AnnounceFails
  <2>3. ~(WriteClosed(r) \/ UpsertClosed(r))
    BY <2>1 DEF WriteClosed, UpsertClosed, At, Later
  <2> QED
    BY <1>1, <1>4, <2>1, <2>2, <2>3, GoesOnPrompted
<1> QED
  BY <1>2, <1>5, <1>6, <1>7, <1>8, <1>9 DEF Step

LEMMA NextPrompted ==
    ASSUME OneAtATime, Sound, Sound', DiaryTidy, DiaryTidy', Covered, Prompted, [Next]_vars
    PROVE  Prompted'
<1>1. CASE Exchange
  BY <1>1, OutsidePrompted
<1>2. CASE User \/ UNCHANGED vars
  <2>1. UNCHANGED <<run, account, clock, closing, row>>
    BY <1>2 DEF User, AddPositionNote, RemovePositionNote, vars, exchange, diary
  <2>2. \A o \in Orders : (Recorded(o)' <=> Recorded(o)) /\ (Prompt(o)' <=> Prompt(o))
    BY <2>1, SameRecorded DEF DiaryTidy, Onward, Prompt
  <2> QED
    BY <2>1, <2>2 DEF Prompted, Timely, PromptsIn, InTime, Past
<1> QED
  BY <1>1, <1>2, StepPrompted DEF Next

LEMMA ToldIsRecorded ==
    ASSUME Sound, DiaryTidy, Announcing, NEW o \in Orders, told[o] > 0
    PROVE  Recorded(o) /\ closing[o] # NULL /\ since # NULL /\ account.lastSync # NULL
BY InDiary DEF Announcing, AnnouncedOnce, Told, Syncs, Sound, DiaryTidy

LEMMA NewsAre ==
    ASSUME Sound, DiaryTidy, Announcing, NEW r \in Runs, run[r].pc = "tell", NEW n \in run[r].news
    PROVE  /\ n.row \in RowIds /\ n.order \in Orders /\ n = [row |-> n.row, order |-> n.order]
           /\ Present(n.row) /\ ~row[n.row].open /\ row[n.row].order = n.order
           /\ Recorded(n.order) /\ closing[n.order] # NULL
           /\ account.lastSync # NULL /\ closing[n.order].at > account.lastSync
<1>1. n \in News
  BY RunIs DEF Sound, Run
<1>2. n.row \in RowIds /\ n.order \in Orders /\ n = [row |-> n.row, order |-> n.order]
  BY <1>1 DEF News
<1>3. /\ Present(n.row) /\ ~row[n.row].open /\ row[n.row].order = n.order
      /\ account.lastSync # NULL /\ closing[n.order].at > account.lastSync
  BY DEF Announcing, Telling
<1>4. n.row \in RowsOf(n.order)
  BY <1>2, <1>3 DEF RowsOf
<1> QED
  BY <1>2, <1>3, <1>4, InDiary DEF Sound, DiaryTidy

\* On the exchange: what is listed at once was never in the past of a run.
LEMMA OutsideAnnouncing ==
    ASSUME Sound, Sound', DiaryTidy, Prompted, Announcing, Exchange
    PROVE  Announcing'
<1>1. UNCHANGED <<row, run, account, notified, told, since, mishaps>> /\ Onward
  BY ExchangeOnward DEF diary, history
<1>2. \A o \in Orders : Recorded(o)' <=> Recorded(o)
  BY <1>1, SameRecorded DEF DiaryTidy
<1>3. \A o \in Orders : closing[o] # NULL => closing'[o].at = closing[o].at
  BY OutsideMoves DEF Prompted
<1>4. ASSUME NEW o \in Orders, NEW t \in Nat, Prompt(o)', closing'[o].at <= t, Past(t)
      PROVE  Prompt(o) /\ closing'[o].at = closing[o].at
  BY <1>4, OutsideMoves DEF Prompted, Prompt
<1>5. since # NULL => account.lastSync \in Nat /\ Past(account.lastSync) /\ Past(account.lastSync)'
  <2> SUFFICES ASSUME since # NULL
               PROVE  account.lastSync \in Nat /\ Past(account.lastSync) /\ Past(account.lastSync)'
    OBVIOUS
  <2>1. account.lastSync \in Nat /\ Past(account.lastSync)
    BY Times DEF Announcing, Syncs, Sound
  <2> QED
    BY <1>1, <2>1, OutsideMoves DEF Prompted, Past
<1>6. AnnouncedOnce'
  <2>1. ASSUME NEW o \in Orders, told[o] > 0 PROVE Recorded(o)' /\ closing'[o].at > since
    <3>1. Recorded(o) /\ closing[o].at > since /\ closing[o] # NULL
      BY <2>1, ToldIsRecorded DEF Announcing, AnnouncedOnce
    <3> QED
      BY <1>2, <1>3, <3>1
  <2>2. ASSUME NEW o \in Orders, Prompt(o)', since # NULL, closing'[o].at > since, closing'[o].at <= account.lastSync
        PROVE  told[o] > 0 \/ "unsent" \in mishaps
    <3>1. Prompt(o) /\ closing'[o].at = closing[o].at
      BY <1>4, <1>5, <2>2
    <3> QED
      BY <2>2, <3>1 DEF Announcing, AnnouncedOnce, Prompt
  <2> QED
    BY <1>1, <2>1, <2>2 DEF Announcing, AnnouncedOnce, Prompt
<1>7. Told'
  <2>1. \A o \in Orders : ToldNow(o)' <=> ToldNow(o)
    BY <1>1 DEF ToldNow
  <2>2. ASSUME NEW o \in Orders, told[o] > 0
        PROVE  since # NULL /\ ("interrupted" \in mishaps \/ closing'[o].at <= account.lastSync \/ ToldNow(o))
    BY <1>3, <2>2, ToldIsRecorded DEF Announcing, Told
  <2> QED
    BY <1>1, <2>1, <2>2 DEF Announcing, Told, Present
<1>8. ASSUME NEW r \in Runs PROVE Telling(run[r])'
  <2>1. ASSUME run[r].pc = "tell", NEW n \in run[r].news
        PROVE  closing'[n.order].at > account.lastSync
    BY <1>3, <2>1, NewsAre
  <2>2. ASSUME run[r].pc = "tell", account.lastSync # NULL, NEW o \in Orders, Prompt(o)',
               closing'[o].at > account.lastSync, closing'[o].at <= run[r].now
        PROVE  told[o] > 0 \/ "unsent" \in mishaps \/ \E n \in run[r].news : n.order = o
    <3>1. run[r].now \in Nat /\ Past(run[r].now)
      BY <2>2, Times DEF Prompted, InTime, Later, Sound
    <3>2. Prompt(o) /\ closing'[o].at = closing[o].at
      BY <1>4, <2>2, <3>1
    <3> QED
      BY <2>2, <3>2 DEF Announcing, Telling
  <2> QED
    BY <1>1, <2>1, <2>2 DEF Announcing, Telling, Present
<1> QED
  BY <1>1, <1>5, <1>6, <1>7, <1>8 DEF Announcing, OneRowEach, Syncs, Present

\* A step of a run that has no news before or after.
LEMMA NoNewsAnnouncing ==
    ASSUME OneAtATime, Sound, Sound', DiaryTidy, Grows, Announcing, NEW r \in Runs,
           UNCHANGED <<closing, told, mishaps, since>>, account'.lastSync = account.lastSync,
           \A t \in Nat : Past(t) => Past(t)',
           run[r].pc # "tell", run'[r].pc # "tell",
           run'[r].pc # "idle" => run'[r].seen.lastSync = account.lastSync,
           run'[r].pc \in Windows \cup Later /\ account.lastSync # NULL => account.lastSync <= run'[r].now,
           OneRowEach',
           \A i \in notified' : row'[i] # NULL => ~row'[i].open /\ told[row'[i].order] > 0
    PROVE  Announcing'
<1>1. \A o \in Orders : ~ToldNow(o)
  BY DEF ToldNow, OneAtATime
<1>2. \A o \in Orders : Prompt(o)' <=> Prompt(o)
  BY DEF Prompt
<1>3. Syncs'
  <2>1. since # NULL => account.lastSync \in Nat /\ Past(account.lastSync)
    BY Times DEF Announcing, Syncs, Sound
  <2>2. since # NULL => Past(account.lastSync)'
    BY <2>1 DEF Past
  <2> QED
    BY <2>2 DEF Announcing, Syncs
<1>4. Told'
  BY <1>1 DEF Announcing, Told, Present
<1>5. AnnouncedOnce'
  BY DEF Announcing, AnnouncedOnce, Grows
<1>6. Telling(run[r])'
  BY DEF Telling
<1> QED
  BY <1>3, <1>4, <1>5, <1>6 DEF Announcing, OneAtATime

\* The steps of a run before it has news that write no row.
LEMMA ReadingAnnouncing ==
    ASSUME OneAtATime, Sound, Sound', DiaryTidy, Grows, Covered, Prompted, Announcing, NEW r \in Runs,
           \/ ReadAccount(r) \/ Begin(r) \/ FetchClosed(r) \/ AdvanceCursor(r)
           \/ \E o \in Orders : FindOpenRow(r, o)
           \/ FindConflicting(r) \/ FetchOpen(r) \/ FindTracked(r)
    PROVE  Announcing'
<1>1. run[r] \in Run /\ run \in [Runs -> Run] /\ run' \in [Runs -> Run] /\ Telling(run[r])
  BY RunIs DEF Sound, TypeOK, Announcing
<1>2. UNCHANGED <<row, notified, closing, told, mishaps, since>> /\ account'.lastSync = account.lastSync
  BY DEF ReadAccount, Begin, FetchClosed, AdvanceCursor, FindOpenRow, FindConflicting, FetchOpen,
     FindTracked, exchange, diary, history, Sound, TypeOK, Account
<1>3. \A t \in Nat : Past(t) => Past(t)'
  <2>1. clock' = clock \/ clock' = Least(clock + 1, MaxTime)
    BY DEF ReadAccount, Begin, FetchClosed, AdvanceCursor, FindOpenRow, FindConflicting, FetchOpen, FindTracked
  <2>2. clock \in Nat /\ MaxTime \in Nat /\ clock <= MaxTime
    BY Times DEF Sound
  <2> QED
    BY <2>1, <2>2 DEF Past, Least
<1>4. SUFFICES
        /\ run[r].pc # "tell" /\ run'[r].pc # "tell" /\ run'[r].seen.lastSync = account.lastSync
        /\ run'[r].pc \in Windows \cup Later /\ account.lastSync # NULL => account.lastSync <= run'[r].now
  <2>1. OneRowEach'
    BY <1>2 DEF Announcing, OneRowEach, Present
  <2>2. \A i \in notified' : row'[i] # NULL => ~row'[i].open /\ told[row'[i].order] > 0
    BY <1>2 DEF Announcing, Told, Present
  <2> QED
    BY <1>2, <1>3, <1>4, <2>1, <2>2, NoNewsAnnouncing
<1>5. CASE ReadAccount(r)
  <2>1. run[r].pc = "idle" /\ run'[r] = [Idle EXCEPT !.pc = "begin", !.seen = account]
    BY <1>1, <1>5 DEF ReadAccount, At
  <2>2. run'[r].pc = "begin" /\ run'[r].seen = account
    BY <2>1, IdleIsRun DEF Run
  <2> QED
    BY <2>1, <2>2 DEF Windows, Writing, Later
<1>6. CASE Begin(r)
  <2> DEFINE had == [run[r] EXCEPT !.now = clock]
             start == WindowStart(run[r].seen.cursor)
  <2>1. run[r].pc = "begin" /\ run'[r] = OpenWindow(had, start)
    BY <1>1, <1>6 DEF Begin, At
  <2>2. had \in Run /\ had.now = clock /\ had.seen = run[r].seen
    BY <1>1 DEF Sound, TypeOK, Run
  <2> HIDE DEF had, start
  <2>3. run'[r].pc \in {"fetch", "snapshot"} /\ run'[r].now = clock /\ run'[r].seen = run[r].seen
    BY <2>1, <2>2, OpensWindow
  <2>4. account.lastSync # NULL => account.lastSync <= clock
    <3>1. account.lastSync # NULL => account.lastSync \in Nat /\ Past(account.lastSync)
      BY Times DEF Announcing, Syncs, Sound
    <3>2. account.lastSync # NULL => account.lastSync <= MaxTime
      BY DEF Sound, TypeOK, Account, Time
    <3>3. clock \in Nat /\ MaxTime \in Nat
      BY Times DEF Sound
    <3> QED
      BY <3>1, <3>2, <3>3 DEF Past
  <2> QED
    BY <1>1, <2>1, <2>3, <2>4 DEF Telling
<1>7. ASSUME run[r].pc \in Windows \cup Later, run[r].pc # "tell", run'[r].pc # "tell",
             run'[r].seen = run[r].seen, run'[r].now = run[r].now
      PROVE  /\ run[r].pc # "tell" /\ run'[r].pc # "tell" /\ run'[r].seen.lastSync = account.lastSync
             /\ account.lastSync # NULL => account.lastSync <= run'[r].now
  BY <1>1, <1>7 DEF Telling, Windows, Writing, Later
<1>8. CASE AdvanceCursor(r)
  <2>1. run[r].pc = "next" /\ run'[r] = OpenWindow(run[r], run[r].to)
    BY <1>1, <1>8 DEF AdvanceCursor, At
  <2>2. run'[r].pc \in {"fetch", "snapshot"} /\ run'[r].now = run[r].now /\ run'[r].seen = run[r].seen
    BY <1>1, <2>1, OpensWindow
  <2> QED
    BY <1>7, <2>1, <2>2 DEF Windows, Writing
<1>9. CASE FetchClosed(r) \/ FetchOpen(r)
  <2>1. /\ run[r].pc \in {"fetch", "snapshot"} /\ run'[r].pc \in {"next", "collect", "findLive"}
        /\ run'[r].now = run[r].now /\ run'[r].seen = run[r].seen
    BY <1>1, <1>9 DEF FetchClosed, FetchOpen, At, Run
  <2> QED
    BY <1>7, <2>1 DEF Windows, Later
<1>10. CASE (\E o \in Orders : FindOpenRow(r, o)) \/ FindConflicting(r) \/ FindTracked(r)
  <2>1. ASSUME NEW o \in Orders, FindOpenRow(r, o)
        PROVE  /\ run'[r].pc \in {"conflict", "upsert"}
               /\ run'[r].now = run[r].now /\ run'[r].seen = run[r].seen
    <3>1. CASE \E i \in Open : run' = [run EXCEPT ![r].pc = "conflict", ![r].rec = o, ![r].mine = i]
      <4>1. PICK i \in Open : run' = [run EXCEPT ![r].pc = "conflict", ![r].rec = o, ![r].mine = i]
        BY <3>1
      <4>2. run'[r] = [run[r] EXCEPT !.pc = "conflict", !.rec = o, !.mine = i]
        BY <1>1, <4>1
      <4> QED
        BY <1>1, <4>2 DEF Run
    <3>2. CASE run' = [run EXCEPT ![r].pc = "upsert", ![r].rec = o]
      <4>1. run'[r] = [run[r] EXCEPT !.pc = "upsert", !.rec = o]
        BY <1>1, <3>2
      <4> QED
        BY <1>1, <4>1 DEF Run
    <3> QED
      BY <2>1, <3>1, <3>2 DEF FindOpenRow
  <2>2. ASSUME FindConflicting(r)
        PROVE  run'[r].pc = "write" /\ run'[r].now = run[r].now /\ run'[r].seen = run[r].seen
    <3>1. PICK i : run' = [run EXCEPT ![r].pc = "write", ![r].other = i]
      BY <2>2 DEF FindConflicting
    <3>2. run'[r] = [run[r] EXCEPT !.pc = "write", !.other = i]
      BY <1>1, <3>1
    <3> QED
      BY <1>1, <3>2 DEF Run
  <2>4. ASSUME FindTracked(r)
        PROVE  run'[r].pc = "writeLive" /\ run'[r].now = run[r].now /\ run'[r].seen = run[r].seen
    <3>1. PICK i : run' = [run EXCEPT ![r].pc = "writeLive", ![r].mine = i]
      BY <2>4 DEF FindTracked
    <3>2. run'[r] = [run[r] EXCEPT !.pc = "writeLive", !.mine = i]
      BY <1>1, <3>1
    <3> QED
      BY <1>1, <3>2 DEF Run
  <2>3. run[r].pc \in {"next", "conflict", "findLive"}
    BY <1>10 DEF FindOpenRow, FindConflicting, FindTracked, At
  <2> QED
    BY <1>7, <1>10, <2>1, <2>2, <2>3, <2>4 DEF Windows, Writing, Later
<1> QED
  BY <1>5, <1>6, <1>8, <1>9, <1>10

LEMMA WritingAnnouncing ==
    ASSUME OneAtATime, Sound, Sound', DiaryTidy, Grows, Announcing, NEW r \in Runs,
           WriteClosed(r) \/ UpsertClosed(r) \/ WriteOpen(r)
    PROVE  Announcing'
<1>1. run[r] \in Run /\ run \in [Runs -> Run] /\ Telling(run[r])
  BY RunIs DEF Sound, TypeOK, Announcing
<1>2. UNCHANGED <<clock, account, closing, told, mishaps, since>>
  BY DEF WriteClosed, UpsertClosed, WriteOpen, exchange, history
<1>3. /\ run[r].pc \in Windows \cup Later /\ run[r].pc # "tell" /\ run[r].pc # "idle"
      /\ run'[r].pc \in {"next", "collect"} /\ run'[r].now = run[r].now /\ run'[r].seen = run[r].seen
  <2>1. CASE WriteClosed(r) \/ UpsertClosed(r)
    <3>1. run[r].pc \in {"write", "upsert"} /\ Written(r)
      BY <2>1 DEF WriteClosed, UpsertClosed, At
    <3>2. PICK todo : todo = run[r].todo \ {run[r].rec}
      OBVIOUS
    <3>3. run'[r] = [run[r] EXCEPT !.pc = "next", !.todo = todo, !.rec = NULL, !.mine = NULL, !.other = NULL]
      BY <1>1, <3>1, <3>2 DEF Written
    <3> QED
      BY <1>1, <3>1, <3>3 DEF Run, Windows, Writing
  <2>2. CASE WriteOpen(r)
    <3>1. run[r].pc = "writeLive" /\ run'[r] = [run[r] EXCEPT !.pc = "collect", !.mine = NULL, !.live = NULL]
      BY <1>1, <2>2 DEF WriteOpen, At
    <3> QED
      BY <1>1, <3>1 DEF Run, Later
  <2> QED
    BY <2>1, <2>2
<1>4. /\ run'[r].seen.lastSync = account.lastSync
      /\ account.lastSync # NULL => account.lastSync <= run'[r].now
  BY <1>1, <1>3 DEF Telling
<1>5. \A i \in notified : i \in RowIds
  BY DEF Sound, TypeOK
<1>6. OneRowEach' /\ \A i \in notified' : row'[i] # NULL => ~row'[i].open /\ told[row'[i].order] > 0
  <2>1. CASE WriteClosed(r) \/ UpsertClosed(r)
    <3>1. PICK o : o = run[r].rec
      OBVIOUS
    <3>2. /\ o \in Orders /\ closing[o] # NULL /\ notified' \subseteq notified
          /\ \E i \in RowIds :
                /\ row'[i] = ClosedBy(o)
                /\ \A j \in RowIds : j # i /\ row'[j] # NULL =>
                      row'[j] = row[j] /\ (OneRowEach => row[j].order # o)
                /\ i \in notified' => Present(i) /\ (row[i].open \/ row[i].order = o)
      BY <2>1, <3>1, ClosedRowWritten
    <3>3. PICK i \in RowIds :
             /\ row'[i] = ClosedBy(o)
             /\ \A j \in RowIds : j # i /\ row'[j] # NULL => row'[j] = row[j] /\ row[j].order # o
             /\ i \in notified' => Present(i) /\ (row[i].open \/ row[i].order = o)
      BY <3>2 DEF Announcing
    <3>4. ~ClosedBy(o).open /\ ClosedBy(o).order = o
      BY DEF ClosedBy
    <3>5. OneRowEach'
      <4> SUFFICES ASSUME NEW j \in RowIds, NEW k \in RowIds, row'[j] # NULL, row'[k] # NULL,
                          row'[j].order # NULL, row'[j].order = row'[k].order
                   PROVE  j = k
        BY DEF OneRowEach, Present
      <4>1. CASE j # i /\ k # i
        BY <3>3, <4>1 DEF Announcing, OneRowEach, Present
      <4>2. CASE j = i \/ k = i
        BY <3>3, <3>4, <4>2
      <4> QED
        BY <4>1, <4>2
    <3>6. ASSUME NEW j \in notified', row'[j] # NULL PROVE ~row'[j].open /\ told[row'[j].order] > 0
      <4>1. CASE j # i
        BY <1>5, <3>2, <3>3, <3>6, <4>1 DEF Announcing, Told, Present
      <4>2. CASE j = i
        BY <3>2, <3>3, <3>4, <3>6, <4>2 DEF Announcing, Told
      <4> QED
        BY <4>1, <4>2
    <3> QED
      BY <3>5, <3>6
  <2>2. CASE WriteOpen(r)
    <3>1. notified' \subseteq notified
      BY <2>2, OpenRowWritten
    <3>2. PICK i \in RowIds :
             /\ row'[i] # NULL /\ row'[i].open /\ row'[i].order = NULL
             /\ \A j \in RowIds : j # i => row'[j] = row[j]
             /\ Present(i) => row[i].open
             /\ i \in notified' => Present(i)
      BY <2>2, OpenRowWritten
    <3>3. OneRowEach'
      BY <3>2 DEF Announcing, OneRowEach, Present
    <3>4. ASSUME NEW j \in notified', row'[j] # NULL PROVE ~row'[j].open /\ told[row'[j].order] > 0
      BY <1>5, <3>1, <3>2, <3>4 DEF Announcing, Told, Present
    <3> QED
      BY <3>3, <3>4
  <2> QED
    BY <2>1, <2>2
<1>7. \A t \in Nat : Past(t) => Past(t)'
  BY <1>2 DEF Past
<1>8. account'.lastSync = account.lastSync /\ run'[r].pc # "tell"
  BY <1>2, <1>3
<1> QED
  BY <1>2, <1>3, <1>4, <1>6, <1>7, <1>8, NoNewsAnnouncing

LEMMA CollectAnnouncing ==
    ASSUME OneAtATime, Sound, Sound', DiaryTidy, Grows, Prompted, Announcing, NEW r \in Runs, Collect(r)
    PROVE  Announcing'
<1> DEFINE news == IF run[r].seen.lastSync = NULL THEN {}
                   ELSE {[row |-> i, order |-> row[i].order] :
                           i \in {j \in RowIds \ Open : Present(j) /\ NewlyClosed(row[j].order, run[r])}}
<1>1. /\ run[r] \in Run /\ run[r].pc = "collect" /\ Telling(run[r]) /\ InTime(run[r])
      /\ run'[r] = [run[r] EXCEPT !.pc = "tell", !.news = news]
  BY RunIs DEF Collect, At, Sound, TypeOK, Announcing, Prompted
<1>2. UNCHANGED <<clock, closing, row, account, notified, told, mishaps, since>>
  BY DEF Collect, exchange, diary, history
<1>3. run[r].seen.lastSync = account.lastSync /\ (account.lastSync # NULL => account.lastSync <= run[r].now)
  BY <1>1 DEF Telling, Later
<1>4. ASSUME NEW n \in news
      PROVE  /\ account.lastSync # NULL /\ closing[n.order].at > account.lastSync
             /\ Present(n.row) /\ ~row[n.row].open /\ row[n.row].order = n.order
  BY <1>3, <1>4 DEF NewlyClosed, Open
<1>5. ASSUME account.lastSync # NULL, NEW o \in Orders, Prompt(o),
             closing[o].at > account.lastSync, closing[o].at <= run[r].now
      PROVE  \E n \in news : n.order = o
  <2>1. Recorded(o)
    BY <1>1, <1>5 DEF InTime, Later
  <2>2. PICK i \in RowsOf(o) : row[i] = ClosedBy(o)
    BY <2>1 DEF Recorded
  <2>3. i \in RowIds \ Open /\ Present(i) /\ row[i].order = o
    BY <2>2 DEF RowsOf, ClosedBy, Open
  <2>4. NewlyClosed(row[i].order, run[r])
    BY <1>3, <1>5, <2>3 DEF NewlyClosed
  <2>5. [row |-> i, order |-> row[i].order] \in news
    BY <1>3, <1>5, <2>3, <2>4
  <2> QED
    BY <2>3, <2>5
<1> HIDE DEF news
<1>6. /\ run'[r].pc = "tell" /\ run'[r].news = news
      /\ run'[r].now = run[r].now /\ run'[r].seen = run[r].seen
  BY <1>1 DEF Run
<1>7. Telling(run[r])'
  BY <1>2, <1>3, <1>4, <1>5, <1>6 DEF Telling, Prompt, Present
<1>8. \A o \in Orders : ~ToldNow(o)
  BY <1>1 DEF ToldNow, OneAtATime
<1>9. Told'
  BY <1>2, <1>8 DEF Announcing, Told, Present
<1>10. AnnouncedOnce'
  BY <1>2 DEF Announcing, AnnouncedOnce, Grows
<1>11. OneRowEach' /\ Syncs'
  BY <1>2 DEF Announcing, OneRowEach, Present, Syncs, Past
<1> QED
  BY <1>7, <1>9, <1>10, <1>11 DEF Announcing, OneAtATime

LEMMA AnnounceAnnouncing ==
    ASSUME OneAtATime, Sound, Sound', DiaryTidy, Grows, Announcing, NEW r \in Runs,
           NEW news \in run[r].news, Announce(r, news)
    PROVE  Announcing'
<1>1. /\ run[r] \in Run /\ run[r].pc = "tell" /\ Telling(run[r])
      /\ run'[r] = [run[r] EXCEPT !.news = @ \ {news}]
  BY RunIs DEF Announce, At, Sound, TypeOK, Announcing
<1>2. UNCHANGED <<clock, closing, row, account, mishaps, since>> /\ notified' = notified \cup {news.row}
  BY DEF Announce, exchange, diary
<1>3. /\ run'[r].pc = "tell" /\ run'[r].news = run[r].news \ {news}
      /\ run'[r].now = run[r].now /\ run'[r].seen = run[r].seen
  BY <1>1 DEF Run
<1>4. PICK o \in Orders :
         /\ o = news.order /\ news.row \in RowIds /\ Recorded(o) /\ closing[o] # NULL
         /\ Present(news.row) /\ ~row[news.row].open /\ row[news.row].order = o
         /\ account.lastSync # NULL /\ closing[o].at > account.lastSync
  BY <1>1, NewsAre
<1>5. /\ \A x \in Orders : x # o => told'[x] = told[x]
      /\ told'[o] = IF news.row \notin notified /\ told[o] < 2 THEN told[o] + 1 ELSE told[o]
  BY <1>4 DEF Announce, Sound, TypeOK
<1>6. told[o] \in Nat /\ \A x \in Orders : told[x] \in Nat
  BY Times DEF Sound
<1>7. news.row \in notified => told[o] > 0
  BY <1>4 DEF Announcing, Told
<1>8. told'[o] > 0 /\ \A x \in Orders : told[x] > 0 => told'[x] > 0
  BY <1>5, <1>6, <1>7
<1>9. told[o] > 0 => "interrupted" \in mishaps
  <2>1. ~ToldNow(o)
    BY <1>1, <1>4 DEF ToldNow, OneAtATime
  <2>2. ~(closing[o].at <= account.lastSync)
    <3>1. closing[o].at \in Nat /\ account.lastSync \in Nat
      BY <1>4, Times DEF Sound
    <3> QED
      BY <1>4, <3>1
  <2> QED
    BY <2>1, <2>2 DEF Announcing, Told
<1>10. since # NULL /\ closing[o].at > since
  <2>1. since # NULL /\ since <= account.lastSync
    BY <1>4 DEF Announcing, Syncs
  <2>2. closing[o].at \in Nat /\ account.lastSync \in Nat /\ since \in Nat
    BY <1>4, <2>1, Times DEF Sound
  <2> QED
    BY <1>4, <2>1, <2>2
<1>11. AnnouncedOnce'
  <2>1. ASSUME NEW x \in Orders
        PROVE  /\ told'[x] > 1 => "interrupted" \in mishaps
               /\ told'[x] > 0 => Recorded(x)' /\ closing[x].at > since
    <3>1. CASE x = o
      <4>1. told'[o] > 1 => told[o] > 0
        BY <1>5, <1>6
      <4> QED
        BY <1>4, <1>9, <1>10, <3>1, <4>1 DEF Grows
    <3>2. CASE x # o
      BY <1>5, <3>2 DEF Announcing, AnnouncedOnce, Grows
    <3> QED
      BY <3>1, <3>2
  <2>2. ASSUME NEW x \in Orders, Prompt(x), since # NULL, closing[x].at > since, closing[x].at <= account.lastSync
        PROVE  told'[x] > 0 \/ "unsent" \in mishaps
    BY <1>8, <2>2 DEF Announcing, AnnouncedOnce, Prompt
  <2> QED
    BY <1>2, <2>1, <2>2 DEF AnnouncedOnce, Prompt
<1>12. Told'
  <2>1. ASSUME NEW m \in run'[r].news PROVE m.order # o
    <3>1. m \in run[r].news /\ m # news
      BY <1>3, <2>1
    <3>2. m.row \in RowIds /\ m = [row |-> m.row, order |-> m.order] /\ Present(m.row) /\ row[m.row].order = m.order
          /\ news = [row |-> news.row, order |-> o]
      BY <1>1, <1>4, <3>1, NewsAre
    <3>3. m.order = o => m.row = news.row
      BY <1>4, <3>2, SyncAssumption DEF Announcing, OneRowEach
    <3> QED
      BY <3>1, <3>2, <3>3
  <2>2. ToldNow(o)'
    BY <1>3, <2>1 DEF ToldNow
  <2>3. \A x \in Orders : ToldNow(x) => ToldNow(x)'
    BY <1>1, <1>3 DEF ToldNow, OneAtATime
  <2>4. ASSUME NEW x \in Orders, told'[x] > 0
        PROVE  since # NULL /\ ("interrupted" \in mishaps \/ closing[x].at <= account.lastSync \/ ToldNow(x)')
    BY <1>5, <1>10, <2>2, <2>3, <2>4 DEF Announcing, Told
  <2>5. ASSUME NEW i \in notified', Present(i) PROVE ~row[i].open /\ told'[row[i].order] > 0
    <3>1. CASE i = news.row
      BY <1>4, <1>8, <3>1
    <3>2. CASE i # news.row
      <4>1. i \in RowIds /\ ~row[i].open /\ told[row[i].order] > 0
        BY <1>2, <2>5, <3>2 DEF Announcing, Told, Sound, TypeOK
      <4>2. row[i].order \in Orders
        BY <2>5, <4>1, RowsAre DEF Sound, ClosedHasOrder, Row
      <4> QED
        BY <1>8, <4>1, <4>2
    <3> QED
      BY <3>1, <3>2
  <2> QED
    BY <1>2, <2>4, <2>5 DEF Told, Present
<1>13. Telling(run[r])'
  <2>1. ASSUME account.lastSync # NULL, NEW x \in Orders, Prompt(x),
               closing[x].at > account.lastSync, closing[x].at <= run[r].now
        PROVE  told'[x] > 0 \/ "unsent" \in mishaps \/ \E n \in run'[r].news : n.order = x
    <3>1. told[x] > 0 \/ "unsent" \in mishaps \/ \E n \in run[r].news : n.order = x
      BY <1>1, <2>1 DEF Telling
    <3>2. ASSUME NEW n \in run[r].news, n.order = x
          PROVE  x = o \/ \E m \in run'[r].news : m.order = x
      BY <1>3, <1>4, <3>2
    <3> QED
      BY <1>8, <3>1, <3>2
  <2> QED
    BY <1>1, <1>2, <1>3, <2>1 DEF Telling, Prompt, Present, Later
<1>14. OneRowEach' /\ Syncs'
  BY <1>2 DEF Announcing, OneRowEach, Present, Syncs, Past
<1> QED
  BY <1>11, <1>12, <1>13, <1>14 DEF Announcing, OneAtATime

LEMMA FailedAnnouncing ==
    ASSUME OneAtATime, Sound, Sound', DiaryTidy, Grows, Announcing, NEW r \in Runs,
           NEW news \in run[r].news, AnnounceFails(r, news)
    PROVE  Announcing'
<1>1. /\ run[r] \in Run /\ run[r].pc = "tell" /\ Telling(run[r])
      /\ run'[r] = [run[r] EXCEPT !.news = @ \ {news}]
  BY RunIs DEF AnnounceFails, At, Sound, TypeOK, Announcing
<1>2. UNCHANGED <<clock, closing, row, account, notified, told, since>> /\ mishaps' = mishaps \cup {"unsent"}
  BY DEF AnnounceFails, exchange, diary
<1>3. /\ run'[r].pc = "tell" /\ run'[r].news = run[r].news \ {news}
      /\ run'[r].now = run[r].now /\ run'[r].seen = run[r].seen
  BY <1>1 DEF Run
<1>4. \A x \in Orders : ToldNow(x) => ToldNow(x)'
  BY <1>1, <1>3 DEF ToldNow, OneAtATime
<1>5. Told'
  BY <1>2, <1>4 DEF Announcing, Told, Present
<1>6. AnnouncedOnce'
  BY <1>2 DEF Announcing, AnnouncedOnce, Grows
<1>7. Telling(run[r])'
  BY <1>1, <1>2, <1>3 DEF Telling, Present
<1>8. OneRowEach' /\ Syncs'
  BY <1>2 DEF Announcing, OneRowEach, Present, Syncs, Past
<1> QED
  BY <1>5, <1>6, <1>7, <1>8 DEF Announcing, OneAtATime

LEMMA FinishAnnouncing ==
    ASSUME OneAtATime, Sound, Sound', DiaryTidy, Grows, Prompted, Announcing, NEW r \in Runs, Finish(r)
    PROVE  Announcing'
<1>1. /\ run[r] \in Run /\ run[r].pc = "tell" /\ run[r].news = {} /\ Telling(run[r]) /\ InTime(run[r])
      /\ run'[r].pc = "idle" /\ run[r].now \in Nat
  BY RunIs, IdleIsRun, Times DEF Finish, At, Sound, TypeOK, Announcing, Prompted
<1>2. /\ UNCHANGED <<clock, closing, row, notified, told, mishaps>>
      /\ account'.lastSync = run[r].now
      /\ since' = IF since = NULL THEN run[r].now ELSE since
  BY DEF Finish, exchange, diary, Sound, TypeOK, Account
<1>3. /\ Past(run[r].now) /\ \A o \in Orders : Recorded(o) => closing[o].at <= run[r].now
      /\ account.lastSync # NULL => account.lastSync <= run[r].now
  BY <1>1 DEF InTime, Telling, Later
<1>4. Syncs'
  <2>1. since' # NULL /\ account'.lastSync # NULL /\ since' <= run[r].now
    <3>1. CASE since = NULL
      BY <1>1, <1>2, <3>1, Times DEF Sound
    <3>2. CASE since # NULL
      <4>1. account.lastSync # NULL /\ since <= account.lastSync /\ account.lastSync <= run[r].now
        BY <1>3, <3>2 DEF Announcing, Syncs
      <4>2. account.lastSync \in Nat /\ since \in Nat
        BY <3>2, <4>1, Times DEF Sound
      <4> QED
        BY <1>1, <1>2, <3>2, <4>1, <4>2, Times DEF Sound
    <3> QED
      BY <3>1, <3>2
  <2>2. Past(account.lastSync)'
    BY <1>2, <1>3 DEF Past
  <2> QED
    BY <1>2, <2>1, <2>2 DEF Syncs
<1>5. ASSUME NEW o \in Orders, told[o] > 0
      PROVE  since # NULL /\ since' = since /\ closing[o].at <= account'.lastSync
  BY <1>2, <1>3, <1>5, ToldIsRecorded
<1>6. Told'
  BY <1>2, <1>5 DEF Announcing, Told, Present
<1>7. ASSUME NEW o \in Orders, Prompt(o), closing[o].at > since', closing[o].at <= run[r].now
      PROVE  told[o] > 0 \/ "unsent" \in mishaps
  <2>1. closing[o].at \in Nat
    BY <1>7, Times DEF Sound, Prompt
  <2>2. since # NULL /\ closing[o].at > since
    BY <1>1, <1>2, <1>7, <2>1
  <2>3. account.lastSync # NULL /\ account.lastSync \in Nat
    BY <2>2, Times DEF Announcing, Syncs, Sound
  <2>4. CASE closing[o].at <= account.lastSync
    BY <1>7, <2>2, <2>4 DEF Announcing, AnnouncedOnce, Prompt
  <2>5. CASE closing[o].at > account.lastSync
    BY <1>1, <1>7, <2>3, <2>5 DEF Telling
  <2> QED
    BY <2>1, <2>3, <2>4, <2>5
<1>8. AnnouncedOnce'
  <2>1. \A o \in Orders : /\ told[o] > 1 => "interrupted" \in mishaps
                          /\ told[o] > 0 => Recorded(o)' /\ closing[o].at > since'
    BY <1>5 DEF Announcing, AnnouncedOnce, Grows
  <2> QED
    BY <1>2, <1>7, <2>1 DEF AnnouncedOnce, Prompt
<1>9. Telling(run[r])'
  BY <1>1 DEF Telling, Windows, Writing, Later
<1>10. OneRowEach'
  BY <1>2 DEF Announcing, OneRowEach, Present
<1> QED
  BY <1>4, <1>6, <1>8, <1>9, <1>10 DEF Announcing, OneAtATime

LEMMA FailAnnouncing ==
    ASSUME OneAtATime, Sound, Sound', DiaryTidy, Grows, Announcing, NEW r \in Runs, Fail(r)
    PROVE  Announcing'
<1>1. run'[r].pc = "idle"
  BY IdleIsRun DEF Fail, Sound, TypeOK
<1>2. UNCHANGED <<clock, closing, row, account, notified, told, since>> /\ mishaps' = mishaps \cup {"interrupted"}
  BY DEF Fail, exchange, diary
<1>3. Told'
  BY <1>2 DEF Announcing, Told, Present
<1>4. AnnouncedOnce'
  BY <1>2 DEF Announcing, AnnouncedOnce, Grows
<1>5. Telling(run[r])'
  BY <1>1 DEF Telling, Windows, Writing, Later
<1>6. OneRowEach' /\ Syncs'
  BY <1>2 DEF Announcing, OneRowEach, Present, Syncs, Past
<1> QED
  BY <1>3, <1>4, <1>5, <1>6 DEF Announcing, OneAtATime

LEMMA NextAnnouncing ==
    ASSUME OneAtATime, Sound, Sound', DiaryTidy, Covered, Prompted, Announcing, [Next]_vars
    PROVE  Announcing'
<1>1. Grows
  BY NextTidy
<1>2. CASE Exchange
  BY <1>2, OutsideAnnouncing
<1>3. CASE User \/ UNCHANGED vars
  <2>1. UNCHANGED <<run, account, clock, closing, row, notified, told, mishaps, since>>
    BY <1>3 DEF User, AddPositionNote, RemovePositionNote, vars, exchange, diary, history
  <2>2. \A o \in Orders : (Prompt(o)' <=> Prompt(o)) /\ (ToldNow(o)' <=> ToldNow(o))
    BY <2>1 DEF Prompt, ToldNow
  <2>3. AnnouncedOnce'
    BY <1>1, <2>1 DEF Announcing, AnnouncedOnce, Grows
  <2> QED
    BY <2>1, <2>2, <2>3 DEF Announcing, OneRowEach, Present, Syncs, Past, Told, Telling
<1>4. ASSUME NEW r \in Runs, Step(r) \/ Fail(r) PROVE Announcing'
  <2>1. CASE \/ ReadAccount(r) \/ Begin(r) \/ FetchClosed(r) \/ AdvanceCursor(r)
             \/ \E o \in Orders : FindOpenRow(r, o)
             \/ FindConflicting(r) \/ FetchOpen(r) \/ FindTracked(r)
    BY <1>1, <2>1, ReadingAnnouncing
  <2>2. CASE WriteClosed(r) \/ UpsertClosed(r) \/ WriteOpen(r)
    BY <1>1, <2>2, WritingAnnouncing
  <2>3. CASE Collect(r) \/ Finish(r) \/ Fail(r)
    BY <1>1, <2>3, CollectAnnouncing, FinishAnnouncing, FailAnnouncing
  <2>4. CASE \E news \in run[r].news : Announce(r, news) \/ AnnounceFails(r, news)
    BY <1>1, <2>4, AnnounceAnnouncing, FailedAnnouncing
  <2> QED
    BY <1>4, <2>1, <2>2, <2>3, <2>4 DEF Step
<1> QED
  BY <1>2, <1>3, <1>4 DEF Next

LEMMA InitAnnouncing == Init => Prompted /\ Announcing
<1> SUFFICES ASSUME Init PROVE Prompted /\ Announcing
  OBVIOUS
<1>1. /\ clock = 1 /\ account.cursor = NULL /\ account.lastSync = NULL /\ since = NULL
      /\ \A o \in Orders : closing[o] = NULL /\ told[o] = 0
      /\ \A i \in RowIds : ~Present(i)
      /\ notified = {} /\ \A r \in Runs : run[r].pc = "idle"
  BY IdleIsRun DEF Init, NeverSynced, Present
<1>2. Prompted
  BY <1>1 DEF Prompted, Timely, PromptsIn, InTime, Prompt, Windows, Writing, Later
<1>3. Announcing
  BY <1>1 DEF Announcing, OneRowEach, Syncs, Told, AnnouncedOnce, Telling, Windows, Writing, Later
<1> QED
  BY <1>2, <1>3

\* Every closing that the exchange lists at once is announced, when it came after the first run and
\* the announcement did not fail, and announced once unless a run was interrupted; and nothing
\* that is not in the diary is (notifyNewlyClosed, with runs one at a time).
THEOREM ClosingsAreAnnounced == ASSUME OneAtATime PROVE Spec => []AnnouncedOnce
<1>1. Init => Sound /\ DiaryTidy /\ Covered /\ Prompted /\ Announcing
  BY InitSound, InitTidy, InitCovered, InitAnnouncing
<1>2. Sound /\ DiaryTidy /\ Covered /\ Prompted /\ Announcing /\ [Next]_vars
         => Sound' /\ DiaryTidy' /\ Covered' /\ Prompted' /\ Announcing'
  BY NextSound, NextTidy, NextCovered, NextPrompted, NextAnnouncing
<1>3. Announcing => AnnouncedOnce
  BY DEF Announcing
<1> QED
  BY <1>1, <1>2, <1>3, PTL DEF Spec
=============================================================================
