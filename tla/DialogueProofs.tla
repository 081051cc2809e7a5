---------------------------- MODULE DialogueProofs ----------------------------
(***************************************************************************)
(* Theorems about Dialogue, with their proofs: what the bot records is     *)
(* what the user entered, and nothing points at a merged category.         *)
(*                                                                         *)
(* The dialogue is the subject of Faithful, which says nothing of presets. *)
(* What the loop of a merge leaves of these is a fold over them; it is     *)
(* followed as in Sums, by the smallest set of presets for which it would  *)
(* leave something else, and Saved says what it and the unique indexes     *)
(* keep.                                                                   *)
(***************************************************************************)
EXTENDS Dialogue, Sums, TLAPS

Pcs == {"idle", "name", "amount", "load", "record", "reset", "choose", "stat", "period",
        "preset", "rename"}

\* A request, whatever preset it names.
Slot(q) ==
    /\ q = [pc |-> q.pc, kind |-> q.kind, cat |-> q.cat, amount |-> q.amount,
            id |-> q.id, name |-> q.name, filters |-> q.filters]
    /\ q.pc \in Pcs /\ q.kind \in Kinds /\ q.cat \in Category /\ q.amount \in Amount
    /\ q.pc = "choose" => q.cat \in Cats

\* What a request names of a preset: the web application gives every name it asks for.
Named(q) ==
    /\ q.id \in Nat /\ q.name \in Names \cup {NULL} /\ q.filters \in SUBSET (Cats \cup {other})
    /\ q.pc \in {"preset", "rename"} => q.name \in Names

Typed ==
    /\ cats \subseteq Cats /\ bound \in Bounds
    /\ ops \in [Cats -> Nat]
    /\ dialogue \in State \cup {NULL}
    /\ req = [r \in Requests |-> req[r]] /\ \A r \in Requests : Slot(req[r])
    /\ entered \in [cat: Category, amount: Amount] /\ mixed \in BOOLEAN
    /\ merged \subseteq Cats /\ removed \subseteq Cats

\* A request of the bot: it reads or writes the dialogue.
Message(r) == req[r].pc \notin {"idle", "preset", "rename"}

\* A category that went does not come back, and a dialogue that is over has nothing entered.
Gone ==
    /\ (merged \cup removed) \cap cats = {}
    /\ dialogue = NULL => entered = Nothing

OneMessage == \A r, q \in Requests : Message(r) /\ Message(q) => r = q

\* What the row of the dialogue holds is what the user entered; an operation that has just been
\* recorded leaves the row to the reset that follows.
RowIsEntered ==
    dialogue # NULL =>
        /\ dialogue.at = "amount" => entered.cat = dialogue.cat
        /\ dialogue.at = "description" =>
              \/ entered.cat = dialogue.cat /\ entered.amount = dialogue.amount
              \/ \E r \in Requests : req[r].pc = "reset"

\* A message finds the step it was read for, unless a merge ended the dialogue meanwhile.
StepIsRead ==
    \A r \in Requests :
        /\ req[r].pc = "amount" => dialogue = NULL \/ dialogue.at = "amount"
        /\ req[r].pc = "load" => dialogue = NULL \/ dialogue.at = "description"
        /\ req[r].pc = "record" =>
              /\ dialogue = NULL \/ dialogue.at = "description"
              /\ \/ entered.cat = req[r].cat /\ entered.amount = req[r].amount
                 \/ req[r].cat \in merged

Faithful == Typed /\ Gone /\ (~mixed => OneMessage /\ RowIsEntered /\ StepIsRead)

-----------------------------------------------------------------------------
(* Records: what an assignment to some fields leaves of the others *)

LEMMA IdleSlot ==
    /\ Slot(Idle) /\ Idle.pc = "idle" /\ Named(Idle)
    /\ ~(Idle.pc \notin {"idle", "preset", "rename"})
BY DEF Idle, Slot, Named, Pcs, Kinds, Category, Amount

\* The slots that messages and requests of the web application begin with.
LEMMA PcSlot ==
    ASSUME NEW pc \in Pcs \ {"choose", "preset", "rename"}
    PROVE  LET v == [Idle EXCEPT !.pc = pc]
           IN Slot(v) /\ Named(v) /\ v.pc = pc
<1> DEFINE v == [Idle EXCEPT !.pc = pc]
<1>1. v = [pc |-> pc, kind |-> "expense", cat |-> NULL, amount |-> NULL,
           id |-> 0, name |-> NULL, filters |-> {}]
  BY DEF Idle
<1> HIDE DEF v
<1>2. Slot(v) /\ Named(v) /\ v.pc = pc
  BY <1>1 DEF Slot, Named, Kinds, Category, Amount
<1> QED
  BY <1>2 DEF v

LEMMA KindSlot ==
    ASSUME NEW pc \in Pcs \ {"choose", "preset", "rename"}, NEW kind \in Kinds
    PROVE  LET v == [Idle EXCEPT !.pc = pc, !.kind = kind]
           IN Slot(v) /\ Named(v) /\ v.pc = pc
<1> DEFINE v == [Idle EXCEPT !.pc = pc, !.kind = kind]
<1>1. v = [pc |-> pc, kind |-> kind, cat |-> NULL, amount |-> NULL,
           id |-> 0, name |-> NULL, filters |-> {}]
  <2> DEFINE f == [Idle EXCEPT !.pc = pc]
  <2>1. f = [pc |-> pc, kind |-> "expense", cat |-> NULL, amount |-> NULL,
             id |-> 0, name |-> NULL, filters |-> {}]
    BY DEF Idle
  <2>2. v = [f EXCEPT !.kind = kind]
    OBVIOUS
  <2> HIDE DEF v, f
  <2> QED  BY <2>1, <2>2
<1> HIDE DEF v
<1>2. Slot(v) /\ Named(v) /\ v.pc = pc
  BY <1>1 DEF Slot, Named, Kinds, Category, Amount
<1> QED
  BY <1>2 DEF v

LEMMA CatSlot ==
    ASSUME NEW pc \in Pcs \ {"preset", "rename"}, NEW cat \in Category, pc = "choose" => cat \in Cats
    PROVE  LET v == [Idle EXCEPT !.pc = pc, !.cat = cat]
           IN Slot(v) /\ Named(v) /\ v.pc = pc /\ v.cat = cat
<1> DEFINE v == [Idle EXCEPT !.pc = pc, !.cat = cat]
<1>1. v = [pc |-> pc, kind |-> "expense", cat |-> cat, amount |-> NULL,
           id |-> 0, name |-> NULL, filters |-> {}]
  <2> DEFINE f == [Idle EXCEPT !.pc = pc]
  <2>1. f = [pc |-> pc, kind |-> "expense", cat |-> NULL, amount |-> NULL,
             id |-> 0, name |-> NULL, filters |-> {}]
    BY DEF Idle
  <2>2. v = [f EXCEPT !.cat = cat]
    OBVIOUS
  <2> HIDE DEF v, f
  <2> QED  BY <2>1, <2>2
<1> HIDE DEF v
<1>2. Slot(v) /\ Named(v) /\ v.pc = pc /\ v.cat = cat
  BY <1>1 DEF Slot, Named, Kinds, Category, Amount
<1> QED
  BY <1>2 DEF v

LEMMA StatSlot ==
    ASSUME NEW pc \in Pcs \ {"choose", "preset", "rename"}, NEW kind \in Kinds, NEW cat \in Category
    PROVE  LET v == [Idle EXCEPT !.pc = pc, !.kind = kind, !.cat = cat]
           IN Slot(v) /\ Named(v) /\ v.pc = pc /\ v.cat = cat
<1> DEFINE v == [Idle EXCEPT !.pc = pc, !.kind = kind, !.cat = cat]
<1>1. v = [pc |-> pc, kind |-> kind, cat |-> cat, amount |-> NULL,
           id |-> 0, name |-> NULL, filters |-> {}]
  <2> DEFINE f == [Idle EXCEPT !.pc = pc]
             g == [f EXCEPT !.kind = kind]
  <2>1. f = [pc |-> pc, kind |-> "expense", cat |-> NULL, amount |-> NULL,
             id |-> 0, name |-> NULL, filters |-> {}]
    BY DEF Idle
  <2>2. g = [pc |-> pc, kind |-> kind, cat |-> NULL, amount |-> NULL,
             id |-> 0, name |-> NULL, filters |-> {}]
    <3> HIDE DEF f
    <3> QED  BY <2>1
  <2>3. v = [g EXCEPT !.cat = cat]
    OBVIOUS
  <2> HIDE DEF v, f, g
  <2> QED  BY <2>2, <2>3
<1> HIDE DEF v
<1>2. Slot(v) /\ Named(v) /\ v.pc = pc /\ v.cat = cat
  BY <1>1 DEF Slot, Named, Kinds, Category, Amount
<1> QED
  BY <1>2 DEF v

LEMMA NothingType == /\ Nothing \in [cat: Category, amount: Amount]
                     /\ Nothing.cat = NULL /\ Nothing.amount = NULL
BY DEF Nothing, Category, Amount

LEMMA PcEdit ==
    ASSUME NEW q, Slot(q), NEW pc \in Pcs \ {"choose"}
    PROVE  LET e == [q EXCEPT !.pc = pc]
           IN /\ Slot(e) /\ e.pc = pc /\ e.kind = q.kind /\ e.cat = q.cat /\ e.amount = q.amount
              /\ Named(q) /\ pc \notin {"preset", "rename"} => Named(e)
BY DEF Slot, Named

Loaded(q, cat, amount) == [q EXCEPT !.pc = "record", !.cat = cat, !.amount = amount]

LEMMA LoadEdit ==
    ASSUME NEW q, Slot(q), NEW cat \in Category, NEW amount \in Amount
    PROVE  /\ Slot(Loaded(q, cat, amount)) /\ Loaded(q, cat, amount).pc = "record"
           /\ Loaded(q, cat, amount).cat = cat /\ Loaded(q, cat, amount).amount = amount
           /\ Named(q) => Named(Loaded(q, cat, amount))
<1> DEFINE e == Loaded(q, cat, amount)
           f == [q EXCEPT !.pc = "record"]
           g == [f EXCEPT !.cat = cat]
<1>1. f = [pc |-> "record", kind |-> q.kind, cat |-> q.cat, amount |-> q.amount,
           id |-> q.id, name |-> q.name, filters |-> q.filters]
  BY DEF Slot
<1>2. g = [pc |-> "record", kind |-> q.kind, cat |-> cat, amount |-> q.amount,
           id |-> q.id, name |-> q.name, filters |-> q.filters]
  <2> HIDE DEF f
  <2> QED  BY <1>1
<1>3. e = [g EXCEPT !.amount = amount]
  BY DEF Loaded
<1> HIDE DEF e, f, g
<1>4. e = [pc |-> "record", kind |-> q.kind, cat |-> cat, amount |-> amount,
           id |-> q.id, name |-> q.name, filters |-> q.filters]
  BY <1>2, <1>3
<1>5. /\ Slot(e) /\ e.pc = "record" /\ e.cat = cat /\ e.amount = amount
      /\ Named(q) => Named(e)
  BY <1>4 DEF Slot, Named, Pcs
<1> QED
  BY <1>5 DEF e

LEMMA RowType ==
    ASSUME dialogue \in State \cup {NULL}
    PROVE  /\ Row \in State
           /\ Row.cat = IF dialogue = NULL THEN NULL ELSE dialogue.cat
BY DEF Row, State, Kinds, Category, Amount

\* The writes of the row: the step and the kind, and then one field more.
AtStep(row, at, kind) == [row EXCEPT !.at = at, !.kind = kind]

LEMMA AtStepEdit ==
    ASSUME NEW row \in State, NEW kind \in Kinds,
           NEW at \in {"name", "amount", "description", "period", "details"}
    PROVE  LET e == AtStep(row, at, kind)
           IN e \in State /\ e.at = at /\ e.cat = row.cat
BY DEF State, AtStep

WithAmount(row, at, kind, amount) == [row EXCEPT !.at = at, !.kind = kind, !.amount = amount]

LEMMA WithAmountEdit ==
    ASSUME NEW row \in State, NEW kind \in Kinds, NEW amount \in Amount,
           NEW at \in {"name", "amount", "description", "period", "details"}
    PROVE  LET e == WithAmount(row, at, kind, amount)
           IN e \in State /\ e.at = at /\ e.cat = row.cat /\ e.amount = amount
BY DEF State, WithAmount

WithCat(row, at, kind, cat) == [row EXCEPT !.at = at, !.kind = kind, !.cat = cat]

LEMMA WithCatEdit ==
    ASSUME NEW row \in State, NEW kind \in Kinds, NEW cat \in Category,
           NEW at \in {"name", "amount", "description", "period", "details"}
    PROVE  LET e == WithCat(row, at, kind, cat)
           IN e \in State /\ e.at = at /\ e.cat = cat
BY DEF State, WithCat

WithPeriod(row, at, kind) == [row EXCEPT !.at = at, !.kind = kind, !.period = TRUE]

LEMMA WithPeriodEdit ==
    ASSUME NEW row \in State, NEW kind \in Kinds,
           NEW at \in {"name", "amount", "description", "period", "details"}
    PROVE  LET e == WithPeriod(row, at, kind)
           IN e \in State /\ e.at = at /\ e.cat = row.cat
BY DEF State, WithPeriod

-----------------------------------------------------------------------------
(* Requests: what the steps of one leave of the others *)

LEMMA SlotsType ==
    ASSUME NEW f, f = [r \in Requests |-> f[r]], NEW r \in Requests, NEW v
    PROVE  LET g == [f EXCEPT ![r] = v]
           IN /\ g = [q \in Requests |-> g[q]]
              /\ g[r] = v /\ \A q \in Requests \ {r} : g[q] = f[q]
OBVIOUS

\* The request r is v from now on, and the others are as they were.
Becomes(r, v) ==
    /\ req' = [q \in Requests |-> req'[q]] /\ \A q \in Requests : Slot(req'[q])
    /\ req'[r] = v /\ \A q \in Requests \ {r} : req'[q] = req[q]

LEMMA BeginBecomes ==
    ASSUME Typed, NEW r \in Requests, NEW v, Slot(v), req' = [req EXCEPT ![r] = v]
    PROVE  Becomes(r, v)
BY SlotsType DEF Typed, Becomes

LEMMA StepBecomes ==
    ASSUME Typed, NEW r \in Requests, NEW pc \in Pcs \ {"choose"}, Step(r, pc)
    PROVE  /\ Becomes(r, [req[r] EXCEPT !.pc = pc])
           /\ req'[r].pc = pc
<1> DEFINE v == [req[r] EXCEPT !.pc = pc]
<1>1. Slot(v) /\ v.pc = pc
  BY PcEdit DEF Typed
<1>2. req' = [req EXCEPT ![r] = v]
  BY DEF Step
<1> HIDE DEF v
<1>3. Becomes(r, v)
  BY <1>1, <1>2, BeginBecomes
<1>4. req'[r].pc = pc
  BY <1>1, <1>3 DEF Becomes
<1> QED
  BY <1>3, <1>4 DEF v

LEMMA FinishBecomes ==
    ASSUME Typed, NEW r \in Requests, Finish(r)
    PROVE  /\ Becomes(r, Idle) /\ req'[r].pc = "idle" /\ ~Message(r)'
           /\ \A q \in Requests : Message(q)' => Message(q) /\ q # r
<1>1. Becomes(r, Idle)
  BY IdleSlot, BeginBecomes DEF Finish
<1> QED
  BY <1>1, IdleSlot DEF Becomes, Message

\* A message that begins when nothing else is in progress is the only one.
LEMMA BeginAlone ==
    ASSUME Typed, NEW r \in Requests, NEW v, Slot(v), Begin(r, v)
    PROVE  /\ Becomes(r, v) /\ mixed' \in BOOLEAN
           /\ ~mixed' => /\ ~mixed /\ OneMessage'
                         /\ \A q \in Requests : req[q] = Idle
                         /\ \A q \in Requests \ {r} : req'[q] = Idle
<1>1. Becomes(r, v)
  BY BeginBecomes DEF Begin
<1>2. mixed' \in BOOLEAN
  BY DEF Begin, Typed, Busy
<1>3. ASSUME ~mixed'
      PROVE  /\ ~mixed /\ \A q \in Requests : req[q] = Idle
             /\ \A q \in Requests \ {r} : req'[q] = Idle
  <2>1. ~mixed /\ ~Busy
    BY <1>3, Zenon DEF Begin
  <2>2. \A q \in Requests : req[q] = Idle
    BY <2>1 DEF Busy
  <2> QED
    BY <1>1, <2>1, <2>2 DEF Becomes
<1>4. ASSUME ~mixed' PROVE OneMessage'
  BY <1>3, <1>4, IdleSlot DEF OneMessage, Message
<1> QED
  BY <1>1, <1>2, <1>3, <1>4

\* Requests of the web application pass by: they are no messages.
LEMMA PassBy ==
    ASSUME Faithful, NEW r \in Requests, NEW v, Slot(v), v.pc \in {"idle", "preset", "rename"},
           ~Message(r), req' = [req EXCEPT ![r] = v],
           UNCHANGED <<cats, ops, dialogue, bound, entered, mixed, merged, removed>>
    PROVE  Faithful'
<1>1. Becomes(r, v)
  BY BeginBecomes DEF Faithful
<1>2. Typed' /\ Gone'
  BY <1>1 DEF Typed, Gone, Becomes, Faithful
<1>3. ASSUME ~mixed PROVE OneMessage' /\ RowIsEntered' /\ StepIsRead'
  <2>1. OneMessage /\ RowIsEntered /\ StepIsRead
    BY <1>3 DEF Faithful
  <2>2. req'[r].pc \in {"idle", "preset", "rename"}
    BY <1>1 DEF Becomes
  <2>3. OneMessage'
    BY <1>1, <2>1, <2>2 DEF OneMessage, Message, Becomes
  <2>4. \A q \in Requests : req[q].pc = "reset" => req'[q].pc = "reset"
    BY <1>1 DEF Becomes, Message
  <2>5. RowIsEntered'
    BY <2>1, <2>4 DEF RowIsEntered
  <2>6. StepIsRead'
    BY <1>1, <2>1, <2>2 DEF StepIsRead, Becomes
  <2> QED
    BY <2>3, <2>5, <2>6
<1> QED
  BY <1>2, <1>3 DEF Faithful

-----------------------------------------------------------------------------
(* Messages *)

\* A message that begins, at a step that suits the row as it finds it.
LEMMA BeginStep ==
    ASSUME Faithful, NEW r \in Requests, NEW v, Slot(v), Begin(r, v),
           UNCHANGED <<cats, ops, bound, merged, removed>>,
           \/ UNCHANGED <<dialogue, entered>>
           \/ dialogue' = NULL /\ entered' = Nothing,
           v.pc = "amount" => dialogue' = NULL \/ dialogue'.at = "amount",
           v.pc = "load" => dialogue' = NULL \/ dialogue'.at = "description",
           v.pc # "record"
    PROVE  Faithful'
<1>1. Typed /\ Gone
  BY DEF Faithful
<1>2. /\ Becomes(r, v) /\ mixed' \in BOOLEAN
      /\ ~mixed' => /\ ~mixed /\ OneMessage'
                    /\ \A q \in Requests : req[q] = Idle
                    /\ \A q \in Requests \ {r} : req'[q] = Idle
  BY <1>1, BeginAlone
<1>3. Typed' /\ Gone'
  BY <1>1, <1>2, NothingType DEF Typed, Gone, Becomes
<1>4. ASSUME ~mixed' PROVE OneMessage' /\ RowIsEntered' /\ StepIsRead'
  <2>1. RowIsEntered /\ \A q \in Requests : req[q] = Idle
    BY <1>2, <1>4 DEF Faithful
  <2>2. RowIsEntered'
    BY <2>1, IdleSlot DEF RowIsEntered
  <2>3. \A q \in Requests : req'[q].pc \in {"amount", "load", "record"} => q = r
    BY <1>2, <1>4, IdleSlot
  <2>4. req'[r].pc = v.pc
    BY <1>2 DEF Becomes
  <2>5. StepIsRead'
    BY <2>3, <2>4 DEF StepIsRead
  <2> QED
    BY <1>2, <1>4, <2>2, <2>5
<1> QED
  BY <1>3, <1>4 DEF Faithful

LEMMA TextStep ==
    ASSUME Faithful, NEW r \in Requests, Text(r)
    PROVE  Faithful'
<1> DEFINE pc == IF dialogue.at = "description" THEN "load" ELSE dialogue.at
           v == [Idle EXCEPT !.pc = pc, !.kind = dialogue.kind]
<1>1. /\ dialogue \in State /\ dialogue.at \in {"name", "amount", "description"}
      /\ Begin(r, v)
      /\ UNCHANGED <<cats, ops, dialogue, bound, entered, merged, removed>>
  BY DEF Text, Faithful, Typed, tables
<1>2. Slot(v) /\ v.pc = pc
  <2>1. pc \in Pcs \ {"choose", "preset", "rename"} /\ dialogue.kind \in Kinds
    BY <1>1 DEF State, Pcs
  <2> HIDE DEF pc
  <2> QED
    BY <2>1, KindSlot
<1> HIDE DEF v
<1> QED
  BY <1>1, <1>2, BeginStep

\* A step of one message: where it is the only one, no other is at a step that reads the row.
LEMMA Only ==
    ASSUME Faithful, ~mixed, NEW r \in Requests, Message(r)
    PROVE  \A q \in Requests \ {r} : req[q].pc \in {"idle", "preset", "rename"}
BY DEF Faithful, OneMessage, Message

\* A message that goes on to its last step, the reset.
LEMMA ToReset ==
    ASSUME Faithful, NEW r \in Requests, Message(r), Step(r, "reset"),
           UNCHANGED <<dialogue, bound, mixed, merged, removed>>,
           cats' \subseteq Cats, (merged \cup removed) \cap cats' = {},
           ops' \in [Cats -> Nat],
           \/ entered' = entered
           \/ /\ entered' = Nothing
              /\ ~mixed => dialogue = NULL \/ dialogue.at = "description"
    PROVE  Faithful'
<1>1. Typed /\ Gone
  BY DEF Faithful
<1>2. /\ Becomes(r, [req[r] EXCEPT !.pc = "reset"])
      /\ req'[r].pc = "reset"
  BY <1>1, StepBecomes DEF Pcs
<1>3. Typed' /\ Gone'
  BY <1>1, <1>2, NothingType DEF Typed, Gone, Becomes
<1>4. ASSUME ~mixed PROVE OneMessage' /\ RowIsEntered' /\ StepIsRead'
  <2>1. \A q \in Requests \ {r} : req'[q].pc \in {"idle", "preset", "rename"}
    BY <1>2, <1>4, Only DEF Becomes
  <2>2. OneMessage' /\ StepIsRead'
    BY <1>2, <2>1 DEF OneMessage, Message, StepIsRead
  <2>3. dialogue # NULL /\ dialogue.at = "amount" => entered'.cat = dialogue.cat
    BY <1>4 DEF Faithful, RowIsEntered
  <2> QED
    BY <1>2, <2>2, <2>3 DEF RowIsEntered
<1> QED
  BY <1>3, <1>4 DEF Faithful

\* A message that is done: what it leaves in the row is what is entered.
LEMMA LastStep ==
    ASSUME Faithful, NEW r \in Requests, Finish(r), UNCHANGED <<cats, bound, merged, removed>>,
           ops' \in [Cats -> Nat], dialogue' \in State \cup {NULL},
           entered' \in [cat: Category, amount: Amount], mixed' \in BOOLEAN,
           dialogue' = NULL => entered' = Nothing,
           ~mixed' => /\ \A q \in Requests \ {r} : req[q].pc \in {"idle", "preset", "rename"}
                      /\ dialogue' # NULL =>
                            /\ dialogue'.at = "amount" => entered'.cat = dialogue'.cat
                            /\ dialogue'.at = "description" =>
                                  entered'.cat = dialogue'.cat /\ entered'.amount = dialogue'.amount
    PROVE  Faithful'
<1>1. Typed /\ Gone
  BY DEF Faithful
<1>2. Becomes(r, Idle) /\ req'[r].pc = "idle"
  BY <1>1, FinishBecomes
<1>3. Typed' /\ Gone'
  BY <1>1, <1>2 DEF Typed, Gone, Becomes
<1>4. ASSUME ~mixed' PROVE OneMessage' /\ RowIsEntered' /\ StepIsRead'
  <2>1. \A q \in Requests : req'[q].pc \in {"idle", "preset", "rename"}
    BY <1>2, <1>4 DEF Becomes
  <2> QED
    BY <1>4, <2>1 DEF OneMessage, Message, RowIsEntered, StepIsRead
<1> QED
  BY <1>3, <1>4 DEF Faithful

LEMMA NameInputStep ==
    ASSUME Faithful, NEW r \in Requests, NameInput(r)
    PROVE  Faithful'
<1>1. /\ Message(r) /\ Step(r, "reset")
      /\ UNCHANGED <<ops, dialogue, bound, entered, mixed, merged, removed>>
  BY DEF NameInput, Message, history
<1>2. Typed /\ Gone
  BY DEF Faithful
<1>3. cats' \subseteq Cats /\ (merged \cup removed) \cap cats' = {}
  <2>1. bound.cats \subseteq Cats
    BY <1>2, DialogueAssumption DEF Typed
  <2> QED
    BY <1>2, <2>1 DEF NameInput, Typed, Gone
<1> QED
  BY <1>1, <1>2, <1>3, ToReset DEF Typed

LEMMA AmountInputStep ==
    ASSUME Faithful, NEW r \in Requests, AmountInput(r)
    PROVE  Faithful'
<1>1. /\ Message(r) /\ req[r].pc = "amount" /\ Finish(r)
      /\ UNCHANGED <<cats, ops, bound, mixed, merged, removed>>
  BY DEF AmountInput, Message
<1>2. /\ Typed /\ Gone
      /\ ~mixed => RowIsEntered /\ (dialogue = NULL \/ dialogue.at = "amount")
      /\ ~mixed => \A q \in Requests \ {r} : req[q].pc \in {"idle", "preset", "rename"}
  BY <1>1, Only DEF Faithful, StepIsRead
<1>3. CASE UNCHANGED <<dialogue, entered>>
  BY <1>1, <1>2, <1>3, LastStep DEF Typed, Gone, RowIsEntered
<1>4. ASSUME NEW x \in Amounts,
             dialogue' = [Row EXCEPT !.at = "description", !.kind = req[r].kind,
                                     !.amount = AmountOf(Row, x)],
             entered' = [entered EXCEPT !.amount = x]
      PROVE  Faithful'
  <2>1. Row \in State /\ Row.cat = IF dialogue = NULL THEN NULL ELSE dialogue.cat
    BY <1>2, RowType DEF Typed
  <2>2. req[r].kind \in Kinds /\ AmountOf(Row, x) = x /\ x \in Amount
    BY <1>2 DEF Typed, Slot, AmountOf, Amount
  <2>3. /\ dialogue' \in State /\ dialogue'.at = "description"
        /\ dialogue'.cat = Row.cat /\ dialogue'.amount = x
    <3> DEFINE e == WithAmount(Row, "description", req[r].kind, x)
    <3>1. e \in State /\ e.at = "description" /\ e.cat = Row.cat /\ e.amount = x
      BY <2>1, <2>2, WithAmountEdit
    <3> QED
      BY <1>4, <2>2, <3>1 DEF WithAmount
  <2>4. /\ entered' \in [cat: Category, amount: Amount]
        /\ entered'.cat = entered.cat /\ entered'.amount = x
    BY <1>2, <1>4, <2>2 DEF Typed
  <2>5. ~mixed => entered.cat = Row.cat
    BY <1>2, <2>1, NothingType DEF Gone, RowIsEntered
  <2>6. dialogue' # NULL
    BY <2>3, DialogueAssumption
  <2> QED
    BY <1>1, <1>2, <2>3, <2>4, <2>5, <2>6, LastStep DEF Typed
<1> QED
  BY <1>3, <1>4 DEF AmountInput

LEMMA LoadStep ==
    ASSUME Faithful, NEW r \in Requests, Load(r)
    PROVE  Faithful'
<1>1. /\ Message(r) /\ req[r].pc = "load"
      /\ UNCHANGED <<cats, ops, dialogue, bound, entered, mixed, merged, removed>>
  BY DEF Load, Message, tables, history
<1>2. Typed /\ Gone
  BY DEF Faithful
<1>3. CASE Step(r, "reset")
  BY <1>1, <1>2, <1>3, ToReset DEF Typed, Gone
<1>4. ASSUME dialogue # NULL,
             req' = [req EXCEPT ![r].pc = "record", ![r].cat = dialogue.cat,
                                ![r].amount = dialogue.amount]
      PROVE  Faithful'
  <2> DEFINE v == Loaded(req[r], dialogue.cat, dialogue.amount)
  <2>1. dialogue.cat \in Category /\ dialogue.amount \in Amount
    BY <1>2, <1>4 DEF Typed, State
  <2>2. Slot(v) /\ v.pc = "record" /\ v.cat = dialogue.cat /\ v.amount = dialogue.amount
    <3>1. Slot(req[r])
      BY <1>2 DEF Typed
    <3> QED
      BY <2>1, <3>1, LoadEdit
  <2>3. req' = [req EXCEPT ![r] = v]
    BY <1>2, <1>4 DEF Typed, Loaded
  <2> HIDE DEF v
  <2>4. Becomes(r, v)
    BY <1>2, <2>2, <2>3, BeginBecomes
  <2>5. Typed' /\ Gone'
    BY <1>1, <1>2, <2>4 DEF Typed, Gone, Becomes
  <2>6. ASSUME ~mixed PROVE OneMessage' /\ RowIsEntered' /\ StepIsRead'
    <3>1. RowIsEntered /\ StepIsRead
      BY <2>6 DEF Faithful
    <3>2. \A q \in Requests \ {r} : /\ req[q].pc \in {"idle", "preset", "rename"}
                                    /\ req'[q].pc \in {"idle", "preset", "rename"}
      BY <1>1, <2>4, <2>6, Only DEF Becomes
    <3>3. /\ dialogue.at = "description"
          /\ entered.cat = dialogue.cat /\ entered.amount = dialogue.amount
      BY <1>1, <1>4, <3>1, <3>2 DEF RowIsEntered, StepIsRead
    <3>4. req'[r] = v
      BY <2>4 DEF Becomes
    <3>5. OneMessage' /\ RowIsEntered'
      BY <1>1, <3>2, <3>3 DEF OneMessage, Message, RowIsEntered
    <3>6. StepIsRead'
      BY <1>1, <2>2, <3>2, <3>3, <3>4 DEF StepIsRead
    <3> QED
      BY <3>5, <3>6
  <2> QED
    BY <1>1, <2>5, <2>6 DEF Faithful
<1> QED
  BY <1>3, <1>4 DEF Load

LEMMA RecordStep ==
    ASSUME Faithful, NEW r \in Requests, Record(r)
    PROVE  Faithful'
<1> DEFINE fits == req[r].cat \in cats /\ KindOf[req[r].cat] = req[r].kind
<1>1. /\ Message(r) /\ req[r].pc = "record"
      /\ UNCHANGED <<cats, dialogue, bound, mixed, merged, removed>>
  BY DEF Record, Message
<1>2. /\ Typed /\ Gone
      /\ ~mixed => RowIsEntered /\ (dialogue = NULL \/ dialogue.at = "description")
      /\ ~mixed => \A q \in Requests \ {r} : req[q].pc \in {"idle", "preset", "rename"}
  BY <1>1, Only DEF Faithful, StepIsRead
<1>3. CASE /\ fits /\ ops' = [ops EXCEPT ![req[r].cat] = @ + 1]
           /\ entered' = Nothing /\ Step(r, "reset")
  <2>1. req[r].cat \in Cats /\ ops[req[r].cat] \in Nat
    BY <1>2, <1>3 DEF Typed
  <2>2. ops' \in [Cats -> Nat]
    BY <1>2, <1>3, <2>1 DEF Typed
  <2> QED
    BY <1>1, <1>2, <1>3, <2>2, ToReset DEF Typed, Gone
<1>4. CASE Step(r, "reset") /\ UNCHANGED <<ops, made, entered>>
  BY <1>1, <1>2, <1>4, ToReset DEF Typed, Gone
<1>5. CASE Finish(r) /\ UNCHANGED <<ops, made, entered>>
  <2>1. ASSUME ~mixed
        PROVE  dialogue # NULL =>
                  entered.cat = dialogue.cat /\ entered.amount = dialogue.amount
    BY <1>1, <1>2, <2>1 DEF RowIsEntered
  <2>2. ~mixed /\ dialogue # NULL => dialogue.at = "description"
    BY <1>2
  <2> QED
    BY <1>1, <1>2, <1>5, <2>1, <2>2, LastStep DEF Typed, Gone
<1> QED
  BY <1>3, <1>4, <1>5 DEF Record

LEMMA ResetStep ==
    ASSUME Faithful, NEW r \in Requests, Reset(r)
    PROVE  Faithful'
<1>1. /\ Message(r) /\ Finish(r) /\ dialogue' = NULL /\ entered' = Nothing
      /\ UNCHANGED <<cats, ops, bound, mixed, merged, removed>>
  BY DEF Reset, Message
<1>2. ~mixed => \A q \in Requests \ {r} : req[q].pc \in {"idle", "preset", "rename"}
  BY <1>1, Only
<1> QED
  BY <1>1, <1>2, NothingType, LastStep DEF Faithful, Typed

LEMMA AskNameStep ==
    ASSUME Faithful, NEW kind \in Kinds, AskName(kind)
    PROVE  Faithful'
<1> DEFINE e == AtStep(Row, "name", kind)
<1>1. Typed /\ Gone
  BY DEF Faithful
<1>2. e \in State /\ e.at = "name"
  BY <1>1, RowType, AtStepEdit DEF Typed
<1>3. /\ dialogue' = e /\ dialogue' # NULL
      /\ UNCHANGED <<cats, ops, req, bound, entered, merged, removed>>
  BY <1>2, DialogueAssumption DEF AskName, AtStep
<1>4. mixed' \in BOOLEAN
  BY <1>1 DEF AskName, Typed, Busy
<1> HIDE DEF e
<1>5. Typed' /\ Gone'
  BY <1>1, <1>2, <1>3, <1>4 DEF Typed, Gone
<1>6. ASSUME ~mixed' PROVE OneMessage' /\ RowIsEntered' /\ StepIsRead'
  <2>1. ~Busy
    BY <1>6, Zenon DEF AskName
  <2>2. \A r \in Requests : req'[r].pc = "idle"
    BY <1>3, <2>1, IdleSlot DEF Busy
  <2> QED
    BY <1>2, <1>3, <2>2 DEF OneMessage, Message, RowIsEntered, StepIsRead
<1> QED
  BY <1>5, <1>6 DEF Faithful

LEMMA SelectCategoryStep ==
    ASSUME Faithful, NEW r \in Requests, NEW c \in Cats, SelectCategory(r, c)
    PROVE  Faithful'
<1> DEFINE v == [Idle EXCEPT !.pc = "choose", !.cat = c]
<1>1. Slot(v) /\ v.pc = "choose"
  BY CatSlot DEF Pcs, Category
<1>2. Begin(r, v) /\ UNCHANGED <<cats, ops, dialogue, bound, entered, merged, removed>>
  BY DEF SelectCategory, tables
<1> HIDE DEF v
<1> QED
  BY <1>1, <1>2, BeginStep

LEMMA ChooseStep ==
    ASSUME Faithful, NEW r \in Requests, Choose(r)
    PROVE  Faithful'
<1> DEFINE c == req[r].cat
           e == WithCat(Row, "amount", KindOf[c], c)
<1>1. Typed /\ Gone
  BY DEF Faithful
<1>2. /\ Message(r) /\ Finish(r) /\ dialogue' = e
      /\ entered' = [cat |-> c, amount |-> NULL]
      /\ mixed' = \E q \in Requests \ {r} : req[q] # Idle
      /\ UNCHANGED <<cats, ops, bound, merged, removed>>
  BY DEF Choose, Message, WithCat
<1>3. c \in Category /\ c \in Cats
  BY <1>1 DEF Choose, Typed, Slot
<1>4. e \in State /\ e.at = "amount" /\ e.cat = c
  <2>1. Row \in State /\ KindOf[c] \in Kinds
    BY <1>1, <1>3, RowType, DialogueAssumption DEF Typed, Kinds
  <2> HIDE DEF c
  <2> QED
    BY <1>3, <2>1, WithCatEdit
<1>5. e # NULL
  BY <1>4, DialogueAssumption
<1>6. mixed' \in BOOLEAN
  BY <1>2, Zenon
<1>7. ~mixed' => \A q \in Requests \ {r} : req[q].pc \in {"idle", "preset", "rename"}
  BY <1>2, IdleSlot
<1>8. entered' \in [cat: Category, amount: Amount] /\ entered'.cat = c
  BY <1>2, <1>3 DEF Amount
<1> HIDE DEF e
<1> QED
  BY <1>1, <1>2, <1>4, <1>5, <1>6, <1>7, <1>8, LastStep DEF Typed

LEMMA SelectForStatsStep ==
    ASSUME Faithful, NEW r \in Requests, NEW kind \in Kinds, NEW c \in Category,
           SelectForStats(r, kind, c)
    PROVE  Faithful'
<1> DEFINE v == [Idle EXCEPT !.pc = "stat", !.kind = kind, !.cat = c]
<1>1. Slot(v) /\ v.pc = "stat"
  BY StatSlot DEF Pcs
<1>2. /\ Begin(r, v) /\ dialogue' = NULL /\ entered' = Nothing
      /\ UNCHANGED <<cats, ops, bound, merged, removed>>
  BY DEF SelectForStats
<1> HIDE DEF v
<1> QED
  BY <1>1, <1>2, BeginStep

LEMMA StatStep ==
    ASSUME Faithful, NEW r \in Requests, Stat(r)
    PROVE  Faithful'
<1> DEFINE cat == IF req[r].cat = NULL THEN Row.cat ELSE req[r].cat
           e == WithCat(Row, "period", req[r].kind, cat)
<1>1. Typed /\ Gone
  BY DEF Faithful
<1>2. Row \in State /\ req[r].cat \in Category /\ req[r].kind \in Kinds
  BY <1>1, RowType DEF Typed, Slot
<1>3. cat \in Category
  BY <1>2 DEF State
<1>4. /\ Message(r) /\ Finish(r) /\ dialogue' = e
      /\ UNCHANGED <<cats, ops, bound, entered, mixed, merged, removed>>
  BY <1>2 DEF Stat, Message, WithCat, State
<1> HIDE DEF cat
<1>5. e \in State /\ e.at = "period" /\ e # NULL
  <2> DEFINE kind == req[r].kind
  <2>1. kind \in Kinds
    BY <1>2
  <2> HIDE DEF kind
  <2>2. WithCat(Row, "period", kind, cat) \in State /\ WithCat(Row, "period", kind, cat).at = "period"
    BY <1>2, <1>3, <2>1, WithCatEdit
  <2> QED
    BY <2>2, DialogueAssumption DEF kind
<1>6. ~mixed => \A q \in Requests \ {r} : req[q].pc \in {"idle", "preset", "rename"}
  BY <1>4, Only
<1> HIDE DEF e
<1> QED
  BY <1>1, <1>4, <1>5, <1>6, LastStep DEF Typed

LEMMA SelectPeriodStep ==
    ASSUME Faithful, NEW r \in Requests, SelectPeriod(r)
    PROVE  Faithful'
<1> DEFINE kind == IF dialogue # NULL /\ dialogue.at \in {"name", "period", "details"}
                   THEN dialogue.kind ELSE "expense"
           v == [Idle EXCEPT !.pc = "period", !.kind = kind]
<1>1. kind \in Kinds
  BY DEF Faithful, Typed, State, Kinds
<1>2. Begin(r, v) /\ UNCHANGED <<cats, ops, dialogue, bound, entered, merged, removed>>
  BY DEF SelectPeriod, tables
<1> HIDE DEF kind
<1>3. Slot(v) /\ v.pc = "period"
  BY <1>1, KindSlot DEF Pcs
<1> HIDE DEF v
<1> QED
  BY <1>2, <1>3, BeginStep

LEMMA PeriodStep ==
    ASSUME Faithful, NEW r \in Requests, Period(r)
    PROVE  Faithful'
<1> DEFINE e == WithPeriod(Row, "details", req[r].kind)
<1>1. Typed /\ Gone
  BY DEF Faithful
<1>2. Row \in State /\ req[r].kind \in Kinds
  BY <1>1, RowType DEF Typed, Slot
<1>3. /\ Message(r) /\ Finish(r) /\ dialogue' = e
      /\ UNCHANGED <<cats, ops, bound, entered, mixed, merged, removed>>
  BY DEF Period, Message, WithPeriod, history
<1>4. e \in State /\ e.at = "details" /\ e # NULL
  BY <1>2, WithPeriodEdit, DialogueAssumption
<1>5. ~mixed => \A q \in Requests \ {r} : req[q].pc \in {"idle", "preset", "rename"}
  BY <1>3, Only
<1> HIDE DEF e
<1> QED
  BY <1>1, <1>3, <1>4, <1>5, LastStep DEF Typed

LEMMA SelectDetailsStep ==
    ASSUME Faithful, NEW r \in Requests, SelectDetails(r)
    PROVE  Faithful'
<1> DEFINE v == [Idle EXCEPT !.pc = "reset"]
<1>1. Slot(v) /\ v.pc = "reset"
  BY PcSlot DEF Pcs
<1>2. Begin(r, v) /\ UNCHANGED <<cats, ops, dialogue, bound, entered, merged, removed>>
  BY DEF SelectDetails, tables
<1> HIDE DEF v
<1> QED
  BY <1>1, <1>2, BeginStep

-----------------------------------------------------------------------------
(* The web application *)

LEMMA PresetSlots ==
    ASSUME NEW id, NEW name, NEW filters
    PROVE  /\ Slot([Idle EXCEPT !.pc = "preset", !.name = name, !.filters = filters])
           /\ Slot([Idle EXCEPT !.pc = "rename", !.id = id, !.name = name])
           /\ [Idle EXCEPT !.pc = "preset", !.name = name, !.filters = filters].pc = "preset"
           /\ [Idle EXCEPT !.pc = "rename", !.id = id, !.name = name].pc = "rename"
           /\ name \in Names /\ filters \in SUBSET (Cats \cup {other}) =>
                 Named([Idle EXCEPT !.pc = "preset", !.name = name, !.filters = filters])
           /\ name \in Names /\ id \in Nat => Named([Idle EXCEPT !.pc = "rename", !.id = id, !.name = name])
<1> DEFINE f == [Idle EXCEPT !.pc = "preset"]
           g == [f EXCEPT !.name = name]
           v == [Idle EXCEPT !.pc = "preset", !.name = name, !.filters = filters]
           h == [Idle EXCEPT !.pc = "rename"]
           i == [h EXCEPT !.id = id]
           w == [Idle EXCEPT !.pc = "rename", !.id = id, !.name = name]
<1>1. f = [pc |-> "preset", kind |-> "expense", cat |-> NULL, amount |-> NULL,
           id |-> 0, name |-> NULL, filters |-> {}]
  BY DEF Idle
<1>2. h = [pc |-> "rename", kind |-> "expense", cat |-> NULL, amount |-> NULL,
           id |-> 0, name |-> NULL, filters |-> {}]
  BY DEF Idle
<1>3. v = [g EXCEPT !.filters = filters] /\ w = [i EXCEPT !.name = name]
  OBVIOUS
<1> HIDE DEF f, h, v, w
<1>4. /\ g = [pc |-> "preset", kind |-> "expense", cat |-> NULL, amount |-> NULL,
              id |-> 0, name |-> name, filters |-> {}]
      /\ i = [pc |-> "rename", kind |-> "expense", cat |-> NULL, amount |-> NULL,
              id |-> id, name |-> NULL, filters |-> {}]
  BY <1>1, <1>2
<1> HIDE DEF g, i
<1>5. /\ v = [pc |-> "preset", kind |-> "expense", cat |-> NULL, amount |-> NULL,
              id |-> 0, name |-> name, filters |-> filters]
      /\ w = [pc |-> "rename", kind |-> "expense", cat |-> NULL, amount |-> NULL,
              id |-> id, name |-> name, filters |-> {}]
  BY <1>3, <1>4
<1>6. Slot(v) /\ v.pc = "preset" /\ Slot(w) /\ w.pc = "rename"
  BY <1>5 DEF Slot, Pcs, Kinds, Category, Amount
<1>7. /\ name \in Names /\ filters \in SUBSET (Cats \cup {other}) => Named(v)
      /\ name \in Names /\ id \in Nat => Named(w)
  BY <1>5 DEF Named
<1> QED
  BY <1>6, <1>7 DEF v, w

LEMMA PresetStep ==
    ASSUME Faithful, NEW r \in Requests,
           \/ CreatePreset(r) \/ WriteName(r)
           \/ \E name \in Names :
                \/ \E filters \in SUBSET (bound.cats \cup {other}) \ {{}} : SavePreset(r, name, filters)
                \/ \E p \in presets : Rename(r, p, name)
    PROVE  Faithful'
<1>1. CASE CreatePreset(r) \/ WriteName(r)
  <2>1. /\ ~Message(r) /\ req' = [req EXCEPT ![r] = Idle]
        /\ UNCHANGED <<cats, ops, dialogue, bound, entered, mixed, merged, removed>>
    BY <1>1 DEF CreatePreset, WriteName, Finish, Message, history
  <2> QED
    BY <2>1, IdleSlot, PassBy
<1>2. ASSUME NEW name \in Names, NEW filters, SavePreset(r, name, filters)
      PROVE  Faithful'
  <2> DEFINE v == [Idle EXCEPT !.pc = "preset", !.name = name, !.filters = filters]
  <2>1. /\ req[r] = Idle /\ req' = [req EXCEPT ![r] = v]
        /\ UNCHANGED <<cats, ops, dialogue, bound, entered, mixed, merged, removed>>
    BY <1>2 DEF SavePreset, tables, history
  <2>2. Slot(v) /\ v.pc = "preset"
    BY PresetSlots
  <2> HIDE DEF v
  <2> QED
    BY <2>1, <2>2, IdleSlot, PassBy DEF Message
<1>3. ASSUME NEW name \in Names, NEW p \in presets, Rename(r, p, name)
      PROVE  Faithful'
  <2> DEFINE v == [Idle EXCEPT !.pc = "rename", !.id = p.id, !.name = name]
  <2>1. /\ req[r] = Idle /\ req' = [req EXCEPT ![r] = v]
        /\ UNCHANGED <<cats, ops, dialogue, bound, entered, mixed, merged, removed>>
    BY <1>3 DEF Rename, tables, history
  <2>2. Slot(v) /\ v.pc = "rename"
    BY PresetSlots
  <2> HIDE DEF v
  <2> QED
    BY <2>1, <2>2, IdleSlot, PassBy DEF Message
<1> QED
  BY <1>1, <1>2, <1>3

LEMMA RemovePresetStep ==
    ASSUME Faithful, NEW p \in presets, RemovePreset(p)
    PROVE  Faithful'
BY DEF RemovePreset, history, Faithful, Typed, Gone, OneMessage, Message, RowIsEntered, StepIsRead

\* An operation about to be recorded in the category that goes stays tied to it.
LEMMA MergeStep ==
    ASSUME Faithful, NEW source \in Cats, NEW target \in Cats, Merge(source, target)
    PROVE  Faithful'
<1> DEFINE pointing == dialogue # NULL /\ dialogue.cat = source
<1>1. /\ ops' = Moved(source, target)
      /\ dialogue' = IF pointing THEN NULL ELSE dialogue
      /\ entered' = IF pointing THEN Nothing ELSE entered
      /\ cats' = cats \ {source} /\ merged' = merged \cup {source}
      /\ UNCHANGED <<req, bound, mixed, removed>>
  BY DEF Merge
<1>2. Typed /\ Gone
  BY DEF Faithful
<1>3. ops' \in [Cats -> Nat]
  BY <1>1, <1>2 DEF Moved, Typed
<1>4. Typed' /\ Gone'
  BY <1>1, <1>2, <1>3, NothingType DEF Typed, Gone
<1>5. ASSUME ~mixed PROVE OneMessage' /\ RowIsEntered' /\ StepIsRead'
  <2>1. OneMessage /\ RowIsEntered /\ StepIsRead
    BY <1>5 DEF Faithful
  <2>2. OneMessage' /\ RowIsEntered'
    BY <1>1, <2>1 DEF OneMessage, Message, RowIsEntered
  <2>3. ASSUME NEW r \in Requests, req[r].pc = "record"
        PROVE  \/ entered'.cat = req[r].cat /\ entered'.amount = req[r].amount
               \/ req[r].cat \in merged'
    <3>1. CASE pointing
      <4>1. dialogue.at = "description" /\ ~\E q \in Requests : req[q].pc = "reset"
        BY <2>1, <2>3, <3>1 DEF StepIsRead, OneMessage, Message
      <4>2. entered.cat = source
        BY <2>1, <3>1, <4>1 DEF RowIsEntered
      <4> QED
        BY <1>1, <2>1, <2>3, <4>2 DEF StepIsRead
    <3>2. CASE ~pointing
      BY <1>1, <2>1, <2>3, <3>2 DEF StepIsRead
    <3> QED
      BY <3>1, <3>2
  <2>4. StepIsRead'
    BY <1>1, <2>1, <2>3 DEF StepIsRead
  <2> QED
    BY <2>2, <2>4
<1> QED
  BY <1>1, <1>4, <1>5 DEF Faithful

LEMMA RemoveCategoryStep ==
    ASSUME Faithful, NEW c \in Cats, RemoveCategory(c)
    PROVE  Faithful'
<1>1. /\ cats' = cats \ {c} /\ ops' = [ops EXCEPT ![c] = 0] /\ removed' = removed \cup {c}
      /\ UNCHANGED <<dialogue, req, bound, entered, mixed, merged>>
  BY DEF RemoveCategory
<1>2. ops' \in [Cats -> Nat]
  BY <1>1 DEF Faithful, Typed
<1> QED
  BY <1>1, <1>2 DEF Faithful, Typed, Gone, OneMessage, Message, RowIsEntered, StepIsRead

LEMMA CrashStep ==
    ASSUME Faithful, Crash
    PROVE  Faithful'
BY IdleSlot DEF Crash, Faithful, Typed, Gone, tables

LEMMA FaithfulInit == Init => Faithful
<1> SUFFICES ASSUME Init PROVE Faithful
  OBVIOUS
<1>1. cats \subseteq Cats
  BY DialogueAssumption DEF Init
<1>2. req = [r \in Requests |-> req[r]] /\ \A r \in Requests : req[r] = Idle
  BY DEF Init
<1>3. Typed
  BY <1>1, <1>2, IdleSlot, NothingType DEF Init, Typed
<1>4. Gone
  BY DEF Init, Gone
<1>5. OneMessage /\ RowIsEntered /\ StepIsRead
  BY <1>2, IdleSlot DEF Init, OneMessage, Message, RowIsEntered, StepIsRead
<1> QED
  BY <1>3, <1>4, <1>5 DEF Faithful

LEMMA FaithfulStep ==
    ASSUME Faithful, [Next]_vars
    PROVE  Faithful'
<1>1. ASSUME NEW r \in Requests,
             \/ Text(r) \/ NameInput(r) \/ AmountInput(r) \/ Load(r) \/ Record(r) \/ Reset(r)
             \/ Choose(r) \/ Stat(r) \/ SelectPeriod(r) \/ Period(r) \/ SelectDetails(r)
      PROVE  Faithful'
  BY <1>1, TextStep, NameInputStep, AmountInputStep, LoadStep, RecordStep, ResetStep, ChooseStep,
     StatStep, SelectPeriodStep, PeriodStep, SelectDetailsStep
<1>2. ASSUME NEW r \in Requests, NEW c \in Cats, SelectCategory(r, c)
      PROVE  Faithful'
  BY <1>2, SelectCategoryStep
<1>3. ASSUME NEW r \in Requests, NEW c \in Category, NEW kind \in Kinds, SelectForStats(r, kind, c)
      PROVE  Faithful'
  BY <1>3, SelectForStatsStep
<1>4. ASSUME NEW kind \in Kinds, AskName(kind) PROVE Faithful'
  BY <1>4, AskNameStep
<1>5. ASSUME NEW p \in presets, RemovePreset(p) PROVE Faithful'
  BY <1>5, RemovePresetStep
<1>6. ASSUME NEW c \in Cats, NEW d \in Cats, Merge(c, d) PROVE Faithful'
  BY <1>6, MergeStep
<1>7. ASSUME NEW c \in Cats, RemoveCategory(c) PROVE Faithful'
  BY <1>7, RemoveCategoryStep
<1>8. CASE UNCHANGED vars
  BY <1>8 DEF vars, tables, history, Faithful, Typed, Gone, OneMessage, Message, RowIsEntered,
              StepIsRead
<1> QED
  BY <1>1, <1>2, <1>3, <1>4, <1>5, <1>6, <1>7, <1>8, PresetStep, CrashStep DEF Next

LEMMA FaithfulHolds == Spec => []Faithful
BY FaithfulInit, FaithfulStep, PTL DEF Spec

-----------------------------------------------------------------------------
(* What the bot records *)

\* An operation is recorded only for a category there is, which no merge took: so the request that
\* records it has what was entered last.
LEMMA RecordsEntered ==
    ASSUME Faithful, [Next]_vars, NEW r \in Requests,
           req[r].pc = "record", req'[r] # req[r], ops' # ops
    PROVE  mixed \/ entered = [cat |-> req[r].cat, amount |-> req[r].amount]
<1>1. Record(r)
  <2>1. ASSUME NEW q \in Requests,
               \/ Text(q) \/ NameInput(q) \/ AmountInput(q) \/ Load(q) \/ Reset(q)
               \/ Choose(q) \/ Stat(q) \/ SelectPeriod(q) \/ Period(q) \/ SelectDetails(q)
               \/ CreatePreset(q) \/ WriteName(q)
        PROVE  FALSE
    BY <2>1 DEF Text, NameInput, AmountInput, Load, Reset, Choose, Stat, SelectPeriod, Period,
                SelectDetails, CreatePreset, WriteName, tables
  <2>2. ASSUME NEW q \in Requests, Record(q), q # r PROVE FALSE
    <3>1. Step(q, "reset") \/ Finish(q)
      BY <2>2 DEF Record
    <3> QED
      BY <2>2, <3>1 DEF Step, Finish, Faithful, Typed
  <2>3. ASSUME NEW q \in Requests, NEW c \in Cats, SelectCategory(q, c) PROVE FALSE
    BY <2>3 DEF SelectCategory, tables
  <2>4. ASSUME NEW q \in Requests, NEW c \in Category, NEW kind \in Kinds, SelectForStats(q, kind, c)
        PROVE  FALSE
    BY <2>4 DEF SelectForStats
  <2>5. ASSUME NEW q \in Requests, NEW name \in Names, NEW filters, SavePreset(q, name, filters)
        PROVE  FALSE
    BY <2>5 DEF SavePreset, tables
  <2>6. ASSUME NEW q \in Requests, NEW name \in Names, NEW p \in presets, Rename(q, p, name)
        PROVE  FALSE
    BY <2>6 DEF Rename, tables
  <2>7. ASSUME NEW kind \in Kinds, AskName(kind) PROVE FALSE
    BY <2>7 DEF AskName
  <2>8. ASSUME NEW p \in presets, RemovePreset(p) PROVE FALSE
    BY <2>8 DEF RemovePreset
  <2>9. ASSUME NEW c \in Cats, NEW d \in Cats, Merge(c, d) PROVE FALSE
    BY <2>9 DEF Merge
  <2>10. ASSUME NEW c \in Cats, RemoveCategory(c) PROVE FALSE
    BY <2>10 DEF RemoveCategory
  <2>11. ~Crash
    BY DEF Crash, tables
  <2>12. ~UNCHANGED vars
    BY DEF vars, tables
  <2> QED
    BY <2>1, <2>2, <2>3, <2>4, <2>5, <2>6, <2>7, <2>8, <2>9, <2>10, <2>11, <2>12 DEF Next
<1>2. req[r].cat \in cats
  BY <1>1 DEF Record
<1>3. CASE ~mixed
  <2>1. entered.cat = req[r].cat /\ entered.amount = req[r].amount
    BY <1>2, <1>3 DEF Faithful, StepIsRead, Gone
  <2> QED
    BY <2>1 DEF Faithful, Typed
<1> QED
  BY <1>3

\* What the bot records has the category the user chose and the amount typed after it, once, with
\* whatever the web application merges and removes meanwhile, unless messages were handled at the
\* same time or the process stopped halfway (income.handler.ts, handleDescriptionInput).
THEOREM BotRecordsWhatIsEntered == Spec => RecordedAsEntered
<1>1. Faithful /\ [Next]_vars =>
        [\A r \in Requests :
            req[r].pc = "record" /\ req'[r] # req[r] /\ ops' # ops =>
                mixed \/ entered = [cat |-> req[r].cat, amount |-> req[r].amount]]_vars
  BY RecordsEntered
<1> QED
  BY <1>1, FaithfulHolds, PTL DEF Spec, RecordedAsEntered

-----------------------------------------------------------------------------
(* What a merge leaves *)

\* The operations of a merged category have gone over, and the dialogue is not left at it, unless a
\* message that still named it wrote it after the merge.
MergedIsLeft ==
    /\ \A c \in merged : ops[c] = 0
    /\ dialogue # NULL /\ dialogue.cat \in merged => 0 \in late

\* The row is written with the category it had.
LEMMA KeptCat ==
    ASSUME Faithful, MergedIsLeft, UNCHANGED <<ops, merged, late>>,
           dialogue' \in State, dialogue'.cat = Row.cat
    PROVE  MergedIsLeft'
<1>1. Row.cat = IF dialogue = NULL THEN NULL ELSE dialogue.cat
  BY RowType DEF Faithful, Typed
<1>2. NULL \notin merged
  BY DialogueAssumption DEF Faithful, Typed
<1> QED
  BY <1>1, <1>2 DEF MergedIsLeft

\* The row is written with a category given before: it is noted if that is gone by now.
LEMMA WrittenCat ==
    ASSUME Faithful, MergedIsLeft, UNCHANGED <<ops, merged>>, NEW c \in Cats,
           dialogue'.cat = c, late' = Lateness(c)
    PROVE  MergedIsLeft'
BY DEF Faithful, Gone, MergedIsLeft, Lateness

LEMMA MergedIsLeftMessages ==
    ASSUME Faithful, MergedIsLeft, NEW r \in Requests,
           \/ AmountInput(r) \/ Record(r) \/ Reset(r) \/ Choose(r) \/ Stat(r) \/ Period(r)
    PROVE  MergedIsLeft'
<1>1. Typed /\ Gone /\ Row \in State
  BY RowType DEF Faithful, Typed
<1>2. Slot(req[r]) /\ req[r].kind \in Kinds
  BY <1>1 DEF Typed, Slot
<1>3. CASE AmountInput(r)
  <2>1. CASE UNCHANGED dialogue
    BY <1>3, <2>1 DEF AmountInput, MergedIsLeft
  <2>2. ASSUME NEW x \in Amounts,
               dialogue' = WithAmount(Row, "description", req[r].kind, x)
        PROVE  MergedIsLeft'
    <3>1. x \in Amount
      BY DEF Amount
    <3>2. dialogue' \in State /\ dialogue'.cat = Row.cat
      BY <1>1, <1>2, <2>2, <3>1, WithAmountEdit
    <3> QED
      BY <1>3, <3>2, KeptCat DEF AmountInput
  <2> QED
    BY <1>3, <2>1, <2>2 DEF AmountInput, AmountOf, WithAmount
<1>4. CASE Record(r)
  <2>1. ASSUME req[r].cat \in cats, ops' = [ops EXCEPT ![req[r].cat] = @ + 1]
        PROVE  \A c \in merged : ops'[c] = 0
    BY <1>1, <2>1 DEF MergedIsLeft, Typed, Gone
  <2> QED
    BY <1>4, <2>1 DEF Record, MergedIsLeft
<1>5. CASE Reset(r)
  BY <1>5 DEF Reset, MergedIsLeft
<1>6. CASE Choose(r)
  <2> DEFINE c == req[r].cat
  <2>1. c \in Cats /\ KindOf[c] \in Kinds
    BY <1>2, <1>6, DialogueAssumption DEF Choose, Slot, Kinds
  <2>2. /\ dialogue' = WithCat(Row, "amount", KindOf[c], c) /\ late' = Lateness(c)
        /\ UNCHANGED <<ops, merged>>
    BY <1>6 DEF Choose, WithCat
  <2> HIDE DEF c
  <2>3. dialogue'.cat = c
    BY <1>1, <2>1, <2>2, WithCatEdit DEF Category
  <2> QED
    BY <2>1, <2>2, <2>3, WrittenCat
<1>7. CASE Stat(r)
  <2> DEFINE c == IF req[r].cat = NULL THEN Row.cat ELSE req[r].cat
             kind == req[r].kind
  <2>1. c \in Category /\ kind \in Kinds
    BY <1>1, <1>2 DEF Slot, State
  <2>2. /\ dialogue' = WithCat(Row, "period", kind, c)
        /\ UNCHANGED <<ops, merged>>
    BY <1>1, <1>7 DEF Stat, WithCat, State
  <2>3. late' = IF req[r].cat = NULL THEN late ELSE Lateness(req[r].cat)
    BY <1>7 DEF Stat
  <2> HIDE DEF c, kind
  <2>4. dialogue' \in State /\ dialogue'.cat = c
    BY <1>1, <2>1, <2>2, WithCatEdit
  <2>5. CASE req[r].cat = NULL
    BY <2>2, <2>3, <2>4, <2>5, KeptCat DEF c
  <2>6. CASE req[r].cat # NULL
    BY <1>2, <2>2, <2>3, <2>4, <2>6, WrittenCat DEF c, Slot, Category
  <2> QED
    BY <2>5, <2>6
<1>8. CASE Period(r)
  <2>1. dialogue' = WithPeriod(Row, "details", req[r].kind) /\ UNCHANGED <<ops, merged, late>>
    BY <1>8 DEF Period, WithPeriod, history
  <2>2. dialogue' \in State /\ dialogue'.cat = Row.cat
    BY <1>1, <1>2, <2>1, WithPeriodEdit
  <2> QED
    BY <2>1, <2>2, KeptCat
<1> QED
  BY <1>3, <1>4, <1>5, <1>6, <1>7, <1>8

LEMMA MergedIsLeftMerge ==
    ASSUME Faithful, MergedIsLeft, NEW source \in Cats, NEW target \in Cats, Merge(source, target)
    PROVE  MergedIsLeft'
<1>1. /\ source # target /\ target \in cats
      /\ ops' = [ops EXCEPT ![target] = @ + ops[source], ![source] = 0]
      /\ merged' = merged \cup {source} /\ late' = late
      /\ dialogue' = IF dialogue # NULL /\ dialogue.cat = source THEN NULL ELSE dialogue
  BY DEF Merge, Moved
<1>2. \A c \in merged' : ops'[c] = 0
  BY <1>1 DEF Faithful, Typed, Gone, MergedIsLeft
<1> QED
  BY <1>1, <1>2 DEF MergedIsLeft

LEMMA MergedIsLeftStep ==
    ASSUME Faithful, MergedIsLeft, [Next]_vars
    PROVE  MergedIsLeft'
<1>1. ASSUME NEW r \in Requests,
             \/ Text(r) \/ NameInput(r) \/ Load(r) \/ SelectPeriod(r) \/ SelectDetails(r)
             \/ WriteName(r)
      PROVE  MergedIsLeft'
  BY <1>1 DEF Text, NameInput, Load, SelectPeriod, SelectDetails, WriteName, tables, history,
              MergedIsLeft
<1>2. ASSUME NEW r \in Requests, NEW c \in Cats, SelectCategory(r, c)
      PROVE  MergedIsLeft'
  BY <1>2 DEF SelectCategory, tables, MergedIsLeft
<1>3. ASSUME NEW r \in Requests, NEW c \in Category, NEW kind \in Kinds, SelectForStats(r, kind, c)
      PROVE  MergedIsLeft'
  BY <1>3 DEF SelectForStats, MergedIsLeft
<1>4. ASSUME NEW kind \in Kinds, AskName(kind) PROVE MergedIsLeft'
  <2>1. dialogue' = AtStep(Row, "name", kind) /\ UNCHANGED <<ops, merged, late>>
    BY <1>4 DEF AskName, AtStep
  <2>2. dialogue' \in State /\ dialogue'.cat = Row.cat
    BY <2>1, RowType, AtStepEdit DEF Faithful, Typed
  <2> QED
    BY <2>1, <2>2, KeptCat
<1>5. ASSUME NEW r \in Requests, CreatePreset(r) PROVE MergedIsLeft'
  <2>1. UNCHANGED <<ops, merged, dialogue>> /\ late \subseteq late'
    BY <1>5 DEF CreatePreset
  <2> QED
    BY <2>1 DEF MergedIsLeft
<1>6. ASSUME NEW r \in Requests, NEW name, NEW filters, SavePreset(r, name, filters)
      PROVE  MergedIsLeft'
  BY <1>6 DEF SavePreset, tables, history, MergedIsLeft
<1>7. ASSUME NEW r \in Requests, NEW name, NEW p, Rename(r, p, name) PROVE MergedIsLeft'
  BY <1>7 DEF Rename, tables, history, MergedIsLeft
<1>8. ASSUME NEW p, RemovePreset(p) PROVE MergedIsLeft'
  BY <1>8 DEF RemovePreset, history, MergedIsLeft
<1>9. ASSUME NEW c \in Cats, RemoveCategory(c) PROVE MergedIsLeft'
  BY <1>9 DEF RemoveCategory, MergedIsLeft, Faithful, Typed
<1>10. CASE Crash
  BY <1>10 DEF Crash, tables, MergedIsLeft
<1>11. CASE UNCHANGED vars
  BY <1>11 DEF vars, tables, history, MergedIsLeft
<1> QED
  BY <1>1, <1>2, <1>3, <1>4, <1>5, <1>6, <1>7, <1>8, <1>9, <1>10, <1>11, MergedIsLeftMessages,
     MergedIsLeftMerge DEF Next

\* After a merge the category that is gone has no operation left, and the bot's dialogue is not
\* left at it, but for a message that still named it (expense-categories.service.ts, merge). What the
\* same merge does to the presets is in MergeIsFollowed.
THEOREM MergeLeavesNothing == Spec => []MergedIsLeft
<1>1. Init => MergedIsLeft
  BY DEF Init, MergedIsLeft
<1> QED
  BY <1>1, FaithfulHolds, MergedIsLeftStep, PTL DEF Spec
-----------------------------------------------------------------------------
(* Presets: what the loop of a merge leaves of them *)

LEMMA LatestIsOne ==
    ASSUME NEW S \in SUBSET Preset, IsFiniteSet(S), S # {}
    PROVE  Latest(S) \in S
<1> DEFINE Last(t) == \E p \in t : \A q \in t : q.id <= p.id
           Bad == {t \in SUBSET S : t # {} /\ ~Last(t)}
<1>1. Bad = {}
  <2>1. SUFFICES ASSUME Bad # {} PROVE FALSE
    OBVIOUS
  <2>2. PICK t \in Bad : \A u \in Bad : u \subseteq t => u = t
    <3>1. Bad \in SUBSET SUBSET S
      OBVIOUS
    <3> HIDE DEF Bad
    <3> QED
      BY <2>1, <3>1, Smallest
  <2>3. PICK p \in t : TRUE
    OBVIOUS
  <2>4. \A q \in t : q.id \in Nat
    BY DEF Preset
  <2>5. CASE t = {p}
    BY <2>2, <2>4, <2>5
  <2>6. CASE t # {p}
    <3> DEFINE rest == t \ {p}
    <3>0. rest # {} /\ rest \in SUBSET S /\ rest # t /\ rest \subseteq t
      BY <2>2, <2>3, <2>6
    <3>1. Last(rest)
      <4> HIDE DEF rest, Last
      <4> QED
        BY <2>2, <3>0
    <3>2. PICK q \in t \ {p} : \A u \in t \ {p} : u.id <= q.id
      BY <3>1
    <3>3. CASE p.id <= q.id
      BY <2>2, <3>2, <3>3
    <3>4. CASE q.id <= p.id
      <4>1. \A u \in t : u.id <= p.id
        BY <2>3, <2>4, <3>2, <3>4
      <4> QED
        BY <2>2, <2>3, <4>1
    <3> QED
      BY <2>3, <2>4, <3>2, <3>3, <3>4
  <2> QED
    BY <2>5, <2>6
<1>2. Last(S)
  BY <1>1
<1> QED
  BY <1>2 DEF Latest

\* g[s] is what is left when the loop has been through s, as the definition of the fold has it.
Passed(g, s, source, target) ==
    IF s = {} THEN presets ELSE RemapOne(g[s \ {Latest(s)}], Latest(s), source, target)

Loops(g, S, source, target) == g = [s \in SUBSET S |-> Passed(g, s, source, target)]

Loop(S, source, target) == CHOOSE g : Loops(g, S, source, target)

LEMMA RemappedIsLoop ==
    ASSUME NEW source, NEW target
    PROVE  Remapped(source, target) = Loop(presets, source, target)[presets]
BY DEF Remapped, MapThenFoldSet, Loop, Loops, Passed

LEMMA LoopsOnce ==
    ASSUME NEW source, NEW target, NEW S \in SUBSET Preset, NEW T, IsFiniteSet(S),
           NEW g, NEW h, Loops(g, S, source, target), Loops(h, T, source, target),
           NEW s \in (SUBSET S) \cap (SUBSET T)
    PROVE  g[s] = h[s]
<1> DEFINE Bad == {t \in (SUBSET S) \cap (SUBSET T) : g[t] # h[t]}
<1>1. SUFFICES ASSUME Bad # {} PROVE FALSE
  OBVIOUS
<1>2. PICK t \in Bad : \A u \in Bad : u \subseteq t => u = t
  <2>1. Bad \in SUBSET SUBSET S
    OBVIOUS
  <2> HIDE DEF Bad
  <2> QED
    BY <1>1, <2>1, Smallest
<1>3. g[t] = Passed(g, t, source, target) /\ h[t] = Passed(h, t, source, target)
  BY DEF Loops
<1>4. t # {}
  BY <1>2, <1>3 DEF Passed
<1>5. Latest(t) \in t
  <2>1. t \in SUBSET Preset /\ IsFiniteSet(t)
    BY FS_Subset
  <2> QED
    BY <1>4, <2>1, LatestIsOne
<1>6. g[t \ {Latest(t)}] = h[t \ {Latest(t)}]
  BY <1>2, <1>5
<1> QED
  BY <1>2, <1>3, <1>4, <1>6 DEF Passed

LEMMA LoopLoops ==
    ASSUME NEW source, NEW target, NEW S \in SUBSET Preset, IsFiniteSet(S)
    PROVE  Loops(Loop(S, source, target), S, source, target)
<1> DEFINE L(t) == Loop(t, source, target)
           Bad == {t \in SUBSET S : ~Loops(L(t), t, source, target)}
<1>1. SUFFICES ASSUME Bad # {} PROVE FALSE
  OBVIOUS
<1>2. PICK t \in Bad : \A u \in Bad : u \subseteq t => u = t
  <2>1. Bad \in SUBSET SUBSET S
    OBVIOUS
  <2> HIDE DEF Bad
  <2> QED
    BY <1>1, <2>1, Smallest
<1> DEFINE g == [s \in SUBSET t |-> Passed([u \in SUBSET t |-> L(u)[u]], s, source, target)]
<1>0. ASSUME NEW s \in SUBSET t, s # {}
      PROVE  Latest(s) \in s /\ s \ {Latest(s)} \in SUBSET t /\ s \ {Latest(s)} # t
  <2>1. s \in SUBSET Preset /\ IsFiniteSet(s)
    BY FS_Subset
  <2>2. Latest(s) \in s
    BY <1>0, <2>1, LatestIsOne
  <2> QED
    BY <2>2
<1>3. ASSUME NEW s \in SUBSET t, s # t PROVE g[s] = L(s)[s]
  <2>1. Loops(L(s), s, source, target) /\ IsFiniteSet(s) /\ s \in SUBSET Preset
    BY <1>2, <1>3, FS_Subset
  <2>2. L(s)[s] = Passed(L(s), s, source, target)
    <3> HIDE DEF L
    <3> QED
      BY <2>1 DEF Loops
  <2>3. CASE s = {}
    BY <2>2, <2>3 DEF Passed
  <2>4. CASE s # {}
    <3> DEFINE u == s \ {Latest(s)}
    <3>1. u \in SUBSET t /\ u \in SUBSET s /\ u # t
      BY <1>0, <2>4
    <3>2. Loops(L(u), u, source, target)
      BY <1>2, <3>1
    <3>3. L(s)[u] = L(u)[u]
      <4>1. u \in (SUBSET s) \cap (SUBSET u)
        BY <3>1
      <4> HIDE DEF u, L
      <4> QED
        BY <2>1, <3>2, <4>1, LoopsOnce
    <3> HIDE DEF L
    <3> QED
      BY <2>2, <2>4, <3>1, <3>3 DEF Passed
  <2> QED
    BY <2>3, <2>4
<1>4. ASSUME NEW s \in SUBSET t PROVE g[s] = Passed(g, s, source, target)
  <2>1. CASE s = {}
    BY <2>1 DEF Passed
  <2>2. CASE s # {}
    <3> DEFINE u == s \ {Latest(s)}
    <3>1. u \in SUBSET t /\ u # t
      BY <1>0, <2>2
    <3>2. g[u] = L(u)[u]
      BY <1>3, <3>1
    <3> HIDE DEF g
    <3>3. g[s] = Passed([v \in SUBSET t |-> L(v)[v]], s, source, target)
      BY DEF g
    <3> HIDE DEF L
    <3> QED
      BY <2>2, <3>1, <3>2, <3>3 DEF Passed
  <2> QED
    BY <2>1, <2>2
<1>5. Loops(g, t, source, target)
  <2>1. g = [s \in SUBSET t |-> g[s]]
    OBVIOUS
  <2> HIDE DEF g
  <2> QED
    BY <1>4, <2>1 DEF Loops
<1>6. Loops(Loop(t, source, target), t, source, target)
  BY <1>5 DEF Loop
<1> QED
  BY <1>2, <1>6
\* The row of a preset when the loop has been through those of S.
RowOf(p, S, source, target) == IF p \in S THEN Repointed(p, source, target) ELSE p

\* What the loop keeps: each row is that of a preset there was, and no two filter by the same.
Repointing(rows, S, source, target) ==
    /\ IsFiniteSet(rows)
    /\ \A x \in rows : \E p \in presets : x = RowOf(p, S, source, target)
    /\ \A x, y \in rows : x.filters = y.filters => x = y

LEMMA RepointedRow ==
    ASSUME NEW p \in Preset, NEW source \in Cats, NEW target \in Cats
    PROVE  LET e == Repointed(p, source, target)
           IN /\ e \in Preset /\ e.id = p.id /\ e.name = p.name
              /\ e.filters = IF source \in p.filters THEN (p.filters \ {source}) \cup {target}
                             ELSE p.filters
              /\ source \notin p.filters => e = p
BY DEF Repointed, Preset

LEMMA RemapKeeps ==
    ASSUME presets \in SUBSET Preset, NEW source \in Cats, NEW target \in Cats,
           NEW S \in SUBSET presets, NEW p \in S, NEW rows,
           Repointing(rows, S \ {p}, source, target)
    PROVE  Repointing(RemapOne(rows, p, source, target), S, source, target)
<1> DEFINE e == Repointed(p, source, target)
           left == RemapOne(rows, p, source, target)
<1>1. p \in presets /\ p \in Preset
  OBVIOUS
<1>2. source \notin p.filters => e = p
  BY <1>1, RepointedRow
<1>3. RowOf(p, S, source, target) = e /\ RowOf(p, S \ {p}, source, target) = p
  BY DEF RowOf
<1>4. \A q \in presets : q # p => RowOf(q, S, source, target) = RowOf(q, S \ {p}, source, target)
  BY DEF RowOf
<1>5. ASSUME NEW x \in rows \ {p} PROVE \E q \in presets : x = RowOf(q, S, source, target)
  <2>1. PICK q \in presets : x = RowOf(q, S \ {p}, source, target)
    BY DEF Repointing
  <2> QED
    BY <1>3, <1>4, <2>1
<1>6. IsFiniteSet(rows) /\ IsFiniteSet(rows \ {p}) /\ IsFiniteSet((rows \ {p}) \cup {e})
  <2>1. IsFiniteSet(rows)
    BY DEF Repointing
  <2>2. IsFiniteSet(rows \ {p})
    BY <2>1, FS_RemoveElement
  <2> QED
    BY <2>1, <2>2, FS_AddElement
<1>7. \A x, y \in rows : x.filters = y.filters => x = y
  BY DEF Repointing
<1> HIDE DEF e
<1>8. CASE source \notin p.filters
  <2>1. left = rows
    BY <1>8 DEF RemapOne
  <2>2. ASSUME NEW x \in rows PROVE \E q \in presets : x = RowOf(q, S, source, target)
    BY <1>1, <1>2, <1>3, <1>5, <1>8
  <2> QED
    BY <1>6, <1>7, <2>1, <2>2 DEF Repointing
<1>9. CASE source \in p.filters /\ \E q \in rows \ {p} : q.filters = e.filters
  <2>1. left = rows \ {p}
    BY <1>9 DEF RemapOne, e
  <2> QED
    BY <1>5, <1>6, <1>7, <2>1 DEF Repointing
<1>10. CASE source \in p.filters /\ ~\E q \in rows \ {p} : q.filters = e.filters
  <2>1. left = (rows \ {p}) \cup {e}
    BY <1>10 DEF RemapOne, e
  <2>2. ASSUME NEW x \in left PROVE \E q \in presets : x = RowOf(q, S, source, target)
    BY <1>1, <1>3, <1>5, <2>1
  <2>3. ASSUME NEW x \in left, NEW y \in left, x.filters = y.filters PROVE x = y
    BY <1>7, <1>10, <2>1, <2>3
  <2> QED
    BY <1>6, <2>1, <2>2, <2>3 DEF Repointing
<1> QED
  BY <1>8, <1>9, <1>10

\* What a merge leaves of the presets.
LEMMA RemappedKeeps ==
    ASSUME presets \in SUBSET Preset, IsFiniteSet(presets),
           \A p, q \in presets : p.filters = q.filters => p = q,
           NEW source \in Cats, NEW target \in Cats
    PROVE  Repointing(Remapped(source, target), presets, source, target)
<1> DEFINE g == Loop(presets, source, target)
           Bad == {t \in SUBSET presets : ~Repointing(g[t], t, source, target)}
<1>1. Loops(g, presets, source, target)
  BY LoopLoops
<1> HIDE DEF g
<1>2. ASSUME NEW t \in Bad, \A u \in Bad : u \subseteq t => u = t PROVE FALSE
  <2>1. g[t] = Passed(g, t, source, target)
    BY <1>1 DEF Loops
  <2>2. CASE t = {}
    <3>1. g[t] = presets
      BY <2>1, <2>2 DEF Passed
    <3>2. Repointing(presets, {}, source, target)
      BY DEF Repointing, RowOf
    <3> QED
      BY <1>2, <2>2, <3>1, <3>2
  <2>3. CASE t # {}
    <3> DEFINE p == Latest(t)
    <3>1. p \in t
      <4>1. t \in SUBSET Preset /\ IsFiniteSet(t)
        BY FS_Subset
      <4> QED
        BY <2>3, <4>1, LatestIsOne
    <3>2. g[t] = RemapOne(g[t \ {p}], p, source, target)
      BY <2>1, <2>3 DEF Passed
    <3> HIDE DEF p
    <3>3. Repointing(g[t \ {p}], t \ {p}, source, target)
      BY <1>2, <3>1
    <3>4. Repointing(g[t], t, source, target)
      <4>1. t \in SUBSET presets
        OBVIOUS
      <4> QED
        BY <3>1, <3>2, <3>3, <4>1, RemapKeeps
    <3> QED
      BY <3>4
  <2> QED
    BY <2>2, <2>3
<1>3. Bad = {}
  <2>1. SUFFICES ASSUME Bad # {} PROVE FALSE
    OBVIOUS
  <2>2. Bad \in SUBSET SUBSET presets
    OBVIOUS
  <2> HIDE DEF Bad
  <2> QED
    BY <1>2, <2>1, <2>2, Smallest
<1>4. Repointing(g[presets], presets, source, target)
  BY <1>3
<1> QED
  BY <1>4, RemappedIsLoop DEF g

-----------------------------------------------------------------------------
(* Presets: what a merge and the unique indexes keep *)

\* Every preset has an identifier of its own, and a name and a set of filters nobody else has; it
\* filters by a category that was merged only if it was written when that was gone.
Saved ==
    /\ presets \in SUBSET Preset /\ IsFiniteSet(presets)
    /\ made \in [operations: Nat, presets: Nat] /\ late \subseteq Nat
    /\ \A p \in presets : 0 < p.id /\ p.id <= made.presets
    /\ \A p, q \in presets : p.id = q.id \/ p.name = q.name \/ p.filters = q.filters => p = q
    /\ \A p \in presets : p.filters \cap merged # {} => p.id \in late

LEMMA SavedMerge ==
    ASSUME Faithful, Saved, NEW source \in Cats, NEW target \in Cats, Merge(source, target)
    PROVE  Saved'
<1>1. /\ source # target /\ target \in cats /\ presets' = Remapped(source, target)
      /\ merged' = merged \cup {source} /\ made' = made /\ late' = late
  BY DEF Merge
<1>2. target \notin merged
  BY <1>1 DEF Faithful, Gone
<1>3. Repointing(presets', presets, source, target)
  BY <1>1, RemappedKeeps DEF Saved
<1>4. ASSUME NEW x \in presets'
      PROVE  \E p \in presets : x = Repointed(p, source, target)
  BY <1>3 DEF Repointing, RowOf
<1>5. ASSUME NEW x \in presets', NEW p \in presets, x = Repointed(p, source, target)
      PROVE  /\ x \in Preset /\ x.id = p.id /\ x.name = p.name
             /\ x.filters = IF source \in p.filters THEN (p.filters \ {source}) \cup {target}
                            ELSE p.filters
  BY <1>5, RepointedRow DEF Saved
<1>6. presets' \in SUBSET Preset /\ \A x \in presets' : 0 < x.id /\ x.id <= made.presets
  BY <1>4, <1>5 DEF Saved
<1>7. ASSUME NEW x \in presets', NEW y \in presets',
             x.id = y.id \/ x.name = y.name \/ x.filters = y.filters
      PROVE  x = y
  <2>1. PICK p \in presets : x = Repointed(p, source, target)
    BY <1>4
  <2>2. PICK q \in presets : y = Repointed(q, source, target)
    BY <1>4
  <2>3. x.id = p.id /\ x.name = p.name /\ y.id = q.id /\ y.name = q.name
    BY <1>5, <2>1, <2>2
  <2>4. CASE x.filters = y.filters
    BY <1>3, <2>4 DEF Repointing
  <2>5. CASE x.id = y.id \/ x.name = y.name
    <3>1. p = q
      BY <2>3, <2>5 DEF Saved
    <3> QED
      BY <2>1, <2>2, <3>1
  <2> QED
    BY <1>7, <2>4, <2>5
<1>8. ASSUME NEW x \in presets', x.filters \cap merged' # {} PROVE x.id \in late
  <2>1. PICK p \in presets : x = Repointed(p, source, target)
    BY <1>4
  <2>2. p.filters \cap merged # {}
    <3>1. PICK c \in x.filters : c \in merged \cup {source}
      BY <1>1, <1>8
    <3>2. x.filters = IF source \in p.filters THEN (p.filters \ {source}) \cup {target} ELSE p.filters
      BY <1>5, <2>1
    <3>3. c # target
      BY <1>1, <1>2, <3>1
    <3>4. c \in p.filters /\ c # source
      BY <1>1, <3>1, <3>2, <3>3
    <3> QED
      BY <3>1, <3>4
  <2> QED
    BY <1>5, <2>1, <2>2 DEF Saved
<1>9. IsFiniteSet(presets')
  BY <1>3 DEF Repointing
<1> QED
  BY <1>1, <1>6, <1>7, <1>8, <1>9 DEF Saved
\* What requests name of presets is of the right type throughout.
NamedSlots == \A r \in Requests : Named(req[r])

\* A slot is written, and the others are left.
LEMMA NamedWrite ==
    ASSUME Faithful, NamedSlots, NEW r \in Requests, NEW v, Named(v), req' = [req EXCEPT ![r] = v]
    PROVE  NamedSlots'
BY SlotsType DEF Faithful, Typed, NamedSlots

LEMMA NamedFinish ==
    ASSUME Faithful, NamedSlots, NEW r \in Requests, Finish(r)
    PROVE  NamedSlots'
BY IdleSlot, NamedWrite DEF Finish

LEMMA NamedReset ==
    ASSUME Faithful, NamedSlots, NEW r \in Requests, Step(r, "reset")
    PROVE  NamedSlots'
<1> DEFINE v == [req[r] EXCEPT !.pc = "reset"]
<1>1. Slot(req[r]) /\ Named(req[r])
  BY DEF Faithful, Typed, NamedSlots
<1>2. Named(v)
  <2>1. "reset" \in Pcs \ {"choose"} /\ "reset" \notin {"preset", "rename"}
    BY DEF Pcs
  <2> QED
    BY <1>1, <2>1, PcEdit
<1>3. req' = [req EXCEPT ![r] = v]
  BY DEF Step
<1> HIDE DEF v
<1> QED
  BY <1>2, <1>3, NamedWrite

LEMMA NamedSteps ==
    ASSUME Faithful, NamedSlots, NEW r \in Requests,
           \/ Text(r) \/ NameInput(r) \/ AmountInput(r) \/ Load(r) \/ Record(r) \/ Reset(r)
           \/ Choose(r) \/ Stat(r) \/ SelectPeriod(r) \/ Period(r) \/ SelectDetails(r)
           \/ CreatePreset(r) \/ WriteName(r)
    PROVE  NamedSlots'
<1>1. Slot(req[r]) /\ Named(req[r])
  BY DEF Faithful, Typed, NamedSlots
<1>2. CASE Text(r)
  <2> DEFINE pc == IF dialogue.at = "description" THEN "load" ELSE dialogue.at
             v == [Idle EXCEPT !.pc = pc, !.kind = dialogue.kind]
  <2>1. req' = [req EXCEPT ![r] = v]
    BY <1>2 DEF Text, Begin
  <2>2. pc \in Pcs \ {"choose", "preset", "rename"} /\ dialogue.kind \in Kinds
    BY <1>2 DEF Text, Faithful, Typed, State, Pcs
  <2> HIDE DEF pc
  <2>3. Named(v)
    BY <2>2, KindSlot
  <2> HIDE DEF v
  <2> QED
    BY <2>1, <2>3, NamedWrite
<1>3. CASE NameInput(r)
  BY <1>3, NamedReset DEF NameInput
<1>4. CASE Load(r)
  <2>1. CASE Step(r, "reset")
    BY <2>1, NamedReset
  <2>2. ASSUME dialogue # NULL, req' = [req EXCEPT ![r].pc = "record", ![r].cat = dialogue.cat,
                                                   ![r].amount = dialogue.amount]
        PROVE  NamedSlots'
    <3> DEFINE v == Loaded(req[r], dialogue.cat, dialogue.amount)
    <3>1. dialogue.cat \in Category /\ dialogue.amount \in Amount
      BY <2>2 DEF Faithful, Typed, State
    <3>2. Named(v)
      BY <1>1, <3>1, LoadEdit
    <3>3. req' = [req EXCEPT ![r] = v]
      BY <2>2 DEF Loaded, Faithful, Typed
    <3> HIDE DEF v
    <3> QED
      BY <3>2, <3>3, NamedWrite
  <2> QED
    BY <1>4, <2>1, <2>2 DEF Load
<1>5. CASE Record(r)
  BY <1>5, NamedReset, NamedFinish DEF Record
<1>6. CASE SelectPeriod(r)
  <2> DEFINE kind == IF dialogue # NULL /\ dialogue.at \in {"name", "period", "details"}
                     THEN dialogue.kind ELSE "expense"
             v == [Idle EXCEPT !.pc = "period", !.kind = kind]
  <2>1. req' = [req EXCEPT ![r] = v]
    BY <1>6 DEF SelectPeriod, Begin
  <2>2. kind \in Kinds /\ "period" \in Pcs \ {"choose", "preset", "rename"}
    BY DEF Faithful, Typed, State, Kinds, Pcs
  <2> HIDE DEF kind
  <2>3. Named(v)
    BY <2>2, KindSlot
  <2> HIDE DEF v
  <2> QED
    BY <2>1, <2>3, NamedWrite
<1>7. CASE SelectDetails(r)
  <2> DEFINE v == [Idle EXCEPT !.pc = "reset"]
  <2>1. req' = [req EXCEPT ![r] = v]
    BY <1>7 DEF SelectDetails, Begin
  <2>2. Named(v)
    <3>1. "reset" \in Pcs \ {"choose", "preset", "rename"}
      BY DEF Pcs
    <3> QED
      BY <3>1, PcSlot
  <2> HIDE DEF v
  <2> QED
    BY <2>1, <2>2, NamedWrite
<1>8. CASE AmountInput(r) \/ Reset(r) \/ Choose(r) \/ Stat(r) \/ Period(r) \/ CreatePreset(r) \/ WriteName(r)
  BY <1>8, NamedFinish DEF AmountInput, Reset, Choose, Stat, Period, CreatePreset, WriteName
<1> QED
  BY <1>2, <1>3, <1>4, <1>5, <1>6, <1>7, <1>8

LEMMA NamedSlotsStep ==
    ASSUME Faithful, NamedSlots, Saved, [Next]_vars
    PROVE  NamedSlots'
<1>1. ASSUME NEW r \in Requests, NEW c \in Cats, SelectCategory(r, c) PROVE NamedSlots'
  <2> DEFINE v == [Idle EXCEPT !.pc = "choose", !.cat = c]
  <2>1. req' = [req EXCEPT ![r] = v]
    BY <1>1 DEF SelectCategory, Begin
  <2>2. Named(v)
    <3>1. "choose" \in Pcs \ {"preset", "rename"} /\ c \in Category
      BY DEF Pcs, Category
    <3> QED
      BY <3>1, CatSlot
  <2> HIDE DEF v
  <2> QED
    BY <2>1, <2>2, NamedWrite
<1>2. ASSUME NEW r \in Requests, NEW c \in Category, NEW kind \in Kinds, SelectForStats(r, kind, c)
      PROVE  NamedSlots'
  <2> DEFINE v == [Idle EXCEPT !.pc = "stat", !.kind = kind, !.cat = c]
  <2>1. req' = [req EXCEPT ![r] = v]
    BY <1>2 DEF SelectForStats, Begin
  <2>2. Named(v)
    <3>1. "stat" \in Pcs \ {"choose", "preset", "rename"}
      BY DEF Pcs
    <3> QED
      BY <3>1, StatSlot
  <2> HIDE DEF v
  <2> QED
    BY <2>1, <2>2, NamedWrite
<1>3. ASSUME NEW r \in Requests, NEW name \in Names,
             NEW filters \in SUBSET (bound.cats \cup {other}) \ {{}}, SavePreset(r, name, filters)
      PROVE  NamedSlots'
  <2> DEFINE v == [Idle EXCEPT !.pc = "preset", !.name = name, !.filters = filters]
  <2>1. req' = [req EXCEPT ![r] = v]
    BY <1>3 DEF SavePreset
  <2>2. filters \in SUBSET (Cats \cup {other})
    BY DialogueAssumption DEF Faithful, Typed
  <2>3. Named(v)
    BY <2>2, PresetSlots
  <2> HIDE DEF v
  <2> QED
    BY <2>1, <2>3, NamedWrite
<1>4. ASSUME NEW r \in Requests, NEW name \in Names, NEW p \in presets, Rename(r, p, name)
      PROVE  NamedSlots'
  <2> DEFINE v == [Idle EXCEPT !.pc = "rename", !.id = p.id, !.name = name]
  <2>1. req' = [req EXCEPT ![r] = v]
    BY <1>4 DEF Rename
  <2>2. p.id \in Nat
    BY DEF Saved, Preset
  <2>3. Named(v)
    BY <2>2, PresetSlots
  <2> HIDE DEF v
  <2> QED
    BY <2>1, <2>3, NamedWrite
<1>5. ASSUME UNCHANGED req PROVE NamedSlots'
  BY <1>5 DEF NamedSlots
<1>6. CASE Crash
  BY <1>6, IdleSlot DEF Crash, NamedSlots
<1>7. ASSUME \/ \E kind \in Kinds : AskName(kind)
             \/ \E p \in presets : RemovePreset(p)
             \/ \E c, d \in Cats : Merge(c, d)
             \/ \E c \in Cats : RemoveCategory(c)
             \/ UNCHANGED vars
      PROVE  UNCHANGED req
  BY <1>7 DEF AskName, RemovePreset, Merge, RemoveCategory, vars
<1> QED
  BY <1>1, <1>2, <1>3, <1>4, <1>5, <1>6, <1>7, NamedSteps DEF Next

LEMMA SavedStays ==
    ASSUME Saved, UNCHANGED <<presets, merged>>,
           made' \in [operations: Nat, presets: Nat], made'.presets = made.presets,
           late' \in {late, late \ {0}, late \cup {0}}
    PROVE  Saved'
<1>1. late' \subseteq Nat /\ \A n \in late : n # 0 => n \in late'
  BY DEF Saved
<1>2. \A p \in presets : p.id # 0
  BY DEF Saved, Preset
<1> QED
  BY <1>1, <1>2 DEF Saved

LEMMA SavedCreate ==
    ASSUME Faithful, Saved, NamedSlots, NEW r \in Requests, CreatePreset(r)
    PROVE  Saved'
<1> DEFINE q == req[r]
           id == made.presets + 1
           new == [id |-> id, name |-> q.name, filters |-> q.filters]
<1>1. Named(q) /\ q.pc = "preset"
  BY DEF CreatePreset, NamedSlots
<1>0. made \in [operations: Nat, presets: Nat]
  BY DEF Saved
<1>2. CASE UNCHANGED <<presets, made, late>>
  BY <1>0, <1>2, SavedStays DEF CreatePreset
<1>3. ASSUME \A p \in presets : p.filters # q.filters /\ p.name # q.name,
             presets' = presets \cup {new}, made' = [made EXCEPT !.presets = id],
             late' = IF q.filters \subseteq cats \cup {other} THEN late ELSE late \cup {id}
      PROVE  Saved'
  <2>1. id \in Nat /\ id > 0 /\ \A p \in presets : p.id \in Nat /\ p.id < id
    BY DEF Saved, Preset
  <2>2. new \in Preset /\ new.id = id /\ new.name = q.name /\ new.filters = q.filters
    BY <1>1, <2>1 DEF Named, Preset
  <2>3. made' \in [operations: Nat, presets: Nat] /\ made'.presets = id
    BY <1>3, <2>1 DEF Saved
  <2>4. merged' = merged /\ merged \cap (cats \cup {other}) = {}
    BY DialogueAssumption DEF CreatePreset, Faithful, Gone, Typed
  <2> HIDE DEF new, id, q
  <2>5. IsFiniteSet(presets') /\ presets' \in SUBSET Preset
    BY <1>3, <2>2, FS_AddElement DEF Saved
  <2>6. late' \subseteq Nat /\ late \subseteq late' /\ (id \notin late' => q.filters \subseteq cats \cup {other})
    BY <1>3, <2>1 DEF Saved
  <2>7. \A p \in presets' : 0 < p.id /\ p.id <= id
    BY <1>3, <2>1, <2>2 DEF Saved
  <2>8. \A p \in presets' : p.filters \cap merged # {} => p.id \in late'
    BY <1>3, <2>2, <2>4, <2>6 DEF Saved
  <2>9. \A x, y \in presets' : x.id = y.id \/ x.name = y.name \/ x.filters = y.filters => x = y
    BY <1>3, <2>1, <2>2 DEF Saved
  <2> QED
    BY <2>1, <2>3, <2>4, <2>5, <2>6, <2>7, <2>8, <2>9 DEF Saved
<1> QED
  BY <1>2, <1>3 DEF CreatePreset

LEMMA SavedRename ==
    ASSUME Faithful, Saved, NamedSlots, NEW r \in Requests, WriteName(r)
    PROVE  Saved'
<1> DEFINE id == req[r].id
           name == req[r].name
           Written(p) == [p EXCEPT !.name = IF p.id = id THEN name ELSE @]
<1>1. name \in Names
  BY DEF WriteName, NamedSlots, Named
<1>2. UNCHANGED <<made, merged, late>>
  BY DEF WriteName, history
<1>0. made \in [operations: Nat, presets: Nat]
  BY DEF Saved
<1>3. CASE UNCHANGED presets
  BY <1>0, <1>2, <1>3, SavedStays
<1>4. ASSUME \A p \in presets : p.name # name, presets' = {Written(p) : p \in presets}
      PROVE  Saved'
  <2>1. ASSUME NEW p \in presets
        PROVE  /\ Written(p) \in Preset /\ Written(p).id = p.id /\ Written(p).filters = p.filters
               /\ Written(p).name = IF p.id = id THEN name ELSE p.name
    BY <1>1 DEF Saved, Preset
  <2> HIDE DEF Written
  <2>2. IsFiniteSet(presets')
    <3> DEFINE f == [p \in presets |-> Written(p)]
    <3>1. f \in Surjection(presets, presets')
      BY <1>4 DEF Surjection
    <3>2. IsFiniteSet(presets)
      BY DEF Saved
    <3> HIDE DEF f
    <3> QED
      BY <3>1, <3>2, FS_Surjection
  <2>3. presets' \in SUBSET Preset
    BY <1>4, <2>1
  <2>4. \A x \in presets' : 0 < x.id /\ x.id <= made.presets /\ (x.filters \cap merged # {} => x.id \in late)
    BY <1>4, <2>1 DEF Saved
  <2>5. ASSUME NEW x \in presets', NEW y \in presets',
               x.id = y.id \/ x.name = y.name \/ x.filters = y.filters
        PROVE  x = y
    <3>1. PICK p \in presets : x = Written(p)
      BY <1>4
    <3>2. PICK q \in presets : y = Written(q)
      BY <1>4
    <3>3. p.id = q.id \/ p.name = q.name \/ p.filters = q.filters
      BY <1>4, <2>1, <2>5, <3>1, <3>2
    <3>4. p = q
      BY <3>3 DEF Saved
    <3> QED
      BY <3>1, <3>2, <3>4
  <2> QED
    BY <1>2, <2>2, <2>3, <2>4, <2>5 DEF Saved
<1> QED
  BY <1>3, <1>4 DEF WriteName
\* An operation is recorded of a category there is.
Filed == \A c \in Cats : ops[c] > 0 => c \in cats

LEMMA FiledStep ==
    ASSUME Faithful, Filed, [Next]_vars
    PROVE  Filed'
<1>0. Typed
  BY DEF Faithful
<1>1. ASSUME UNCHANGED ops, cats \subseteq cats' PROVE Filed'
  BY <1>1 DEF Filed
<1>2. ASSUME NEW r \in Requests, Record(r) PROVE Filed'
  <2>1. CASE UNCHANGED ops
    BY <1>1, <1>2, <2>1 DEF Record
  <2>2. ASSUME req[r].cat \in cats, ops' = [ops EXCEPT ![req[r].cat] = @ + 1] PROVE Filed'
    BY <1>0, <1>2, <2>2 DEF Record, Filed, Typed
  <2> QED
    BY <1>2, <2>1, <2>2 DEF Record
<1>3. ASSUME NEW c \in Cats, NEW d \in Cats, Merge(c, d) PROVE Filed'
  <2>1. /\ c # d /\ d \in cats /\ cats' = cats \ {c}
        /\ ops' = [ops EXCEPT ![d] = @ + ops[c], ![c] = 0]
    BY <1>3 DEF Merge, Moved
  <2> QED
    BY <1>0, <2>1 DEF Filed, Typed
<1>4. ASSUME NEW c \in Cats, RemoveCategory(c) PROVE Filed'
  BY <1>0, <1>4 DEF RemoveCategory, Filed, Typed
<1>5. ASSUME \/ \E r \in Requests :
                  \/ Text(r) \/ NameInput(r) \/ AmountInput(r) \/ Load(r) \/ Reset(r)
                  \/ Choose(r) \/ Stat(r) \/ SelectPeriod(r) \/ Period(r) \/ SelectDetails(r)
                  \/ CreatePreset(r) \/ WriteName(r)
                  \/ \E c \in Cats : SelectCategory(r, c)
                  \/ \E c \in Category, kind \in Kinds : SelectForStats(r, kind, c)
                  \/ \E name \in Names :
                       \/ \E filters \in SUBSET (bound.cats \cup {other}) \ {{}} : SavePreset(r, name, filters)
                       \/ \E p \in presets : Rename(r, p, name)
             \/ \E kind \in Kinds : AskName(kind)
             \/ \E p \in presets : RemovePreset(p)
             \/ Crash
             \/ UNCHANGED vars
      PROVE  UNCHANGED ops /\ cats \subseteq cats'
  BY <1>5 DEF Text, NameInput, AmountInput, Load, Reset, Choose, Stat, SelectPeriod, Period,
     SelectDetails, CreatePreset, WriteName, SelectCategory, SelectForStats, SavePreset, Rename,
     AskName, RemovePreset, Crash, vars, tables
<1> QED
  BY <1>1, <1>2, <1>3, <1>4, <1>5 DEF Next

LEMMA SavedStep ==
    ASSUME Faithful, Saved, NamedSlots, [Next]_vars
    PROVE  Saved'
<1>0. made \in [operations: Nat, presets: Nat]
  BY DEF Saved
<1>1. ASSUME NEW r \in Requests, Record(r) PROVE Saved'
  <2>1. made' \in [operations: Nat, presets: Nat] /\ made'.presets = made.presets
    BY <1>0, <1>1 DEF Record
  <2> QED
    BY <1>1, <2>1, SavedStays DEF Record
<1>2. ASSUME NEW r \in Requests,
             \/ Text(r) \/ NameInput(r) \/ AmountInput(r) \/ Load(r) \/ Reset(r)
             \/ Choose(r) \/ Stat(r) \/ SelectPeriod(r) \/ Period(r) \/ SelectDetails(r)
      PROVE  /\ UNCHANGED <<presets, merged, made>>
             /\ late' \in {late, late \ {0}, late \cup {0}}
  BY <1>2 DEF Text, NameInput, AmountInput, Load, Reset, Choose, Stat, SelectPeriod, Period,
     SelectDetails, Lateness, tables, history
<1>3. ASSUME \/ \E r \in Requests, c \in Cats : SelectCategory(r, c)
             \/ \E r \in Requests, c \in Category, kind \in Kinds : SelectForStats(r, kind, c)
             \/ \E r \in Requests, name \in Names :
                  \/ \E filters \in SUBSET (bound.cats \cup {other}) \ {{}} : SavePreset(r, name, filters)
                  \/ \E p \in presets : Rename(r, p, name)
             \/ \E kind \in Kinds : AskName(kind)
             \/ \E c \in Cats : RemoveCategory(c)
             \/ Crash
             \/ UNCHANGED vars
      PROVE  /\ UNCHANGED <<presets, merged, made>>
             /\ late' \in {late, late \ {0}, late \cup {0}}
  BY <1>3 DEF SelectCategory, SelectForStats, SavePreset, Rename, AskName, RemoveCategory, Crash,
     vars, tables, history
<1>4. ASSUME NEW p \in presets, RemovePreset(p) PROVE Saved'
  <2>1. presets' = presets \ {p} /\ UNCHANGED <<made, merged, late>>
    BY <1>4 DEF RemovePreset, history
  <2>2. IsFiniteSet(presets')
    BY <2>1, FS_RemoveElement DEF Saved
  <2> QED
    BY <2>1, <2>2 DEF Saved
<1>5. ASSUME UNCHANGED <<presets, merged, made>>, late' \in {late, late \ {0}, late \cup {0}}
      PROVE  Saved'
  BY <1>0, <1>5, SavedStays
<1> QED
  BY <1>1, <1>2, <1>3, <1>4, <1>5, SavedCreate, SavedRename, SavedMerge DEF Next

LEMMA AllSaved == Spec => [](Saved /\ NamedSlots /\ Filed)
<1>1. Init => Saved /\ NamedSlots /\ Filed
  <2> SUFFICES ASSUME Init PROVE Saved /\ NamedSlots /\ Filed
    OBVIOUS
  <2>1. Saved
    BY FS_EmptySet DEF Init, Saved
  <2>2. NamedSlots
    BY IdleSlot DEF Init, NamedSlots
  <2>3. Filed
    BY DEF Init, Filed
  <2> QED
    BY <2>1, <2>2, <2>3
<1>2. Faithful /\ (Saved /\ NamedSlots /\ Filed) /\ [Next]_vars => (Saved /\ NamedSlots /\ Filed)'
  BY SavedStep, NamedSlotsStep, FiledStep
<1> QED
  BY <1>1, <1>2, FaithfulHolds, PTL DEF Spec

\* After a merge nothing points at the category that is gone, neither operations nor presets nor the
\* dialogue, and every preset has a name and a set of filters of its own; but for what was written
\* after it was gone, by a page or a message that still named it (remap-category.ts,
\* expense-categories.service.ts, merge).
THEOREM MergeIsFollowed == Spec => []MergeFollowed
<1>1. MergedIsLeft /\ Saved => MergeFollowed
  BY DEF MergedIsLeft, Saved, MergeFollowed
<1> QED
  BY <1>1, MergeLeavesNothing, AllSaved, PTL

\* Every variable keeps its type, for any categories, presets and number of messages at once; and
\* an operation is of a category there is.
THEOREM TypeCorrect == Spec => []TypeOK
<1>1. Faithful /\ Saved /\ NamedSlots /\ Filed => TypeOK
  <2> SUFFICES ASSUME Faithful, Saved, NamedSlots, Filed PROVE TypeOK
    OBVIOUS
  <2>1. ASSUME NEW r \in Requests PROVE req[r] \in Request
    BY DEF Faithful, Typed, Slot, NamedSlots, Named, Request, Pcs
  <2>2. req \in [Requests -> Request]
    BY <2>1 DEF Faithful, Typed
  <2> QED
    BY <2>2 DEF TypeOK, Faithful, Typed, Saved, Filed
<1> QED
  BY <1>1, FaithfulHolds, AllSaved, PTL
=============================================================================
