------------------------------- MODULE Dialogue -------------------------------
(***************************************************************************)
(* Categories of one user and what points at them: operations, saved       *)
(* filter presets, and the bot's dialogue that is halfway through adding   *)
(* an operation.                                                           *)
(*                                                                         *)
(* The dialogue is one row of user_states. Every message of the user is    *)
(* handled by a request of its own, which reads the row, acts, and writes  *)
(* it back field by field: fields it does not name keep what an earlier    *)
(* message left. Two messages may be in progress at once, and so may the   *)
(* web application, which merges and removes categories.                   *)
(***************************************************************************)
EXTENDS Integers, FiniteSets, FiniteSetsExt

CONSTANTS
    Cats,       \* primary keys of categories
    KindOf,     \* what each is a category of, "expense" or "income"
    Amounts,    \* amounts the user may type
    Names,      \* names of presets
    other,      \* a filter of a preset that is not in a list of categories; a category given alone,
                \* as a string, is one too: the merge passes it over
    Requests,   \* slots of messages and web requests handled at the same time
    Bounds,     \* in each part of the run: the categories, how many operations and presets are
                \* ever created, and how many messages are handled at once
    NULL

Kinds    == {"expense", "income"}
Category == Cats \cup {NULL}
Amount   == Amounts \cup {NULL}
State    == [at: {"name", "amount", "description", "period", "details"}, kind: Kinds,
             cat: Category, amount: Amount, period: BOOLEAN]
Preset   == [id: Nat, name: Names, filters: SUBSET (Cats \cup {other})]
Request  == [pc: {"idle", "name", "amount", "load", "record", "reset", "choose", "stat", "period",
                  "preset", "rename"},
             kind: Kinds, cat: Category, amount: Amount,
             id: Nat, name: Names \cup {NULL}, filters: SUBSET (Cats \cup {other})]
Idle     == [pc |-> "idle", kind |-> "expense", cat |-> NULL, amount |-> NULL,
             id |-> 0, name |-> NULL, filters |-> {}]
Nothing  == [cat |-> NULL, amount |-> NULL]

ASSUME DialogueAssumption ==
    /\ KindOf \in [Cats -> {"expense", "income"}]
    /\ other \notin Cats /\ NULL \notin Cats \cup Amounts \cup Names \cup State
    /\ Bounds \subseteq [cats: SUBSET Cats, operations: Nat, presets: Nat, messages: Nat]

VARIABLES
    cats,      \* the categories there are
    ops,       \* operations of each category
    presets,   \* filter_presets of scope TRANSACTIONS
    dialogue,  \* the row of user_states, or NULL
    req,       \* messages and requests in progress
    bound,     \* the bounds of this part of the run
    made,      \* operations and presets created so far
    entered,   \* history: the category and amount the user gave last, not recorded yet
    mixed,     \* history: messages overlapped since the category was chosen
    merged,    \* history: categories that were merged into another
    removed,   \* history: categories that were removed
    late       \* history: presets, and 0 for the dialogue, written with a category already gone

tables  == <<cats, ops, presets, dialogue, made>>
history == <<entered, mixed, merged, removed, late>>
vars    == <<tables, req, bound, history>>

TypeOK ==
    /\ cats \subseteq Cats
    /\ ops \in [Cats -> Nat] /\ \A c \in Cats : ops[c] > 0 => c \in cats
    /\ presets \subseteq Preset
    /\ dialogue \in State \cup {NULL}
    /\ req \in [Requests -> Request]
    /\ bound \in Bounds /\ made \in [operations: Nat, presets: Nat]
    /\ entered \in [cat: Category, amount: Amount] /\ mixed \in BOOLEAN
    /\ merged \subseteq Cats /\ removed \subseteq Cats
    /\ late \subseteq Nat

Init ==
    /\ bound \in Bounds /\ cats \in SUBSET bound.cats
    /\ ops = [c \in Cats |-> 0]
    /\ presets = {} /\ dialogue = NULL
    /\ req = [r \in Requests |-> Idle]
    /\ made = [operations |-> 0, presets |-> 0]
    /\ entered = Nothing /\ mixed = FALSE
    /\ merged = {} /\ removed = {} /\ late = {}

-----------------------------------------------------------------------------
(* Messages: StateService and the requests that use it *)

Busy == \E r \in Requests : req[r] # Idle

Begin(r, request) ==
    /\ req[r] = Idle /\ Cardinality({q \in Requests : req[q] # Idle}) < bound.messages
    /\ req' = [req EXCEPT ![r] = request]
    /\ mixed' = (mixed \/ Busy)

Step(r, pc) == req' = [req EXCEPT ![r].pc = pc]
Finish(r)   == req' = [req EXCEPT ![r] = Idle]

\* The row an upsert finds, or the defaults of the columns.
Row == IF dialogue # NULL THEN dialogue
       ELSE [at |-> "name", kind |-> "expense", cat |-> NULL, amount |-> NULL, period |-> FALSE]

\* A category written into the dialogue after it was merged or removed.
Lateness(cat) == IF cat \in cats THEN late \ {0} ELSE late \cup {0}

-----------------------------------------------------------------------------
(* Text messages: the step is read, then the handler of that step runs *)

Text(r) ==
    /\ dialogue # NULL /\ dialogue.at \in {"name", "amount", "description"}
    /\ Begin(r, [Idle EXCEPT !.pc = IF dialogue.at = "description" THEN "load" ELSE dialogue.at,
                             !.kind = dialogue.kind])
    /\ UNCHANGED <<tables, bound, entered, merged, removed, late>>

\* CategoryHandler.handleNameInput; where the plan's limit refuses, only the dialogue is reset.
NameInput(r) ==
    /\ req[r].pc = "name"
    /\ \/ UNCHANGED cats
       \/ \E c \in bound.cats \ (cats \cup merged \cup removed) :
              KindOf[c] = req[r].kind /\ cats' = cats \cup {c}
    /\ Step(r, "reset")
    /\ UNCHANGED <<ops, presets, dialogue, made, bound, history>>

\* Faulty version: an amount that is already there is kept.
FirstAmount(row, amount) == IF row.amount = NULL THEN amount ELSE row.amount

AmountOf(row, amount) == amount

\* handleAmountInput of both handlers; a text that is no amount changes nothing.
AmountInput(r) ==
    /\ req[r].pc = "amount"
    /\ \/ UNCHANGED <<dialogue, entered>>
       \/ \E x \in Amounts :
            /\ dialogue' = [Row EXCEPT !.at = "description", !.kind = req[r].kind,
                                       !.amount = AmountOf(Row, x)]
            /\ entered' = [entered EXCEPT !.amount = x]
    /\ Finish(r)
    /\ UNCHANGED <<cats, ops, presets, made, bound, mixed, merged, removed, late>>

\* handleDescriptionInput of both handlers: the row is read again.
Load(r) ==
    /\ req[r].pc = "load"
    /\ IF dialogue # NULL /\ dialogue.cat # NULL /\ dialogue.amount # NULL
       THEN req' = [req EXCEPT ![r].pc = "record", ![r].cat = dialogue.cat,
                               ![r].amount = dialogue.amount]
       ELSE Step(r, "reset")
    /\ UNCHANGED <<tables, bound, history>>

\* The operation is created, or the limit of the plan resets the dialogue, or the foreign key
\* refuses a category that is gone or of the other kind and the dialogue stays.
Record(r) ==
    LET fits == req[r].cat \in cats /\ KindOf[req[r].cat] = req[r].kind
    IN /\ req[r].pc = "record"
       /\ \/ /\ fits /\ made.operations < bound.operations
             /\ ops' = [ops EXCEPT ![req[r].cat] = @ + 1]
             /\ made' = [made EXCEPT !.operations = @ + 1]
             /\ entered' = Nothing
             /\ Step(r, "reset")
          \/ Step(r, "reset") /\ UNCHANGED <<ops, made, entered>>
          \/ ~fits /\ Finish(r) /\ UNCHANGED <<ops, made, entered>>
       /\ UNCHANGED <<cats, presets, dialogue, bound, mixed, merged, removed, late>>

Reset(r) ==
    /\ req[r].pc = "reset"
    /\ dialogue' = NULL
    /\ entered' = Nothing
    /\ late' = late \ {0}
    /\ Finish(r)
    /\ UNCHANGED <<cats, ops, presets, made, bound, mixed, merged, removed>>

-----------------------------------------------------------------------------
(* Buttons *)

\* CategoryHandler.handleTypeSelected
AskName(kind) ==
    /\ bound.messages > 0
    /\ dialogue' = [Row EXCEPT !.at = "name", !.kind = kind]
    /\ mixed' = (mixed \/ Busy)
    /\ UNCHANGED <<cats, ops, presets, made, req, bound, entered, merged, removed, late>>

\* handleCategorySelected of both handlers: the category is looked up, then written.
SelectCategory(r, c) ==
    /\ c \in cats
    /\ Begin(r, [Idle EXCEPT !.pc = "choose", !.cat = c])
    /\ UNCHANGED <<tables, bound, entered, merged, removed, late>>

Choose(r) ==
    LET c == req[r].cat
    IN /\ req[r].pc = "choose"
       /\ dialogue' = [Row EXCEPT !.at = "amount", !.kind = KindOf[c], !.cat = c]
       /\ entered' = [cat |-> c, amount |-> NULL]
       /\ mixed' = \E q \in Requests \ {r} : req[q] # Idle
       /\ late' = Lateness(c)
       /\ Finish(r)
       /\ UNCHANGED <<cats, ops, presets, made, bound, merged, removed>>

\* StatHandler.handleCategorySelected: reset, then the row anew; a button may outlive its category.
SelectForStats(r, kind, c) ==
    /\ c # NULL => c \in bound.cats /\ KindOf[c] = kind
    /\ Begin(r, [Idle EXCEPT !.pc = "stat", !.kind = kind, !.cat = c])
    /\ dialogue' = NULL
    /\ entered' = Nothing
    /\ late' = late \ {0}
    /\ UNCHANGED <<cats, ops, presets, made, bound, merged, removed>>

Stat(r) ==
    /\ req[r].pc = "stat"
    /\ dialogue' = [Row EXCEPT !.at = "period", !.kind = req[r].kind,
                               !.cat = IF req[r].cat = NULL THEN @ ELSE req[r].cat]
    /\ late' = IF req[r].cat = NULL THEN late ELSE Lateness(req[r].cat)
    /\ Finish(r)
    /\ UNCHANGED <<cats, ops, presets, made, bound, entered, mixed, merged, removed>>

\* handlePeriodSelected: the kind is taken from a step of a statistics dialogue, else "expense".
SelectPeriod(r) ==
    /\ Begin(r, [Idle EXCEPT !.pc = "period",
                     !.kind = IF dialogue # NULL /\ dialogue.at \in {"name", "period", "details"}
                              THEN dialogue.kind ELSE "expense"])
    /\ UNCHANGED <<tables, bound, entered, merged, removed, late>>

Period(r) ==
    /\ req[r].pc = "period"
    /\ dialogue' = [Row EXCEPT !.at = "details", !.kind = req[r].kind, !.period = TRUE]
    /\ Finish(r)
    /\ UNCHANGED <<cats, ops, presets, made, bound, history>>

\* handleDetailsSelected resets the dialogue, whether or not it finds a period to report.
SelectDetails(r) ==
    /\ Begin(r, [Idle EXCEPT !.pc = "reset"])
    /\ UNCHANGED <<tables, bound, entered, merged, removed, late>>

-----------------------------------------------------------------------------
(* The web application: presets and categories *)

SavePreset(r, name, filters) ==
    /\ \A p \in presets : p.filters # filters /\ p.name # name
    /\ req[r] = Idle /\ made.presets < bound.presets
    /\ req' = [req EXCEPT ![r] = [Idle EXCEPT !.pc = "preset", !.name = name, !.filters = filters]]
    /\ UNCHANGED <<tables, bound, history>>

\* The unique indexes refuse what the check before let through.
CreatePreset(r) ==
    LET q == req[r]
        id == made.presets + 1
    IN /\ q.pc = "preset"
       /\ IF \E p \in presets : p.filters = q.filters \/ p.name = q.name
          THEN UNCHANGED <<presets, made, late>>
          ELSE /\ id <= bound.presets
               /\ presets' = presets \cup {[id |-> id, name |-> q.name, filters |-> q.filters]}
               /\ made' = [made EXCEPT !.presets = id]
               /\ late' = IF q.filters \subseteq cats \cup {other} THEN late ELSE late \cup {id}
       /\ Finish(r)
       /\ UNCHANGED <<cats, ops, dialogue, bound, entered, mixed, merged, removed>>

Rename(r, p, name) ==
    /\ \A q \in presets : q.name # name
    /\ req[r] = Idle
    /\ req' = [req EXCEPT ![r] = [Idle EXCEPT !.pc = "rename", !.id = p.id, !.name = name]]
    /\ UNCHANGED <<tables, bound, history>>

WriteName(r) ==
    /\ req[r].pc = "rename"
    /\ presets' = IF \E p \in presets : p.name = req[r].name THEN presets
                  ELSE {[p EXCEPT !.name = IF p.id = req[r].id THEN req[r].name ELSE @] :
                            p \in presets}
    /\ Finish(r)
    /\ UNCHANGED <<cats, ops, dialogue, made, bound, history>>

RemovePreset(p) ==
    /\ presets' = presets \ {p}
    /\ UNCHANGED <<cats, ops, dialogue, made, req, bound, history>>

Repointed(p, source, target) ==
    [p EXCEPT !.filters = IF source \in @ THEN (@ \ {source}) \cup {target} ELSE @]

\* Faulty version: twins are left to the unique index.
TwinsKept(rows, p, source, target) == (rows \ {p}) \cup {Repointed(p, source, target)}

\* One preset of the loop: a twin among the rows as they are by now makes it superfluous.
RemapOne(rows, p, source, target) ==
    IF source \notin p.filters THEN rows
    ELSE IF \E q \in rows \ {p} : q.filters = Repointed(p, source, target).filters
         THEN rows \ {p}
         ELSE (rows \ {p}) \cup {Repointed(p, source, target)}

Latest(S) == CHOOSE p \in S : \A q \in S : q.id <= p.id

\* remapCategoryInPresets: the presets in the order they were created, the latest after the rest.
Remapped(source, target) ==
    MapThenFoldSet(LAMBDA p, rows : RemapOne(rows, p, source, target), presets,
                   LAMBDA p : p, Latest, presets)

Moved(source, target) == [ops EXCEPT ![target] = @ + ops[source], ![source] = 0]

\* merge, one transaction: operations, presets, the dialogue, and the category itself
Merge(source, target) ==
    LET pointing == dialogue # NULL /\ dialogue.cat = source
    IN /\ source # target /\ {source, target} \subseteq cats /\ KindOf[source] = KindOf[target]
       /\ ops' = Moved(source, target)
       /\ presets' = Remapped(source, target)
       /\ dialogue' = IF pointing THEN NULL ELSE dialogue
       /\ entered' = IF pointing THEN Nothing ELSE entered
       /\ cats' = cats \ {source}
       /\ merged' = merged \cup {source}
       /\ UNCHANGED <<made, req, bound, mixed, removed, late>>

\* remove: the operations go with the category; presets and the dialogue are left as they are.
RemoveCategory(c) ==
    /\ c \in cats
    /\ cats' = cats \ {c}
    /\ ops' = [ops EXCEPT ![c] = 0]
    /\ removed' = removed \cup {c}
    /\ UNCHANGED <<presets, dialogue, made, req, bound, entered, mixed, merged, late>>

Crash ==
    /\ Busy
    /\ req' = [r \in Requests |-> Idle]
    /\ mixed' = TRUE
    /\ UNCHANGED <<tables, bound, entered, merged, removed, late>>

Next ==
    \/ \E r \in Requests :
         \/ Text(r) \/ NameInput(r) \/ AmountInput(r) \/ Load(r) \/ Record(r) \/ Reset(r)
         \/ Choose(r) \/ Stat(r) \/ SelectPeriod(r) \/ Period(r) \/ SelectDetails(r)
         \/ CreatePreset(r) \/ WriteName(r)
         \/ \E c \in Cats : SelectCategory(r, c)
         \/ \E c \in Category, kind \in Kinds : SelectForStats(r, kind, c)
         \/ \E name \in Names :
              \/ \E filters \in SUBSET (bound.cats \cup {other}) \ {{}} : SavePreset(r, name, filters)
              \/ \E p \in presets : Rename(r, p, name)
    \/ \E kind \in Kinds : AskName(kind)
    \/ \E p \in presets : RemovePreset(p)
    \/ \E c, d \in Cats : Merge(c, d)
    \/ \E c \in Cats : RemoveCategory(c)
    \/ Crash

Spec == Init /\ [][Next]_vars

-----------------------------------------------------------------------------
(* Properties *)

\* An operation the bot records has the category the user chose and the amount typed after it, and
\* is recorded once (income.handler.ts:37-87), unless messages were handled at the same time or the
\* process stopped halfway: the row of the dialogue then mixes the fields of both.
RecordedAsEntered ==
    [][\A r \in Requests :
          req[r].pc = "record" /\ req'[r] # req[r] /\ ops' # ops =>
              mixed \/ entered = [cat |-> req[r].cat, amount |-> req[r].amount]]_vars

\* After a merge nothing points at the category that is gone: operations have the target, its presets
\* filter by the target, each set of filters is saved once, and the dialogue is not left halfway
\* (remap-category.ts:5-12, expense-categories.service.ts:171-197). Not counted: what was written
\* after the category was gone, by a page or a message that still named it; and a category a
\* preset has as a single string and not in a list, which stays (remap-category.ts:26).
MergeFollowed ==
    /\ \A c \in merged : ops[c] = 0
    /\ \A p \in presets : p.filters \cap merged # {} => p.id \in late
    /\ \A p, q \in presets : p.filters = q.filters \/ p.name = q.name => p = q
    /\ dialogue # NULL /\ dialogue.cat \in merged => 0 \in late
=============================================================================
