-------------------------------- MODULE Goals --------------------------------
(***************************************************************************)
(* Savings goals: what is in a goal is the sum of its contributions.       *)
(*                                                                         *)
(* contribute() and updateContribution() read the goal, then (the edit)    *)
(* the contribution, then the sum, check the sum that would result, write  *)
(* the contribution, mark the goal complete and create its notification:   *)
(* separate statements with no transaction around them, so each is one     *)
(* action here and req[r] is what the handler has read so far.  Fail(r)    *)
(* ends a handler anywhere: refused by a check, failed, or stopped.        *)
(***************************************************************************)
EXTENDS Integers, FiniteSets, FiniteSetsExt, Null

CONSTANTS
    GoalIds, ContribIds,   \* primary keys the database may hand out
    Targets, Amounts,      \* in the goal's currency; a withdrawal is negative
    Requests               \* handlers that may be in progress at once

Goal == [target: Nat, completed: BOOLEAN]
Contribution == [goal: GoalIds, amount: Int]

ASSUME GoalsAssumption ==
    /\ Targets \subseteq Nat \ {0}
    /\ Amounts \subseteq Int
    /\ NULL \notin GoalIds \cup ContribIds
    /\ NULL \notin Int /\ NULL \notin Goal /\ NULL \notin Contribution

VARIABLES
    goal,          \* goals
    contribution,  \* goal_contributions
    notified,      \* goals with a goal_completed notification: one per dedupe key
    req,           \* the handler in progress of each request
    mishaps        \* history: what befell a goal beside checked contributions

vars == <<goal, contribution, notified, req, mishaps>>

Steps == {"idle", "look", "sum", "write", "complete", "notify"}

\* What is kept of a handler between requests, or once only its goal matters.
Only(step, g) == [pc |-> step, goal |-> g, edited |-> NULL, amount |-> NULL, old |-> 0,
                  target |-> 0, completed |-> FALSE, reaches |-> FALSE]
Idle == Only("idle", NULL)

Request == [pc: Steps, goal: GoalIds \cup {NULL}, edited: ContribIds \cup {NULL},
            amount: Int \cup {NULL}, old: Int,
            target: Nat, completed: BOOLEAN, reaches: BOOLEAN]

Mishaps == {"overlap", "deposit deleted", "withdrawal deleted", "retargeted", "interrupted"}

\* A contribution never outlives its goal.
RowsOK ==
    /\ goal \in [GoalIds -> {NULL} \cup Goal]
    /\ contribution \in [ContribIds -> {NULL} \cup Contribution]
    /\ \A k \in ContribIds : contribution[k] # NULL => goal[contribution[k].goal] # NULL

HandlersOK ==
    /\ req \in [Requests -> Request]
    /\ \A r \in Requests :
          /\ req[r].pc # "idle" => req[r].goal \in GoalIds
          /\ req[r].pc = "look" => req[r].edited \in ContribIds
          /\ req[r].pc \in {"sum", "write"} => req[r].amount \in Int

TypeOK ==
    /\ RowsOK
    /\ HandlersOK
    /\ notified \subseteq GoalIds
    /\ mishaps \in [GoalIds -> SUBSET Mishaps]

Init ==
    /\ goal = [g \in GoalIds |-> NULL]
    /\ contribution = [k \in ContribIds |-> NULL]
    /\ notified = {}
    /\ req = [r \in Requests |-> Idle]
    /\ mishaps = [g \in GoalIds |-> {}]

-----------------------------------------------------------------------------
Exists(g) == goal[g] # NULL
In(k, g) == contribution[k] # NULL /\ contribution[k].goal = g

At(r, step) == req[r].pc = step

\* The sum the database groups by goal; a goal without contributions has 0.
Current(g) == MapThenSumSet(LAMBDA k : contribution[k].amount, {k \in ContribIds : In(k, g)})

\* The key of a goal is never handed out twice.
FreshGoal(g) ==
    ~Exists(g) /\ g \notin notified /\ \A r \in Requests : req[r].goal # g
FreshContribution(k) == contribution[k] = NULL /\ \A r \in Requests : req[r].edited # k

\* History: g is written while a handler other than those in Own is halfway with it.
Overlapped(g, Own) ==
    IF \E q \in Requests \ Own : req[q].goal = g THEN {"overlap"} ELSE {}
Note(g, what) == mishaps' = IF Exists(g) THEN [mishaps EXCEPT ![g] = @ \cup what] ELSE mishaps

-----------------------------------------------------------------------------
(***************************************************************************)
(* Handlers of one write, none of which looks at the sum.                  *)
(***************************************************************************)

CreateGoal(g, target) ==
    /\ FreshGoal(g)
    /\ goal' = [goal EXCEPT ![g] = [target |-> target, completed |-> FALSE]]
    /\ UNCHANGED <<contribution, notified, req, mishaps>>

UpdateGoal(g, target) ==
    /\ Exists(g)
    /\ goal' = [goal EXCEPT ![g].target = target]
    /\ Note(g, Overlapped(g, {}) \cup (IF target <= Current(g) THEN {"retargeted"} ELSE {}))
    /\ UNCHANGED <<contribution, notified, req>>

LeftBehind(g, k) == contribution[k]                              \* faulty version

\* The database deletes the contributions of a goal with it.
Cascaded(g, k) == IF In(k, g) THEN NULL ELSE contribution[k]

\* The notification of a deleted goal stays.
RemoveGoal(g) ==
    /\ Exists(g)
    /\ goal' = [goal EXCEPT ![g] = NULL]
    /\ contribution' = [k \in ContribIds |-> Cascaded(g, k)]
    /\ mishaps' = [mishaps EXCEPT ![g] = {}]
    /\ UNCHANGED <<notified, req>>

RemoveContribution(g, k) ==
    /\ Exists(g)
    /\ In(k, g)
    /\ contribution' = [contribution EXCEPT ![k] = NULL]
    /\ Note(g, Overlapped(g, {}) \cup (IF contribution[k].amount > 0
                                       THEN {"deposit deleted"} ELSE {"withdrawal deleted"}))
    /\ UNCHANGED <<goal, notified, req>>

-----------------------------------------------------------------------------
(***************************************************************************)
(* Adding funds, withdrawing them, and editing a past contribution.        *)
(***************************************************************************)

Start(r, g, step, edited, amount) ==
    /\ At(r, "idle")
    /\ Exists(g)
    /\ req' = [req EXCEPT ![r] = [pc |-> step, goal |-> g, edited |-> edited,
                                  amount |-> amount, old |-> 0, target |-> goal[g].target,
                                  completed |-> goal[g].completed, reaches |-> FALSE]]
    /\ UNCHANGED <<goal, contribution, notified, mishaps>>

Contribute(r, g, amount) == Start(r, g, "sum", NULL, amount)

\* NULL: the edit changes the note or the date only.
UpdateContribution(r, g, k, amount) == Start(r, g, "look", k, amount)

LookUpExisting(r) ==
    LET k == req[r].edited IN
    /\ At(r, "look")
    /\ In(k, req[r].goal)
    /\ req' = [req EXCEPT ![r].pc = "sum", ![r].old = contribution[k].amount,
                          ![r].amount = IF @ = NULL THEN contribution[k].amount ELSE @]
    /\ UNCHANGED <<goal, contribution, notified, mishaps>>

\* Faulty versions of what the resulting sum must be.
NoUpperEnd(after, target) == after >= 0
Accepted(after, target) == 0 <= after /\ after <= target

Reaches(after, target) == after >= target

CheckSum(r) ==
    LET after == Current(req[r].goal) - req[r].old + req[r].amount IN
    /\ At(r, "sum")
    /\ req[r].amount # 0
    /\ Accepted(after, req[r].target)
    /\ req' = [req EXCEPT ![r] = [pc |-> "write", goal |-> @.goal, edited |-> @.edited,
                                  amount |-> @.amount, old |-> 0, target |-> 0,
                                  completed |-> FALSE,
                                  reaches |-> ~@.completed /\ Reaches(after, @.target)]]
    /\ UNCHANGED <<goal, contribution, notified, mishaps>>

\* The goal was incomplete when the handler read it, and is now reached.
Finish(r) ==
    req' = [req EXCEPT ![r] = IF @.reaches THEN Only("complete", @.goal) ELSE Idle]

\* The goal must still be there: a foreign key.
RecordContribution(r, k) ==
    LET g == req[r].goal IN
    /\ At(r, "write") /\ req[r].edited = NULL
    /\ Exists(g)
    /\ FreshContribution(k)
    /\ contribution' = [contribution EXCEPT ![k] = [goal |-> g, amount |-> req[r].amount]]
    /\ Finish(r)
    /\ Note(g, Overlapped(g, {r}))
    /\ UNCHANGED <<goal, notified>>

RewriteContribution(r) ==
    LET k == req[r].edited IN
    /\ At(r, "write") /\ k # NULL
    /\ contribution[k] # NULL
    /\ contribution' = [contribution EXCEPT ![k].amount = req[r].amount]
    /\ Finish(r)
    /\ Note(req[r].goal, Overlapped(req[r].goal, {r}))
    /\ UNCHANGED <<goal, notified>>

MarkCompleted(r) ==
    LET g == req[r].goal IN
    /\ At(r, "complete")
    /\ Exists(g)
    /\ goal' = [goal EXCEPT ![g].completed = TRUE]
    /\ req' = [req EXCEPT ![r] = Only("notify", g)]
    /\ UNCHANGED <<contribution, notified, mishaps>>

\* Faulty version: gives up when another handler is busy with the goal.
NotifyIfAlone(r) ==
    notified' = IF Overlapped(req[r].goal, {r}) = {} THEN notified \cup {req[r].goal} ELSE notified

\* An upsert by dedupe key.
CreateNotification(r) == notified' = notified \cup {req[r].goal}

NotifyCompleted(r) ==
    /\ At(r, "notify")
    /\ CreateNotification(r)
    /\ req' = [req EXCEPT ![r] = Idle]
    /\ UNCHANGED <<goal, contribution, mishaps>>

Fail(r) ==
    LET g == req[r].goal IN
    /\ ~At(r, "idle")
    /\ req' = [req EXCEPT ![r] = Idle]
    /\ Note(g, IF req[r].pc \in {"complete", "notify"} THEN {"interrupted"} ELSE {})
    /\ UNCHANGED <<goal, contribution, notified>>

-----------------------------------------------------------------------------
Plain ==
    \/ \E g \in GoalIds, target \in Targets : CreateGoal(g, target) \/ UpdateGoal(g, target)
    \/ \E g \in GoalIds : RemoveGoal(g)
    \/ \E g \in GoalIds, k \in ContribIds : RemoveContribution(g, k)

Handler(r) ==
    \/ \E g \in GoalIds, amount \in Amounts : Contribute(r, g, amount)
    \/ \E g \in GoalIds, k \in ContribIds, amount \in Amounts \cup {NULL} :
          UpdateContribution(r, g, k, amount)
    \/ LookUpExisting(r) \/ CheckSum(r)
    \/ \E k \in ContribIds : RecordContribution(r, k)
    \/ RewriteContribution(r)
    \/ MarkCompleted(r) \/ NotifyCompleted(r)
    \/ Fail(r)

Next == Plain \/ \E r \in Requests : Handler(r)

Spec == Init /\ [][Next]_vars

-----------------------------------------------------------------------------
(***************************************************************************)
(* What must hold.                                                         *)
(***************************************************************************)

Befell(g, what) == mishaps[g] \cap what # {}

\* What the checks of a contribution do enforce: a goal leaves its range only if
\* handlers overlapped on it, or one of the writes that check nothing pushed it
\* there: upwards a deleted withdrawal or a lowered target, downwards a deleted
\* deposit.
RangeEnforced ==
    \A g \in GoalIds : Exists(g) =>
        /\ Current(g) > goal[g].target =>
              Befell(g, {"overlap", "withdrawal deleted", "retargeted"})
        /\ Current(g) < 0 => Befell(g, {"overlap", "deposit deleted"})

\* A completed goal has its notification, or a handler is about to create it,
\* however many handlers complete it at once; only one that dies between the two
\* writes leaves the user untold for good.
CompletedIsNotified ==
    \A g \in GoalIds :
        Exists(g) /\ goal[g].completed =>
            \/ g \in notified
            \/ \E r \in Requests : req[r].goal = g /\ At(r, "notify")
            \/ Befell(g, {"interrupted"})
=============================================================================
