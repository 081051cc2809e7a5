--------------------------------- MODULE Plans ---------------------------------
(***************************************************************************)
(* Plans, subscriptions and the limits they set: which plan a user is on,  *)
(* what an administrator may do to plans while users are on them, and the  *)
(* limits of categories and of transactions a month.                       *)
(*                                                                         *)
(* A limit is looked up, the rows are counted, and only then is the one    *)
(* more written: each is a statement of its own, and other requests of the *)
(* user, the end of the month and administrators run in between.  An       *)
(* administrator's request too reads before it writes, and several of them *)
(* run at once.                                                            *)
(***************************************************************************)
EXTENDS Integers, FiniteSets, Null

CONSTANTS
    PlanIds,    \* primary keys the database may hand out
    Names,      \* names of plans, FREE_PLAN_NAME one of them
    Limits,     \* values of maxCategories and maxTransactionsPerMonth; NULL is unlimited
    Kinds,      \* what is limited: "category" and "transaction"
    Users,      \* identities of users
    Creations,  \* slots of creations that run at the same time
    Administrators, \* slots of administrators' requests that run at the same time
    MaxTime,    \* bound of the clock, in months
    MaxRows,    \* bound of the rows a user has of one kind
    free        \* the name of the plan of those without another

Month == 0..MaxTime

Limit   == Nat \cup {NULL}
Plan    == [name: Names, limit: [Kinds -> Limit], archived: BOOLEAN]
Sub     == [plan: PlanIds, until: Nat \cup {NULL}]

ASSUME PlansAssumption ==
    /\ free \in Names /\ Kinds \subseteq {"category", "transaction"}
    /\ Limits \subseteq Nat \cup {NULL}
    /\ IsFiniteSet(Creations)
    /\ MaxTime \in Nat /\ MaxRows \in Nat
    /\ NULL \notin PlanIds \cup Users \cup Int
    /\ NULL \notin Plan /\ NULL \notin Sub

VARIABLES
    month,      \* the current month
    plan,       \* plans
    users,      \* the users there are
    sub,        \* user_subscriptions
    made,       \* rows of a user: categories, and transactions of this month
    ahead,      \* transactions dated into the next month
    creation,   \* creations in progress
    admin,      \* the plan each administrator's request has read and is about to change
    renamed,    \* history: the free plan was given another name
    checked,    \* history: the highest limit a user's creation was checked against
    unchecked   \* history: transactions of this month that no check of it has counted

tables    == <<plan, users, sub, made, ahead>>
history   == <<renamed, checked, unchecked>>
plansVars == <<month, tables, creation, admin, history>>

Creation == [pc: {"idle", "count", "create"}, user: Users \cup {NULL},
             kind: Kinds \cup {NULL}, limit: Limit]
Admin   == [pc: {"idle", "archive", "delete", "subscribe"}, plan: PlanIds \cup {NULL},
            user: Users \cup {NULL}]

PlansTypeOK ==
    /\ month \in Nat
    /\ plan \in [PlanIds -> Plan \cup {NULL}]
    /\ users \subseteq Users
    /\ sub \in [Users -> Sub \cup {NULL}]
    /\ \A u \in Users \ users : sub[u] = NULL
    /\ made \in [Users -> [Kinds -> Nat]]
    /\ ahead \in [Users -> Nat]
    /\ creation \in [Creations -> Creation]
    /\ \A r \in Creations :
          creation[r].pc # "idle" => creation[r].user \in users /\ creation[r].kind \in Kinds
    /\ admin \in [Administrators -> Admin]
    /\ \A a \in Administrators :
          /\ admin[a].pc # "idle" => admin[a].plan \in PlanIds
          /\ admin[a].pc = "subscribe" => admin[a].user \in users
    /\ renamed \in BOOLEAN
    /\ checked \in [Users -> [Kinds -> Limit]]
    /\ unchecked \in [Users -> Nat]

NotCreating == [pc |-> "idle", user |-> NULL, kind |-> NULL, limit |-> NULL]
Done == [pc |-> "idle", plan |-> NULL, user |-> NULL]
None == [k \in Kinds |-> 0]

\* The seed has created the free plan.
PlansInit ==
    /\ month = 0
    /\ \E p \in PlanIds, limit \in [Kinds -> Limits] :
          plan = [q \in PlanIds |-> IF q = p THEN [name |-> free, limit |-> limit, archived |-> FALSE]
                                            ELSE NULL]
    /\ users = {}
    /\ sub = [u \in Users |-> NULL]
    /\ made = [u \in Users |-> None] /\ ahead = [u \in Users |-> 0]
    /\ creation = [r \in Creations |-> NotCreating]
    /\ admin = [a \in Administrators |-> Done]
    /\ renamed = FALSE
    /\ checked = [u \in Users |-> None] /\ unchecked = [u \in Users |-> 0]

Present(p) == plan[p] # NULL
Named(n) == {p \in PlanIds : Present(p) /\ plan[p].name = n}   \* the name is unique
Subscribers(p) == {u \in Users : sub[u] # NULL /\ sub[u].plan = p}

Active(u) == sub[u] # NULL /\ (sub[u].until # NULL => sub[u].until > month)

\* The plan a user is on: at most one, and none where the code throws.
EffectivePlan(u) == IF Active(u) THEN {sub[u].plan} ELSE Named(free)

-----------------------------------------------------------------------------
(***************************************************************************)
(* Users: they sign up on the free plan, and take all they have with them. *)
(***************************************************************************)

SignUp(u) ==
    /\ u \notin users
    /\ \E p \in Named(free) : sub' = [sub EXCEPT ![u] = [plan |-> p, until |-> NULL]]
    /\ users' = users \cup {u}
    /\ UNCHANGED <<month, plan, made, ahead, creation, admin, history>>

\* Faulty version: the subscription stays behind.
Orphaned(u) == sub
SubCascaded(u) == [sub EXCEPT ![u] = NULL]

\* Requests of the user fail at their next statement.
RemoveUser(u) ==
    /\ u \in users
    /\ users' = users \ {u}
    /\ sub' = SubCascaded(u)
    /\ made' = [made EXCEPT ![u] = None] /\ ahead' = [ahead EXCEPT ![u] = 0]
    /\ creation' = [r \in Creations |-> IF creation[r].user = u THEN NotCreating ELSE creation[r]]
    /\ admin' = [a \in Administrators |-> IF admin[a].user = u THEN Done ELSE admin[a]]
    /\ checked' = [checked EXCEPT ![u] = None] /\ unchecked' = [unchecked EXCEPT ![u] = 0]
    /\ UNCHANGED <<month, plan, renamed>>

-----------------------------------------------------------------------------
(***************************************************************************)
(* Creating a category or a transaction: the limit of the plan, then the   *)
(* count, then the row.                                                    *)
(***************************************************************************)

\* An unlimited plan is not counted against.
Begin(r, u, k) ==
    /\ creation[r].pc = "idle" /\ u \in users
    /\ \E p \in EffectivePlan(u) :
          LET limit == plan[p].limit[k] IN
          creation' = [creation EXCEPT ![r] = [pc |-> IF limit = NULL THEN "create" ELSE "count",
                                               user |-> u, kind |-> k, limit |-> limit]]
    /\ UNCHANGED <<month, tables, admin, history>>

\* Faulty version: one more than the limit.
NotAbove(count, limit) == count <= limit
Below(count, limit) == count < limit

Higher(a, b) == IF a = NULL \/ b = NULL THEN NULL ELSE IF a < b THEN b ELSE a

CountRows(r) ==
    LET q == creation[r] IN
    /\ q.pc = "count"
    /\ IF Below(made[q.user][q.kind], q.limit)
       THEN /\ creation' = [creation EXCEPT ![r].pc = "create"]
            /\ checked' = [checked EXCEPT ![q.user][q.kind] = Higher(@, q.limit)]
       ELSE /\ creation' = [creation EXCEPT ![r] = NotCreating]
            /\ UNCHANGED checked
    /\ UNCHANGED <<month, tables, admin, renamed, unchecked>>

\* The date is the user's: this month, the next one, or another that does not matter.
Create(r, date) ==
    LET q == creation[r]
        now == q.kind = "category" \/ date = month IN
    /\ q.pc = "create"
    /\ q.kind = "category" => date = month
    /\ now => made[q.user][q.kind] < MaxRows
    /\ date = month + 1 => ahead[q.user] < MaxRows
    /\ made' = IF now THEN [made EXCEPT ![q.user][q.kind] = @ + 1] ELSE made
    /\ ahead' = IF date = month + 1 THEN [ahead EXCEPT ![q.user] = @ + 1] ELSE ahead
    /\ checked' = IF q.limit = NULL THEN [checked EXCEPT ![q.user][q.kind] = NULL] ELSE checked
    /\ creation' = [creation EXCEPT ![r] = NotCreating]
    /\ UNCHANGED <<month, plan, users, sub, admin, renamed, unchecked>>

Unchecked(u, k) == IF k = "transaction" THEN unchecked[u] ELSE 0

\* A row is deleted, or a category merged into another.
RemoveRow(u, k) ==
    /\ made[u][k] > 0
    /\ made' = [made EXCEPT ![u][k] = @ - 1]
    /\ \/ made[u][k] > Unchecked(u, k) /\ UNCHANGED unchecked
       \/ Unchecked(u, k) > 0 /\ unchecked' = [unchecked EXCEPT ![u] = @ - 1]
    /\ UNCHANGED <<month, plan, users, sub, ahead, creation, admin, renamed, checked>>

\* An edit moves a transaction from another month into this one: no limit is asked.
MoveIntoMonth(u) ==
    /\ u \in users /\ "transaction" \in Kinds /\ made[u]["transaction"] < MaxRows
    /\ made' = [made EXCEPT ![u]["transaction"] = @ + 1]
    /\ unchecked' = [unchecked EXCEPT ![u] = @ + 1]
    /\ UNCHANGED <<month, plan, users, sub, ahead, creation, admin, renamed, checked>>

\* With the month everybody's transactions begin again, at those dated into it.
NextMonth ==
    /\ month < MaxTime
    /\ month' = month + 1
    /\ made' = [u \in Users |-> [k \in Kinds |-> IF k = "transaction" THEN ahead[u] ELSE made[u][k]]]
    /\ ahead' = [u \in Users |-> 0]
    /\ unchecked' = ahead
    /\ UNCHANGED <<plan, users, sub, creation, admin, renamed, checked>>

-----------------------------------------------------------------------------
(***************************************************************************)
(* Administrators.  What is checked of a plan, or the plan itself, is read *)
(* before it is changed, and requests of other administrators come in      *)
(* between; the unique name and the foreign key are left to refuse.        *)
(***************************************************************************)

\* Under a key that nobody has read: keys of deleted plans are not used again.
CreatePlan(p, n, limit) ==
    /\ ~Present(p) /\ Named(n) = {}
    /\ \A a \in Administrators : admin[a].plan # p
    /\ plan' = [plan EXCEPT ![p] = [name |-> n, limit |-> limit, archived |-> FALSE]]
    /\ UNCHANGED <<month, users, sub, made, ahead, creation, admin, history>>

\* Also the free plan is renamed, and another becomes it.
UpdatePlan(p, n, limit) ==
    /\ Present(p) /\ Named(n) \subseteq {p}
    /\ plan' = [plan EXCEPT ![p] = [name |-> n, limit |-> limit, archived |-> @.archived]]
    /\ renamed' = (renamed \/ (plan[p].name = free /\ n # free))
    /\ UNCHANGED <<month, users, sub, made, ahead, creation, admin, checked, unchecked>>

UnarchivePlan(p) ==
    /\ Present(p)
    /\ plan' = [plan EXCEPT ![p].archived = FALSE]
    /\ UNCHANGED <<month, users, sub, made, ahead, creation, admin, history>>

MayArchive(p) == plan[p].name # free

BeginArchive(a, p) ==
    /\ admin[a] = Done /\ Present(p) /\ MayArchive(p)
    /\ admin' = [admin EXCEPT ![a] = [Done EXCEPT !.pc = "archive", !.plan = p]]
    /\ UNCHANGED <<month, tables, creation, history>>

Archive(a) ==
    LET p == admin[a].plan IN
    /\ admin[a].pc = "archive"
    /\ plan' = IF Present(p) THEN [plan EXCEPT ![p].archived = TRUE] ELSE plan
    /\ admin' = [admin EXCEPT ![a] = Done]
    /\ UNCHANGED <<month, users, sub, made, ahead, creation, history>>

MayDelete(p) == plan[p].name # free /\ Subscribers(p) = {}

BeginDelete(a, p) ==
    /\ admin[a] = Done /\ Present(p) /\ MayDelete(p)
    /\ admin' = [admin EXCEPT ![a] = [Done EXCEPT !.pc = "delete", !.plan = p]]
    /\ UNCHANGED <<month, tables, creation, history>>

\* Faulty version: the subscriptions were counted, and that is that.
Gone(p) == TRUE
\* The foreign key refuses while somebody is on the plan.
Unsubscribed(p) == Subscribers(p) = {}

DeletePlan(a) ==
    LET p == admin[a].plan IN
    /\ admin[a].pc = "delete"
    /\ plan' = IF Unsubscribed(p) THEN [plan EXCEPT ![p] = NULL] ELSE plan
    /\ admin' = [admin EXCEPT ![a] = Done]
    /\ UNCHANGED <<month, users, sub, made, ahead, creation, history>>

\* A plan is found by its name, then the subscription is written; archived ones too.
FindPlan(a, u, n) ==
    /\ admin[a] = Done /\ u \in users
    /\ \E p \in Named(n) : admin' = [admin EXCEPT ![a] = [pc |-> "subscribe", plan |-> p, user |-> u]]
    /\ UNCHANGED <<month, tables, creation, history>>

\* Faulty version: a plan that was found is taken to be there still.
StillThere(p) == TRUE
\* The foreign key refuses a plan that was deleted since.
Referable(p) == Present(p)

ChangePlan(a, until) ==
    LET q == admin[a] IN
    /\ q.pc = "subscribe"
    /\ sub' = IF Referable(q.plan) THEN [sub EXCEPT ![q.user] = [plan |-> q.plan, until |-> until]] ELSE sub
    /\ admin' = [admin EXCEPT ![a] = Done]
    /\ UNCHANGED <<month, plan, users, made, ahead, creation, history>>

-----------------------------------------------------------------------------
User ==
    \/ \E u \in Users : \/ SignUp(u) \/ RemoveUser(u) \/ MoveIntoMonth(u)
                        \/ \E k \in Kinds : RemoveRow(u, k)
    \/ \E r \in Creations :
          \/ \E u \in Users, k \in Kinds : Begin(r, u, k)
          \/ CountRows(r)
          \/ \E date \in {month - 1, month, month + 1} : Create(r, date)

Administrator ==
    \/ \E p \in PlanIds :
          \/ UnarchivePlan(p)
          \/ \E n \in Names, limit \in [Kinds -> Limits] :
                CreatePlan(p, n, limit) \/ UpdatePlan(p, n, limit)
    \/ \E a \in Administrators :
          \/ \E p \in PlanIds : BeginArchive(a, p) \/ BeginDelete(a, p)
          \/ Archive(a) \/ DeletePlan(a)
          \/ \E u \in Users, n \in Names : FindPlan(a, u, n)
          \/ \E until \in {NULL, month, month + 1} : ChangePlan(a, until)

PlansNext == NextMonth \/ User \/ Administrator

PlansSpec == PlansInit /\ [][PlansNext]_plansVars

-----------------------------------------------------------------------------
(***************************************************************************)
(* What must hold.                                                         *)
(***************************************************************************)

\* "So feature gating is always safe": whoever is there is on a plan that exists, although one
\* administrator deletes a plan after its subscribers were counted, while another has found it and
\* then puts a user on it, in either order (getEffectivePlan, remove, changePlan) - as long as
\* nobody renames the free plan, which lapsed and new users are resolved by.
EveryoneResolves ==
    \A u \in users :
        /\ sub[u] # NULL => Present(sub[u].plan)
        /\ EffectivePlan(u) # {} \/ renamed

\* A limit holds up to the requests that run at once: a user has at most as many rows more
\* than the highest limit they were checked against as other requests were under way, and
\* for a month what was dated or moved into it without a check (assertCanAddCategory,
\* assertCanAddTransaction).
LimitOvershoot ==
    \A u \in users, k \in Kinds :
        made[u][k] > Unchecked(u, k) /\ checked[u][k] # NULL
           => made[u][k] - Unchecked(u, k) <= checked[u][k] + Cardinality(Creations) - 1
=============================================================================
