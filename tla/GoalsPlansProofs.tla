-------------------------- MODULE GoalsPlansProofs --------------------------
(***************************************************************************)
(* Theorems about Goals, for any goals, contributions and handlers, and    *)
(* about Plans, for any plans, users, limits and any number of creations   *)
(* at once.                                                                *)
(***************************************************************************)
EXTENDS Goals, Plans, Sums, FiniteSetTheorems, TLAPS

-----------------------------------------------------------------------------
(***************************************************************************)
(* Goals.                                                                  *)
(***************************************************************************)

\* A handler takes a step to a state that knows what such a state must.
LEMMA RequestKept ==
    ASSUME HandlersOK, NEW r \in Requests, NEW q \in Request,
           q.pc # "idle" => q.goal \in GoalIds,
           q.pc = "look" => q.edited \in ContribIds,
           q.pc \in {"sum", "write"} => q.amount \in Int,
           req' = [req EXCEPT ![r] = q]
    PROVE  HandlersOK'
BY DEF HandlersOK

LEMMA OnlyIsRequest ==
    ASSUME NEW step \in Steps, NEW g \in GoalIds \cup {NULL}
    PROVE  Only(step, g) \in Request /\ Only(step, g).pc = step /\ Only(step, g).goal = g
BY DEF Only, Request

LEMMA IdleIsRequest == Idle \in Request /\ Idle.pc = "idle"
BY OnlyIsRequest DEF Idle, Steps

LEMMA NoteKept ==
    ASSUME mishaps \in [GoalIds -> SUBSET Mishaps], NEW g, NEW what \in SUBSET Mishaps,
           Note(g, what)
    PROVE  mishaps' \in [GoalIds -> SUBSET Mishaps]
BY DEF Note

LEMMA OverlappedIsMishap == ASSUME NEW g, NEW Own PROVE Overlapped(g, Own) \in SUBSET Mishaps
BY DEF Overlapped, Mishaps

LEMMA TypeStep == TypeOK /\ [Next]_vars => TypeOK'
<1> SUFFICES ASSUME TypeOK, [Next]_vars PROVE TypeOK'
  OBVIOUS
<1>1. ASSUME NEW g \in GoalIds, NEW target \in Targets, CreateGoal(g, target)
      PROVE  TypeOK'
  <2>1. goal' \in [GoalIds -> {NULL} \cup Goal] /\ \A h \in GoalIds : goal[h] # NULL => goal'[h] # NULL
    BY <1>1, GoalsAssumption DEF CreateGoal, FreshGoal, Exists, Goal, TypeOK, RowsOK
  <2>2. RowsOK'
    BY <1>1, <2>1 DEF CreateGoal, Contribution, TypeOK, RowsOK
  <2> QED
    BY <1>1, <2>2 DEF CreateGoal, TypeOK, HandlersOK
<1>2. ASSUME NEW g \in GoalIds, NEW target \in Targets, UpdateGoal(g, target)
      PROVE  TypeOK'
  <2>1. goal' \in [GoalIds -> {NULL} \cup Goal] /\ \A h \in GoalIds : goal[h] # NULL => goal'[h] # NULL
    BY <1>2, GoalsAssumption DEF UpdateGoal, Exists, Goal, TypeOK, RowsOK
  <2>2. RowsOK'
    BY <1>2, <2>1 DEF UpdateGoal, Contribution, TypeOK, RowsOK
  <2>3. mishaps' \in [GoalIds -> SUBSET Mishaps]
    BY <1>2, NoteKept, OverlappedIsMishap DEF UpdateGoal, TypeOK, Mishaps
  <2> QED
    BY <1>2, <2>2, <2>3 DEF UpdateGoal, TypeOK, HandlersOK
<1>3. ASSUME NEW g \in GoalIds, RemoveGoal(g)
      PROVE  TypeOK'
  <2>1. RowsOK'
    BY <1>3, GoalsAssumption DEF RemoveGoal, Exists, Cascaded, In, Contribution, TypeOK, RowsOK
  <2> QED
    BY <1>3, <2>1 DEF RemoveGoal, TypeOK, HandlersOK
<1>4. ASSUME NEW g \in GoalIds, NEW k \in ContribIds, RemoveContribution(g, k)
      PROVE  TypeOK'
  <2>1. RowsOK'
    BY <1>4 DEF RemoveContribution, TypeOK, RowsOK
  <2>2. mishaps' \in [GoalIds -> SUBSET Mishaps]
    BY <1>4, NoteKept, OverlappedIsMishap DEF RemoveContribution, TypeOK, Mishaps
  <2> QED
    BY <1>4, <2>1, <2>2 DEF RemoveContribution, TypeOK, HandlersOK
<1>5. ASSUME NEW r \in Requests, Handler(r)
      PROVE  TypeOK'
  <2>1. ASSUME NEW g \in GoalIds, NEW step \in {"look", "sum"},
               NEW edited \in ContribIds \cup {NULL}, NEW amount \in Int \cup {NULL},
               step = "look" => edited \in ContribIds,
               step = "sum" => amount \in Int,
               Start(r, g, step, edited, amount)
        PROVE  TypeOK'
    <3> DEFINE q == [pc |-> step, goal |-> g, edited |-> edited,
                     amount |-> amount, old |-> 0, target |-> goal[g].target,
                     completed |-> goal[g].completed, reaches |-> FALSE]
    <3>1. goal[g] \in Goal
      BY <1>5, <2>1 DEF Start, Exists, TypeOK, RowsOK
    <3>2. goal[g].target \in Nat /\ goal[g].completed \in BOOLEAN
      BY <3>1, GoalsAssumption DEF Goal
    <3>4. q \in Request /\ q.pc = step /\ q.goal = g /\ q.edited = edited /\ q.amount = amount
      BY <1>5, <2>1, <3>2 DEF Request, Steps
    <3>5. req' = [req EXCEPT ![r] = q]
      BY <1>5, <2>1 DEF Start
    <3>6. HandlersOK'
      <4> HIDE DEF q
      <4> QED
        BY <1>5, <2>1, <3>4, <3>5, RequestKept DEF TypeOK
    <3> QED
      BY <1>5, <2>1, <3>6 DEF Start, TypeOK, RowsOK
  <2>2. CASE LookUpExisting(r)
    <3> DEFINE k == req[r].edited
               a == IF req[r].amount = NULL THEN contribution[k].amount ELSE req[r].amount
               q == [req[r] EXCEPT !.pc = "sum", !.old = contribution[k].amount, !.amount = a]
    <3>1. req[r] \in Request /\ req[r].goal \in GoalIds /\ k \in ContribIds
      BY <1>5, <2>2 DEF LookUpExisting, At, TypeOK, HandlersOK
    <3>2. contribution[k].amount \in Int
      BY <1>5, <2>2, <3>1 DEF LookUpExisting, In, TypeOK, RowsOK, Contribution
    <3>3. a \in Int
      BY <3>1, <3>2 DEF Request
    <3>4. q \in Request /\ q.pc = "sum" /\ q.goal \in GoalIds /\ q.amount \in Int
      <4> HIDE DEF a
      <4> QED
        BY <3>1, <3>2, <3>3 DEF Request, Steps
    <3>5. req' = [req EXCEPT ![r] = q]
      BY <1>5, <2>2, <3>1 DEF LookUpExisting, Request
    <3>6. HandlersOK'
      <4> HIDE DEF q
      <4> QED
        BY <3>4, <3>5, RequestKept DEF TypeOK
    <3> QED
      BY <1>5, <2>2, <3>6 DEF LookUpExisting, TypeOK, RowsOK
  <2>3. CASE CheckSum(r)
    <3> DEFINE b == ~req[r].completed
                    /\ Reaches(Current(req[r].goal) - req[r].old + req[r].amount, req[r].target)
               q == [pc |-> "write", goal |-> req[r].goal, edited |-> req[r].edited,
                     amount |-> req[r].amount, old |-> 0, target |-> 0,
                     completed |-> FALSE, reaches |-> b]
    <3>1. req[r] \in Request /\ req[r].goal \in GoalIds /\ req[r].amount \in Int
      BY <1>5, <2>3 DEF CheckSum, At, TypeOK, HandlersOK
    <3>2. b \in BOOLEAN
      BY DEF Reaches
    <3>3. q \in Request /\ q.pc = "write" /\ q.goal \in GoalIds /\ q.amount \in Int
      <4> HIDE DEF b
      <4> QED
        BY <3>1, <3>2 DEF Request, Steps
    <3>4. req' = [req EXCEPT ![r] = q]
      BY <1>5, <2>3 DEF CheckSum
    <3>5. HandlersOK'
      <4> HIDE DEF q
      <4> QED
        BY <3>3, <3>4, RequestKept DEF TypeOK
    <3> QED
      BY <1>5, <2>3, <3>5 DEF CheckSum, TypeOK, RowsOK
  <2>4. ASSUME ~At(r, "idle"), Finish(r)
        PROVE  HandlersOK'
    <3> DEFINE q == IF req[r].reaches THEN Only("complete", req[r].goal) ELSE Idle
    <3>1. req[r] \in Request /\ req[r].goal \in GoalIds
      BY <1>5, <2>4 DEF At, TypeOK, HandlersOK
    <3>2. q \in Request /\ q.pc \in {"idle", "complete"} /\ (q.pc = "complete" => q.goal \in GoalIds)
      BY <3>1, OnlyIsRequest, IdleIsRequest DEF Steps
    <3>3. req' = [req EXCEPT ![r] = q]
      BY <1>5, <2>4 DEF Finish
    <3> HIDE DEF q
    <3> QED
      BY <3>2, <3>3, RequestKept DEF TypeOK
  <2>5. ASSUME NEW k \in ContribIds, RecordContribution(r, k)
        PROVE  TypeOK'
    <3>1. req[r].goal \in GoalIds /\ req[r].amount \in Int
      BY <1>5, <2>5 DEF RecordContribution, At, TypeOK, HandlersOK
    <3>2. RowsOK'
      BY <1>5, <2>5, <3>1 DEF RecordContribution, Exists, TypeOK, RowsOK, Contribution
    <3>3. HandlersOK'
      BY <1>5, <2>4, <2>5 DEF RecordContribution, At
    <3>4. mishaps' \in [GoalIds -> SUBSET Mishaps]
      BY <1>5, <2>5, NoteKept, OverlappedIsMishap DEF RecordContribution, TypeOK
    <3> QED
      BY <1>5, <2>5, <3>2, <3>3, <3>4 DEF RecordContribution, TypeOK
  <2>6. CASE RewriteContribution(r)
    <3>1. req[r].edited \in ContribIds /\ req[r].amount \in Int
      BY <1>5, <2>6 DEF RewriteContribution, At, TypeOK, HandlersOK, Request
    <3>2. RowsOK'
      BY <1>5, <2>6, <3>1 DEF RewriteContribution, TypeOK, RowsOK, Contribution
    <3>3. HandlersOK'
      BY <1>5, <2>4, <2>6 DEF RewriteContribution, At
    <3>4. mishaps' \in [GoalIds -> SUBSET Mishaps]
      BY <1>5, <2>6, NoteKept, OverlappedIsMishap DEF RewriteContribution, TypeOK
    <3> QED
      BY <1>5, <2>6, <3>2, <3>3, <3>4 DEF RewriteContribution, TypeOK
  <2>7. CASE MarkCompleted(r)
    <3> DEFINE q == Only("notify", req[r].goal)
    <3>1. req[r] \in Request /\ req[r].goal \in GoalIds
      BY <1>5, <2>7 DEF MarkCompleted, At, TypeOK, HandlersOK
    <3>2. RowsOK'
      <4>1. goal' \in [GoalIds -> {NULL} \cup Goal] /\ \A h \in GoalIds : goal[h] # NULL => goal'[h] # NULL
        BY <1>5, <2>7, <3>1, GoalsAssumption DEF MarkCompleted, Exists, TypeOK, RowsOK, Goal
      <4> QED
        BY <1>5, <2>7, <4>1 DEF MarkCompleted, Contribution, TypeOK, RowsOK
    <3>3. q \in Request /\ q.pc = "notify" /\ q.goal \in GoalIds
      BY <3>1, OnlyIsRequest DEF Steps
    <3>4. req' = [req EXCEPT ![r] = q]
      BY <1>5, <2>7 DEF MarkCompleted
    <3>5. HandlersOK'
      <4> HIDE DEF q
      <4> QED
        BY <3>3, <3>4, RequestKept DEF TypeOK
    <3> QED
      BY <1>5, <2>7, <3>2, <3>5 DEF MarkCompleted, TypeOK
  <2>8. CASE NotifyCompleted(r)
    <3>1. req[r].goal \in GoalIds
      BY <1>5, <2>8 DEF NotifyCompleted, At, TypeOK, HandlersOK
    <3>2. HandlersOK'
      BY <1>5, <2>8, IdleIsRequest, RequestKept DEF NotifyCompleted, TypeOK
    <3> QED
      BY <1>5, <2>8, <3>1, <3>2 DEF NotifyCompleted, CreateNotification, TypeOK, RowsOK
  <2>9. CASE Fail(r)
    <3>1. HandlersOK'
      BY <1>5, <2>9, IdleIsRequest, RequestKept DEF Fail, TypeOK
    <3>2. mishaps' \in [GoalIds -> SUBSET Mishaps]
      BY <1>5, <2>9, NoteKept DEF Fail, TypeOK, Mishaps
    <3> QED
      BY <1>5, <2>9, <3>1, <3>2 DEF Fail, TypeOK, RowsOK
  <2>10. ASSUME NEW g \in GoalIds, NEW amount \in Amounts, Contribute(r, g, amount)
         PROVE  TypeOK'
    BY <1>5, <2>1, <2>10, GoalsAssumption DEF Contribute
  <2>11. ASSUME NEW g \in GoalIds, NEW k \in ContribIds, NEW amount \in Amounts \cup {NULL},
                UpdateContribution(r, g, k, amount)
         PROVE  TypeOK'
    BY <1>5, <2>1, <2>11, GoalsAssumption DEF UpdateContribution
  <2> QED
    BY <1>5, <2>2, <2>3, <2>5, <2>6, <2>7, <2>8, <2>9, <2>10, <2>11 DEF Handler
<1>6. CASE UNCHANGED vars
  BY <1>6 DEF vars, TypeOK, RowsOK, HandlersOK
<1> QED
  BY <1>1, <1>2, <1>3, <1>4, <1>5, <1>6 DEF Next, Plain

\* The types of the columns, what a handler keeps of what it read, and that no
\* contribution outlives its goal (goals.service.ts, schema.prisma).
THEOREM TypeCorrect == Spec => []TypeOK
<1>1. Init => TypeOK
  BY IdleIsRequest DEF Init, TypeOK, RowsOK, HandlersOK
<1> QED
  BY <1>1, TypeStep, PTL DEF Spec

\* A goal that somebody owes a notification still has it owed after a step that only
\* adds notifications and mishaps and moves no handler away from "notify".
LEMMA StillOwed ==
    ASSUME TypeOK, CompletedIsNotified, NEW g \in GoalIds,
           Exists(g) /\ goal[g].completed,
           notified \subseteq notified', mishaps[g] \subseteq mishaps'[g],
           \A r \in Requests : At(r, "notify") => req'[r] = req[r]
    PROVE  \/ g \in notified'
           \/ \E r \in Requests : req'[r].goal = g /\ req'[r].pc = "notify"
           \/ mishaps'[g] \cap {"interrupted"} # {}
BY DEF CompletedIsNotified, Befell, At

LEMMA NoteAdds ==
    ASSUME mishaps \in [GoalIds -> SUBSET Mishaps], NEW g, NEW what, Note(g, what),
           NEW h \in GoalIds
    PROVE  mishaps[h] \subseteq mishaps'[h]
BY DEF Note

\* Whatever number of handlers complete goals at once, a completed goal is notified, is
\* about to be, or lost its notification to a handler that stopped between the two
\* writes (goals.service.ts, notifyCompleted and its two callers).
THEOREM NotificationFollows == Spec => []CompletedIsNotified
<1>1. Init => CompletedIsNotified
  BY DEF Init, CompletedIsNotified, Exists
<1>2. TypeOK /\ CompletedIsNotified /\ [Next]_vars => CompletedIsNotified'
  <2> SUFFICES ASSUME TypeOK, CompletedIsNotified, [Next]_vars,
                      NEW h \in GoalIds, goal'[h] # NULL, goal'[h].completed
               PROVE  \/ h \in notified'
                      \/ \E r \in Requests : req'[r].goal = h /\ req'[r].pc = "notify"
                      \/ mishaps'[h] \cap {"interrupted"} # {}
    BY DEF CompletedIsNotified, Exists, At, Befell
  <2> DEFINE Owed == \/ h \in notified'
                     \/ \E r \in Requests : req'[r].goal = h /\ req'[r].pc = "notify"
                     \/ mishaps'[h] \cap {"interrupted"} # {}
  <2>0. ASSUME goal' = goal, notified \subseteq notified', mishaps[h] \subseteq mishaps'[h],
               \A r \in Requests : At(r, "notify") => req'[r] = req[r]
        PROVE  Owed
    BY <2>0, StillOwed DEF Exists
  <2>1. ASSUME NEW g \in GoalIds, NEW target \in Targets, CreateGoal(g, target)
        PROVE  Owed
    <3>1. h # g
      BY <2>1 DEF CreateGoal, TypeOK, RowsOK
    <3>2. goal'[h] = goal[h]
      BY <2>1, <3>1 DEF CreateGoal, TypeOK, RowsOK
    <3> QED
      BY <2>1, <3>2, StillOwed DEF CreateGoal, Exists
  <2>2. ASSUME NEW g \in GoalIds, NEW target \in Targets, UpdateGoal(g, target)
        PROVE  Owed
    <3>1. Exists(h) /\ goal[h].completed
      BY <2>2 DEF UpdateGoal, Exists, TypeOK, RowsOK, Goal
    <3>2. mishaps[h] \subseteq mishaps'[h]
      BY <2>2, NoteAdds DEF UpdateGoal, TypeOK
    <3> QED
      BY <2>2, <3>1, <3>2, StillOwed DEF UpdateGoal
  <2>3. ASSUME NEW g \in GoalIds, RemoveGoal(g)
        PROVE  Owed
    <3>1. h # g /\ goal'[h] = goal[h] /\ mishaps'[h] = mishaps[h]
      BY <2>3 DEF RemoveGoal, TypeOK, RowsOK
    <3> QED
      BY <2>3, <3>1, StillOwed DEF RemoveGoal, Exists
  <2>4. ASSUME NEW g \in GoalIds, NEW k \in ContribIds, RemoveContribution(g, k)
        PROVE  Owed
    BY <2>0, <2>4, NoteAdds DEF RemoveContribution, TypeOK
  <2>5. ASSUME NEW r \in Requests, Handler(r)
        PROVE  Owed
    <3>0. ASSUME ~At(r, "notify"), NEW q, req' = [req EXCEPT ![r] = q]
          PROVE  \A p \in Requests : At(p, "notify") => req'[p] = req[p]
      BY <3>0 DEF At, TypeOK, HandlersOK
    <3>1. ASSUME NEW g \in GoalIds, NEW step, NEW edited, NEW amount,
                 Start(r, g, step, edited, amount)
          PROVE  Owed
      BY <2>0, <3>0, <3>1 DEF Start, At
    <3>2. CASE LookUpExisting(r)
      BY <2>0, <3>0, <3>2 DEF LookUpExisting, At
    <3>3. CASE CheckSum(r)
      BY <2>0, <3>0, <3>3 DEF CheckSum, At
    <3>4. ASSUME NEW k \in ContribIds, RecordContribution(r, k)
          PROVE  Owed
      BY <2>0, <3>0, <3>4, NoteAdds DEF RecordContribution, Finish, At, TypeOK
    <3>5. CASE RewriteContribution(r)
      BY <2>0, <3>0, <3>5, NoteAdds DEF RewriteContribution, Finish, At, TypeOK
    <3>6. CASE MarkCompleted(r)
      <4>1. CASE h = req[r].goal
        BY <2>5, <3>6, <4>1 DEF MarkCompleted, TypeOK, HandlersOK, Only
      <4>2. CASE h # req[r].goal
        <5>1. goal'[h] = goal[h]
          BY <3>6, <4>2 DEF MarkCompleted, TypeOK, RowsOK
        <5>2. \A p \in Requests : At(p, "notify") => req'[p] = req[p]
          BY <3>0, <3>6 DEF MarkCompleted, At
        <5> QED
          BY <3>6, <5>1, <5>2, StillOwed DEF MarkCompleted, Exists
      <4> QED
        BY <4>1, <4>2
    <3>7. CASE NotifyCompleted(r)
      <4>1. CASE h = req[r].goal
        BY <3>7, <4>1 DEF NotifyCompleted, CreateNotification
      <4>2. CASE h # req[r].goal
        BY <2>5, <3>7, <4>2
        DEF NotifyCompleted, CreateNotification, CompletedIsNotified, Befell, Exists, At,
            TypeOK, HandlersOK
      <4> QED
        BY <4>1, <4>2
    <3>8. CASE Fail(r)
      <4>1. CASE At(r, "notify") /\ h = req[r].goal
        BY <3>8, <4>1 DEF Fail, Note, Exists, At, TypeOK
      <4>2. CASE ~At(r, "notify")
        BY <2>0, <3>0, <3>8, <4>2, NoteAdds DEF Fail, TypeOK
      <4>3. CASE h # req[r].goal
        <5>1. mishaps[h] \subseteq mishaps'[h]
          BY <3>8, NoteAdds DEF Fail, TypeOK
        <5> QED
          BY <2>5, <3>8, <4>3, <5>1
          DEF Fail, CompletedIsNotified, Befell, Exists, At, TypeOK, HandlersOK
      <4> QED
        BY <4>1, <4>2, <4>3
    <3> QED
      BY <2>5, <3>1, <3>2, <3>3, <3>4, <3>5, <3>6, <3>7, <3>8
      DEF Handler, Contribute, UpdateContribution
  <2>6. CASE UNCHANGED vars
    BY <2>0, <2>6 DEF vars
  <2> QED
    BY <2>1, <2>2, <2>3, <2>4, <2>5, <2>6 DEF Next, Plain
<1> QED
  BY <1>1, <1>2, TypeCorrect, PTL DEF Spec

-----------------------------------------------------------------------------
(***************************************************************************)
(* The range of a goal.  Only a write changes what is in a goal; until     *)
(* another handler overlapped on the goal, what a handler has read of it   *)
(* is what there is, and the sum that was accepted is still accepted.      *)
(***************************************************************************)

RowsIn(c) == {k \in ContribIds : c[k] # NULL}

FewRows == IsFiniteSet(RowsIn(contribution))

\* The contribution a handler edits is of the goal it checked.
EditsOwn(r) ==
    LET k == req[r].edited IN
    req[r].pc # "look" /\ k # NULL /\ contribution[k] # NULL => contribution[k].goal = req[r].goal

\* What the contribution about to be edited is worth now.
Replaced(r) == IF req[r].edited = NULL THEN 0 ELSE contribution[req[r].edited].amount

ReadsCurrent(r) ==
    LET g == req[r].goal IN
    req[r].pc \in {"look", "sum", "write"} /\ Exists(g) /\ "overlap" \notin mishaps[g] =>
        /\ req[r].pc # "look" /\ req[r].edited # NULL => In(req[r].edited, g)
        /\ req[r].pc # "write" => req[r].target = goal[g].target
        /\ req[r].pc = "sum" => req[r].old = Replaced(r)
        /\ req[r].pc = "write" =>
              Accepted(Current(g) - Replaced(r) + req[r].amount, goal[g].target)

Ranged ==
    /\ FewRows
    /\ \A r \in Requests : EditsOwn(r) /\ ReadsCurrent(r)
    /\ RangeEnforced

-----------------------------------------------------------------------------
(* What is in a goal, as the rows of the contributions say *)

Rows == [ContribIds -> {NULL} \cup Contribution]

AmountIn(c) == [k \in ContribIds |-> c[k].amount]
Of(c, g) == {k \in ContribIds : c[k] # NULL /\ c[k].goal = g}
Worth(c, k, g) == IF k \in Of(c, g) THEN c[k].amount ELSE 0
SumOf(c, g) == SumFunctionOnSet(AmountIn(c), Of(c, g))

Mapped(c, S) == MapThenSumSet(LAMBDA k : c[k].amount, S)

LEMMA MappedIsSum ==
    ASSUME NEW c, NEW S \in SUBSET ContribIds
    PROVE  Mapped(c, S) = SumFunctionOnSet(AmountIn(c), S)
<1> DEFINE f == AmountIn(c)
           next(s) == CHOOSE x \in s : TRUE
           body(g) == [s \in SUBSET S |-> IF s = {} THEN 0 ELSE c[next(s)].amount + g[s \ {next(s)}]]
<1>1. Mapped(c, S) = (CHOOSE g : g = body(g))[S]
  BY DEF Mapped, MapThenSumSet, MapThenFoldSet
<1>2. ASSUME NEW g PROVE body(g) = [s \in SUBSET S |-> Summed(f, g, s)]
  BY DEF Summed, Picked, AmountIn
<1>3. \A g : g = body(g) <=> AddsUp(g, f, S)
  BY <1>2 DEF AddsUp
<1> HIDE DEF body, f
<1> QED
  BY <1>1, <1>3, SumIsFold DEF f, Fold

LEMMA CurrentIsSum ==
    ASSUME NEW g
    PROVE  Current(g) = SumOf(contribution, g) /\ Current(g)' = SumOf(contribution', g)
<1>1. Current(g) = Mapped(contribution, Of(contribution, g))
  BY DEF Current, Mapped, In, Of
<1>2. Current(g)' = Mapped(contribution', Of(contribution', g))
  BY DEF Current, Mapped, In, Of, MapThenSumSet, MapThenFoldSet
<1>3. ASSUME NEW c PROVE Of(c, g) \in SUBSET ContribIds
  BY DEF Of
<1> QED
  BY <1>1, <1>2, <1>3, MappedIsSum DEF SumOf

LEMMA WorthIsInt == ASSUME NEW c \in Rows, NEW k, NEW g PROVE Worth(c, k, g) \in Int
BY DEF Worth, Of, Rows, Contribution

LEMMA OfIsFinite ==
    ASSUME NEW c \in Rows, IsFiniteSet(RowsIn(c)), NEW g
    PROVE  IsFiniteSet(Of(c, g)) /\ \A k \in Of(c, g) : AmountIn(c)[k] \in Int
<1>1. Of(c, g) \in SUBSET RowsIn(c)
  BY DEF Of, RowsIn
<1> QED
  BY <1>1, FS_Subset DEF Of, AmountIn, Rows, Contribution

LEMMA SumOfIsInt ==
    ASSUME NEW c \in Rows, IsFiniteSet(RowsIn(c)), NEW g
    PROVE  SumOf(c, g) \in Int
BY OfIsFinite, SumInt DEF SumOf

\* Without one of its contributions a goal holds so much less.
LEMMA SumWithout ==
    ASSUME NEW c \in Rows, IsFiniteSet(RowsIn(c)), NEW g, NEW k \in ContribIds
    PROVE  /\ SumFunctionOnSet(AmountIn(c), Of(c, g) \ {k}) \in Int
           /\ SumOf(c, g) = Worth(c, k, g) + SumFunctionOnSet(AmountIn(c), Of(c, g) \ {k})
<1>1. IsFiniteSet(Of(c, g)) /\ \A j \in Of(c, g) : AmountIn(c)[j] \in Int
  BY OfIsFinite
<1>2. IsFiniteSet(Of(c, g) \ {k})
  BY <1>1, FS_Subset
<1>3. SumFunctionOnSet(AmountIn(c), Of(c, g) \ {k}) \in Int
  BY <1>1, <1>2, SumInt
<1>4. CASE k \in Of(c, g)
  BY <1>1, <1>3, <1>4, SumRemove DEF SumOf, Worth, AmountIn
<1>5. CASE k \notin Of(c, g)
  <2>1. Of(c, g) \ {k} = Of(c, g)
    BY <1>5
  <2> QED
    BY <1>3, <1>5, <2>1 DEF SumOf, Worth
<1> QED
  BY <1>3, <1>4, <1>5

\* One contribution is written, and what each goal holds changes by as much.
LEMMA OneWritten ==
    ASSUME NEW c \in Rows, NEW d \in Rows, IsFiniteSet(RowsIn(c)), NEW k \in ContribIds,
           \A j \in ContribIds \ {k} : d[j] = c[j]
    PROVE  /\ IsFiniteSet(RowsIn(d))
           /\ \A g : SumOf(d, g) = SumOf(c, g) - Worth(c, k, g) + Worth(d, k, g)
<1>1. RowsIn(d) \in SUBSET (RowsIn(c) \cup {k})
  BY DEF RowsIn
<1>2. IsFiniteSet(RowsIn(d))
  BY <1>1, FS_AddElement, FS_Subset
<1>3. ASSUME NEW g PROVE SumOf(d, g) = SumOf(c, g) - Worth(c, k, g) + Worth(d, k, g)
  <2> DEFINE S == Of(c, g) \ {k}
  <2>1. Of(d, g) \ {k} = S
    BY DEF Of
  <2>2. IsFiniteSet(S)
    BY OfIsFinite, FS_Subset
  <2>6. \A j \in S : AmountIn(d)[j] = AmountIn(c)[j]
    BY DEF Of, AmountIn
  <2> HIDE DEF S
  <2>3. SumFunctionOnSet(AmountIn(d), S) = SumFunctionOnSet(AmountIn(c), S)
    BY <2>2, <2>6, SumSame
  <2>4. SumFunctionOnSet(AmountIn(c), S) \in Int /\ SumOf(c, g) = Worth(c, k, g) + SumFunctionOnSet(AmountIn(c), S)
    BY SumWithout DEF S
  <2>5. SumOf(d, g) = Worth(d, k, g) + SumFunctionOnSet(AmountIn(d), S)
    BY <1>2, <2>1, SumWithout
  <2> QED
    BY <2>3, <2>4, <2>5, WorthIsInt
<1> QED
  BY <1>2, <1>3

\* A goal whose contributions stay holds what it held.
LEMMA SameSum ==
    ASSUME NEW c \in Rows, NEW d \in Rows, IsFiniteSet(RowsIn(c)), NEW g,
           Of(d, g) = Of(c, g), \A k \in Of(c, g) : d[k] = c[k]
    PROVE  SumOf(d, g) = SumOf(c, g)
<1>1. IsFiniteSet(Of(c, g))
  BY OfIsFinite
<1>2. \A k \in Of(c, g) : AmountIn(d)[k] = AmountIn(c)[k]
  BY DEF AmountIn, Of
<1> QED
  BY <1>1, <1>2, SumSame DEF SumOf

-----------------------------------------------------------------------------
(* What a step does to one goal, and what that leaves of the invariant *)

InRange(g) ==
    Exists(g) =>
        /\ Current(g) > goal[g].target => Befell(g, {"overlap", "withdrawal deleted", "retargeted"})
        /\ Current(g) < 0 => Befell(g, {"overlap", "deposit deleted"})

LEMMA RangeByGoal == RangeEnforced <=> \A g \in GoalIds : InRange(g)
BY DEF RangeEnforced, InRange

\* The goal is as it was.
Undisturbed(g) ==
    /\ Exists(g)' => /\ Exists(g)
                     /\ goal'[g].target = goal[g].target
                     /\ mishaps[g] \subseteq mishaps'[g]
    /\ Current(g)' = Current(g)
    /\ \A k \in ContribIds : In(k, g) => contribution'[k] = contribution[k]

LEMMA StaysInRange ==
    ASSUME NEW g \in GoalIds, InRange(g), Undisturbed(g)
    PROVE  InRange(g)'
BY DEF InRange, Undisturbed, Befell, Exists

\* What a handler that did nothing has read is what there is, if the goal is as it was,
\* gone, or overlapped.
LEMMA StaysCurrent ==
    ASSUME TypeOK, NEW r \in Requests, ReadsCurrent(r), req'[r] = req[r],
           \/ Undisturbed(req[r].goal)
           \/ ~Exists(req[r].goal)'
           \/ "overlap" \in mishaps'[req[r].goal]
    PROVE  ReadsCurrent(r)'
<1> DEFINE g == req[r].goal
<1>1. SUFFICES ASSUME Undisturbed(g), req[r].pc \in {"look", "sum", "write"}, Exists(g)',
                      "overlap" \notin mishaps'[g]
               PROVE  ReadsCurrent(r)'
  BY DEF ReadsCurrent, Exists
<1>2. Exists(g) /\ "overlap" \notin mishaps[g] /\ goal'[g].target = goal[g].target
  BY <1>1 DEF Undisturbed
<1>3. ASSUME req[r].pc # "look", req[r].edited # NULL
      PROVE  /\ In(req[r].edited, g) /\ In(req[r].edited, g)'
             /\ contribution'[req[r].edited] = contribution[req[r].edited]
  <2>1. In(req[r].edited, g) /\ req[r].edited \in ContribIds
    BY <1>1, <1>2, <1>3 DEF ReadsCurrent, TypeOK, HandlersOK, Request
  <2>2. contribution'[req[r].edited] = contribution[req[r].edited]
    BY <1>1, <2>1 DEF Undisturbed
  <2> QED
    BY <2>1, <2>2 DEF In
<1>4. req[r].pc # "look" => Replaced(r)' = Replaced(r)
  BY <1>3 DEF Replaced
<1>5. Current(g)' = Current(g)
  BY <1>1 DEF Undisturbed
<1> QED
  BY <1>1, <1>2, <1>3, <1>4, <1>5 DEF ReadsCurrent, Exists

LEMMA SameRowsSameSums ==
    ASSUME contribution' = contribution
    PROVE  \A g : Current(g)' = Current(g) /\ \A k : In(k, g)' <=> In(k, g)
BY CurrentIsSum DEF In

\* A step that leaves the contributions alone, and of the goals what the checks read.
LEMMA RowsLeftAlone ==
    ASSUME TypeOK, Ranged, contribution' = contribution,
           \A g \in GoalIds : Exists(g)' =>
              /\ Exists(g) /\ goal'[g].target = goal[g].target /\ mishaps[g] \subseteq mishaps'[g]
    PROVE  /\ \A g \in GoalIds : Undisturbed(g)
           /\ FewRows' /\ RangeEnforced'
           /\ \A r \in Requests : req[r].pc # "idle" /\ req'[r] = req[r] => ReadsCurrent(r)'
<1>1. \A g \in GoalIds : Undisturbed(g)
  BY SameRowsSameSums DEF Undisturbed
<1>2. FewRows'
  BY DEF Ranged, FewRows
<1>3. RangeEnforced'
  BY <1>1, RangeByGoal, StaysInRange DEF Ranged, RangeEnforced, InRange
<1>4. ASSUME NEW r \in Requests, req[r].pc # "idle", req'[r] = req[r] PROVE ReadsCurrent(r)'
  BY <1>1, <1>4, StaysCurrent DEF Ranged, TypeOK, HandlersOK
<1> QED
  BY <1>1, <1>2, <1>3, <1>4

\* One contribution of goal g is written, by a request or by the handler of g.
WritesIn(g, k) ==
    /\ k \in ContribIds
    /\ goal' = goal
    /\ \A j \in ContribIds \ {k} : contribution'[j] = contribution[j]
    /\ contribution[k] # NULL => contribution[k].goal = g
    /\ contribution'[k] # NULL => contribution'[k].goal = g
    /\ \A h \in GoalIds \ {g} : mishaps'[h] = mishaps[h]

LEMMA OneOfGoalWritten ==
    ASSUME TypeOK, TypeOK', Ranged, NEW g \in GoalIds, NEW k, WritesIn(g, k)
    PROVE  /\ FewRows'
           /\ \A h \in GoalIds \ {g} : Undisturbed(h)
           /\ Current(g) \in Int
           /\ Current(g)' = Current(g) - Worth(contribution, k, g) + Worth(contribution', k, g)
<1>1. contribution \in Rows /\ contribution' \in Rows
  BY DEF TypeOK, RowsOK, Rows
<1>2. k \in ContribIds /\ \A j \in ContribIds \ {k} : contribution'[j] = contribution[j]
  BY DEF WritesIn
<1>3. IsFiniteSet(RowsIn(contribution))
  BY DEF Ranged, FewRows
<1>4. /\ IsFiniteSet(RowsIn(contribution'))
      /\ \A h : SumOf(contribution', h) = SumOf(contribution, h) - Worth(contribution, k, h)
                                          + Worth(contribution', k, h)
  BY <1>1, <1>2, <1>3, OneWritten
<1>5. ASSUME NEW h \in GoalIds \ {g} PROVE Undisturbed(h)
  <2>1. Worth(contribution, k, h) = 0 /\ Worth(contribution', k, h) = 0
    BY DEF WritesIn, Worth, Of
  <2>2. Current(h)' = Current(h)
    BY <1>1, <1>3, <1>4, <2>1, SumOfIsInt, CurrentIsSum
  <2> QED
    BY <2>2 DEF WritesIn, Undisturbed, Exists, In
<1>6. FewRows'
  BY <1>4 DEF FewRows
<1> QED
  BY <1>1, <1>3, <1>4, <1>5, <1>6, SumOfIsInt, CurrentIsSum

\* The others that have read g are noted as overlapped.
LEMMA OthersOverlap ==
    ASSUME TypeOK, NEW g \in GoalIds, NEW Own, NEW what, Exists(g),
           Note(g, Overlapped(g, Own) \cup what), NEW q \in Requests \ Own, req[q].goal = g
    PROVE  "overlap" \in mishaps'[g]
BY DEF Note, Overlapped, TypeOK

LEMMA NoteElsewhere ==
    ASSUME TypeOK, NEW g, NEW what, Note(g, what)
    PROVE  \A h \in GoalIds \ {g} : mishaps'[h] = mishaps[h]
BY DEF Note, TypeOK

LEMMA NoteHere ==
    ASSUME TypeOK, NEW g \in GoalIds, NEW what, Exists(g), Note(g, what)
    PROVE  mishaps'[g] = mishaps[g] \cup what
BY DEF Note, TypeOK

\* The handlers that did nothing, and the other goals, when one contribution was written.
LEMMA OthersOfWrite ==
    ASSUME TypeOK, TypeOK', Ranged, NEW g \in GoalIds, NEW k, WritesIn(g, k),
           Exists(g), NEW Own, NEW what, Note(g, Overlapped(g, Own) \cup what),
           \A q \in Requests \ Own : req'[q] = req[q]
    PROVE  /\ \A q \in Requests \ Own : ReadsCurrent(q)'
           /\ \A h \in GoalIds \ {g} : InRange(h)'
<1>1. \A h \in GoalIds \ {g} : Undisturbed(h)
  BY OneOfGoalWritten
<1>2. ASSUME NEW q \in Requests \ Own PROVE ReadsCurrent(q)'
  <2>1. CASE req[q].pc = "idle"
    BY <1>2, <2>1 DEF ReadsCurrent
  <2>2. CASE req[q].pc # "idle" /\ req[q].goal = g
    BY <1>2, <2>2, StaysCurrent, OthersOverlap DEF Ranged
  <2>3. CASE req[q].pc # "idle" /\ req[q].goal # g
    BY <1>1, <1>2, <2>3, StaysCurrent DEF Ranged, TypeOK, HandlersOK
  <2> QED
    BY <2>1, <2>2, <2>3
<1>3. \A h \in GoalIds \ {g} : InRange(h)'
  BY <1>1, StaysInRange, RangeByGoal DEF Ranged
<1> QED
  BY <1>2, <1>3

-----------------------------------------------------------------------------
(* The steps *)

LEMMA CreateRanged ==
    ASSUME TypeOK, Ranged, NEW g \in GoalIds, NEW target \in Targets, CreateGoal(g, target)
    PROVE  Ranged'
<1>1. contribution' = contribution /\ req' = req /\ mishaps' = mishaps
  BY DEF CreateGoal
<1>2. \A h \in GoalIds \ {g} : goal'[h] = goal[h]
  BY DEF CreateGoal, TypeOK, RowsOK
<1>3. \A h \in GoalIds \ {g} : Undisturbed(h)
  BY <1>1, <1>2, SameRowsSameSums DEF Undisturbed, Exists
<1>4. goal'[g] = [target |-> target, completed |-> FALSE] /\ ~Exists(g)
  BY DEF CreateGoal, FreshGoal, TypeOK, RowsOK
<1>5. Of(contribution, g) = {}
  BY <1>4 DEF Of, Exists, TypeOK, RowsOK
<1>6. Current(g)' = 0
  BY <1>1, <1>5, CurrentIsSum, SumEmpty DEF SumOf
<1>7. target \in Nat \ {0}
  BY GoalsAssumption
<1>8. InRange(g)'
  <2>1. goal'[g].target = target
    BY <1>4
  <2>2. ~(Current(g)' > goal'[g].target) /\ ~(Current(g)' < 0)
    BY <1>6, <1>7, <2>1
  <2> QED
    BY <2>2 DEF InRange
<1>9. \A h \in GoalIds \ {g} : InRange(h)'
  BY <1>3, StaysInRange, RangeByGoal DEF Ranged
<1>10. RangeEnforced'
  BY <1>8, <1>9 DEF RangeEnforced, InRange
<1>11. ASSUME NEW r \in Requests PROVE ReadsCurrent(r)'
  <2>1. req[r].goal # g
    BY DEF CreateGoal, FreshGoal
  <2>2. CASE req[r].pc = "idle"
    BY <1>1, <2>2 DEF ReadsCurrent
  <2>3. CASE req[r].pc # "idle"
    BY <1>1, <1>3, <2>1, <2>3, StaysCurrent DEF Ranged, TypeOK, HandlersOK
  <2> QED
    BY <2>2, <2>3
<1> QED
  BY <1>1, <1>10, <1>11 DEF Ranged, FewRows, EditsOwn

LEMMA UpdateRanged ==
    ASSUME TypeOK, Ranged, NEW g \in GoalIds, NEW target \in Targets, UpdateGoal(g, target)
    PROVE  Ranged'
<1> DEFINE what == IF target <= Current(g) THEN {"retargeted"} ELSE {}
<1>1. contribution' = contribution /\ req' = req /\ Note(g, Overlapped(g, {}) \cup what) /\ Exists(g)
  BY DEF UpdateGoal
<1>2. \A h \in GoalIds \ {g} : goal'[h] = goal[h] /\ mishaps'[h] = mishaps[h]
  BY <1>1, NoteElsewhere DEF UpdateGoal, TypeOK, RowsOK
<1>3. \A h \in GoalIds \ {g} : Undisturbed(h)
  BY <1>1, <1>2, SameRowsSameSums DEF Undisturbed, Exists
<1>4. goal'[g].target = target /\ what \subseteq mishaps'[g] /\ mishaps[g] \subseteq mishaps'[g]
  BY <1>1, NoteHere DEF UpdateGoal, TypeOK, RowsOK, Exists, Goal
<1>5. Current(g)' = Current(g) /\ Current(g) \in Int /\ target \in Nat
  BY <1>1, CurrentIsSum, SumOfIsInt, GoalsAssumption DEF Ranged, FewRows, TypeOK, RowsOK, Rows
<1>6. InRange(g)
  BY RangeByGoal DEF Ranged
<1>7. InRange(g)'
  <2>1. Current(g)' > goal'[g].target => "retargeted" \in mishaps'[g]
    <3>1. Current(g) > target => target <= Current(g)
      BY <1>5
    <3> QED
      BY <1>4, <1>5, <3>1
  <2>2. Current(g)' < 0 => Befell(g, {"overlap", "deposit deleted"})
    BY <1>1, <1>5, <1>6 DEF InRange
  <2>3. Current(g)' < 0 => Befell(g, {"overlap", "deposit deleted"})'
    BY <1>4, <2>2 DEF Befell
  <2> QED
    BY <2>1, <2>3 DEF InRange, Befell
<1>8. RangeEnforced'
  <2>1. \A h \in GoalIds \ {g} : InRange(h)'
    BY <1>3, StaysInRange, RangeByGoal DEF Ranged
  <2> QED
    BY <1>7, <2>1 DEF RangeEnforced, InRange
<1>9. ASSUME NEW r \in Requests PROVE ReadsCurrent(r)'
  <2>1. CASE req[r].pc = "idle"
    BY <1>1, <2>1 DEF ReadsCurrent
  <2>2. CASE req[r].pc # "idle" /\ req[r].goal = g
    <3>1. "overlap" \in mishaps'[g]
      BY <1>1, <2>2, OthersOverlap
    <3> QED
      BY <1>1, <2>2, <3>1, StaysCurrent DEF Ranged
  <2>3. CASE req[r].pc # "idle" /\ req[r].goal # g
    BY <1>1, <1>3, <2>3, StaysCurrent DEF Ranged, TypeOK, HandlersOK
  <2> QED
    BY <2>1, <2>2, <2>3
<1> QED
  BY <1>1, <1>8, <1>9 DEF Ranged, FewRows, EditsOwn

\* No contribution comes to be, and none that stays is moved to another goal.
LEMMA StillEditsOwn ==
    ASSUME NEW r, EditsOwn(r), req'[r] = req[r],
           \A k : contribution'[k] # NULL =>
               contribution[k] # NULL /\ contribution'[k].goal = contribution[k].goal
    PROVE  EditsOwn(r)'
BY DEF EditsOwn

LEMMA RemoveRanged ==
    ASSUME TypeOK, TypeOK', Ranged, NEW g \in GoalIds, RemoveGoal(g)
    PROVE  Ranged'
<1>1. contribution \in Rows /\ contribution' \in Rows /\ IsFiniteSet(RowsIn(contribution))
  BY DEF TypeOK, RowsOK, Rows, Ranged, FewRows
<1>2. \A k \in ContribIds : contribution'[k] = IF In(k, g) THEN NULL ELSE contribution[k]
  BY DEF RemoveGoal, Cascaded
<1>3. RowsIn(contribution') \in SUBSET RowsIn(contribution)
  BY <1>2 DEF RowsIn
<1>4. FewRows'
  BY <1>1, <1>3, FS_Subset DEF FewRows
<1>5. ASSUME NEW h \in GoalIds \ {g} PROVE Undisturbed(h)
  <2>1. Of(contribution', h) = Of(contribution, h) /\ \A k \in Of(contribution, h) : contribution'[k] = contribution[k]
    BY <1>2 DEF Of, In
  <2>2. Current(h)' = Current(h)
    BY <1>1, <2>1, SameSum, CurrentIsSum
  <2>3. goal'[h] = goal[h] /\ mishaps'[h] = mishaps[h]
    BY DEF RemoveGoal, TypeOK, RowsOK
  <2> QED
    BY <2>1, <2>2, <2>3 DEF Undisturbed, Exists, In, Of
<1>6. ~Exists(g)' /\ req' = req
  BY DEF RemoveGoal, Exists, TypeOK, RowsOK
<1>7. RangeEnforced'
  BY <1>5, <1>6, StaysInRange, RangeByGoal DEF Ranged, RangeEnforced, InRange
<1>8. ASSUME NEW r \in Requests PROVE EditsOwn(r)' /\ ReadsCurrent(r)'
  <2>1. req[r].pc # "idle" => ReadsCurrent(r)'
    BY <1>5, <1>6, StaysCurrent DEF Ranged, TypeOK, HandlersOK
  <2>2. req[r].pc = "idle" => ReadsCurrent(r)'
    BY <1>6 DEF ReadsCurrent
  <2>3. EditsOwn(r)
    BY DEF Ranged
  <2>4. req[r].edited \in ContribIds \cup {NULL}
    BY DEF TypeOK, HandlersOK, Request
  <2>5. EditsOwn(r)'
    BY <1>2, <1>6, <2>3, <2>4 DEF EditsOwn
  <2> QED
    BY <2>1, <2>2, <2>5
<1> QED
  BY <1>4, <1>7, <1>8 DEF Ranged

LEMMA Crossed ==
    ASSUME NEW before \in Int, NEW after \in Int, NEW target \in Int
    PROVE  /\ after > target => before > target \/ before < after
           /\ after < 0 => before < 0 \/ after < before
OBVIOUS

\* What one write of a contribution does to the range of its goal.
LEMMA WrittenInRange ==
    ASSUME NEW g \in GoalIds, goal' = goal, mishaps[g] \subseteq mishaps'[g],
           InRange(g), Exists(g),
           Current(g) \in Int, Current(g)' \in Int, goal[g].target \in Int,
           Current(g) < Current(g)' /\ Current(g)' > goal[g].target => "withdrawal deleted" \in mishaps'[g],
           Current(g)' < Current(g) /\ Current(g)' < 0 => "deposit deleted" \in mishaps'[g]
    PROVE  InRange(g)'
<1>1. /\ Current(g) > goal[g].target => Befell(g, {"overlap", "withdrawal deleted", "retargeted"})'
      /\ Current(g) < 0 => Befell(g, {"overlap", "deposit deleted"})'
  BY DEF InRange, Befell
<1>2. /\ Current(g)' > goal[g].target => Current(g) > goal[g].target \/ Current(g) < Current(g)'
      /\ Current(g)' < 0 => Current(g) < 0 \/ Current(g)' < Current(g)
  BY Crossed, Zenon
<1>3. Current(g)' > goal[g].target => Befell(g, {"overlap", "withdrawal deleted", "retargeted"})'
  BY <1>1, <1>2 DEF Befell
<1>4. Current(g)' < 0 => Befell(g, {"overlap", "deposit deleted"})'
  BY <1>1, <1>2 DEF Befell
<1> QED
  BY <1>3, <1>4 DEF InRange

LEMMA RemoveContributionRanged ==
    ASSUME TypeOK, TypeOK', Ranged, NEW g \in GoalIds, NEW k \in ContribIds, RemoveContribution(g, k)
    PROVE  Ranged'
<1> DEFINE what == IF contribution[k].amount > 0 THEN {"deposit deleted"} ELSE {"withdrawal deleted"}
<1>1. /\ Exists(g) /\ In(k, g) /\ goal' = goal /\ req' = req
      /\ Note(g, Overlapped(g, {}) \cup what)
  BY DEF RemoveContribution
<1>2. contribution'[k] = NULL /\ \A j \in ContribIds \ {k} : contribution'[j] = contribution[j]
  BY DEF RemoveContribution, TypeOK, RowsOK
<1>3. WritesIn(g, k)
  BY <1>1, <1>2, NoteElsewhere DEF WritesIn, In
<1>4. /\ FewRows' /\ Current(g) \in Int
      /\ Current(g)' = Current(g) - Worth(contribution, k, g) + Worth(contribution', k, g)
  BY <1>3, OneOfGoalWritten
<1>5. /\ \A q \in Requests : ReadsCurrent(q)'
      /\ \A h \in GoalIds \ {g} : InRange(h)'
  <2> HIDE DEF what
  <2>1. \A q \in Requests \ {} : req'[q] = req[q]
    BY <1>1
  <2>2. \A q \in Requests \ {} : ReadsCurrent(q)'
    BY <1>1, <1>3, <2>1, OthersOfWrite
  <2>3. \A h \in GoalIds \ {g} : InRange(h)'
    BY <1>1, <1>3, <2>1, OthersOfWrite
  <2> QED
    BY <2>2, <2>3
<1>6. what \subseteq mishaps'[g] /\ mishaps[g] \subseteq mishaps'[g]
  <2> HIDE DEF what
  <2>1. mishaps'[g] = mishaps[g] \cup (Overlapped(g, {}) \cup what)
    BY <1>1, NoteHere
  <2> QED
    BY <2>1
<1>7. InRange(g)'
  <2>1. Worth(contribution, k, g) = contribution[k].amount /\ Worth(contribution', k, g) = 0
    BY <1>1, <1>2 DEF Worth, Of, In
  <2>2. contribution[k].amount \in Int
    BY <1>1 DEF In, TypeOK, RowsOK, Contribution
  <2>3. contribution[k].amount > 0 => "deposit deleted" \in mishaps'[g]
    BY <1>6
  <2>4. ~(contribution[k].amount > 0) => "withdrawal deleted" \in mishaps'[g]
    BY <1>6
  <2>5. goal[g].target \in Int
    <3>1. goal[g] \in Goal
      BY <1>1 DEF TypeOK, RowsOK, Exists
    <3> QED
      BY <3>1 DEF Goal
  <2>6. /\ Current(g)' \in Int
        /\ Current(g) < Current(g)' => ~(contribution[k].amount > 0)
        /\ Current(g)' < Current(g) => contribution[k].amount > 0
    BY <1>4, <2>1, <2>2
  <2>7. InRange(g)
    BY RangeByGoal DEF Ranged
  <2> QED
    BY <1>1, <1>4, <1>6, <2>3, <2>4, <2>5, <2>6, <2>7, WrittenInRange, Zenon
<1>8. RangeEnforced'
  BY <1>5, <1>7 DEF RangeEnforced, InRange
<1>9. \A r \in Requests : EditsOwn(r)'
  BY <1>1, <1>2 DEF Ranged, EditsOwn, TypeOK, HandlersOK, Request
<1> QED
  BY <1>4, <1>5, <1>8, <1>9 DEF Ranged

\* A step of a handler that writes no contribution.
LEMMA HandlerRanged ==
    ASSUME TypeOK, Ranged, contribution' = contribution, NEW r \in Requests,
           \A g \in GoalIds : Exists(g)' =>
              /\ Exists(g) /\ goal'[g].target = goal[g].target /\ mishaps[g] \subseteq mishaps'[g],
           \A q \in Requests \ {r} : req'[q] = req[q],
           EditsOwn(r)', ReadsCurrent(r)'
    PROVE  Ranged'
<1>1. /\ FewRows' /\ RangeEnforced'
      /\ \A q \in Requests : req[q].pc # "idle" /\ req'[q] = req[q] => ReadsCurrent(q)'
  BY RowsLeftAlone
<1>2. ASSUME NEW q \in Requests PROVE EditsOwn(q)' /\ ReadsCurrent(q)'
  <2>1. CASE q = r
    BY <2>1
  <2>2. CASE q # r
    <3>1. req'[q] = req[q] /\ EditsOwn(q)
      BY <2>2 DEF Ranged
    <3>2. req[q].pc = "idle" => ReadsCurrent(q)'
      BY <3>1 DEF ReadsCurrent
    <3> QED
      BY <1>1, <3>1, <3>2 DEF EditsOwn
  <2> QED
    BY <2>1, <2>2
<1> QED
  BY <1>1, <1>2 DEF Ranged

LEMMA StartRanged ==
    ASSUME TypeOK, Ranged, NEW r \in Requests, NEW g \in GoalIds, NEW step \in {"look", "sum"},
           NEW k \in ContribIds \cup {NULL}, NEW amount, Start(r, g, step, k, amount),
           step = "sum" => k = NULL
    PROVE  Ranged'
<1>1. contribution' = contribution /\ goal' = goal /\ mishaps' = mishaps
  BY DEF Start
<1>2. req'[r] = [pc |-> step, goal |-> g, edited |-> k, amount |-> amount, old |-> 0,
                 target |-> goal[g].target, completed |-> goal[g].completed, reaches |-> FALSE]
  BY DEF Start, TypeOK, HandlersOK
<1>3. \A q \in Requests \ {r} : req'[q] = req[q]
  BY DEF Start, TypeOK, HandlersOK
<1>4. EditsOwn(r)'
  BY <1>2 DEF EditsOwn
<1>5. ReadsCurrent(r)'
  BY <1>1, <1>2 DEF ReadsCurrent, Replaced
<1> QED
  BY <1>1, <1>3, <1>4, <1>5, HandlerRanged DEF Exists

LEMMA LookUpRanged ==
    ASSUME TypeOK, Ranged, NEW r \in Requests, LookUpExisting(r)
    PROVE  Ranged'
<1>0. PICK g, k : g = req[r].goal /\ k = req[r].edited
  OBVIOUS
<1>1. contribution' = contribution /\ goal' = goal /\ mishaps' = mishaps /\ At(r, "look") /\ In(k, g)
  BY <1>0 DEF LookUpExisting
<1>2. /\ req'[r].pc = "sum" /\ req'[r].old = contribution[k].amount /\ req'[r].edited = k
      /\ req'[r].goal = g /\ req'[r].target = req[r].target
  BY <1>0 DEF LookUpExisting, TypeOK, HandlersOK, Request
<1>3. \A q \in Requests \ {r} : req'[q] = req[q]
  BY <1>0 DEF LookUpExisting, TypeOK, HandlersOK
<1>4. g \in GoalIds /\ k # NULL
  BY <1>0, <1>1, GoalsAssumption DEF At, TypeOK, HandlersOK
<1>5. EditsOwn(r)'
  BY <1>0, <1>1, <1>2 DEF EditsOwn, In
<1>6. ReadsCurrent(r)
  BY <1>0 DEF Ranged
<1>7. ReadsCurrent(r)'
  <2>1. SUFFICES ASSUME Exists(g)', "overlap" \notin mishaps'[g] PROVE ReadsCurrent(r)'
    BY <1>0, <1>2 DEF ReadsCurrent
  <2>2. req[r].target = goal[g].target
    BY <1>0, <1>1, <1>6, <2>1 DEF ReadsCurrent, Exists, At
  <2>3. Replaced(r)' = contribution[k].amount
    BY <1>0, <1>1, <1>2, <1>4 DEF Replaced
  <2>4. In(k, g)'
    BY <1>0, <1>1 DEF In
  <2> QED
    BY <1>0, <1>1, <1>2, <2>2, <2>3, <2>4 DEF ReadsCurrent
<1> QED
  BY <1>0, <1>1, <1>3, <1>5, <1>7, HandlerRanged DEF Exists

LEMMA CheckRanged ==
    ASSUME TypeOK, Ranged, NEW r \in Requests, CheckSum(r)
    PROVE  Ranged'
<1>0. PICK g, k : g = req[r].goal /\ k = req[r].edited
  OBVIOUS
<1>1. contribution' = contribution /\ goal' = goal /\ mishaps' = mishaps /\ At(r, "sum")
  BY <1>0 DEF CheckSum
<1>2. /\ req'[r].pc = "write" /\ req'[r].edited = k /\ req'[r].goal = g
      /\ req'[r].amount = req[r].amount
  BY <1>0 DEF CheckSum, TypeOK, HandlersOK
<1>3. \A q \in Requests \ {r} : req'[q] = req[q]
  BY <1>0 DEF CheckSum, TypeOK, HandlersOK
<1>4. EditsOwn(r) /\ ReadsCurrent(r)
  BY <1>0 DEF Ranged
<1>5. EditsOwn(r)'
  BY <1>0, <1>1, <1>2, <1>4 DEF EditsOwn, At
<1>6. ReadsCurrent(r)'
  <2>1. SUFFICES ASSUME Exists(g)', "overlap" \notin mishaps'[g] PROVE ReadsCurrent(r)'
    BY <1>0, <1>2 DEF ReadsCurrent
  <2>2. /\ k # NULL => In(k, g)
        /\ req[r].target = goal[g].target
        /\ req[r].old = Replaced(r)
    BY <1>0, <1>1, <1>4, <2>1 DEF ReadsCurrent, Exists, At
  <2>3. Replaced(r)' = Replaced(r) /\ (k # NULL => In(k, g)')
    BY <1>0, <1>1, <1>2, <2>2 DEF Replaced, In
  <2>4. Current(g)' = Current(g)
    BY <1>0, <1>1, SameRowsSameSums
  <2>5. Accepted(Current(g) - Replaced(r) + req[r].amount, goal[g].target)
    BY <1>0, <2>2 DEF CheckSum
  <2>6. Accepted(Current(g)' - Replaced(r)' + req'[r].amount, goal'[g].target)
    BY <1>0, <1>1, <1>2, <2>3, <2>4, <2>5
  <2>7. ReadsCurrent(r)'
    BY <1>0, <1>1, <1>2, <2>3, <2>6 DEF ReadsCurrent, Accepted
  <2> QED
    BY <1>0, <2>7
<1> QED
  BY <1>0, <1>1, <1>3, <1>5, <1>6, HandlerRanged DEF Exists

\* A handler that goes on with the goal only, or stops, has nothing left to check.
LEMMA DoneReading ==
    ASSUME NEW r, NEW h,
           req'[r] \in {Idle, Only("complete", h), Only("notify", h)}
    PROVE  EditsOwn(r)' /\ ReadsCurrent(r)'
BY DEF Idle, Only, EditsOwn, ReadsCurrent

LEMMA WriteRanged ==
    ASSUME TypeOK, TypeOK', Ranged, NEW r \in Requests, NEW g \in GoalIds, NEW k,
           At(r, "write"), req[r].goal = g, Exists(g), WritesIn(g, k),
           Worth(contribution, k, g) = Replaced(r),
           Worth(contribution', k, g) = req[r].amount,
           Finish(r), Note(g, Overlapped(g, {r})),
           \A q \in Requests \ {r} : EditsOwn(q)'
    PROVE  Ranged'
<1>1. g \in GoalIds /\ Exists(g) /\ goal' = goal
  BY DEF WritesIn
<1>2. Note(g, Overlapped(g, {r}) \cup {})
  <2>1. Overlapped(g, {r}) \cup {} = Overlapped(g, {r})
    OBVIOUS
  <2> QED
    BY <2>1
<1>3. /\ \A q \in Requests \ {r} : req'[q] = req[q]
      /\ req'[r] \in {Idle, Only("complete", g), Only("notify", g)}
  BY DEF Finish, TypeOK, HandlersOK
<1>4. EditsOwn(r)' /\ ReadsCurrent(r)'
  BY <1>3, DoneReading
<1>5. /\ \A q \in Requests \ {r} : ReadsCurrent(q)'
      /\ \A h \in GoalIds \ {g} : InRange(h)'
  BY <1>1, <1>2, <1>3, OthersOfWrite
<1>6. /\ FewRows' /\ Current(g) \in Int
      /\ Current(g)' = Current(g) - Replaced(r) + req[r].amount
  BY <1>1, OneOfGoalWritten
<1>7. mishaps[g] \subseteq mishaps'[g]
  BY <1>1, <1>2, NoteHere
<1>8. InRange(g)'
  <2>1. CASE "overlap" \in mishaps[g]
    BY <1>7, <2>1 DEF InRange, Befell
  <2>2. CASE "overlap" \notin mishaps[g]
    <3>1. Accepted(Current(g)', goal[g].target)
      BY <1>1, <1>6, <2>2 DEF Ranged, ReadsCurrent, At
    <3>2. goal[g].target \in Int
      <4>1. goal[g] \in Goal
        BY <1>1 DEF TypeOK, RowsOK, Exists
      <4> QED
        BY <4>1 DEF Goal
    <3>3. req[r].amount \in Int /\ Replaced(r) \in Int
      BY WorthIsInt DEF At, TypeOK, HandlersOK, RowsOK, Rows
    <3>4. Current(g)' \in Int
      BY <1>6, <3>3
    <3>5. ~(Current(g)' > goal[g].target) /\ ~(Current(g)' < 0)
      BY <3>1, <3>2, <3>4 DEF Accepted
    <3> QED
      BY <1>1, <3>5 DEF InRange
  <2> QED
    BY <2>1, <2>2
<1>9. RangeEnforced'
  BY <1>5, <1>8 DEF RangeEnforced, InRange
<1> QED
  BY <1>4, <1>5, <1>6, <1>9 DEF Ranged

LEMMA RecordRanged ==
    ASSUME TypeOK, TypeOK', Ranged, NEW r \in Requests, NEW k \in ContribIds, RecordContribution(r, k)
    PROVE  Ranged'
<1>0. PICK g : g = req[r].goal
  OBVIOUS
<1>1. /\ At(r, "write") /\ req[r].edited = NULL /\ Exists(g) /\ FreshContribution(k)
      /\ Finish(r) /\ Note(g, Overlapped(g, {r})) /\ goal' = goal
  BY <1>0 DEF RecordContribution
<1>2. g \in GoalIds
  BY <1>0, <1>1 DEF At, TypeOK, HandlersOK
<1>3. /\ contribution'[k] = [goal |-> g, amount |-> req[r].amount] /\ contribution[k] = NULL
      /\ \A j \in ContribIds \ {k} : contribution'[j] = contribution[j]
  BY <1>0, <1>1 DEF RecordContribution, FreshContribution, TypeOK, RowsOK
<1>4. WritesIn(g, k)
  BY <1>0, <1>1, <1>3, NoteElsewhere DEF WritesIn
<1>5. contribution'[k] # NULL
  BY <1>0, <1>1, <1>2, <1>3, GoalsAssumption DEF At, TypeOK, HandlersOK, Contribution
<1>6. Worth(contribution, k, g) = Replaced(r) /\ Worth(contribution', k, g) = req[r].amount
  BY <1>0, <1>1, <1>3, <1>5 DEF Worth, Of, Replaced
<1>7. ASSUME NEW q \in Requests \ {r} PROVE EditsOwn(q)'
  <2>1. req'[q] = req[q] /\ EditsOwn(q) /\ req[q].edited # k /\ req[q].edited \in ContribIds \cup {NULL}
    BY <1>0, <1>1 DEF Finish, FreshContribution, Ranged, TypeOK, HandlersOK, Request
  <2> QED
    BY <1>0, <1>3, <2>1 DEF EditsOwn
<1> QED
  BY <1>0, <1>1, <1>2, <1>4, <1>6, <1>7, WriteRanged, Zenon

LEMMA RewriteRanged ==
    ASSUME TypeOK, TypeOK', Ranged, NEW r \in Requests, RewriteContribution(r)
    PROVE  Ranged'
<1>0. PICK g, k : g = req[r].goal /\ k = req[r].edited
  OBVIOUS
<1>1. /\ At(r, "write") /\ k # NULL /\ contribution[k] # NULL
      /\ contribution' = [contribution EXCEPT ![k].amount = req[r].amount]
      /\ Finish(r) /\ Note(g, Overlapped(g, {r})) /\ goal' = goal
  BY <1>0 DEF RewriteContribution
<1>2. g \in GoalIds /\ k \in ContribIds
  BY <1>0, <1>1 DEF At, TypeOK, HandlersOK, Request
<1>3. contribution[k].goal = g /\ contribution[k] \in Contribution /\ Exists(g)
  BY <1>0, <1>1, <1>2 DEF Ranged, EditsOwn, At, TypeOK, RowsOK, Exists
<1>4. /\ contribution'[k].goal = g /\ contribution'[k].amount = req[r].amount
      /\ contribution'[k] # NULL
      /\ \A j \in ContribIds \ {k} : contribution'[j] = contribution[j]
  <2>1. contribution'[k] = [contribution[k] EXCEPT !.amount = req[r].amount]
    BY <1>0, <1>1, <1>2 DEF TypeOK, RowsOK
  <2>2. req[r].amount \in Int
    BY <1>0, <1>1 DEF At, TypeOK, HandlersOK
  <2>3. contribution'[k] \in Contribution
    BY <1>0, <1>3, <2>1, <2>2 DEF Contribution
  <2> QED
    BY <1>0, <1>1, <1>2, <1>3, <2>1, <2>3, GoalsAssumption DEF Contribution, TypeOK, RowsOK
<1>5. WritesIn(g, k)
  BY <1>0, <1>1, <1>2, <1>3, <1>4, NoteElsewhere DEF WritesIn
<1>6. Worth(contribution, k, g) = Replaced(r) /\ Worth(contribution', k, g) = req[r].amount
  BY <1>0, <1>1, <1>2, <1>3, <1>4 DEF Worth, Of, Replaced
<1>7. ASSUME NEW q \in Requests \ {r} PROVE EditsOwn(q)'
  <2>1. req'[q] = req[q] /\ EditsOwn(q) /\ req[q].edited \in ContribIds \cup {NULL}
    BY <1>0, <1>1 DEF Finish, Ranged, TypeOK, HandlersOK, Request
  <2>2. \A j \in ContribIds : contribution'[j] # NULL =>
            contribution[j] # NULL /\ contribution'[j].goal = contribution[j].goal
    BY <1>0, <1>1, <1>2, <1>3, <1>4
  <2> QED
    BY <1>0, <2>1, <2>2 DEF EditsOwn
<1> QED
  BY <1>0, <1>1, <1>2, <1>3, <1>5, <1>6, <1>7, WriteRanged, Zenon

\* The steps of a handler that writes no contribution and checks nothing.
LEMMA AfterwardsRanged ==
    ASSUME TypeOK, Ranged, NEW r \in Requests,
           MarkCompleted(r) \/ NotifyCompleted(r) \/ Fail(r)
    PROVE  Ranged'
<1>0. PICK g : g = req[r].goal
  OBVIOUS
<1>1. contribution' = contribution
  BY <1>0 DEF MarkCompleted, NotifyCompleted, Fail
<1>2. /\ \A q \in Requests \ {r} : req'[q] = req[q]
      /\ req'[r] \in {Idle, Only("complete", g), Only("notify", g)}
  BY <1>0 DEF MarkCompleted, NotifyCompleted, Fail, TypeOK, HandlersOK
<1>3. ASSUME NEW h \in GoalIds, Exists(h)'
      PROVE  Exists(h) /\ goal'[h].target = goal[h].target /\ mishaps[h] \subseteq mishaps'[h]
  <2>1. CASE MarkCompleted(r)
    BY <1>0, <1>3, <2>1 DEF MarkCompleted, Exists, At, TypeOK, RowsOK, HandlersOK
  <2>2. CASE NotifyCompleted(r)
    BY <1>0, <1>3, <2>2 DEF NotifyCompleted, Exists
  <2>3. CASE Fail(r)
    BY <1>0, <1>3, <2>3, NoteAdds DEF Fail, Exists, TypeOK
  <2> QED
    BY <1>0, <2>1, <2>2, <2>3
<1> QED
  BY <1>0, <1>1, <1>2, <1>3, DoneReading, HandlerRanged

LEMMA RangedStep == ASSUME TypeOK, TypeOK', Ranged, [Next]_vars PROVE Ranged'
<1>1. ASSUME NEW g \in GoalIds, NEW target \in Targets, CreateGoal(g, target) \/ UpdateGoal(g, target)
      PROVE  Ranged'
  BY <1>1, CreateRanged, UpdateRanged
<1>2. ASSUME NEW g \in GoalIds, RemoveGoal(g) PROVE Ranged'
  BY <1>2, RemoveRanged
<1>3. ASSUME NEW g \in GoalIds, NEW k \in ContribIds, RemoveContribution(g, k) PROVE Ranged'
  BY <1>3, RemoveContributionRanged
<1>4. ASSUME NEW r \in Requests, Handler(r) PROVE Ranged'
  <2>1. ASSUME NEW g \in GoalIds, NEW amount \in Amounts, Contribute(r, g, amount) PROVE Ranged'
    BY <2>1, StartRanged DEF Contribute
  <2>2. ASSUME NEW g \in GoalIds, NEW k \in ContribIds, NEW amount \in Amounts \cup {NULL},
               UpdateContribution(r, g, k, amount)
        PROVE  Ranged'
    BY <2>2, StartRanged DEF UpdateContribution
  <2>3. ASSUME NEW k \in ContribIds, RecordContribution(r, k) PROVE Ranged'
    BY <2>3, RecordRanged
  <2> QED
    BY <1>4, <2>1, <2>2, <2>3, LookUpRanged, CheckRanged, RewriteRanged, AfterwardsRanged
    DEF Handler
<1>5. CASE UNCHANGED vars
  <2>1. /\ contribution' = contribution /\ goal' = goal /\ mishaps' = mishaps /\ req' = req
    BY <1>5 DEF vars
  <2>2. ASSUME NEW r \in Requests PROVE EditsOwn(r)' /\ ReadsCurrent(r)'
    BY <2>1, RowsLeftAlone DEF Exists, Ranged, EditsOwn, ReadsCurrent
  <2>3. FewRows' /\ RangeEnforced'
    BY <2>1, RowsLeftAlone DEF Exists
  <2> QED
    BY <2>2, <2>3 DEF Ranged
<1> QED
  BY <1>1, <1>2, <1>3, <1>4, <1>5 DEF Next, Plain

\* A goal leaves its range, more in it than its target or less than nothing, only if
\* handlers overlapped on it or one of the writes that check nothing pushed it there:
\* contribute() and updateContribution() never do it by themselves, however many
\* contributions the goal has.
THEOREM RangeHolds == Spec => []RangeEnforced
<1>1. Init => Ranged
  BY FS_EmptySet DEF Init, Ranged, FewRows, RowsIn, EditsOwn, ReadsCurrent, RangeEnforced, Idle, Only, Exists
<1>2. TypeOK /\ TypeOK' /\ Ranged /\ [Next]_vars => Ranged'
  BY RangedStep
<1>3. Ranged => RangeEnforced
  BY DEF Ranged
<1> QED
  BY <1>1, <1>2, <1>3, TypeCorrect, PTL DEF Spec

-----------------------------------------------------------------------------
(***************************************************************************)
(* Plans.                                                                  *)
(***************************************************************************)

LEMMA NothingMade == None \in [Kinds -> Nat]
BY DEF None

LEMMA NotCreatingIs == NotCreating \in Creation /\ NotCreating.pc = "idle" /\ Done \in Admin /\ Done.pc = "idle"
BY DEF NotCreating, Done, Creation, Admin, Limit

LEMMA HigherIsLimit == ASSUME NEW a \in Limit, NEW b \in Limit PROVE Higher(a, b) \in Limit
BY DEF Higher, Limit

LEMMA LimitsAreLimits == ASSUME NEW limit \in [Kinds -> Limits] PROVE limit \in [Kinds -> Limit]
BY PlansAssumption DEF Limit

\* The plan a user is on exists, and so does the limit a creation reads of it.
LEMMA PlanOf ==
    ASSUME PlansTypeOK, NEW u \in users, NEW p \in EffectivePlan(u), NEW k \in Kinds,
           \A v \in users : sub[v] # NULL => Present(sub[v].plan)
    PROVE  plan[p] \in Plan /\ plan[p].limit[k] \in Limit
<1>1. p \in PlanIds /\ Present(p)
  BY PlansAssumption DEF EffectivePlan, Active, Named, Present, PlansTypeOK, Sub
<1> QED
  BY <1>1 DEF Present, PlansTypeOK, Plan

LEMMA ArchivingKeepsNames ==
    ASSUME PlansTypeOK, NEW p \in PlanIds, Present(p), NEW on \in BOOLEAN,
           plan' = [plan EXCEPT ![p].archived = on]
    PROVE  \A q \in PlanIds :
              (Present(q)' <=> Present(q)) /\ (Present(q) => plan'[q].name = plan[q].name)
<1> DEFINE row == [plan[p] EXCEPT !.archived = on]
<1>1. plan[p] \in Plan
  BY DEF PlansTypeOK, Present
<1>2. row \in Plan /\ row.name = plan[p].name
  BY <1>1 DEF Plan
<1>3. row # NULL
  BY <1>2, PlansAssumption
<1>4. plan'[p] = row /\ \A q \in PlanIds \ {p} : plan'[q] = plan[q]
  BY DEF PlansTypeOK
<1> QED
  BY <1>2, <1>3, <1>4 DEF Present

(***************************************************************************)
(* Nobody can be left without a plan.  Subscriptions point at plans that   *)
(* exist, the free plan exists under its name unless it was renamed, and   *)
(* no plan about to be deleted has become the free one since it was read.  *)
(***************************************************************************)

Subscribed == \A u \in Users : sub[u] # NULL => Present(sub[u].plan)

FreeStays == renamed \/ Named(free) # {}

NotTheFree ==
    \A a \in Administrators :
        admin[a].pc = "delete" /\ Present(admin[a].plan) /\ ~renamed => plan[admin[a].plan].name # free

Resolvable == Subscribed /\ FreeStays /\ NotTheFree

LEMMA ResolvableSuffices == PlansTypeOK /\ Resolvable => EveryoneResolves
BY PlansAssumption DEF PlansTypeOK, Resolvable, Subscribed, FreeStays, EveryoneResolves, EffectivePlan

\* The types need the rest: a creation reads the limit of a plan that exists.
Sound == PlansTypeOK /\ Resolvable

LEMMA InitSound == PlansInit => Sound
<1> SUFFICES ASSUME PlansInit PROVE Sound
  OBVIOUS
<1>1. PICK p \in PlanIds, limit \in [Kinds -> Limits] :
         plan = [q \in PlanIds |-> IF q = p THEN [name |-> free, limit |-> limit, archived |-> FALSE]
                                           ELSE NULL]
  BY DEF PlansInit
<1>2. plan \in [PlanIds -> Plan \cup {NULL}]
  BY <1>1, LimitsAreLimits, PlansAssumption DEF Plan
<1>3. PlansTypeOK
  BY <1>2, NothingMade, NotCreatingIs DEF PlansInit, PlansTypeOK, Limit, None
<1>4. p \in Named(free)
  <2>1. plan[p] = [name |-> free, limit |-> limit, archived |-> FALSE]
    BY <1>1
  <2>2. plan[p] \in Plan
    BY <2>1, LimitsAreLimits, PlansAssumption DEF Plan
  <2> QED
    BY <2>1, <2>2, PlansAssumption DEF Named, Present
<1> QED
  BY <1>3, <1>4, NotCreatingIs DEF PlansInit, Sound, Resolvable, Subscribed, FreeStays, NotTheFree

LEMMA UserSound == Sound /\ User => Sound'
<1> SUFFICES ASSUME Sound, User PROVE Sound'
  OBVIOUS
<1> USE DEF Sound
<1>1. ASSUME NEW u \in Users, SignUp(u) PROVE Sound'
  <2>1. PlansTypeOK'
    BY <1>1 DEF SignUp, history, PlansTypeOK, Named, Sub
  <2>2. Subscribed'
    BY <1>1 DEF SignUp, history, PlansTypeOK, Resolvable, Subscribed, Named, Present
  <2> QED
    BY <1>1, <2>1, <2>2 DEF SignUp, history, Resolvable, FreeStays, NotTheFree, Named, Present
<1>2. ASSUME NEW u \in Users, RemoveUser(u) PROVE Sound'
  <2>1. admin' \in [Administrators -> Admin] /\ \A a \in Administrators : admin'[a].pc # "idle" =>
            admin'[a] = admin[a] /\ admin[a].user # u
    BY <1>2, NotCreatingIs DEF RemoveUser, PlansTypeOK
  <2>2. creation' \in [Creations -> Creation] /\ \A r \in Creations : creation'[r].pc # "idle" =>
            creation'[r] = creation[r] /\ creation[r].user # u
    BY <1>2, NotCreatingIs DEF RemoveUser, PlansTypeOK
  <2>3. sub' \in [Users -> Sub \cup {NULL}] /\ \A v \in Users \ users' : sub'[v] = NULL
    BY <1>2 DEF RemoveUser, SubCascaded, PlansTypeOK
  <2>4. PlansTypeOK'
    BY <1>2, <2>1, <2>2, <2>3, NothingMade DEF RemoveUser, PlansTypeOK, Limit, None
  <2> QED
    BY <1>2, <2>1, <2>4 DEF RemoveUser, SubCascaded, PlansTypeOK, Resolvable, Subscribed, FreeStays,
       NotTheFree, Named, Present
<1>3. ASSUME NEW u \in Users, MoveIntoMonth(u) PROVE Sound'
  BY <1>3 DEF MoveIntoMonth, PlansTypeOK, Resolvable, Subscribed, FreeStays, NotTheFree, Named, Present
<1>4. ASSUME NEW u \in Users, NEW k \in Kinds, RemoveRow(u, k) PROVE Sound'
  <2>1. made' \in [Users -> [Kinds -> Nat]] /\ unchecked' \in [Users -> Nat]
    BY <1>4 DEF RemoveRow, Unchecked, PlansTypeOK
  <2> QED
    BY <1>4, <2>1 DEF RemoveRow, PlansTypeOK, Resolvable, Subscribed, FreeStays, NotTheFree, Named, Present
<1>5. ASSUME NEW r \in Creations, NEW u \in Users, NEW k \in Kinds, Begin(r, u, k) PROVE Sound'
  <2>1. PICK p \in EffectivePlan(u) :
           creation' = [creation EXCEPT ![r] = [pc |-> IF plan[p].limit[k] = NULL THEN "create" ELSE "count",
                                      user |-> u, kind |-> k, limit |-> plan[p].limit[k]]]
    BY <1>5 DEF Begin
  <2>2. plan[p].limit[k] \in Limit
    BY <1>5, PlanOf DEF Begin, Resolvable, Subscribed, PlansTypeOK
  <2>3. creation' \in [Creations -> Creation] /\ \A q \in Creations : creation'[q].pc # "idle" =>
            creation'[q].user \in users /\ creation'[q].kind \in Kinds
    BY <1>5, <2>1, <2>2 DEF Begin, PlansTypeOK, Creation
  <2> QED
    BY <1>5, <2>3 DEF Begin, tables, history, PlansTypeOK, Resolvable, Subscribed, FreeStays, NotTheFree,
       Named, Present
<1>6. ASSUME NEW r \in Creations, CountRows(r) PROVE Sound'
  <2>1. creation[r].user \in Users /\ creation[r].kind \in Kinds /\ creation[r].limit \in Limit
    BY <1>6 DEF CountRows, PlansTypeOK, Creation
  <2>2. creation' \in [Creations -> Creation] /\ \A q \in Creations : creation'[q].pc # "idle" =>
            creation'[q].user \in users /\ creation'[q].kind \in Kinds
    <3>1. creation[r] \in Creation /\ creation[r].user \in users
      BY <1>6 DEF CountRows, PlansTypeOK
    <3>2. creation' = [creation EXCEPT ![r].pc = "create"] \/ creation' = [creation EXCEPT ![r] = NotCreating]
      BY <1>6 DEF CountRows
    <3>3. /\ [creation[r] EXCEPT !.pc = "create"] \in Creation
          /\ [creation[r] EXCEPT !.pc = "create"].user = creation[r].user
          /\ [creation[r] EXCEPT !.pc = "create"].kind = creation[r].kind
      BY <3>1 DEF Creation
    <3> QED
      BY <2>1, <3>1, <3>2, <3>3, NotCreatingIs DEF PlansTypeOK
  <2>3. checked' \in [Users -> [Kinds -> Limit]]
    <3>1. checked[creation[r].user][creation[r].kind] \in Limit
      BY <2>1 DEF PlansTypeOK
    <3>2. Higher(checked[creation[r].user][creation[r].kind], creation[r].limit) \in Limit
      BY <2>1, <3>1, HigherIsLimit
    <3>3. CASE UNCHANGED checked
      BY <3>3 DEF PlansTypeOK
    <3>4. CASE checked' = [checked EXCEPT ![creation[r].user][creation[r].kind] = Higher(@, creation[r].limit)]
      BY <2>1, <3>2, <3>4 DEF PlansTypeOK
    <3> QED
      BY <1>6, <3>3, <3>4 DEF CountRows
  <2> QED
    BY <1>6, <2>2, <2>3 DEF CountRows, tables, PlansTypeOK, Resolvable, Subscribed, FreeStays, NotTheFree,
       Named, Present
<1>7. ASSUME NEW r \in Creations, NEW date, Create(r, date) PROVE Sound'
  <2>1. creation[r].user \in Users /\ creation[r].kind \in Kinds
    BY <1>7 DEF Create, PlansTypeOK, Creation
  <2>2. /\ creation' \in [Creations -> Creation]
        /\ \A q \in Creations : creation'[q].pc # "idle" => creation'[q] = creation[q]
    BY <1>7, NotCreatingIs DEF Create, PlansTypeOK
  <2>3. checked' \in [Users -> [Kinds -> Limit]]
    BY <1>7, <2>1 DEF Create, PlansTypeOK, Limit
  <2>4. made' \in [Users -> [Kinds -> Nat]] /\ ahead' \in [Users -> Nat]
    BY <1>7, <2>1 DEF Create, PlansTypeOK
  <2> QED
    BY <1>7, <2>2, <2>3, <2>4 DEF Create, PlansTypeOK, Resolvable, Subscribed, FreeStays, NotTheFree,
       Named, Present
<1> QED
  BY <1>1, <1>2, <1>3, <1>4, <1>5, <1>6, <1>7 DEF User

LEMMA AdministratorSound == Sound /\ Administrator => Sound'
<1> SUFFICES ASSUME Sound, Administrator PROVE Sound'
  OBVIOUS
<1> USE DEF Sound
<1>1. ASSUME NEW p \in PlanIds, UnarchivePlan(p) PROVE Sound'
  <2>1. PlansTypeOK'
    BY <1>1 DEF UnarchivePlan, history, Present, PlansTypeOK, Plan
  <2>2. \A q \in PlanIds : (Present(q)' <=> Present(q)) /\ (Present(q) => plan'[q].name = plan[q].name)
    BY <1>1, ArchivingKeepsNames DEF UnarchivePlan, Present, PlansTypeOK
  <2> QED
    BY <1>1, <2>1, <2>2 DEF UnarchivePlan, history, PlansTypeOK, Sub, Resolvable, Subscribed, FreeStays,
       NotTheFree, Named
<1>2. ASSUME NEW a \in Administrators, NEW p \in PlanIds, BeginArchive(a, p) PROVE Sound'
  <2>1. /\ admin'[a] = [Done EXCEPT !.pc = "archive", !.plan = p]
        /\ \A b \in Administrators \ {a} : admin'[b] = admin[b]
    BY <1>2 DEF BeginArchive, PlansTypeOK
  <2>2. admin' \in [Administrators -> Admin]
    BY <1>2 DEF BeginArchive, Done, PlansTypeOK, Admin
  <2>3. PlansTypeOK'
    BY <1>2, <2>1, <2>2 DEF BeginArchive, Done, tables, history, PlansTypeOK
  <2> QED
    BY <1>2, <2>1, <2>3 DEF BeginArchive, Done, tables, history, Resolvable, Subscribed, FreeStays,
       NotTheFree, Named, Present
<1>3. ASSUME NEW a \in Administrators, NEW p \in PlanIds, BeginDelete(a, p) PROVE Sound'
  <2>1. /\ admin'[a] = [Done EXCEPT !.pc = "delete", !.plan = p]
        /\ \A b \in Administrators \ {a} : admin'[b] = admin[b]
    BY <1>3 DEF BeginDelete, PlansTypeOK
  <2>2. admin' \in [Administrators -> Admin]
    BY <1>3 DEF BeginDelete, Done, PlansTypeOK, Admin
  <2>3. PlansTypeOK'
    BY <1>3, <2>1, <2>2 DEF BeginDelete, Done, tables, history, PlansTypeOK
  <2> QED
    BY <1>3, <2>1, <2>3 DEF BeginDelete, MayDelete, Done, tables, history, Resolvable, Subscribed,
       FreeStays, NotTheFree, Named, Present
<1>4. ASSUME NEW p \in PlanIds, NEW n \in Names, NEW limit \in [Kinds -> Limits],
             CreatePlan(p, n, limit)
      PROVE  Sound'
  <2>1. PlansTypeOK'
    BY <1>4, LimitsAreLimits DEF CreatePlan, history, PlansTypeOK, Plan
  <2>2. \A q \in PlanIds : Present(q) => q # p /\ plan'[q] = plan[q]
    BY <1>4 DEF CreatePlan, PlansTypeOK
  <2>3. Named(free) \subseteq Named(free)'
    BY <2>2 DEF Named, Present
  <2>4. NotTheFree'
    BY <1>4, <2>2 DEF CreatePlan, history, PlansTypeOK, Resolvable, NotTheFree, Present
  <2> QED
    BY <1>4, <2>1, <2>2, <2>3, <2>4 DEF CreatePlan, history, PlansTypeOK, Sub, Resolvable, Subscribed,
       FreeStays, Present
<1>5. ASSUME NEW p \in PlanIds, NEW n \in Names, NEW limit \in [Kinds -> Limits],
             UpdatePlan(p, n, limit)
      PROVE  Sound'
  <2>0. plan[p] \in Plan /\ plan \in [PlanIds -> Plan \cup {NULL}]
    BY <1>5 DEF UpdatePlan, Present, PlansTypeOK
  <2> DEFINE row == [name |-> n, limit |-> limit, archived |-> plan[p].archived]
  <2>a. row \in Plan /\ row # NULL
    BY <2>0, LimitsAreLimits, PlansAssumption DEF Plan
  <2>b. plan' = [plan EXCEPT ![p] = row]
    BY <1>5, <2>0 DEF UpdatePlan
  <2> HIDE DEF row
  <2>1. PlansTypeOK'
    BY <1>5, <2>0, <2>a, <2>b DEF UpdatePlan, PlansTypeOK
  <2>2. /\ plan'[p] # NULL /\ plan'[p].name = n
        /\ \A q \in PlanIds : q # p => plan'[q] = plan[q]
    BY <2>0, <2>a, <2>b DEF row
  <2>3. Subscribed'
    BY <1>5, <2>2 DEF UpdatePlan, PlansTypeOK, Sub, Resolvable, Subscribed, Present
  <2>4. FreeStays'
    BY <1>5, <2>2 DEF UpdatePlan, Resolvable, FreeStays, Named, Present
  <2>5. NotTheFree'
    BY <1>5, <2>2 DEF UpdatePlan, PlansTypeOK, Resolvable, FreeStays, NotTheFree, Named, Present
  <2> QED
    BY <2>1, <2>3, <2>4, <2>5 DEF Resolvable
<1>6. ASSUME NEW a \in Administrators, Archive(a) PROVE Sound'
  <2>0. /\ admin'[a] = Done /\ \A b \in Administrators \ {a} : admin'[b] = admin[b]
        /\ admin' \in [Administrators -> Admin]
    BY <1>6, NotCreatingIs DEF Archive, PlansTypeOK
  <2>1. PlansTypeOK'
    BY <1>6, <2>0, NotCreatingIs DEF Archive, history, Present, PlansTypeOK, Plan
  <2>2. \A q \in PlanIds : (Present(q)' <=> Present(q)) /\ (Present(q) => plan'[q].name = plan[q].name)
    BY <1>6, ArchivingKeepsNames DEF Archive, Present, PlansTypeOK
  <2> QED
    BY <1>6, <2>0, <2>1, <2>2, NotCreatingIs DEF Archive, history, PlansTypeOK, Sub, Resolvable, Subscribed,
       FreeStays, NotTheFree, Named
<1>7. ASSUME NEW a \in Administrators, DeletePlan(a) PROVE Sound'
  <2>0. /\ admin'[a] = Done /\ \A b \in Administrators \ {a} : admin'[b] = admin[b]
        /\ admin' \in [Administrators -> Admin]
    BY <1>7, NotCreatingIs DEF DeletePlan, PlansTypeOK
  <2>1. PlansTypeOK'
    BY <1>7, <2>0, NotCreatingIs DEF DeletePlan, history, PlansTypeOK
  <2>2. Subscribed'
    BY <1>7 DEF DeletePlan, Unsubscribed, Subscribers, PlansTypeOK, Sub, Resolvable, Subscribed, Present
  <2>3. FreeStays'
    BY <1>7 DEF DeletePlan, history, PlansTypeOK, Resolvable, FreeStays, NotTheFree, Named, Present
  <2>4. \A q \in PlanIds : Present(q)' => plan'[q] = plan[q] /\ Present(q)
    BY <1>7 DEF DeletePlan, PlansTypeOK, Present
  <2>5. NotTheFree'
    BY <1>7, <2>0, <2>4, NotCreatingIs DEF DeletePlan, history, PlansTypeOK, Resolvable, NotTheFree, Present
  <2> QED
    BY <2>1, <2>2, <2>3, <2>5 DEF Resolvable
<1>8. ASSUME NEW a \in Administrators, NEW u \in Users, NEW n \in Names, FindPlan(a, u, n) PROVE Sound'
  <2>1. PICK p \in Named(n) : admin' = [admin EXCEPT ![a] = [pc |-> "subscribe", plan |-> p, user |-> u]]
    BY <1>8 DEF FindPlan
  <2>2. p \in PlanIds /\ u \in users
    BY <1>8 DEF FindPlan, Named
  <2>3. /\ admin'[a] = [pc |-> "subscribe", plan |-> p, user |-> u]
        /\ \A b \in Administrators \ {a} : admin'[b] = admin[b]
    BY <2>1 DEF PlansTypeOK
  <2>4. admin' \in [Administrators -> Admin]
    BY <2>1, <2>2 DEF PlansTypeOK, Admin
  <2>5. PlansTypeOK'
    BY <1>8, <2>2, <2>3, <2>4 DEF FindPlan, tables, history, PlansTypeOK
  <2> QED
    BY <1>8, <2>3, <2>5 DEF FindPlan, tables, history, Resolvable, Subscribed, FreeStays, NotTheFree, Named,
       Present
<1>9. ASSUME NEW a \in Administrators, NEW until \in {NULL, month, month + 1}, ChangePlan(a, until)
      PROVE  Sound'
  <2>0. /\ admin'[a] = Done /\ \A b \in Administrators \ {a} : admin'[b] = admin[b]
        /\ admin' \in [Administrators -> Admin]
    BY <1>9, NotCreatingIs DEF ChangePlan, PlansTypeOK
  <2>1. sub' \in [Users -> Sub \cup {NULL}] /\ \A v \in Users \ users : sub'[v] = NULL
    BY <1>9 DEF ChangePlan, PlansTypeOK, Sub
  <2>2. PlansTypeOK'
    BY <1>9, <2>0, <2>1, NotCreatingIs DEF ChangePlan, history, PlansTypeOK
  <2>3. Subscribed'
    BY <1>9 DEF ChangePlan, Referable, PlansTypeOK, Resolvable, Subscribed, Present
  <2> QED
    BY <1>9, <2>0, <2>2, <2>3, NotCreatingIs DEF ChangePlan, history, Resolvable, FreeStays, NotTheFree,
       Named, Present
<1> QED
  BY <1>1, <1>2, <1>3, <1>4, <1>5, <1>6, <1>7, <1>8, <1>9 DEF Administrator

LEMMA StepSound == Sound /\ [PlansNext]_plansVars => Sound'
<1> SUFFICES ASSUME Sound, [PlansNext]_plansVars PROVE Sound'
  OBVIOUS
<1>1. CASE NextMonth
  <2>1. made' \in [Users -> [Kinds -> Nat]] /\ ahead' \in [Users -> Nat] /\ unchecked' \in [Users -> Nat]
    BY <1>1 DEF NextMonth, Sound, PlansTypeOK
  <2> QED
    BY <1>1, <2>1 DEF NextMonth, Sound, PlansTypeOK, Resolvable, Subscribed, FreeStays, NotTheFree, Named,
       Present
<1>2. CASE UNCHANGED plansVars
  BY <1>2 DEF plansVars, tables, history, Sound, PlansTypeOK, Resolvable, Subscribed, FreeStays, NotTheFree,
     Named, Present
<1> QED
  BY <1>1, <1>2, UserSound, AdministratorSound DEF PlansNext

\* Every column keeps its type, only users have subscriptions and requests under way, and what
\* an administrator read is a plan there was (schema.prisma, admin-plans.service.ts).
THEOREM PlansTypeCorrect == PlansSpec => []PlansTypeOK
<1>1. Sound => PlansTypeOK
  BY DEF Sound
<1> QED
  BY <1>1, InitSound, StepSound, PTL DEF PlansSpec

\* Whoever is there is on a plan that exists, however the administrators' requests, sign-ups and
\* deletions interleave, unless the free plan was renamed (subscriptions.service.ts:23-31).
THEOREM EveryoneIsOnAPlan == PlansSpec => []EveryoneResolves
<1>1. Sound => EveryoneResolves
  BY ResolvableSuffices DEF Sound
<1> QED
  BY <1>1, InitSound, StepSound, PTL DEF PlansSpec

(***************************************************************************)
(* A limit is exceeded by no more than the other requests under way.       *)
(* What is counted against a limit are the rows it was asked for and the   *)
(* creations that have passed it.  A creation that passes found fewer rows *)
(* than the limit, and no more than all requests are under way with it;    *)
(* afterwards each of them turns into one row, and the sum stays.          *)
(***************************************************************************)

Passed(u, k) ==
    {r \in Creations : /\ creation[r].pc = "create" /\ creation[r].limit # NULL
                      /\ creation[r].user = u /\ creation[r].kind = k}

Counted(u, k) == made[u][k] - Unchecked(u, k)

Within(u, k) ==
    checked[u][k] # NULL =>
        /\ Counted(u, k) > 0 \/ Passed(u, k) # {} =>
               Counted(u, k) + Cardinality(Passed(u, k)) <= checked[u][k] + Cardinality(Creations) - 1
        /\ Passed(u, k) # {} => checked[u][k] > 0

CountedAgainst == \A r \in Creations : creation[r].pc = "count" => creation[r].limit # NULL

Limited == CountedAgainst /\ \A u \in Users, k \in Kinds : Within(u, k)

LEMMA Sizes ==
    ASSUME NEW S, NEW T, S \subseteq T, T \subseteq Creations
    PROVE  /\ Cardinality(S) \in Nat /\ Cardinality(T) \in Nat /\ Cardinality(Creations) \in Nat
           /\ Cardinality(S) <= Cardinality(T) /\ Cardinality(T) <= Cardinality(Creations)
           /\ T # {} => Cardinality(Creations) > 0
<1>1. IsFiniteSet(Creations) /\ IsFiniteSet(T) /\ IsFiniteSet(S)
  BY PlansAssumption, FS_Subset
<1>2. /\ Cardinality(S) \in Nat /\ Cardinality(T) \in Nat /\ Cardinality(Creations) \in Nat
      /\ Cardinality(S) <= Cardinality(T) /\ Cardinality(T) <= Cardinality(Creations)
  BY <1>1, FS_Subset, FS_CardinalityType
<1>3. T # {} => Cardinality(T) # 0
  BY <1>1, FS_EmptySet
<1> QED
  BY <1>2, <1>3

LEMMA CountedType ==
    ASSUME PlansTypeOK, NEW u \in Users, NEW k \in Kinds
    PROVE  /\ Counted(u, k) \in Int /\ made[u][k] \in Nat /\ Counted(u, k) <= made[u][k]
           /\ checked[u][k] \in Nat \cup {NULL}
BY DEF PlansTypeOK, Counted, Unchecked, Limit

\* Nothing is added to what counts against the limit.
LEMMA WithinKept ==
    ASSUME PlansTypeOK, PlansTypeOK', NEW u \in Users, NEW k \in Kinds, Within(u, k),
           Passed(u, k)' \subseteq Passed(u, k), Counted(u, k)' <= Counted(u, k),
           checked'[u][k] = checked[u][k]
    PROVE  Within(u, k)'
<1>1. /\ Cardinality(Passed(u, k)') \in Nat /\ Cardinality(Passed(u, k)) \in Nat
      /\ Cardinality(Passed(u, k)') <= Cardinality(Passed(u, k)) /\ Cardinality(Creations) \in Nat
  BY Sizes DEF Passed
<1>2. Counted(u, k) \in Int /\ Counted(u, k)' \in Int /\ checked[u][k] \in Nat \cup {NULL}
  BY CountedType DEF PlansTypeOK, Counted, Unchecked
<1> QED
  BY <1>1, <1>2, PlansAssumption DEF Within

LEMMA InitLimited == PlansInit => Limited
BY DEF PlansInit, NotCreating, None, Limited, CountedAgainst, Within, Counted, Unchecked, Passed

LEMMA BeginLimited ==
    ASSUME Sound, Sound', Limited, NEW r \in Creations, NEW v \in Users, NEW j \in Kinds, Begin(r, v, j)
    PROVE  Limited'
<1>1. PICK p \in EffectivePlan(v) :
         creation' = [creation EXCEPT ![r] = [pc |-> IF plan[p].limit[j] = NULL THEN "create" ELSE "count",
                                    user |-> v, kind |-> j, limit |-> plan[p].limit[j]]]
  BY DEF Begin
<1>2. CountedAgainst'
  BY <1>1 DEF Sound, PlansTypeOK, Limited, CountedAgainst
<1>3. \A u \in Users, k \in Kinds : Within(u, k)'
  <2> SUFFICES ASSUME NEW u \in Users, NEW k \in Kinds PROVE Within(u, k)'
    OBVIOUS
  <2>1. Passed(u, k)' \subseteq Passed(u, k)
    BY <1>1 DEF Passed, Sound, PlansTypeOK
  <2>2. Counted(u, k)' = Counted(u, k) /\ checked'[u][k] = checked[u][k] /\ Counted(u, k) \in Int
    BY CountedType DEF Begin, tables, history, Counted, Unchecked, Sound
  <2> QED
    BY <2>1, <2>2, WithinKept DEF Sound, Limited
<1> QED
  BY <1>2, <1>3 DEF Limited

LEMMA CountRowsLimited ==
    ASSUME Sound, Sound', Limited, NEW r \in Creations, CountRows(r)
    PROVE  Limited'
<1> DEFINE v == creation[r].user
           j == creation[r].kind
<1>1. v \in Users /\ j \in Kinds /\ creation[r].limit \in Nat
  BY DEF CountRows, Sound, PlansTypeOK, Creation, Limit, Limited, CountedAgainst
<1>2. CountedAgainst'
  <2>1. creation' = [creation EXCEPT ![r].pc = "create"] \/ creation' = [creation EXCEPT ![r] = NotCreating]
    BY DEF CountRows
  <2>2. creation[r] \in Creation /\ [creation[r] EXCEPT !.pc = "create"].pc = "create"
    BY DEF Sound, PlansTypeOK, Creation
  <2> QED
    BY <2>1, <2>2, NotCreatingIs DEF Sound, PlansTypeOK, Limited, CountedAgainst
<1>3. \A u \in Users, k \in Kinds : Within(u, k)'
  <2> SUFFICES ASSUME NEW u \in Users, NEW k \in Kinds PROVE Within(u, k)'
    OBVIOUS
  <2>0. Counted(u, k)' = Counted(u, k) /\ Counted(u, k) \in Int
    BY CountedType DEF CountRows, tables, Counted, Unchecked, Sound
  <2>1. CASE ~Below(made[v][j], creation[r].limit)
    <3>1. Passed(u, k)' \subseteq Passed(u, k) /\ checked'[u][k] = checked[u][k]
      BY <2>1, NotCreatingIs DEF CountRows, Passed, Sound, PlansTypeOK
    <3> QED
      BY <2>0, <3>1, WithinKept DEF Sound, Limited
  <2>2. CASE Below(made[v][j], creation[r].limit) /\ ~(u = v /\ k = j)
    <3>1. checked' = [checked EXCEPT ![v][j] = Higher(@, creation[r].limit)]
          /\ creation' = [creation EXCEPT ![r].pc = "create"]
      BY <2>2 DEF CountRows
    <3>2. checked'[u][k] = checked[u][k]
      BY <1>1, <2>2, <3>1 DEF Sound, PlansTypeOK
    <3>3. Passed(u, k)' \subseteq Passed(u, k)
      BY <2>2, <3>1 DEF Passed, Sound, PlansTypeOK, Creation
    <3> QED
      BY <2>0, <3>2, <3>3, WithinKept DEF Sound, Limited
  <2>3. CASE Below(made[v][j], creation[r].limit) /\ u = v /\ k = j
    <3>1. checked'[u][k] = Higher(checked[u][k], creation[r].limit)
      BY <1>1, <2>3 DEF CountRows, Sound, PlansTypeOK
    <3>2. made[u][k] < creation[r].limit /\ made[u][k] \in Nat /\ Counted(u, k) <= made[u][k]
          /\ checked[u][k] \in Nat \cup {NULL}
      BY <2>3, CountedType DEF Below, Sound
    <3>3. /\ Cardinality(Passed(u, k)') \in Nat /\ Cardinality(Creations) \in Nat
          /\ Cardinality(Passed(u, k)') <= Cardinality(Creations)
      BY Sizes DEF Passed
    <3>4. checked'[u][k] # NULL => checked'[u][k] \in Nat /\ checked'[u][k] >= creation[r].limit
      BY <1>1, <3>1, <3>2, PlansAssumption DEF Higher
    <3> QED
      BY <1>1, <2>0, <3>2, <3>3, <3>4 DEF Within
  <2> QED
    BY <2>1, <2>2, <2>3
<1> QED
  BY <1>2, <1>3 DEF Limited

LEMMA CreateLimited ==
    ASSUME Sound, Sound', Limited, NEW r \in Creations, NEW date, Create(r, date)
    PROVE  Limited'
<1> DEFINE v == creation[r].user
           j == creation[r].kind
<1>1. v \in Users /\ j \in Kinds
  BY DEF Create, Sound, PlansTypeOK, Creation
<1>2. CountedAgainst'
  BY NotCreatingIs DEF Create, Sound, PlansTypeOK, Limited, CountedAgainst
<1>3. \A u \in Users, k \in Kinds : Within(u, k)'
  <2> SUFFICES ASSUME NEW u \in Users, NEW k \in Kinds PROVE Within(u, k)'
    OBVIOUS
  <2>0. Passed(u, k)' = Passed(u, k) \ {r}
    BY NotCreatingIs DEF Create, Passed, Sound, PlansTypeOK
  <2>1. CASE ~(u = v /\ k = j)
    <3>1. made'[u][k] = made[u][k] /\ checked'[u][k] = checked[u][k]
      BY <1>1, <2>1 DEF Create, Sound, PlansTypeOK
    <3>2. Counted(u, k)' = Counted(u, k) /\ Counted(u, k) \in Int
      BY <3>1, CountedType DEF Create, Counted, Unchecked, Sound
    <3> QED
      BY <2>0, <3>1, <3>2, WithinKept DEF Sound, Limited
  <2>2. CASE u = v /\ k = j /\ creation[r].limit = NULL
    BY <1>1, <2>2 DEF Create, Sound, PlansTypeOK, Within
  <2>3. CASE u = v /\ k = j /\ creation[r].limit # NULL
    <3>1. made'[u][k] \in {made[u][k], made[u][k] + 1} /\ checked'[u][k] = checked[u][k]
      BY <1>1, <2>3 DEF Create, Sound, PlansTypeOK
    <3>2. /\ Counted(u, k) \in Int /\ checked[u][k] \in Nat \cup {NULL}
          /\ Counted(u, k)' \in {Counted(u, k), Counted(u, k) + 1}
      <4>1. Unchecked(u, k)' = Unchecked(u, k) /\ Unchecked(u, k) \in Int /\ made[u][k] \in Int
        BY DEF Create, Unchecked, Sound, PlansTypeOK
      <4>2. checked[u][k] \in Limit
        BY DEF Sound, PlansTypeOK
      <4> QED
        BY <3>1, <4>1, <4>2 DEF Counted, Limit
    <3>3. r \in Passed(u, k)
      BY <2>3 DEF Create, Passed
    <3>4. IsFiniteSet(Passed(u, k))
      BY PlansAssumption, FS_Subset DEF Passed
    <3>5. Cardinality(Passed(u, k)') = Cardinality(Passed(u, k)) - 1
      BY <2>0, <3>3, <3>4, FS_RemoveElement
    <3>6. Cardinality(Passed(u, k)) \in Nat /\ Cardinality(Creations) \in Nat
      BY Sizes DEF Passed
    <3> QED
      BY <3>1, <3>2, <3>3, <3>5, <3>6, PlansAssumption DEF Within, Limited
  <2> QED
    BY <2>1, <2>2, <2>3
<1> QED
  BY <1>2, <1>3 DEF Limited

\* What is left: rows go, are moved into the month, or the month ends; users come and go.
LEMMA RowsLimited ==
    ASSUME Sound, Sound', Limited,
           \/ NextMonth
           \/ \E v \in Users : RemoveUser(v) \/ MoveIntoMonth(v) \/ \E j \in Kinds : RemoveRow(v, j)
    PROVE  Limited'
<1>1. CountedAgainst'
  <2>1. \/ UNCHANGED creation
        \/ \E v \in Users : creation' = [r \in Creations |-> IF creation[r].user = v THEN NotCreating
                                                                                    ELSE creation[r]]
    BY DEF NextMonth, RemoveUser, MoveIntoMonth, RemoveRow
  <2> QED
    BY <2>1, NotCreatingIs DEF Limited, CountedAgainst
<1>2. \A u \in Users, k \in Kinds : Within(u, k)'
  <2> SUFFICES ASSUME NEW u \in Users, NEW k \in Kinds PROVE Within(u, k)'
    OBVIOUS
  <2>1. CASE NextMonth
    <3>1. Passed(u, k)' = Passed(u, k) /\ checked'[u][k] = checked[u][k]
      BY <2>1 DEF NextMonth, Passed
    <3>2. CASE k = "transaction"
      <4>1. Counted(u, k)' = 0
        BY <2>1, <3>2 DEF NextMonth, Counted, Unchecked, Sound, PlansTypeOK
      <4>2. /\ Cardinality(Passed(u, k)) \in Nat /\ Cardinality(Creations) \in Nat
            /\ Cardinality(Passed(u, k)) <= Cardinality(Creations)
        BY Sizes DEF Passed
      <4>3. checked[u][k] \in Nat \cup {NULL} /\ Within(u, k)
        BY CountedType DEF Sound, Limited
      <4> QED
        BY <3>1, <4>1, <4>2, <4>3, PlansAssumption DEF Within
    <3>3. CASE k # "transaction"
      <4>1. Counted(u, k)' = Counted(u, k) /\ Counted(u, k) \in Int
        BY <2>1, <3>3, CountedType DEF NextMonth, Counted, Unchecked, Sound
      <4> QED
        BY <3>1, <4>1, WithinKept DEF Sound, Limited
    <3> QED
      BY <3>2, <3>3
  <2>2. ASSUME NEW v \in Users, RemoveUser(v) PROVE Within(u, k)'
    <3>1. CASE u = v
      <4>1. Passed(u, k)' = {}
        BY <2>2, <3>1, NotCreatingIs DEF RemoveUser, Passed, Sound, PlansTypeOK
      <4>2. Counted(u, k)' = 0
        BY <2>2, <3>1 DEF RemoveUser, None, Counted, Unchecked, Sound, PlansTypeOK
      <4> QED
        BY <4>1, <4>2 DEF Within
    <3>2. CASE u # v
      <4>1. Passed(u, k)' \subseteq Passed(u, k)
        BY <2>2, <3>2, NotCreatingIs DEF RemoveUser, Passed, Sound, PlansTypeOK
      <4>2. Counted(u, k)' = Counted(u, k) /\ Counted(u, k) \in Int /\ checked'[u][k] = checked[u][k]
        BY <2>2, <3>2, CountedType DEF RemoveUser, Counted, Unchecked, Sound, PlansTypeOK
      <4> QED
        BY <4>1, <4>2, WithinKept DEF Sound, Limited
    <3> QED
      BY <3>1, <3>2
  <2>3. ASSUME NEW v \in Users, MoveIntoMonth(v) PROVE Within(u, k)'
    <3>1. /\ made'[u][k] = IF u = v /\ k = "transaction" THEN made[u][k] + 1 ELSE made[u][k]
          /\ unchecked'[u] = IF u = v THEN unchecked[u] + 1 ELSE unchecked[u]
          /\ made[u][k] \in Nat /\ unchecked[u] \in Nat
      BY <2>3 DEF MoveIntoMonth, Sound, PlansTypeOK
    <3>2. checked'[u][k] = checked[u][k]
      BY <2>3 DEF MoveIntoMonth
    <3>3. Counted(u, k)' <= Counted(u, k)
      <4>1. CASE k = "transaction"
        BY <3>1, <4>1 DEF Counted, Unchecked
      <4>2. CASE k # "transaction"
        BY <3>1, <4>2 DEF Counted, Unchecked
      <4> QED
        BY <4>1, <4>2
    <3> QED
      BY <2>3, <3>2, <3>3, WithinKept DEF MoveIntoMonth, Passed, Sound, Limited
  <2>4. ASSUME NEW v \in Users, NEW j \in Kinds, RemoveRow(v, j) PROVE Within(u, k)'
    <3>1. made'[u][k] = IF u = v /\ k = j THEN made[u][k] - 1 ELSE made[u][k]
      BY <2>4 DEF RemoveRow, Sound, PlansTypeOK
    <3>2. \/ unchecked'[u] = unchecked[u]
          \/ unchecked'[u] = unchecked[u] - 1 /\ u = v /\ j = "transaction"
      BY <2>4 DEF RemoveRow, Unchecked, Sound, PlansTypeOK
    <3>3. Counted(u, k)' <= Counted(u, k)
      BY <3>1, <3>2 DEF Counted, Unchecked, Sound, PlansTypeOK
    <3> QED
      BY <2>4, <3>3, WithinKept DEF RemoveRow, Passed, Sound, Limited
  <2> QED
    BY <2>1, <2>2, <2>3, <2>4
<1> QED
  BY <1>1, <1>2 DEF Limited

\* The administrator, and whoever signs up, changes nothing that counts.
LEMMA OthersLimited ==
    ASSUME Limited, UNCHANGED <<made, creation, checked, unchecked>>
    PROVE  Limited'
BY DEF Limited, CountedAgainst, Within, Counted, Unchecked, Passed

\* "Limits are counted before the write": a user has no more rows above the highest limit asked
\* for than other requests were under way, besides what was dated or moved into the month
\* (subscriptions.service.ts:57-81).
THEOREM OvershootBounded == PlansSpec => []LimitOvershoot
<1>1. Sound /\ Limited => LimitOvershoot
  <2> SUFFICES ASSUME Sound, Limited PROVE LimitOvershoot
    OBVIOUS
  <2> SUFFICES ASSUME NEW u \in users, NEW k \in Kinds
               PROVE  made[u][k] > Unchecked(u, k) /\ checked[u][k] # NULL =>
                         made[u][k] - Unchecked(u, k) <= checked[u][k] + Cardinality(Creations) - 1
    BY DEF LimitOvershoot
  <2> HAVE made[u][k] > Unchecked(u, k) /\ checked[u][k] # NULL
  <2>0. u \in Users
    BY DEF Sound, PlansTypeOK
  <2>1. Counted(u, k) > 0 /\ Counted(u, k) \in Int /\ checked[u][k] \in Nat
    BY <2>0, CountedType DEF Counted, Unchecked, Sound, PlansTypeOK
  <2>2. Cardinality(Passed(u, k)) \in Nat /\ Cardinality(Creations) \in Nat
    BY Sizes DEF Passed
  <2> QED
    BY <2>0, <2>1, <2>2 DEF Limited, Within, Counted
<1>2. Sound /\ Sound' /\ Limited /\ [PlansNext]_plansVars => Limited'
  <2> SUFFICES ASSUME Sound, Sound', Limited, [PlansNext]_plansVars PROVE Limited'
    OBVIOUS
  <2>1. CASE Administrator
    BY <2>1, OthersLimited
    DEF Administrator, UnarchivePlan, BeginArchive, BeginDelete, CreatePlan, UpdatePlan, Archive,
        DeletePlan, FindPlan, ChangePlan, tables, history
  <2>2. CASE UNCHANGED plansVars
    BY <2>2, OthersLimited DEF plansVars, tables, history
  <2>3. CASE User
    BY <2>3, BeginLimited, CountRowsLimited, CreateLimited, RowsLimited, OthersLimited
    DEF User, SignUp, history
  <2> QED
    BY <2>1, <2>2, <2>3, RowsLimited DEF PlansNext
<1> QED
  BY <1>1, <1>2, InitSound, StepSound, InitLimited, PTL DEF PlansSpec
=============================================================================
