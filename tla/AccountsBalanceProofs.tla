------------------------- MODULE AccountsBalanceProofs -------------------------
(***************************************************************************)
(* Theorems about Accounts, for any users, identities and any number of    *)
(* requests at once, and about Balance, for any currencies, rates, venues  *)
(* and rows.                                                               *)
(***************************************************************************)
EXTENDS Accounts, Balance, Sums, TLAPS

(***************************************************************************)
(* Types.  A request has read, by each of its steps, the columns the step  *)
(* writes with.                                                            *)
(***************************************************************************)

Knows(q) ==
    /\ q.pc \in {"spend", "session", "drop", "link", "renew", "verify", "adopt", "forget", "attach",
                 "setEmail", "setGoogle", "setTelegram", "setPassword"} \/ q.signsIn => q.user # NULL
    /\ q.pc \in {"register", "drop", "link", "verify", "adopt"} => q.email # NULL
    /\ q.pc \in {"attach", "setEmail", "setGoogle", "createGoogle"} => q.google # NULL
    /\ q.pc \in {"setTelegram", "createTelegram"} => q.telegram # NULL

ReqsOK == req \in [Requests -> Request] /\ \A r \in Requests : Knows(req[r])

Sound == TypeOK /\ ReqsOK

LEMMA IdleIsRequest == Idle \in Request /\ Knows(Idle)
BY DEF Idle, Request, Optional, Steps, Knows

LEMMA SignInIsRequest == ASSUME NEW u \in Users PROVE SignIn(u) \in Request /\ Knows(SignIn(u))
BY AccountsAssumption, IdleIsRequest DEF SignIn, Idle, Request, Optional, Steps, Knows

LEMMA ReqKept ==
    ASSUME ReqsOK, NEW r \in Requests, NEW q \in Request, Knows(q), req' = [req EXCEPT ![r] = q]
    PROVE  ReqsOK'
BY DEF ReqsOK

LEMMA BeginKept ==
    ASSUME ReqsOK, NEW r \in Requests, NEW q \in Request, Knows(q), Begin(r, q)
    PROVE  ReqsOK'
BY ReqKept DEF Begin

LEMMA FinishKept == ASSUME ReqsOK, NEW r \in Requests, Finish(r) PROVE ReqsOK'
BY ReqKept, IdleIsRequest DEF Finish

\* The steps a request takes with what it has.
LEMMA StepKept ==
    ASSUME ReqsOK, NEW r \in Requests, NEW pc \in {"session", "link", "forget", "setGoogle"},
           Step(r, pc),
           pc \in {"session", "forget"} => req[r].user # NULL,
           pc = "link" => req[r].user # NULL /\ req[r].email # NULL,
           pc = "setGoogle" => req[r].user # NULL /\ req[r].google # NULL
    PROVE  ReqsOK'
<1> DEFINE q == [req[r] EXCEPT !.pc = pc]
<1>1. q \in Request
  BY DEF ReqsOK, Request, Steps
<1>2. Knows(q)
  BY DEF ReqsOK, Request, Knows
<1>3. req' = [req EXCEPT ![r] = q]
  BY DEF Step
<1> QED
  BY <1>1, <1>2, <1>3, ReqKept

\* A row is rewritten: nobody comes or goes.
LEMMA RowWritten ==
    ASSUME TypeOK, NEW u \in Users, Exists(u), NEW row \in User, user' = [user EXCEPT ![u] = row]
    PROVE  user' \in [Users -> User \cup {NULL, gone}] /\ Live' = Live
BY AccountsAssumption DEF TypeOK, Live, Exists

LEMMA RowInserted ==
    ASSUME TypeOK, NEW u \in Users, NEW row \in User, Insert(u, row)
    PROVE  user' \in [Users -> User \cup {NULL, gone}] /\ Live' = Live \cup {u}
BY AccountsAssumption DEF TypeOK, Live, Exists, Insert

LEMMA TokensStand ==
    ASSUME TypeOK, ReqsOK', user' \in [Users -> User \cup {NULL, gone}], Live \subseteq Live',
           made' \in [links: Nat, sessions: Nat, edits: Nat],
           proved' \subseteq Users \X Emails, assigned' \subseteq Users,
           UNCHANGED <<now, bound, active, links, sessions, cut, tokens, out, late, forked>>
    PROVE  Sound'
BY DEF TypeOK, Sound, ReqsOK

\* What a proof is remembered by.
LEMMA Remembered ==
    ASSUME TypeOK, NEW u \in Users, NEW e \in Emails, NEW row, Proves(u, e, row)
    PROVE  /\ proved' \subseteq Users \X Emails /\ assigned' \subseteq Users
           /\ UNCHANGED <<cut, tokens, out, late, forked>>
BY DEF Proves, TypeOK

LEMMA OnlyRequests ==
    ASSUME Sound, ReqsOK', UNCHANGED <<now, bound, tables, history>>
    PROVE  Sound'
BY DEF Sound, TypeOK, ReqsOK, tables, history, Live, Exists

LEMMA RowsAre == ASSUME TypeOK, NEW u \in Users, Exists(u) PROVE user[u] \in User
BY DEF TypeOK, Exists

LEMMA NewUserIsUser == TypeOK => NewUser \in User
BY DEF TypeOK, NewUser, User, Optional

\* What a request that was just started has read: it holds no token and follows no link.
Fresh(q) ==
    /\ q.line = 0 /\ q.pc \notin {"spend", "link", "forget", "verify", "adopt"} /\ ~q.signsIn
    /\ q.user # NULL => Exists(q.user)
    /\ q.link = 0 \/ \E l \in links : q.link = l.id
    /\ q.pc = "attach" => user[q.user].email = GoogleEmail[q.google]
    /\ q.pc = "drop" => user[q.user].email = NULL

Starts(r) ==
    \/ \E e \in Emails : Register(r, e)
    \/ \E g \in Googles : LoginWithGoogle(r, g)
    \/ \E t \in Telegrams : LoginWithTelegram(r, t)
    \/ \E u \in Users :
         \/ Login(r, u) \/ ChangePassword(r, u) \/ Resend(r, u)
         \/ \E e \in Emails : AskForEmail(r, u, e)
         \/ \E g \in Googles : LinkGoogle(r, u, g)
         \/ \E t \in Telegrams : LinkTelegram(r, u, t)

LEMMA StartsRead ==
    ASSUME Sound, NEW r \in Requests, Starts(r)
    PROVE  /\ UNCHANGED <<now, bound, tables, history>> /\ req[r] = Idle
           /\ \E q \in Request : Knows(q) /\ Fresh(q) /\ req' = [req EXCEPT ![r] = q]
<1> USE DEF Begin
<1> DEFINE Goal == /\ UNCHANGED <<now, bound, tables, history>> /\ req[r] = Idle
                   /\ \E q \in Request : Knows(q) /\ Fresh(q) /\ req' = [req EXCEPT ![r] = q]
<1>1. ASSUME NEW u \in Live PROVE SignIn(u) \in Request /\ Knows(SignIn(u)) /\ Fresh(SignIn(u))
  BY <1>1, SignInIsRequest DEF SignIn, Idle, Fresh, Live
<1>2. ASSUME NEW e \in Emails, Register(r, e) PROVE Goal
  <2> DEFINE q == [Idle EXCEPT !.pc = "register", !.email = e]
  <2>1. q \in Request /\ Knows(q)
    BY AccountsAssumption DEF Idle, Request, Optional, Steps, Knows
  <2>2. Fresh(q)
    BY <1>2 DEF Register, Idle, Fresh
  <2> QED
    BY <1>2, <2>1, <2>2 DEF Register
<1>3. ASSUME NEW u \in Users, ChangePassword(r, u) PROVE Goal
  <2> DEFINE q == [Idle EXCEPT !.pc = "setPassword", !.user = u]
  <2>1. q \in Request /\ Knows(q)
    BY AccountsAssumption DEF Idle, Request, Optional, Steps, Knows
  <2>2. Fresh(q)
    BY <1>3 DEF ChangePassword, Idle, Fresh
  <2> QED
    BY <1>3, <2>1, <2>2 DEF ChangePassword
<1>4. ASSUME NEW u \in Users, NEW e \in Emails, AskForEmail(r, u, e) PROVE Goal
  <2> DEFINE q == [Idle EXCEPT !.pc = "drop", !.user = u, !.email = e, !.password = TRUE]
  <2>1. q \in Request /\ Knows(q)
    BY AccountsAssumption DEF Idle, Request, Optional, Steps, Knows
  <2>2. Fresh(q)
    BY <1>4 DEF AskForEmail, Idle, Fresh
  <2> QED
    BY <1>4, <2>1, <2>2 DEF AskForEmail
<1>5. ASSUME NEW u \in Users, NEW g \in Googles, LinkGoogle(r, u, g) PROVE Goal
  <2> DEFINE q == [Idle EXCEPT !.pc = "setEmail", !.user = u, !.google = g]
  <2>1. q \in Request /\ Knows(q)
    BY AccountsAssumption DEF Idle, Request, Optional, Steps, Knows
  <2>2. Fresh(q)
    BY <1>5 DEF LinkGoogle, Idle, Fresh
  <2> QED
    BY <1>5, <2>1, <2>2 DEF LinkGoogle
<1>6. ASSUME NEW u \in Users, NEW t \in Telegrams, LinkTelegram(r, u, t) PROVE Goal
  <2> DEFINE q == [Idle EXCEPT !.pc = "setTelegram", !.user = u, !.telegram = t]
  <2>1. q \in Request /\ Knows(q)
    BY AccountsAssumption DEF Idle, Request, Optional, Steps, Knows
  <2>2. Fresh(q)
    BY <1>6 DEF LinkTelegram, Idle, Fresh
  <2> QED
    BY <1>6, <2>1, <2>2 DEF LinkTelegram
<1>7. ASSUME NEW g \in Googles, LoginWithGoogle(r, g) PROVE Goal
  <2>1. CASE \E u \in With("google", g) : Begin(r, SignIn(u))
    BY <1>7, <2>1, <1>1 DEF LoginWithGoogle, With
  <2>2. ASSUME NEW u \in With("email", GoogleEmail[g]),
               Begin(r, [SignIn(u) EXCEPT !.pc = "attach", !.google = g])
        PROVE  Goal
    <3> DEFINE q == [SignIn(u) EXCEPT !.pc = "attach", !.google = g]
    <3>1. q \in Request /\ Knows(q)
      BY AccountsAssumption DEF SignIn, Idle, Request, Optional, Steps, Knows, With, Live
    <3>2. u \in Live /\ user[u]["email"] = GoogleEmail[g]
      BY DEF With
    <3>3. Fresh(q)
      BY <3>2 DEF Fresh, SignIn, Idle, Live
    <3> QED
      BY <1>7, <2>2, <3>1, <3>3 DEF LoginWithGoogle
  <2>3. CASE Begin(r, [Idle EXCEPT !.pc = "createGoogle", !.google = g])
    <3> DEFINE q == [Idle EXCEPT !.pc = "createGoogle", !.google = g]
    <3>1. q \in Request /\ Knows(q)
      BY AccountsAssumption DEF Idle, Request, Optional, Steps, Knows
    <3>2. Fresh(q)
      BY DEF Fresh, Idle
    <3> QED
      BY <1>7, <2>3, <3>1, <3>2 DEF LoginWithGoogle
  <2> QED
    BY <1>7, <2>1, <2>2, <2>3 DEF LoginWithGoogle
<1>8. ASSUME NEW t \in Telegrams, LoginWithTelegram(r, t) PROVE Goal
  <2>1. CASE \E u \in With("telegram", t) : Begin(r, SignIn(u))
    BY <1>8, <2>1, <1>1 DEF LoginWithTelegram, With
  <2>2. CASE Begin(r, [Idle EXCEPT !.pc = "createTelegram", !.telegram = t])
    <3> DEFINE q == [Idle EXCEPT !.pc = "createTelegram", !.telegram = t]
    <3>1. q \in Request /\ Knows(q)
      BY AccountsAssumption DEF Idle, Request, Optional, Steps, Knows
    <3>2. Fresh(q)
      BY DEF Fresh, Idle
    <3> QED
      BY <1>8, <2>2, <3>1, <3>2 DEF LoginWithTelegram
  <2> QED
    BY <1>8, <2>1, <2>2 DEF LoginWithTelegram
<1>9. ASSUME NEW u \in Users, Login(r, u) PROVE Goal
  BY <1>9, <1>1 DEF Login, Live
<1>10. ASSUME NEW u \in Users, Resend(r, u) PROVE Goal
  <2>1. PICK l \in links : Begin(r, [Idle EXCEPT !.pc = Resent, !.user = u, !.email = l.email,
                                             !.password = l.password, !.link = l.id])
    BY <1>10 DEF Resend
  <2> DEFINE q == [Idle EXCEPT !.pc = Resent, !.user = u, !.email = l.email,
                               !.password = l.password, !.link = l.id]
  <2>2. q \in Request /\ Knows(q)
    BY AccountsAssumption DEF Idle, Request, Optional, Steps, Knows, Resent, Sound, TypeOK, Link
  <2>3. Fresh(q)
    BY <1>10 DEF Resend, Fresh, Idle, Resent
  <2> QED
    BY <1>10, <2>1, <2>2, <2>3 DEF Resend
<1> QED
  BY <1>2, <1>3, <1>4, <1>5, <1>6, <1>7, <1>8, <1>9, <1>10 DEF Starts

LEMMA StartsSound == ASSUME Sound, NEW r \in Requests, Starts(r) PROVE Sound'
BY StartsRead, ReqKept, OnlyRequests DEF Sound

Writes(r) ==
    \/ RegisterUser(r) \/ SetPassword(r) \/ WriteConfirmed(r) \/ AttachGoogle(r) \/ SetEmail(r)
    \/ CreateWithGoogle(r) \/ SetGoogleId(r) \/ CreateWithTelegram(r) \/ SetTelegramId(r)

\* The writes of an account's row, and the history of what was proved.
LEMMA WritesSound ==
    ASSUME Sound, NEW r \in Requests,
           Writes(r)
    PROVE  Sound'
<1> USE DEF Sound
<1>q. req[r] \in Request /\ Knows(req[r])
  BY DEF ReqsOK
<1>1. CASE RegisterUser(r)
  <2> DEFINE row == [NewUser EXCEPT !.email = req[r].email, !.password = TRUE]
  <2>1. PICK u \in Users : Insert(u, row) /\ req' = [req EXCEPT ![r].pc = "drop", ![r].user = u,
                                                                ![r].signsIn = TRUE]
    BY <1>1 DEF RegisterUser
  <2>2. row \in User
    BY <1>q, NewUserIsUser DEF User, Request
  <2> DEFINE q == [req[r] EXCEPT !.pc = "drop", !.user = u, !.signsIn = TRUE]
  <2>3. q \in Request /\ Knows(q)
    BY <1>1, <1>q, AccountsAssumption DEF RegisterUser, Request, Optional, Steps, Knows
  <2>4. req' = [req EXCEPT ![r] = q]
    BY <2>1
  <2>5. ReqsOK'
    BY <2>3, <2>4, ReqKept
  <2> QED
    BY <1>1, <2>1, <2>2, <2>5, RowInserted, TokensStand DEF RegisterUser, history, TypeOK
<1>2. CASE SetPassword(r)
  <2> DEFINE u == req[r].user
             row == [user[u] EXCEPT !.password = TRUE]
  <2>1. u \in Users
    BY <1>2, <1>q DEF SetPassword, Request, Optional, Knows
  <2>2. row \in User /\ user' = [user EXCEPT ![u] = row]
    BY <1>2, <2>1, RowsAre DEF SetPassword, User
  <2> QED
    BY <1>2, <2>1, <2>2, FinishKept, RowWritten, TokensStand DEF SetPassword, history, TypeOK
<1>3. CASE WriteConfirmed(r)
  <2> DEFINE u == req[r].user
             row == IF req[r].pc = "verify" THEN Verified(user[u])
                    ELSE Adopted(user[u], req[r].email, req[r].password)
  <2>1. u \in Users /\ u # NULL /\ req[r].email \in Emails /\ Exists(u)
    BY <1>3, <1>q DEF WriteConfirmed, Request, Optional, Knows
  <2>2. user[u] \in User
    BY <2>1, RowsAre
  <2>3. row \in User
    BY <1>q, <2>1, <2>2 DEF User, Request, Optional, Verified, Adopted
  <2>4. user' = [user EXCEPT ![u] = row] /\ Proves(u, req[r].email, row)
    BY <1>3 DEF WriteConfirmed
  <2> HIDE DEF row
  <2> QED
    BY <1>3, <2>1, <2>3, <2>4, Remembered, StepKept, RowWritten, TokensStand DEF WriteConfirmed, TypeOK
<1>4. CASE AttachGoogle(r)
  <2> DEFINE u == req[r].user
             row == Verified([user[u] EXCEPT !.google = req[r].google])
  <2>1. u \in Users /\ req[r].google \in Googles /\ Exists(u)
    BY <1>4, <1>q DEF AttachGoogle, Request, Optional, Knows
  <2>2. user[u] \in User
    BY <2>1, RowsAre
  <2>3. row \in User
    BY <2>1, <2>2 DEF User, Optional, Verified
  <2>4. user' = [user EXCEPT ![u] = row] /\ Proves(u, GoogleEmail[req[r].google], row)
    BY <1>4 DEF AttachGoogle
  <2>5. u # NULL /\ GoogleEmail[req[r].google] \in Emails
    BY <2>1, <1>q, <1>4, AccountsAssumption DEF Knows, AttachGoogle
  <2> HIDE DEF row
  <2> QED
    BY <1>4, <2>1, <2>3, <2>4, <2>5, Remembered, StepKept, RowWritten, TokensStand DEF AttachGoogle, TypeOK
<1>5. CASE CreateWithGoogle(r)
  <2> DEFINE g == req[r].google
             row == [NewUser EXCEPT !.email = GoogleEmail[g], !.google = g, !.verified = TRUE]
  <2>1. PICK u \in Users : Insert(u, row) /\ req' = [req EXCEPT ![r] = SignIn(u)]
                            /\ Proves(u, GoogleEmail[g], row)
    BY <1>5 DEF CreateWithGoogle
  <2>2. g \in Googles
    BY <1>5, <1>q DEF CreateWithGoogle, Request, Optional, Knows
  <2>3. row \in User
    BY <2>2, NewUserIsUser, AccountsAssumption DEF User, Optional
  <2>4. ReqsOK'
    BY <2>1, ReqKept, SignInIsRequest
  <2>5. GoogleEmail[g] \in Emails
    BY <2>2, AccountsAssumption
  <2> HIDE DEF row
  <2> QED
    BY <1>5, <2>1, <2>3, <2>4, <2>5, Remembered, RowInserted, TokensStand DEF CreateWithGoogle, TypeOK
<1>6. CASE SetEmail(r)
  <2> DEFINE u == req[r].user
             e == GoogleEmail[req[r].google]
             row == Verified([user[u] EXCEPT !.email = e])
  <2>1. u \in Users /\ req[r].google \in Googles /\ Exists(u)
    BY <1>6, <1>q DEF SetEmail, Request, Optional, Knows
  <2>2. user[u] \in User /\ e \in Emails
    BY <2>1, RowsAre, AccountsAssumption
  <2>3. row \in User
    BY <2>1, <2>2 DEF User, Optional, Verified
  <2>4. user' = [user EXCEPT ![u] = row] /\ Proves(u, e, row)
    BY <1>6 DEF SetEmail
  <2>5. u # NULL /\ req[r].google # NULL
    BY <1>q, <1>6 DEF Knows, SetEmail
  <2> HIDE DEF row
  <2> QED
    BY <1>6, <2>1, <2>2, <2>3, <2>4, <2>5, Remembered, StepKept, RowWritten, TokensStand DEF SetEmail, TypeOK
<1>7. CASE SetGoogleId(r)
  <2> DEFINE u == req[r].user
             row == [user[u] EXCEPT !.google = req[r].google]
  <2>1. u \in Users /\ req[r].google \in Googles /\ Exists(u)
    BY <1>7, <1>q DEF SetGoogleId, Request, Optional, Knows
  <2>2. row \in User /\ user' = [user EXCEPT ![u] = row]
    BY <1>7, <2>1, RowsAre DEF SetGoogleId, User, Optional
  <2> QED
    BY <1>7, <2>1, <2>2, FinishKept, RowWritten, TokensStand DEF SetGoogleId, history, TypeOK
<1>8. CASE CreateWithTelegram(r)
  <2> DEFINE row == [NewUser EXCEPT !.telegram = req[r].telegram]
  <2>1. PICK u \in Users : Insert(u, row) /\ req' = [req EXCEPT ![r] = SignIn(u)]
    BY <1>8 DEF CreateWithTelegram
  <2>2. row \in User
    BY <1>q, NewUserIsUser DEF User, Request
  <2>3. ReqsOK'
    BY <2>1, ReqKept, SignInIsRequest
  <2> QED
    BY <1>8, <2>1, <2>2, <2>3, RowInserted, TokensStand DEF CreateWithTelegram, history, TypeOK
<1>9. CASE SetTelegramId(r)
  <2> DEFINE u == req[r].user
             row == [user[u] EXCEPT !.telegram = req[r].telegram]
  <2>1. u \in Users /\ Exists(u)
    BY <1>9, <1>q DEF SetTelegramId, Request, Optional, Knows
  <2>2. row \in User /\ user' = [user EXCEPT ![u] = row]
    BY <1>9, <2>1, <1>q, RowsAre DEF SetTelegramId, User, Request
  <2> QED
    BY <1>9, <2>1, <2>2, FinishKept, RowWritten, TokensStand DEF SetTelegramId, history, TypeOK
<1> QED
  BY <1>1, <1>2, <1>3, <1>4, <1>5, <1>6, <1>7, <1>8, <1>9 DEF Writes

Tokens(r) ==
    \/ IssueTokens(r) \/ Spend(r) \/ DropLinks(r) \/ CreateLink(r) \/ Renew(r)
    \/ ForgetLink(r) \/ Fails(r)
    \/ \E s \in sessions : Refresh(r, s)
    \/ \E l \in links : Confirm(r, l)

\* The writes of links and sessions.
LEMMA TokensSound ==
    ASSUME Sound, NEW r \in Requests,
           Tokens(r)
    PROVE  Sound'
<1> USE DEF Sound
<1>q. req[r] \in Request /\ Knows(req[r])
  BY DEF ReqsOK
<1>1. CASE IssueTokens(r)
  <2> DEFINE u == req[r].user
             id == made.sessions + 1
             session == [id |-> id, user |-> u, expires |-> now + SessionTTL,
                         line |-> IF req[r].line = 0 THEN id ELSE req[r].line]
  <2>1. u \in Users /\ u \in Live /\ made' \in [links: Nat, sessions: Nat, edits: Nat]
    BY <1>1, <1>q DEF IssueTokens, Request, Optional, Knows, Live, TypeOK
  <2>2. session \in Session
    BY <1>q, <2>1, AccountsAssumption DEF Request, Session, TypeOK
  <2>3. sessions' \subseteq Session /\ \A s \in sessions' : s.user \in Live
    BY <1>1, <2>1, <2>2 DEF IssueTokens, TypeOK
  <2>4. tokens' \subseteq Nat \X Nat
    BY <1>1, <2>2 DEF IssueTokens, TypeOK, Session
  <2> QED
    BY <1>1, <2>1, <2>3, <2>4, FinishKept DEF IssueTokens, history, TypeOK, Live, Exists, ReqsOK
<1>2. CASE Spend(r)
  <2>1. sessions' \subseteq sessions
    BY <1>2 DEF Spend
  <2>2. req[r].user # NULL
    BY <1>2, <1>q DEF Spend, Knows
  <2>3. ReqsOK'
    BY <1>2, <2>2, StepKept DEF Spend
  <2> QED
    BY <1>2, <2>1, <2>3 DEF Spend, history, TypeOK, Live, Exists, ReqsOK
<1>3. CASE DropLinks(r)
  <2>1. links' \subseteq links
    BY <1>3 DEF DropLinks
  <2>2. req[r].user # NULL /\ req[r].email # NULL
    BY <1>3, <1>q DEF DropLinks, Knows
  <2>3. ReqsOK'
    BY <1>3, <2>2, StepKept DEF DropLinks
  <2> QED
    BY <1>3, <2>1, <2>3 DEF DropLinks, history, TypeOK, Live, Exists, ReqsOK
<1>4. CASE CreateLink(r)
  <2> DEFINE id == made.links + 1
             link == [id |-> id, user |-> req[r].user, email |-> req[r].email,
                      password |-> req[r].password, expires |-> now + LinkTTL]
  <2>1. req[r].user \in Users /\ req[r].user \in Live /\ made' \in [links: Nat, sessions: Nat, edits: Nat]
    BY <1>4, <1>q DEF CreateLink, Request, Optional, Knows, Live, TypeOK
  <2>2. link \in Link
    BY <1>4, <1>q, <2>1, AccountsAssumption DEF CreateLink, Knows, Request, Optional, Link, TypeOK
  <2>3. links' \subseteq Link /\ \A l \in links' : l.user \in Live
    BY <1>4, <2>1, <2>2 DEF CreateLink, TypeOK
  <2>4. ReqsOK'
    BY <1>4, <2>1, FinishKept, ReqKept, SignInIsRequest DEF CreateLink
  <2> QED
    BY <1>4, <2>1, <2>3, <2>4 DEF CreateLink, history, TypeOK, Live, Exists, ReqsOK
<1>5. CASE Renew(r)
  <2>1. ASSUME NEW l \in links
        PROVE  [l EXCEPT !.expires = IF l.id = req[r].link THEN now + LinkTTL ELSE @] \in Link
    BY AccountsAssumption DEF TypeOK, Link
  <2>2. links' \subseteq Link /\ \A l \in links' : l.user \in Live
    BY <1>5, <2>1 DEF Renew, TypeOK, Link
  <2> QED
    BY <1>5, <2>2, FinishKept DEF Renew, history, TypeOK, Live, Exists, ReqsOK
<1>6. CASE ForgetLink(r)
  <2>1. links' \subseteq links
    BY <1>6 DEF ForgetLink
  <2> QED
    BY <1>6, <2>1, FinishKept DEF ForgetLink, history, TypeOK, Live, Exists, ReqsOK
<1>7. CASE Fails(r)
  BY <1>7, FinishKept, OnlyRequests DEF Fails, Refuse
<1>8. ASSUME NEW s \in sessions, Refresh(r, s) PROVE Sound'
  <2> DEFINE q == [SignIn(s.user) EXCEPT !.pc = "spend", !.token = s.id, !.line = s.line]
  <2>1. s.user \in Users /\ s.id \in Nat /\ s.line \in Nat
    BY DEF TypeOK, Session
  <2>2. q \in Request /\ Knows(q)
    BY <2>1, AccountsAssumption DEF SignIn, Idle, Request, Optional, Steps, Knows
  <2>3. ReqsOK' /\ sessions' \subseteq sessions /\ forked' \subseteq Nat
    BY <1>8, <2>1, <2>2, BeginKept DEF Refresh, TypeOK, ReqsOK
  <2> QED
    BY <1>8, <2>3 DEF Refresh, TypeOK, Live, Exists, ReqsOK
<1>9. ASSUME NEW l \in links, Confirm(r, l) PROVE Sound'
  <2> DEFINE pc == IF Expired(l) THEN "forget" ELSE AfterReading(l.user, l)
             q == [Idle EXCEPT !.pc = pc, !.user = l.user, !.email = l.email,
                               !.password = l.password, !.link = l.id]
  <2>1. l \in Link
    BY DEF TypeOK
  <2>2. pc \in {"forget", "verify", "adopt"}
    BY DEF AfterReading
  <2>3. q \in Request /\ Knows(q)
    BY <2>1, <2>2, AccountsAssumption DEF Idle, Request, Optional, Steps, Knows, Link
  <2>4. ReqsOK' /\ cut' \subseteq Users
    BY <1>9, <2>1, <2>3, BeginKept DEF Confirm, TypeOK, Link
  <2> QED
    BY <1>9, <2>4 DEF Confirm, tables, TypeOK, Live, Exists, ReqsOK
<1> QED
  BY <1>1, <1>2, <1>3, <1>4, <1>5, <1>6, <1>7, <1>8, <1>9 DEF Tokens

Administers ==
    \E u \in Users : RemoveUser(u) \/ \E e \in Optional(Emails) : CreateUser(u, e) \/ UpdateUser(u, e)

LEMMA EditsKept == TypeOK /\ Edits => made' \in [links: Nat, sessions: Nat, edits: Nat]
BY DEF TypeOK, Edits

LEMMA AdministersSound ==
    ASSUME Sound, Administers
    PROVE  Sound'
<1> USE DEF Sound
<1>1. ASSUME NEW u \in Users, NEW e \in Optional(Emails), CreateUser(u, e) PROVE Sound'
  <2> DEFINE row == [NewUser EXCEPT !.email = e]
  <2>1. row \in User /\ Insert(u, row)
    BY <1>1, NewUserIsUser DEF CreateUser, User
  <2>2. ReqsOK' /\ made' \in [links: Nat, sessions: Nat, edits: Nat]
    BY <1>1, EditsKept DEF CreateUser, ReqsOK
  <2>3. /\ proved' \subseteq Users \X Emails /\ assigned' \subseteq Users
        /\ UNCHANGED <<now, bound, active, links, sessions, cut, tokens, out, late, forked>>
    BY <1>1 DEF CreateUser, Assigns, history, TypeOK
  <2> HIDE DEF row
  <2> QED
    BY <2>1, <2>2, <2>3, RowInserted, TokensStand
<1>2. ASSUME NEW u \in Users, NEW e \in Optional(Emails), UpdateUser(u, e) PROVE Sound'
  <2> DEFINE row == [user[u] EXCEPT !.email = e]
  <2>1. Exists(u) /\ row \in User /\ user' = [user EXCEPT ![u] = row]
    BY <1>2, RowsAre DEF UpdateUser, User
  <2>2. ReqsOK' /\ made' \in [links: Nat, sessions: Nat, edits: Nat]
    BY <1>2, EditsKept DEF UpdateUser, ReqsOK
  <2>3. /\ proved' \subseteq Users \X Emails /\ assigned' \subseteq Users
        /\ UNCHANGED <<now, bound, active, links, sessions, cut, tokens, out, late, forked>>
    BY <1>2 DEF UpdateUser, Assigns, TypeOK
  <2> HIDE DEF row
  <2> QED
    BY <2>1, <2>2, <2>3, RowWritten, TokensStand
<1>3. ASSUME NEW u \in Users, RemoveUser(u) PROVE Sound'
  <2>1. /\ user' = [user EXCEPT ![u] = gone] /\ active' = active \ {u}
        /\ links' = {l \in links : l.user # u} /\ sessions' = {s \in sessions : s.user # u}
        /\ UNCHANGED <<now, bound, req, history>>
    BY <1>3 DEF RemoveUser, Cascaded
  <2>2. Live' = Live \ {u} /\ user' \in [Users -> User \cup {NULL, gone}]
    BY <2>1 DEF Live, Exists, TypeOK
  <2>3. made' \in [links: Nat, sessions: Nat, edits: Nat]
    BY <1>3, EditsKept DEF RemoveUser
  <2> QED
    BY <2>1, <2>2, <2>3 DEF history, TypeOK, ReqsOK
<1> QED
  BY <1>1, <1>2, <1>3 DEF Administers

Others ==
    \/ \E token \in tokens : Logout(token[1], token[2])
    \/ \E u \in Users : Use(u)
    \/ Purge \/ Tick \/ Crash

LEMMA OthersSound ==
    ASSUME Sound, Others
    PROVE  Sound'
<1> USE DEF Sound
<1>1. ASSUME NEW id, NEW line, Logout(id, line) PROVE Sound'
  <2>1. line \in Nat
    BY <1>1 DEF Logout, TypeOK
  <2>2. late' \subseteq out'
    BY <1>1 DEF Logout, TypeOK
  <2> QED
    BY <1>1, <2>1, <2>2 DEF Logout, TypeOK, Live, Exists, ReqsOK
<1>2. ASSUME NEW u \in Users, Use(u) PROVE Sound'
  BY <1>2 DEF Use, history, TypeOK, Live, Exists, ReqsOK
<1>3. CASE Purge
  <2> DEFINE removed == {u \in Users : Abandoned(u)}
  <2>1. user' = [u \in Users |-> IF u \in removed THEN gone ELSE user[u]] /\ Cascaded(removed)
        /\ UNCHANGED <<now, bound, active, made, req, history>>
    BY <1>3 DEF Purge
  <2>2. Live' = Live \ removed
    BY <2>1 DEF Live, Exists
  <2>3. active \cap removed = {}
    BY DEF Abandoned
  <2>4. user' \in [Users -> User \cup {NULL, gone}]
    BY <2>1 DEF TypeOK
  <2>5. links' = {l \in links : l.user \notin removed} /\ sessions' = {s \in sessions : s.user \notin removed}
    BY <2>1 DEF Cascaded
  <2> HIDE DEF removed
  <2> QED
    BY <2>1, <2>2, <2>3, <2>4, <2>5 DEF history, TypeOK, ReqsOK
<1>4. CASE Tick
  BY <1>4 DEF Tick, tables, history, TypeOK, Live, Exists, ReqsOK
<1>5. CASE Crash
  <2>1. ReqsOK'
    BY <1>5, IdleIsRequest DEF Crash, ReqsOK
  <2>2. cut' \subseteq Users
    BY <1>5 DEF Crash, TypeOK, ReqsOK, Knows, Request, Optional
  <2> QED
    BY <1>5, <2>1, <2>2 DEF Crash, tables, TypeOK, Live, Exists, ReqsOK
<1> QED
  BY <1>1, <1>2, <1>3, <1>4, <1>5 DEF Others

LEMMA NextIs ==
    Next => \/ \E r \in Requests : Starts(r) \/ Writes(r) \/ Tokens(r)
            \/ Administers \/ Others
BY DEF Next, Starts, Writes, Tokens, Administers, Others

LEMMA InitSound == Init => Sound
BY IdleIsRequest DEF Init, Sound, TypeOK, ReqsOK, Live, Exists

LEMMA StuttersSound == Sound /\ UNCHANGED vars => Sound'
BY DEF vars, tables, history, Sound, TypeOK, ReqsOK, Live, Exists

LEMMA NextSound == Sound /\ [Next]_vars => Sound'
BY NextIs, StartsSound, WritesSound, TokensSound, AdministersSound, OthersSound, StuttersSound

\* The types of the columns, that tokens and links go with their user, and what a request keeps of
\* what it read (auth.service.ts, users.service.ts, schema.prisma).
THEOREM TypeCorrect == Spec => []TypeOK
<1>1. Spec => []Sound
  BY InitSound, NextSound, PTL DEF Spec
<1>2. Sound => TypeOK
  BY DEF Sound
<1> QED
  BY <1>1, <1>2, PTL

(***************************************************************************)
(* Sign-ins that were ended stay ended.  A line of refresh tokens has one  *)
(* bearer: its token, or the request that exchanged it and will issue the  *)
(* next, or both, while that request has not yet deleted the token.        *)
(***************************************************************************)

\* Lines are numbered like tokens, so that a new token's line is new.
LinesKnown ==
    /\ \A token \in tokens : token[1] <= made.sessions /\ token[2] # 0 /\ token[2] <= made.sessions
    /\ \A s \in sessions : <<s.id, s.line>> \in tokens
    /\ \A r \in Requests : req[r].line # 0 => <<req[r].token, req[r].line>> \in tokens
    /\ \A L \in out : L # 0 /\ L <= made.sessions

\* What bears a line bears the newest token of it.
Newest ==
    \A token \in tokens :
        /\ \A s \in sessions : s.line = token[2] => token[1] <= s.id \/ token[2] \in forked
        /\ \A r \in Requests : req[r].line = token[2] => token[1] <= req[r].token \/ token[2] \in forked

HoldsLine(r) == req[r].line # 0

LinesHeld ==
    \A r \in Requests :
        /\ HoldsLine(r) => req[r].pc \in {"spend", "session"}
        /\ req[r].pc = "spend" => HoldsLine(r)

OneBearer ==
    /\ \A s, t \in sessions : s.line = t.line => s = t \/ s.line \in forked
    /\ \A r, q \in Requests :
           HoldsLine(r) /\ req[r].line = req[q].line => r = q \/ req[r].line \in forked
    /\ \A s \in sessions, r \in Requests :
           s.line = req[r].line =>
               s.line \in forked \/ (req[r].pc = "spend" /\ req[r].token = s.id)

Ended ==
    \A L \in out \ (late \cup forked) :
        /\ \A s \in sessions : s.line # L
        /\ \A r \in Requests : req[r].line # L

Lines == LinesKnown /\ Newest /\ LinesHeld /\ OneBearer /\ Ended

\* Steps after which no more is left of a line than before.
Shrinks ==
    /\ sessions' \subseteq sessions
    /\ made'.sessions = made.sessions /\ UNCHANGED <<tokens, out, late, forked>>
    /\ \A r \in Requests : \/ req'[r] = req[r]
                           \/ req'[r].line = 0 /\ req'[r].pc # "spend"

LEMMA LinesShrink == Sound /\ Lines /\ Shrinks => Lines'
<1> SUFFICES ASSUME Sound, Lines, Shrinks PROVE Lines'
  OBVIOUS
<1> USE DEF Lines, Shrinks
<1>1. LinesKnown' /\ Newest'
  BY DEF LinesKnown, Newest, Sound, TypeOK
<1>2. LinesHeld'
  BY DEF LinesHeld, HoldsLine
<1>3. OneBearer'
  BY DEF OneBearer, HoldsLine, LinesKnown
<1>4. Ended'
  BY DEF Ended, LinesKnown
<1> QED
  BY <1>1, <1>2, <1>3, <1>4

LEMMA IssueTokensLines ==
    ASSUME Sound, Sound', Lines, NEW r \in Requests, IssueTokens(r) PROVE Lines'
<1> USE DEF Lines
<1> DEFINE id == made.sessions + 1
           L == IF req[r].line = 0 THEN id ELSE req[r].line
           session == [id |-> id, user |-> req[r].user, expires |-> now + SessionTTL, line |-> L]
<1>1. /\ made.sessions \in Nat /\ made'.sessions = id
      /\ req[r].pc = "session" /\ req[r].line \in Nat
      /\ \A q \in Requests : req'[q] = IF q = r THEN Idle ELSE req[q]
      /\ tokens' = tokens \cup {<<id, L>>}
      /\ UNCHANGED <<out, late, forked>>
  BY DEF IssueTokens, Finish, Sound, TypeOK, Request
<1>2. sessions' \subseteq sessions \cup {session}
  BY DEF IssueTokens
<1>3. /\ \A q \in Requests : req[q].line \in Nat
      /\ \A s \in sessions : s.line \in Nat
      /\ \A K \in out : K \in Nat
      /\ \A token \in tokens : token[1] \in Nat /\ token[2] \in Nat
  BY DEF Sound, TypeOK, Request, Session
<1>k. /\ \A q \in Requests : req[q].line <= made.sessions
      /\ \A s \in sessions : s.line # 0 /\ s.line <= made.sessions
  <2>1. ASSUME NEW a, NEW b, <<a, b>> \in tokens PROVE b # 0 /\ b <= made.sessions
    <3>1. <<a, b>>[2] # 0 /\ <<a, b>>[2] <= made.sessions
      BY <2>1 DEF LinesKnown
    <3> QED
      BY <3>1
  <2>2. ASSUME NEW q \in Requests PROVE req[q].line <= made.sessions
    <3>1. CASE req[q].line = 0
      BY <1>1, <3>1
    <3>2. CASE req[q].line # 0
      BY <2>1, <3>2 DEF LinesKnown
    <3> QED
      BY <3>1, <3>2
  <2>3. \A s \in sessions : s.line # 0 /\ s.line <= made.sessions
    BY <2>1 DEF LinesKnown
  <2> QED
    BY <2>2, <2>3
<1>l. L \in Nat /\ L # 0 /\ L <= id
  BY <1>1, <1>3, <1>k
<1>4. LinesKnown'
  <2>1. session.id = id /\ session.line = L
    OBVIOUS
  <2> HIDE DEF session, L
  <2> QED
    BY <1>1, <1>2, <1>3, <1>l, <2>1 DEF LinesKnown, Idle
<1>5. LinesHeld'
  BY <1>1 DEF LinesHeld, HoldsLine, Idle
<1>6. L \in forked \/ ((\A s \in sessions : s.line # L)
                     /\ \A q \in Requests \ {r} : req[q].line # L)
  BY <1>1, <1>3, <1>k DEF OneBearer, HoldsLine
<1>7. L # 0 /\ L \notin out \ (late \cup forked)
  BY <1>1, <1>3, <1>l DEF LinesKnown, Ended
<1>n. Newest'
  <2>1. session.id = id /\ session.line = L /\ \A token \in tokens : token[1] <= id
    BY <1>1, <1>3 DEF LinesKnown
  <2>2. \A q \in Requests : req'[q].line # 0 => q # r /\ req'[q] = req[q]
    BY <1>1 DEF Idle
  <2>3. \A token \in tokens' : token \in tokens \/ (token[1] = id /\ token[2] = L)
    BY <1>1
  <2> HIDE DEF session, L
  <2> SUFFICES ASSUME NEW token \in tokens'
               PROVE  /\ \A s \in sessions' : s.line = token[2] => token[1] <= s.id \/ token[2] \in forked
                      /\ \A q \in Requests : req'[q].line = token[2] =>
                             token[1] <= req'[q].token \/ token[2] \in forked
    BY <1>1 DEF Newest
  <2>4. CASE token \in tokens
    <3>1. token[2] # 0
      BY <2>4 DEF LinesKnown
    <3> QED
      BY <1>2, <2>1, <2>2, <2>4, <3>1 DEF Newest
  <2>5. CASE token[1] = id /\ token[2] = L
    BY <1>1, <1>2, <1>6, <1>7, <2>1, <2>2, <2>5
  <2> QED
    BY <2>3, <2>4, <2>5
<1>8. OneBearer'
  <2>1. session.line = L
    OBVIOUS
  <2>2. \A q \in Requests : req'[q].line # 0 => q # r /\ req'[q] = req[q]
    BY <1>1 DEF Idle
  <2>3. \A s, t \in sessions' : s.line = t.line => s = t \/ s.line \in forked
    <3> HIDE DEF session, L
    <3> QED
      BY <1>2, <1>6, <2>1 DEF OneBearer
  <2>4. \A p, q \in Requests :
            req'[p].line # 0 /\ req'[p].line = req'[q].line => p = q \/ req'[p].line \in forked
    BY <2>2 DEF OneBearer, HoldsLine
  <2>5. ASSUME NEW s \in sessions', NEW q \in Requests, s.line = req'[q].line
        PROVE  s.line \in forked \/ (req'[q].pc = "spend" /\ req'[q].token = s.id)
    <3>1. s.line # 0 /\ q # r /\ req'[q] = req[q]
      BY <1>2, <1>k, <1>7, <2>1, <2>2, <2>5
    <3> HIDE DEF session, L
    <3> QED
      BY <1>2, <1>6, <2>1, <2>5, <3>1 DEF OneBearer
  <2> QED
    BY <1>1, <2>3, <2>4, <2>5 DEF OneBearer, HoldsLine
<1>9. Ended'
  <2>1. \A K \in out : K # 0
    BY DEF LinesKnown
  <2> QED
    BY <1>1, <1>2, <1>7, <2>1 DEF Ended, Idle
<1> QED
  BY <1>4, <1>5, <1>8, <1>9, <1>n

LEMMA SpendLines ==
    ASSUME Sound, Sound', Lines, NEW r \in Requests, Spend(r) PROVE Lines'
<1> USE DEF Lines
<1>1. /\ req[r].pc = "spend" /\ req'[r].pc = "session" /\ req'[r].line = req[r].line
      /\ \A q \in Requests \ {r} : req'[q] = req[q]
      /\ \A q \in Requests : req'[q].line = req[q].line /\ req'[q].token = req[q].token
      /\ UNCHANGED <<made, tokens, out, late, forked>>
  BY DEF Spend, Step, history, Sound, ReqsOK, Request
<1>2. sessions' = {s \in sessions : s.id # req[r].token}
  BY DEF Spend, Spends
<1>3. LinesKnown' /\ Newest' /\ LinesHeld'
  BY <1>1, <1>2 DEF LinesKnown, Newest, LinesHeld, HoldsLine
<1>4. OneBearer'
  BY <1>1, <1>2 DEF OneBearer, HoldsLine, LinesHeld
<1>5. Ended'
  BY <1>1, <1>2 DEF Ended
<1> QED
  BY <1>3, <1>4, <1>5

LEMMA RefreshLines ==
    ASSUME Sound, Sound', Lines, NEW r \in Requests, NEW s \in sessions, Refresh(r, s) PROVE Lines'
<1> USE DEF Lines
<1>1. CASE Expired(s)
  BY <1>1, LinesShrink DEF Refresh, Shrinks
<1>2. CASE ~Expired(s)
  <2> DEFINE q == [SignIn(s.user) EXCEPT !.pc = "spend", !.token = s.id, !.line = s.line]
  <2>1. q.pc = "spend" /\ q.token = s.id /\ q.line = s.line
    BY DEF SignIn, Idle
  <2>2. /\ \A p \in Requests : req'[p] = IF p = r THEN q ELSE req[p]
        /\ req[r] = Idle
        /\ forked' = IF Holding(s.id) = {} THEN forked ELSE forked \cup {s.line}
        /\ UNCHANGED <<sessions, made, tokens, out, late>>
    BY <1>2 DEF Refresh, Begin, Sound, ReqsOK
  <2> HIDE DEF q
  <2>3. LinesKnown' /\ Newest'
    BY <2>1, <2>2 DEF LinesKnown, Newest
  <2>4. LinesHeld'
    BY <2>1, <2>2 DEF LinesHeld, HoldsLine, LinesKnown
  <2>5. s.line \in forked' \/ \A p \in Requests : req[p].line # s.line
    BY <2>2 DEF OneBearer, Holding
  <2>6. forked \subseteq forked'
    BY <2>2
  <2>7. OneBearer'
    BY <2>1, <2>2, <2>5, <2>6 DEF OneBearer, HoldsLine
  <2>8. Ended'
    BY <2>1, <2>2, <2>6 DEF Ended
  <2> QED
    BY <2>3, <2>4, <2>7, <2>8
<1> QED
  BY <1>1, <1>2

LEMMA LogoutLines ==
    ASSUME Sound, Sound', Lines, NEW id, NEW line, Logout(id, line) PROVE Lines'
<1> USE DEF Lines
<1>1. /\ sessions' = {s \in sessions : s.id # id} /\ out' = out \cup {line}
      /\ late' = IF Superseded(id, line) THEN late \cup ({line} \ out) ELSE late \ {line}
      /\ <<id, line>> \in tokens
      /\ UNCHANGED <<made, req, tokens, forked>>
  BY DEF Logout
<1>2. line # 0 /\ line <= made.sessions
  <2>1. <<id, line>>[2] # 0 /\ <<id, line>>[2] <= made.sessions
    BY <1>1 DEF LinesKnown
  <2> QED
    BY <2>1
<1>3. LinesKnown' /\ Newest' /\ LinesHeld'
  BY <1>1, <1>2 DEF LinesKnown, Newest, LinesHeld, HoldsLine
<1>4. OneBearer'
  BY <1>1 DEF OneBearer, HoldsLine
<1>5. ASSUME ~Superseded(id, line), line \notin forked
      PROVE  (\A s \in sessions' : s.line # line) /\ \A r \in Requests : req[r].line # line
  <2>0. id \in Nat /\ \A a, b : <<a, b>> \in tokens => a \in Nat
    BY <1>1 DEF Sound, TypeOK
  <2>1. \A a : <<a, line>> \in tokens => ~(a > id)
    BY <1>5 DEF Superseded
  <2>2. ASSUME NEW s \in sessions', s.line = line PROVE FALSE
    <3>1. s \in sessions /\ s.id # id /\ <<s.id, line>> \in tokens
      BY <1>1, <2>2 DEF LinesKnown
    <3>2. <<id, line>>[1] <= s.id
      BY <1>1, <1>5, <2>2, <3>1 DEF Newest
    <3> QED
      BY <2>0, <2>1, <3>1, <3>2
  <2>3. ASSUME NEW r \in Requests, req[r].line = line PROVE FALSE
    <3>1. <<req[r].token, line>> \in tokens /\ req[r].pc \in {"spend", "session"}
      BY <1>2, <2>3 DEF LinesKnown, LinesHeld, HoldsLine
    <3>2. <<id, line>>[1] <= req[r].token
      BY <1>1, <1>5, <2>3 DEF Newest
    <3>3. req[r].token = id
      BY <2>0, <2>1, <3>1, <3>2
    <3> QED
      BY <1>5, <3>1, <3>3 DEF Superseded, Holding
  <2> QED
    BY <2>2, <2>3
<1>6. Ended'
  <2> SUFFICES ASSUME NEW L \in out' \ (late' \cup forked')
               PROVE  (\A s \in sessions' : s.line # L) /\ \A r \in Requests : req'[r].line # L
    BY DEF Ended
  <2>1. CASE L \in out \ (late \cup forked)
    BY <1>1, <2>1 DEF Ended
  <2>2. CASE L \notin out \ (late \cup forked)
    BY <1>1, <1>5, <2>2
  <2> QED
    BY <2>1, <2>2
<1> QED
  BY <1>3, <1>4, <1>6

LEMMA SignInHoldsNone == \A u : SignIn(u).line = 0 /\ SignIn(u).pc = "session"
BY DEF SignIn, Idle

LEMMA NextLines == ASSUME Sound, Lines, [Next]_vars PROVE Lines'
<1>s. Sound' /\ ReqsOK'
  BY NextSound DEF Sound
<1>1. ASSUME NEW r \in Requests, Starts(r) PROVE Lines'
  BY <1>1, StartsRead, LinesShrink DEF Shrinks, tables, history, Fresh, Sound, ReqsOK
<1>2. ASSUME NEW r \in Requests, Writes(r) PROVE Lines'
  <2>1. UNCHANGED <<sessions, made, tokens, out, late, forked>>
    BY <1>2 DEF Writes, RegisterUser, SetPassword, WriteConfirmed, AttachGoogle, SetEmail, Proves,
       CreateWithGoogle, SetGoogleId, CreateWithTelegram, SetTelegramId, history
  <2>2. req[r].pc \notin {"spend", "session"} /\ req[r].line = 0
    BY <1>2 DEF Writes, RegisterUser, SetPassword, WriteConfirmed, AttachGoogle, SetEmail,
       CreateWithGoogle, SetGoogleId, CreateWithTelegram, SetTelegramId, Lines, LinesHeld, HoldsLine
  <2>3. \A q \in Requests \ {r} : req'[q] = req[q]
    BY <1>2 DEF Writes, RegisterUser, SetPassword, WriteConfirmed, AttachGoogle, SetEmail,
       CreateWithGoogle, SetGoogleId, CreateWithTelegram, SetTelegramId, Step, Finish, Sound, ReqsOK
  <2>4. req[r] \in Request /\ Idle.line = 0 /\ Idle.pc = "idle"
    BY DEF Sound, ReqsOK, Idle
  <2>5. CASE SetPassword(r) \/ SetGoogleId(r) \/ SetTelegramId(r)
    <3>1. req'[r] = Idle
      BY <2>5 DEF SetPassword, SetGoogleId, SetTelegramId, Finish, Sound, ReqsOK
    <3> QED
      BY <2>1, <2>3, <2>4, <3>1, LinesShrink DEF Shrinks
  <2>6. CASE CreateWithGoogle(r) \/ CreateWithTelegram(r)
    <3>1. PICK u \in Users : req'[r] = SignIn(u)
      BY <2>6 DEF CreateWithGoogle, CreateWithTelegram, Sound, ReqsOK
    <3> QED
      BY <2>1, <2>3, <3>1, SignInHoldsNone, LinesShrink DEF Shrinks
  <2>7. CASE WriteConfirmed(r) \/ AttachGoogle(r) \/ SetEmail(r)
    <3>1. req'[r].line = 0 /\ req'[r].pc # "spend"
      BY <2>2, <2>4, <2>7 DEF WriteConfirmed, AttachGoogle, SetEmail, Step, Sound, ReqsOK, Request
    <3> QED
      BY <2>1, <2>3, <3>1, LinesShrink DEF Shrinks
  <2>8. CASE RegisterUser(r)
    <3>1. req'[r].line = 0 /\ req'[r].pc # "spend"
      BY <2>2, <2>4, <2>8 DEF RegisterUser, Sound, ReqsOK, Request
    <3> QED
      BY <2>1, <2>3, <3>1, LinesShrink DEF Shrinks
  <2> QED
    BY <1>2, <2>5, <2>6, <2>7, <2>8 DEF Writes
<1>3. ASSUME NEW r \in Requests, Tokens(r) PROVE Lines'
  <2>1. CASE DropLinks(r) \/ CreateLink(r) \/ Renew(r) \/ ForgetLink(r) \/ Fails(r)
    <3>1. UNCHANGED <<sessions, tokens, out, late, forked>> /\ made'.sessions = made.sessions
      BY <2>1 DEF DropLinks, CreateLink, Renew, ForgetLink, Fails, Refuse, tables, history, Sound, TypeOK
    <3>2. \A q \in Requests \ {r} : req'[q] = req[q]
      BY <2>1 DEF DropLinks, CreateLink, Renew, ForgetLink, Fails, Refuse, Step, Finish, Sound, ReqsOK
    <3>3. CASE DropLinks(r)
      <4>1. req[r].line = 0
        BY <3>3 DEF DropLinks, Lines, LinesHeld, HoldsLine
      <4>2. req'[r].line = 0 /\ req'[r].pc = "link"
        BY <3>3, <4>1 DEF DropLinks, Step, Sound, ReqsOK, Request
      <4> QED
        BY <3>1, <3>2, <4>2, LinesShrink DEF Shrinks
    <3>4. CASE ~DropLinks(r)
      <4>1. req'[r] = Idle \/ req'[r] = SignIn(req[r].user)
        BY <2>1, <3>4 DEF CreateLink, Renew, ForgetLink, Fails, Refuse, Finish, Sound, ReqsOK
      <4>2. req'[r].line = 0 /\ req'[r].pc # "spend"
        BY <4>1, SignInHoldsNone DEF Idle
      <4> QED
        BY <3>1, <3>2, <4>2, LinesShrink DEF Shrinks
    <3> QED
      BY <3>3, <3>4
  <2>2. ASSUME NEW l \in links, Confirm(r, l) PROVE Lines'
    <3>1. req'[r].line = 0 /\ req'[r].pc # "spend" /\ \A q \in Requests \ {r} : req'[q] = req[q]
      BY <2>2 DEF Confirm, Begin, Idle, AfterReading, Sound, ReqsOK
    <3> QED
      BY <2>2, <3>1, LinesShrink DEF Shrinks, Confirm, tables
  <2> QED
    BY <1>3, <1>s, <2>1, <2>2, IssueTokensLines, SpendLines, RefreshLines DEF Tokens
<1>4. CASE Others
  <2>1. CASE Purge
    <3>1. sessions' \subseteq sessions /\ UNCHANGED <<made, req, tokens, out, late, forked>>
      BY <2>1 DEF Purge, Cascaded, history
    <3> QED
      BY <3>1, LinesShrink DEF Shrinks
  <2>2. CASE Crash
    <3>1. \A r \in Requests : req'[r].line = 0 /\ req'[r].pc # "spend"
      BY <2>2 DEF Crash, Idle
    <3> QED
      BY <2>2, <3>1, LinesShrink DEF Shrinks, Crash, tables
  <2>3. CASE Tick
    BY <2>3, LinesShrink DEF Shrinks, Tick, tables, history
  <2>4. ASSUME NEW u \in Users, Use(u) PROVE Lines'
    BY <2>4, LinesShrink DEF Shrinks, Use, history
  <2> QED
    BY <1>4, <1>s, <2>1, <2>2, <2>3, <2>4, LogoutLines DEF Others
<1>5. CASE UNCHANGED vars
  BY <1>5, LinesShrink DEF Shrinks, vars, tables, history
<1>6. CASE Administers
  <2>1. /\ sessions' \subseteq sessions /\ UNCHANGED <<req, tokens, out, late, forked>>
        /\ made'.sessions = made.sessions
    BY <1>6 DEF Administers, CreateUser, UpdateUser, RemoveUser, Cascaded, Assigns, Edits, history, Sound, TypeOK
  <2> QED
    BY <2>1, LinesShrink DEF Shrinks
<1> QED
  BY <1>1, <1>2, <1>3, <1>4, <1>5, <1>6, NextIs

\* A logout ends every session of its sign-in, whatever requests were under way, unless its token
\* had been exchanged, or was being, and no later logout came with the newest one, or two requests
\* exchanged one token at once (auth.service.ts:40-88).
THEOREM SignInsEnd == Spec => []LogoutEnds
<1>1. Init => Lines
  BY DEF Init, Idle, Lines, LinesKnown, Newest, LinesHeld, HoldsLine, OneBearer, Ended
<1>2. Spec => [](Sound /\ Lines)
  BY <1>1, InitSound, NextSound, NextLines, PTL DEF Spec
<1>3. Sound /\ Lines => LogoutEnds
  BY DEF Lines, Ended, LogoutEnds
<1> QED
  BY <1>2, <1>3, PTL

(***************************************************************************)
(* Confirmed is what was proved.  An account's address changes only to one *)
(* that is proved with the same write, or by the administrator: what a     *)
(* request read before is still there, or the account has been confirmed   *)
(* since, or an administrator has written it.                              *)
(***************************************************************************)

\* A new account inherits no proof: keys are not used again, and a request acts for a user it found.
Unseen ==
    /\ \A u \in Users : user[u] = NULL => \A e \in Emails : <<u, e>> \notin proved
    /\ \A r \in Requests : req[r].user # NULL => user[req[r].user] # NULL

Addressed(q, e) ==
    Exists(q.user) => q.user \in assigned \/ user[q.user].verified \/ user[q.user].email = e

AddressRead ==
    \A r \in Requests :
        /\ req[r].pc = "verify" => Addressed(req[r], req[r].email)
        /\ req[r].pc = "attach" => Addressed(req[r], GoogleEmail[req[r].google])

Proofs == VerifiedIsProved /\ Unseen /\ AddressRead

\* What a step may do to the accounts: nothing, remove some, or write the row of one.
KeepsAddress(u) == user'[u].email = user[u].email /\ user'[u].verified = user[u].verified

Confirms(u) ==
    /\ user'[u].verified
    /\ \E e \in Emails : <<u, e>> \in proved'
    /\ u \in assigned' \/ (user'[u].email \in Emails /\ <<u, user'[u].email>> \in proved')
    /\ \A e \in Emails, v \in Users \ {u} : <<v, e>> \in proved' => <<v, e>> \in proved

Opens(u) ==
    /\ user[u] = NULL /\ ~user'[u].verified /\ proved' = proved
    /\ user'[u].email # NULL => u \in assigned' \/ \E r \in Requests : RegisterUser(r)

IsAssigned(u) ==
    /\ Exists(u) /\ user'[u].verified = user[u].verified
    /\ proved' = proved /\ u \in assigned'

Writing(u) ==
    /\ \A v \in Users \ {u} : user'[v] = user[v] /\ (v \in assigned' <=> v \in assigned)
    /\ user[u] # gone /\ user'[u] \in User /\ proved \subseteq proved'
    /\ \/ Exists(u) /\ KeepsAddress(u) /\ UNCHANGED <<proved, assigned>>
       \/ Confirms(u)
       \/ Opens(u)
       \/ IsAssigned(u)

Removing == UNCHANGED <<proved, assigned>> /\ \A v \in Users : user'[v] \in {user[v], gone}
                /\ (user[v] = NULL => user'[v] = NULL)

AccountEffect == Removing \/ \E u \in Users : Writing(u)

\* Who is not confirmed after a step was not before, and has the address he had or one an
\* administrator wrote; and who was given one by an administrator still has it, or proved his own.
Kept(u) ==
    /\ user'[u].verified \/ (~user[u].verified /\ (KeepsAddress(u) \/ u \in assigned'))
    /\ u \in assigned => u \in assigned' \/ user'[u].verified

LEMMA ProofsStep ==
    ASSUME Sound, Sound', VerifiedIsProved, Unseen, AccountEffect
    PROVE  /\ VerifiedIsProved'
           /\ \A u \in Users : user[u] # NULL => user'[u] # NULL
           /\ \A u \in Users : user'[u] = NULL => \A e \in Emails : <<u, e>> \notin proved'
           /\ \A u \in Users : Exists(u) /\ Exists(u)' => Kept(u)
<1>t. \A v \in Users : Exists(v) => user[v].verified \in BOOLEAN /\ user[v].email \in Emails \cup {NULL}
  BY RowsAre DEF Sound, User, Optional
<1>1. CASE Removing
  <2>1. \A v \in Users : Exists(v)' => Exists(v) /\ user'[v] = user[v]
    BY <1>1 DEF Removing, Exists
  <2>2. VerifiedIsProved'
    BY <1>1, <2>1 DEF Removing, VerifiedIsProved, Live
  <2>3. \A v \in Users : user[v] # NULL => user'[v] # NULL
    BY <1>1, AccountsAssumption DEF Removing
  <2>4. \A v \in Users : user'[v] = NULL => \A e \in Emails : <<v, e>> \notin proved'
    BY <1>1, <2>3 DEF Removing, Unseen
  <2>5. \A v \in Users : Exists(v) /\ Exists(v)' => Kept(v)
    BY <1>1, <1>t, <2>1 DEF Removing, Kept, KeepsAddress
  <2> QED
    BY <2>2, <2>3, <2>4, <2>5
<1>2. ASSUME NEW u \in Users, Writing(u)
      PROVE  /\ VerifiedIsProved'
             /\ \A v \in Users : user[v] # NULL => user'[v] # NULL
             /\ \A v \in Users : user'[v] = NULL => \A e \in Emails : <<v, e>> \notin proved'
             /\ \A v \in Users : Exists(v) /\ Exists(v)' => Kept(v)
  <2>1. user'[u] \in User /\ user'[u] # NULL /\ user'[u] # gone
    BY <1>2, AccountsAssumption DEF Writing
  <2>2. \A v \in Users \ {u} : /\ user'[v] = user[v] /\ (v \in assigned' <=> v \in assigned)
                              /\ \A e \in Emails : <<v, e>> \in proved' <=> <<v, e>> \in proved
    BY <1>2 DEF Writing, Confirms, Opens, IsAssigned
  <2>3. user'[u].verified \in BOOLEAN /\ user'[u].email \in Emails \cup {NULL}
    BY <2>1 DEF User, Optional
  <2>4. /\ user'[u].verified <=> \E e \in Emails : <<u, e>> \in proved'
        /\ user'[u].verified /\ u \notin assigned' =>
               user'[u].email # NULL /\ <<u, user'[u].email>> \in proved'
    <3>1. CASE Exists(u) /\ KeepsAddress(u) /\ UNCHANGED <<proved, assigned>>
      BY <3>1, <2>3 DEF KeepsAddress, VerifiedIsProved, Live
    <3>2. CASE Confirms(u)
      BY <2>3, <3>2, AccountsAssumption DEF Confirms
    <3>3. CASE Opens(u)
      BY <3>3, <2>3 DEF Opens, Unseen
    <3>4. CASE IsAssigned(u)
      BY <3>4, <2>3 DEF IsAssigned, VerifiedIsProved, Live
    <3> QED
      BY <1>2, <3>1, <3>2, <3>3, <3>4 DEF Writing
  <2>6. VerifiedIsProved'
    <3> SUFFICES ASSUME NEW v \in Live'
                 PROVE  /\ user'[v].verified <=> \E e \in Emails : <<v, e>> \in proved'
                        /\ user'[v].verified /\ v \notin assigned' =>
                               user'[v].email # NULL /\ <<v, user'[v].email>> \in proved'
      BY DEF VerifiedIsProved
    <3>1. CASE v = u
      BY <2>4, <3>1
    <3>2. CASE v # u
      <4>1. /\ v \in Live /\ v \in Users /\ user'[v] = user[v] /\ user[v].email \in Emails \cup {NULL}
            /\ v \in assigned' <=> v \in assigned
        BY <1>t, <2>2, <3>2 DEF Live, Exists
      <4>2. \A e \in Emails : <<v, e>> \in proved' <=> <<v, e>> \in proved
        BY <2>2, <3>2, <4>1
      <4>3. /\ user[v].verified <=> \E e \in Emails : <<v, e>> \in proved
            /\ user[v].verified /\ v \notin assigned =>
                   user[v].email # NULL /\ <<v, user[v].email>> \in proved
        BY <4>1 DEF VerifiedIsProved
      <4> QED
        BY <4>1, <4>2, <4>3
    <3> QED
      BY <3>1, <3>2
  <2>8. \A v \in Users : Exists(v) /\ Exists(v)' => Kept(v)
    <3> SUFFICES ASSUME NEW v \in Users, Exists(v), Exists(v)' PROVE Kept(v)
      OBVIOUS
    <3>1. CASE v = u
      BY <1>2, <1>t, <2>3, <3>1 DEF Writing, Confirms, Opens, IsAssigned, KeepsAddress, Exists, Kept
    <3>2. CASE v # u
      BY <1>t, <2>2, <3>2 DEF KeepsAddress, Kept
    <3> QED
      BY <3>1, <3>2
  <2> QED
    BY <2>1, <2>2, <2>6, <2>8 DEF Unseen
<1> QED
  BY <1>1, <1>2 DEF AccountEffect

LEMMA WritesEffect ==
    ASSUME Sound, VerifiedIsProved, AddressRead, NEW r \in Requests, Writes(r)
    PROVE  AccountEffect
<1>q. req[r] \in Request /\ Knows(req[r]) /\ user \in [Users -> User \cup {NULL, gone}]
  BY DEF Sound, TypeOK, ReqsOK
<1>r. \A u \in Users : Exists(u) => user[u] \in User
  BY RowsAre DEF Sound
<1>n. NewUser \in User /\ NewUser.email = NULL /\ ~NewUser.verified
  BY NewUserIsUser DEF Sound, NewUser
<1>v. \A u \in Users : Exists(u) /\ user[u].verified =>
          u \in assigned \/ (user[u].email \in Emails /\ <<u, user[u].email>> \in proved)
  BY <1>r DEF VerifiedIsProved, Live, User, Optional
<1> DEFINE u == req[r].user
<1>1. CASE RegisterUser(r)
  <2> DEFINE row == [NewUser EXCEPT !.email = req[r].email, !.password = TRUE]
  <2>1. PICK v \in Users : Insert(v, row)
    BY <1>1 DEF RegisterUser
  <2>2. row \in User /\ ~row.verified
    BY <1>q, <1>n DEF User, Request
  <2> HIDE DEF row
  <2> QED
    BY <1>1, <1>q, <2>1, <2>2, AccountsAssumption DEF RegisterUser, Insert, history, AccountEffect, Writing, Opens
<1>2. CASE CreateWithTelegram(r)
  <2> DEFINE row == [NewUser EXCEPT !.telegram = req[r].telegram]
  <2>1. PICK v \in Users : Insert(v, row)
    BY <1>2 DEF CreateWithTelegram
  <2>2. row \in User /\ ~row.verified /\ row.email = NULL
    BY <1>q, <1>n DEF User, Request
  <2> HIDE DEF row
  <2> QED
    BY <1>2, <1>q, <2>1, <2>2, AccountsAssumption DEF CreateWithTelegram, Insert, history, AccountEffect, Writing, Opens
<1>3. CASE CreateWithGoogle(r)
  <2> DEFINE g == req[r].google
             row == [NewUser EXCEPT !.email = GoogleEmail[g], !.google = g, !.verified = TRUE]
  <2>1. PICK v \in Users : Insert(v, row) /\ Proves(v, GoogleEmail[g], row)
    BY <1>3 DEF CreateWithGoogle
  <2>2. g \in Googles
    BY <1>3, <1>q DEF CreateWithGoogle, Request, Optional, Knows
  <2>3. row \in User /\ row.verified /\ row.email = GoogleEmail[g] /\ row.email \in Emails
    BY <2>2, <1>n, AccountsAssumption DEF User, Optional
  <2> HIDE DEF row
  <2> QED
    BY <1>q, <2>1, <2>3, AccountsAssumption DEF Insert, Proves, AccountEffect, Writing, Confirms
<1>4. CASE SetPassword(r)
  <2> DEFINE row == [user[u] EXCEPT !.password = TRUE]
  <2>1. u \in Users /\ Exists(u) /\ UNCHANGED <<proved, assigned>>
    BY <1>4, <1>q DEF SetPassword, Request, Optional, Knows, history
  <2>2. row \in User /\ user' = [user EXCEPT ![u] = row] /\ row.email = user[u].email
        /\ row.verified = user[u].verified
    BY <1>4, <1>r, <2>1 DEF SetPassword, User
  <2> HIDE DEF row
  <2> QED
    BY <1>q, <2>1, <2>2 DEF AccountEffect, Writing, KeepsAddress, Exists
<1>5. CASE SetGoogleId(r)
  <2> DEFINE row == [user[u] EXCEPT !.google = req[r].google]
  <2>1. u \in Users /\ Exists(u) /\ UNCHANGED <<proved, assigned>>
    BY <1>5, <1>q DEF SetGoogleId, Request, Optional, Knows, history
  <2>2. row \in User /\ user' = [user EXCEPT ![u] = row] /\ row.email = user[u].email
        /\ row.verified = user[u].verified
    BY <1>5, <1>q, <1>r, <2>1 DEF SetGoogleId, User, Request
  <2> HIDE DEF row
  <2> QED
    BY <1>q, <2>1, <2>2 DEF AccountEffect, Writing, KeepsAddress, Exists
<1>6. CASE SetTelegramId(r)
  <2> DEFINE row == [user[u] EXCEPT !.telegram = req[r].telegram]
  <2>1. u \in Users /\ Exists(u) /\ UNCHANGED <<proved, assigned>>
    BY <1>6, <1>q DEF SetTelegramId, Request, Optional, Knows, history
  <2>2. row \in User /\ user' = [user EXCEPT ![u] = row] /\ row.email = user[u].email
        /\ row.verified = user[u].verified
    BY <1>6, <1>q, <1>r, <2>1 DEF SetTelegramId, User, Request
  <2> HIDE DEF row
  <2> QED
    BY <1>q, <2>1, <2>2 DEF AccountEffect, Writing, KeepsAddress, Exists
<1>7. CASE SetEmail(r)
  <2> DEFINE e == GoogleEmail[req[r].google]
             row == Verified([user[u] EXCEPT !.email = e])
  <2>1. u \in Users /\ req[r].google \in Googles /\ Exists(u)
    BY <1>7, <1>q DEF SetEmail, Request, Optional, Knows
  <2>2. user[u] \in User /\ e \in Emails
    BY <2>1, <1>r, AccountsAssumption
  <2>3. row \in User /\ row.verified /\ row.email = e
    BY <2>1, <2>2 DEF User, Optional, Verified
  <2>4. user' = [user EXCEPT ![u] = row] /\ Proves(u, e, row)
    BY <1>7 DEF SetEmail
  <2> HIDE DEF row
  <2> QED
    BY <1>q, <2>1, <2>2, <2>3, <2>4 DEF AccountEffect, Writing, Confirms, Exists, Proves
<1>8. CASE AttachGoogle(r)
  <2> DEFINE e == GoogleEmail[req[r].google]
             row == Verified([user[u] EXCEPT !.google = req[r].google])
  <2>1. u \in Users /\ req[r].google \in Googles /\ Exists(u) /\ user[u] \in User
    BY <1>8, <1>q, <1>r DEF AttachGoogle, Request, Optional, Knows
  <2>2. row \in User /\ row.verified /\ row.email = user[u].email
    BY <2>1 DEF User, Optional, Verified
  <2>3. user' = [user EXCEPT ![u] = row] /\ Proves(u, e, row)
    BY <1>8 DEF AttachGoogle
  <2>4. u \in assigned \/ user[u].verified \/ user[u].email = e
    BY <1>8, <2>1 DEF AttachGoogle, AddressRead, Addressed
  <2> HIDE DEF row
  <2>5. e \in Emails
    BY <2>1, AccountsAssumption
  <2> HIDE DEF e
  <2>6. Confirms(u)
    BY <1>q, <1>v, <2>1, <2>2, <2>3, <2>4, <2>5 DEF Confirms, Proves
  <2> QED
    BY <1>q, <2>1, <2>2, <2>3, <2>6 DEF AccountEffect, Writing, Exists, Proves
<1>9. CASE WriteConfirmed(r)
  <2> DEFINE e == req[r].email
             row == IF req[r].pc = "verify" THEN Verified(user[u])
                    ELSE Adopted(user[u], e, req[r].password)
  <2>1. u \in Users /\ e \in Emails /\ Exists(u) /\ user[u] \in User
    BY <1>9, <1>q, <1>r DEF WriteConfirmed, Request, Optional, Knows
  <2>2. row \in User /\ row.verified
    BY <1>q, <2>1 DEF User, Request, Optional, Verified, Adopted
  <2>3. user' = [user EXCEPT ![u] = row] /\ Proves(u, e, row)
    BY <1>9 DEF WriteConfirmed
  <2>4. row.email = e \/ (row.email = user[u].email /\ (u \in assigned \/ user[u].verified))
    <3>1. CASE req[r].pc = "verify"
      BY <2>1, <3>1 DEF AddressRead, Addressed, Verified, User
    <3>2. CASE req[r].pc # "verify"
      BY <2>1, <3>2 DEF Verified, Adopted, User
    <3> QED
      BY <3>1, <3>2
  <2> HIDE DEF row, e
  <2>5. Confirms(u)
    BY <1>q, <1>v, <2>1, <2>2, <2>3, <2>4 DEF Confirms, Proves
  <2> QED
    BY <1>q, <2>1, <2>2, <2>3, <2>5 DEF AccountEffect, Writing, Exists, Proves
<1> QED
  BY <1>1, <1>2, <1>3, <1>4, <1>5, <1>6, <1>7, <1>8, <1>9 DEF Writes

LEMMA AdministersEffect == ASSUME Sound, Administers PROVE AccountEffect
<1>t. user \in [Users -> User \cup {NULL, gone}]
  BY DEF Sound, TypeOK
<1>1. ASSUME NEW u \in Users, NEW e \in Optional(Emails), CreateUser(u, e) PROVE AccountEffect
  <2> DEFINE row == [NewUser EXCEPT !.email = e]
  <2>1. row \in User /\ row.email = e /\ ~row.verified /\ Insert(u, row)
    BY <1>1, NewUserIsUser DEF CreateUser, User, NewUser, Sound
  <2>2. /\ proved' = proved /\ assigned' \in {assigned, assigned \cup {u}}
        /\ e # NULL => u \in assigned'
    BY <1>1 DEF CreateUser, Assigns, history
  <2> HIDE DEF row
  <2>3. Opens(u)
    BY <1>t, <2>1, <2>2 DEF Insert, Opens
  <2> QED
    BY <1>t, <2>1, <2>2, <2>3, AccountsAssumption DEF Insert, AccountEffect, Writing
<1>2. ASSUME NEW u \in Users, NEW e \in Optional(Emails), UpdateUser(u, e) PROVE AccountEffect
  <2> DEFINE row == [user[u] EXCEPT !.email = e]
  <2>1. /\ Exists(u) /\ row \in User /\ row.verified = user[u].verified
        /\ user' = [user EXCEPT ![u] = row] /\ proved' = proved /\ assigned' = assigned \cup {u}
    BY <1>2, RowsAre DEF UpdateUser, Assigns, User, Sound
  <2> HIDE DEF row
  <2>2. IsAssigned(u)
    BY <1>t, <2>1 DEF IsAssigned
  <2> QED
    BY <1>t, <2>1, <2>2 DEF AccountEffect, Writing, Exists
<1>3. ASSUME NEW u \in Users, RemoveUser(u) PROVE AccountEffect
  BY <1>3, <1>t DEF RemoveUser, history, Exists, AccountEffect, Removing
<1> QED
  BY <1>1, <1>2, <1>3 DEF Administers

LEMMA NextEffect == ASSUME Sound, VerifiedIsProved, AddressRead, [Next]_vars PROVE AccountEffect
<1>1. ASSUME NEW r \in Requests, Starts(r) PROVE AccountEffect
  BY <1>1, StartsRead DEF tables, history, AccountEffect, Removing
<1>2. ASSUME NEW r \in Requests, Tokens(r) PROVE AccountEffect
  <2>1. UNCHANGED <<user, proved, assigned>>
    BY <1>2 DEF Tokens, IssueTokens, Spend, DropLinks, CreateLink, Renew, ForgetLink, Fails, Refuse,
       Refresh, Confirm, tables, history
  <2> QED
    BY <2>1 DEF AccountEffect, Removing
<1>3. CASE Others
  <2>1. CASE Purge
    <3>1. UNCHANGED <<proved, assigned>> /\ \A v \in Users : user'[v] = IF Abandoned(v) THEN gone ELSE user[v]
      BY <2>1 DEF Purge, history
    <3>2. \A v \in Users : Abandoned(v) => user[v] # NULL
      BY DEF Abandoned, Exists
    <3> QED
      BY <3>1, <3>2 DEF AccountEffect, Removing
  <2>2. CASE ~Purge
    <3>1. UNCHANGED <<user, proved, assigned>>
      BY <1>3, <2>2 DEF Others, Logout, Use, Tick, Crash, tables, history
    <3> QED
      BY <3>1 DEF AccountEffect, Removing
  <2> QED
    BY <2>1, <2>2
<1>4. CASE UNCHANGED vars
  BY <1>4 DEF vars, tables, history, AccountEffect, Removing
<1>5. CASE Administers
  BY <1>5, AdministersEffect
<1> QED
  BY <1>1, <1>2, <1>3, <1>4, <1>5, WritesEffect, NextIs

\* A request just started, or one that goes on, for the user it acts for or one it inserted.
Started(r) == /\ UNCHANGED user
              /\ \/ Fresh(req'[r])
                 \/ \E l \in links :
                       /\ req'[r].user = l.user /\ req'[r].email = l.email /\ req'[r].pc # "attach"
                       /\ req'[r].pc = "verify" => user[l.user].email = l.email
                 \/ \E s \in sessions : req'[r].user = s.user /\ req'[r].pc = "spend"

GoesOn(r) == /\ req'[r].user \in {NULL, req[r].user} \/ user'[req'[r].user] # NULL
             /\ req'[r].pc \notin {"verify", "attach"}

LEMMA RequestsStep ==
    ASSUME Sound, [Next]_vars, NEW r \in Requests
    PROVE  req'[r] = req[r] \/ Started(r) \/ GoesOn(r)
<1>q. req \in [Requests -> Request]
  BY DEF Sound, ReqsOK
<1>i. Idle.user = NULL /\ Idle.pc = "idle" /\ \A u : SignIn(u).user = u /\ SignIn(u).pc = "session"
  BY DEF Idle, SignIn
<1>1. ASSUME NEW p \in Requests, Starts(p) PROVE req'[r] = req[r] \/ Started(r)
  BY <1>1, <1>q, StartsRead DEF tables, Started
<1>2. ASSUME NEW p \in Requests, Finish(p) PROVE req'[r] = req[r] \/ GoesOn(r)
  BY <1>2, <1>q, <1>i DEF Finish, GoesOn
<1>3. ASSUME NEW p \in Requests, NEW pc \in {"session", "link", "forget", "setGoogle"}, Step(p, pc)
      PROVE  req'[r] = req[r] \/ GoesOn(r)
  BY <1>3, <1>q DEF Step, GoesOn, Request
<1>4. ASSUME NEW p \in Requests, Writes(p) PROVE req'[r] = req[r] \/ GoesOn(r)
  <2>1. CASE CreateWithGoogle(p) \/ CreateWithTelegram(p)
    <3>1. PICK u \in Users : req' = [req EXCEPT ![p] = SignIn(u)] /\ \E row \in User : Insert(u, row)
      <4>1. req[p] \in Request /\ Knows(req[p]) /\ NewUser \in User
        BY NewUserIsUser DEF Sound, ReqsOK
      <4>2. [NewUser EXCEPT !.telegram = req[p].telegram] \in User
        BY <4>1 DEF User, Request
      <4>3. req[p].google \in Googles =>
              [NewUser EXCEPT !.email = GoogleEmail[req[p].google], !.google = req[p].google,
                              !.verified = TRUE] \in User
        BY <4>1, AccountsAssumption DEF User, Optional
      <4>4. CreateWithGoogle(p) => req[p].google \in Googles
        BY <4>1 DEF CreateWithGoogle, Knows, Request, Optional
      <4> QED
        BY <2>1, <4>2, <4>3, <4>4 DEF CreateWithGoogle, CreateWithTelegram
    <3>2. user'[u] # NULL
      BY <3>1, AccountsAssumption DEF Insert, Sound, TypeOK
    <3> QED
      BY <1>q, <1>i, <3>1, <3>2 DEF GoesOn
  <2>2. CASE RegisterUser(p)
    <3>1. [NewUser EXCEPT !.email = req[p].email, !.password = TRUE] \in User
      BY NewUserIsUser DEF User, Request, Sound, ReqsOK
    <3>2. PICK u \in Users :
             /\ req' = [req EXCEPT ![p].pc = "drop", ![p].user = u, ![p].signsIn = TRUE]
             /\ \E row \in User : Insert(u, row)
      BY <2>2, <3>1 DEF RegisterUser
    <3>3. user'[u] # NULL
      BY <3>2, AccountsAssumption DEF Insert, Sound, TypeOK
    <3>4. req'[r] = req[r] \/ (req'[r].user = u /\ req'[r].pc = "drop")
      BY <1>q, <3>2 DEF Request
    <3> QED
      BY <3>3, <3>4 DEF GoesOn
  <2> QED
    BY <1>2, <1>3, <1>4, <2>1, <2>2 DEF Writes, SetPassword, WriteConfirmed, AttachGoogle, SetEmail,
       SetGoogleId, SetTelegramId
<1>5. ASSUME NEW p \in Requests, Tokens(p) PROVE req'[r] = req[r] \/ Started(r) \/ GoesOn(r)
  <2>1. ASSUME NEW s \in sessions, Refresh(p, s) PROVE req'[r] = req[r] \/ Started(r)
    <3> DEFINE q == [SignIn(s.user) EXCEPT !.pc = "spend", !.token = s.id, !.line = s.line]
    <3>1. q.user = s.user /\ q.pc = "spend"
      BY DEF SignIn, Idle
    <3>2. UNCHANGED user /\ (UNCHANGED req \/ req' = [req EXCEPT ![p] = q])
      BY <2>1 DEF Refresh, Begin
    <3> HIDE DEF q
    <3> QED
      BY <1>q, <3>1, <3>2 DEF Started
  <2>2. ASSUME NEW l \in links, Confirm(p, l) PROVE req'[r] = req[r] \/ Started(r)
    <3> DEFINE pc == IF Expired(l) THEN "forget" ELSE AfterReading(l.user, l)
               q == [Idle EXCEPT !.pc = pc, !.user = l.user, !.email = l.email,
                                 !.password = l.password, !.link = l.id]
    <3>1. pc \in {"forget", "verify", "adopt"} /\ (pc = "verify" => user[l.user].email = l.email)
      BY DEF AfterReading
    <3>2. q.user = l.user /\ q.email = l.email /\ q.pc = pc
      BY DEF Idle
    <3>3. UNCHANGED user /\ req' = [req EXCEPT ![p] = q]
      BY <2>2 DEF Confirm, Begin, tables
    <3> HIDE DEF q, pc
    <3> QED
      BY <1>q, <3>1, <3>2, <3>3 DEF Started
  <2>3. CASE CreateLink(p)
    <3>1. Finish(p) \/ req' = [req EXCEPT ![p] = SignIn(req[p].user)]
      BY <2>3 DEF CreateLink
    <3> QED
      BY <1>2, <1>q, <1>i, <3>1 DEF GoesOn
  <2> QED
    BY <1>2, <1>3, <1>5, <2>1, <2>2, <2>3 DEF Tokens, IssueTokens, Spend, DropLinks, Renew, ForgetLink,
       Fails, Refuse
<1>6. CASE Others
  BY <1>6, <1>i DEF Others, Logout, Use, Purge, Tick, Crash, GoesOn
<1>7. CASE UNCHANGED vars
  BY <1>7 DEF vars
<1>8. CASE Administers
  BY <1>8 DEF Administers, CreateUser, UpdateUser, RemoveUser
<1> QED
  BY <1>1, <1>4, <1>5, <1>6, <1>7, <1>8, NextIs

LEMMA NextProofs == ASSUME Sound, Proofs, [Next]_vars PROVE Proofs'
<1> USE DEF Proofs
<1>1. Sound' /\ AccountEffect
  BY NextSound, NextEffect
<1>2. /\ VerifiedIsProved'
      /\ \A u \in Users : user[u] # NULL => user'[u] # NULL
      /\ \A u \in Users : user'[u] = NULL => \A e \in Emails : <<u, e>> \notin proved'
      /\ \A u \in Users : Exists(u) /\ Exists(u)' => Kept(u)
  BY <1>1, ProofsStep
<1>3. /\ \A r \in Requests : req[r].user \in Users \cup {NULL} /\ req'[r].user \in Users \cup {NULL}
      /\ \A r \in Requests : req[r].pc \in {"verify", "attach"} => req[r].user \in Users
      /\ \A l \in links : Exists(l.user) /\ l.user \in Users
      /\ \A s \in sessions : Exists(s.user)
  BY <1>1 DEF Sound, TypeOK, ReqsOK, Request, Optional, Knows, Live
<1>4. ASSUME NEW r \in Requests
      PROVE  /\ req'[r].user # NULL => user'[req'[r].user] # NULL
             /\ req'[r].pc = "verify" => Addressed(req[r], req[r].email)'
             /\ req'[r].pc = "attach" => Addressed(req[r], GoogleEmail[req[r].google])'
  <2>1. CASE req'[r] = req[r]
    <3>1. req'[r].user # NULL => user'[req'[r].user] # NULL
      BY <1>2, <1>3, <2>1 DEF Unseen
    <3>2. \A u \in Users : \A e :
              user[u] # NULL /\ (Exists(u) => u \in assigned \/ user[u].verified \/ user[u].email = e)
              => (Exists(u)' => u \in assigned' \/ user'[u].verified \/ user'[u].email = e)
      <4>1. \A u \in Users : user[u] = gone => user'[u] = gone
        BY <1>1, AccountsAssumption DEF AccountEffect, Removing, Writing
      <4> QED
        BY <1>2, <4>1 DEF Kept, KeepsAddress, Exists
    <3>3. req[r].pc \in {"verify", "attach"} => user[req[r].user] # NULL
      BY <1>3 DEF Unseen, Sound, ReqsOK, Knows
    <3>4. ASSUME NEW e, req[r].pc \in {"verify", "attach"}, Addressed(req[r], e)
          PROVE  Exists(req[r].user)' =>
                     \/ req[r].user \in assigned'
                     \/ user'[req[r].user].verified \/ user'[req[r].user].email = e
      BY <1>3, <2>1, <3>2, <3>3, <3>4 DEF Addressed
    <3>5. req'[r].pc = "verify" => Addressed(req[r], req[r].email)'
      BY <2>1, <3>4 DEF AddressRead, Addressed
    <3>6. req'[r].pc = "attach" => Addressed(req[r], GoogleEmail[req[r].google])'
      BY <2>1, <3>4 DEF AddressRead, Addressed
    <3> QED
      BY <3>1, <3>5, <3>6
  <2>2. CASE Started(r)
    BY <1>3, <2>2 DEF Started, Fresh, Addressed, Exists
  <2>3. CASE GoesOn(r)
    BY <1>2, <1>3, <2>3 DEF GoesOn, Unseen
  <2> QED
    BY <2>1, <2>2, <2>3, RequestsStep
<1> QED
  BY <1>2, <1>4 DEF Unseen, AddressRead

\* An account counts as confirmed exactly when the person proved to hold an address, and then it is
\* the one on the account unless an administrator has written it since, whichever order
\* confirmations, Google links, registrations and an administrator's changes end in
\* (auth.service.ts:203-246, users.service.ts:55-58, 116-158).
THEOREM OnlyProvedIsVerified == Spec => []VerifiedIsProved
<1>1. Init => Proofs
  BY DEF Init, Idle, Proofs, VerifiedIsProved, Live, Exists, Unseen, AddressRead
<1>2. Spec => [](Sound /\ Proofs)
  BY <1>1, InitSound, NextSound, NextProofs, PTL DEF Spec
<1>3. Proofs => VerifiedIsProved
  BY DEF Proofs
<1> QED
  BY <1>2, <1>3, PTL

(***************************************************************************)
(* Nobody is left without a way to confirm an address.  A user who has one *)
(* unconfirmed, and not from an administrator, came by registering; his    *)
(* links are for that address, and a request that deletes a link he needs  *)
(* has found it expired.                                                   *)
(***************************************************************************)

Pending(u) == Exists(u) /\ user[u].email # NULL /\ ~user[u].verified /\ u \notin assigned

LinkIds ==
    /\ \A l, m \in links : l.id = m.id => l = m
    /\ \A l \in links : l.id <= made.links
    /\ \A r \in Requests : req[r].link <= made.links

\* A request that follows a link acts for the user of the link.
FollowsOwn ==
    \A r \in Requests, l \in links :
        req[r].pc \in {"forget", "verify", "adopt"} /\ l.id = req[r].link => l.user = req[r].user

LinksAreTheirs == \A l \in links : Pending(l.user) => l.email = user[l.user].email

Registering ==
    \A r \in Requests :
        req[r].pc \in {"drop", "link"} /\ Pending(req[r].user) =>
            req[r].signsIn /\ req[r].email = user[req[r].user].email

ForgetsExpired ==
    \A r \in Requests : req[r].pc = "forget" /\ Pending(req[r].user) => req[r].user \in cut

HasWay(u) ==
    \/ \E l \in links : l.user = u /\ l.email = user[u].email
    \/ \E r \in Requests : req[r].user = u /\ req[r].pc \in {"drop", "link"}

WaysKept == \A u \in Users \ cut : Pending(u) => HasWay(u)

Waits == LinkIds /\ FollowsOwn /\ LinksAreTheirs /\ Registering /\ ForgetsExpired /\ WaysKept

\* Only registering makes a user pending.
StaysPending == \A u \in Users : Pending(u)' => Pending(u) /\ user'[u].email = user[u].email

LEMMA PendingStays ==
    ASSUME Sound, Proofs, [Next]_vars, \A r \in Requests : ~RegisterUser(r)
    PROVE  StaysPending
<1>1. /\ \A u \in Users : user[u] # NULL => user'[u] # NULL
      /\ \A u \in Users : Exists(u) /\ Exists(u)' => Kept(u)
  BY NextSound, NextEffect, ProofsStep DEF Proofs
<1>2. ASSUME NEW u \in Users, Pending(u)' PROVE Exists(u)
  <2>1. user'[u] \notin {NULL, gone} /\ user'[u].email # NULL /\ ~user'[u].verified /\ u \notin assigned'
    BY <1>2 DEF Pending, Exists
  <2> QED
    BY <2>1, NextEffect DEF Proofs, AccountEffect, Removing, Writing, Confirms, Opens, IsAssigned, Exists
<1> QED
  BY <1>1, <1>2 DEF StaysPending, Pending, Kept, KeepsAddress

\* Steps that touch no link.
NoHarm(r) ==
    /\ req'[r].link <= made.links
    /\ req'[r].pc \notin {"verify", "adopt"}
    /\ req'[r].pc = "forget" =>
          /\ req[r].pc \in {"verify", "adopt"} /\ req'[r].user = req[r].user /\ req'[r].link = req[r].link
          /\ ~Pending(req[r].user)'
    /\ req'[r].pc \in {"drop", "link"} => ~Pending(req'[r].user)
    /\ req[r].pc \in {"drop", "link"} => ~Pending(req[r].user)

LinksStand ==
    /\ links' = links /\ made'.links = made.links /\ cut \subseteq cut'
    /\ \A r \in Requests : req'[r] = req[r] \/ NoHarm(r)

LEMMA WaitsStand ==
    ASSUME Sound, Sound', Waits, StaysPending, LinksStand PROVE Waits'
<1> USE DEF Waits
<1>0. /\ \A l \in links : l.user \in Users
      /\ \A r \in Requests : req[r].pc \in {"drop", "link"} => req[r].user \in Users
      /\ \A r \in Requests : req'[r].pc \in {"drop", "link"} => req'[r].user \in Users
      /\ \A r \in Requests : req[r].user \in Users \cup {NULL} /\ req'[r].user \in Users \cup {NULL}
      /\ \A r \in Requests : req[r].user = NULL \/ req[r].user \in Users
  BY DEF Sound, ReqsOK, TypeOK, Request, Link, Optional, Knows
<1>1. LinkIds'
  BY DEF LinksStand, NoHarm, LinkIds
<1>2. FollowsOwn'
  BY DEF LinksStand, NoHarm, FollowsOwn
<1>3. LinksAreTheirs'
  BY <1>0 DEF LinksStand, LinksAreTheirs, StaysPending
<1>4. Registering'
  BY <1>0 DEF LinksStand, NoHarm, Registering, StaysPending
<1>5. ForgetsExpired'
  <2> SUFFICES ASSUME NEW r \in Requests, req'[r].pc = "forget", Pending(req[r].user)'
               PROVE  req'[r].user \in cut'
    BY DEF ForgetsExpired
  <2>1. req'[r] = req[r]
    BY DEF LinksStand, NoHarm
  <2>2. req[r].user \in Users
    BY <1>0, <2>1 DEF Sound, ReqsOK, Knows
  <2> QED
    BY <2>1, <2>2 DEF LinksStand, ForgetsExpired, StaysPending
<1>6. WaysKept'
  BY <1>0 DEF LinksStand, NoHarm, WaysKept, HasWay, StaysPending
<1> QED
  BY <1>1, <1>2, <1>3, <1>4, <1>5, <1>6

LEMMA NewLinkWaits ==
    ASSUME Sound, Sound', Waits, StaysPending, NEW r \in Requests, CreateLink(r) PROVE Waits'
<1> USE DEF Waits
<1> DEFINE id == made.links + 1
           link == [id |-> id, user |-> req[r].user, email |-> req[r].email,
                    password |-> req[r].password, expires |-> now + LinkTTL]
<1>1. /\ links' = links \cup {link} /\ made'.links = id /\ made.links \in Nat /\ cut' = cut
      /\ req[r].pc = "link" /\ req[r].user \in Users
  BY DEF CreateLink, history, Sound, ReqsOK, TypeOK, Request, Optional, Knows
<1>2. \A p \in Requests : req'[p] = req[p] \/ (p = r /\ req'[p].link = 0 /\ req'[p].pc \in {"idle", "session"})
  <2>1. \A u : SignIn(u).link = 0 /\ SignIn(u).pc = "session"
    BY DEF SignIn, Idle
  <2>2. Idle.link = 0 /\ Idle.pc = "idle"
    BY DEF Idle
  <2> QED
    BY <2>1, <2>2 DEF CreateLink, Finish, Sound, ReqsOK
<1>3. /\ link.id = id /\ link.user = req[r].user /\ link.email = req[r].email
      /\ \A l \in links : l.id \in Nat /\ l.user \in Users
      /\ \A p \in Requests : req[p].link \in Nat
      /\ \A p \in Requests : req[p].pc \in {"drop", "link", "forget"} => req[p].user \in Users
  BY DEF Sound, TypeOK, ReqsOK, Link, Request, Optional, Knows
<1> HIDE DEF link
<1>4. LinkIds' /\ FollowsOwn'
  BY <1>1, <1>2, <1>3 DEF LinkIds, FollowsOwn
<1>5. LinksAreTheirs'
  BY <1>1, <1>3 DEF LinksAreTheirs, Registering, StaysPending
<1>6. Registering' /\ ForgetsExpired'
  BY <1>1, <1>2, <1>3 DEF Registering, ForgetsExpired, StaysPending
<1>7. WaysKept'
  BY <1>1, <1>2, <1>3 DEF WaysKept, HasWay, Registering, StaysPending
<1> QED
  BY <1>4, <1>5, <1>6, <1>7

LEMMA DropWaits ==
    ASSUME Sound, Sound', Waits, StaysPending, NEW r \in Requests, DropLinks(r) PROVE Waits'
<1> USE DEF Waits
<1>1. /\ links' = {l \in links : l.user # req[r].user} /\ UNCHANGED <<made, cut>>
      /\ req[r].pc = "drop"
      /\ \A p \in Requests \ {r} : req'[p] = req[p]
  BY DEF DropLinks, Step, history, Sound, ReqsOK
<1>2. /\ req'[r].pc = "link" /\ req'[r].user = req[r].user /\ req'[r].email = req[r].email
      /\ req'[r].signsIn = req[r].signsIn /\ req'[r].link = req[r].link
  BY DEF DropLinks, Step, Sound, ReqsOK, Request
<1>3. /\ \A p \in Requests : req[p].pc \in {"drop", "link", "forget"} => req[p].user \in Users
      /\ \A l \in links : l.user \in Users
  BY DEF Sound, TypeOK, ReqsOK, Link, Request, Optional, Knows
<1>4. LinkIds' /\ FollowsOwn' /\ LinksAreTheirs'
  BY <1>1, <1>2, <1>3 DEF LinkIds, FollowsOwn, LinksAreTheirs, StaysPending
<1>5. Registering' /\ ForgetsExpired'
  BY <1>1, <1>2, <1>3 DEF Registering, ForgetsExpired, StaysPending
<1>6. WaysKept'
  BY <1>1, <1>2, <1>3 DEF WaysKept, HasWay, StaysPending
<1> QED
  BY <1>4, <1>5, <1>6

LEMMA RenewWaits ==
    ASSUME Sound, Sound', Waits, StaysPending, NEW r \in Requests, Renew(r) PROVE Waits'
<1> USE DEF Waits
<1> DEFINE renewed(l) == [l EXCEPT !.expires = IF l.id = req[r].link THEN now + LinkTTL ELSE @]
<1>1. /\ links' = {renewed(l) : l \in links} /\ UNCHANGED <<made, cut>>
      /\ req[r].pc = "renew" /\ req'[r] = Idle
      /\ \A p \in Requests \ {r} : req'[p] = req[p]
  BY DEF Renew, Finish, history, Sound, ReqsOK
<1>2. \A l \in links : /\ renewed(l).id = l.id /\ renewed(l).user = l.user /\ renewed(l).email = l.email
                       /\ l.user \in Users
  BY DEF Sound, TypeOK, Link
<1>3. /\ \A p \in Requests : req[p].pc \in {"drop", "link", "forget"} => req[p].user \in Users
      /\ Idle.pc = "idle" /\ Idle.link = 0
      /\ made.links \in Nat
  BY DEF Sound, TypeOK, ReqsOK, Request, Optional, Knows, Idle
<1> HIDE DEF renewed
<1>4. LinkIds' /\ FollowsOwn' /\ LinksAreTheirs'
  BY <1>1, <1>2, <1>3 DEF LinkIds, FollowsOwn, LinksAreTheirs, StaysPending
<1>5. Registering' /\ ForgetsExpired'
  BY <1>1, <1>2, <1>3 DEF Registering, ForgetsExpired, StaysPending
<1>6. WaysKept'
  BY <1>1, <1>2, <1>3 DEF WaysKept, HasWay, StaysPending
<1> QED
  BY <1>4, <1>5, <1>6

LEMMA ForgetWaits ==
    ASSUME Sound, Sound', Waits, StaysPending, NEW r \in Requests, ForgetLink(r) PROVE Waits'
<1> USE DEF Waits
<1>1. /\ links' = {l \in links : l.id # req[r].link} /\ UNCHANGED <<made, cut>>
      /\ req[r].pc = "forget" /\ req'[r] = Idle
      /\ \A p \in Requests \ {r} : req'[p] = req[p]
  BY DEF ForgetLink, Finish, history, Sound, ReqsOK
<1>2. /\ \A p \in Requests : req[p].pc \in {"drop", "link", "forget"} => req[p].user \in Users
      /\ Idle.pc = "idle" /\ Idle.link = 0
      /\ made.links \in Nat
      /\ \A l \in links : l.user \in Users
  BY DEF Sound, TypeOK, ReqsOK, Request, Optional, Knows, Idle, Link
<1>3. LinkIds' /\ FollowsOwn' /\ LinksAreTheirs'
  BY <1>1, <1>2 DEF LinkIds, FollowsOwn, LinksAreTheirs, StaysPending
<1>4. Registering' /\ ForgetsExpired'
  BY <1>1, <1>2 DEF Registering, ForgetsExpired, StaysPending
<1>5. WaysKept'
  BY <1>1, <1>2 DEF WaysKept, HasWay, StaysPending, FollowsOwn, ForgetsExpired
<1> QED
  BY <1>3, <1>4, <1>5

LEMMA ConfirmWaits ==
    ASSUME Sound, Sound', Proofs, Waits, StaysPending, NEW r \in Requests, NEW l \in links, Confirm(r, l)
    PROVE  Waits'
<1> USE DEF Waits
<1> DEFINE pc == IF Expired(l) THEN "forget" ELSE AfterReading(l.user, l)
           q == [Idle EXCEPT !.pc = pc, !.user = l.user, !.email = l.email,
                             !.password = l.password, !.link = l.id]
<1>1. /\ UNCHANGED <<links, made, user>> /\ cut' = IF Expired(l) THEN cut \cup {l.user} ELSE cut
      /\ req[r] = Idle /\ req' = [req EXCEPT ![r] = q]
  BY DEF Confirm, Begin, tables
<1>2. pc \in {"forget", "verify", "adopt"} /\ (pc = "forget" => Expired(l) \/ ~Pending(l.user))
  BY DEF AfterReading, LinksAreTheirs, Pending
<1>3. q.pc = pc /\ q.user = l.user /\ q.link = l.id
  BY DEF Idle
<1>4. /\ \A p \in Requests : req[p].pc \in {"drop", "link", "forget"} => req[p].user \in Users
      /\ Idle.pc = "idle" /\ req \in [Requests -> Request]
      /\ \A m \in links : m.user \in Users
  BY DEF Sound, TypeOK, ReqsOK, Request, Optional, Knows, Idle, Link
<1> HIDE DEF q, pc
<1>5. LinkIds' /\ FollowsOwn' /\ LinksAreTheirs'
  BY <1>1, <1>2, <1>3, <1>4 DEF LinkIds, FollowsOwn, LinksAreTheirs, StaysPending
<1>6. Registering'
  BY <1>1, <1>2, <1>3, <1>4 DEF Registering, StaysPending
<1>7. ForgetsExpired'
  BY <1>1, <1>2, <1>3, <1>4 DEF ForgetsExpired, StaysPending
<1>8. WaysKept'
  BY <1>1, <1>2, <1>3, <1>4 DEF WaysKept, HasWay, StaysPending
<1> QED
  BY <1>5, <1>6, <1>7, <1>8

LEMMA RegisterWaits ==
    ASSUME Sound, Sound', Proofs, Proofs', Waits, NEW r \in Requests, RegisterUser(r) PROVE Waits'
<1> USE DEF Waits
<1>q. req[r] \in Request /\ Knows(req[r]) /\ req \in [Requests -> Request]
  BY DEF Sound, ReqsOK
<1> DEFINE row == [NewUser EXCEPT !.email = req[r].email, !.password = TRUE]
<1>1. PICK u \in Users :
         /\ Insert(u, row)
         /\ req' = [req EXCEPT ![r].pc = "drop", ![r].user = u, ![r].signsIn = TRUE]
  BY DEF RegisterUser
<1>2. UNCHANGED <<links, made, cut, assigned>> /\ req[r].pc = "register"
  BY DEF RegisterUser, history
<1>3. /\ user[u] = NULL /\ user'[u].email = req[r].email
      /\ \A v \in Users \ {u} : user'[v] = user[v]
  <2>1. row.email = req[r].email
    BY <1>q, NewUserIsUser DEF Sound, User
  <2> QED
    BY <1>1, <2>1 DEF Insert, Sound, TypeOK
<1>4. /\ req'[r].pc = "drop" /\ req'[r].user = u /\ req'[r].signsIn /\ req'[r].email = req[r].email
      /\ req'[r].link = req[r].link
      /\ \A p \in Requests \ {r} : req'[p] = req[p]
  BY <1>1, <1>q DEF Request
<1>5. /\ \A p \in Requests : req[p].pc \in {"drop", "link", "forget"} => req[p].user \in Users \ {u}
      /\ \A l \in links : l.user \in Users \ {u}
  <2>1. ASSUME NEW p \in Requests, req[p].pc \in {"drop", "link", "forget"} PROVE req[p].user \in Users \ {u}
    BY <1>3, <2>1 DEF Sound, ReqsOK, Request, Optional, Knows, Proofs, Unseen
  <2>2. ASSUME NEW l \in links PROVE l.user \in Users \ {u}
    BY <1>3 DEF Sound, TypeOK, Live, Exists
  <2> QED
    BY <2>1, <2>2
<1>6. \A v \in Users \ {u} : Pending(v)' <=> Pending(v)
  BY <1>2, <1>3 DEF Pending, Exists
<1>7. LinkIds' /\ FollowsOwn'
  BY <1>2, <1>4 DEF LinkIds, FollowsOwn
<1>8. LinksAreTheirs'
  BY <1>2, <1>3, <1>5, <1>6 DEF LinksAreTheirs
<1>9. Registering' /\ ForgetsExpired'
  BY <1>2, <1>3, <1>4, <1>5, <1>6 DEF Registering, ForgetsExpired
<1>10. WaysKept'
  <2> SUFFICES ASSUME NEW v \in Users, v \notin cut', Pending(v)' PROVE HasWay(v)'
    BY DEF WaysKept
  <2>1. CASE v = u
    BY <1>4, <2>1 DEF HasWay
  <2>2. CASE v # u
    <3>1. HasWay(v)
      BY <1>2, <1>6, <2>2 DEF WaysKept
    <3>2. CASE \E l \in links : l.user = v /\ l.email = user[v].email
      BY <1>2, <1>3, <2>2, <3>2 DEF HasWay
    <3>3. ASSUME NEW p \in Requests, req[p].user = v, req[p].pc \in {"drop", "link"} PROVE HasWay(v)'
      BY <1>2, <1>4, <3>3 DEF HasWay
    <3> QED
      BY <3>1, <3>2, <3>3 DEF HasWay
  <2> QED
    BY <2>1, <2>2
<1> QED
  BY <1>7, <1>8, <1>9, <1>10

LEMMA CrashWaits ==
    ASSUME Sound, Sound', Waits, StaysPending, Crash PROVE Waits'
<1> USE DEF Waits
<1>1. /\ UNCHANGED <<links, made, user>> /\ \A r \in Requests : req'[r] = Idle
      /\ cut' = cut \cup {req[r].user : r \in {q \in Requests : req[q].signsIn}}
  BY DEF Crash, tables
<1>2. Idle.link = 0 /\ Idle.pc = "idle" /\ made.links \in Nat /\ \A l \in links : l.user \in Users
  BY DEF Idle, Sound, TypeOK, Link
<1>3. LinkIds' /\ FollowsOwn' /\ LinksAreTheirs' /\ Registering' /\ ForgetsExpired'
  BY <1>1, <1>2 DEF LinkIds, FollowsOwn, LinksAreTheirs, Registering, ForgetsExpired, StaysPending
<1>4. WaysKept'
  <2> SUFFICES ASSUME NEW u \in Users, u \notin cut', Pending(u)' PROVE HasWay(u)'
    BY DEF WaysKept
  <2>1. Pending(u) /\ u \notin cut /\ HasWay(u)
    BY <1>1 DEF StaysPending, WaysKept
  <2>2. ASSUME NEW r \in Requests, req[r].user = u, req[r].pc \in {"drop", "link"} PROVE FALSE
    BY <1>1, <2>1, <2>2 DEF Registering
  <2> QED
    BY <1>1, <2>1, <2>2 DEF HasWay
<1> QED
  BY <1>3, <1>4

\* Users go, and their links with them.
LEMMA RemovalWaits ==
    ASSUME Sound, Sound', Waits, StaysPending, NEW removed,
           made'.links = made.links, UNCHANGED <<cut, req>>,
           user' = [u \in Users |-> IF u \in removed THEN gone ELSE user[u]],
           links' = {l \in links : l.user \notin removed}
    PROVE  Waits'
<1> USE DEF Waits
<1>1. /\ made'.links = made.links /\ UNCHANGED <<cut, req>>
      /\ user' = [u \in Users |-> IF u \in removed THEN gone ELSE user[u]]
      /\ links' = {l \in links : l.user \notin removed}
  OBVIOUS
<1>2. /\ \A p \in Requests : req[p].pc \in {"drop", "link", "forget"} => req[p].user \in Users
      /\ \A l \in links : l.user \in Users
  BY DEF Sound, TypeOK, ReqsOK, Request, Optional, Knows, Link
<1>3. LinkIds' /\ FollowsOwn' /\ LinksAreTheirs'
  BY <1>1, <1>2 DEF LinkIds, FollowsOwn, LinksAreTheirs, StaysPending
<1>4. Registering' /\ ForgetsExpired'
  BY <1>1, <1>2 DEF Registering, ForgetsExpired, StaysPending
<1>5. WaysKept'
  <2> SUFFICES ASSUME NEW u \in Users, u \notin cut', Pending(u)' PROVE HasWay(u)'
    BY DEF WaysKept
  <2>1. Pending(u) /\ HasWay(u) /\ user'[u].email = user[u].email /\ u \notin removed
    BY <1>1 DEF StaysPending, WaysKept, Pending, Exists
  <2> QED
    BY <1>1, <2>1 DEF HasWay
<1> QED
  BY <1>3, <1>4, <1>5

LEMMA PurgeWaits ==
    ASSUME Sound, Sound', Waits, StaysPending, Purge PROVE Waits'
<1> DEFINE removed == {u \in Users : Abandoned(u)}
<1>1. /\ made'.links = made.links /\ UNCHANGED <<cut, req>>
      /\ user' = [u \in Users |-> IF u \in removed THEN gone ELSE user[u]]
      /\ links' = {l \in links : l.user \notin removed}
  BY DEF Purge, Cascaded, history
<1> QED
  BY <1>1, RemovalWaits

LEMMA AdministersWaits ==
    ASSUME Sound, Sound', Waits, StaysPending, Administers PROVE Waits'
<1>m. made' = [made EXCEPT !.edits = @ + 1] /\ made \in [links: Nat, sessions: Nat, edits: Nat]
  BY DEF Administers, CreateUser, UpdateUser, RemoveUser, Edits, Sound, TypeOK
<1>l. made'.links = made.links
  BY <1>m
<1>1. CASE \E u \in Users : \E e \in Optional(Emails) : CreateUser(u, e) \/ UpdateUser(u, e)
  <2>1. UNCHANGED <<links, req, cut>>
    BY <1>1 DEF CreateUser, UpdateUser, Assigns, history
  <2>2. LinksStand
    BY <1>l, <2>1 DEF LinksStand
  <2> QED
    BY <2>2, WaitsStand
<1>2. ASSUME NEW u \in Users, RemoveUser(u) PROVE Waits'
  <2>1. /\ UNCHANGED <<cut, req>> /\ user' = [user EXCEPT ![u] = gone]
        /\ links' = {l \in links : l.user \notin {u}}
    BY <1>2 DEF RemoveUser, Cascaded, history
  <2>2. user' = [v \in Users |-> IF v \in {u} THEN gone ELSE user[v]]
    BY <2>1 DEF Sound, TypeOK
  <2> QED
    BY <1>l, <2>1, <2>2, RemovalWaits
<1> QED
  BY <1>1, <1>2 DEF Administers

LEMMA WritesHarmless ==
    ASSUME Sound, Waits, NEW r \in Requests, Writes(r), ~RegisterUser(r)
    PROVE  LinksStand
<1>1. /\ UNCHANGED <<links, made, cut>> /\ req[r].pc \notin {"drop", "link"}
      /\ \A p \in Requests \ {r} : req'[p] = req[p]
  BY DEF Writes, SetPassword, WriteConfirmed, AttachGoogle, SetEmail, CreateWithGoogle, SetGoogleId,
     CreateWithTelegram, SetTelegramId, Proves, Step, Finish, history, Sound, ReqsOK
<1>2. /\ Idle.link = 0 /\ Idle.pc = "idle" /\ \A u : SignIn(u).link = 0 /\ SignIn(u).pc = "session"
      /\ made.links \in Nat /\ req[r].link <= made.links
  BY DEF Idle, SignIn, Sound, TypeOK, Waits, LinkIds
<1>3. CASE SetPassword(r) \/ SetGoogleId(r) \/ SetTelegramId(r)
  <2>1. req'[r] = Idle
    BY <1>3 DEF SetPassword, SetGoogleId, SetTelegramId, Finish, Sound, ReqsOK
  <2> QED
    BY <1>1, <1>2, <2>1 DEF LinksStand, NoHarm
<1>4. CASE CreateWithGoogle(r) \/ CreateWithTelegram(r)
  <2>1. \E u \in Users : req'[r] = SignIn(u)
    BY <1>4 DEF CreateWithGoogle, CreateWithTelegram, Sound, ReqsOK
  <2> QED
    BY <1>1, <1>2, <2>1 DEF LinksStand, NoHarm
<1>5. CASE AttachGoogle(r) \/ SetEmail(r)
  <2>1. req'[r].pc \in {"session", "setGoogle"} /\ req'[r].link = req[r].link
    BY <1>5 DEF AttachGoogle, SetEmail, Step, Sound, ReqsOK, Request
  <2> QED
    BY <1>1, <1>2, <2>1 DEF LinksStand, NoHarm
<1>6. CASE WriteConfirmed(r)
  <2>1. /\ req'[r].pc = "forget" /\ req'[r].link = req[r].link /\ req'[r].user = req[r].user
        /\ req[r].pc \in {"verify", "adopt"}
    BY <1>6 DEF WriteConfirmed, Step, Sound, ReqsOK, Request
  <2> DEFINE u == req[r].user
             row == IF req[r].pc = "verify" THEN Verified(user[u])
                    ELSE Adopted(user[u], req[r].email, req[r].password)
  <2>2. u \in Users /\ Exists(u) /\ user[u] \in User /\ user \in [Users -> User \cup {NULL, gone}]
    BY <1>6, RowsAre DEF WriteConfirmed, Sound, TypeOK, ReqsOK, Request, Optional, Knows
  <2>3. row.verified
    BY <2>2 DEF Verified, Adopted, User
  <2>4. user' = [user EXCEPT ![u] = row]
    BY <1>6 DEF WriteConfirmed
  <2> HIDE DEF row
  <2>5. user'[u].verified
    BY <2>2, <2>3, <2>4
  <2>6. ~Pending(req[r].user)'
    <3>1. req'[r].user = u
      BY <2>1
    <3> QED
      BY <2>5, <3>1 DEF Pending
  <2> QED
    BY <1>1, <1>2, <2>1, <2>6 DEF LinksStand, NoHarm
<1> QED
  BY <1>3, <1>4, <1>5, <1>6 DEF Writes

LEMMA SessionsHarmless ==
    ASSUME Sound, Waits, NEW r \in Requests,
           IssueTokens(r) \/ Spend(r) \/ Fails(r) \/ \E s \in sessions : Refresh(r, s)
    PROVE  LinksStand
<1>1. /\ Idle.link = 0 /\ Idle.pc = "idle"
      /\ made.links \in Nat /\ req[r].link <= made.links
  BY DEF Idle, Sound, TypeOK, Waits, LinkIds
<1>2. CASE IssueTokens(r)
  <2>1. links' = links /\ made'.links = made.links /\ cut' = cut
    BY <1>2 DEF IssueTokens, history, Sound, TypeOK
  <2>2. req'[r] = Idle /\ req[r].pc = "session" /\ \A p \in Requests \ {r} : req'[p] = req[p]
    BY <1>2 DEF IssueTokens, Finish, Sound, ReqsOK
  <2> QED
    BY <1>1, <2>1, <2>2 DEF LinksStand, NoHarm
<1>3. CASE Spend(r)
  <2>1. /\ UNCHANGED <<links, made, cut>> /\ req[r].pc = "spend"
        /\ req'[r].pc = "session" /\ req'[r].link = req[r].link
        /\ \A p \in Requests \ {r} : req'[p] = req[p]
    BY <1>3 DEF Spend, Step, history, Sound, ReqsOK, Request
  <2> QED
    BY <1>1, <2>1 DEF LinksStand, NoHarm
<1>4. CASE Fails(r)
  <2>1. /\ UNCHANGED <<links, made, cut>> /\ req'[r] = Idle
        /\ \A p \in Requests \ {r} : req'[p] = req[p]
    BY <1>4 DEF Fails, Refuse, Finish, tables, history, Sound, ReqsOK
  <2>2. req[r].pc \in {"drop", "link"} => ~Pending(req[r].user)
    BY <1>4 DEF Fails, Pending
  <2> QED
    BY <1>1, <2>1, <2>2 DEF LinksStand, NoHarm
<1>5. ASSUME NEW s \in sessions, Refresh(r, s) PROVE LinksStand
  <2> DEFINE q == [SignIn(s.user) EXCEPT !.pc = "spend", !.token = s.id, !.line = s.line]
  <2>1. q.link = 0 /\ q.pc = "spend"
    BY DEF SignIn, Idle
  <2>2. UNCHANGED <<links, made, cut>>
        /\ (UNCHANGED req \/ (req[r] = Idle /\ req' = [req EXCEPT ![r] = q]))
    BY <1>5 DEF Refresh, Begin
  <2> HIDE DEF q
  <2> QED
    BY <1>1, <2>1, <2>2 DEF LinksStand, NoHarm, Sound, ReqsOK
<1> QED
  BY <1>2, <1>3, <1>4, <1>5

LEMMA NextWaits == ASSUME Sound, Proofs, Waits, [Next]_vars PROVE Waits'
<1>s. Sound' /\ Proofs'
  BY NextSound, NextProofs
<1>1. ASSUME NEW r \in Requests, RegisterUser(r) PROVE Waits'
  BY <1>1, <1>s, RegisterWaits
<1>p. CASE \A r \in Requests : ~RegisterUser(r)
  <2>p. StaysPending
    BY <1>p, PendingStays
  <2>1. ASSUME NEW r \in Requests, Starts(r) PROVE Waits'
    <3>1. PICK q \in Request : Fresh(q) /\ req' = [req EXCEPT ![r] = q]
      BY <2>1, StartsRead
    <3>2. UNCHANGED <<user, links, made, cut>> /\ req[r] = Idle /\ Idle.pc = "idle"
      BY <2>1, StartsRead DEF tables, history, Idle
    <3>3. req'[r] = q /\ \A p \in Requests \ {r} : req'[p] = req[p]
      BY <3>1 DEF Sound, ReqsOK
    <3>4. NoHarm(r)
      BY <3>1, <3>2, <3>3 DEF NoHarm, Fresh, Pending, Sound, TypeOK, Waits, LinkIds
    <3> QED
      BY <1>s, <2>p, <3>2, <3>3, <3>4, WaitsStand DEF LinksStand
  <2>2. ASSUME NEW r \in Requests, Writes(r) PROVE Waits'
    BY <1>s, <1>p, <2>p, <2>2, WritesHarmless, WaitsStand
  <2>3. ASSUME NEW r \in Requests, Tokens(r) PROVE Waits'
    <3>1. CASE DropLinks(r) \/ CreateLink(r) \/ Renew(r) \/ ForgetLink(r)
      BY <1>s, <2>p, <3>1, DropWaits, NewLinkWaits, RenewWaits, ForgetWaits
    <3>2. CASE \E l \in links : Confirm(r, l)
      BY <1>s, <2>p, <3>2, ConfirmWaits
    <3>3. CASE IssueTokens(r) \/ Spend(r) \/ Fails(r) \/ \E s \in sessions : Refresh(r, s)
      BY <1>s, <2>p, <3>3, SessionsHarmless, WaitsStand
    <3> QED
      BY <2>3, <3>1, <3>2, <3>3 DEF Tokens
  <2>4. CASE Others
    <3>1. CASE Purge \/ Crash
      BY <1>s, <2>p, <3>1, PurgeWaits, CrashWaits
    <3>2. CASE ~Purge /\ ~Crash
      <4>1. LinksStand
        BY <2>4, <3>2 DEF Others, Logout, Use, Tick, tables, history, LinksStand
      <4> QED
        BY <1>s, <2>p, <4>1, WaitsStand
    <3> QED
      BY <3>1, <3>2
  <2>5. CASE UNCHANGED vars
    <3>1. LinksStand
      BY <2>5 DEF vars, tables, history, LinksStand
    <3> QED
      BY <1>s, <2>p, <3>1, WaitsStand
  <2>6. CASE Administers
    BY <1>s, <2>p, <2>6, AdministersWaits
  <2> QED
    BY <2>1, <2>2, <2>3, <2>4, <2>5, <2>6, NextIs
<1> QED
  BY <1>1, <1>p

\* Whoever has not confirmed an address can still do so, whatever requests were under way, but for
\* the three exceptions of the code: a registration cut short, an expired link that was followed,
\* and an address an administrator wrote (auth.constants.ts:11-12, auth.service.ts:203-246,
\* users.service.ts:35-40, 55-58).
THEOREM EveryoneCanConfirm == Spec => []AlwaysConfirmable
<1>1. Init => Proofs /\ Waits
  BY DEF Init, Idle, Proofs, VerifiedIsProved, Live, Exists, Unseen, AddressRead, Waits, LinkIds,
     FollowsOwn, LinksAreTheirs, Registering, ForgetsExpired, WaysKept, Pending
<1>2. Spec => [](Sound /\ Proofs /\ Waits)
  BY <1>1, InitSound, NextSound, NextProofs, NextWaits, PTL DEF Spec
<1>3. Waits => AlwaysConfirmable
  BY DEF Waits, WaysKept, HasWay, Pending, AlwaysConfirmable, Live
<1> QED
  BY <1>2, <1>3, PTL

-----------------------------------------------------------------------------
(***************************************************************************)
(* Balance.  What a row of each table adds to what the user has of c.      *)
(***************************************************************************)

TxnEffect(c) == [r \in Txn |-> IF r.currency = c THEN Signed(r) ELSE 0]

Bought(c) == [r \in Exchange |-> IF r.to = c THEN r.toAmount ELSE 0]
Sold(c)   == [r \in Exchange |-> IF r.from = c THEN r.fromAmount ELSE 0]
ExchangeEffect(c) == [r \in Exchange |-> Bought(c)[r] - Sold(c)[r]]

\* Out of the wallet, and into the venues.
OutOfWallet(c) ==
    [r \in Transfer |-> IF r.peer = "LEDGER" /\ r.currency = c
                        THEN IF r.out THEN -r.amount ELSE r.amount ELSE 0]
IntoVenues(c) ==
    [r \in Transfer |-> IF c = usd /\ r.peer # "VENUE" THEN Brought(r) ELSE 0]
TransferEffect(c) == [r \in Transfer |-> IntoVenues(c)[r] - OutOfWallet(c)[r]]

AdjustmentEffect(c) == [r \in Adjustment |-> IF c = usd THEN r.usd ELSE 0]

OfTxns(c)       == SumFunctionOnSet(TxnEffect(c), txns)
OfExchanges(c)  == SumFunctionOnSet(ExchangeEffect(c), exchanges)
OfTransfers(c)  == SumFunctionOnSet(TransferEffect(c), transfers)
OfAdjustments(c) == SumFunctionOnSet(AdjustmentEffect(c), adjusted)

TablesFinite ==
    /\ IsFiniteSet(txns) /\ IsFiniteSet(contribs) /\ IsFiniteSet(exchanges)
    /\ IsFiniteSet(transfers) /\ IsFiniteSet(adjusted)

ExchangesDiffer == \A r, s \in exchanges : r.id = s.id => r = s

ReservedWhole == \A r \in contribs, q \in Quotes : IsMultiple(r.amount, q)

\* The history is what the tables say.
OwnIs ==
    \A c \in All : own[c] = OfTxns(c) + OfExchanges(c) + OfTransfers(c) + OfAdjustments(c)

BalanceInv ==
    /\ BalanceTypeOK /\ TablesFinite /\ ExchangesDiffer /\ ReservedWhole /\ OwnIs

LEMMA AmountNat == Amounts \subseteq Nat
BY BalanceAssumption

LEMMA SignedInt == ASSUME NEW r \in Txn PROVE Signed(r) \in Int
<1>1. r.amount \in Nat
  BY AmountNat DEF Txn
<1> QED
  BY <1>1 DEF Signed

LEMMA BroughtInt ==
    ASSUME NEW r \in Transfer
    PROVE  Brought(r) \in Int /\ OrZero(r.usd) \in Nat
<1>1. r.usd \in Nat \cup {NULL}
  BY DEF Transfer
<1>2. OrZero(r.usd) \in Nat
  BY <1>1 DEF OrZero
<1> QED
  BY <1>2 DEF Brought

LEMMA TxnEffectInt == ASSUME NEW c, NEW r \in Txn PROVE TxnEffect(c)[r] \in Int
BY SignedInt DEF TxnEffect

LEMMA ExchangeEffectInt ==
    ASSUME NEW c, NEW r \in Exchange
    PROVE  /\ Bought(c)[r] \in Int /\ Sold(c)[r] \in Int
           /\ ExchangeEffect(c)[r] \in Int /\ ExchangeEffect(c)[r] = Bought(c)[r] - Sold(c)[r]
<1>1. r.toAmount \in Nat /\ r.fromAmount \in Nat
  BY AmountNat DEF Exchange
<1>2. Bought(c)[r] \in Int /\ Sold(c)[r] \in Int
  BY <1>1 DEF Bought, Sold
<1> QED
  BY <1>2 DEF ExchangeEffect

LEMMA TransferEffectInt ==
    ASSUME NEW c, NEW r \in Transfer
    PROVE  /\ IntoVenues(c)[r] \in Int /\ OutOfWallet(c)[r] \in Int
           /\ TransferEffect(c)[r] \in Int
           /\ TransferEffect(c)[r] = IntoVenues(c)[r] - OutOfWallet(c)[r]
<1>1. r.amount \in Nat /\ Brought(r) \in Int
  BY AmountNat, BroughtInt DEF Transfer
<1>2. IntoVenues(c)[r] \in Int /\ OutOfWallet(c)[r] \in Int
  BY <1>1 DEF IntoVenues, OutOfWallet
<1> QED
  BY <1>2 DEF TransferEffect

LEMMA AdjustmentEffectInt == ASSUME NEW c, NEW r \in Adjustment PROVE AdjustmentEffect(c)[r] \in Int
BY DEF AdjustmentEffect, Adjustment

LEMMA SumsInt ==
    ASSUME BalanceTypeOK, TablesFinite, NEW c
    PROVE  /\ OfTxns(c) \in Int /\ OfExchanges(c) \in Int
           /\ OfTransfers(c) \in Int /\ OfAdjustments(c) \in Int
<1>1. \A r \in txns : TxnEffect(c)[r] \in Int
  BY TxnEffectInt DEF BalanceTypeOK
<1>2. \A r \in exchanges : ExchangeEffect(c)[r] \in Int
  BY ExchangeEffectInt DEF BalanceTypeOK
<1>3. \A r \in transfers : TransferEffect(c)[r] \in Int
  BY TransferEffectInt DEF BalanceTypeOK
<1>4. \A r \in adjusted : AdjustmentEffect(c)[r] \in Int
  BY AdjustmentEffectInt DEF BalanceTypeOK
<1> QED
  BY <1>1, <1>2, <1>3, <1>4, SumInt DEF TablesFinite, OfTxns, OfExchanges, OfTransfers, OfAdjustments

-----------------------------------------------------------------------------
(* What the steps do to what the user has *)

LEMMA GainAt ==
    ASSUME own \in [All -> Int], NEW c \in All, NEW amount \in Int, Gain(c, amount)
    PROVE  /\ own' \in [All -> Int]
           /\ \A d \in All : own'[d] = own[d] + (IF d = c THEN amount ELSE 0)
<1>1. own' = [own EXCEPT ![c] = own[c] + amount]
  BY DEF Gain
<1>2. \A d \in All : own'[d] = IF d = c THEN own[c] + amount ELSE own[d]
  BY <1>1
<1> QED
  BY <1>1, <1>2

LEMMA ExchangedAt ==
    ASSUME NEW o \in [All -> Int], NEW row \in Exchange, NEW sign \in {-1, 1}
    PROVE  /\ Exchanged(o, row, sign) \in [All -> Int]
           /\ \A c \in All : Exchanged(o, row, sign)[c] = o[c] + sign * ExchangeEffect(c)[row]
<1>1. row.from \in All /\ row.to \in All /\ row.fromAmount \in Nat /\ row.toAmount \in Nat
  BY AmountNat DEF Exchange
<1> PICK f \in All, t \in All, a \in Int, b \in Int :
        f = row.from /\ t = row.to /\ a = row.fromAmount /\ b = row.toAmount
  BY <1>1
<1>0. sign * a \in Int /\ sign * b \in Int
  <2>1. sign \in Int
    OBVIOUS
  <2> QED
    BY <2>1
<1> PICK da \in Int, db \in Int : da = sign * a /\ db = sign * b
  BY <1>0
<1> PICK p : p = [o EXCEPT ![f] = o[f] - da]
  OBVIOUS
<1>a. p \in [All -> Int]
  OBVIOUS
<1>2. Exchanged(o, row, sign) = [p EXCEPT ![t] = p[t] + db]
  BY DEF Exchanged
<1>3. \A c \in All : p[c] = IF c = f THEN o[c] - da ELSE o[c]
  OBVIOUS
<1>4. \A c \in All : Exchanged(o, row, sign)[c] = IF c = t THEN p[c] + db ELSE p[c]
  BY <1>a, <1>2
<1>5. ASSUME NEW c \in All
      PROVE  ExchangeEffect(c)[row] = (IF c = t THEN b ELSE 0) - (IF c = f THEN a ELSE 0)
  BY DEF ExchangeEffect, Bought, Sold
<1>6. Exchanged(o, row, sign) \in [All -> Int]
  BY <1>a, <1>2
<1>7. ASSUME NEW c \in All
      PROVE  Exchanged(o, row, sign)[c] = o[c] + sign * ExchangeEffect(c)[row]
  <2>1. CASE sign = 1
    BY <1>a, <1>3, <1>4, <1>5, <2>1
  <2>2. CASE sign = -1
    BY <1>a, <1>3, <1>4, <1>5, <2>2
  <2> QED
    BY <2>1, <2>2
<1> QED
  BY <1>6, <1>7

LEMMA TransferredAt ==
    ASSUME NEW o \in [All -> Int], NEW row \in Transfer, NEW sign \in {-1, 1}
    PROVE  /\ Transferred(o, row, sign) \in [All -> Int]
           /\ \A c \in All : Transferred(o, row, sign)[c] = o[c] + sign * TransferEffect(c)[row]
<1>1. /\ row.currency \in All /\ usd \in All /\ row.amount \in Nat /\ row.out \in BOOLEAN
      /\ row.peer \in {"LEDGER", "VENUE", "EXTERNAL"} /\ OrZero(row.usd) \in Nat
  BY AmountNat, BroughtInt DEF Transfer, All
<1> PICK k \in All, a \in Int, u \in Int : k = row.currency /\ a = row.amount /\ u = OrZero(row.usd)
  BY <1>1
<1> PICK in \in {-1, 1} : in = sign * (IF row.out THEN -1 ELSE 1)
  OBVIOUS
<1>0. in * a \in Int /\ in * u \in Int
  <2>1. in \in Int
    OBVIOUS
  <2> QED
    BY <2>1
<1> PICK da \in Int, du \in Int : da = in * a /\ du = in * u
  BY <1>0
<1> PICK p : p = [o EXCEPT ![usd] = o[usd] + du]
  OBVIOUS
<1>a. p \in [All -> Int]
  BY <1>1
<1>2. /\ row.peer = "LEDGER" => Transferred(o, row, sign) = [p EXCEPT ![k] = p[k] - da]
      /\ row.peer = "VENUE" => Transferred(o, row, sign) = o
      /\ row.peer = "EXTERNAL" => Transferred(o, row, sign) = p
  BY DEF Transferred
<1>3. \A c \in All : p[c] = IF c = usd THEN o[c] + du ELSE o[c]
  OBVIOUS
<1>4. \A c \in All : row.peer = "LEDGER" =>
                        Transferred(o, row, sign)[c] = IF c = k THEN p[c] - da ELSE p[c]
  BY <1>a, <1>2
<1>5. Transferred(o, row, sign) \in [All -> Int]
  BY <1>a, <1>1, <1>2
<1>6. ASSUME NEW c \in All
      PROVE  /\ sign * IntoVenues(c)[row] = IF c = usd /\ row.peer # "VENUE" THEN du ELSE 0
             /\ sign * OutOfWallet(c)[row] = IF c = k /\ row.peer = "LEDGER" THEN da ELSE 0
  <2>1. /\ IntoVenues(c)[row] = IF c = usd /\ row.peer # "VENUE" THEN (IF row.out THEN -u ELSE u) ELSE 0
        /\ OutOfWallet(c)[row] = IF c = k /\ row.peer = "LEDGER" THEN (IF row.out THEN -a ELSE a) ELSE 0
    BY DEF IntoVenues, OutOfWallet, Brought
  <2>2. CASE sign = 1
    BY <2>1, <2>2
  <2>3. CASE sign = -1
    BY <2>1, <2>3
  <2> QED
    BY <2>2, <2>3
<1>7. ASSUME NEW c \in All
      PROVE  Transferred(o, row, sign)[c] = o[c] + sign * TransferEffect(c)[row]
  <2> PICK i \in Int, w \in Int : i = IntoVenues(c)[row] /\ w = OutOfWallet(c)[row]
    BY TransferEffectInt
  <2>1. TransferEffect(c)[row] = i - w
    BY TransferEffectInt
  <2>2. sign * (i - w) = sign * i - sign * w
    OBVIOUS
  <2>3. Transferred(o, row, sign)[c] = o[c] + sign * i - sign * w
    BY <1>1, <1>2, <1>3, <1>4, <1>6
  <2> QED
    BY <2>1, <2>2, <2>3
<1> QED
  BY <1>5, <1>7

(***************************************************************************)
(* The sum of a table after a row of it came or went.                      *)
(***************************************************************************)
LEMMA RowMoved ==
    ASSUME NEW f, NEW S, IsFiniteSet(S), \A x \in S : f[x] \in Int, NEW row, f[row] \in Int
    PROVE  /\ IsFiniteSet(S \cup {row}) /\ IsFiniteSet(S \ {row})
           /\ SumFunctionOnSet(f, S) \in Int
           /\ row \notin S => SumFunctionOnSet(f, S \cup {row}) = SumFunctionOnSet(f, S) + f[row]
           /\ row \in S => SumFunctionOnSet(f, S \ {row}) = SumFunctionOnSet(f, S) - f[row]
<1>1. IsFiniteSet(S \cup {row}) /\ IsFiniteSet(S \ {row})
  BY FS_AddElement, FS_Subset
<1>2. SumFunctionOnSet(f, S) \in Int
  BY SumInt
<1>3. ASSUME row \notin S
      PROVE  SumFunctionOnSet(f, S \cup {row}) = SumFunctionOnSet(f, S) + f[row]
  <2>1. \A x \in S \cup {row} : f[x] \in Int
    OBVIOUS
  <2>2. SumFunctionOnSet(f, S \cup {row}) = f[row] + SumFunctionOnSet(f, S)
    BY <1>3, <2>1, SumAdd
  <2> QED
    BY <1>2, <2>2
<1>4. ASSUME row \in S
      PROVE  SumFunctionOnSet(f, S \ {row}) = SumFunctionOnSet(f, S) - f[row]
  <2>1. \A x \in S \ {row} : f[x] \in Int
    OBVIOUS
  <2>2. SumFunctionOnSet(f, S \ {row}) \in Int
    BY <1>1, <2>1, SumInt
  <2>3. SumFunctionOnSet(f, S) = f[row] + SumFunctionOnSet(f, S \ {row})
    BY <1>4, SumRemove
  <2> QED
    BY <1>2, <2>2, <2>3
<1> QED
  BY <1>1, <1>2, <1>3, <1>4

LEMMA TxnsMove ==
    ASSUME BalanceTypeOK, TablesFinite, NEW row \in Txn, NEW c
    PROVE  /\ row \notin txns /\ txns' = txns \cup {row} => OfTxns(c)' = OfTxns(c) + TxnEffect(c)[row]
           /\ row \in txns /\ txns' = txns \ {row} => OfTxns(c)' = OfTxns(c) - TxnEffect(c)[row]
<1>1. \A r \in txns : TxnEffect(c)[r] \in Int
  BY TxnEffectInt DEF BalanceTypeOK
<1>2. TxnEffect(c)[row] \in Int /\ IsFiniteSet(txns)
  BY TxnEffectInt DEF TablesFinite
<1>3. /\ row \notin txns => SumFunctionOnSet(TxnEffect(c), txns \cup {row})
                                = SumFunctionOnSet(TxnEffect(c), txns) + TxnEffect(c)[row]
      /\ row \in txns => SumFunctionOnSet(TxnEffect(c), txns \ {row})
                              = SumFunctionOnSet(TxnEffect(c), txns) - TxnEffect(c)[row]
  BY <1>1, <1>2, RowMoved
<1> QED
  BY <1>3 DEF OfTxns

LEMMA ExchangesMove ==
    ASSUME BalanceTypeOK, TablesFinite, NEW row \in Exchange, NEW c
    PROVE  /\ row \notin exchanges /\ exchanges' = exchanges \cup {row} =>
                 OfExchanges(c)' = OfExchanges(c) + ExchangeEffect(c)[row]
           /\ row \in exchanges /\ exchanges' = exchanges \ {row} =>
                 OfExchanges(c)' = OfExchanges(c) - ExchangeEffect(c)[row]
<1>1. \A r \in exchanges : ExchangeEffect(c)[r] \in Int
  BY ExchangeEffectInt DEF BalanceTypeOK
<1>2. ExchangeEffect(c)[row] \in Int /\ IsFiniteSet(exchanges)
  BY ExchangeEffectInt DEF TablesFinite
<1>3. /\ row \notin exchanges => SumFunctionOnSet(ExchangeEffect(c), exchanges \cup {row})
                                = SumFunctionOnSet(ExchangeEffect(c), exchanges) + ExchangeEffect(c)[row]
      /\ row \in exchanges => SumFunctionOnSet(ExchangeEffect(c), exchanges \ {row})
                              = SumFunctionOnSet(ExchangeEffect(c), exchanges) - ExchangeEffect(c)[row]
  BY <1>1, <1>2, RowMoved
<1> QED
  BY <1>3 DEF OfExchanges

LEMMA ExchangeReplaced ==
    ASSUME BalanceTypeOK, TablesFinite, ExchangesDiffer, NEW old \in exchanges, NEW row \in Exchange,
           row.id = old.id, exchanges' = (exchanges \ {old}) \cup {row}, NEW c
    PROVE  OfExchanges(c)' = OfExchanges(c) - ExchangeEffect(c)[old] + ExchangeEffect(c)[row]
<1> PICK rest : rest = exchanges \ {old}
  OBVIOUS
<1>1. row \notin rest
  BY DEF ExchangesDiffer
<1>2. old \in Exchange /\ \A r \in exchanges : ExchangeEffect(c)[r] \in Int
  BY ExchangeEffectInt DEF BalanceTypeOK
<1>3. ExchangeEffect(c)[old] \in Int /\ ExchangeEffect(c)[row] \in Int
  BY <1>2, ExchangeEffectInt
<1>4. IsFiniteSet(rest) /\ SumFunctionOnSet(ExchangeEffect(c), rest) = OfExchanges(c) - ExchangeEffect(c)[old]
  BY <1>2, <1>3, RowMoved DEF OfExchanges, TablesFinite
<1>5. \A r \in rest : ExchangeEffect(c)[r] \in Int
  BY <1>2
<1>6. SumFunctionOnSet(ExchangeEffect(c), rest \cup {row})
        = SumFunctionOnSet(ExchangeEffect(c), rest) + ExchangeEffect(c)[row]
  BY <1>1, <1>3, <1>4, <1>5, RowMoved
<1>7. OfExchanges(c)' = SumFunctionOnSet(ExchangeEffect(c), rest \cup {row})
  BY DEF OfExchanges
<1> QED
  BY <1>4, <1>6, <1>7

LEMMA TransfersMove ==
    ASSUME BalanceTypeOK, TablesFinite, NEW row \in Transfer, NEW c
    PROVE  /\ row \notin transfers /\ transfers' = transfers \cup {row} =>
                 OfTransfers(c)' = OfTransfers(c) + TransferEffect(c)[row]
           /\ row \in transfers /\ transfers' = transfers \ {row} =>
                 OfTransfers(c)' = OfTransfers(c) - TransferEffect(c)[row]
<1>1. \A r \in transfers : TransferEffect(c)[r] \in Int
  BY TransferEffectInt DEF BalanceTypeOK
<1>2. TransferEffect(c)[row] \in Int /\ IsFiniteSet(transfers)
  BY TransferEffectInt DEF TablesFinite
<1>3. /\ row \notin transfers => SumFunctionOnSet(TransferEffect(c), transfers \cup {row})
                                = SumFunctionOnSet(TransferEffect(c), transfers) + TransferEffect(c)[row]
      /\ row \in transfers => SumFunctionOnSet(TransferEffect(c), transfers \ {row})
                              = SumFunctionOnSet(TransferEffect(c), transfers) - TransferEffect(c)[row]
  BY <1>1, <1>2, RowMoved
<1> QED
  BY <1>3 DEF OfTransfers

LEMMA AdjustmentsMove ==
    ASSUME BalanceTypeOK, TablesFinite, NEW row \in Adjustment, NEW c
    PROVE  /\ row \notin adjusted /\ adjusted' = adjusted \cup {row} =>
                 OfAdjustments(c)' = OfAdjustments(c) + AdjustmentEffect(c)[row]
           /\ row \in adjusted /\ adjusted' = adjusted \ {row} =>
                 OfAdjustments(c)' = OfAdjustments(c) - AdjustmentEffect(c)[row]
<1>1. \A r \in adjusted : AdjustmentEffect(c)[r] \in Int
  BY AdjustmentEffectInt DEF BalanceTypeOK
<1>2. AdjustmentEffect(c)[row] \in Int /\ IsFiniteSet(adjusted)
  BY AdjustmentEffectInt DEF TablesFinite
<1>3. /\ row \notin adjusted => SumFunctionOnSet(AdjustmentEffect(c), adjusted \cup {row})
                                = SumFunctionOnSet(AdjustmentEffect(c), adjusted) + AdjustmentEffect(c)[row]
      /\ row \in adjusted => SumFunctionOnSet(AdjustmentEffect(c), adjusted \ {row})
                              = SumFunctionOnSet(AdjustmentEffect(c), adjusted) - AdjustmentEffect(c)[row]
  BY <1>1, <1>2, RowMoved
<1> QED
  BY <1>3 DEF OfAdjustments

-----------------------------------------------------------------------------
(* The rows of the tables *)

LEMMA AmountWhole ==
    ASSUME NEW a \in Amounts, NEW q \in Quotes
    PROVE  /\ a \in Nat /\ q \in Nat \ {0} /\ a \div q \in Nat
           /\ IsMultiple(a, q) /\ IsMultiple(-a, q)
<1>1. a \in Nat /\ q \in Nat \ {0} /\ a % q = 0
  BY AmountNat, BalanceAssumption, MoneyAssumption
<1> PICK k : k = a \div q
  OBVIOUS
<1>2. a = q * k /\ k \in Nat
  BY <1>1, Whole
<1>3. -a = q * (-k) /\ k \in Int /\ -k \in Int
  BY <1>1, <1>2
<1> QED
  BY <1>1, <1>2, <1>3 DEF IsMultiple

LEMMA TxnRow ==
    ASSUME NEW i \in RowIds, NEW kind \in {"income", "expense"}, NEW c \in All, NEW a \in Amounts
    PROVE  [id |-> i, kind |-> kind, currency |-> c, amount |-> a] \in Txn
BY DEF Txn

LEMMA ExchangeRow ==
    ASSUME NEW i \in RowIds, NEW from \in All, NEW to \in All, NEW a \in Amounts, NEW b \in Amounts
    PROVE  [id |-> i, from |-> from, fromAmount |-> a, to |-> to, toAmount |-> b] \in Exchange
BY DEF Exchange

LEMMA DollarsType ==
    ASSUME NEW a \in Amounts, NEW c \in All, NEW dollars \in ToUsd(a, c)
    PROVE  dollars \in Nat \cup {NULL}
<1>1. \A q \in Quotes : a \div q \in Nat
  BY AmountWhole
<1>2. a \in Nat
  BY AmountNat
<1> QED
  BY <1>1, <1>2 DEF ToUsd

LEMMA TransferRow ==
    ASSUME NEW i \in RowIds, NEW v \in Venues, NEW side \in BOOLEAN,
           NEW peer \in {"LEDGER", "VENUE", "EXTERNAL"}, NEW w \in Venues \cup {NULL}, NEW c \in All,
           NEW a \in Amounts, NEW dollars \in Nat \cup {NULL}
    PROVE  [id |-> i, venue |-> v, out |-> side, peer |-> peer, peerVenue |-> w, currency |-> c,
            amount |-> a, usd |-> dollars] \in Transfer
BY DEF Transfer

LEMMA AdjustmentRow ==
    ASSUME NEW i \in RowIds, NEW v \in Venues, NEW a \in Amounts, NEW sign \in {-1, 1}
    PROVE  [id |-> i, venue |-> v, usd |-> sign * a] \in Adjustment
<1>1. a \in Nat
  BY AmountNat
<1>2. sign * a \in Int
  <2>1. sign \in Int /\ a \in Int
    BY <1>1
  <2> QED
    BY <2>1
<1> QED
  BY <1>2 DEF Adjustment

-----------------------------------------------------------------------------
(* Every step keeps the invariant *)

LEMMA TablesKept ==
    ASSUME NEW c
    PROVE  /\ txns' = txns => OfTxns(c)' = OfTxns(c)
           /\ exchanges' = exchanges => OfExchanges(c)' = OfExchanges(c)
           /\ transfers' = transfers => OfTransfers(c)' = OfTransfers(c)
           /\ adjusted' = adjusted => OfAdjustments(c)' = OfAdjustments(c)
BY DEF OfTxns, OfExchanges, OfTransfers, OfAdjustments

LEMMA BalanceInitInv == BalanceInit => BalanceInv
<1> SUFFICES ASSUME BalanceInit PROVE BalanceInv
  OBVIOUS
<1>1. BalanceTypeOK
  <2>1. own \in [All -> Int]
    BY DEF BalanceInit
  <2>2. /\ txns \subseteq Txn /\ contribs \subseteq Contribution /\ exchanges \subseteq Exchange
        /\ transfers \subseteq Transfer /\ adjusted \subseteq Adjustment
        /\ \A r \in transfers : r.peer = "VENUE" <=> r.peerVenue # NULL
    BY DEF BalanceInit
  <2> QED
    BY <2>1, <2>2 DEF BalanceInit, BalanceTypeOK
<1>2. TablesFinite
  BY FS_EmptySet DEF BalanceInit, TablesFinite
<1>3. ExchangesDiffer /\ ReservedWhole
  BY DEF BalanceInit, ExchangesDiffer, ReservedWhole
<1>4. OwnIs
  <2>1. ASSUME NEW c \in All
        PROVE  own[c] = OfTxns(c) + OfExchanges(c) + OfTransfers(c) + OfAdjustments(c)
    <3>1. OfTxns(c) = 0 /\ OfExchanges(c) = 0 /\ OfTransfers(c) = 0 /\ OfAdjustments(c) = 0
      BY SumEmpty DEF BalanceInit, OfTxns, OfExchanges, OfTransfers, OfAdjustments
    <3>2. own[c] = 0
      BY DEF BalanceInit
    <3> QED
      BY <3>1, <3>2
  <2> QED
    BY <2>1 DEF OwnIs
<1> QED
  BY <1>1, <1>2, <1>3, <1>4 DEF BalanceInv

LEMMA CreateTxnInv ==
    ASSUME BalanceInv, NEW row \in Txn, CreateTxn(row)
    PROVE  BalanceInv'
<1> USE DEF CreateTxn
<1>0. BalanceTypeOK /\ TablesFinite /\ OwnIs /\ ExchangesDiffer /\ ReservedWhole
  BY DEF BalanceInv
<1>1. row.currency \in All /\ row \notin txns /\ Signed(row) \in Int
  BY SignedInt DEF Txn, Used
<1>2. /\ own' \in [All -> Int]
      /\ \A d \in All : own'[d] = own[d] + (IF d = row.currency THEN Signed(row) ELSE 0)
  BY <1>0, <1>1, GainAt DEF BalanceTypeOK
<1>3. BalanceTypeOK'
  BY <1>0, <1>2 DEF BalanceTypeOK
<1>4. TablesFinite'
  BY <1>0, FS_AddElement DEF TablesFinite
<1>5. ExchangesDiffer' /\ ReservedWhole'
  BY <1>0 DEF ExchangesDiffer, ReservedWhole
<1>6. ASSUME NEW c \in All
      PROVE  own'[c] = OfTxns(c)' + OfExchanges(c)' + OfTransfers(c)' + OfAdjustments(c)'
  <2>1. OfTxns(c)' = OfTxns(c) + TxnEffect(c)[row]
    BY <1>0, <1>1, TxnsMove
  <2>2. TxnEffect(c)[row] = IF c = row.currency THEN Signed(row) ELSE 0
    BY DEF TxnEffect
  <2>3. TxnEffect(c)[row] \in Int
    BY TxnEffectInt
  <2> QED
    BY <1>0, <1>2, <2>1, <2>2, <2>3, TablesKept, SumsInt DEF OwnIs
<1> QED
  BY <1>3, <1>4, <1>5, <1>6 DEF BalanceInv, OwnIs

LEMMA RemoveTxnInv ==
    ASSUME BalanceInv, NEW row \in txns, RemoveTxn(row)
    PROVE  BalanceInv'
<1> USE DEF RemoveTxn
<1>0. BalanceTypeOK /\ TablesFinite /\ OwnIs /\ ExchangesDiffer /\ ReservedWhole
  BY DEF BalanceInv
<1>1. row \in Txn /\ row.currency \in All /\ Signed(row) \in Int /\ -Signed(row) \in Int
  <2>1. row \in Txn
    BY <1>0 DEF BalanceTypeOK
  <2>2. row.currency \in All /\ Signed(row) \in Int
    BY <2>1, SignedInt DEF Txn
  <2> QED
    BY <2>1, <2>2
<1>2. /\ own' \in [All -> Int]
      /\ \A d \in All : own'[d] = own[d] + (IF d = row.currency THEN -Signed(row) ELSE 0)
  BY <1>0, <1>1, GainAt DEF BalanceTypeOK
<1>3. BalanceTypeOK'
  BY <1>0, <1>2 DEF BalanceTypeOK
<1>4. TablesFinite'
  BY <1>0, FS_Subset DEF TablesFinite
<1>5. ExchangesDiffer' /\ ReservedWhole'
  BY <1>0 DEF ExchangesDiffer, ReservedWhole
<1>6. ASSUME NEW c \in All
      PROVE  own'[c] = OfTxns(c)' + OfExchanges(c)' + OfTransfers(c)' + OfAdjustments(c)'
  <2>1. OfTxns(c)' = OfTxns(c) - TxnEffect(c)[row]
    BY <1>0, <1>1, TxnsMove
  <2>2. TxnEffect(c)[row] = IF c = row.currency THEN Signed(row) ELSE 0
    BY <1>1 DEF TxnEffect
  <2>3. TxnEffect(c)[row] \in Int
    BY <1>1, TxnEffectInt
  <2> QED
    BY <1>0, <1>1, <1>2, <2>1, <2>2, <2>3, TablesKept, SumsInt DEF OwnIs
<1> QED
  BY <1>3, <1>4, <1>5, <1>6 DEF BalanceInv, OwnIs

LEMMA CreateExchangeInv ==
    ASSUME BalanceInv, NEW row \in Exchange, CreateExchange(row)
    PROVE  BalanceInv'
<1> USE DEF CreateExchange
<1>0. BalanceTypeOK /\ TablesFinite /\ OwnIs /\ ExchangesDiffer /\ ReservedWhole
  BY DEF BalanceInv
<1>1. row \notin exchanges /\ \A r \in exchanges : r.id # row.id
  BY DEF Used
<1>2. /\ own' \in [All -> Int]
      /\ \A d \in All : own'[d] = own[d] + 1 * ExchangeEffect(d)[row]
  BY <1>0, ExchangedAt DEF BalanceTypeOK
<1>3. BalanceTypeOK'
  BY <1>0, <1>2 DEF BalanceTypeOK
<1>4. TablesFinite'
  BY <1>0, FS_AddElement DEF TablesFinite
<1>5. ExchangesDiffer' /\ ReservedWhole'
  BY <1>0, <1>1 DEF ExchangesDiffer, ReservedWhole
<1>6. ASSUME NEW c \in All
      PROVE  own'[c] = OfTxns(c)' + OfExchanges(c)' + OfTransfers(c)' + OfAdjustments(c)'
  <2>1. OfExchanges(c)' = OfExchanges(c) + ExchangeEffect(c)[row]
    BY <1>0, <1>1, ExchangesMove
  <2>2. ExchangeEffect(c)[row] \in Int
    BY ExchangeEffectInt
  <2> QED
    BY <1>0, <1>2, <2>1, <2>2, TablesKept, SumsInt DEF OwnIs
<1> QED
  BY <1>3, <1>4, <1>5, <1>6 DEF BalanceInv, OwnIs

LEMMA UpdateExchangeInv ==
    ASSUME BalanceInv, NEW old \in exchanges, NEW row \in Exchange, UpdateExchange(old, row)
    PROVE  BalanceInv'
<1> USE DEF UpdateExchange
<1>0. BalanceTypeOK /\ TablesFinite /\ OwnIs /\ ExchangesDiffer /\ ReservedWhole
  BY DEF BalanceInv
<1>1. old \in Exchange /\ own \in [All -> Int]
  BY <1>0 DEF BalanceTypeOK
<1> PICK o : o = Exchanged(own, old, -1)
  OBVIOUS
<1>a. /\ o \in [All -> Int]
      /\ \A d \in All : o[d] = own[d] + (-1) * ExchangeEffect(d)[old]
  BY <1>1, ExchangedAt
<1>b. own' = Exchanged(o, row, 1)
  OBVIOUS
<1>2. /\ own' \in [All -> Int]
      /\ \A d \in All : own'[d] = o[d] + 1 * ExchangeEffect(d)[row]
  BY <1>a, <1>b, ExchangedAt
<1>3. BalanceTypeOK'
  BY <1>0, <1>2 DEF BalanceTypeOK
<1>4. TablesFinite'
  <2>1. IsFiniteSet(exchanges \ {old})
    BY <1>0, FS_Subset DEF TablesFinite
  <2>2. IsFiniteSet((exchanges \ {old}) \cup {row})
    BY <2>1, FS_AddElement
  <2> QED
    BY <1>0, <2>2 DEF TablesFinite
<1>5. ExchangesDiffer' /\ ReservedWhole'
  BY <1>0 DEF ExchangesDiffer, ReservedWhole
<1>6. ASSUME NEW c \in All
      PROVE  own'[c] = OfTxns(c)' + OfExchanges(c)' + OfTransfers(c)' + OfAdjustments(c)'
  <2>1. OfExchanges(c)' = OfExchanges(c) - ExchangeEffect(c)[old] + ExchangeEffect(c)[row]
    BY <1>0, ExchangeReplaced
  <2>2. ExchangeEffect(c)[row] \in Int /\ ExchangeEffect(c)[old] \in Int
    BY <1>1, ExchangeEffectInt
  <2>3. own'[c] = own[c] - ExchangeEffect(c)[old] + ExchangeEffect(c)[row]
    BY <1>1, <1>a, <1>2, <2>2
  <2>4. OfTxns(c)' = OfTxns(c) /\ OfTransfers(c)' = OfTransfers(c) /\ OfAdjustments(c)' = OfAdjustments(c)
    BY TablesKept
  <2>5. own[c] = OfTxns(c) + OfExchanges(c) + OfTransfers(c) + OfAdjustments(c)
    BY <1>0 DEF OwnIs
  <2> QED
    BY <1>0, <2>1, <2>2, <2>3, <2>4, <2>5, SumsInt
<1> QED
  BY <1>3, <1>4, <1>5, <1>6 DEF BalanceInv, OwnIs

LEMMA RemoveExchangeInv ==
    ASSUME BalanceInv, NEW row \in exchanges, RemoveExchange(row)
    PROVE  BalanceInv'
<1> USE DEF RemoveExchange
<1>0. BalanceTypeOK /\ TablesFinite /\ OwnIs /\ ExchangesDiffer /\ ReservedWhole
  BY DEF BalanceInv
<1>1. row \in Exchange
  BY <1>0 DEF BalanceTypeOK
<1>2. /\ own' \in [All -> Int]
      /\ \A d \in All : own'[d] = own[d] + (-1) * ExchangeEffect(d)[row]
  BY <1>0, <1>1, ExchangedAt DEF BalanceTypeOK
<1>3. BalanceTypeOK'
  BY <1>0, <1>2 DEF BalanceTypeOK
<1>4. TablesFinite'
  BY <1>0, FS_Subset DEF TablesFinite
<1>5. ExchangesDiffer' /\ ReservedWhole'
  BY <1>0 DEF ExchangesDiffer, ReservedWhole
<1>6. ASSUME NEW c \in All
      PROVE  own'[c] = OfTxns(c)' + OfExchanges(c)' + OfTransfers(c)' + OfAdjustments(c)'
  <2>1. OfExchanges(c)' = OfExchanges(c) - ExchangeEffect(c)[row]
    BY <1>0, <1>1, ExchangesMove
  <2>2. ExchangeEffect(c)[row] \in Int
    BY <1>1, ExchangeEffectInt
  <2> QED
    BY <1>0, <1>2, <2>1, <2>2, TablesKept, SumsInt DEF OwnIs
<1> QED
  BY <1>3, <1>4, <1>5, <1>6 DEF BalanceInv, OwnIs

LEMMA CreateTransferInv ==
    ASSUME BalanceInv, NEW row \in Transfer, row.peer = "VENUE" <=> row.peerVenue # NULL,
           CreateTransfer(row)
    PROVE  BalanceInv'
<1> USE DEF CreateTransfer
<1>0. BalanceTypeOK /\ TablesFinite /\ OwnIs /\ ExchangesDiffer /\ ReservedWhole
  BY DEF BalanceInv
<1>1. row \notin transfers
  BY DEF Used
<1>2. /\ own' \in [All -> Int]
      /\ \A d \in All : own'[d] = own[d] + 1 * TransferEffect(d)[row]
  BY <1>0, TransferredAt DEF BalanceTypeOK
<1>3. BalanceTypeOK'
  BY <1>0, <1>2 DEF BalanceTypeOK
<1>4. TablesFinite'
  BY <1>0, FS_AddElement DEF TablesFinite
<1>5. ExchangesDiffer' /\ ReservedWhole'
  BY <1>0 DEF ExchangesDiffer, ReservedWhole
<1>6. ASSUME NEW c \in All
      PROVE  own'[c] = OfTxns(c)' + OfExchanges(c)' + OfTransfers(c)' + OfAdjustments(c)'
  <2>1. OfTransfers(c)' = OfTransfers(c) + TransferEffect(c)[row]
    BY <1>0, <1>1, TransfersMove
  <2>2. TransferEffect(c)[row] \in Int
    BY TransferEffectInt
  <2> QED
    BY <1>0, <1>2, <2>1, <2>2, TablesKept, SumsInt DEF OwnIs
<1> QED
  BY <1>3, <1>4, <1>5, <1>6 DEF BalanceInv, OwnIs

LEMMA RemoveTransferInv ==
    ASSUME BalanceInv, NEW row \in transfers, RemoveTransfer(row)
    PROVE  BalanceInv'
<1> USE DEF RemoveTransfer
<1>0. BalanceTypeOK /\ TablesFinite /\ OwnIs /\ ExchangesDiffer /\ ReservedWhole
  BY DEF BalanceInv
<1>1. row \in Transfer
  BY <1>0 DEF BalanceTypeOK
<1>2. /\ own' \in [All -> Int]
      /\ \A d \in All : own'[d] = own[d] + (-1) * TransferEffect(d)[row]
  BY <1>0, <1>1, TransferredAt DEF BalanceTypeOK
<1>3. BalanceTypeOK'
  BY <1>0, <1>2 DEF BalanceTypeOK
<1>4. TablesFinite'
  BY <1>0, FS_Subset DEF TablesFinite
<1>5. ExchangesDiffer' /\ ReservedWhole'
  BY <1>0 DEF ExchangesDiffer, ReservedWhole
<1>6. ASSUME NEW c \in All
      PROVE  own'[c] = OfTxns(c)' + OfExchanges(c)' + OfTransfers(c)' + OfAdjustments(c)'
  <2>1. OfTransfers(c)' = OfTransfers(c) - TransferEffect(c)[row]
    BY <1>0, <1>1, TransfersMove
  <2>2. TransferEffect(c)[row] \in Int
    BY <1>1, TransferEffectInt
  <2> QED
    BY <1>0, <1>2, <2>1, <2>2, TablesKept, SumsInt DEF OwnIs
<1> QED
  BY <1>3, <1>4, <1>5, <1>6 DEF BalanceInv, OwnIs

LEMMA AddAdjustmentInv ==
    ASSUME BalanceInv, NEW row \in Adjustment, AddAdjustment(row)
    PROVE  BalanceInv'
<1> USE DEF AddAdjustment
<1>0. BalanceTypeOK /\ TablesFinite /\ OwnIs /\ ExchangesDiffer /\ ReservedWhole
  BY DEF BalanceInv
<1>1. usd \in All /\ row \notin adjusted /\ row.usd \in Int
  BY DEF Adjustment, Used, All
<1>2. /\ own' \in [All -> Int]
      /\ \A d \in All : own'[d] = own[d] + (IF d = usd THEN row.usd ELSE 0)
  BY <1>0, <1>1, GainAt DEF BalanceTypeOK
<1>3. BalanceTypeOK'
  BY <1>0, <1>2 DEF BalanceTypeOK
<1>4. TablesFinite'
  BY <1>0, FS_AddElement DEF TablesFinite
<1>5. ExchangesDiffer' /\ ReservedWhole'
  BY <1>0 DEF ExchangesDiffer, ReservedWhole
<1>6. ASSUME NEW c \in All
      PROVE  own'[c] = OfTxns(c)' + OfExchanges(c)' + OfTransfers(c)' + OfAdjustments(c)'
  <2>1. OfAdjustments(c)' = OfAdjustments(c) + AdjustmentEffect(c)[row]
    BY <1>0, <1>1, AdjustmentsMove
  <2>2. AdjustmentEffect(c)[row] = IF c = usd THEN row.usd ELSE 0
    BY DEF AdjustmentEffect
  <2>3. AdjustmentEffect(c)[row] \in Int
    BY AdjustmentEffectInt
  <2> QED
    BY <1>0, <1>2, <2>1, <2>2, <2>3, TablesKept, SumsInt DEF OwnIs
<1> QED
  BY <1>3, <1>4, <1>5, <1>6 DEF BalanceInv, OwnIs

LEMMA RemoveAdjustmentInv ==
    ASSUME BalanceInv, NEW row \in adjusted, RemoveAdjustment(row)
    PROVE  BalanceInv'
<1> USE DEF RemoveAdjustment
<1>0. BalanceTypeOK /\ TablesFinite /\ OwnIs /\ ExchangesDiffer /\ ReservedWhole
  BY DEF BalanceInv
<1>1. usd \in All /\ row \in Adjustment /\ row.usd \in Int /\ -row.usd \in Int
  <2>1. row \in Adjustment
    BY <1>0 DEF BalanceTypeOK
  <2>2. usd \in All /\ row.usd \in Int
    BY <2>1 DEF Adjustment, All
  <2> QED
    BY <2>1, <2>2
<1>2. /\ own' \in [All -> Int]
      /\ \A d \in All : own'[d] = own[d] + (IF d = usd THEN -row.usd ELSE 0)
  BY <1>0, <1>1, GainAt DEF BalanceTypeOK
<1>3. BalanceTypeOK'
  BY <1>0, <1>2 DEF BalanceTypeOK
<1>4. TablesFinite'
  BY <1>0, FS_Subset DEF TablesFinite
<1>5. ExchangesDiffer' /\ ReservedWhole'
  BY <1>0 DEF ExchangesDiffer, ReservedWhole
<1>6. ASSUME NEW c \in All
      PROVE  own'[c] = OfTxns(c)' + OfExchanges(c)' + OfTransfers(c)' + OfAdjustments(c)'
  <2>1. OfAdjustments(c)' = OfAdjustments(c) - AdjustmentEffect(c)[row]
    BY <1>0, <1>1, AdjustmentsMove
  <2>2. AdjustmentEffect(c)[row] = IF c = usd THEN row.usd ELSE 0
    BY <1>1 DEF AdjustmentEffect
  <2>3. AdjustmentEffect(c)[row] \in Int
    BY <1>1, AdjustmentEffectInt
  <2> QED
    BY <1>0, <1>1, <1>2, <2>1, <2>2, <2>3, TablesKept, SumsInt DEF OwnIs
<1> QED
  BY <1>3, <1>4, <1>5, <1>6 DEF BalanceInv, OwnIs

\* The steps that change nothing of what the user has.
LEMMA OwnKept ==
    ASSUME OwnIs, UNCHANGED <<txns, exchanges, transfers, adjusted, own>>
    PROVE  OwnIs'
BY TablesKept DEF OwnIs

LEMMA ContributeInv ==
    ASSUME BalanceInv, NEW i \in RowIds, NEW a \in Amounts, NEW amount \in {a, -a},
           Contribute(i, amount)
    PROVE  BalanceInv'
<1> USE DEF Contribute
<1>0. BalanceTypeOK /\ TablesFinite /\ OwnIs /\ ExchangesDiffer /\ ReservedWhole
  BY DEF BalanceInv
<1> PICK row : row = [id |-> i, amount |-> amount]
  OBVIOUS
<1>1. amount \in Int
  <2>1. a \in Nat
    BY AmountNat
  <2> QED
    BY <2>1
<1>2. row \in Contribution /\ row.amount = amount
  BY <1>1 DEF Contribution
<1>3. BalanceTypeOK'
  BY <1>0, <1>2 DEF BalanceTypeOK
<1>4. TablesFinite'
  BY <1>0, FS_AddElement DEF TablesFinite
<1>5. ReservedWhole'
  <2>1. \A q \in Quotes : IsMultiple(row.amount, q)
    BY <1>2, AmountWhole
  <2> QED
    BY <1>0, <2>1 DEF ReservedWhole
<1>6. OwnIs' /\ ExchangesDiffer'
  BY <1>0, OwnKept DEF ExchangesDiffer
<1> QED
  BY <1>3, <1>4, <1>5, <1>6 DEF BalanceInv

LEMMA RemoveContributionInv ==
    ASSUME BalanceInv, NEW row \in contribs, RemoveContribution(row)
    PROVE  BalanceInv'
<1> USE DEF RemoveContribution
<1>0. BalanceTypeOK /\ TablesFinite /\ OwnIs /\ ExchangesDiffer /\ ReservedWhole
  BY DEF BalanceInv
<1>1. BalanceTypeOK'
  BY <1>0 DEF BalanceTypeOK
<1>2. TablesFinite'
  BY <1>0, FS_Subset DEF TablesFinite
<1>3. OwnIs' /\ ExchangesDiffer' /\ ReservedWhole'
  BY <1>0, OwnKept DEF ExchangesDiffer, ReservedWhole
<1> QED
  BY <1>1, <1>2, <1>3 DEF BalanceInv

LEMMA QuietInv ==
    ASSUME BalanceInv,
           \/ \E rates \in [Currencies -> Quotes] \cup {NULL} : RatesMove(rates)
           \/ \E on \in BOOLEAN : ArchiveGoal(on)
           \/ UNCHANGED balanceVars
    PROVE  BalanceInv'
<1>0. BalanceTypeOK /\ TablesFinite /\ OwnIs /\ ExchangesDiffer /\ ReservedWhole
  BY DEF BalanceInv
<1>1. /\ UNCHANGED <<txns, contribs, exchanges, transfers, adjusted, own>>
      /\ live' \in [Currencies -> Quotes] \cup {NULL} /\ archived' \in BOOLEAN
  BY <1>0 DEF RatesMove, ArchiveGoal, balanceVars, BalanceTypeOK
<1>2. BalanceTypeOK'
  BY <1>0, <1>1 DEF BalanceTypeOK
<1>3. TablesFinite' /\ ExchangesDiffer' /\ ReservedWhole'
  BY <1>0, <1>1 DEF TablesFinite, ExchangesDiffer, ReservedWhole
<1>4. OwnIs'
  BY <1>0, <1>1, OwnKept
<1> QED
  BY <1>2, <1>3, <1>4 DEF BalanceInv

LEMMA CreateInv == ASSUME BalanceInv, NEW i \in RowIds, Create(i) PROVE BalanceInv'
<1>1. ASSUME NEW kind \in {"income", "expense"}, NEW c \in All, NEW a \in Amounts,
             CreateTxn([id |-> i, kind |-> kind, currency |-> c, amount |-> a])
      PROVE  BalanceInv'
  BY <1>1, TxnRow, CreateTxnInv
<1>2. ASSUME NEW a \in Amounts, Contribute(i, a) \/ Contribute(i, -a)
      PROVE  BalanceInv'
  BY <1>2, ContributeInv
<1>3. ASSUME NEW from \in All, NEW to \in All, NEW a \in Amounts, NEW b \in Amounts,
             CreateExchange([id |-> i, from |-> from, fromAmount |-> a, to |-> to, toAmount |-> b])
      PROVE  BalanceInv'
  BY <1>3, ExchangeRow, CreateExchangeInv
<1>4. ASSUME NEW v \in Venues, NEW side \in BOOLEAN, NEW c \in All, NEW a \in Amounts,
             NEW dollars \in ToUsd(a, c), NEW peer \in {"LEDGER", "VENUE", "EXTERNAL"},
             NEW w \in Venues \cup {NULL}, peer = "VENUE" <=> w # NULL,
             CreateTransfer([id |-> i, venue |-> v, out |-> side, peer |-> peer, peerVenue |-> w,
                             currency |-> c, amount |-> a, usd |-> dollars])
      PROVE  BalanceInv'
  <2> PICK row : row = [id |-> i, venue |-> v, out |-> side, peer |-> peer, peerVenue |-> w,
                        currency |-> c, amount |-> a, usd |-> dollars]
    OBVIOUS
  <2>1. dollars \in Nat \cup {NULL}
    BY DollarsType
  <2>2. row \in Transfer
    BY <2>1, TransferRow
  <2>3. row.peer = "VENUE" <=> row.peerVenue # NULL
    BY <1>4
  <2> QED
    BY <1>4, <2>2, <2>3, CreateTransferInv
<1>5. ASSUME NEW v \in Venues, NEW a \in Amounts, NEW sign \in {-1, 1},
             AddAdjustment([id |-> i, venue |-> v, usd |-> sign * a])
      PROVE  BalanceInv'
  BY <1>5, AdjustmentRow, AddAdjustmentInv
<1>6. NULL \notin Venues
  BY BalanceAssumption
<1>7. ASSUME NEW v \in Venues, NEW side \in BOOLEAN, NEW c \in All, NEW a \in Amounts,
             NEW dollars \in ToUsd(a, c), NEW peer \in {"LEDGER", "EXTERNAL"},
             CreateTransfer([id |-> i, venue |-> v, out |-> side, peer |-> peer, peerVenue |-> NULL,
                             currency |-> c, amount |-> a, usd |-> dollars])
      PROVE  BalanceInv'
  BY <1>4, <1>7
<1>8. ASSUME NEW v \in Venues, NEW side \in BOOLEAN, NEW c \in All, NEW a \in Amounts,
             NEW dollars \in ToUsd(a, c), NEW w \in Venues,
             CreateTransfer([id |-> i, venue |-> v, out |-> side, peer |-> "VENUE", peerVenue |-> w,
                             currency |-> c, amount |-> a, usd |-> dollars])
      PROVE  BalanceInv'
  BY <1>4, <1>6, <1>8
<1>9. ASSUME \E v \in Venues, side \in BOOLEAN, c \in All, a \in Amounts :
                \E dollars \in ToUsd(a, c) :
                   LET row(peer, w) == [id |-> i, venue |-> v, out |-> side, peer |-> peer,
                                        peerVenue |-> w, currency |-> c, amount |-> a,
                                        usd |-> dollars]
                   IN \/ \E peer \in {"LEDGER", "EXTERNAL"} : CreateTransfer(row(peer, NULL))
                      \/ \E w \in Venues : CreateTransfer(row("VENUE", w))
      PROVE  BalanceInv'
  <2> PICK v \in Venues, side \in BOOLEAN, c \in All, a \in Amounts : \E dollars \in ToUsd(a, c) :
           LET row(peer, w) == [id |-> i, venue |-> v, out |-> side, peer |-> peer,
                                peerVenue |-> w, currency |-> c, amount |-> a,
                                usd |-> dollars]
           IN \/ \E peer \in {"LEDGER", "EXTERNAL"} : CreateTransfer(row(peer, NULL))
              \/ \E w \in Venues : CreateTransfer(row("VENUE", w))
    BY <1>9, Zenon
  <2> PICK dollars \in ToUsd(a, c) :
           LET row(peer, w) == [id |-> i, venue |-> v, out |-> side, peer |-> peer,
                                peerVenue |-> w, currency |-> c, amount |-> a,
                                usd |-> dollars]
           IN \/ \E peer \in {"LEDGER", "EXTERNAL"} : CreateTransfer(row(peer, NULL))
              \/ \E w \in Venues : CreateTransfer(row("VENUE", w))
    OBVIOUS
  <2> QED
    BY <1>7, <1>8, Zenon
<1>10. ASSUME \E v \in Venues, a \in Amounts, sign \in {-1, 1} :
                 AddAdjustment([id |-> i, venue |-> v, usd |-> sign * a])
       PROVE  BalanceInv'
  BY <1>5, <1>10, Zenon
<1>11. ASSUME \E kind \in {"income", "expense"}, c \in All, a \in Amounts :
                 CreateTxn([id |-> i, kind |-> kind, currency |-> c, amount |-> a])
       PROVE  BalanceInv'
  BY <1>1, <1>11, Zenon
<1>12. ASSUME \E from, to \in All, a, b \in Amounts :
                CreateExchange([id |-> i, from |-> from, fromAmount |-> a, to |-> to, toAmount |-> b])
       PROVE  BalanceInv'
  BY <1>3, <1>12, Zenon
<1> QED
  BY <1>2, <1>9, <1>10, <1>11, <1>12, Zenon DEF Create

LEMMA ChangeInv == ASSUME BalanceInv, Change PROVE BalanceInv'
<1>1. ASSUME NEW r \in exchanges, NEW from \in All, NEW to \in All, NEW a \in Amounts, NEW b \in Amounts,
             UpdateExchange(r, [id |-> r.id, from |-> from, fromAmount |-> a, to |-> to, toAmount |-> b])
      PROVE  BalanceInv'
  <2>1. r.id \in RowIds
    BY DEF BalanceInv, BalanceTypeOK, Exchange
  <2> QED
    BY <1>1, <2>1, ExchangeRow, UpdateExchangeInv
<1>2. ASSUME NEW r \in txns, RemoveTxn(r) PROVE BalanceInv'
  BY <1>2, RemoveTxnInv
<1>3. ASSUME NEW r \in contribs, RemoveContribution(r) PROVE BalanceInv'
  BY <1>3, RemoveContributionInv
<1>4. ASSUME NEW r \in exchanges, RemoveExchange(r) PROVE BalanceInv'
  BY <1>4, RemoveExchangeInv
<1>5. ASSUME NEW r \in transfers, RemoveTransfer(r) PROVE BalanceInv'
  BY <1>5, RemoveTransferInv
<1>6. ASSUME NEW r \in adjusted, RemoveAdjustment(r) PROVE BalanceInv'
  BY <1>6, RemoveAdjustmentInv
<1>7. ASSUME NEW on \in BOOLEAN, ArchiveGoal(on) PROVE BalanceInv'
  BY <1>7, QuietInv
<1> QED
  BY <1>1, <1>2, <1>3, <1>4, <1>5, <1>6, <1>7 DEF Change

THEOREM BalanceInvHolds == BalanceSpec => []BalanceInv
<1>1. BalanceInit => BalanceInv
  BY BalanceInitInv
<1>2. BalanceInv /\ [BalanceNext]_balanceVars => BalanceInv'
  BY CreateInv, ChangeInv, QuietInv DEF BalanceNext
<1> QED
  BY <1>1, <1>2, PTL DEF BalanceSpec

-----------------------------------------------------------------------------
(* What the sums of the code come to *)

\* A sum over some of the rows is one over all of them to which the others add nothing.
LEMMA SumOfSome ==
    ASSUME NEW g, NEW f, NEW S, IsFiniteSet(S), \A x \in S : f[x] \in Int,
           DOMAIN g \subseteq S, \A x \in DOMAIN g : f[x] = g[x], \A x \in S \ DOMAIN g : f[x] = 0
    PROVE  SumOf(g) = SumFunctionOnSet(f, S)
<1> PICK T : T = DOMAIN g
  OBVIOUS
<1>1. T \subseteq S /\ (\A x \in T : f[x] = g[x]) /\ \A x \in S \ T : f[x] = 0
  OBVIOUS
<1>2. SumFunctionOnSet(g, T) = SumFunctionOnSet(f, S)
  BY <1>1, SumWhere
<1> QED
  BY <1>2 DEF SumOf

LEMMA TxnsOf ==
    ASSUME BalanceInv, NEW c
    PROVE  SumOf([r \in {x \in txns : x.currency = c} |-> Signed(r)]) = OfTxns(c)
<1> PICK g : g = [r \in {x \in txns : x.currency = c} |-> Signed(r)]
  OBVIOUS
<1> PICK f : f = TxnEffect(c)
  OBVIOUS
<1>1. IsFiniteSet(txns) /\ \A x \in txns : x \in Txn /\ f[x] \in Int
  BY TxnEffectInt DEF BalanceInv, BalanceTypeOK, TablesFinite
<1>2. DOMAIN g = {x \in txns : x.currency = c} /\ \A x \in DOMAIN g : g[x] = Signed(x)
  OBVIOUS
<1>3. \A x \in txns : f[x] = IF x.currency = c THEN Signed(x) ELSE 0
  BY <1>1 DEF TxnEffect
<1>4. SumOf(g) = SumFunctionOnSet(f, txns)
  BY <1>1, <1>2, <1>3, SumOfSome
<1> QED
  BY <1>4 DEF OfTxns

LEMMA ExchangesOf ==
    ASSUME BalanceInv, NEW c
    PROVE  MovementsByCurrency(c) = OfExchanges(c)
<1> PICK g : g = [r \in {x \in exchanges : x.to = c} |-> r.toAmount]
  OBVIOUS
<1> PICK h : h = [r \in {x \in exchanges : x.from = c} |-> r.fromAmount]
  OBVIOUS
<1> PICK b, s, e : b = Bought(c) /\ s = Sold(c) /\ e = ExchangeEffect(c)
  OBVIOUS
<1>1. /\ IsFiniteSet(exchanges)
      /\ \A x \in exchanges : x \in Exchange /\ b[x] \in Int /\ s[x] \in Int /\ e[x] \in Int /\ e[x] = b[x] - s[x]
  BY ExchangeEffectInt DEF BalanceInv, BalanceTypeOK, TablesFinite
<1>2. DOMAIN g = {x \in exchanges : x.to = c} /\ \A x \in DOMAIN g : g[x] = x.toAmount
  OBVIOUS
<1>3. DOMAIN h = {x \in exchanges : x.from = c} /\ \A x \in DOMAIN h : h[x] = x.fromAmount
  OBVIOUS
<1>4. \A x \in exchanges : /\ b[x] = IF x.to = c THEN x.toAmount ELSE 0
                           /\ s[x] = IF x.from = c THEN x.fromAmount ELSE 0
  BY <1>1 DEF Bought, Sold
<1>5. SumOf(g) = SumFunctionOnSet(b, exchanges)
  BY <1>1, <1>2, <1>4, SumOfSome
<1>6. SumOf(h) = SumFunctionOnSet(s, exchanges)
  BY <1>1, <1>3, <1>4, SumOfSome
<1>7. \A x \in exchanges : e[x] \in Int /\ s[x] \in Int /\ b[x] = e[x] + s[x]
  BY <1>1
<1>8. SumFunctionOnSet(b, exchanges) = SumFunctionOnSet(e, exchanges) + SumFunctionOnSet(s, exchanges)
  BY <1>1, <1>7, SumPlus
<1>9. SumFunctionOnSet(e, exchanges) \in Int /\ SumFunctionOnSet(s, exchanges) \in Int
  BY <1>1, SumInt
<1>10. MovementsByCurrency(c) = SumOf(g) - SumOf(h)
  BY DEF MovementsByCurrency
<1>11. OfExchanges(c) = SumFunctionOnSet(e, exchanges)
  BY DEF OfExchanges
<1> QED
  BY <1>5, <1>6, <1>8, <1>9, <1>10, <1>11

LEMMA TransfersOf ==
    ASSUME BalanceInv, NEW c
    PROVE  /\ TransferRows(c) \in Int /\ SumFunctionOnSet(IntoVenues(c), transfers) \in Int
           /\ OfTransfers(c) = SumFunctionOnSet(IntoVenues(c), transfers) - TransferRows(c)
<1> PICK g : g = [r \in {x \in transfers : x.peer = "LEDGER" /\ x.currency = c} |->
                     IF r.out THEN -r.amount ELSE r.amount]
  OBVIOUS
<1> PICK i, w, e : i = IntoVenues(c) /\ w = OutOfWallet(c) /\ e = TransferEffect(c)
  OBVIOUS
<1>1. /\ IsFiniteSet(transfers)
      /\ \A x \in transfers : x \in Transfer /\ i[x] \in Int /\ w[x] \in Int /\ e[x] \in Int /\ e[x] = i[x] - w[x]
  BY TransferEffectInt DEF BalanceInv, BalanceTypeOK, TablesFinite
<1>2. /\ DOMAIN g = {x \in transfers : x.peer = "LEDGER" /\ x.currency = c}
      /\ \A x \in DOMAIN g : g[x] = IF x.out THEN -x.amount ELSE x.amount
  OBVIOUS
<1>3. \A x \in transfers : w[x] = IF x.peer = "LEDGER" /\ x.currency = c
                                  THEN IF x.out THEN -x.amount ELSE x.amount ELSE 0
  BY <1>1 DEF OutOfWallet
<1>4. SumOf(g) = SumFunctionOnSet(w, transfers)
  BY <1>1, <1>2, <1>3, SumOfSome
<1>5. \A x \in transfers : e[x] \in Int /\ w[x] \in Int /\ i[x] = e[x] + w[x]
  BY <1>1
<1>6. SumFunctionOnSet(i, transfers) = SumFunctionOnSet(e, transfers) + SumFunctionOnSet(w, transfers)
  BY <1>1, <1>5, SumPlus
<1>7. /\ SumFunctionOnSet(e, transfers) \in Int /\ SumFunctionOnSet(w, transfers) \in Int
      /\ SumFunctionOnSet(i, transfers) \in Int
  BY <1>1, SumInt
<1>8. TransferRows(c) = SumOf(g)
  BY DEF TransferRows
<1>9. OfTransfers(c) = SumFunctionOnSet(e, transfers)
  BY DEF OfTransfers
<1> QED
  BY <1>4, <1>6, <1>7, <1>8, <1>9

LEMMA ReservedOf ==
    ASSUME BalanceInv
    PROVE  /\ Reserved \in Int
           /\ \A q \in Quotes : IsMultiple(Reserved, q)
<1> PICK g : g = [r \in contribs |-> r.amount]
  OBVIOUS
<1>1. IsFiniteSet(contribs) /\ DOMAIN g = contribs /\ \A x \in contribs : g[x] = x.amount /\ g[x] \in Int
  BY DEF BalanceInv, BalanceTypeOK, TablesFinite, Contribution
<1>2. Reserved = IF archived THEN 0 ELSE SumFunctionOnSet(g, contribs)
  BY <1>1 DEF Reserved, SumOf
<1>3. SumFunctionOnSet(g, contribs) \in Int
  BY <1>1, SumInt
<1>4. ASSUME NEW q \in Quotes PROVE IsMultiple(Reserved, q)
  <2>1. q \in Int
    BY MoneyAssumption
  <2>2. \A x \in contribs : IsMultiple(g[x], q)
    BY <1>1 DEF BalanceInv, ReservedWhole
  <2>3. IsMultiple(SumFunctionOnSet(g, contribs), q)
    BY <1>1, <2>1, <2>2, SumMultiple
  <2>4. IsMultiple(0, q)
    BY <2>1 DEF IsMultiple
  <2> QED
    BY <1>2, <2>3, <2>4
<1> QED
  BY <1>2, <1>3, <1>4

\* What is in dollars on all venues.
OnVenues(c) == SumFunctionOnSet(IntoVenues(c), transfers) + OfAdjustments(c)

LEMMA NetIs ==
    ASSUME BalanceInv, NEW c \in All
    PROVE  /\ Net(c) \in Int /\ OnVenues(c) \in Int
           /\ own[c] = Net(c) + (IF c = GoalIn THEN Reserved ELSE 0) + OnVenues(c)
<1>1. own[c] = OfTxns(c) + OfExchanges(c) + OfTransfers(c) + OfAdjustments(c)
  BY DEF BalanceInv, OwnIs
<1>2. OfTxns(c) \in Int /\ OfExchanges(c) \in Int /\ OfAdjustments(c) \in Int
  BY SumsInt DEF BalanceInv
<1>3. Net(c) = OfTxns(c) - (IF c = GoalIn THEN Reserved ELSE 0) + OfExchanges(c) - TransferRows(c)
  BY TxnsOf, ExchangesOf DEF Net
<1> QED
  BY <1>1, <1>2, <1>3, TransfersOf, ReservedOf DEF OnVenues

-----------------------------------------------------------------------------
(* The venues: what each row is counted as, and where *)

Here  == [r \in Transfer |-> Brought(r)]
There == [r \in Transfer |-> IF r.peer = "VENUE" THEN -Brought(r) ELSE 0]

OwnRows(v)    == {x \in transfers : x.venue = v}
MirrorRows(v) == {x \in transfers : x.peer = "VENUE" /\ x.peerVenue = v}
AdjustedRows(v) == {x \in adjusted : x.venue = v}

LEMMA HereAndThere ==
    ASSUME BalanceInv
    PROVE  /\ IsFiniteSet(transfers) /\ IsFiniteSet(adjusted)
           /\ \A x \in transfers :
                 /\ x \in Transfer /\ x.venue \in Venues
                 /\ x.peer = "VENUE" => x.peerVenue \in Venues
                 /\ Here[x] \in Int /\ There[x] \in Int /\ IntoVenues(usd)[x] = Here[x] + There[x]
           /\ \A x \in adjusted :
                 /\ x.venue \in Venues
                 /\ AdjustmentEffect(usd)[x] \in Int /\ AdjustmentEffect(usd)[x] = x.usd
<1>1. IsFiniteSet(transfers) /\ IsFiniteSet(adjusted)
  BY DEF BalanceInv, TablesFinite
<1>2. ASSUME NEW x \in transfers
      PROVE  /\ x \in Transfer /\ x.venue \in Venues
             /\ x.peer = "VENUE" => x.peerVenue \in Venues
             /\ Here[x] \in Int /\ There[x] \in Int /\ IntoVenues(usd)[x] = Here[x] + There[x]
  <2>1. x \in Transfer /\ (x.peer = "VENUE" <=> x.peerVenue # NULL)
    BY DEF BalanceInv, BalanceTypeOK
  <2>2. x.venue \in Venues /\ (x.peer = "VENUE" => x.peerVenue \in Venues)
    BY <2>1 DEF Transfer
  <2>3. Brought(x) \in Int
    BY <2>1, BroughtInt
  <2>4. /\ Here[x] = Brought(x) /\ There[x] = IF x.peer = "VENUE" THEN -Brought(x) ELSE 0
        /\ IntoVenues(usd)[x] = IF x.peer # "VENUE" THEN Brought(x) ELSE 0
    BY <2>1 DEF Here, There, IntoVenues
  <2> QED
    BY <2>1, <2>2, <2>3, <2>4
<1>3. ASSUME NEW x \in adjusted
      PROVE  /\ x.venue \in Venues
             /\ AdjustmentEffect(usd)[x] \in Int /\ AdjustmentEffect(usd)[x] = x.usd
  BY DEF BalanceInv, BalanceTypeOK, Adjustment, AdjustmentEffect
<1> QED
  BY <1>1, <1>2, <1>3

LEMMA AtVenue ==
    ASSUME BalanceInv, NEW v \in Venues
    PROVE  /\ SumFunctionOnSet(Here, OwnRows(v)) \in Int
           /\ SumFunctionOnSet(There, MirrorRows(v)) \in Int
           /\ SumFunctionOnSet(AdjustmentEffect(usd), AdjustedRows(v)) \in Int
           /\ NetTransferred(v) = SumFunctionOnSet(Here, OwnRows(v)) + SumFunctionOnSet(There, MirrorRows(v))
           /\ AdjustmentTotal(v) = SumFunctionOnSet(AdjustmentEffect(usd), AdjustedRows(v))
<1> PICK f : f = [r \in OwnRows(v) |-> Brought(r)]
  OBVIOUS
<1> PICK g : g = [r \in MirrorRows(v) |-> -Brought(r)]
  OBVIOUS
<1> PICK h : h = [r \in AdjustedRows(v) |-> r.usd]
  OBVIOUS
<1>1. IsFiniteSet(OwnRows(v)) /\ IsFiniteSet(MirrorRows(v)) /\ IsFiniteSet(AdjustedRows(v))
  BY HereAndThere, FS_Subset DEF OwnRows, MirrorRows, AdjustedRows
<1>2. /\ DOMAIN f = OwnRows(v) /\ \A x \in OwnRows(v) : Here[x] \in Int /\ Here[x] = f[x]
      /\ DOMAIN g = MirrorRows(v) /\ \A x \in MirrorRows(v) : There[x] \in Int /\ There[x] = g[x]
      /\ DOMAIN h = AdjustedRows(v)
      /\ \A x \in AdjustedRows(v) :
            AdjustmentEffect(usd)[x] \in Int /\ AdjustmentEffect(usd)[x] = h[x]
  <2>1. \A x \in OwnRows(v) : x \in transfers
    BY DEF OwnRows
  <2>2. \A x \in MirrorRows(v) : x \in transfers /\ x.peer = "VENUE"
    BY DEF MirrorRows
  <2>3. \A x \in AdjustedRows(v) : x \in adjusted
    BY DEF AdjustedRows
  <2>4. \A x \in OwnRows(v) : Here[x] \in Int /\ Here[x] = Brought(x)
    BY <2>1, HereAndThere DEF Here
  <2>5. \A x \in MirrorRows(v) : There[x] \in Int /\ There[x] = -Brought(x)
    BY <2>2, HereAndThere DEF There
  <2> QED
    BY <2>3, <2>4, <2>5, HereAndThere
<1>3. /\ SumOf(f) = SumFunctionOnSet(Here, OwnRows(v))
      /\ SumOf(g) = SumFunctionOnSet(There, MirrorRows(v))
      /\ SumOf(h) = SumFunctionOnSet(AdjustmentEffect(usd), AdjustedRows(v))
  <2>1. SumOf(f) = SumFunctionOnSet(Here, OwnRows(v))
    BY <1>1, <1>2, SumOfSome
  <2>2. SumOf(g) = SumFunctionOnSet(There, MirrorRows(v))
    BY <1>1, <1>2, SumOfSome
  <2>3. SumOf(h) = SumFunctionOnSet(AdjustmentEffect(usd), AdjustedRows(v))
    BY <1>1, <1>2, SumOfSome
  <2> QED
    BY <2>1, <2>2, <2>3
<1>4. NetTransferred(v) = SumOf(f) + SumOf(g) /\ AdjustmentTotal(v) = SumOf(h)
  BY DEF NetTransferred, AdjustmentTotal, OwnRows, MirrorRows, AdjustedRows
<1>5. /\ SumFunctionOnSet(Here, OwnRows(v)) \in Int
      /\ SumFunctionOnSet(There, MirrorRows(v)) \in Int
      /\ SumFunctionOnSet(AdjustmentEffect(usd), AdjustedRows(v)) \in Int
  BY <1>1, <1>2, SumInt
<1> QED
  BY <1>3, <1>4, <1>5

\* Over all venues every row is counted once, as its own venue's or as the other's.
LEMMA OverVenues ==
    ASSUME BalanceInv,
           NEW p, p = [v \in Venues |-> SumFunctionOnSet(Here, OwnRows(v))],
           NEW m, m = [v \in Venues |-> SumFunctionOnSet(There, MirrorRows(v))],
           NEW d, d = [v \in Venues |-> SumFunctionOnSet(AdjustmentEffect(usd), AdjustedRows(v))]
    PROVE  /\ SumFunctionOnSet(p, Venues) + SumFunctionOnSet(m, Venues)
                 = SumFunctionOnSet(IntoVenues(usd), transfers)
           /\ SumFunctionOnSet(d, Venues) = OfAdjustments(usd)
<1>0. IsFiniteSet(Venues)
  BY BalanceAssumption
<1> PICK op : op = [v \in Venues |-> OwnRows(v)]
  OBVIOUS
<1> PICK mp : mp = [v \in Venues |-> MirrorRows(v)]
  OBVIOUS
<1> PICK dp : dp = [v \in Venues |-> AdjustedRows(v)]
  OBVIOUS
<1> PICK mirrored : mirrored = {x \in transfers : x.peer = "VENUE"}
  OBVIOUS
<1>1. SumFunctionOnSet(p, Venues) = SumFunctionOnSet(Here, transfers)
  <2>1. \A v \in Venues : op[v] \in SUBSET transfers /\ p[v] = SumFunctionOnSet(Here, op[v])
    BY DEF OwnRows
  <2>2. \A v, w \in Venues : v # w => op[v] \cap op[w] = {}
    BY DEF OwnRows
  <2>3. UNION {op[v] : v \in Venues} = transfers
    BY HereAndThere DEF OwnRows
  <2>4. IsFiniteSet(transfers) /\ \A x \in transfers : Here[x] \in Int
    BY HereAndThere
  <2>5. SumFunctionOnSet(p, Venues) = SumFunctionOnSet(Here, UNION {op[v] : v \in Venues})
    BY <1>0, <2>1, <2>2, <2>4, SumOfParts
  <2> QED
    BY <2>3, <2>5
<1>2. SumFunctionOnSet(m, Venues) = SumFunctionOnSet(There, transfers)
  <2>1. \A v \in Venues : mp[v] \in SUBSET transfers /\ m[v] = SumFunctionOnSet(There, mp[v])
    BY DEF MirrorRows
  <2>2. \A v, w \in Venues : v # w => mp[v] \cap mp[w] = {}
    BY DEF MirrorRows
  <2>3. UNION {mp[v] : v \in Venues} = mirrored
    BY HereAndThere DEF MirrorRows
  <2>4. IsFiniteSet(transfers) /\ \A x \in transfers : There[x] \in Int
    BY HereAndThere
  <2>5. SumFunctionOnSet(m, Venues) = SumFunctionOnSet(There, UNION {mp[v] : v \in Venues})
    BY <1>0, <2>1, <2>2, <2>4, SumOfParts
  <2>6. mirrored \subseteq transfers /\ \A x \in transfers \ mirrored : There[x] = 0
    BY HereAndThere DEF There
  <2>7. \A x \in mirrored : There[x] = There[x]
    OBVIOUS
  <2>8. SumFunctionOnSet(There, mirrored) = SumFunctionOnSet(There, transfers)
    BY <2>4, <2>6, <2>7, SumWhere
  <2> QED
    BY <2>3, <2>5, <2>8
<1>3. SumFunctionOnSet(d, Venues) = OfAdjustments(usd)
  <2>1. \A v \in Venues : /\ dp[v] \in SUBSET adjusted
                          /\ d[v] = SumFunctionOnSet(AdjustmentEffect(usd), dp[v])
    BY DEF AdjustedRows
  <2>2. \A v, w \in Venues : v # w => dp[v] \cap dp[w] = {}
    BY DEF AdjustedRows
  <2>3. UNION {dp[v] : v \in Venues} = adjusted
    BY HereAndThere DEF AdjustedRows
  <2>4. IsFiniteSet(adjusted) /\ \A x \in adjusted : AdjustmentEffect(usd)[x] \in Int
    BY HereAndThere
  <2>5. SumFunctionOnSet(d, Venues)
          = SumFunctionOnSet(AdjustmentEffect(usd), UNION {dp[v] : v \in Venues})
    BY <1>0, <2>1, <2>2, <2>4, SumOfParts
  <2> QED
    BY <2>3, <2>5 DEF OfAdjustments
<1>4. SumFunctionOnSet(IntoVenues(usd), transfers)
        = SumFunctionOnSet(Here, transfers) + SumFunctionOnSet(There, transfers)
  <2> PICK f : f = IntoVenues(usd)
    OBVIOUS
  <2>1. \A x \in transfers : Here[x] \in Int /\ There[x] \in Int /\ f[x] = Here[x] + There[x]
    BY HereAndThere
  <2>2. SumFunctionOnSet(f, transfers)
          = SumFunctionOnSet(Here, transfers) + SumFunctionOnSet(There, transfers)
    BY <2>1, HereAndThere, SumPlus
  <2> QED
    BY <2>2
<1> QED
  BY <1>1, <1>2, <1>3, <1>4

LEMMA VenueSums ==
    ASSUME BalanceInv, NEW net, net = [v \in Venues |-> NetTransferred(v)],
           NEW val, val = [v \in Venues |-> ValueOf(v)]
    PROVE  /\ \A v \in Venues : net[v] \in Int /\ val[v] \in Int
           /\ SumFunctionOnSet(net, Venues) = SumFunctionOnSet(IntoVenues(usd), transfers)
           /\ SumFunctionOnSet(val, Venues) = OnVenues(usd)
<1>0. IsFiniteSet(Venues)
  BY BalanceAssumption
<1> PICK p : p = [v \in Venues |-> SumFunctionOnSet(Here, OwnRows(v))]
  OBVIOUS
<1> PICK m : m = [v \in Venues |-> SumFunctionOnSet(There, MirrorRows(v))]
  OBVIOUS
<1> PICK d : d = [v \in Venues |-> SumFunctionOnSet(AdjustmentEffect(usd), AdjustedRows(v))]
  OBVIOUS
<1>1. ASSUME NEW v \in Venues
      PROVE  /\ p[v] \in Int /\ m[v] \in Int /\ d[v] \in Int
             /\ net[v] = p[v] + m[v] /\ val[v] = net[v] + d[v]
  <2>1. ValueOf(v) = NetTransferred(v) + AdjustmentTotal(v)
    BY DEF ValueOf
  <2> QED
    BY <2>1, AtVenue
<1>2. \A v \in Venues : net[v] \in Int /\ val[v] \in Int
  BY <1>1
<1>3. SumFunctionOnSet(net, Venues) = SumFunctionOnSet(p, Venues) + SumFunctionOnSet(m, Venues)
  BY <1>0, <1>1, SumPlus
<1>4. SumFunctionOnSet(val, Venues) = SumFunctionOnSet(net, Venues) + SumFunctionOnSet(d, Venues)
  BY <1>0, <1>1, <1>2, SumPlus
<1>5. /\ SumFunctionOnSet(p, Venues) + SumFunctionOnSet(m, Venues)
             = SumFunctionOnSet(IntoVenues(usd), transfers)
      /\ SumFunctionOnSet(d, Venues) = OfAdjustments(usd)
  BY OverVenues
<1> QED
  BY <1>2, <1>3, <1>4, <1>5 DEF OnVenues

LEMMA TotalIs == ASSUME BalanceInv PROVE TotalValueUsd = OnVenues(usd)
<1> PICK net : net = [v \in Venues |-> NetTransferred(v)]
  OBVIOUS
<1> PICK val : val = [v \in Venues |-> ValueOf(v)]
  OBVIOUS
<1>1. SumFunctionOnSet(val, Venues) = OnVenues(usd)
  BY VenueSums
<1>2. TotalValueUsd = SumOf(val) /\ DOMAIN val = Venues
  BY DEF TotalValueUsd
<1> QED
  BY <1>1, <1>2 DEF SumOf

LEMMA AdjustedTotal == ASSUME BalanceInv PROVE SumOf([r \in adjusted |-> r.usd]) = OfAdjustments(usd)
<1> PICK g : g = [r \in adjusted |-> r.usd]
  OBVIOUS
<1>1. DOMAIN g = adjusted /\ \A x \in adjusted : AdjustmentEffect(usd)[x] \in Int /\ AdjustmentEffect(usd)[x] = g[x]
  BY HereAndThere
<1>2. IsFiniteSet(adjusted) /\ DOMAIN g \subseteq adjusted /\ \A x \in adjusted \ DOMAIN g : AdjustmentEffect(usd)[x] = 0
  BY <1>1, HereAndThere
<1>3. SumOf(g) = SumFunctionOnSet(AdjustmentEffect(usd), adjusted)
  BY <1>1, <1>2, SumOfSome
<1> QED
  BY <1>3 DEF OfAdjustments

LEMMA ListIs ==
    ASSUME BalanceInv
    PROVE  /\ ListVenues.total = TotalValueUsd
           /\ ListVenues.result = SumOf([r \in adjusted |-> r.usd])
<1>0. IsFiniteSet(Venues)
  BY BalanceAssumption
<1>net. PICK net : net = [v \in Venues |-> NetTransferred(v)]
  OBVIOUS
<1>val. PICK val : val = [v \in Venues |-> ValueOf(v)]
  OBVIOUS
<1>at. PICK at : at = [v \in Venues |-> [venue |-> v, transferred |-> NetTransferred(v), value |-> ValueOf(v)]]
  OBVIOUS
<1>items. PICK items : items = {at[v] : v \in Venues}
  OBVIOUS
<1>values. PICK values : values = [i \in items |-> i.value]
  OBVIOUS
<1>moved. PICK moved : moved = [i \in items |-> i.transferred]
  OBVIOUS
<1>1. /\ \A v \in Venues : net[v] \in Int /\ val[v] \in Int
      /\ SumFunctionOnSet(net, Venues) = SumFunctionOnSet(IntoVenues(usd), transfers)
      /\ SumFunctionOnSet(val, Venues) = OnVenues(usd)
  BY <1>net, <1>val, VenueSums
<1>2. ASSUME NEW v \in Venues
      PROVE  at[v].venue = v /\ values[at[v]] = val[v] /\ moved[at[v]] = net[v]
  <2>1. at[v] \in items /\ at[v] = [venue |-> v, transferred |-> NetTransferred(v), value |-> ValueOf(v)]
    BY <1>at, <1>items
  <2> QED
    BY <1>net, <1>val, <1>values, <1>moved, <2>1
<1>3. SumFunctionOnSet(values, items) = SumFunctionOnSet(val, Venues)
  <2>1. /\ \A v \in Venues : val[v] \in Int /\ values[at[v]] = val[v]
        /\ \A v, w \in Venues : at[v] = at[w] => v = w
    BY <1>1, <1>2
  <2>2. SumFunctionOnSet(values, Made(at, Venues)) = SumFunctionOnSet(val, Venues)
    BY <1>0, <2>1, SumImage
  <2>3. items = Made(at, Venues)
    BY <1>items DEF Made
  <2> QED
    BY <2>2, <2>3
<1>4. SumFunctionOnSet(moved, items) = SumFunctionOnSet(net, Venues)
  <2>1. /\ \A v \in Venues : net[v] \in Int /\ moved[at[v]] = net[v]
        /\ \A v, w \in Venues : at[v] = at[w] => v = w
    BY <1>1, <1>2
  <2>2. SumFunctionOnSet(moved, Made(at, Venues)) = SumFunctionOnSet(net, Venues)
    BY <1>0, <2>1, SumImage
  <2>3. items = Made(at, Venues)
    BY <1>items DEF Made
  <2> QED
    BY <2>2, <2>3
<1>5. items = {[venue |-> v, transferred |-> NetTransferred(v), value |-> ValueOf(v)] : v \in Venues}
  BY <1>at, <1>items
<1>6. ListVenues.total = SumOf(values) /\ ListVenues.result = SumOf(values) - SumOf(moved)
  BY <1>5, <1>values, <1>moved DEF ListVenues
<1>7. SumOf(values) = SumFunctionOnSet(val, Venues) /\ SumOf(moved) = SumFunctionOnSet(net, Venues)
  <2>1. DOMAIN values = items /\ DOMAIN moved = items
    BY <1>values, <1>moved
  <2> QED
    BY <1>3, <1>4, <2>1 DEF SumOf
<1>9. SumFunctionOnSet(IntoVenues(usd), transfers) \in Int /\ OfAdjustments(usd) \in Int
  BY TransfersOf, SumsInt DEF BalanceInv
<1>10. SumOf(values) - SumOf(moved) = OfAdjustments(usd)
  BY <1>1, <1>7, <1>9 DEF OnVenues
<1> QED
  BY <1>1, <1>6, <1>7, <1>10, TotalIs, AdjustedTotal

-----------------------------------------------------------------------------
(* Converting: every amount that is not in dollars is a multiple of every rate *)

LEMMA MultipleOps ==
    ASSUME NEW q \in Int, NEW a \in Int, NEW b \in Int, IsMultiple(a, q), IsMultiple(b, q)
    PROVE  /\ IsMultiple(a + b, q) /\ IsMultiple(a - b, q) /\ IsMultiple(-a, q) /\ IsMultiple(0, q)
<1> PICK k \in Int : a = q * k
  BY DEF IsMultiple
<1> PICK l \in Int : b = q * l
  BY DEF IsMultiple
<1>1. a + b = q * (k + l) /\ a - b = q * (k - l) /\ -a = q * (-k) /\ 0 = q * 0
  OBVIOUS
<1>2. k + l \in Int /\ k - l \in Int /\ -k \in Int /\ 0 \in Int
  OBVIOUS
<1> QED
  BY <1>1, <1>2 DEF IsMultiple

LEMMA QuoteInt == ASSUME NEW q \in Quotes PROVE q \in Int /\ q \in Nat \ {0} /\ IsMultiple(0, q)
<1>1. q \in Nat \ {0}
  BY MoneyAssumption
<1>2. 0 = q * 0
  BY <1>1
<1> QED
  BY <1>1, <1>2 DEF IsMultiple

LEMMA EffectsWhole ==
    ASSUME NEW q \in Quotes, NEW c \in All, c # usd
    PROVE  /\ \A r \in Txn : IsMultiple(TxnEffect(c)[r], q)
           /\ \A r \in Exchange : IsMultiple(ExchangeEffect(c)[r], q)
           /\ \A r \in Transfer : IsMultiple(TransferEffect(c)[r], q) /\ IntoVenues(c)[r] = 0
           /\ \A r \in Adjustment : AdjustmentEffect(c)[r] = 0
<1>0. q \in Int /\ IsMultiple(0, q)
  BY QuoteInt
<1>1. \A a \in Amounts : a \in Int /\ IsMultiple(a, q) /\ IsMultiple(-a, q)
  BY AmountWhole
<1>2. ASSUME NEW r \in Txn PROVE IsMultiple(TxnEffect(c)[r], q)
  <2>1. r.amount \in Amounts
    BY DEF Txn
  <2> QED
    BY <1>0, <1>1, <2>1 DEF TxnEffect, Signed
<1>3. ASSUME NEW r \in Exchange PROVE IsMultiple(ExchangeEffect(c)[r], q)
  <2>1. r.toAmount \in Amounts /\ r.fromAmount \in Amounts
    BY DEF Exchange
  <2>2. IsMultiple(Bought(c)[r], q) /\ IsMultiple(Sold(c)[r], q)
    BY <1>0, <1>1, <2>1 DEF Bought, Sold
  <2> QED
    BY <1>0, <2>2, ExchangeEffectInt, MultipleOps
<1>4. ASSUME NEW r \in Transfer
      PROVE  IsMultiple(TransferEffect(c)[r], q) /\ IntoVenues(c)[r] = 0
  <2>1. r.amount \in Amounts
    BY DEF Transfer
  <2>2. IsMultiple(OutOfWallet(c)[r], q)
    BY <1>0, <1>1, <2>1 DEF OutOfWallet
  <2>3. IntoVenues(c)[r] = 0
    BY DEF IntoVenues
  <2>4. IsMultiple(IntoVenues(c)[r] - OutOfWallet(c)[r], q)
    BY <1>0, <2>2, <2>3, TransferEffectInt, MultipleOps
  <2> QED
    BY <2>3, <2>4, TransferEffectInt
<1>5. ASSUME NEW r \in Adjustment PROVE AdjustmentEffect(c)[r] = 0
  BY DEF AdjustmentEffect
<1> QED
  BY <1>2, <1>3, <1>4, <1>5

LEMMA OwnWhole ==
    ASSUME BalanceInv, NEW q \in Quotes, NEW c \in All, c # usd
    PROVE  IsMultiple(own[c], q) /\ OnVenues(c) = 0
<1>0. q \in Int
  BY QuoteInt
<1>1. /\ IsFiniteSet(txns) /\ \A r \in txns : IsMultiple(TxnEffect(c)[r], q)
      /\ IsFiniteSet(exchanges) /\ \A r \in exchanges : IsMultiple(ExchangeEffect(c)[r], q)
      /\ IsFiniteSet(transfers) /\ \A r \in transfers : IsMultiple(TransferEffect(c)[r], q) /\ IntoVenues(c)[r] = 0
      /\ IsFiniteSet(adjusted) /\ \A r \in adjusted : AdjustmentEffect(c)[r] = 0
  BY EffectsWhole DEF BalanceInv, BalanceTypeOK, TablesFinite
<1>2. IsMultiple(OfTxns(c), q)
  BY <1>0, <1>1, SumMultiple DEF OfTxns
<1>3. IsMultiple(OfExchanges(c), q)
  BY <1>0, <1>1, SumMultiple DEF OfExchanges
<1>4. IsMultiple(OfTransfers(c), q)
  BY <1>0, <1>1, SumMultiple DEF OfTransfers
<1>5. OfAdjustments(c) = 0
  BY <1>1, SumNone DEF OfAdjustments
<1>6. SumFunctionOnSet(IntoVenues(c), transfers) = 0
  BY <1>1, SumNone
<1>7. OfTxns(c) \in Int /\ OfExchanges(c) \in Int /\ OfTransfers(c) \in Int
  BY SumsInt DEF BalanceInv
<1>8. IsMultiple(OfTxns(c) + OfExchanges(c), q)
  BY <1>0, <1>2, <1>3, <1>7, MultipleOps
<1>9. IsMultiple(OfTxns(c) + OfExchanges(c) + OfTransfers(c), q)
  <2>1. OfTxns(c) + OfExchanges(c) \in Int
    BY <1>7
  <2> QED
    BY <1>0, <1>4, <1>7, <1>8, <2>1, MultipleOps
<1>10. own[c] = OfTxns(c) + OfExchanges(c) + OfTransfers(c)
  <2>1. own[c] = OfTxns(c) + OfExchanges(c) + OfTransfers(c) + OfAdjustments(c)
    BY DEF BalanceInv, OwnIs
  <2> QED
    BY <1>5, <1>7, <2>1
<1> QED
  BY <1>5, <1>6, <1>9, <1>10 DEF OnVenues

LEMMA RateType ==
    ASSUME BalanceTypeOK, live # NULL, NEW c \in All
    PROVE  /\ Rate(c) \in Nat \ {0} /\ Rate(c) \in Int
           /\ c # usd => Rate(c) \in Quotes
           /\ c = usd => Rate(c) = 1
<1>1. c # usd => Rate(c) \in Quotes
  BY DEF BalanceTypeOK, Rate, All
<1>2. c = usd => Rate(c) = 1
  BY DEF Rate
<1> QED
  BY <1>1, <1>2, QuoteInt

LEMMA ConvertInt ==
    ASSUME BalanceTypeOK, live # NULL, NEW c \in All, NEW base \in All, NEW x \in Int
    PROVE  Convert(x, c, base) \in Int
<1> PICK n \in Nat \ {0}, b \in Int : n = Rate(c) /\ b = Rate(base)
  BY RateType
<1> PICK d \in Int : d = x \div n
  OBVIOUS
<1>1. d * b \in Int
  OBVIOUS
<1>2. Convert(x, c, base) = IF c = base THEN x ELSE d * b
  BY DEF Convert
<1> QED
  BY <1>1, <1>2

LEMMA ConvertAdds ==
    ASSUME BalanceTypeOK, live # NULL, NEW c \in All, NEW base \in All, NEW x \in Int, NEW y \in Int,
           IsMultiple(x, Rate(c)), IsMultiple(y, Rate(c))
    PROVE  Convert(x + y, c, base) = Convert(x, c, base) + Convert(y, c, base)
<1> PICK n \in Nat \ {0}, b \in Int : n = Rate(c) /\ b = Rate(base)
  BY RateType
<1> PICK k \in Int : x = n * k
  BY DEF IsMultiple
<1> PICK l \in Int : y = n * l
  BY DEF IsMultiple
<1>1. x + y = n * (k + l) /\ k + l \in Int
  OBVIOUS
<1>2. x \div n = k /\ y \div n = l /\ (x + y) \div n = k + l
  <2>1. (n * k) \div n = k /\ (n * l) \div n = l
    BY Multiple
  <2>2. (n * (k + l)) \div n = k + l
    BY <1>1, Multiple
  <2> QED
    BY <1>1, <2>1, <2>2
<1>3. (k + l) * b = k * b + l * b
  OBVIOUS
<1>4. /\ Convert(x, c, base) = IF c = base THEN x ELSE (x \div n) * b
      /\ Convert(y, c, base) = IF c = base THEN y ELSE (y \div n) * b
      /\ Convert(x + y, c, base) = IF c = base THEN x + y ELSE ((x + y) \div n) * b
  BY DEF Convert
<1> QED
  BY <1>2, <1>3, <1>4

LEMMA ConvertNone ==
    ASSUME BalanceTypeOK, live # NULL, NEW c \in All, NEW base \in All
    PROVE  Convert(0, c, base) = 0
<1> PICK n \in Nat \ {0}, b \in Int : n = Rate(c) /\ b = Rate(base)
  BY RateType
<1>1. 0 \div n = 0 /\ 0 * b = 0
  OBVIOUS
<1>2. Convert(0, c, base) = IF c = base THEN 0 ELSE (0 \div n) * b
  BY DEF Convert
<1> QED
  BY <1>1, <1>2

LEMMA AllFinite == IsFiniteSet(All)
BY BalanceAssumption, FS_AddElement DEF All

\* A sum into a currency is one over all currencies.
LEMMA IntoBase ==
    ASSUME BalanceTypeOK, live # NULL, NEW base \in All, NEW amounts, DOMAIN amounts \subseteq All,
           \A c \in DOMAIN amounts : amounts[c] \in Int,
           NEW f, \A c \in All : f[c] \in Int,
           \A c \in DOMAIN amounts : f[c] = Convert(amounts[c], c, base),
           \A c \in All \ DOMAIN amounts : f[c] = 0
    PROVE  SumIntoBase(amounts, base) = SumFunctionOnSet(f, All)
<1>1. PICK g : g = [c \in DOMAIN amounts |-> Convert(amounts[c], c, base)]
  OBVIOUS
<1>2. DOMAIN g = DOMAIN amounts /\ \A c \in DOMAIN g : g[c] = f[c]
  BY <1>1
<1>3. SumOf(g) = SumFunctionOnSet(f, All)
  <2>1. /\ DOMAIN g \subseteq All /\ \A x \in DOMAIN g : f[x] = g[x]
        /\ \A x \in All \ DOMAIN g : f[x] = 0
    BY <1>2
  <2> QED
    BY <2>1, AllFinite, SumOfSome
<1>4. \A c \in DOMAIN amounts : Convert(amounts[c], c, base) # NULL
  <2>1. NULL \notin Int
    BY MoneyAssumption
  <2> QED
    BY <2>1, ConvertInt
<1>5. SumIntoBase(amounts, base) = SumOf(g)
  BY <1>1, <1>4 DEF SumIntoBase
<1> QED
  BY <1>3, <1>5

InGoal(c) == IF c = GoalIn THEN Reserved ELSE 0
InUsd(c)  == IF c = usd THEN TotalValueUsd ELSE 0

LEMMA PartsWhole ==
    ASSUME BalanceInv, live # NULL, NEW c \in All
    PROVE  /\ Net(c) \in Int /\ InGoal(c) \in Int /\ InUsd(c) \in Int
           /\ own[c] = Net(c) + InGoal(c) + InUsd(c)
           /\ IsMultiple(Net(c), Rate(c)) /\ IsMultiple(InGoal(c), Rate(c))
           /\ IsMultiple(InUsd(c), Rate(c)) /\ IsMultiple(Net(c) + InGoal(c), Rate(c))
<1>1. /\ Net(c) \in Int /\ OnVenues(c) \in Int
      /\ own[c] = Net(c) + InGoal(c) + OnVenues(c)
  BY NetIs DEF InGoal
<1>2. InGoal(c) \in Int
  BY ReservedOf DEF InGoal
<1>3. CASE c = usd
  <2>1. InUsd(c) = OnVenues(c) /\ Rate(c) = 1
    BY <1>3, TotalIs, RateType DEF InUsd, BalanceInv
  <2>2. \A n \in Int : IsMultiple(n, 1)
    BY DEF IsMultiple
  <2>3. Net(c) + InGoal(c) \in Int
    BY <1>1, <1>2
  <2> QED
    BY <1>1, <1>2, <2>1, <2>2, <2>3
<1>4. CASE c # usd
  <2> PICK q : q = Rate(c)
    OBVIOUS
  <2>1. q \in Quotes /\ q \in Int /\ IsMultiple(0, q)
    BY <1>4, RateType, QuoteInt DEF BalanceInv
  <2>2. IsMultiple(own[c], q) /\ OnVenues(c) = 0 /\ InUsd(c) = 0
    BY <1>4, <2>1, OwnWhole DEF InUsd
  <2>3. IsMultiple(InGoal(c), q)
    BY <2>1, ReservedOf DEF InGoal
  <2>4. own[c] = Net(c) + InGoal(c) /\ own[c] \in Int /\ Net(c) = own[c] - InGoal(c)
    BY <1>1, <1>2, <2>2
  <2>5. IsMultiple(own[c] - InGoal(c), q)
    BY <1>2, <2>1, <2>2, <2>3, <2>4, MultipleOps
  <2>6. IsMultiple(Net(c), q) /\ IsMultiple(Net(c) + InGoal(c), q)
    BY <2>2, <2>4, <2>5, Zenon
  <2> QED
    BY <1>1, <1>2, <2>1, <2>2, <2>3, <2>4, <2>6
<1> QED
  BY <1>3, <1>4

LEMMA FreeIs ==
    ASSUME BalanceInv, live # NULL, NEW base \in All,
           NEW f, f = [c \in All |-> Convert(Net(c), c, base)]
    PROVE  FreeBalance(base) = SumFunctionOnSet(f, All)
<1>0. BalanceTypeOK
  BY DEF BalanceInv
<1>1. PICK held : held = {c \in All : Net(c) # 0}
  OBVIOUS
<1>2. PICK amounts : amounts = [c \in held |-> Net(c)]
  OBVIOUS
<1>3. \A c \in All : Net(c) \in Int
  BY NetIs
<1>4. \A c \in All : f[c] = Convert(Net(c), c, base) /\ f[c] \in Int
  BY <1>0, <1>3, ConvertInt
<1>5. /\ DOMAIN amounts = held /\ DOMAIN amounts \subseteq All
      /\ \A c \in DOMAIN amounts : amounts[c] \in Int /\ f[c] = Convert(amounts[c], c, base)
  BY <1>1, <1>2, <1>3, <1>4
<1>6. \A c \in All \ DOMAIN amounts : f[c] = 0
  <2>1. \A c \in All \ DOMAIN amounts : Net(c) = 0
    BY <1>1, <1>5
  <2> QED
    BY <1>0, <1>4, <2>1, ConvertNone
<1>7. SumIntoBase(amounts, base) = SumFunctionOnSet(f, All)
  <2>0. PICK h : h = f
    OBVIOUS
  <2>1. /\ \A c \in All : h[c] \in Int
        /\ \A c \in DOMAIN amounts : amounts[c] \in Int
        /\ \A c \in DOMAIN amounts : h[c] = Convert(amounts[c], c, base)
        /\ \A c \in All \ DOMAIN amounts : h[c] = 0
    BY <1>4, <1>5, <1>6, <2>0
  <2>2. DOMAIN amounts \subseteq All
    BY <1>5
  <2>3. SumIntoBase(amounts, base) = SumFunctionOnSet(h, All)
    BY <1>0, <2>1, <2>2, IntoBase
  <2> QED
    BY <2>0, <2>3
<1> QED
  BY <1>1, <1>2, <1>7 DEF FreeBalance

LEMMA GoalsAre ==
    ASSUME BalanceInv, live # NULL, NEW base \in All,
           NEW f, f = [c \in All |-> Convert(InGoal(c), c, base)]
    PROVE  InGoals(base) = SumFunctionOnSet(f, All)
<1>0. BalanceTypeOK
  BY DEF BalanceInv
<1>1. PICK amounts : amounts = [c \in IF archived THEN {} ELSE {GoalIn} |-> Reserved]
  OBVIOUS
<1>2. \A c \in All : InGoal(c) \in Int
  BY ReservedOf DEF InGoal
<1>3. \A c \in All : f[c] = Convert(InGoal(c), c, base) /\ f[c] \in Int
  BY <1>0, <1>2, ConvertInt
<1>4. /\ GoalIn \in All /\ DOMAIN amounts = (IF archived THEN {} ELSE {GoalIn})
      /\ \A c \in DOMAIN amounts : c = GoalIn /\ amounts[c] = Reserved
  BY <1>1, BalanceAssumption
<1>5. /\ DOMAIN amounts \subseteq All
      /\ \A c \in DOMAIN amounts : amounts[c] \in Int /\ f[c] = Convert(amounts[c], c, base)
  BY <1>3, <1>4, ReservedOf DEF InGoal
<1>6. \A c \in All \ DOMAIN amounts : f[c] = 0
  <2>1. archived => Reserved = 0
    BY DEF Reserved
  <2>2. \A c \in All \ DOMAIN amounts : InGoal(c) = 0
    BY <1>4, <2>1 DEF InGoal
  <2> QED
    BY <1>0, <1>3, <2>2, ConvertNone
<1>7. SumIntoBase(amounts, base) = SumFunctionOnSet(f, All)
  <2>0. PICK h : h = f
    OBVIOUS
  <2>1. /\ \A c \in All : h[c] \in Int
        /\ \A c \in DOMAIN amounts : amounts[c] \in Int
        /\ \A c \in DOMAIN amounts : h[c] = Convert(amounts[c], c, base)
        /\ \A c \in All \ DOMAIN amounts : h[c] = 0
    BY <1>3, <1>5, <1>6, <2>0
  <2>2. DOMAIN amounts \subseteq All
    BY <1>5
  <2>3. SumIntoBase(amounts, base) = SumFunctionOnSet(h, All)
    BY <1>0, <2>1, <2>2, IntoBase
  <2> QED
    BY <2>0, <2>3
<1> QED
  BY <1>1, <1>7 DEF InGoals

LEMMA ExchangesAre ==
    ASSUME BalanceInv, live # NULL, NEW base \in All,
           NEW f, f = [c \in All |-> Convert(InUsd(c), c, base)]
    PROVE  InExchanges(base) = SumFunctionOnSet(f, All)
<1>0. BalanceTypeOK /\ usd \in All
  BY DEF BalanceInv, All
<1>1. TotalValueUsd \in Int
  BY <1>0, TotalIs, NetIs
<1>2. f[usd] = InExchanges(base) /\ f[usd] \in Int
  BY <1>0, <1>1, ConvertInt DEF InUsd, InExchanges
<1>3. \A c \in All \ {usd} : f[c] = 0
  BY <1>0, ConvertNone DEF InUsd
<1>4. SumFunctionOnSet(f, All) = f[usd]
  <2> PICK h : h = f
    OBVIOUS
  <2>1. h[usd] \in Int /\ \A c \in All \ {usd} : h[c] = 0
    BY <1>2, <1>3
  <2>2. SumFunctionOnSet(h, All) = h[usd]
    BY <1>0, <2>1, AllFinite, SumOne
  <2> QED
    BY <2>2
<1> QED
  BY <1>2, <1>4

LEMMA OwnWorthIs ==
    ASSUME BalanceInv, live # NULL, NEW base \in All,
           NEW f, f = [c \in All |-> Convert(own[c], c, base)]
    PROVE  OwnWorth(base) = SumFunctionOnSet(f, All)
<1>0. BalanceTypeOK /\ own \in [All -> Int]
  BY DEF BalanceInv, BalanceTypeOK
<1>1. /\ \A c \in All : f[c] = Convert(own[c], c, base) /\ f[c] \in Int
      /\ DOMAIN own = All /\ \A c \in DOMAIN own : own[c] \in Int
  BY <1>0, ConvertInt
<1>2. SumIntoBase(own, base) = SumFunctionOnSet(f, All)
  <2> PICK h : h = f
    OBVIOUS
  <2>1. /\ \A c \in All : h[c] \in Int
        /\ \A c \in DOMAIN own : h[c] = Convert(own[c], c, base)
        /\ \A c \in All \ DOMAIN own : h[c] = 0
    BY <1>1
  <2> QED
    BY <1>0, <1>1, <2>1, IntoBase
<1> QED
  BY <1>2 DEF OwnWorth

LEMMA WorthIsKept ==
    ASSUME BalanceInv, live # NULL, NEW base \in All
    PROVE  FreeBalance(base) + InGoals(base) + InExchanges(base) = OwnWorth(base)
<1>0. BalanceTypeOK
  BY DEF BalanceInv
<1>f. PICK f : f = [c \in All |-> Convert(Net(c), c, base)]
  OBVIOUS
<1>g. PICK g : g = [c \in All |-> Convert(InGoal(c), c, base)]
  OBVIOUS
<1>h. PICK h : h = [c \in All |-> Convert(InUsd(c), c, base)]
  OBVIOUS
<1>o. PICK o : o = [c \in All |-> Convert(own[c], c, base)]
  OBVIOUS
<1>s. PICK s : s = [c \in All |-> f[c] + g[c]]
  OBVIOUS
<1>1. /\ FreeBalance(base) = SumFunctionOnSet(f, All) /\ InGoals(base) = SumFunctionOnSet(g, All)
      /\ InExchanges(base) = SumFunctionOnSet(h, All) /\ OwnWorth(base) = SumFunctionOnSet(o, All)
  BY <1>f, <1>g, <1>h, <1>o, FreeIs, GoalsAre, ExchangesAre, OwnWorthIs
<1>2. ASSUME NEW c \in All
      PROVE  /\ f[c] \in Int /\ g[c] \in Int /\ h[c] \in Int /\ s[c] \in Int
             /\ s[c] = f[c] + g[c] /\ o[c] = s[c] + h[c]
  <2>1. /\ Net(c) \in Int /\ InGoal(c) \in Int /\ InUsd(c) \in Int /\ Net(c) + InGoal(c) \in Int
        /\ own[c] = (Net(c) + InGoal(c)) + InUsd(c)
        /\ IsMultiple(Net(c), Rate(c)) /\ IsMultiple(InGoal(c), Rate(c))
        /\ IsMultiple(InUsd(c), Rate(c)) /\ IsMultiple(Net(c) + InGoal(c), Rate(c))
    BY PartsWhole
  <2>2. f[c] = Convert(Net(c), c, base) /\ g[c] = Convert(InGoal(c), c, base) /\ h[c] = Convert(InUsd(c), c, base)
    BY <1>f, <1>g, <1>h
  <2>3. f[c] \in Int /\ g[c] \in Int /\ h[c] \in Int
    BY <1>0, <2>1, <2>2, ConvertInt
  <2>4. Convert(Net(c) + InGoal(c), c, base) = f[c] + g[c]
    BY <1>0, <2>1, <2>2, ConvertAdds
  <2>5. Convert((Net(c) + InGoal(c)) + InUsd(c), c, base) = Convert(Net(c) + InGoal(c), c, base) + h[c]
    BY <1>0, <2>1, <2>2, ConvertAdds
  <2>6. o[c] = Convert((Net(c) + InGoal(c)) + InUsd(c), c, base)
    BY <1>o, <2>1
  <2>7. s[c] = f[c] + g[c]
    BY <1>s
  <2> QED
    BY <2>3, <2>4, <2>5, <2>6, <2>7
<1>3. SumFunctionOnSet(s, All) = SumFunctionOnSet(f, All) + SumFunctionOnSet(g, All)
  BY <1>2, AllFinite, SumPlus
<1>4. SumFunctionOnSet(o, All) = SumFunctionOnSet(s, All) + SumFunctionOnSet(h, All)
  BY <1>2, AllFinite, SumPlus
<1> QED
  BY <1>1, <1>3, <1>4

LEMMA NothingElsewhere ==
    ASSUME BalanceInv, NEW base \in All, OnlyIn(base), NEW c \in All, c # base
    PROVE  Net(c) = 0
<1>1. OfTxns(c) = 0
  <2>1. \A r \in txns : TxnEffect(c)[r] = 0
    BY DEF OnlyIn, BalanceInv, BalanceTypeOK, TxnEffect
  <2>2. IsFiniteSet(txns)
    BY DEF BalanceInv, TablesFinite
  <2> QED
    BY <2>1, <2>2, SumNone DEF OfTxns
<1>2. OfExchanges(c) = 0
  BY SumEmpty DEF OnlyIn, OfExchanges
<1>3. TransferRows(c) = 0
  <2>1. PICK g : g = [r \in {x \in transfers : x.peer = "LEDGER" /\ x.currency = c} |->
                        IF r.out THEN -r.amount ELSE r.amount]
    OBVIOUS
  <2>2. DOMAIN g = {}
    BY <2>1 DEF OnlyIn
  <2>3. SumOf(g) = 0
    BY <2>2, SumEmpty DEF SumOf
  <2> QED
    BY <2>1, <2>3 DEF TransferRows
<1>4. InGoal(c) = 0
  <2>1. CASE c = GoalIn
    <3>1. contribs = {}
      BY <2>1 DEF OnlyIn
    <3>2. PICK g : g = [r \in contribs |-> r.amount]
      OBVIOUS
    <3>3. DOMAIN g = {}
      BY <3>1, <3>2
    <3>4. SumOf(g) = 0
      BY <3>3, SumEmpty DEF SumOf
    <3> QED
      BY <3>2, <3>4 DEF InGoal, Reserved
  <2>2. CASE c # GoalIn
    BY <2>2 DEF InGoal
  <2> QED
    BY <2>1, <2>2
<1>5. Net(c) = OfTxns(c) - InGoal(c) + OfExchanges(c) - TransferRows(c)
  BY TxnsOf, ExchangesOf DEF Net, InGoal
<1> QED
  BY <1>1, <1>2, <1>3, <1>4, <1>5

LEMMA OneCurrency ==
    ASSUME BalanceInv, NEW base \in All, OnlyIn(base)
    PROVE  FreeBalance(base) = Net(base)
<1>1. PICK held : held = {c \in All : Net(c) # 0}
  OBVIOUS
<1>2. PICK amounts : amounts = [c \in held |-> Net(c)]
  OBVIOUS
<1>3. Net(base) \in Int
  BY NetIs
<1>4. held \subseteq {base} /\ (base \notin held => Net(base) = 0)
  BY <1>1, NothingElsewhere
<1>5. /\ DOMAIN amounts = held
      /\ \A c \in DOMAIN amounts : Convert(amounts[c], c, base) = Net(base)
  BY <1>2, <1>4 DEF Convert
<1>6. PICK g : g = [c \in DOMAIN amounts |-> Convert(amounts[c], c, base)]
  OBVIOUS
<1>7. PICK f : f = [c \in {base} |-> Net(base)]
  OBVIOUS
<1>8. /\ DOMAIN g \subseteq {base} /\ \A x \in DOMAIN g : f[x] = g[x]
      /\ \A x \in {base} \ DOMAIN g : f[x] = 0
      /\ f[base] = Net(base) /\ \A x \in {base} : f[x] \in Int
  BY <1>3, <1>4, <1>5, <1>6, <1>7
<1>9. IsFiniteSet({base})
  BY FS_Singleton
<1>10. SumOf(g) = SumFunctionOnSet(f, {base})
  BY <1>8, <1>9, SumOfSome
<1>11. SumFunctionOnSet(f, {base}) = f[base]
  <2>1. base \in {base} /\ f[base] \in Int /\ \A x \in {base} \ {base} : f[x] = 0
    BY <1>8
  <2> QED
    BY <1>9, <2>1, SumOne
<1>12. SumIntoBase(amounts, base) = SumOf(g)
  <2>1. NULL \notin Int
    BY MoneyAssumption
  <2>2. ~ \E c \in DOMAIN amounts : Convert(amounts[c], c, base) = NULL
    BY <1>3, <1>5, <2>1
  <2> QED
    BY <1>6, <2>2 DEF SumIntoBase
<1>13. FreeBalance(base) = SumIntoBase(amounts, base)
  BY <1>1, <1>2 DEF FreeBalance
<1> QED
  BY <1>8, <1>10, <1>11, <1>12, <1>13

\* Money that is moved is neither gained nor lost, for any currencies, rates, venues and rows: the
\* free balance, the goals and the venues are together worth what was earned less what was spent
\* (transactions.service.ts:136-215, investing-transfers.service.ts:558-608).
THEOREM MoneyIsKept == BalanceSpec => []NetWorthKept
<1>1. BalanceInv => NetWorthKept
  BY WorthIsKept, OneCurrency, ListIs DEF NetWorthKept
<1> QED
  BY <1>1, BalanceInvHolds, PTL
===============================================================================
