------------------------------- MODULE Accounts -------------------------------
(***************************************************************************)
(* Accounts of the users and the ways into them: an address with a         *)
(* password, Google and Telegram; the links that confirm an address; the   *)
(* sessions and the rotation of their refresh tokens; the nightly removal  *)
(* of accounts nobody confirmed; and the administrator, who creates,       *)
(* changes and removes accounts directly.                                  *)
(*                                                                         *)
(* A handler is a row of statements none of which is in a transaction.     *)
(* The reads it starts with are one action; every write is one of its own, *)
(* and the process may stop, or another request run, between any two.      *)
(* Passwords and tokens are abstract: a password is there or not, and a    *)
(* token is the row that holds it.                                         *)
(***************************************************************************)
EXTENDS Integers, FiniteSets, Null

CONSTANTS
    Users,       \* primary keys the database may hand out
    Emails,      \* addresses
    Googles,     \* Google identities
    Telegrams,   \* Telegram identities
    GoogleEmail, \* the address Google vouches for, of each identity
    Requests,    \* slots of requests that run at the same time
    LinkTTL, SessionTTL, AccountTTL,   \* how long a link, a session and an unconfirmed account live
    MaxTime,     \* bound of the clock
    Bounds,      \* how many users, links and sessions are ever created and how often an
                 \* administrator writes, in each part of the run
    gone         \* the key of a user who was removed: keys are not used again

Optional(S) == S \cup {NULL}
User    == [email: Optional(Emails), verified: BOOLEAN, password: BOOLEAN,
            google: Optional(Googles), telegram: Optional(Telegrams), created: Nat]

ASSUME AccountsAssumption ==
    /\ GoogleEmail \in [Googles -> Emails]
    /\ {LinkTTL, SessionTTL, AccountTTL, MaxTime} \subseteq Nat
    /\ Bounds \subseteq [users: Nat, links: Nat, sessions: Nat, edits: Nat]
    /\ NULL \notin Users \cup Emails \cup Googles \cup Telegrams
    /\ gone # NULL
    /\ NULL \notin User /\ gone \notin User

VARIABLES
    now,      \* the clock
    user,     \* users
    active,   \* the users with an expense, an income, a goal or a category
    links,    \* email_verification_tokens
    sessions, \* refresh_tokens
    bound,    \* the bounds of this part of the run
    made,     \* links and sessions created, and accounts written by an administrator, so far
    req,      \* requests in progress
    proved,   \* history: <<user, address>> the person proved to hold
    cut,      \* history: users whose registration was cut short, or who followed an expired link
    assigned, \* history: users whose address an administrator wrote and they have not proved since
    tokens,   \* history: <<id, line>> of every refresh token that was issued
    out,      \* history: lines of refresh tokens that were logged out
    late,     \* history: lines that were logged out only with tokens exchanged before
    forked    \* history: lines of which two requests held one token at the same time

tables  == <<user, active, links, sessions, made>>
history == <<proved, cut, assigned, tokens, out, late, forked>>
vars    == <<now, bound, tables, req, history>>

Link    == [id: Nat, user: Users, email: Emails, password: BOOLEAN, expires: Nat]
Session == [id: Nat, line: Nat, user: Users, expires: Nat]
Steps   == {"idle", "register", "drop", "link", "session", "spend", "verify", "adopt", "forget",
            "renew", "setEmail", "setGoogle", "attach", "createGoogle", "createTelegram",
            "setTelegram", "setPassword"}
Request == [pc: Steps, user: Optional(Users), email: Optional(Emails), password: BOOLEAN,
            link: Nat, google: Optional(Googles), telegram: Optional(Telegrams),
            token: Nat, line: Nat, signsIn: BOOLEAN]
Idle    == [pc |-> "idle", user |-> NULL, email |-> NULL, password |-> FALSE, link |-> 0,
            google |-> NULL, telegram |-> NULL, token |-> 0, line |-> 0, signsIn |-> FALSE]

Exists(u) == user[u] \notin {NULL, gone}
Live      == {u \in Users : Exists(u)}

TypeOK ==
    /\ now \in Nat
    /\ user \in [Users -> User \cup {NULL, gone}]
    /\ active \subseteq Live
    /\ links \subseteq Link /\ \A l \in links : l.user \in Live
    /\ sessions \subseteq Session /\ \A s \in sessions : s.user \in Live
    /\ bound \in Bounds /\ made \in [links: Nat, sessions: Nat, edits: Nat]
    /\ req \in [Requests -> Request]
    /\ proved \subseteq Users \X Emails /\ cut \subseteq Users /\ assigned \subseteq Users
    /\ tokens \subseteq Nat \X Nat
    /\ out \subseteq Nat /\ late \subseteq out /\ forked \subseteq Nat

Init ==
    /\ now = 0
    /\ user = [u \in Users |-> NULL]
    /\ active = {} /\ links = {} /\ sessions = {}
    /\ bound \in Bounds /\ made = [links |-> 0, sessions |-> 0, edits |-> 0]
    /\ req = [r \in Requests |-> Idle]
    /\ proved = {} /\ cut = {} /\ assigned = {}
    /\ tokens = {} /\ out = {} /\ late = {} /\ forked = {}

-----------------------------------------------------------------------------
(* The unique columns of users *)

With(column, value) == {u \in Live : user[u][column] = value}

NewUser == [email |-> NULL, verified |-> FALSE, password |-> FALSE, google |-> NULL,
            telegram |-> NULL, created |-> now]

\* A row is inserted under a key never used before.
Insert(u, row) ==
    /\ user[u] = NULL /\ Cardinality({v \in Users : user[v] # NULL}) < bound.users
    /\ user' = [user EXCEPT ![u] = row]

\* prisma.user.update: writes when the row is there and no unique column is somebody else's.
Writable(u, row) ==
    /\ Exists(u)
    /\ \A column \in {"email", "google", "telegram"} :
           row[column] # NULL => With(column, row[column]) \subseteq {u}

Expired(row) == row.expires < now

Step(r, pc)  == req' = [req EXCEPT ![r].pc = pc]
Finish(r)    == req' = [req EXCEPT ![r] = Idle]
Begin(r, request) ==
    /\ req[r] = Idle
    /\ req' = [req EXCEPT ![r] = request]

\* The request answers with an error: what it wrote stays.
Refuse(r) == Finish(r) /\ UNCHANGED <<now, bound, tables, history>>

-----------------------------------------------------------------------------
(* Sessions: issueTokens, refresh, logout *)

SignIn(u) == [Idle EXCEPT !.pc = "session", !.user = u]

\* A request of the user's that has read a token and will issue its successor.
Holding(token) == {r \in Requests : req[r].pc \in {"spend", "session"} /\ req[r].token = token}

\* issueTokens: expired tokens of the user are deleted, the new one is inserted.
IssueTokens(r) ==
    LET u == req[r].user
        id == made.sessions + 1
        session == [id |-> id, user |-> u, expires |-> now + SessionTTL,
                    line |-> IF req[r].line = 0 THEN id ELSE req[r].line]
    IN /\ req[r].pc = "session" /\ Exists(u) /\ id <= bound.sessions
       /\ sessions' = {s \in sessions : s.user = u => ~Expired(s)} \cup {session}
       /\ made' = [made EXCEPT !.sessions = id]
       /\ tokens' = tokens \cup {<<id, session.line>>}
       /\ Finish(r)
       /\ UNCHANGED <<now, bound, user, active, links, proved, cut, assigned, out, late, forked>>

\* login, with the right password
Login(r, u) ==
    /\ Exists(u) /\ user[u].email # NULL /\ user[u].password
    /\ Begin(r, SignIn(u))
    /\ UNCHANGED <<now, bound, tables, history>>

\* refresh: the token is read; an expired one is deleted and refused.
Refresh(r, s) ==
    /\ IF Expired(s)
       THEN /\ sessions' = sessions \ {s}
            /\ UNCHANGED <<req, forked>>
       ELSE /\ Begin(r, [SignIn(s.user) EXCEPT !.pc = "spend", !.token = s.id, !.line = s.line])
            /\ forked' = IF Holding(s.id) = {} THEN forked ELSE forked \cup {s.line}
            /\ UNCHANGED sessions
    /\ UNCHANGED <<now, bound, user, active, links, made, proved, cut, assigned, tokens, out, late>>

\* Faulty version: the token that was exchanged stays valid.
KeepsToken(token) == {}

\* The token that is exchanged is deleted before its successor is issued.
Spends(token) == {s \in sessions : s.id = token}

Spend(r) ==
    /\ req[r].pc = "spend"
    /\ sessions' = sessions \ Spends(req[r].token)
    /\ Step(r, "session")
    /\ UNCHANGED <<now, bound, user, active, links, made, history>>

\* The token has a successor, or a request has read it and will issue one.
Superseded(id, line) ==
    \/ \E successor \in tokens : successor[2] = line /\ successor[1] > id
    \/ Holding(id) # {}

\* logout, with any token that was ever issued: its row is deleted if it is there, and the answer
\* is the same if it is not.
Logout(id, line) ==
    /\ <<id, line>> \in tokens
    /\ sessions' = {s \in sessions : s.id # id}
    /\ out' = out \cup {line}
    /\ late' = IF Superseded(id, line) THEN late \cup ({line} \ out) ELSE late \ {line}
    /\ UNCHANGED <<now, bound, user, active, links, made, req, proved, cut, assigned, tokens, forked>>

-----------------------------------------------------------------------------
(* Registration and the links that confirm an address *)

Register(r, e) ==
    /\ With("email", e) = {}
    /\ Begin(r, [Idle EXCEPT !.pc = "register", !.email = e])
    /\ UNCHANGED <<now, bound, tables, history>>

RegisterUser(r) ==
    LET row == [NewUser EXCEPT !.email = req[r].email, !.password = TRUE]
    IN /\ req[r].pc = "register" /\ With("email", req[r].email) = {}
       /\ \E u \in Users :
            /\ Insert(u, row)
            /\ req' = [req EXCEPT ![r].pc = "drop", ![r].user = u, ![r].signsIn = TRUE]
       /\ UNCHANGED <<now, bound, active, links, sessions, made, history>>

\* setCredentials of an account without an address: the address and the password wait in a link.
AskForEmail(r, u, e) ==
    /\ Exists(u) /\ user[u].email = NULL /\ With("email", e) = {}
    /\ Begin(r, [Idle EXCEPT !.pc = "drop", !.user = u, !.email = e, !.password = TRUE])
    /\ UNCHANGED <<now, bound, tables, history>>

\* setCredentials of an account with an address: only the password is written.
ChangePassword(r, u) ==
    /\ Exists(u) /\ user[u].email # NULL
    /\ Begin(r, [Idle EXCEPT !.pc = "setPassword", !.user = u])
    /\ UNCHANGED <<now, bound, tables, history>>

SetPassword(r) ==
    /\ req[r].pc = "setPassword" /\ Exists(req[r].user)
    /\ user' = [user EXCEPT ![req[r].user].password = TRUE]
    /\ Finish(r)
    /\ UNCHANGED <<now, bound, active, links, sessions, made, history>>

\* issueEmailVerification: links of the user are deleted, then the new one is inserted.
DropLinks(r) ==
    /\ req[r].pc = "drop"
    /\ links' = {l \in links : l.user # req[r].user}
    /\ Step(r, "link")
    /\ UNCHANGED <<now, bound, user, active, sessions, made, history>>

\* The mail is sent last: when that fails a registration ends without a session.
CreateLink(r) ==
    LET id == made.links + 1
    IN /\ req[r].pc = "link" /\ Exists(req[r].user) /\ id <= bound.links
       /\ links' = links \cup {[id |-> id, user |-> req[r].user, email |-> req[r].email,
                                password |-> req[r].password, expires |-> now + LinkTTL]}
       /\ made' = [made EXCEPT !.links = id]
       /\ \/ Finish(r)
          \/ req[r].signsIn /\ req' = [req EXCEPT ![r] = SignIn(req[r].user)]
       /\ UNCHANGED <<now, bound, user, active, sessions, history>>

\* Faulty version: asking again replaces the link as registering did.
Replaced == "drop"

\* resendEmailConfirmation writes the new token and its lifetime into the link there is.
Resent == "renew"

Resend(r, u) ==
    LET own == {l \in links : l.user = u}
    IN /\ Exists(u) /\ ~(user[u].email # NULL /\ user[u].verified)
       /\ \E newest \in own :
            /\ \A l \in own : l.id <= newest.id
            /\ Begin(r, [Idle EXCEPT !.pc = Resent, !.user = u, !.email = newest.email,
                                     !.password = newest.password, !.link = newest.id])
       /\ UNCHANGED <<now, bound, tables, history>>

Renew(r) ==
    /\ req[r].pc = "renew" /\ \E l \in links : l.id = req[r].link
    /\ links' = {[l EXCEPT !.expires = IF l.id = req[r].link THEN now + LinkTTL ELSE @] : l \in links}
    /\ Finish(r)
    /\ UNCHANGED <<now, bound, user, active, sessions, made, history>>

\* confirmEmail, once the link and its user are read: what it does next.
AfterReading(u, l) ==
    CASE user[u].email = l.email -> "verify"
      [] user[u].email \notin {l.email, NULL} -> "forget"
      [] user[u].email = NULL /\ With("email", l.email) # {} -> "forget"
      [] OTHER -> "adopt"

Confirm(r, l) ==
    /\ Begin(r, [Idle EXCEPT !.pc = IF Expired(l) THEN "forget" ELSE AfterReading(l.user, l),
                             !.user = l.user, !.email = l.email, !.password = l.password,
                             !.link = l.id])
    /\ cut' = IF Expired(l) THEN cut \cup {l.user} ELSE cut
    /\ UNCHANGED <<now, bound, tables, proved, assigned, tokens, out, late, forked>>

Verified(row) == [row EXCEPT !.verified = TRUE]

\* Somebody proves to hold an address, and the account may have another by now.
Proves(u, e, row) ==
    /\ proved' = proved \cup {<<u, e>>}
    /\ assigned' = IF row.email = e THEN assigned \ {u} ELSE assigned
    /\ UNCHANGED <<cut, tokens, out, late, forked>>

\* Faulty version: the address is put on the account and not marked as confirmed.
AdoptedOnly(row, email, password) == [row EXCEPT !.email = email, !.password = password]

Adopted(row, email, password) ==
    Verified([row EXCEPT !.email = email, !.password = password])

\* The account is written first and the link deleted after: whoever is cut off in between follows
\* the link again.
WriteConfirmed(r) ==
    LET q == req[r]
        row == IF q.pc = "verify" THEN Verified(user[q.user])
               ELSE Adopted(user[q.user], q.email, q.password)
    IN /\ q.pc \in {"verify", "adopt"} /\ Exists(q.user) /\ Writable(q.user, row)
       /\ user' = [user EXCEPT ![q.user] = row]
       /\ Proves(q.user, q.email, row)
       /\ Step(r, "forget")
       /\ UNCHANGED <<now, bound, active, links, sessions, made>>

ForgetLink(r) ==
    /\ req[r].pc = "forget"
    /\ links' = {l \in links : l.id # req[r].link}
    /\ Finish(r)
    /\ UNCHANGED <<now, bound, user, active, sessions, made, history>>

-----------------------------------------------------------------------------
(* Google and Telegram *)

\* loginWithGoogle: by the identity, else by its address, else a new account.
LoginWithGoogle(r, g) ==
    /\ \/ \E u \in With("google", g) : Begin(r, SignIn(u))
       \/ /\ With("google", g) = {}
          /\ \E u \in With("email", GoogleEmail[g]) :
                 Begin(r, [SignIn(u) EXCEPT !.pc = "attach", !.google = g])
       \/ /\ With("google", g) = {} /\ With("email", GoogleEmail[g]) = {}
          /\ Begin(r, [Idle EXCEPT !.pc = "createGoogle", !.google = g])
    /\ UNCHANGED <<now, bound, tables, history>>

AttachGoogle(r) ==
    LET u == req[r].user
        row == Verified([user[u] EXCEPT !.google = req[r].google])
    IN /\ req[r].pc = "attach" /\ Exists(u) /\ Writable(u, row)
       /\ user' = [user EXCEPT ![u] = row]
       /\ Proves(u, GoogleEmail[req[r].google], row)
       /\ Step(r, "session")
       /\ UNCHANGED <<now, bound, active, links, sessions, made>>

CreateWithGoogle(r) ==
    LET g == req[r].google
        row == [NewUser EXCEPT !.email = GoogleEmail[g], !.google = g, !.verified = TRUE]
    IN /\ req[r].pc = "createGoogle"
       /\ With("google", g) = {} /\ With("email", GoogleEmail[g]) = {}
       /\ \E u \in Users :
            /\ Insert(u, row)
            /\ req' = [req EXCEPT ![r] = SignIn(u)]
            /\ Proves(u, GoogleEmail[g], row)
       /\ UNCHANGED <<now, bound, active, links, sessions, made>>

\* linkGoogle writes the address and then the identity.
LinkGoogle(r, u, g) ==
    /\ Exists(u)
    /\ With("google", g) \subseteq {u} /\ With("email", GoogleEmail[g]) \subseteq {u}
    /\ Begin(r, [Idle EXCEPT !.pc = "setEmail", !.user = u, !.google = g])
    /\ UNCHANGED <<now, bound, tables, history>>

SetEmail(r) ==
    LET u == req[r].user
        e == GoogleEmail[req[r].google]
        row == Verified([user[u] EXCEPT !.email = e])
    IN /\ req[r].pc = "setEmail" /\ Exists(u) /\ Writable(u, row)
       /\ user' = [user EXCEPT ![u] = row]
       /\ Proves(u, e, row)
       /\ Step(r, "setGoogle")
       /\ UNCHANGED <<now, bound, active, links, sessions, made>>

SetGoogleId(r) ==
    LET u == req[r].user
        row == [user[u] EXCEPT !.google = req[r].google]
    IN /\ req[r].pc = "setGoogle" /\ Exists(u) /\ Writable(u, row)
       /\ user' = [user EXCEPT ![u] = row]
       /\ Finish(r)
       /\ UNCHANGED <<now, bound, active, links, sessions, made, history>>

LoginWithTelegram(r, t) ==
    /\ \/ \E u \in With("telegram", t) : Begin(r, SignIn(u))
       \/ /\ With("telegram", t) = {}
          /\ Begin(r, [Idle EXCEPT !.pc = "createTelegram", !.telegram = t])
    /\ UNCHANGED <<now, bound, tables, history>>

CreateWithTelegram(r) ==
    /\ req[r].pc = "createTelegram" /\ With("telegram", req[r].telegram) = {}
    /\ \E u \in Users :
         /\ Insert(u, [NewUser EXCEPT !.telegram = req[r].telegram])
         /\ req' = [req EXCEPT ![r] = SignIn(u)]
    /\ UNCHANGED <<now, bound, active, links, sessions, made, history>>

LinkTelegram(r, u, t) ==
    /\ Exists(u) /\ With("telegram", t) \subseteq {u}
    /\ Begin(r, [Idle EXCEPT !.pc = "setTelegram", !.user = u, !.telegram = t])
    /\ UNCHANGED <<now, bound, tables, history>>

SetTelegramId(r) ==
    LET u == req[r].user
        row == [user[u] EXCEPT !.telegram = req[r].telegram]
    IN /\ req[r].pc = "setTelegram" /\ Exists(u) /\ Writable(u, row)
       /\ user' = [user EXCEPT ![u] = row]
       /\ Finish(r)
       /\ UNCHANGED <<now, bound, active, links, sessions, made, history>>

-----------------------------------------------------------------------------
(* The nightly removal, the administrator, the user's own data, time and failures *)

\* Faulty version: links of the removed users stay.
LinksStay(removed) ==
    /\ sessions' = {s \in sessions : s.user \notin removed}
    /\ UNCHANGED links

\* Foreign keys of the tokens: they go with their user.
Cascaded(removed) ==
    /\ links' = {l \in links : l.user \notin removed}
    /\ sessions' = {s \in sessions : s.user \notin removed}

\* purgeUnverifiedAccounts, one statement
Abandoned(u) ==
    /\ Exists(u)
    /\ ~user[u].verified /\ user[u].email # NULL /\ user[u].password
    /\ user[u].created < now - AccountTTL
    /\ u \notin active

Purge ==
    LET removed == {u \in Users : Abandoned(u)}
    IN /\ removed # {}
       /\ user' = [u \in Users |-> IF u \in removed THEN gone ELSE user[u]]
       /\ Cascaded(removed)
       /\ UNCHANGED <<now, bound, active, made, req, history>>

(***************************************************************************)
(* The administrator writes accounts directly: no link is mailed, and      *)
(* whether the address is confirmed stays as it was.                       *)
(***************************************************************************)
Assigns(u) == assigned' = assigned \cup {u} /\ UNCHANGED <<proved, cut, tokens, out, late, forked>>

Edits == made.edits < bound.edits /\ made' = [made EXCEPT !.edits = @ + 1]

\* POST /users, the address left out or not
CreateUser(u, e) ==
    /\ e # NULL => With("email", e) = {}
    /\ Insert(u, [NewUser EXCEPT !.email = e])
    /\ Edits
    /\ IF e = NULL THEN UNCHANGED history ELSE Assigns(u)
    /\ UNCHANGED <<now, bound, active, links, sessions, req>>

\* PATCH /users/:id, with another address or none
UpdateUser(u, e) ==
    LET row == [user[u] EXCEPT !.email = e]
    IN /\ Exists(u) /\ e # user[u].email /\ Writable(u, row)
       /\ user' = [user EXCEPT ![u] = row]
       /\ Edits /\ Assigns(u)
       /\ UNCHANGED <<now, bound, active, links, sessions, req>>

\* DELETE /users/:id and /admin/users/:id
RemoveUser(u) ==
    /\ Exists(u)
    /\ user' = [user EXCEPT ![u] = gone]
    /\ active' = active \ {u}
    /\ Cascaded({u})
    /\ Edits
    /\ UNCHANGED <<now, bound, req, history>>

Use(u) ==
    /\ Exists(u)
    /\ active' = active \cup {u}
    /\ UNCHANGED <<now, bound, user, links, sessions, made, req, history>>

Tick ==
    /\ now < MaxTime
    /\ now' = now + 1
    /\ UNCHANGED <<bound, tables, req, history>>

\* The statement a request is at fails: its row is gone, or a value is somebody else's.
Fails(r) ==
    LET q == req[r]
    IN /\ q.pc # "idle"
       /\ \/ q.user # NULL /\ ~Exists(q.user)
          \/ q.pc = "register" /\ With("email", q.email) # {}
          \/ q.pc = "renew" /\ \A l \in links : l.id # q.link
          \/ /\ q.pc \in {"attach", "setGoogle", "createGoogle"}
             /\ With("google", q.google) \ {q.user} # {}
          \/ /\ q.pc \in {"setEmail", "createGoogle"}
             /\ With("email", GoogleEmail[q.google]) \ {q.user} # {}
          \/ q.pc = "adopt" /\ With("email", q.email) \ {q.user} # {}
          \/ /\ q.pc \in {"setTelegram", "createTelegram"}
             /\ With("telegram", q.telegram) \ {q.user} # {}
       /\ Refuse(r)

\* The process stops: requests are lost between two of their statements.
Crash ==
    /\ \E r \in Requests : req[r] # Idle
    /\ req' = [r \in Requests |-> Idle]
    /\ cut' = cut \cup {req[r].user : r \in {q \in Requests : req[q].signsIn}}
    /\ UNCHANGED <<now, bound, tables, proved, assigned, tokens, out, late, forked>>

Next ==
    \/ \E r \in Requests :
         \/ IssueTokens(r) \/ Spend(r) \/ RegisterUser(r) \/ SetPassword(r)
         \/ DropLinks(r) \/ CreateLink(r) \/ Renew(r) \/ WriteConfirmed(r) \/ ForgetLink(r)
         \/ AttachGoogle(r) \/ CreateWithGoogle(r) \/ SetEmail(r) \/ SetGoogleId(r)
         \/ CreateWithTelegram(r) \/ SetTelegramId(r) \/ Fails(r)
         \/ \E s \in sessions : Refresh(r, s)
         \/ \E l \in links : Confirm(r, l)
         \/ \E e \in Emails : Register(r, e)
         \/ \E g \in Googles : LoginWithGoogle(r, g)
         \/ \E t \in Telegrams : LoginWithTelegram(r, t)
         \/ \E u \in Users :
              \/ Login(r, u) \/ ChangePassword(r, u) \/ Resend(r, u)
              \/ \E e \in Emails : AskForEmail(r, u, e)
              \/ \E g \in Googles : LinkGoogle(r, u, g)
              \/ \E t \in Telegrams : LinkTelegram(r, u, t)
    \/ \E token \in tokens : Logout(token[1], token[2])
    \/ \E u \in Users :
         \/ Use(u) \/ RemoveUser(u)
         \/ \E e \in Optional(Emails) : CreateUser(u, e) \/ UpdateUser(u, e)
    \/ Purge \/ Tick \/ Crash

Spec == Init /\ [][Next]_vars

-----------------------------------------------------------------------------
(* Properties *)

\* An account is marked as confirmed exactly when the person proved to hold an address, by the
\* link mailed there or through Google (auth.service.ts:203-246, users.service.ts:116-158), and
\* then it is the address on the account: whichever order confirmations, Google links and
\* registrations of one account end in. But an administrator who writes the address leaves the
\* mark as it was (users.service.ts:55-58), against what the schema says of it ("Whether the email
\* on this account has been confirmed", schema.prisma:59): of what is on the account it says nothing
\* then, until the person proves to hold that.
VerifiedIsProved ==
    \A u \in Live :
        /\ user[u].verified <=> \E e \in Emails : <<u, e>> \in proved
        /\ user[u].verified /\ u \notin assigned =>
               user[u].email # NULL /\ <<u, user[u].email>> \in proved

\* Whoever has not confirmed an address has a link to confirm it by, and may have it sent again
\* (auth.constants.ts:11-12). Three exceptions of the code: a registration cut short before its link
\* is created, an expired link that is followed, which deletes it (auth.service.ts:211-214), and an
\* address an administrator wrote, to which no link is mailed (users.service.ts:35-40, 55-58).
AlwaysConfirmable ==
    \A u \in Live \ (cut \cup assigned) :
        user[u].email # NULL /\ ~user[u].verified =>
            \/ \E l \in links : l.user = u /\ l.email = user[u].email
            \/ \E r \in Requests : req[r].user = u /\ req[r].pc \in {"drop", "link"}

\* After a logout no refresh token of that sign-in is left (auth.service.ts:72-88). Two exceptions
\* of the code: a logout with a token that has been exchanged, or is being, which finds no row to
\* delete or is too late, and is answered as any other; and two requests that exchanged one token
\* at once, each of which issued a successor.
LogoutEnds ==
    \A s \in sessions : s.line \in out => s.line \in late \cup forked
=============================================================================
