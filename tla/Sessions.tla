------------------------------ MODULE Sessions ------------------------------
(***************************************************************************)
(* Sessions and passwords of the Identity service.                         *)
(*                                                                         *)
(* The authentication provider (Better Auth, outside this repository)      *)
(* keeps the passwords; Identity keeps the session rows, which alone       *)
(* decide what a bearer token may do, and a credential row that says when  *)
(* the password was last replaced.  A use case reads, calls the provider   *)
(* and ends in one engine commit, so the provider has changed a password   *)
(* some time before Identity ends a session.                               *)
(*                                                                         *)
(* A password is the number of times it has been replaced.  An email is    *)
(* its user (Identity!OneIdentityPerEmail), and a clock reading is the     *)
(* password it stamps or the passing of a session's expiry.                *)
(***************************************************************************)
EXTENDS Integers, FiniteSets

CONSTANTS
  Users,
  SessionIds,      \* ids still to be generated: bounds the sessions
  Requests,        \* HTTP requests that may be in flight
  MaxPassword,     \* bounds the replacements of a password
  None             \* an absent row, or a field that is not set

VARIABLES
  password,        \* provider: the account's password, 0 without an account
  confirmed,       \* provider: accounts whose email is verified
  tokens,          \* provider: accounts with a reset token out
  users,           \* collection users: user -> status or None
  credentials,     \* collection credentials: user -> updatedAt or None
  sessions,        \* collection sessions: id -> row or None
  lapsed,          \* sessions whose expiresAt the clock has passed
  announced,       \* the events committed so far, which are the outbox too
  work             \* the use case each request is running

provider == <<password, confirmed, tokens>>
rows     == <<users, credentials, sessions, announced>>
vars     == <<password, confirmed, tokens, users, credentials, sessions,
              lapsed, announced, work>>

-----------------------------------------------------------------------------
(* State. *)

Passwords == 0..MaxPassword

\* by and at are history, read by no step: the password the request had been
\* authenticated by, and the one in force when the session was stored.
SessionRow ==
  [user : Users, status : {"active", "signed_out"},
   by : Passwords, at : Passwords]

NewSession(u, w, now) ==
  [user |-> u, status |-> "active", by |-> w, at |-> now]

Steps ==
  {"idle", "joining", "verifying", "verified", "signIn", "signedIn",
   "session", "bound", "leaving", "changing", "changed",
   "asking", "asked", "resetting", "listed"}

Work ==
  [step : Steps, user : Users \union {None},
   session : SessionIds \union {None}, password : Passwords,
   found : BOOLEAN, ends : SUBSET SessionIds]

Free ==
  [step |-> "idle", user |-> None, session |-> None, password |-> 0,
   found |-> FALSE, ends |-> {}]

\* identity.session_created, identity.session_ended with its reason, and
\* identity.credential_updated with the password it stamps.
Created(s)         == <<"created", s>>
Ended(s, reason)   == <<"ended", s, reason>>
Updated(u, w, why) == <<"updated", u, w, why>>
Asked(u)           == <<"asked", u>>

EndReasons    == {"signed_out", "password_reset"}
UpdateReasons == {"password_change", "password_reset"}

Events ==
  {Created(s) : s \in SessionIds}
    \union {Ended(s, r) : s \in SessionIds, r \in EndReasons}
    \union {Updated(u, w, r) : u \in Users, w \in Passwords,
                               r \in UpdateReasons}
    \union {Asked(u) : u \in Users}

ASSUME PasswordsAreCounted == MaxPassword \in Nat \ {0}
ASSUME NoneIsNoRow ==
  None \notin Users \union SessionIds \union SessionRow \union Passwords
                \union {"pending", "active"}

Init ==
  /\ password    = [u \in Users |-> 0]
  /\ confirmed   = {}
  /\ tokens      = {}
  /\ users       = [u \in Users |-> None]
  /\ credentials = [u \in Users |-> None]
  /\ sessions    = [s \in SessionIds |-> None]
  /\ lapsed      = {}
  /\ announced   = {}
  /\ work        = [q \in Requests |-> Free]

Busy(q, step) == work[q].step = step
Proceed(q, w) == work' = [work EXCEPT ![q] = w]
Go(q, step)   == Proceed(q, [work[q] EXCEPT !.step = step])

-----------------------------------------------------------------------------
(* The provider, as its adapter calls it.  A call with the wrong password, *)
(* or a token that is not good, throws: the request is over (Abandon).     *)

\* Sign-up makes the account or, when there is one, signs in to it, which
\* takes a verified email as every sign-in does.
SignUpOrSignIn(u) ==
  \/ /\ password[u] = 0
     /\ password' = [password EXCEPT ![u] = 1]
  \/ /\ password[u] > 0
     /\ u \in confirmed
     /\ UNCHANGED password

SignInEmail(u) == password[u] > 0 /\ u \in confirmed

ReplacePassword(u) ==
  /\ password[u] < MaxPassword
  /\ password' = [password EXCEPT ![u] = @ + 1]

IssueResetToken(u)   == tokens' = tokens \union {u}
ConsumeResetToken(u) == u \in tokens /\ tokens' = tokens \ {u}

-----------------------------------------------------------------------------
(* One engine commit writes rows, replayable events and outbox messages.   *)

\* Mutation: the events of the ended sessions are left out of the commit.
SilentEnds(ends, reason) == {}

EndEvents(ends, reason) == {Ended(s, reason) : s \in ends}

\* The patch names the ended state and is keyed by the id alone: a session
\* that another request has ended meanwhile is ended once more.
EndSessions(ends, reason, events) ==
  /\ sessions' = [s \in SessionIds |->
                    IF s \in ends THEN [sessions[s] EXCEPT !.status = "signed_out"]
                    ELSE sessions[s]]
  /\ announced' = announced \union EndEvents(ends, reason) \union events

\* Ids are random, so an id is free until its session is stored.
InsertSession(s, u, w) ==
  /\ sessions[s] = None
  /\ sessions' = [sessions EXCEPT ![s] = NewSession(u, w, password[u])]
  /\ announced' = announced \union {Created(s)}

StampCredential(u, w) == credentials' = [credentials EXCEPT ![u] = w]

-----------------------------------------------------------------------------
(* Sign-up and verification, as far as they make sessions. *)

SignUpProvider(q, u) ==
  /\ Busy(q, "idle")
  /\ SignUpOrSignIn(u)
  /\ Proceed(q, [Free EXCEPT !.step = "joining", !.user = u,
                   !.password = password'[u], !.found = users[u] # None])
  /\ UNCHANGED <<confirmed, tokens, users, credentials, sessions, lapsed,
                 announced>>

\* A new identity comes with its credential and a session; the unique index
\* on the email rejects it when another sign-up has been faster.
CreateNewIdentity(q, s) ==
  LET u == work[q].user IN
  /\ Busy(q, "joining")
  /\ ~work[q].found
  /\ users[u] = None
  /\ users' = [users EXCEPT ![u] = "pending"]
  /\ StampCredential(u, 1)
  /\ InsertSession(s, u, work[q].password)
  /\ Proceed(q, Free)
  /\ UNCHANGED <<provider, lapsed>>

\* An identity that exists gets a session, whatever its status.
CreateExistingIdentitySession(q, s) ==
  /\ Busy(q, "joining")
  /\ work[q].found
  /\ InsertSession(s, work[q].user, work[q].password)
  /\ Proceed(q, Free)
  /\ UNCHANGED <<provider, users, credentials, lapsed>>

VerifyEmailRead(q, u) ==
  /\ Busy(q, "idle")
  /\ users[u] = "pending"
  /\ Proceed(q, [Free EXCEPT !.step = "verifying", !.user = u])
  /\ UNCHANGED <<provider, rows, lapsed>>

\* The provider verifies first, the account its token was made for; an
\* identity whose commit then fails stays pending with an account that may
\* sign in.
VerifyEmailProvider(q, account) ==
  /\ Busy(q, "verifying")
  /\ password[account] > 0
  /\ confirmed' = confirmed \union {account}
  /\ Go(q, "verified")
  /\ UNCHANGED <<password, tokens, rows, lapsed>>

VerifyEmailCommit(q) ==
  /\ Busy(q, "verified")
  /\ users' = [users EXCEPT ![work[q].user] = "active"]
  /\ Proceed(q, Free)
  /\ UNCHANGED <<provider, credentials, sessions, lapsed, announced>>

-----------------------------------------------------------------------------
(* Sign in and sign out. *)

CanSignIn(u) == users[u] = "active"

SignInProvider(q, u) ==
  /\ Busy(q, "idle")
  /\ SignInEmail(u)
  /\ Proceed(q, [Free EXCEPT !.step = "signIn", !.user = u,
                   !.password = password[u]])
  /\ UNCHANGED <<provider, rows, lapsed>>

SignInFindUser(q) ==
  /\ Busy(q, "signIn")
  /\ CanSignIn(work[q].user)
  /\ Go(q, "signedIn")
  /\ UNCHANGED <<provider, rows, lapsed>>

SignInCommit(q, s) ==
  /\ Busy(q, "signedIn")
  /\ InsertSession(s, work[q].user, work[q].password)
  /\ Proceed(q, Free)
  /\ UNCHANGED <<provider, users, credentials, lapsed>>

\* Mutation: a session that has been stored is good until it expires.
StoredSessionEligible(s) == sessions[s] # None /\ s \notin lapsed

CurrentSessionEligible(s) ==
  /\ sessions[s] # None
  /\ sessions[s].status = "active"
  /\ s \notin lapsed

\* Mutation: the owner of a session need only exist.
AnyIdentityEligible(u) == users[u] # None

CurrentSessionIdentityEligible(u) == users[u] = "active"

\* Every session-bound request asks for the current session first: the row,
\* then its owner.  Current Session and Current User end with that answer.
CurrentSession(q, s) ==
  /\ Busy(q, "idle")
  /\ CurrentSessionEligible(s)
  /\ Proceed(q, [Free EXCEPT !.step = "session", !.session = s,
                   !.user = sessions[s].user])
  /\ UNCHANGED <<provider, rows, lapsed>>

ResolveCurrentUser(q) ==
  /\ Busy(q, "session")
  /\ CurrentSessionIdentityEligible(work[q].user)
  /\ Go(q, "bound")
  /\ UNCHANGED <<provider, rows, lapsed>>

\* The context of a session-bound request: the actor is the session's user,
\* whatever has become of the session since.
Bound(q) == Busy(q, "bound")

Answer(q) ==
  /\ Bound(q)
  /\ Proceed(q, Free)
  /\ UNCHANGED <<provider, rows, lapsed>>

\* The session is read again and must still be active.  The provider call
\* that follows carries no provider session and changes nothing here.
SignOutRead(q) ==
  /\ Bound(q)
  /\ sessions[work[q].session].status = "active"
  /\ Go(q, "leaving")
  /\ UNCHANGED <<provider, rows, lapsed>>

SignOutCommit(q) ==
  /\ Busy(q, "leaving")
  /\ EndSessions({work[q].session}, "signed_out", {})
  /\ Proceed(q, Free)
  /\ UNCHANGED <<provider, users, credentials, lapsed>>

-----------------------------------------------------------------------------
(* Passwords. *)

AuthenticatedUser(u)     == users[u] = "active"
HasPasswordCredential(u) == credentials[u] # None

\* The user is taken from the context, never from the request.
ChangePasswordRead(q) ==
  /\ Bound(q)
  /\ AuthenticatedUser(work[q].user)
  /\ HasPasswordCredential(work[q].user)
  /\ Go(q, "changing")
  /\ UNCHANGED <<provider, rows, lapsed>>

\* The adapter signs in with the current password, replaces it and signs its
\* temporary session out; the provider revokes its own sessions, not rows.
ChangePasswordProvider(q) ==
  LET u == work[q].user IN
  /\ Busy(q, "changing")
  /\ SignInEmail(u)
  /\ ReplacePassword(u)
  /\ Proceed(q, [work[q] EXCEPT !.step = "changed",
                   !.password = password'[u]])
  /\ UNCHANGED <<confirmed, tokens, rows, lapsed>>

\* Only the credential is written: the session rows stay as they are.
ChangePasswordCommit(q) ==
  LET u == work[q].user  w == work[q].password IN
  /\ Busy(q, "changed")
  /\ StampCredential(u, w)
  /\ announced' = announced \union {Updated(u, w, "password_change")}
  /\ Proceed(q, Free)
  /\ UNCHANGED <<provider, users, sessions, lapsed>>

EligibleForPasswordReset(u) == users[u] = "active"

\* Everybody gets the same answer; only an eligible identity gets a token.
RequestResetRead(q, u) ==
  /\ Busy(q, "idle")
  /\ EligibleForPasswordReset(u)
  /\ Proceed(q, [Free EXCEPT !.step = "asking", !.user = u])
  /\ UNCHANGED <<provider, rows, lapsed>>

RequestResetProvider(q) ==
  /\ Busy(q, "asking")
  /\ IssueResetToken(work[q].user)
  /\ Go(q, "asked")
  /\ UNCHANGED <<password, confirmed, rows, lapsed>>

\* The stored request is a record: a reset does not look for it.
RequestResetCommit(q) ==
  /\ Busy(q, "asked")
  /\ announced' = announced \union {Asked(work[q].user)}
  /\ Proceed(q, Free)
  /\ UNCHANGED <<provider, users, credentials, sessions, lapsed>>

\* The token is used up and the password replaced, whatever comes after.
ResetPasswordProvider(q, u) ==
  /\ Busy(q, "idle")
  /\ ConsumeResetToken(u)
  /\ ReplacePassword(u)
  /\ Proceed(q, [Free EXCEPT !.step = "resetting", !.user = u,
                   !.password = password'[u]])
  /\ UNCHANGED <<confirmed, rows, lapsed>>

\* Mutation: sessions past their expiry are not worth ending.
UnexpiredSessionsOf(u) ==
  {s \in SessionIds \ lapsed :
     /\ sessions[s] # None
     /\ sessions[s].user = u
     /\ sessions[s].status = "active"}

ActiveSessionsOf(u) ==
  {s \in SessionIds :
     /\ sessions[s] # None
     /\ sessions[s].user = u
     /\ sessions[s].status = "active"}

ResetPasswordRead(q) ==
  LET u == work[q].user IN
  /\ Busy(q, "resetting")
  /\ credentials[u] # None
  /\ Proceed(q, [work[q] EXCEPT !.step = "listed",
                   !.ends = ActiveSessionsOf(u)])
  /\ UNCHANGED <<provider, rows, lapsed>>

ResetPasswordCommit(q) ==
  LET u == work[q].user  w == work[q].password IN
  /\ Busy(q, "listed")
  /\ StampCredential(u, w)
  /\ EndSessions(work[q].ends, "password_reset",
                 {Updated(u, w, "password_reset")})
  /\ Proceed(q, Free)
  /\ UNCHANGED <<provider, users, lapsed>>

\* The provider rejects, a check or the commit fails, or the process dies.
Abandon(q) ==
  /\ ~Busy(q, "idle")
  /\ Proceed(q, Free)
  /\ UNCHANGED <<provider, rows, lapsed>>

Lapse(s) ==
  /\ sessions[s] # None
  /\ lapsed' = lapsed \union {s}
  /\ UNCHANGED <<provider, rows, work>>

Next ==
  \/ \E q \in Requests :
       \/ \E u \in Users :
            \/ SignUpProvider(q, u) \/ VerifyEmailRead(q, u)
            \/ SignInProvider(q, u) \/ RequestResetRead(q, u)
            \/ ResetPasswordProvider(q, u) \/ VerifyEmailProvider(q, u)
       \/ \E s \in SessionIds :
            \/ CreateNewIdentity(q, s) \/ CreateExistingIdentitySession(q, s)
            \/ SignInCommit(q, s) \/ CurrentSession(q, s)
       \/ VerifyEmailCommit(q)
       \/ SignInFindUser(q) \/ ResolveCurrentUser(q) \/ Answer(q)
       \/ SignOutRead(q) \/ SignOutCommit(q)
       \/ ChangePasswordRead(q) \/ ChangePasswordProvider(q)
       \/ ChangePasswordCommit(q)
       \/ RequestResetProvider(q) \/ RequestResetCommit(q)
       \/ ResetPasswordRead(q) \/ ResetPasswordCommit(q)
       \/ Abandon(q)
  \/ \E s \in SessionIds : Lapse(s)

Spec == Init /\ [][Next]_vars

-----------------------------------------------------------------------------
(* Properties. *)

TypeOK ==
  /\ password \in [Users -> Passwords]
  /\ confirmed \subseteq Users
  /\ tokens \subseteq Users
  /\ users \in [Users -> {"pending", "active", None}]
  /\ credentials \in [Users -> Passwords \union {None}]
  /\ sessions \in [SessionIds -> SessionRow \union {None}]
  /\ lapsed \subseteq SessionIds
  /\ announced \subseteq Events
  /\ work \in [Requests -> Work]

Active(s) == sessions[s] # None /\ sessions[s].status = "active"

\* "No existing authenticated session is trusted or preserved" by a reset
\* that completes: what is still active was stored under the password the
\* reset put in force, or a later one.  A sign-in that runs alongside may
\* have listed, ended or stored what it likes in between.
ResetEndsStoredSessions ==
  \A s \in SessionIds, w \in Passwords :
    /\ Active(s)
    /\ Updated(sessions[s].user, w, "password_reset") \in announced
    => sessions[s].at >= w

\* "The user must authenticate again with the replacement password": the
\* request behind an active session passed the provider with a password no
\* older than the last completed reset.
ResetEndsOldSessions ==
  \A s \in SessionIds, w \in Passwords :
    /\ Active(s)
    /\ Updated(sessions[s].user, w, "password_reset") \in announced
    => sessions[s].by >= w

\* Events and rows agree whoever ends a session, and when two requests do:
\* replaying the events of a session yields its row.
SessionsAreAnnounced ==
  \A s \in SessionIds :
    /\ sessions[s] # None <=> Created(s) \in announced
    /\ (\E r \in EndReasons : Ended(s, r) \in announced)
         <=> sessions[s] # None /\ ~Active(s)

\* A session-bound request acts for an active identity that owns the session
\* it named: the sessions that sign-up makes for pending identities bind
\* nobody before the verification commits, and an account the provider has
\* verified without Identity binds nobody at all.
ActorsAreActive ==
  \A q \in Requests :
    work[q].step \in {"bound", "leaving", "changing", "changed"} =>
      /\ users[work[q].user] = "active"
      /\ sessions[work[q].session] # None
      /\ sessions[work[q].session].user = work[q].user
=============================================================================
