------------------------------ MODULE Identity ------------------------------
(***************************************************************************)
(* The Identity service as far as joining a tenant goes: invitation        *)
(* sign-up, email verification and the projection of Membership's          *)
(* invitations that sign-up is judged by.                                  *)
(*                                                                         *)
(* A use case reads, calls the authentication provider (Better Auth, which *)
(* is outside this repository and outside the transaction) and ends in one *)
(* engine commit of rows and outbox messages.  Delivery of a message is at *)
(* least once and in any order: sent only grows, and a message is owed     *)
(* until its consumer has handled it once.                                 *)
(*                                                                         *)
(* Profiles, credentials and sessions are written by the same commits and  *)
(* read by none of these steps; they are left out.                         *)
(***************************************************************************)
EXTENDS Integers, FiniteSets

CONSTANTS
  Emails,          \* normalized addresses
  UserIds,         \* ids the service can still generate: bounds the users
  InvitationIds,
  Requests,        \* HTTP requests that may be in flight
  None             \* an absent row, or a field that is not set

VARIABLES
  users,           \* collection users: id -> row or None
  known,           \* collection known invitations: id -> row or None
  lapsed,          \* invitations whose expiresAt the clock has passed
  sent,            \* every message an outbox has published
  owed,            \* messages of Identity that Membership still has to handle
  work             \* the use case each request is running

identity == <<users, known, work>>

-----------------------------------------------------------------------------
(* State. *)

\* emailVerified and the status of the user's one verification are written
\* by the same commit as the user's status, so the status stands for them.
\* No code writes the declared statuses suspended and disabled.
UserRow == [email : Emails, status : {"pending", "active"}]

KnownStatuses == {"pending", "expired", "revoked", "redeemed"}
KnownRow      == [email : Emails, status : KnownStatuses]

Steps ==
  {"idle", "signUp", "commit", "verify", "activate"}

Work ==
  [step : Steps, inv : InvitationIds \union {None},
   email : Emails \union {None}, user : UserIds \union {None}]

Free == [step |-> "idle", inv |-> None, email |-> None, user |-> None]

\* membership.invitation.created carries the invited email, the other three
\* the id alone; identity.invitation_redemption.requested names the
\* invitation and the user, identity.user.activated the user.
Created(v, e)    == <<"created", v, e>>
Settled(s, v)    == <<s, v>>
Redemption(v, u) == <<"redemption", v, u>>
Activated(u)     == <<"activated", u>>

Redemptions == {Redemption(v, u) : v \in InvitationIds, u \in UserIds}
Activations == {Activated(u) : u \in UserIds}
Messages ==
  Redemptions \union Activations
    \union {Created(v, e) : v \in InvitationIds, e \in Emails}
    \union {Settled(s, v) : s \in KnownStatuses, v \in InvitationIds}

ASSUME NoneIsNoIdentity ==
  /\ None \notin UserRow \union KnownRow
  /\ None \notin Emails \union UserIds \union InvitationIds

IdentityInit ==
  /\ users = [u \in UserIds |-> None]
  /\ known = [v \in InvitationIds |-> None]
  /\ sent  = {}
  /\ owed  = {}
  /\ work  = [q \in Requests |-> Free]

-----------------------------------------------------------------------------
(* The known-invitation projection: four reactions, one update each.       *)

\* The upsert writes the whole row, status pending included, whatever the
\* projection has learnt of the invitation since.
RecordKnownInvitation(v, e) ==
  /\ Created(v, e) \in sent
  /\ known' = [known EXCEPT ![v] = [email |-> e, status |-> "pending"]]
  /\ UNCHANGED <<users, sent, owed, work>>

\* Mutation: the reaction to a redemption marks the wrong status.
MarkedExpired(event) == IF event = "redeemed" THEN "expired" ELSE event

\* Each of the three reactions marks the status its event is named for.
MarkedStatus(event) == event

\* An update without upsert: it matches nothing before created has arrived.
MarkKnownInvitation(event, v) ==
  /\ Settled(event, v) \in sent
  /\ known[v] # None
  /\ known' = [known EXCEPT ![v].status = MarkedStatus(event)]
  /\ UNCHANGED <<users, sent, owed, work>>

-----------------------------------------------------------------------------
(* Invitation sign-up. *)

Busy(q, step) == work[q].step = step
Proceed(q, w) == work' = [work EXCEPT ![q] = w]

FindUserByEmail(e) ==
  {u \in UserIds : users[u] # None /\ users[u].email = e}

\* The verifier: the token's invitation is known, pending and in time.
Verified(v) ==
  /\ known[v] # None
  /\ known[v].status = "pending"
  /\ v \notin lapsed

SignUpVerify(q, v, e) ==
  /\ Busy(q, "idle")
  /\ Verified(v)
  /\ known[v].email = e
  /\ Proceed(q, [Free EXCEPT !.step = "signUp", !.inv = v, !.email = e])
  /\ UNCHANGED <<users, known, sent, owed>>

\* The provider is called between this read and the commit: it creates the
\* account, or signs in to the one that is there; a wrong password is Fail.
\* An account whose commit never came is met again by the next sign-up, which
\* the provider refuses until its email is verified (Sessions!SignUpOrSignIn).
SignUpFindUser(q) ==
  LET found == FindUserByEmail(work[q].email) IN
  /\ Busy(q, "signUp")
  /\ Proceed(q, [work[q] EXCEPT
                   !.step = "commit",
                   !.user = IF found = {} THEN None
                            ELSE CHOOSE u \in found : TRUE])
  /\ UNCHANGED <<users, known, sent, owed>>

Publish(messages) ==
  /\ sent' = sent \union messages
  /\ owed' = owed \union messages

NewUser(u, e) == [email |-> e, status |-> "pending"]

\* Mutation: users are inserted without the unique index on their email.
InsertAnyUser(u, e) ==
  /\ users[u] = None
  /\ users' = [users EXCEPT ![u] = NewUser(u, e)]

\* The unique indexes on users.email and credentials.providerCredentialId
\* (one per account) reject the whole commit of a second identity.
InsertUser(u, e) ==
  /\ users[u] = None
  /\ FindUserByEmail(e) = {}
  /\ users' = [users EXCEPT ![u] = NewUser(u, e)]

\* Mutation: the outbox of a sign-up also announces the user as active.
AnnouncedEarly(v, u) == {Redemption(v, u), Activated(u)}

SignUpMessages(v, u) == {Redemption(v, u)}

CreateNewIdentity(q, u) ==
  /\ Busy(q, "commit")
  /\ work[q].user = None
  /\ InsertUser(u, work[q].email)
  /\ Publish(SignUpMessages(work[q].inv, u))
  /\ Proceed(q, Free)
  /\ UNCHANGED known

\* An identity that exists gets a session and asks for the redemption; its
\* status, and whether user.activated was published long ago, do not matter.
CreateExistingIdentitySession(q) ==
  /\ Busy(q, "commit")
  /\ work[q].user # None
  /\ Publish({Redemption(work[q].inv, work[q].user)})
  /\ Proceed(q, Free)
  /\ UNCHANGED <<users, known>>

-----------------------------------------------------------------------------
(* Email verification. *)

VerifyEmailRead(q, u) ==
  /\ Busy(q, "idle")
  /\ users[u] # None
  /\ users[u].status = "pending"
  /\ Proceed(q, [Free EXCEPT !.step = "verify", !.user = u])
  /\ UNCHANGED <<users, known, sent, owed>>

\* After the provider has accepted the token: an identity that another
\* request has verified meanwhile is rejected.
VerifyEmailFindUser(q) ==
  /\ Busy(q, "verify")
  /\ users[work[q].user].status = "pending"
  /\ Proceed(q, [work[q] EXCEPT !.step = "activate"])
  /\ UNCHANGED <<users, known, sent, owed>>

VerifyEmailCommit(q) ==
  /\ Busy(q, "activate")
  /\ users' = [users EXCEPT ![work[q].user].status = "active"]
  /\ Publish({Activated(work[q].user)})
  /\ Proceed(q, Free)
  /\ UNCHANGED known

\* The provider rejects, a commit is rejected, or the process dies.
Fail(q) ==
  /\ ~Busy(q, "idle")
  /\ Proceed(q, Free)
  /\ UNCHANGED <<users, known, sent, owed>>

IdentityStep ==
  \/ \E v \in InvitationIds, e \in Emails : RecordKnownInvitation(v, e)
  \/ \E v \in InvitationIds, event \in {"expired", "revoked", "redeemed"} :
       MarkKnownInvitation(event, v)
  \/ \E q \in Requests :
       \/ \E v \in InvitationIds, e \in Emails : SignUpVerify(q, v, e)
       \/ SignUpFindUser(q)
       \/ \E u \in UserIds : CreateNewIdentity(q, u) \/ VerifyEmailRead(q, u)
       \/ CreateExistingIdentitySession(q)
       \/ VerifyEmailFindUser(q) \/ Fail(q)

-----------------------------------------------------------------------------
(* Properties. *)

IdentityTypeOK ==
  /\ users \in [UserIds -> UserRow \union {None}]
  /\ known \in [InvitationIds -> KnownRow \union {None}]
  /\ sent \subseteq Messages
  /\ owed \subseteq sent \intersect (Redemptions \union Activations)
  /\ work \in [Requests -> Work]

\* "Duplicate identity creation is rejected": sign-ups that both found no
\* identity, with the same invitation or with two, make one.
OneIdentityPerEmail ==
  \A t, u \in UserIds :
    users[t] # None /\ users[u] # None /\ users[t].email = users[u].email
      => t = u
=============================================================================
