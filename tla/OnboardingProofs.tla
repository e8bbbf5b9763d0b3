-------------------------- MODULE OnboardingProofs --------------------------
(***************************************************************************)
(* Proofs about joining a tenant, for every number of people, invitations, *)
(* requests and handlers.                                                  *)
(***************************************************************************)
EXTENDS Onboarding, TLAPS

-----------------------------------------------------------------------------
(* The inductive invariant: what a request remembers, and what a message   *)
(* names, are users that exist; a user is inserted next to no other with   *)
(* its email.                                                              *)

UsersTyped == users \in [UserIds -> UserRow \union {None}]

Remembers(w) ==
  /\ w \in Work
  /\ w.step \in {"signUp", "commit"} => w.email \in Emails
  /\ w.step \in {"verify", "activate"} => w.user # None
  /\ w.user # None => users[w.user] # None

WorkHolds ==
  /\ work \in [Requests -> Work]
  /\ \A q \in Requests : Remembers(work[q])

MessagesNameUsers ==
  \A u \in UserIds :
    /\ \A v \in InvitationIds : Redemption(v, u) \in sent => users[u] # None
    /\ Activated(u) \in sent => users[u] # None /\ users[u].status = "active"

SignedUp == UsersTyped /\ WorkHolds /\ MessagesNameUsers /\ OneIdentityPerEmail

LEMMA FreeRemembers == Free \in Work /\ Remembers(Free)
BY DEF Free, Work, Steps, Remembers

LEMMA InitSignedUp == Init => SignedUp
BY FreeRemembers
DEF Init, IdentityInit, SignedUp, UsersTyped, WorkHolds, MessagesNameUsers,
    OneIdentityPerEmail

\* Users are only ever added or verified.
UsersGrow ==
  \A u \in UserIds :
    users[u] # None => /\ users'[u] # None
                       /\ users[u].status = "active" => users'[u].status = "active"

\* A request that ends, or remembers what it is going to hold, leaves the
\* memory of the others as it was.
LEMMA WorkStep ==
  ASSUME WorkHolds, UsersGrow, NEW q \in Requests, NEW w,
         Proceed(q, w), w \in Work, Remembers(w)'
  PROVE  WorkHolds'
<1>1. work' \in [Requests -> Work] /\ work' = [work EXCEPT ![q] = w]
  BY DEF WorkHolds, Proceed
<1>2. ASSUME NEW r \in Requests
      PROVE  Remembers(work[r])'
  <2>1. CASE r = q
    BY <1>1, <2>1 DEF WorkHolds, Remembers
  <2>2. CASE r # q
    <3>1. work'[r] = work[r] /\ Remembers(work[r]) /\ work[r] \in Work
      BY <1>1, <2>2 DEF WorkHolds
    <3>2. work[r].user \in UserIds \union {None}
      BY <3>1 DEF Work
    <3>3. work[r].user # None => users'[work[r].user] # None
      BY <3>1, <3>2 DEF Remembers, UsersGrow
    <3>4. QED
      BY <3>1, <3>3 DEF Remembers
  <2>3. QED
    BY <2>1, <2>2
<1>3. QED
  BY <1>1, <1>2 DEF WorkHolds

LEMMA QuietWork ==
  ASSUME WorkHolds, UNCHANGED work, UsersGrow
  PROVE  WorkHolds'
<1>1. ASSUME NEW r \in Requests
      PROVE  Remembers(work[r])'
  <2>1. Remembers(work[r]) /\ work[r] \in Work /\ work'[r] = work[r]
    BY DEF WorkHolds
  <2>2. work[r].user \in UserIds \union {None}
    BY <2>1 DEF Work
  <2>3. work[r].user # None => users'[work[r].user] # None
    BY <2>1, <2>2 DEF Remembers, UsersGrow
  <2>4. QED
    BY <2>1, <2>3 DEF Remembers
<1>2. QED
  BY <1>1 DEF WorkHolds

\* A step that leaves the users alone and sends nothing of Identity's.
LEMMA QuietUsers ==
  ASSUME SignedUp, UNCHANGED users
  PROVE  /\ UsersTyped' /\ OneIdentityPerEmail' /\ UsersGrow
         /\ sent' = sent => MessagesNameUsers'
BY DEF SignedUp, UsersTyped, OneIdentityPerEmail, UsersGrow, MessagesNameUsers

\* Sign-up.
LEMMA ReadsSignUp ==
  ASSUME SignedUp, NEW q \in Requests,
         \/ \E v \in InvitationIds, e \in Emails : SignUpVerify(q, v, e)
         \/ SignUpFindUser(q)
         \/ \E u \in UserIds : VerifyEmailRead(q, u)
         \/ VerifyEmailFindUser(q)
         \/ Fail(q)
  PROVE  SignedUp'
<1>1. UNCHANGED <<users, sent>>
  BY DEF SignUpVerify, SignUpFindUser, VerifyEmailRead, VerifyEmailFindUser, Fail
<1>2. WorkHolds /\ UsersGrow /\ Remembers(work[q]) /\ work[q] \in Work
  BY <1>1, QuietUsers DEF SignedUp, WorkHolds
<1> SUFFICES WorkHolds'
  BY <1>1, QuietUsers DEF SignedUp
<1>3. CASE \E v \in InvitationIds, e \in Emails : SignUpVerify(q, v, e)
  <2>1. PICK v \in InvitationIds, e \in Emails : SignUpVerify(q, v, e)
    BY <1>3
  <2>9. PICK w : w = [Free EXCEPT !.step = "signUp", !.inv = v, !.email = e]
    OBVIOUS
  <2>2. w \in Work /\ Remembers(w)'
    BY <2>9 DEF Free, Work, Steps, Remembers
  <2>3. Proceed(q, w)
    BY <2>1, <2>9 DEF SignUpVerify
  <2>4. QED
    BY <1>2, <2>2, <2>3, WorkStep
<1>4. CASE SignUpFindUser(q)
  <2>1. PICK x \in UserIds \union {None} :
          /\ x # None => users[x] # None
          /\ Proceed(q, [work[q] EXCEPT !.step = "commit", !.user = x])
          /\ Busy(q, "signUp")
    BY <1>4 DEF SignUpFindUser, FindUserByEmail
  <2>9. PICK w : w = [work[q] EXCEPT !.step = "commit", !.user = x]
    OBVIOUS
  <2>2. w \in Work /\ Remembers(w)'
    BY <1>1, <1>2, <2>1, <2>9 DEF Work, Steps, Remembers, Busy
  <2>3. QED
    BY <1>2, <2>1, <2>2, <2>9, WorkStep
<1>5. CASE \E u \in UserIds : VerifyEmailRead(q, u)
  <2>1. PICK u \in UserIds : VerifyEmailRead(q, u)
    BY <1>5
  <2>9. PICK w : w = [Free EXCEPT !.step = "verify", !.user = u]
    OBVIOUS
  <2>2. w \in Work /\ Remembers(w)'
    BY <1>1, <2>1, <2>9, NoneIsNoIdentity
    DEF Free, Work, Steps, Remembers, VerifyEmailRead
  <2>3. Proceed(q, w)
    BY <2>1, <2>9 DEF VerifyEmailRead
  <2>4. QED
    BY <1>2, <2>2, <2>3, WorkStep
<1>6. CASE VerifyEmailFindUser(q)
  <2>9. PICK w : w = [work[q] EXCEPT !.step = "activate"]
    OBVIOUS
  <2>1. w \in Work /\ Remembers(w)'
    BY <1>1, <1>2, <1>6, <2>9 DEF Work, Steps, Remembers, VerifyEmailFindUser, Busy
  <2>2. Proceed(q, w)
    BY <1>6, <2>9 DEF VerifyEmailFindUser
  <2>3. QED
    BY <1>2, <2>1, <2>2, <2>9, WorkStep
<1>7. CASE Fail(q)
  <2>1. Remembers(Free)'
    BY DEF Free, Work, Steps, Remembers
  <2>2. Proceed(q, Free)
    BY <1>7 DEF Fail
  <2>3. QED
    BY <1>2, <2>1, <2>2, FreeRemembers, WorkStep
<1>8. QED
  BY <1>3, <1>4, <1>5, <1>6, <1>7

\* A commit of Identity that changes one user, and sends messages of it.
LEMMA CreationSignsUp ==
  ASSUME SignedUp, NEW q \in Requests, NEW u \in UserIds,
         CreateNewIdentity(q, u)
  PROVE  SignedUp'
<1> DEFINE e == work[q].email
<1>1. e \in Emails
  BY DEF SignedUp, WorkHolds, Remembers, CreateNewIdentity, Busy
<1>2. NewUser(u, e) \in UserRow
  BY <1>1 DEF NewUser, UserRow
<1>3. /\ users[u] = None
      /\ users' = [users EXCEPT ![u] = NewUser(u, e)]
      /\ \A t \in UserIds : users[t] # None => users[t].email # e
  BY DEF CreateNewIdentity, InsertUser, FindUserByEmail
<1>4. NewUser(u, e) # None
  BY <1>2, NoneIsNoIdentity
<1>5. UsersTyped'
  BY <1>2, <1>3 DEF SignedUp, UsersTyped
<1>6. \A t \in UserIds : users'[t] = IF t = u THEN NewUser(u, e) ELSE users[t]
  BY <1>3 DEF SignedUp, UsersTyped
<1>7. UsersGrow
  BY <1>3, <1>4, <1>6 DEF UsersGrow
<1>8. OneIdentityPerEmail'
  BY <1>3, <1>6 DEF SignedUp, OneIdentityPerEmail, NewUser
<1>9. WorkHolds'
  <2>1. Remembers(Free)'
    BY DEF Free, Work, Steps, Remembers
  <2>2. QED
    BY <1>7, <2>1, FreeRemembers, WorkStep DEF SignedUp, CreateNewIdentity
<1>10. MessagesNameUsers'
  <2>1. sent' = sent \union {Redemption(work[q].inv, u)}
    BY DEF CreateNewIdentity, Publish, SignUpMessages
  <2>2. ASSUME NEW t \in UserIds
        PROVE  Activated(t) \in sent' => Activated(t) \in sent
    BY <2>1 DEF Activated, Redemption
  <2>3. ASSUME NEW t \in UserIds, NEW v \in InvitationIds
        PROVE  Redemption(v, t) \in sent' => Redemption(v, t) \in sent \/ t = u
    BY <2>1 DEF Redemption
  <2>4. users'[u] # None
    BY <1>4, <1>6
  <2>5. QED
    BY <2>2, <2>3, <2>4, <1>7 DEF SignedUp, MessagesNameUsers, UsersGrow
<1>11. QED
  BY <1>5, <1>8, <1>9, <1>10 DEF SignedUp

LEMMA ExistingSignsUp ==
  ASSUME SignedUp, NEW q \in Requests, CreateExistingIdentitySession(q)
  PROVE  SignedUp'
<1>1. UNCHANGED users /\ UsersGrow /\ UsersTyped' /\ OneIdentityPerEmail'
  BY QuietUsers DEF CreateExistingIdentitySession
<1>2. WorkHolds'
  <2>1. Remembers(Free)'
    BY DEF Free, Work, Steps, Remembers
  <2>2. QED
    BY <1>1, <2>1, FreeRemembers, WorkStep
    DEF SignedUp, CreateExistingIdentitySession
<1>3. users[work[q].user] # None
  BY DEF SignedUp, WorkHolds, Remembers, CreateExistingIdentitySession
<1>4. MessagesNameUsers'
  <2>1. sent' = sent \union {Redemption(work[q].inv, work[q].user)}
    BY DEF CreateExistingIdentitySession, Publish
  <2>2. ASSUME NEW t \in UserIds
        PROVE  Activated(t) \in sent' => Activated(t) \in sent
    BY <2>1 DEF Activated, Redemption
  <2>3. ASSUME NEW t \in UserIds, NEW v \in InvitationIds
        PROVE  Redemption(v, t) \in sent'
                 => Redemption(v, t) \in sent \/ t = work[q].user
    BY <2>1 DEF Redemption
  <2>4. QED
    BY <1>1, <1>3, <2>2, <2>3 DEF SignedUp, MessagesNameUsers
<1>5. QED
  BY <1>1, <1>2, <1>4 DEF SignedUp

LEMMA VerificationSignsUp ==
  ASSUME SignedUp, NEW q \in Requests, VerifyEmailCommit(q)
  PROVE  SignedUp'
<1>1. PICK u : u = work[q].user
  OBVIOUS
<1>2. u \in UserIds /\ users[u] # None
  BY <1>1 DEF SignedUp, WorkHolds, Remembers, Work, VerifyEmailCommit, Busy
<1>3. users[u] \in UserRow
  BY <1>2 DEF SignedUp, UsersTyped
<1>4. users' = [users EXCEPT ![u].status = "active"]
  BY <1>1 DEF VerifyEmailCommit
<1>5. PICK row : row = [users[u] EXCEPT !.status = "active"]
  OBVIOUS
<1>6. row \in UserRow /\ row.status = "active" /\ row.email = users[u].email
  BY <1>3, <1>5 DEF UserRow
<1>7. \A t \in UserIds : users'[t] = IF t = u THEN row ELSE users[t]
  BY <1>2, <1>4, <1>5 DEF SignedUp, UsersTyped
<1>8. row # None
  BY <1>6, NoneIsNoIdentity
<1>9. UsersTyped'
  <2>1. users' = [users EXCEPT ![u] = row]
    BY <1>4, <1>5
  <2>2. QED
    BY <1>6, <2>1 DEF SignedUp, UsersTyped
<1>10. UsersGrow
  BY <1>6, <1>7, <1>8 DEF UsersGrow
<1>11. OneIdentityPerEmail'
  BY <1>2, <1>6, <1>7 DEF SignedUp, OneIdentityPerEmail
<1>12. WorkHolds'
  <2>1. Remembers(Free)'
    BY DEF Free, Work, Steps, Remembers
  <2>2. QED
    BY <1>10, <2>1, FreeRemembers, WorkStep DEF SignedUp, VerifyEmailCommit
<1>13. MessagesNameUsers'
  <2>1. sent' = sent \union {Activated(u)}
    BY <1>1 DEF VerifyEmailCommit, Publish
  <2>2. ASSUME NEW t \in UserIds
        PROVE  Activated(t) \in sent' => Activated(t) \in sent \/ t = u
    BY <2>1 DEF Activated
  <2>3. ASSUME NEW t \in UserIds, NEW v \in InvitationIds
        PROVE  Redemption(v, t) \in sent' => Redemption(v, t) \in sent
    BY <2>1 DEF Redemption, Activated
  <2>4. users'[u] # None /\ users'[u].status = "active"
    BY <1>2, <1>6, <1>7, <1>8
  <2>5. QED
    BY <1>10, <2>2, <2>3, <2>4 DEF SignedUp, MessagesNameUsers, UsersGrow
<1>14. QED
  BY <1>9, <1>11, <1>12, <1>13 DEF SignedUp

\* A step of Membership leaves users and requests alone, and its messages
\* name no user.
LEMMA OthersSignUp ==
  ASSUME SignedUp, UNCHANGED <<users, work>>,
         \/ sent' = sent
         \/ \E x, y : sent' = sent \union {Created(x, y)}
         \/ \E x : \E s \in KnownStatuses : sent' = sent \union {Settled(s, x)}
  PROVE  SignedUp'
<1>1. UsersTyped' /\ OneIdentityPerEmail' /\ UsersGrow /\ WorkHolds'
  BY QuietUsers, QuietWork DEF SignedUp
<1>2. ASSUME NEW u \in UserIds
      PROVE  /\ Activated(u) \in sent' => Activated(u) \in sent
             /\ \A v \in InvitationIds :
                  Redemption(v, u) \in sent' => Redemption(v, u) \in sent
  <2>1. CASE sent' = sent
    BY <2>1
  <2>2. CASE \E x, y : sent' = sent \union {Created(x, y)}
    BY <2>2 DEF Created, Activated, Redemption
  <2>3. CASE \E x : \E s \in KnownStatuses : sent' = sent \union {Settled(s, x)}
    BY <2>3 DEF Settled, Activated, Redemption, KnownStatuses
  <2>4. QED
    BY <2>1, <2>2, <2>3
<1>3. MessagesNameUsers'
  BY <1>2 DEF SignedUp, MessagesNameUsers
<1>4. QED
  BY <1>1, <1>3 DEF SignedUp

LEMMA NextSignsUp == SignedUp /\ [Next]_vars => SignedUp'
<1> SUFFICES ASSUME SignedUp, [Next]_vars PROVE SignedUp'
  OBVIOUS
<1>1. CASE IdentityStep
  <2>1. CASE \/ \E v \in InvitationIds, e \in Emails : RecordKnownInvitation(v, e)
             \/ \E v \in InvitationIds, event \in {"expired", "revoked", "redeemed"} :
                  MarkKnownInvitation(event, v)
    <3>1. UNCHANGED <<users, work, sent>>
      BY <2>1 DEF RecordKnownInvitation, MarkKnownInvitation
    <3>2. QED
      BY <3>1, OthersSignUp
  <2>2. CASE \E q \in Requests : \E u \in UserIds : CreateNewIdentity(q, u)
    BY <2>2, CreationSignsUp
  <2>3. CASE \E q \in Requests : CreateExistingIdentitySession(q)
    BY <2>3, ExistingSignsUp
  <2>4. CASE \E q \in Requests :
               \/ \E v \in InvitationIds, e \in Emails : SignUpVerify(q, v, e)
               \/ SignUpFindUser(q)
               \/ \E u \in UserIds : VerifyEmailRead(q, u)
               \/ VerifyEmailFindUser(q)
               \/ Fail(q)
    BY <2>4, ReadsSignUp
  <2>5. QED
    BY <1>1, <2>1, <2>2, <2>3, <2>4 DEF IdentityStep
<1>2. CASE \E q \in Requests : VerifyEmail(q)
  BY <1>2, VerificationSignsUp DEF VerifyEmail
<1>3. CASE \E p \in Ops : Invite(p) \/ Revoke(p) \/ Expire(p) \/ Archive(p)
  <2>1. PICK p \in Ops : Invite(p) \/ Revoke(p) \/ Expire(p) \/ Archive(p)
    BY <1>3
  <2>2. /\ UNCHANGED <<users, work>>
        /\ \/ sent' = sent
           \/ sent' \in {sent \union {Created(v, op[p].who)} : v \in InvitationIds}
           \/ sent' = sent \union {Settled("revoked", op[p].inv)}
           \/ sent' = sent \union {Settled("expired", op[p].inv)}
    BY <2>1 DEF Invite, Revoke, Expire, Archive, Quietly, Telling, identity
  <2>3. QED
    BY <2>2, OthersSignUp DEF KnownStatuses
<1>4. CASE \E p \in Ops : RedeemDone(p)
  <2>1. PICK p \in Ops : RedeemDone(p)
    BY <1>4
  <2>2. /\ UNCHANGED <<users, work>>
        /\ sent' = sent \union {Settled("redeemed", op[p].inv)}
    BY <2>1 DEF RedeemDone, identity
  <2>3. QED
    BY <2>2, OthersSignUp DEF KnownStatuses
<1>5. CASE \/ \E p \in Ops :
                \/ RedeemFind(p) \/ RedeemRejected(p)
                \/ ActivateNext(p) \/ ActivateDone(p)
                \/ \E u \in UserIds :
                     \/ ActivateRequested(p, u)
                     \/ \E v \in InvitationIds : RedeemRequested(p, v, u)
                \/ M!Abandon(p) /\ Quietly
           \/ \E u \in UserIds :
                \/ NothingToActivate(u)
                \/ \E v \in InvitationIds : RedeemRefused(v, u)
           \/ \E v \in InvitationIds : M!Lapse(v) /\ Quietly
  <2>1. UNCHANGED <<users, work, sent>>
    BY <1>5 DEF RedeemFind, RedeemRejected, ActivateNext, ActivateDone,
                ActivateRequested, RedeemRequested, NothingToActivate,
                RedeemRefused, Quietly, Done, identity
  <2>2. QED
    BY <2>1, OthersSignUp
<1>6. CASE UNCHANGED vars
  BY <1>6, OthersSignUp DEF vars, identity
<1>7. QED
  BY <1>1, <1>2, <1>3, <1>4, <1>5, <1>6 DEF Next

LEMMA AlwaysSignedUp == Spec => []SignedUp
BY InitSignedUp, NextSignsUp, PTL DEF Spec

\* However many requests sign one person up at once, through whatever
\* invitations, the store holds one identity of each email.
THEOREM AtMostOneIdentity == Spec => []OneIdentityPerEmail
<1>1. SignedUp => OneIdentityPerEmail
  BY DEF SignedUp
<1>2. QED
  BY <1>1, AlwaysSignedUp, PTL

-----------------------------------------------------------------------------
(* The composition adds messages to Membership and no step of its own.     *)

\* The commands of Membership keep to its handlers.
LEMMA CommandsAreMembershipSteps ==
  ASSUME NEW p \in Ops,
         Invite(p) \/ Revoke(p) \/ Expire(p) \/ Archive(p)
  PROVE  M!MembershipStep(p) \/ M!InvitationStep(p)
<1>1. CASE Invite(p)
  BY <1>1 DEF Invite, M!InvitationStep
<1>2. CASE Revoke(p)
  BY <1>2 DEF Revoke, M!InvitationStep
<1>3. CASE Expire(p)
  BY <1>3 DEF Expire, M!InvitationStep
<1>4. CASE Archive(p)
  BY <1>4 DEF Archive, M!MembershipStep
<1>5. QED
  BY <1>1, <1>2, <1>3, <1>4

\* So do its reactions to the messages of Identity: the email of a user that
\* a message names is one of Membership's identities.
LEMMA ReactionsAreMembershipSteps ==
  ASSUME SignedUp, NEW p \in Ops,
         \/ RedeemFind(p) \/ RedeemDone(p) \/ RedeemRejected(p)
         \/ ActivateNext(p) \/ ActivateDone(p)
         \/ \E u \in UserIds :
              \/ ActivateRequested(p, u)
              \/ \E v \in InvitationIds : RedeemRequested(p, v, u)
  PROVE  M!MembershipStep(p) \/ M!InvitationStep(p) \/ M!Abandon(p)
<1>1. ASSUME NEW u \in UserIds, users[u] # None
      PROVE  users[u].email \in Emails
  BY <1>1 DEF SignedUp, UsersTyped, UserRow
<1>2. CASE RedeemFind(p) \/ RedeemDone(p) \/ RedeemRejected(p)
  BY <1>2 DEF RedeemFind, RedeemDone, RedeemRejected, M!InvitationStep
<1>3. CASE ActivateNext(p) \/ ActivateDone(p)
  BY <1>3 DEF ActivateNext, ActivateDone, M!MembershipStep
<1>4. CASE \E u \in UserIds : ActivateRequested(p, u)
  <2>1. PICK u \in UserIds : ActivateRequested(p, u)
    BY <1>4
  <2>2. users[u].email \in Emails
    BY <1>1, <2>1 DEF ActivateRequested, SignedUp, MessagesNameUsers
  <2>3. M!ActivatePendingRead(p, users[u].email)
    BY <2>1 DEF ActivateRequested
  <2>4. QED
    BY <2>2, <2>3 DEF M!MembershipStep
<1>5. CASE \E u \in UserIds, v \in InvitationIds : RedeemRequested(p, v, u)
  <2>1. PICK u \in UserIds, v \in InvitationIds : RedeemRequested(p, v, u)
    BY <1>5
  <2>2. users[u].email \in Emails
    BY <1>1, <2>1 DEF RedeemRequested, SignedUp, MessagesNameUsers
  <2>3. M!RedeemRead(p, users[u].email, v)
    BY <2>1 DEF RedeemRequested
  <2>4. QED
    BY <2>2, <2>3 DEF M!InvitationStep
<1>6. QED
  BY <1>2, <1>3, <1>4, <1>5

LEMMA StepsAreMembershipSteps ==
  SignedUp /\ [Next]_vars => [M!Next]_(M!vars)
<1> SUFFICES ASSUME SignedUp, [Next]_vars PROVE [M!Next]_(M!vars)
  OBVIOUS
<1>2. ASSUME NEW p \in Ops,
             M!MembershipStep(p) \/ M!InvitationStep(p) \/ M!Abandon(p)
      PROVE  M!Next
  BY <1>2 DEF M!Next, M!Processes
<1>3. CASE \E p \in Ops : Invite(p) \/ Revoke(p) \/ Expire(p) \/ Archive(p)
  BY <1>2, <1>3, CommandsAreMembershipSteps
<1>4. CASE \E p \in Ops :
             \/ RedeemFind(p) \/ RedeemDone(p) \/ RedeemRejected(p)
             \/ ActivateNext(p) \/ ActivateDone(p)
             \/ \E u \in UserIds :
                  \/ ActivateRequested(p, u)
                  \/ \E v \in InvitationIds : RedeemRequested(p, v, u)
  BY <1>2, <1>4, ReactionsAreMembershipSteps
<1>5. CASE \/ \E p \in Ops : M!Abandon(p) /\ Quietly
           \/ \E v \in InvitationIds : M!Lapse(v) /\ Quietly
  BY <1>2, <1>5 DEF M!Next
<1>6. CASE \/ IdentityStep /\ UNCHANGED <<membership, waiting>>
           \/ \E q \in Requests : VerifyEmail(q)
           \/ \E u \in UserIds :
                \/ NothingToActivate(u)
                \/ \E v \in InvitationIds : RedeemRefused(v, u)
           \/ UNCHANGED vars
  <2>1. UNCHANGED membership
    BY <1>6 DEF VerifyEmail, NothingToActivate, RedeemRefused, vars
  <2>2. QED
    BY <2>1 DEF membership, M!vars
<1>7. QED
  BY <1>3, <1>4, <1>5, <1>6 DEF Next

\* Driven by the messages of Identity, however often and in whatever order
\* they come, Membership does what it may do on its own: what is proved
\* of Membership from its assumptions holds of the composition.
THEOREM OnboardingImplementsMembership == Spec => M!Spec
<1>1. Init => M!Init
  BY DEF Init
<1>2. QED
  BY <1>1, AlwaysSignedUp, StepsAreMembershipSteps, PTL DEF Spec, M!Spec

-----------------------------------------------------------------------------
(* What is proved of Membership on its own holds of it here.  Its module   *)
(* and the module of its proofs are instantiated alike, so the same names  *)
(* mean the same.                                                          *)

Safety == INSTANCE MembershipSafety WITH Identities <- Emails

LEMMA AssumptionsMet ==
  /\ Safety!IdsDisjoint /\ Safety!WorkersDisjoint
  /\ Safety!BatchSizePositive /\ Safety!NoneIsNoValue
<1>1. Safety!IdsDisjoint /\ Safety!WorkersDisjoint /\ Safety!BatchSizePositive
  BY MembershipMeetsIdentity
  DEF Safety!IdsDisjoint, Safety!WorkersDisjoint, Safety!BatchSizePositive
<1>2. Safety!NoneIsNoValue
  BY MembershipMeetsIdentity, NoneIsNoIdentity
  DEF Safety!NoneIsNoValue,
      M!MembershipRow, Safety!MembershipRow, M!InvitationRow,
      Safety!InvitationRow, M!MembershipStatuses, Safety!MembershipStatuses,
      M!InvitationStatuses, Safety!InvitationStatuses, M!SuspensionSources,
      Safety!SuspensionSources, M!Events, Safety!Events
<1>3. QED
  BY <1>1, <1>2

LEMMA SameInit == M!Init => Safety!Init
BY DEF
    M!Init, Safety!Init, M!Processes, Safety!Processes, M!Idle, Safety!Idle

LEMMA SameMembershipStep ==
  ASSUME NEW p
  PROVE  M!MembershipStep(p) <=> Safety!MembershipStep(p)
BY DEF
    M!db, Safety!db, M!Idle, Safety!Idle, M!Members, Safety!Members, M!At,
    Safety!At, M!Goto, Safety!Goto, M!Begin, Safety!Begin, M!Announce,
    Safety!Announce, M!MembershipStatuses, Safety!MembershipStatuses,
    M!FindMembership, Safety!FindMembership, M!ListByIdentity,
    Safety!ListByIdentity, M!ListByTenant, Safety!ListByTenant,
    M!MayActivate, Safety!MayActivate, M!MaySuspend, Safety!MaySuspend,
    M!MayReactivate, Safety!MayReactivate, M!MayArchive, Safety!MayArchive,
    M!NewMembership, Safety!NewMembership, M!ActivatePatch,
    Safety!ActivatePatch, M!SuspendPatch, Safety!SuspendPatch,
    M!ReactivatePatch, Safety!ReactivatePatch, M!ArchivePatch,
    Safety!ArchivePatch, M!Advance, Safety!Advance, M!InsertMembership,
    Safety!InsertMembership, M!CreateRead, Safety!CreateRead,
    M!CreationEvent, Safety!CreationEvent, M!CreateCommit,
    Safety!CreateCommit, M!ActivatePendingRead, Safety!ActivatePendingRead,
    M!ActivatePendingNext, Safety!ActivatePendingNext, M!ActivateRead,
    Safety!ActivateRead, M!ActivateCommit, Safety!ActivateCommit,
    M!SuspendRead, Safety!SuspendRead, M!SuspendTenantRead,
    Safety!SuspendTenantRead, M!SuspendCommit, Safety!SuspendCommit,
    M!ReactivateRead, Safety!ReactivateRead, M!SubscriptionSuspended,
    Safety!SubscriptionSuspended, M!RestoreSubscriptionRead,
    Safety!RestoreSubscriptionRead, M!ReactivateCommit,
    Safety!ReactivateCommit, M!ArchiveRead, Safety!ArchiveRead,
    M!NotArchived, Safety!NotArchived, M!ArchiveIdentityRead,
    Safety!ArchiveIdentityRead, M!ArchiveTenantRead,
    Safety!ArchiveTenantRead, M!ArchiveCommit, Safety!ArchiveCommit,
    M!MembershipStep, Safety!MembershipStep

LEMMA SameInvitationStep ==
  ASSUME NEW p
  PROVE  M!InvitationStep(p) <=> Safety!InvitationStep(p)
BY DEF
    M!db, Safety!db, M!Idle, Safety!Idle, M!Members, Safety!Members, M!At,
    Safety!At, M!Goto, Safety!Goto, M!Begin, Safety!Begin, M!Announce,
    Safety!Announce, M!Invites, Safety!Invites, M!FindMembership,
    Safety!FindMembership, M!FindPendingInvitation,
    Safety!FindPendingInvitation, M!MayRedeem, Safety!MayRedeem,
    M!MayRevoke, Safety!MayRevoke, M!MayExpire, Safety!MayExpire,
    M!NewMembership, Safety!NewMembership, M!NewInvitation,
    Safety!NewInvitation, M!RedeemPatch, Safety!RedeemPatch, M!RevokePatch,
    Safety!RevokePatch, M!ExpirePatch, Safety!ExpirePatch,
    M!InsertMembership, Safety!InsertMembership, M!InsertInvitation,
    Safety!InsertInvitation, M!InviteRead, Safety!InviteRead,
    M!InviteCommit, Safety!InviteCommit, M!RedeemRead, Safety!RedeemRead,
    M!RedeemFindMembership, Safety!RedeemFindMembership,
    M!MembershipCreated, Safety!MembershipCreated, M!RedeemCommit,
    Safety!RedeemCommit, M!RevokeRead, Safety!RevokeRead, M!RevokeCommit,
    Safety!RevokeCommit, M!ExpireRead, Safety!ExpireRead,
    M!ExpireInvitation, Safety!ExpireInvitation, M!ExpireCommit,
    Safety!ExpireCommit, M!InvitationStep, Safety!InvitationStep

LEMMA SameOtherSteps ==
  ASSUME NEW p
  PROVE  /\ M!ContextStep(p) <=> Safety!ContextStep(p)
         /\ M!WorkerStep(p) <=> Safety!WorkerStep(p)
         /\ M!Abandon(p) <=> Safety!Abandon(p)
         /\ M!Lapse(p) <=> Safety!Lapse(p)
<1>1. M!ContextStep(p) <=> Safety!ContextStep(p)
  BY DEF
      M!ContextStep, Safety!ContextStep, M!SwitchContextRead,
      Safety!SwitchContextRead, M!SwitchContextCommit,
      Safety!SwitchContextCommit, M!Members, Safety!Members, M!Invites,
      Safety!Invites, M!db, Safety!db, M!Idle, Safety!Idle, M!At, Safety!At,
      M!Goto, Safety!Goto, M!Begin, Safety!Begin
<1>2. M!SweepRead(p) <=> Safety!SweepRead(p)
  <2>1. M!ExpiredPending = Safety!ExpiredPending
    BY DEF M!ExpiredPending, Safety!ExpiredPending, M!Invites, Safety!Invites
  <2>2. ASSUME NEW state
        PROVE  M!Begin(p, state) <=> Safety!Begin(p, state)
    BY DEF M!Begin, Safety!Begin, M!At, Safety!At, M!Goto, Safety!Goto,
           M!db, Safety!db
  <2>3. M!Idle = Safety!Idle
    BY DEF M!Idle, Safety!Idle
  <2>4. ASSUME NEW batch
        PROVE  M!Begin(p, [M!Idle EXCEPT !.step = "sweep", !.todo = batch])
                 <=> Safety!Begin(p, [Safety!Idle EXCEPT !.step = "sweep",
                                                         !.todo = batch])
    BY <2>2, <2>3
  <2>5. QED
    BY <2>1, <2>4, Zenon
    DEF M!SweepRead, Safety!SweepRead, M!Cardinality, Safety!Cardinality
<1>3. M!WorkerStep(p) <=> Safety!WorkerStep(p)
  BY <1>2 DEF
      M!WorkerStep, Safety!WorkerStep, M!SweepNext, Safety!SweepNext,
      M!SweepSkip, Safety!SweepSkip, M!SweepCommit, Safety!SweepCommit,
      M!SweepFail, Safety!SweepFail, M!ExpireInvitation,
      Safety!ExpireInvitation, M!ExpirePatch, Safety!ExpirePatch,
      M!MayExpire, Safety!MayExpire, M!Announce, Safety!Announce, M!db,
      Safety!db, M!Idle, Safety!Idle, M!At, Safety!At, M!Goto, Safety!Goto,
      M!Begin, Safety!Begin, M!Advance, Safety!Advance
<1>4. M!Abandon(p) <=> Safety!Abandon(p)
  BY DEF M!Abandon, Safety!Abandon, M!At, Safety!At, M!Goto, Safety!Goto,
         M!Idle, Safety!Idle, M!db, Safety!db
<1>5. M!Lapse(p) <=> Safety!Lapse(p)
  BY DEF M!Lapse, Safety!Lapse, M!Invites, Safety!Invites, M!db, Safety!db
<1>6. QED
  BY <1>1, <1>3, <1>4, <1>5

LEMMA SameSteps == M!Next <=> Safety!Next
BY SameMembershipStep, SameInvitationStep, SameOtherSteps
DEF M!Next, Safety!Next, M!Processes, Safety!Processes

LEMMA SameNext == [M!Next]_(M!vars) => [Safety!Next]_(Safety!vars)
<1>1. M!vars = Safety!vars
  BY DEF M!vars, Safety!vars
<1>2. M!Next <=> Safety!Next
  BY SameSteps
<1>3. QED
  BY <1>1, <1>2 DEF M!vars, Safety!vars

MembershipHolds ==
  /\ M!TypeOK /\ M!StaleReadsHold
  /\ M!RowsAreUnique /\ M!RedeemedHasMembership
  /\ M!EffectiveWasActivated /\ M!StatusIsExplained /\ M!AnnouncedIsStored

LEMMA SameInvariants ==
  /\ Safety!TypeOK => M!TypeOK
  /\ Safety!StaleReadsHold => M!StaleReadsHold
  /\ Safety!RowsAreUnique => M!RowsAreUnique
  /\ Safety!RedeemedHasMembership => M!RedeemedHasMembership
  /\ Safety!EffectiveWasActivated => M!EffectiveWasActivated
  /\ Safety!StatusIsExplained => M!StatusIsExplained
  /\ Safety!AnnouncedIsStored => M!AnnouncedIsStored
BY SMTT(60) DEF
    M!Processes, Safety!Processes, M!MembershipStatuses,
    Safety!MembershipStatuses, M!SuspensionSources, Safety!SuspensionSources,
    M!InvitationStatuses, Safety!InvitationStatuses, M!MembershipRow,
    Safety!MembershipRow, M!InvitationRow, Safety!InvitationRow, M!Steps,
    Safety!Steps, M!Handler, Safety!Handler, M!Events, Safety!Events,
    M!Members, Safety!Members, M!Invites, Safety!Invites, M!FindMembership,
    Safety!FindMembership, M!FindPendingInvitation,
    Safety!FindPendingInvitation, M!TypeOK, Safety!TypeOK,
    M!HoldsMemberships, Safety!HoldsMemberships, M!HoldsInvitations,
    Safety!HoldsInvitations, M!StaleReadsHold, Safety!StaleReadsHold,
    M!OneMembershipPerTenant, Safety!OneMembershipPerTenant,
    M!OneLiveInvitation, Safety!OneLiveInvitation, M!RowsAreUnique,
    Safety!RowsAreUnique, M!RedeemedHasMembership,
    Safety!RedeemedHasMembership, M!EffectiveWasActivated,
    Safety!EffectiveWasActivated, M!StatusIsExplained,
    Safety!StatusIsExplained, M!EventStatus, Safety!EventStatus,
    M!AnnouncedIsStored, Safety!AnnouncedIsStored

\* Whatever is invited, redeemed and activated for Identity, Membership's own
\* invariants hold throughout: its rows are unique, a redemption has its
\* membership, its announcements are what it stored.
THEOREM OnboardingKeepsMembershipSafe == Spec => []MembershipHolds
<1>1. Safety!IdsDisjoint
  BY AssumptionsMet
<1>2. Safety!WorkersDisjoint
  BY AssumptionsMet
<1>3. Safety!BatchSizePositive
  BY AssumptionsMet
<1>4. Safety!NoneIsNoValue
  BY AssumptionsMet
<1>5. M!Spec => Safety!Spec
  BY SameInit, SameNext, PTL DEF M!Spec, Safety!Spec
<1>6. Safety!Spec =>
        /\ []Safety!TypeOK /\ []Safety!StaleReadsHold
        /\ []Safety!RowsAreUnique /\ []Safety!RedeemedHasMembership
        /\ []Safety!EffectiveWasActivated /\ []Safety!StatusIsExplained
        /\ []Safety!AnnouncedIsStored
  BY <1>1, <1>2, <1>3, <1>4, Safety!TypeCorrect, Safety!StaleReadsAreHarmless,
     Safety!AtMostOneOfEach, Safety!RedemptionIsComplete,
     Safety!NothingEffectiveUnactivated, Safety!StatusAlwaysExplained,
     Safety!AnnouncementsAreFaithful, PTL
<1>7. QED
  BY <1>5, <1>6, OnboardingImplementsMembership, SameInvariants, PTL
  DEF MembershipHolds

\* And if Membership runs one handler at a time, counting its worker, then
\* joining a tenant, all the way from an invitation to a membership, is for
\* Membership a behaviour of its documented lifecycles.
THEOREM OnboardingFollowsLifecycles ==
  ASSUME Safety!OneHandler, Safety!NoneIsNoPromise
  PROVE  Spec => Safety!ImplementsLifecycle
<1>1. Safety!IdsDisjoint
  BY AssumptionsMet
<1>2. Safety!WorkersDisjoint
  BY AssumptionsMet
<1>3. Safety!BatchSizePositive
  BY AssumptionsMet
<1>4. Safety!NoneIsNoValue
  BY AssumptionsMet
<1>5. M!Spec => Safety!Spec
  BY SameInit, SameNext, PTL DEF M!Spec, Safety!Spec
<1>6. Safety!Spec => Safety!ImplementsLifecycle
  BY <1>1, <1>2, <1>3, <1>4, Safety!OneHandlerKeepsLifecycles
<1> QED
  BY <1>5, <1>6, OnboardingImplementsMembership, PTL

-----------------------------------------------------------------------------
(* What a step changes: rows are only added, and keep whose they are.      *)

Base == SignedUp /\ MembershipHolds

LEMMA AlwaysBase == Spec => []Base
<1>1. SignedUp /\ MembershipHolds => Base
  BY DEF Base
<1>2. QED
  BY <1>1, AlwaysSignedUp, OnboardingKeepsMembershipSafe, PTL

UsersStay ==
  \A u \in UserIds :
    users[u] # None =>
      /\ users'[u] # None
      /\ users'[u].email = users[u].email
      /\ users[u].status = "active" => users'[u].status = "active"

LEMMA NextUsersStay == SignedUp /\ [Next]_vars => UsersStay
<1> SUFFICES ASSUME SignedUp, [Next]_vars PROVE UsersStay
  OBVIOUS
<1>1. CASE UNCHANGED users
  BY <1>1 DEF UsersStay
<1>2. CASE \E q \in Requests, u \in UserIds : CreateNewIdentity(q, u)
  <2>1. PICK q \in Requests, u \in UserIds : CreateNewIdentity(q, u)
    BY <1>2
  <2>2. users[u] = None /\ users' = [users EXCEPT ![u] = NewUser(u, work[q].email)]
    BY <2>1 DEF CreateNewIdentity, InsertUser
  <2>3. \A t \in UserIds : t # u => users'[t] = users[t]
    BY <2>2 DEF SignedUp, UsersTyped
  <2>4. QED
    BY <2>2, <2>3 DEF UsersStay
<1>3. CASE \E q \in Requests : VerifyEmailCommit(q)
  <2>1. PICK q \in Requests : VerifyEmailCommit(q)
    BY <1>3
  <2>2. PICK u : u = work[q].user
    OBVIOUS
  <2>3. u \in UserIds /\ users[u] # None
    BY <2>1, <2>2 DEF SignedUp, WorkHolds, Remembers, Work, VerifyEmailCommit, Busy
  <2>4. PICK row : row = [users[u] EXCEPT !.status = "active"]
    OBVIOUS
  <2>5. users[u] \in UserRow
    BY <2>3 DEF SignedUp, UsersTyped
  <2>6. row \in UserRow /\ row.status = "active" /\ row.email = users[u].email
    BY <2>4, <2>5 DEF UserRow
  <2>7. users' = [users EXCEPT ![u] = row]
    BY <2>1, <2>2, <2>4 DEF VerifyEmailCommit
  <2>8. \A t \in UserIds : users'[t] = IF t = u THEN row ELSE users[t]
    BY <2>3, <2>7 DEF SignedUp, UsersTyped
  <2>9. row # None
    BY <2>6, NoneIsNoIdentity
  <2>10. QED
    BY <2>6, <2>8, <2>9 DEF UsersStay
<1>4. CASE IdentityStep
  BY <1>1, <1>2, <1>4
  DEF IdentityStep, RecordKnownInvitation, MarkKnownInvitation, SignUpVerify,
      SignUpFindUser, VerifyEmailRead, CreateExistingIdentitySession,
      VerifyEmailFindUser, Fail
<1>5. CASE \E q \in Requests : VerifyEmail(q)
  BY <1>3, <1>5 DEF VerifyEmail
<1>6. CASE \/ \E p \in Ops : Invite(p) \/ Revoke(p) \/ Expire(p) \/ Archive(p)
           \/ \E p \in Ops : RedeemDone(p)
  BY <1>1, <1>6
  DEF Invite, Revoke, Expire, Archive, RedeemDone, Quietly, Telling, identity
<1>7. CASE \/ \E p \in Ops :
                \/ RedeemFind(p) \/ RedeemRejected(p)
                \/ ActivateNext(p) \/ ActivateDone(p)
                \/ \E u \in UserIds :
                     \/ ActivateRequested(p, u)
                     \/ \E v \in InvitationIds : RedeemRequested(p, v, u)
                \/ M!Abandon(p) /\ Quietly
           \/ \E u \in UserIds :
                \/ NothingToActivate(u)
                \/ \E v \in InvitationIds : RedeemRefused(v, u)
           \/ \E v \in InvitationIds : M!Lapse(v) /\ Quietly
  <2>1. UNCHANGED users
    BY <1>7 DEF RedeemFind, RedeemRejected, ActivateNext, ActivateDone,
                ActivateRequested, RedeemRequested, NothingToActivate,
                RedeemRefused, Quietly, Done, identity
  <2>2. QED
    BY <1>1, <2>1
<1>8. CASE UNCHANGED vars
  BY <1>1, <1>8 DEF vars, identity
<1>9. QED
  BY <1>4, <1>5, <1>6, <1>7, <1>8 DEF Next

\* A commit patches one row, or adds one.
LEMMA InvitationChanges ==
  ASSUME M!TypeOK, NEW v \in InvitationIds, NEW row,
         invitations' = [invitations EXCEPT ![v] = row]
  PROVE  \A w \in InvitationIds :
           invitations'[w] = IF w = v THEN row ELSE invitations[w]
BY DEF M!TypeOK

LEMMA MembershipChanges ==
  ASSUME M!TypeOK, NEW m \in MembershipIds, NEW row,
         memberships' = [memberships EXCEPT ![m] = row]
  PROVE  \A n \in MembershipIds :
           memberships'[n] = IF n = m THEN row ELSE memberships[n]
BY DEF M!TypeOK

LEMMA HandlerChanges ==
  ASSUME M!TypeOK, NEW p \in Ops, NEW h, M!Goto(p, h)
  PROVE  \A q \in Ops : op'[q] = IF q = p THEN h ELSE op[q]
BY DEF M!TypeOK, M!Goto, M!Processes

\* Where a commit writes.
Inserted(m, row) ==
  /\ memberships[m] = None /\ row \in M!MembershipRow
  /\ row.status = "pending" /\ ~row.activatedAt
  /\ memberships' = [memberships EXCEPT ![m] = row]

Patched(m, status) ==
  /\ m \in M!Members
  /\ \E row \in M!MembershipRow :
       /\ memberships' = [memberships EXCEPT ![m] = row]
       /\ row.who = memberships[m].who /\ row.ten = memberships[m].ten
       /\ row.status = status
       /\ row.activatedAt => memberships[m].activatedAt \/ status = "active"

Settles(v, status) ==
  /\ v \in M!Invites
  /\ \E row \in M!InvitationRow :
       /\ invitations' = [invitations EXCEPT ![v] = row]
       /\ row.ten = invitations[v].ten /\ row.invitee = invitations[v].invitee
       /\ row.status = status

LEMMA RevocationSettles ==
  ASSUME Base, NEW p \in Ops, M!RevokeCommit(p)
  PROVE  Settles(op[p].inv, "revoked") /\ op[p].inv \in InvitationIds
<1>1. PICK v : v = op[p].inv
  OBVIOUS
<1>2. v \in M!Invites /\ v \in InvitationIds
  BY <1>1 DEF Base, MembershipHolds, M!StaleReadsHold, M!HoldsInvitations,
              M!Processes, M!RevokeCommit, M!At, M!Invites
<1>3. invitations[v] \in M!InvitationRow
  BY <1>2 DEF Base, MembershipHolds, M!TypeOK, M!Invites
<1>4. PICK row : row = [invitations[v] EXCEPT !.status = "revoked"]
  OBVIOUS
<1>5. /\ row \in M!InvitationRow /\ row.status = "revoked"
      /\ row.ten = invitations[v].ten /\ row.invitee = invitations[v].invitee
  BY <1>3, <1>4 DEF M!InvitationRow, M!InvitationStatuses
<1>6. invitations' = [invitations EXCEPT ![v] = row]
  BY <1>1, <1>4 DEF M!RevokeCommit, M!RevokePatch
<1>7. QED
  BY <1>1, <1>2, <1>5, <1>6 DEF Settles

LEMMA ExpirySettles ==
  ASSUME Base, NEW p \in Ops, M!ExpireCommit(p)
  PROVE  Settles(op[p].inv, "expired") /\ op[p].inv \in InvitationIds
<1>1. PICK v : v = op[p].inv
  OBVIOUS
<1>2. v \in M!Invites /\ v \in InvitationIds
  BY <1>1 DEF Base, MembershipHolds, M!StaleReadsHold, M!HoldsInvitations,
              M!Processes, M!ExpireCommit, M!At, M!Invites
<1>3. invitations[v] \in M!InvitationRow
  BY <1>2 DEF Base, MembershipHolds, M!TypeOK, M!Invites
<1>4. PICK row : row = [invitations[v] EXCEPT !.status = "expired"]
  OBVIOUS
<1>5. /\ row \in M!InvitationRow /\ row.status = "expired"
      /\ row.ten = invitations[v].ten /\ row.invitee = invitations[v].invitee
  BY <1>3, <1>4 DEF M!InvitationRow, M!InvitationStatuses
<1>6. invitations' = [invitations EXCEPT ![v] = row]
  BY <1>1, <1>4 DEF M!ExpireCommit, M!ExpireInvitation, M!ExpirePatch
<1>7. QED
  BY <1>1, <1>2, <1>5, <1>6 DEF Settles

LEMMA RedemptionSettles ==
  ASSUME Base, NEW p \in Ops, M!RedeemCommit(p)
  PROVE  /\ Settles(op[p].inv, "redeemed") /\ op[p].inv \in InvitationIds
         /\ \/ UNCHANGED memberships
            \/ \E m \in MembershipIds : \E row : Inserted(m, row)
<1>1. PICK v : v = op[p].inv
  OBVIOUS
<1>2. /\ v \in M!Invites /\ v \in InvitationIds
      /\ op[p].who \in Emails /\ op[p].ten \in Tenants
  BY <1>1 DEF Base, MembershipHolds, M!StaleReadsHold, M!HoldsInvitations,
              M!Processes, M!RedeemCommit, M!At, M!Invites
<1>3. invitations[v] \in M!InvitationRow
  BY <1>2 DEF Base, MembershipHolds, M!TypeOK, M!Invites
<1>4. PICK row : row = [invitations[v] EXCEPT !.status = "redeemed",
                                              !.redeemedBy = op[p].who]
  OBVIOUS
<1>5. /\ row \in M!InvitationRow /\ row.status = "redeemed"
      /\ row.ten = invitations[v].ten /\ row.invitee = invitations[v].invitee
  BY <1>2, <1>3, <1>4 DEF M!InvitationRow, M!InvitationStatuses
<1>6. invitations' = [invitations EXCEPT ![v] = row]
  BY <1>1, <1>4 DEF M!RedeemCommit, M!RedeemPatch
<1>7. ASSUME NEW m \in MembershipIds,
             M!InsertMembership(m, M!NewMembership(op[p].who, op[p].ten, "pending"))
      PROVE  Inserted(m, M!NewMembership(op[p].who, op[p].ten, "pending"))
  <2>1. PICK new : new = M!NewMembership(op[p].who, op[p].ten, "pending")
    OBVIOUS
  <2>2. new \in M!MembershipRow /\ new.status = "pending" /\ ~new.activatedAt
    BY <1>2, <2>1
    DEF M!NewMembership, M!MembershipRow, M!MembershipStatuses
  <2>3. memberships[m] = None /\ memberships' = [memberships EXCEPT ![m] = new]
    BY <1>7, <2>1 DEF M!InsertMembership
  <2>4. QED
    BY <2>1, <2>2, <2>3 DEF Inserted
<1>8. QED
  BY <1>1, <1>2, <1>5, <1>6, <1>7 DEF Settles, M!RedeemCommit

LEMMA ActivationPatches ==
  ASSUME Base, NEW p \in Ops, M!ActivateCommit(p)
  PROVE  Patched(op[p].mem, "active") /\ op[p].mem \in MembershipIds
<1>1. PICK m : m = op[p].mem
  OBVIOUS
<1>2. m \in M!Members /\ m \in MembershipIds
  BY <1>1 DEF Base, MembershipHolds, M!StaleReadsHold, M!HoldsMemberships,
              M!Processes, M!ActivateCommit, M!At, M!Members
<1>3. memberships[m] \in M!MembershipRow
  BY <1>2 DEF Base, MembershipHolds, M!TypeOK, M!Members
<1>4. PICK row : row = [memberships[m] EXCEPT !.status = "active",
                                              !.activatedAt = TRUE]
  OBVIOUS
<1>5. /\ row \in M!MembershipRow /\ row.status = "active"
      /\ row.who = memberships[m].who /\ row.ten = memberships[m].ten
  BY <1>3, <1>4 DEF M!MembershipRow, M!MembershipStatuses
<1>6. memberships' = [memberships EXCEPT ![m] = row]
  BY <1>1, <1>4 DEF M!ActivateCommit, M!ActivatePatch
<1>7. QED
  BY <1>1, <1>2, <1>5, <1>6 DEF Patched

LEMMA ArchivalPatches ==
  ASSUME Base, NEW p \in Ops, NEW m \in MembershipIds, M!ArchiveCommit(p, m)
  PROVE  Patched(m, "archived")
<1>1. m \in M!Members
  BY DEF Base, MembershipHolds, M!StaleReadsHold, M!HoldsMemberships,
         M!Processes, M!ArchiveCommit, M!At, M!Members
<1>2. memberships[m] \in M!MembershipRow
  BY <1>1 DEF Base, MembershipHolds, M!TypeOK, M!Members
<1>3. PICK row : row = [memberships[m] EXCEPT !.status = "archived",
                                              !.source = None,
                                              !.archivedAt = TRUE]
  OBVIOUS
<1>4. /\ row \in M!MembershipRow /\ row.status = "archived"
      /\ row.who = memberships[m].who /\ row.ten = memberships[m].ten
      /\ row.activatedAt = memberships[m].activatedAt
  BY <1>2, <1>3 DEF M!MembershipRow, M!MembershipStatuses
<1>5. memberships' = [memberships EXCEPT ![m] = row]
  BY <1>3 DEF M!ArchiveCommit, M!ArchivePatch
<1>6. QED
  BY <1>1, <1>4, <1>5 DEF Patched

\* A step changes at most one row of either collection.
LEMMA StoreSteps ==
  ASSUME Base, [Next]_vars
  PROVE  \/ UNCHANGED <<memberships, invitations>>
         \/ /\ UNCHANGED memberships
            /\ \E p \in Ops, v \in InvitationIds : M!InviteCommit(p, v)
         \/ /\ UNCHANGED memberships
            /\ \E p \in Ops : M!RevokeCommit(p) \/ M!ExpireCommit(p)
         \/ \E p \in Ops : M!RedeemCommit(p)
         \/ /\ UNCHANGED invitations
            /\ \E p \in Ops :
                 \/ M!ActivateCommit(p)
                 \/ \E m \in MembershipIds : M!ArchiveCommit(p, m)
<1>1. CASE \E p \in Ops : Invite(p) \/ Revoke(p) \/ Expire(p) \/ Archive(p)
  BY <1>1
  DEF Invite, Revoke, Expire, Archive, M!InviteRead, M!InviteCommit,
      M!RevokeRead, M!RevokeCommit, M!ExpireRead, M!ExpireCommit,
      M!ExpireInvitation, M!ArchiveRead, M!ArchiveCommit, M!Begin, M!db
<1>2. CASE \E p \in Ops :
             \/ RedeemFind(p) \/ RedeemDone(p) \/ RedeemRejected(p)
             \/ \E u \in UserIds, v \in InvitationIds : RedeemRequested(p, v, u)
  BY <1>2
  DEF RedeemFind, RedeemDone, RedeemRejected, RedeemRequested, M!RedeemRead,
      M!RedeemFindMembership, M!Abandon, M!Begin, M!db
<1>3. CASE \E p \in Ops :
             \/ ActivateNext(p) \/ ActivateDone(p)
             \/ \E u \in UserIds : ActivateRequested(p, u)
  BY <1>3
  DEF ActivateNext, ActivateDone, ActivateRequested, M!ActivatePendingRead,
      M!ActivatePendingNext, M!ActivateCommit, M!Begin, M!db
<1>4. CASE \/ \E p \in Ops : M!Abandon(p) /\ Quietly
           \/ \E v \in InvitationIds : M!Lapse(v) /\ Quietly
  BY <1>4 DEF M!Abandon, M!Lapse, M!db
<1>5. CASE \/ IdentityStep /\ UNCHANGED <<membership, waiting>>
           \/ \E q \in Requests : VerifyEmail(q)
           \/ \E u \in UserIds :
                \/ NothingToActivate(u)
                \/ \E v \in InvitationIds : RedeemRefused(v, u)
           \/ UNCHANGED vars
  BY <1>5 DEF VerifyEmail, NothingToActivate, RedeemRefused, vars, membership
<1>6. QED
  BY <1>1, <1>2, <1>3, <1>4, <1>5 DEF Next

\* Rows stay, as those of the same identity, tenant and invitee; a new
\* membership has not been activated; a settled invitation stays settled.
MembershipsStay ==
  \A m \in MembershipIds :
    /\ m \in M!Members =>
         /\ memberships'[m] # None
         /\ memberships'[m].who = memberships[m].who
         /\ memberships'[m].ten = memberships[m].ten
    /\ m \notin M!Members /\ memberships'[m] # None =>
         memberships'[m].status = "pending" /\ ~memberships'[m].activatedAt

InvitationsStay ==
  \A v \in InvitationIds :
    v \in M!Invites =>
      /\ invitations'[v] # None
      /\ invitations'[v].ten = invitations[v].ten
      /\ invitations'[v].invitee = invitations[v].invitee
      /\ invitations[v].status # "pending" => invitations'[v].status # "pending"

LEMMA SettlesStays ==
  ASSUME Base, NEW v \in InvitationIds, NEW status, status # "pending",
         Settles(v, status)
  PROVE  InvitationsStay
<1>1. PICK row \in M!InvitationRow :
        /\ invitations' = [invitations EXCEPT ![v] = row]
        /\ row.ten = invitations[v].ten /\ row.invitee = invitations[v].invitee
        /\ row.status = status
  BY DEF Settles
<1>2. row # None
  BY MembershipMeetsIdentity
<1>3. \A w \in InvitationIds :
        invitations'[w] = IF w = v THEN row ELSE invitations[w]
  BY <1>1, InvitationChanges DEF Base, MembershipHolds
<1>4. QED
  BY <1>1, <1>2, <1>3 DEF InvitationsStay, M!Invites

LEMMA PatchedStays ==
  ASSUME Base, NEW m \in MembershipIds, NEW status, Patched(m, status)
  PROVE  MembershipsStay
<1>1. PICK row \in M!MembershipRow :
        /\ memberships' = [memberships EXCEPT ![m] = row]
        /\ row.who = memberships[m].who /\ row.ten = memberships[m].ten
  BY DEF Patched
<1>2. row # None /\ m \in M!Members
  BY MembershipMeetsIdentity DEF Patched
<1>3. \A n \in MembershipIds :
        memberships'[n] = IF n = m THEN row ELSE memberships[n]
  BY <1>1, MembershipChanges DEF Base, MembershipHolds
<1>4. QED
  BY <1>1, <1>2, <1>3 DEF MembershipsStay, M!Members

LEMMA InsertedStays ==
  ASSUME Base, NEW m \in MembershipIds, NEW row, Inserted(m, row)
  PROVE  MembershipsStay
<1>1. /\ memberships[m] = None
      /\ row.status = "pending" /\ ~row.activatedAt
      /\ memberships' = [memberships EXCEPT ![m] = row]
  BY DEF Inserted
<1>2. \A n \in MembershipIds :
        memberships'[n] = IF n = m THEN row ELSE memberships[n]
  BY <1>1, MembershipChanges DEF Base, MembershipHolds
<1>3. QED
  BY <1>1, <1>2 DEF MembershipsStay, M!Members

LEMMA NextRowsStay ==
  ASSUME Base, [Next]_vars
  PROVE  MembershipsStay /\ InvitationsStay
<1>1. UNCHANGED memberships => MembershipsStay
  BY DEF MembershipsStay, M!Members
<1>2. UNCHANGED invitations => InvitationsStay
  BY DEF InvitationsStay, M!Invites
<1>3. CASE \E p \in Ops, v \in InvitationIds : M!InviteCommit(p, v)
  <2>1. PICK p \in Ops, v \in InvitationIds : M!InviteCommit(p, v)
    BY <1>3
  <2>2. PICK row : row = M!NewInvitation(op[p].ten, op[p].who)
    OBVIOUS
  <2>3. /\ invitations[v] = None
        /\ invitations' = [invitations EXCEPT ![v] = row]
        /\ UNCHANGED memberships
    BY <2>1, <2>2 DEF M!InviteCommit, M!InsertInvitation
  <2>4. \A w \in InvitationIds :
          invitations'[w] = IF w = v THEN row ELSE invitations[w]
    BY <2>3, InvitationChanges DEF Base, MembershipHolds
  <2>5. InvitationsStay
    BY <2>3, <2>4 DEF InvitationsStay, M!Invites
  <2>6. QED
    BY <1>1, <2>3, <2>5
<1>4. CASE UNCHANGED memberships
           /\ \E p \in Ops : M!RevokeCommit(p) \/ M!ExpireCommit(p)
  BY <1>1, <1>4, RevocationSettles, ExpirySettles, SettlesStays
<1>5. CASE \E p \in Ops : M!RedeemCommit(p)
  BY <1>1, <1>5, RedemptionSettles, SettlesStays, InsertedStays
<1>6. CASE UNCHANGED invitations
           /\ \E p \in Ops : \/ M!ActivateCommit(p)
                             \/ \E m \in MembershipIds : M!ArchiveCommit(p, m)
  BY <1>2, <1>6, ActivationPatches, ArchivalPatches, PatchedStays
<1>7. QED
  BY <1>1, <1>2, <1>3, <1>4, <1>5, <1>6, StoreSteps

-----------------------------------------------------------------------------
(* A membership that is effective belongs to a verified identity: the list *)
(* of a reaction to user.activated is of memberships whose owner has been  *)
(* verified, and a verified identity stays so.                             *)

VerifiedEmails ==
  {users[u].email : u \in {t \in UserIds : users[t] # None
                                           /\ users[t].status = "active"}}

ActivatesVerified(o) ==
  /\ o.step \in {"activatePending", "activate"} =>
       \A m \in o.todo : m \in M!Members /\ memberships[m].who \in VerifiedEmails
  /\ o.step = "activate" => o.mem \in o.todo

EffectiveAreVerified ==
  \A m \in M!Members :
    memberships[m].activatedAt => memberships[m].who \in VerifiedEmails

OnlyVerified ==
  EffectiveAreVerified /\ \A p \in Ops : ActivatesVerified(op[p])

LEMMA InitOnlyVerified == Init => OnlyVerified
BY DEF Init, M!Init, M!Idle, M!Processes, M!Members, OnlyVerified,
       EffectiveAreVerified, ActivatesVerified

LEMMA VerifiedStays ==
  ASSUME UsersStay
  PROVE  VerifiedEmails \subseteq VerifiedEmails'
BY DEF UsersStay, VerifiedEmails

\* A membership of a verified owner stays one.
LEMMA OwnerStays ==
  ASSUME UsersStay, MembershipsStay, NEW m \in M!Members,
         memberships[m].who \in VerifiedEmails
  PROVE  m \in M!Members' /\ memberships'[m].who \in VerifiedEmails'
BY VerifiedStays DEF MembershipsStay, M!Members

LEMMA ActivatesVerifiedStays ==
  ASSUME UsersStay, MembershipsStay, NEW o, ActivatesVerified(o)
  PROVE  ActivatesVerified(o)'
BY OwnerStays DEF ActivatesVerified

\* A step that activates only what its list of verified owners holds.
LEMMA VerifiedMove ==
  ASSUME OnlyVerified, Base, UsersStay, MembershipsStay,
         NEW p \in Ops, NEW h, M!Goto(p, h), ActivatesVerified(h),
         \A m \in M!Members :
           memberships'[m].activatedAt =>
             memberships[m].activatedAt \/ memberships[m].who \in VerifiedEmails
  PROVE  OnlyVerified'
<1>1. ASSUME NEW m \in M!Members', memberships'[m].activatedAt
      PROVE  memberships'[m].who \in VerifiedEmails'
  <2>1. m \in M!Members
    BY <1>1 DEF MembershipsStay, M!Members
  <2>2. memberships[m].who \in VerifiedEmails
    BY <1>1, <2>1 DEF OnlyVerified, EffectiveAreVerified
  <2>3. QED
    BY <2>1, <2>2, OwnerStays
<1>2. ASSUME NEW q \in Ops
      PROVE  ActivatesVerified(op[q])'
  <2>1. op'[q] = IF q = p THEN h ELSE op[q]
    BY HandlerChanges DEF Base, MembershipHolds
  <2>2. PICK o : o = IF q = p THEN h ELSE op[q]
    OBVIOUS
  <2>3. ActivatesVerified(o)'
    BY <2>2, ActivatesVerifiedStays DEF OnlyVerified
  <2>4. QED
    BY <2>1, <2>2, <2>3 DEF ActivatesVerified
<1>3. QED
  BY <1>1, <1>2 DEF OnlyVerified, EffectiveAreVerified

LEMMA QuietVerified ==
  ASSUME OnlyVerified, UsersStay, MembershipsStay, UNCHANGED <<memberships, op>>
  PROVE  OnlyVerified'
<1>1. EffectiveAreVerified'
  BY OwnerStays DEF OnlyVerified, EffectiveAreVerified, M!Members
<1>2. ASSUME NEW q \in Ops
      PROVE  ActivatesVerified(op[q])'
  <2>1. PICK o : o = op[q]
    OBVIOUS
  <2>2. ActivatesVerified(o)'
    BY <2>1, ActivatesVerifiedStays DEF OnlyVerified
  <2>3. QED
    BY <2>1, <2>2 DEF ActivatesVerified
<1>3. QED
  BY <1>1, <1>2 DEF OnlyVerified

\* A handler that does not activate.
Elsewhere(h) == h.step \notin {"activatePending", "activate"}

LEMMA ElsewhereVerified ==
  ASSUME OnlyVerified, Base, UsersStay, MembershipsStay,
         NEW p \in Ops, NEW h, M!Goto(p, h), Elsewhere(h),
         \A m \in M!Members :
           memberships'[m].activatedAt => memberships[m].activatedAt
  PROVE  OnlyVerified'
<1>1. ActivatesVerified(h)
  BY DEF Elsewhere, ActivatesVerified
<1>2. QED
  BY <1>1, VerifiedMove

\* What such a handler goes to.
LEMMA IdleElsewhere == Elsewhere(M!Idle)
BY DEF Elsewhere, M!Idle

GoesElsewhere(p) ==
  UNCHANGED memberships /\ \E h : M!Goto(p, h) /\ Elsewhere(h)

LEMMA BeginsElsewhere ==
  ASSUME NEW p, NEW h, M!Begin(p, h), Elsewhere(h)
  PROVE  GoesElsewhere(p)
BY DEF M!Begin, M!db, GoesElsewhere

LEMMA InvitationReadsElsewhere ==
  ASSUME NEW p, NEW t, NEW e, NEW v
  PROVE  /\ M!InviteRead(p, t, e) => GoesElsewhere(p)
         /\ M!RedeemRead(p, e, v) => GoesElsewhere(p)
         /\ M!RevokeRead(p, v) => GoesElsewhere(p)
         /\ M!ExpireRead(p, v) => GoesElsewhere(p)
         /\ M!ArchiveRead(p, v) => GoesElsewhere(p)
<1>1. ASSUME M!InviteRead(p, t, e)
      PROVE  GoesElsewhere(p)
  <2>1. PICK h : h = [M!Idle EXCEPT !.step = "invite", !.who = e, !.ten = t]
    OBVIOUS
  <2>2. M!Begin(p, h)
    BY <1>1, <2>1 DEF M!InviteRead
  <2>3. Elsewhere(h)
    BY <2>1 DEF M!Idle, Elsewhere
  <2>4. QED
    BY <2>2, <2>3, BeginsElsewhere
<1>2. ASSUME M!RedeemRead(p, e, v)
      PROVE  GoesElsewhere(p)
  <2>1. PICK h : h = [M!Idle EXCEPT !.step = "redeem", !.who = e, !.inv = v,
                                    !.ten = invitations[v].ten]
    OBVIOUS
  <2>2. M!Begin(p, h)
    BY <1>2, <2>1 DEF M!RedeemRead
  <2>3. Elsewhere(h)
    BY <2>1 DEF M!Idle, Elsewhere
  <2>4. QED
    BY <2>2, <2>3, BeginsElsewhere
<1>3. ASSUME M!RevokeRead(p, v)
      PROVE  GoesElsewhere(p)
  <2>1. PICK h : h = [M!Idle EXCEPT !.step = "revoke", !.inv = v]
    OBVIOUS
  <2>2. M!Begin(p, h)
    BY <1>3, <2>1 DEF M!RevokeRead
  <2>3. Elsewhere(h)
    BY <2>1 DEF M!Idle, Elsewhere
  <2>4. QED
    BY <2>2, <2>3, BeginsElsewhere
<1>4. ASSUME M!ExpireRead(p, v)
      PROVE  GoesElsewhere(p)
  <2>1. PICK h : h = [M!Idle EXCEPT !.step = "expire", !.inv = v]
    OBVIOUS
  <2>2. M!Begin(p, h)
    BY <1>4, <2>1 DEF M!ExpireRead
  <2>3. Elsewhere(h)
    BY <2>1 DEF M!Idle, Elsewhere
  <2>4. QED
    BY <2>2, <2>3, BeginsElsewhere
<1>5. ASSUME M!ArchiveRead(p, v)
      PROVE  GoesElsewhere(p)
  <2>1. PICK h : h = [M!Idle EXCEPT !.step = "archive", !.todo = {v}]
    OBVIOUS
  <2>2. M!Begin(p, h)
    BY <1>5, <2>1 DEF M!ArchiveRead
  <2>3. Elsewhere(h)
    BY <2>1 DEF M!Idle, Elsewhere
  <2>4. QED
    BY <2>2, <2>3, BeginsElsewhere
<1>6. QED
  BY <1>1, <1>2, <1>3, <1>4, <1>5

LEMMA HandlersElsewhere ==
  ASSUME NEW p \in Ops,
         \/ Invite(p) \/ Revoke(p) \/ Expire(p)
         \/ \E m \in MembershipIds : M!ArchiveRead(p, m)
         \/ RedeemFind(p) \/ RedeemRejected(p)
         \/ \E u \in UserIds, v \in InvitationIds : RedeemRequested(p, v, u)
         \/ M!Abandon(p)
  PROVE  GoesElsewhere(p)
<1>1. CASE Invite(p)
  BY <1>1, InvitationReadsElsewhere, IdleElsewhere
  DEF Invite, M!InviteCommit, GoesElsewhere
<1>2. CASE Revoke(p)
  BY <1>2, InvitationReadsElsewhere, IdleElsewhere
  DEF Revoke, M!RevokeCommit, GoesElsewhere
<1>3. CASE Expire(p)
  BY <1>3, InvitationReadsElsewhere, IdleElsewhere
  DEF Expire, M!ExpireCommit, M!ExpireInvitation, GoesElsewhere
<1>4. CASE RedeemFind(p)
  <2>1. PICK mem : M!Goto(p, [op[p] EXCEPT !.step = "redeemCommit", !.mem = mem])
    BY <1>4 DEF RedeemFind, M!RedeemFindMembership
  <2>2. Elsewhere([op[p] EXCEPT !.step = "redeemCommit", !.mem = mem])
    BY DEF Elsewhere
  <2>3. UNCHANGED memberships
    BY <1>4 DEF RedeemFind, M!RedeemFindMembership, M!db
  <2>4. QED
    BY <2>1, <2>2, <2>3 DEF GoesElsewhere
<1>5. CASE RedeemRejected(p) \/ M!Abandon(p)
  BY <1>5, IdleElsewhere DEF RedeemRejected, M!Abandon, M!db, GoesElsewhere
<1>6. CASE \/ \E u \in UserIds, v \in InvitationIds : RedeemRequested(p, v, u)
           \/ \E m \in MembershipIds : M!ArchiveRead(p, m)
  BY <1>6, InvitationReadsElsewhere DEF RedeemRequested
<1>7. QED
  BY <1>1, <1>2, <1>3, <1>4, <1>5, <1>6

LEMMA CommitsElsewhere ==
  ASSUME Base, NEW p \in Ops,
         \/ M!RedeemCommit(p)
         \/ \E m \in MembershipIds : M!ArchiveCommit(p, m)
  PROVE  /\ \E h : M!Goto(p, h) /\ Elsewhere(h)
         /\ \A m \in M!Members :
              memberships'[m].activatedAt => memberships[m].activatedAt
<1>1. CASE M!RedeemCommit(p)
  <2>1. M!Goto(p, M!Idle)
    BY <1>1 DEF M!RedeemCommit
  <2>2. ASSUME NEW m \in MembershipIds, NEW row, Inserted(m, row)
        PROVE  \A n \in M!Members : memberships'[n] = memberships[n]
    BY <2>2, MembershipChanges DEF Inserted, M!Members, Base, MembershipHolds
  <2>3. \A n \in M!Members : memberships'[n] = memberships[n]
    BY <1>1, <2>2, RedemptionSettles
  <2>4. QED
    BY <2>1, <2>3, IdleElsewhere
<1>2. CASE \E m \in MembershipIds : M!ArchiveCommit(p, m)
  <2>1. PICK m \in MembershipIds : M!ArchiveCommit(p, m)
    BY <1>2
  <2>2. op[p].step = "archive"
    BY <2>1 DEF M!ArchiveCommit, M!At
  <2>3. PICK h : /\ h = IF op[p].todo \ {m} = {} THEN M!Idle
                        ELSE [op[p] EXCEPT !.todo = @ \ {m}]
                 /\ M!Goto(p, h)
    BY <2>1 DEF M!ArchiveCommit, M!Advance
  <2>4. Elsewhere(h)
    <3>1. op[p] \in M!Handler
      BY DEF Base, MembershipHolds, M!TypeOK, M!Processes
    <3>2. Elsewhere([op[p] EXCEPT !.todo = @ \ {m}])
      BY <2>2, <3>1 DEF Elsewhere, M!Handler
    <3>3. QED
      BY <2>3, <3>2, IdleElsewhere
  <2>5. PICK row \in M!MembershipRow :
          /\ memberships' = [memberships EXCEPT ![m] = row]
          /\ row.activatedAt => memberships[m].activatedAt
    BY <2>1, ArchivalPatches DEF Patched
  <2>6. \A n \in MembershipIds :
          memberships'[n] = IF n = m THEN row ELSE memberships[n]
    BY <2>5, MembershipChanges DEF Base, MembershipHolds
  <2>7. QED
    BY <2>3, <2>4, <2>5, <2>6 DEF M!Members
<1>3. QED
  BY <1>1, <1>2

LEMMA ActivationReadVerified ==
  ASSUME OnlyVerified, Base, UsersStay, MembershipsStay, NEW p \in Ops,
         NEW u \in UserIds, ActivateRequested(p, u)
  PROVE  OnlyVerified'
<1>1. PICK h : /\ h = [M!Idle EXCEPT
                         !.step = "activatePending",
                         !.todo = M!ListByIdentity(users[u].email, {"pending"})]
               /\ M!Begin(p, h)
  BY DEF ActivateRequested, M!ActivatePendingRead
<1>2. users[u] # None /\ users[u].status = "active"
  BY DEF ActivateRequested, Base, SignedUp, MessagesNameUsers
<1>3. users[u].email \in VerifiedEmails
  BY <1>2 DEF VerifiedEmails
<1>4. h.todo = M!ListByIdentity(users[u].email, {"pending"})
      /\ h.step = "activatePending"
  BY <1>1 DEF M!Idle
<1>5. ActivatesVerified(h)
  BY <1>3, <1>4 DEF ActivatesVerified, M!ListByIdentity
<1>6. M!Goto(p, h) /\ UNCHANGED memberships
  BY <1>1 DEF M!Begin, M!db
<1>7. QED
  BY <1>5, <1>6, VerifiedMove

LEMMA ActivationNextVerified ==
  ASSUME OnlyVerified, Base, UsersStay, MembershipsStay, NEW p \in Ops,
         ActivateNext(p)
  PROVE  OnlyVerified'
<1>1. PICK m \in MembershipIds : M!ActivatePendingNext(p, m)
  BY DEF ActivateNext
<1>2. PICK h : h = [op[p] EXCEPT !.step = "activate", !.mem = m]
  OBVIOUS
<1>3. /\ op[p].step = "activatePending" /\ m \in op[p].todo
      /\ M!Goto(p, h) /\ UNCHANGED memberships
  BY <1>1, <1>2 DEF M!ActivatePendingNext, M!At, M!db
<1>4. op[p] \in M!Handler
  BY DEF Base, MembershipHolds, M!TypeOK, M!Processes
<1>5. h.todo = op[p].todo /\ h.mem = m /\ h.step = "activate"
  BY <1>2, <1>4 DEF M!Handler
<1>6. ActivatesVerified(h)
  BY <1>3, <1>5 DEF ActivatesVerified, OnlyVerified
<1>7. QED
  BY <1>3, <1>6, VerifiedMove

LEMMA ActivationCommitVerified ==
  ASSUME OnlyVerified, Base, UsersStay, MembershipsStay, NEW p \in Ops,
         M!ActivateCommit(p)
  PROVE  OnlyVerified'
<1>1. PICK m : m = op[p].mem
  OBVIOUS
<1>2. PICK next : next = [op[p] EXCEPT !.step = "activatePending", !.mem = None]
  OBVIOUS
<1>3. PICK h : /\ h = IF op[p].todo \ {m} = {} THEN M!Idle
                      ELSE [next EXCEPT !.todo = @ \ {m}]
               /\ M!Goto(p, h)
  BY <1>1, <1>2 DEF M!ActivateCommit, M!Advance
<1>4. op[p] \in M!Handler
  BY DEF Base, MembershipHolds, M!TypeOK, M!Processes
<1>5. next.step = "activatePending" /\ next.todo = op[p].todo
  BY <1>2, <1>4 DEF M!Handler
<1>6. ActivatesVerified(op[p]) /\ op[p].step = "activate"
  BY DEF OnlyVerified, M!ActivateCommit, M!At
<1>7. ActivatesVerified(h)
  <2>1. CASE h = M!Idle
    BY <2>1 DEF M!Idle, ActivatesVerified
  <2>2. CASE h = [next EXCEPT !.todo = @ \ {m}]
    <3>1. h.todo \subseteq op[p].todo /\ h.step = "activatePending"
      BY <1>2, <1>4, <1>5, <2>2 DEF M!Handler
    <3>2. QED
      BY <1>6, <3>1 DEF ActivatesVerified
  <2>3. QED
    BY <1>3, <2>1, <2>2
<1>8. m \in M!Members /\ m \in MembershipIds
      /\ memberships[m].who \in VerifiedEmails
  BY <1>1, <1>6 DEF ActivatesVerified, M!Members
<1>9. PICK row : memberships' = [memberships EXCEPT ![m] = row]
  BY <1>1 DEF M!ActivateCommit
<1>10. \A n \in MembershipIds :
         memberships'[n] = IF n = m THEN row ELSE memberships[n]
  BY <1>8, <1>9, MembershipChanges DEF Base, MembershipHolds
<1>11. \A n \in M!Members :
         memberships'[n].activatedAt =>
           memberships[n].activatedAt \/ memberships[n].who \in VerifiedEmails
  BY <1>8, <1>10 DEF M!Members
<1>12. QED
  BY <1>3, <1>7, <1>11, VerifiedMove

LEMMA NextOnlyVerified == OnlyVerified /\ Base /\ [Next]_vars => OnlyVerified'
<1> SUFFICES ASSUME OnlyVerified, Base, [Next]_vars PROVE OnlyVerified'
  OBVIOUS
<1>1. UsersStay /\ MembershipsStay
  BY NextUsersStay, NextRowsStay DEF Base
<1>2. CASE \E p \in Ops :
             \/ Invite(p) \/ Revoke(p) \/ Expire(p)
             \/ \E m \in MembershipIds : M!ArchiveRead(p, m)
             \/ RedeemFind(p) \/ RedeemRejected(p)
             \/ \E u \in UserIds, v \in InvitationIds : RedeemRequested(p, v, u)
             \/ M!Abandon(p)
  <2>1. PICK p \in Ops : GoesElsewhere(p)
    BY <1>2, HandlersElsewhere
  <2>2. QED
    BY <1>1, <2>1, ElsewhereVerified DEF GoesElsewhere
<1>3. CASE \E p \in Ops : \/ M!RedeemCommit(p)
                          \/ \E m \in MembershipIds : M!ArchiveCommit(p, m)
  BY <1>1, <1>3, CommitsElsewhere, ElsewhereVerified
<1>4. CASE \E p \in Ops :
             \/ ActivateNext(p) \/ M!ActivateCommit(p)
             \/ \E u \in UserIds : ActivateRequested(p, u)
  BY <1>1, <1>4, ActivationReadVerified, ActivationNextVerified,
     ActivationCommitVerified
<1>5. CASE \/ IdentityStep /\ UNCHANGED <<membership, waiting>>
           \/ \E q \in Requests : VerifyEmail(q)
           \/ \E u \in UserIds :
                \/ NothingToActivate(u)
                \/ \E v \in InvitationIds : RedeemRefused(v, u)
           \/ \E v \in InvitationIds : M!Lapse(v) /\ Quietly
           \/ UNCHANGED vars
  <2>1. UNCHANGED <<memberships, op>>
    BY <1>5 DEF VerifyEmail, NothingToActivate, RedeemRefused, vars, membership,
                M!Lapse, M!db
  <2>2. QED
    BY <1>1, <2>1, QuietVerified
<1>6. QED
  BY <1>2, <1>3, <1>4, <1>5 DEF Next, Archive, RedeemDone, ActivateDone

\* However the messages of the two services are delayed, repeated or crossed,
\* no membership becomes effective whose owner has not verified the email:
\* Membership activates only what Identity has announced as active.
THEOREM OnboardingActivatesOnlyVerified == Spec => []EffectiveMembersAreVerified
<1>1. OnlyVerified => EffectiveMembersAreVerified
  BY DEF OnlyVerified, EffectiveAreVerified, EffectiveMembersAreVerified,
         VerifiedEmails, FindUserByEmail
<1>2. QED
  BY <1>1, InitOnlyVerified, NextOnlyVerified, AlwaysBase, PTL DEF Spec

-----------------------------------------------------------------------------
(* Messages, and the projection they feed, name invitations that exist,    *)
(* with the email that was invited.                                        *)

KnownNamed ==
  /\ known \in [InvitationIds -> KnownRow \union {None}]
  /\ \A v \in InvitationIds :
       known[v] # None => /\ v \in M!Invites
                          /\ known[v].email = invitations[v].invitee

SentNamed ==
  /\ sent \subseteq Messages
  /\ owed \subseteq sent \intersect (Redemptions \union Activations)
  /\ \A v \in InvitationIds :
       /\ \A e \in Emails :
            Created(v, e) \in sent => /\ v \in M!Invites
                                      /\ invitations[v].invitee = e
       /\ \A u \in UserIds : Redemption(v, u) \in sent => v \in M!Invites

WorkNamed ==
  \A q \in Requests :
    work[q].step \in {"signUp", "commit"} => work[q].inv \in M!Invites

Named == KnownNamed /\ SentNamed /\ WorkNamed /\ waiting \subseteq M!Members

LEMMA InitNamed == Init => Named
BY DEF Init, IdentityInit, Free, Named, KnownNamed, SentNamed, WorkNamed

\* What a step publishes, and what it leaves owed.
Tells(message) == sent' = sent \union {message} /\ owed' \subseteq owed
Asks(message)  == sent' = sent \union {message} /\ owed' = owed \union {message}

LEMMA MessageSteps ==
  ASSUME Base, [Next]_vars
  PROVE  \/ UNCHANGED sent /\ owed' \subseteq owed
         \/ \E p \in Ops :
              \/ \E v \in InvitationIds :
                   M!InviteCommit(p, v) /\ Tells(Created(v, op[p].who))
              \/ M!RevokeCommit(p) /\ Tells(Settled("revoked", op[p].inv))
              \/ M!ExpireCommit(p) /\ Tells(Settled("expired", op[p].inv))
              \/ M!RedeemCommit(p) /\ Tells(Settled("redeemed", op[p].inv))
         \/ \E q \in Requests, u \in UserIds :
              \/ /\ work[q].step = "commit"
                 /\ Asks(Redemption(work[q].inv, u))
              \/ Asks(Activated(u))
<1>1. CASE IdentityStep
  <2>1. CASE \E q \in Requests, u \in UserIds : CreateNewIdentity(q, u)
    BY <2>1 DEF CreateNewIdentity, Busy, Publish, SignUpMessages, Asks
  <2>2. CASE \E q \in Requests : CreateExistingIdentitySession(q)
    <3>1. PICK q \in Requests : CreateExistingIdentitySession(q)
      BY <2>2
    <3>2. work[q].user \in UserIds
      BY <3>1 DEF Base, SignedUp, WorkHolds, Work, CreateExistingIdentitySession
    <3>3. QED
      BY <3>1, <3>2 DEF CreateExistingIdentitySession, Busy, Publish, Asks
  <2>3. QED
    BY <1>1, <2>1, <2>2
    DEF IdentityStep, RecordKnownInvitation, MarkKnownInvitation, SignUpVerify,
        SignUpFindUser, VerifyEmailRead, VerifyEmailFindUser, Fail
<1>2. CASE \E q \in Requests : VerifyEmail(q)
  <2>1. PICK q \in Requests : VerifyEmailCommit(q)
    BY <1>2 DEF VerifyEmail
  <2>2. work[q].user \in UserIds
    BY <2>1 DEF Base, SignedUp, WorkHolds, Remembers, Work, VerifyEmailCommit, Busy
  <2>3. QED
    BY <2>1, <2>2 DEF VerifyEmailCommit, Publish, Asks
<1>3. CASE \E p \in Ops : Invite(p) \/ Revoke(p) \/ Expire(p) \/ Archive(p)
  BY <1>3 DEF Invite, Revoke, Expire, Archive, Quietly, Telling, Tells
<1>4. CASE \E p \in Ops : RedeemDone(p)
  BY <1>4 DEF RedeemDone, Tells
<1>5. CASE \E p \in Ops :
             \/ RedeemFind(p) \/ RedeemRejected(p)
             \/ ActivateNext(p) \/ ActivateDone(p)
             \/ \E u \in UserIds :
                  \/ ActivateRequested(p, u)
                  \/ \E v \in InvitationIds : RedeemRequested(p, v, u)
             \/ M!Abandon(p) /\ Quietly
  BY <1>5 DEF RedeemFind, RedeemRejected, ActivateNext, ActivateDone,
              ActivateRequested, RedeemRequested, Quietly, Done
<1>6. CASE \/ \E u \in UserIds :
                \/ NothingToActivate(u)
                \/ \E v \in InvitationIds : RedeemRefused(v, u)
           \/ \E v \in InvitationIds : M!Lapse(v) /\ Quietly
           \/ UNCHANGED vars
  BY <1>6 DEF NothingToActivate, RedeemRefused, Quietly, Done, vars
<1>7. QED
  BY <1>1, <1>2, <1>3, <1>4, <1>5, <1>6 DEF Next

\* The messages are told apart by their first word and their length.
LEMMA MessagesDiffer ==
  /\ \A v, e, w, u : Created(v, e) # Redemption(w, u)
  /\ \A v, e, u : Created(v, e) # Activated(u)
  /\ \A v, e, s, w : Created(v, e) # Settled(s, w)
  /\ \A w, u, t : Redemption(w, u) # Activated(t)
  /\ \A w, u, s, v : Redemption(w, u) # Settled(s, v)
  /\ \A s \in KnownStatuses : \A v, u : Settled(s, v) # Activated(u)
BY DEF Created, Redemption, Activated, Settled, KnownStatuses

LEMMA MessagesName ==
  /\ \A v, e, w, f : Created(v, e) = Created(w, f) => v = w /\ e = f
  /\ \A w, u, v, t : Redemption(w, u) = Redemption(v, t) => w = v /\ u = t
  /\ \A u, t : Activated(u) = Activated(t) => u = t
  /\ \A s, v, r, w : Settled(s, v) = Settled(r, w) => s = r /\ v = w
BY DEF Created, Redemption, Activated, Settled

LEMMA InvitesStay ==
  ASSUME InvitationsStay
  PROVE  /\ M!Invites \subseteq M!Invites'
         /\ \A v \in M!Invites :
              invitations'[v].invitee = invitations[v].invitee
BY DEF InvitationsStay, M!Invites

LEMMA SentStays ==
  ASSUME Base, Named, [Next]_vars
  PROVE  SentNamed'
<1>1. /\ M!Invites \subseteq M!Invites'
      /\ \A v \in M!Invites : invitations'[v].invitee = invitations[v].invitee
  BY NextRowsStay, InvitesStay
<1>2. CASE UNCHANGED sent /\ owed' \subseteq owed
  BY <1>1, <1>2 DEF Named, SentNamed
<1>3. ASSUME NEW p \in Ops, NEW v \in InvitationIds,
             M!InviteCommit(p, v) /\ Tells(Created(v, op[p].who))
      PROVE  SentNamed'
  <2>1. PICK e \in Emails : e = op[p].who
    BY <1>3 DEF Base, MembershipHolds, M!StaleReadsHold, M!HoldsInvitations,
                M!Processes, M!InviteCommit, M!At
  <2>2. op[p].ten \in Tenants
    BY <1>3 DEF Base, MembershipHolds, M!StaleReadsHold, M!HoldsInvitations,
                M!Processes, M!InviteCommit, M!At
  <2>3. PICK row : row = M!NewInvitation(op[p].ten, op[p].who)
    OBVIOUS
  <2>4. row \in M!InvitationRow /\ row.invitee = e
    BY <2>1, <2>2, <2>3
    DEF M!NewInvitation, M!InvitationRow, M!InvitationStatuses
  <2>5. row # None
    BY <2>4, MembershipMeetsIdentity
  <2>6. invitations' = [invitations EXCEPT ![v] = row]
    BY <1>3, <2>3 DEF M!InviteCommit, M!InsertInvitation
  <2>7. invitations'[v] = row
    BY <2>6 DEF Base, MembershipHolds, M!TypeOK
  <2>8. v \in M!Invites'
    BY <2>5, <2>7 DEF M!Invites
  <2>9. sent' = sent \union {Created(v, e)} /\ owed' \subseteq owed
    BY <1>3, <2>1 DEF Tells
  <2>10. Created(v, e) \in Messages
    BY <2>1 DEF Messages
  <2>11. \A w \in InvitationIds, f \in Emails :
           Created(w, f) \in sent' => Created(w, f) \in sent \/ (w = v /\ f = e)
    BY <2>9, MessagesName
  <2>12. \A w \in InvitationIds, u \in UserIds :
           Redemption(w, u) \in sent' => Redemption(w, u) \in sent
    BY <2>9, MessagesDiffer
  <2>13. QED
    BY <1>1, <2>4, <2>7, <2>8, <2>9, <2>10, <2>11, <2>12 DEF Named, SentNamed
<1>4. ASSUME NEW p \in Ops, NEW s \in KnownStatuses,
             op[p].inv \in InvitationIds, Tells(Settled(s, op[p].inv))
      PROVE  SentNamed'
  <2>1. sent' = sent \union {Settled(s, op[p].inv)} /\ owed' \subseteq owed
    BY <1>4 DEF Tells
  <2>2. Settled(s, op[p].inv) \in Messages
    BY <1>4 DEF Messages
  <2>3. \A w \in InvitationIds :
          /\ \A f \in Emails : Created(w, f) \in sent' => Created(w, f) \in sent
          /\ \A u \in UserIds :
               Redemption(w, u) \in sent' => Redemption(w, u) \in sent
    BY <2>1, MessagesDiffer
  <2>4. QED
    BY <1>1, <2>1, <2>2, <2>3 DEF Named, SentNamed
<1>5. ASSUME NEW q \in Requests, NEW u \in UserIds, work[q].step = "commit",
             Asks(Redemption(work[q].inv, u))
      PROVE  SentNamed'
  <2>1. PICK v : v = work[q].inv
    OBVIOUS
  <2>2. v \in M!Invites /\ v \in InvitationIds
    BY <1>5, <2>1 DEF Named, WorkNamed, M!Invites
  <2>3. sent' = sent \union {Redemption(v, u)} /\ owed' = owed \union {Redemption(v, u)}
    BY <1>5, <2>1 DEF Asks
  <2>4. Redemption(v, u) \in Messages /\ Redemption(v, u) \in Redemptions
    BY <2>2 DEF Messages, Redemptions
  <2>5. \A w \in InvitationIds :
          /\ \A f \in Emails : Created(w, f) \in sent' => Created(w, f) \in sent
          /\ \A t \in UserIds :
               Redemption(w, t) \in sent' => Redemption(w, t) \in sent \/ w = v
    BY <2>3, MessagesDiffer, MessagesName
  <2>6. QED
    BY <1>1, <2>2, <2>3, <2>4, <2>5 DEF Named, SentNamed
<1>6. ASSUME NEW u \in UserIds, Asks(Activated(u))
      PROVE  SentNamed'
  <2>1. sent' = sent \union {Activated(u)} /\ owed' = owed \union {Activated(u)}
    BY <1>6 DEF Asks
  <2>2. Activated(u) \in Messages /\ Activated(u) \in Activations
    BY DEF Messages, Activations
  <2>3. \A w \in InvitationIds :
          /\ \A f \in Emails : Created(w, f) \in sent' => Created(w, f) \in sent
          /\ \A t \in UserIds :
               Redemption(w, t) \in sent' => Redemption(w, t) \in sent
    BY <2>1, MessagesDiffer
  <2>4. QED
    BY <1>1, <2>1, <2>2, <2>3 DEF Named, SentNamed
<1>7. /\ {"revoked", "expired", "redeemed"} \subseteq KnownStatuses
      /\ \A p \in Ops :
           M!RevokeCommit(p) \/ M!ExpireCommit(p) \/ M!RedeemCommit(p)
             => op[p].inv \in InvitationIds
  BY RevocationSettles, ExpirySettles, RedemptionSettles DEF KnownStatuses
<1>8. QED
  BY <1>2, <1>3, <1>4, <1>5, <1>6, <1>7, MessageSteps

LEMMA KnownSteps ==
  ASSUME [Next]_vars
  PROVE  \/ UNCHANGED known
         \/ /\ UNCHANGED <<invitations, sent>>
            /\ \/ \E v \in InvitationIds, e \in Emails :
                    RecordKnownInvitation(v, e)
               \/ \E v \in InvitationIds,
                     event \in {"expired", "revoked", "redeemed"} :
                    MarkKnownInvitation(event, v)
<1>1. CASE IdentityStep /\ UNCHANGED <<membership, waiting>>
  BY <1>1
  DEF IdentityStep, RecordKnownInvitation, MarkKnownInvitation, SignUpVerify,
      SignUpFindUser, CreateNewIdentity, CreateExistingIdentitySession,
      VerifyEmailRead, VerifyEmailFindUser, Fail, membership
<1>2. CASE \E q \in Requests : VerifyEmail(q)
  BY <1>2 DEF VerifyEmail, VerifyEmailCommit
<1>3. CASE \E p \in Ops : \/ Invite(p) \/ Revoke(p) \/ Expire(p) \/ Archive(p)
                          \/ RedeemDone(p)
  BY <1>3 DEF Invite, Revoke, Expire, Archive, RedeemDone, Quietly, Telling,
              identity
<1>4. CASE \/ \E p \in Ops :
                \/ RedeemFind(p) \/ RedeemRejected(p)
                \/ ActivateNext(p) \/ ActivateDone(p)
                \/ \E u \in UserIds :
                     \/ ActivateRequested(p, u)
                     \/ \E v \in InvitationIds : RedeemRequested(p, v, u)
                \/ M!Abandon(p) /\ Quietly
           \/ \E u \in UserIds :
                \/ NothingToActivate(u)
                \/ \E v \in InvitationIds : RedeemRefused(v, u)
           \/ \E v \in InvitationIds : M!Lapse(v) /\ Quietly
           \/ UNCHANGED vars
  BY <1>4 DEF RedeemFind, RedeemRejected, ActivateNext, ActivateDone,
              ActivateRequested, RedeemRequested, NothingToActivate,
              RedeemRefused, Quietly, Done, identity, vars
<1>5. QED
  BY <1>1, <1>2, <1>3, <1>4 DEF Next

\* One row of the projection.
LEMMA KnownChanges ==
  ASSUME KnownNamed, NEW v \in InvitationIds, NEW row \in KnownRow,
         known' = [known EXCEPT ![v] = row]
  PROVE  /\ known' \in [InvitationIds -> KnownRow \union {None}]
         /\ \A w \in InvitationIds : known'[w] = IF w = v THEN row ELSE known[w]
BY DEF KnownNamed

LEMMA MarkingChanges ==
  ASSUME KnownNamed, NEW v \in InvitationIds,
         NEW event \in {"expired", "revoked", "redeemed"},
         MarkKnownInvitation(event, v)
  PROVE  \E row \in KnownRow :
           /\ known' = [known EXCEPT ![v] = row]
           /\ row.email = known[v].email /\ row.status = event
           /\ known[v] # None
<1>1. known[v] # None /\ known[v] \in KnownRow
  BY DEF KnownNamed, MarkKnownInvitation
<1>2. PICK row : row = [known[v] EXCEPT !.status = event]
  OBVIOUS
<1>3. row \in KnownRow /\ row.email = known[v].email /\ row.status = event
  BY <1>1, <1>2 DEF KnownRow, KnownStatuses
<1>4. known' = [known EXCEPT ![v] = row]
  BY <1>2 DEF MarkKnownInvitation, MarkedStatus
<1>5. QED
  BY <1>1, <1>3, <1>4

LEMMA KnownStays ==
  ASSUME Base, Named, [Next]_vars
  PROVE  KnownNamed'
<1>1. CASE UNCHANGED known
  <2>1. /\ M!Invites \subseteq M!Invites'
        /\ \A v \in M!Invites : invitations'[v].invitee = invitations[v].invitee
    BY NextRowsStay, InvitesStay
  <2>2. QED
    BY <1>1, <2>1 DEF Named, KnownNamed
<1>2. ASSUME UNCHANGED invitations,
             NEW v \in InvitationIds, NEW e \in Emails, RecordKnownInvitation(v, e)
      PROVE  KnownNamed'
  <2>1. PICK row : row = [email |-> e, status |-> "pending"]
    OBVIOUS
  <2>2. row \in KnownRow /\ row.email = e
    BY <2>1 DEF KnownRow, KnownStatuses
  <2>3. known' = [known EXCEPT ![v] = row] /\ Created(v, e) \in sent
    BY <1>2, <2>1 DEF RecordKnownInvitation
  <2>4. v \in M!Invites /\ invitations[v].invitee = e
    BY <2>3 DEF Named, SentNamed
  <2>5. /\ known' \in [InvitationIds -> KnownRow \union {None}]
        /\ \A w \in InvitationIds : known'[w] = IF w = v THEN row ELSE known[w]
    BY <2>2, <2>3, KnownChanges DEF Named
  <2>6. QED
    BY <1>2, <2>2, <2>4, <2>5 DEF Named, KnownNamed, M!Invites
<1>3. ASSUME UNCHANGED invitations, NEW v \in InvitationIds,
             NEW event \in {"expired", "revoked", "redeemed"},
             MarkKnownInvitation(event, v)
      PROVE  KnownNamed'
  <2>1. PICK row \in KnownRow :
          /\ known' = [known EXCEPT ![v] = row]
          /\ row.email = known[v].email /\ known[v] # None
    BY <1>3, MarkingChanges DEF Named
  <2>2. /\ known' \in [InvitationIds -> KnownRow \union {None}]
        /\ \A w \in InvitationIds : known'[w] = IF w = v THEN row ELSE known[w]
    BY <2>1, KnownChanges DEF Named
  <2>3. QED
    BY <1>3, <2>1, <2>2 DEF Named, KnownNamed, M!Invites
<1>4. QED
  BY <1>1, <1>2, <1>3, KnownSteps

\* A request that starts from the projection keeps the invitation it is for.
LEMMA WorkNamedMove ==
  ASSUME Base, Named, InvitationsStay, NEW q \in Requests, NEW w, Proceed(q, w),
         w.step \in {"signUp", "commit"} => w.inv \in M!Invites
  PROVE  WorkNamed'
<1>1. \A r \in Requests : work'[r] = IF r = q THEN w ELSE work[r]
  BY DEF Proceed, Base, SignedUp, WorkHolds
<1>2. M!Invites \subseteq M!Invites'
  BY InvitesStay
<1>3. QED
  BY <1>1, <1>2 DEF Named, WorkNamed

LEMMA FreeNamed == Free.step \notin {"signUp", "commit"}
BY DEF Free

LEMMA IdentityNamesWork ==
  ASSUME Base, Named, InvitationsStay, NEW q \in Requests,
         \/ \E v \in InvitationIds, e \in Emails : SignUpVerify(q, v, e)
         \/ SignUpFindUser(q)
         \/ \E u \in UserIds : CreateNewIdentity(q, u) \/ VerifyEmailRead(q, u)
         \/ CreateExistingIdentitySession(q)
         \/ VerifyEmailFindUser(q) \/ Fail(q) \/ VerifyEmailCommit(q)
  PROVE  WorkNamed'
<1>1. work[q] \in Work
  BY DEF Base, SignedUp, WorkHolds
<1>2. ASSUME NEW v \in InvitationIds, NEW e \in Emails, SignUpVerify(q, v, e)
      PROVE  WorkNamed'
  <2>1. PICK w : w = [Free EXCEPT !.step = "signUp", !.inv = v, !.email = e]
    OBVIOUS
  <2>2. Proceed(q, w) /\ known[v] # None
    BY <1>2, <2>1 DEF SignUpVerify, Verified
  <2>3. w.inv = v
    BY <2>1 DEF Free
  <2>4. v \in M!Invites
    BY <2>2 DEF Named, KnownNamed
  <2>5. QED
    BY <2>2, <2>3, <2>4, WorkNamedMove
<1>3. CASE SignUpFindUser(q)
  <2>1. PICK user : Proceed(q, [work[q] EXCEPT !.step = "commit", !.user = user])
    BY <1>3 DEF SignUpFindUser
  <2>2. PICK w : w = [work[q] EXCEPT !.step = "commit", !.user = user]
    OBVIOUS
  <2>3. w.inv = work[q].inv
    BY <1>1, <2>2 DEF Work
  <2>4. work[q].inv \in M!Invites
    BY <1>3 DEF SignUpFindUser, Busy, Named, WorkNamed
  <2>5. QED
    BY <2>1, <2>2, <2>3, <2>4, WorkNamedMove
<1>4. ASSUME NEW u \in UserIds, VerifyEmailRead(q, u)
      PROVE  WorkNamed'
  <2>1. PICK w : w = [Free EXCEPT !.step = "verify", !.user = u]
    OBVIOUS
  <2>2. Proceed(q, w) /\ w.step = "verify"
    BY <1>4, <2>1 DEF VerifyEmailRead, Free
  <2>3. QED
    BY <2>2, WorkNamedMove
<1>5. CASE VerifyEmailFindUser(q)
  <2>1. PICK w : w = [work[q] EXCEPT !.step = "activate"]
    OBVIOUS
  <2>2. Proceed(q, w) /\ w.step = "activate"
    BY <1>1, <1>5, <2>1 DEF VerifyEmailFindUser, Work
  <2>3. QED
    BY <2>2, WorkNamedMove
<1>6. CASE \/ \E u \in UserIds : CreateNewIdentity(q, u)
           \/ CreateExistingIdentitySession(q) \/ Fail(q) \/ VerifyEmailCommit(q)
  <2>1. Proceed(q, Free)
    BY <1>6 DEF CreateNewIdentity, CreateExistingIdentitySession, Fail,
                VerifyEmailCommit
  <2>2. QED
    BY <2>1, FreeNamed, WorkNamedMove
<1>7. QED
  BY <1>2, <1>3, <1>4, <1>5, <1>6

\* A step of Identity, or one that leaves its requests alone.
LEMMA WorkSteps ==
  ASSUME [Next]_vars
  PROVE  \/ UNCHANGED work
         \/ IdentityStep
         \/ \E q \in Requests : VerifyEmailCommit(q)
<1>1. CASE \E q \in Requests : VerifyEmail(q)
  BY <1>1 DEF VerifyEmail
<1>2. CASE \E p \in Ops : \/ Invite(p) \/ Revoke(p) \/ Expire(p) \/ Archive(p)
                          \/ RedeemDone(p)
  BY <1>2 DEF Invite, Revoke, Expire, Archive, RedeemDone, Quietly, Telling,
              identity
<1>3. CASE \/ \E p \in Ops :
                \/ RedeemFind(p) \/ RedeemRejected(p)
                \/ ActivateNext(p) \/ ActivateDone(p)
                \/ \E u \in UserIds :
                     \/ ActivateRequested(p, u)
                     \/ \E v \in InvitationIds : RedeemRequested(p, v, u)
                \/ M!Abandon(p) /\ Quietly
           \/ \E u \in UserIds :
                \/ NothingToActivate(u)
                \/ \E v \in InvitationIds : RedeemRefused(v, u)
           \/ \E v \in InvitationIds : M!Lapse(v) /\ Quietly
           \/ UNCHANGED vars
  BY <1>3 DEF RedeemFind, RedeemRejected, ActivateNext, ActivateDone,
              ActivateRequested, RedeemRequested, NothingToActivate,
              RedeemRefused, Quietly, Done, identity, vars
<1>4. QED
  BY <1>1, <1>2, <1>3 DEF Next

LEMMA WorkStays ==
  ASSUME Base, Named, [Next]_vars
  PROVE  WorkNamed'
<1>1. InvitationsStay
  BY NextRowsStay
<1>2. CASE UNCHANGED work
  BY <1>1, <1>2, InvitesStay DEF Named, WorkNamed
<1>3. CASE IdentityStep
  <2>1. CASE \/ \E v \in InvitationIds, e \in Emails : RecordKnownInvitation(v, e)
             \/ \E v \in InvitationIds, event \in {"expired", "revoked", "redeemed"} :
                  MarkKnownInvitation(event, v)
    BY <1>2, <2>1 DEF RecordKnownInvitation, MarkKnownInvitation
  <2>2. QED
    BY <1>1, <1>3, <2>1, IdentityNamesWork DEF IdentityStep
<1>4. CASE \E q \in Requests : VerifyEmailCommit(q)
  BY <1>1, <1>4, IdentityNamesWork
<1>5. QED
  BY <1>2, <1>3, <1>4, WorkSteps

\* The history of verifications grows with a verification alone.
LEMMA WaitingSteps ==
  ASSUME [Next]_vars
  PROVE  UNCHANGED waiting \/ \E q \in Requests : VerifyEmail(q)
<1>1. CASE \E p \in Ops : \/ Invite(p) \/ Revoke(p) \/ Expire(p) \/ Archive(p)
                          \/ RedeemDone(p)
  BY <1>1 DEF Invite, Revoke, Expire, Archive, RedeemDone, Quietly, Telling
<1>2. CASE \/ \E p \in Ops :
                \/ RedeemFind(p) \/ RedeemRejected(p)
                \/ ActivateNext(p) \/ ActivateDone(p)
                \/ \E u \in UserIds :
                     \/ ActivateRequested(p, u)
                     \/ \E v \in InvitationIds : RedeemRequested(p, v, u)
                \/ M!Abandon(p) /\ Quietly
           \/ \E u \in UserIds :
                \/ NothingToActivate(u)
                \/ \E v \in InvitationIds : RedeemRefused(v, u)
           \/ \E v \in InvitationIds : M!Lapse(v) /\ Quietly
           \/ UNCHANGED vars
  BY <1>2 DEF RedeemFind, RedeemRejected, ActivateNext, ActivateDone,
              ActivateRequested, RedeemRequested, NothingToActivate,
              RedeemRefused, Quietly, Done, vars
<1>3. QED
  BY <1>1, <1>2 DEF Next

LEMMA WaitingStays ==
  ASSUME Base, Named, [Next]_vars
  PROVE  (waiting \subseteq M!Members)'
<1>1. M!Members \subseteq M!Members'
  BY NextRowsStay DEF MembershipsStay, M!Members
<1>2. CASE UNCHANGED waiting
  BY <1>1, <1>2 DEF Named
<1>3. CASE \E q \in Requests : VerifyEmail(q)
  BY <1>1, <1>3 DEF VerifyEmail, Named, PendingOf, M!ListByIdentity
<1>4. QED
  BY <1>2, <1>3, WaitingSteps

LEMMA AlwaysNamed == Spec => []Named
<1>1. Base /\ Named /\ [Next]_vars => Named'
  BY SentStays, KnownStays, WorkStays, WaitingStays DEF Named
<1>2. QED
  BY <1>1, InitNamed, AlwaysBase, PTL DEF Spec

\* Both services, the messages between them and what is owed stay well typed.
THEOREM OnboardingTypeCorrect == Spec => []TypeOK
<1>1. Base /\ Named => TypeOK
  BY DEF Base, MembershipHolds, SignedUp, UsersTyped, WorkHolds, Named,
         KnownNamed, SentNamed, TypeOK, IdentityTypeOK, M!Members
<1>2. QED
  BY <1>1, AlwaysBase, AlwaysNamed, PTL

-----------------------------------------------------------------------------
(* One handler at a time.  Between its reads and its commit nothing else   *)
(* moves Membership, so a handler acts on what it read: the invitation it  *)
(* settles is pending, the list it activates is all its owner has pending. *)

ActsOnPending(o) ==
  /\ o.step \in {"redeem", "redeemCommit", "revoke", "expire"} =>
       invitations[o.inv].status = "pending"
  /\ o.step \in {"activatePending", "activate"} =>
       \E e \in Emails : /\ \A m \in o.todo : memberships[m].who = e
                         /\ PendingOf(e) \subseteq o.todo
  /\ o.step = "activate" =>
       o.mem \in o.todo /\ memberships[o.mem].status = "pending"

AllActOnPending == \A p \in Ops : ActsOnPending(op[p])

Rests(h) ==
  h.step \notin {"redeem", "redeemCommit", "revoke", "expire",
                 "activatePending", "activate"}

LEMMA InitActsOnPending == Init => AllActOnPending
BY DEF Init, M!Init, M!Processes, M!Idle, AllActOnPending, ActsOnPending

LEMMA IdleRests == Rests(M!Idle)
BY DEF Rests, M!Idle

LEMMA ActsMove ==
  ASSUME OneHandler, Base, NEW p \in Ops, NEW h, M!Goto(p, h), ActsOnPending(h)'
  PROVE  AllActOnPending'
<1>1. ASSUME NEW q \in Ops
      PROVE  ActsOnPending(op[q])'
  <2>1. op'[q] = h
    BY HandlerChanges DEF OneHandler, Base, MembershipHolds
  <2>2. QED
    BY <2>1 DEF ActsOnPending
<1>2. QED
  BY <1>1 DEF AllActOnPending

LEMMA RestMove ==
  ASSUME OneHandler, Base, NEW p \in Ops, NEW h, M!Goto(p, h), Rests(h)
  PROVE  AllActOnPending'
<1>1. ActsOnPending(h)'
  BY DEF Rests, ActsOnPending
<1>2. QED
  BY <1>1, ActsMove

\* A handler that starts on a pending invitation.
LEMMA ReadsActOnPending ==
  ASSUME OneHandler, Base, NEW p \in Ops, NEW v \in InvitationIds,
         \/ M!RevokeRead(p, v) \/ M!ExpireRead(p, v)
         \/ \E e \in Emails : M!RedeemRead(p, e, v)
  PROVE  AllActOnPending'
<1>1. invitations[v].status = "pending"
  BY DEF M!RevokeRead, M!ExpireRead, M!RedeemRead, M!MayRevoke, M!MayExpire,
         M!MayRedeem
<1>2. ASSUME NEW h, M!Begin(p, h), h.inv = v,
             h.step \in {"redeem", "revoke", "expire"}
      PROVE  AllActOnPending'
  <2>1. M!Goto(p, h) /\ UNCHANGED invitations
    BY <1>2 DEF M!Begin, M!db
  <2>2. ActsOnPending(h)'
    BY <1>1, <1>2, <2>1 DEF ActsOnPending
  <2>3. QED
    BY <2>1, <2>2, ActsMove
<1>3. CASE M!RevokeRead(p, v)
  <2>1. PICK h : h = [M!Idle EXCEPT !.step = "revoke", !.inv = v]
    OBVIOUS
  <2>2. h.inv = v /\ h.step = "revoke"
    BY <2>1 DEF M!Idle
  <2>3. M!Begin(p, h)
    BY <1>3, <2>1 DEF M!RevokeRead
  <2>4. QED
    BY <1>2, <2>2, <2>3
<1>4. CASE M!ExpireRead(p, v)
  <2>1. PICK h : h = [M!Idle EXCEPT !.step = "expire", !.inv = v]
    OBVIOUS
  <2>2. h.inv = v /\ h.step = "expire"
    BY <2>1 DEF M!Idle
  <2>3. M!Begin(p, h)
    BY <1>4, <2>1 DEF M!ExpireRead
  <2>4. QED
    BY <1>2, <2>2, <2>3
<1>5. CASE \E e \in Emails : M!RedeemRead(p, e, v)
  <2>1. PICK e \in Emails : M!RedeemRead(p, e, v)
    BY <1>5
  <2>2. PICK h : h = [M!Idle EXCEPT !.step = "redeem", !.who = e, !.inv = v,
                                    !.ten = invitations[v].ten]
    OBVIOUS
  <2>3. h.inv = v /\ h.step = "redeem"
    BY <2>2 DEF M!Idle
  <2>4. M!Begin(p, h)
    BY <2>1, <2>2 DEF M!RedeemRead
  <2>5. QED
    BY <1>2, <2>3, <2>4
<1>6. QED
  BY <1>3, <1>4, <1>5

LEMMA RedeemFindActs ==
  ASSUME OneHandler, Base, AllActOnPending, NEW p \in Ops, RedeemFind(p)
  PROVE  AllActOnPending'
<1>1. PICK mem : M!Goto(p, [op[p] EXCEPT !.step = "redeemCommit", !.mem = mem])
  BY DEF RedeemFind, M!RedeemFindMembership
<1>2. PICK h : h = [op[p] EXCEPT !.step = "redeemCommit", !.mem = mem]
  OBVIOUS
<1>3. op[p] \in M!Handler
  BY DEF Base, MembershipHolds, M!TypeOK, M!Processes
<1>4. h.step = "redeemCommit" /\ h.inv = op[p].inv
  BY <1>2, <1>3 DEF M!Handler
<1>5. op[p].step = "redeem" /\ UNCHANGED invitations
  BY DEF RedeemFind, M!RedeemFindMembership, M!At, M!db
<1>6. ActsOnPending(h)'
  BY <1>4, <1>5 DEF AllActOnPending, ActsOnPending
<1>7. QED
  BY <1>1, <1>2, <1>6, ActsMove

LEMMA ActivationReadActs ==
  ASSUME OneHandler, Base, NEW p \in Ops, NEW u \in UserIds,
         ActivateRequested(p, u)
  PROVE  AllActOnPending'
<1>1. PICK e : e = users[u].email
  OBVIOUS
<1>2. e \in Emails
  BY <1>1 DEF ActivateRequested, Base, SignedUp, MessagesNameUsers, UsersTyped,
              UserRow
<1>3. PICK h : h = [M!Idle EXCEPT !.step = "activatePending",
                                  !.todo = PendingOf(e)]
  OBVIOUS
<1>4. h.step = "activatePending" /\ h.todo = PendingOf(e)
  BY <1>3 DEF M!Idle
<1>5. M!Goto(p, h) /\ UNCHANGED memberships
  BY <1>1, <1>3 DEF ActivateRequested, M!ActivatePendingRead, PendingOf, M!Begin,
                    M!db
<1>6. \A m \in h.todo : memberships'[m].who = e
  BY <1>4, <1>5 DEF PendingOf, M!ListByIdentity
<1>7. PendingOf(e)' \subseteq h.todo
  BY <1>4, <1>5 DEF PendingOf, M!ListByIdentity, M!Members
<1>8. ActsOnPending(h)'
  BY <1>2, <1>4, <1>6, <1>7 DEF ActsOnPending
<1>9. QED
  BY <1>5, <1>8, ActsMove

LEMMA ActivationNextActs ==
  ASSUME OneHandler, Base, AllActOnPending, NEW p \in Ops, ActivateNext(p)
  PROVE  AllActOnPending'
<1>1. PICK m \in MembershipIds : M!ActivatePendingNext(p, m)
  BY DEF ActivateNext
<1>2. PICK h : h = [op[p] EXCEPT !.step = "activate", !.mem = m]
  OBVIOUS
<1>3. /\ op[p].step = "activatePending" /\ m \in op[p].todo
      /\ memberships[m].status = "pending"
      /\ M!Goto(p, h) /\ UNCHANGED memberships
  BY <1>1, <1>2 DEF M!ActivatePendingNext, M!At, M!MayActivate, M!db
<1>4. op[p] \in M!Handler
  BY DEF Base, MembershipHolds, M!TypeOK, M!Processes
<1>5. h.todo = op[p].todo /\ h.mem = m /\ h.step = "activate"
  BY <1>2, <1>4 DEF M!Handler
<1>6. PICK e \in Emails : /\ \A n \in op[p].todo : memberships[n].who = e
                          /\ PendingOf(e) \subseteq op[p].todo
  BY <1>3 DEF AllActOnPending, ActsOnPending
<1>7. PendingOf(e)' = PendingOf(e)
  BY <1>3 DEF PendingOf, M!ListByIdentity, M!Members
<1>8. ActsOnPending(h)'
  BY <1>3, <1>5, <1>6, <1>7 DEF ActsOnPending
<1>9. QED
  BY <1>3, <1>8, ActsMove

LEMMA ActivationCommitActs ==
  ASSUME OneHandler, Base, AllActOnPending, NEW p \in Ops, M!ActivateCommit(p)
  PROVE  AllActOnPending'
<1>1. PICK m : m = op[p].mem
  OBVIOUS
<1>2. PICK next : next = [op[p] EXCEPT !.step = "activatePending", !.mem = None]
  OBVIOUS
<1>3. PICK h : /\ h = IF op[p].todo \ {m} = {} THEN M!Idle
                      ELSE [next EXCEPT !.todo = @ \ {m}]
               /\ M!Goto(p, h)
  BY <1>1, <1>2 DEF M!ActivateCommit, M!Advance
<1>4. CASE h = M!Idle
  BY <1>3, <1>4, IdleRests, RestMove
<1>5. CASE h = [next EXCEPT !.todo = @ \ {m}]
  <2>1. op[p] \in M!Handler
    BY DEF Base, MembershipHolds, M!TypeOK, M!Processes
  <2>2. h.todo = op[p].todo \ {m} /\ h.step = "activatePending"
    BY <1>2, <1>5, <2>1 DEF M!Handler
  <2>3. op[p].step = "activate"
    BY DEF M!ActivateCommit, M!At
  <2>4. PICK e \in Emails : /\ \A n \in op[p].todo : memberships[n].who = e
                            /\ PendingOf(e) \subseteq op[p].todo
    BY <2>3 DEF AllActOnPending, ActsOnPending
  <2>5. Patched(m, "active") /\ m \in MembershipIds
    BY <1>1, ActivationPatches
  <2>6. PICK row \in M!MembershipRow :
          /\ memberships' = [memberships EXCEPT ![m] = row]
          /\ row.status = "active"
    BY <2>5 DEF Patched
  <2>7. \A n \in MembershipIds :
          memberships'[n] = IF n = m THEN row ELSE memberships[n]
    BY <2>5, <2>6, MembershipChanges DEF Base, MembershipHolds
  <2>8. PendingOf(e)' \subseteq PendingOf(e) \ {m}
    BY <2>6, <2>7 DEF PendingOf, M!ListByIdentity, M!Members
  <2>9. op[p].todo \subseteq M!Members
    BY <2>3 DEF Base, MembershipHolds, M!StaleReadsHold, M!HoldsMemberships,
                M!Processes
  <2>10. \A n \in h.todo : memberships'[n].who = e
    BY <2>2, <2>4, <2>7, <2>9 DEF M!Members
  <2>11. ActsOnPending(h)'
    BY <2>2, <2>4, <2>8, <2>10 DEF ActsOnPending
  <2>12. QED
    BY <1>3, <2>11, ActsMove
<1>6. QED
  BY <1>3, <1>4, <1>5

LEMMA OthersRest ==
  ASSUME OneHandler, Base, NEW p \in Ops,
         \/ Invite(p) \/ Archive(p) \/ RedeemRejected(p) \/ M!Abandon(p)
         \/ M!RevokeCommit(p) \/ M!ExpireCommit(p) \/ M!RedeemCommit(p)
  PROVE  AllActOnPending'
<1>1. CASE \/ \E v \in InvitationIds : M!InviteCommit(p, v)
           \/ RedeemRejected(p) \/ M!Abandon(p)
           \/ M!RevokeCommit(p) \/ M!ExpireCommit(p) \/ M!RedeemCommit(p)
  <2>1. M!Goto(p, M!Idle)
    BY <1>1 DEF M!InviteCommit, RedeemRejected, M!Abandon, M!RevokeCommit,
                M!ExpireCommit, M!RedeemCommit
  <2>2. QED
    BY <2>1, IdleRests, RestMove
<1>2. CASE \E t \in Tenants, e \in Emails : M!InviteRead(p, t, e)
  <2>1. PICK t \in Tenants, e \in Emails : M!InviteRead(p, t, e)
    BY <1>2
  <2>2. PICK h : h = [M!Idle EXCEPT !.step = "invite", !.who = e, !.ten = t]
    OBVIOUS
  <2>3. M!Goto(p, h)
    BY <2>1, <2>2 DEF M!InviteRead, M!Begin
  <2>4. Rests(h)
    BY <2>2 DEF M!Idle, Rests
  <2>5. QED
    BY <2>3, <2>4, RestMove
<1>3. CASE \E m \in MembershipIds : M!ArchiveRead(p, m)
  <2>1. PICK m \in MembershipIds : M!ArchiveRead(p, m)
    BY <1>3
  <2>2. PICK h : h = [M!Idle EXCEPT !.step = "archive", !.todo = {m}]
    OBVIOUS
  <2>3. M!Goto(p, h)
    BY <2>1, <2>2 DEF M!ArchiveRead, M!Begin
  <2>4. Rests(h)
    BY <2>2 DEF M!Idle, Rests
  <2>5. QED
    BY <2>3, <2>4, RestMove
<1>4. CASE \E m \in MembershipIds : M!ArchiveCommit(p, m)
  <2>1. PICK m \in MembershipIds : M!ArchiveCommit(p, m)
    BY <1>4
  <2>2. PICK h : /\ h = IF op[p].todo \ {m} = {} THEN M!Idle
                        ELSE [op[p] EXCEPT !.todo = @ \ {m}]
                 /\ M!Goto(p, h)
    BY <2>1 DEF M!ArchiveCommit, M!Advance
  <2>3. op[p].step = "archive" /\ op[p] \in M!Handler
    BY <2>1 DEF M!ArchiveCommit, M!At, Base, MembershipHolds, M!TypeOK, M!Processes
  <2>4. Rests([op[p] EXCEPT !.todo = @ \ {m}])
    BY <2>3 DEF Rests, M!Handler
  <2>5. QED
    BY <2>2, <2>4, IdleRests, RestMove
<1>5. QED
  BY <1>1, <1>2, <1>3, <1>4 DEF Invite, Archive

LEMMA NextActsOnPending ==
  ASSUME OneHandler, Base, AllActOnPending, [Next]_vars
  PROVE  AllActOnPending'
<1>1. CASE \E p \in Ops : Invite(p) \/ Revoke(p) \/ Expire(p) \/ Archive(p)
  BY <1>1, OthersRest, ReadsActOnPending DEF Revoke, Expire
<1>2. CASE \E p \in Ops : \/ RedeemFind(p) \/ RedeemDone(p) \/ RedeemRejected(p)
                          \/ M!Abandon(p) /\ Quietly
  BY <1>2, OthersRest, RedeemFindActs DEF RedeemDone
<1>3. CASE \E p \in Ops : \/ ActivateNext(p) \/ ActivateDone(p)
                          \/ \E u \in UserIds : ActivateRequested(p, u)
  BY <1>3, ActivationReadActs, ActivationNextActs, ActivationCommitActs
  DEF ActivateDone
<1>4. CASE \E p \in Ops, u \in UserIds, v \in InvitationIds :
             RedeemRequested(p, v, u)
  <2>1. PICK p \in Ops, u \in UserIds, v \in InvitationIds :
          RedeemRequested(p, v, u)
    BY <1>4
  <2>2. users[u].email \in Emails
    BY <2>1 DEF RedeemRequested, Base, SignedUp, MessagesNameUsers, UsersTyped,
                UserRow
  <2>3. QED
    BY <2>1, <2>2, ReadsActOnPending DEF RedeemRequested
<1>5. CASE \/ IdentityStep /\ UNCHANGED <<membership, waiting>>
           \/ \E q \in Requests : VerifyEmail(q)
           \/ \E u \in UserIds :
                \/ NothingToActivate(u)
                \/ \E v \in InvitationIds : RedeemRefused(v, u)
           \/ \E v \in InvitationIds : M!Lapse(v) /\ Quietly
           \/ UNCHANGED vars
  <2>1. UNCHANGED <<memberships, invitations, op>>
    BY <1>5 DEF VerifyEmail, NothingToActivate, RedeemRefused, vars, membership,
                M!Lapse, M!db
  <2>2. QED
    BY <2>1 DEF AllActOnPending, ActsOnPending, PendingOf, M!ListByIdentity,
                M!Members
<1>6. QED
  BY <1>1, <1>2, <1>3, <1>4, <1>5 DEF Next

\* With every handler acting on what is pending, a settled invitation keeps
\* its status, and nothing that left pending or active returns to it.
StatusesStay ==
  /\ \A v \in M!Invites :
       invitations[v].status # "pending" =>
         invitations'[v].status = invitations[v].status
  /\ \A m \in M!Members :
       /\ memberships'[m].status = "pending" => memberships[m].status = "pending"
       /\ memberships[m].status \notin {"pending", "active"} =>
            memberships'[m].status \notin {"pending", "active"}

LEMMA SettlementKeeps ==
  ASSUME Base, NEW v \in InvitationIds, NEW status, Settles(v, status),
         invitations[v].status = "pending"
  PROVE  /\ \A w \in M!Invites :
              invitations[w].status # "pending" =>
                invitations'[w].status = invitations[w].status
         /\ invitations'[v].status = status
<1>1. PICK row : /\ invitations' = [invitations EXCEPT ![v] = row]
                 /\ row.status = status
  BY DEF Settles
<1>2. \A w \in InvitationIds :
        invitations'[w] = IF w = v THEN row ELSE invitations[w]
  BY <1>1, InvitationChanges DEF Base, MembershipHolds
<1>3. QED
  BY <1>1, <1>2 DEF M!Invites

LEMMA SettlersArePending ==
  ASSUME AllActOnPending, NEW p \in Ops,
         M!RevokeCommit(p) \/ M!ExpireCommit(p) \/ M!RedeemCommit(p)
  PROVE  invitations[op[p].inv].status = "pending"
BY DEF AllActOnPending, ActsOnPending, M!RevokeCommit, M!ExpireCommit,
       M!RedeemCommit, M!At

LEMMA NextStatusesStay ==
  ASSUME Base, AllActOnPending, [Next]_vars
  PROVE  StatusesStay
<1>1. CASE UNCHANGED <<memberships, invitations>>
  BY <1>1 DEF StatusesStay
<1>2. CASE /\ UNCHANGED memberships
           /\ \E p \in Ops, v \in InvitationIds : M!InviteCommit(p, v)
  <2>1. PICK p \in Ops, v \in InvitationIds : M!InviteCommit(p, v)
    BY <1>2
  <2>2. PICK row : invitations[v] = None
                   /\ invitations' = [invitations EXCEPT ![v] = row]
    BY <2>1 DEF M!InviteCommit, M!InsertInvitation
  <2>3. \A w \in M!Invites : invitations'[w] = invitations[w]
    BY <2>2, InvitationChanges DEF Base, MembershipHolds, M!Invites
  <2>4. QED
    BY <1>2, <2>3 DEF StatusesStay
<1>3. CASE /\ UNCHANGED memberships
           /\ \E p \in Ops : M!RevokeCommit(p) \/ M!ExpireCommit(p)
  <2>1. PICK p \in Ops : M!RevokeCommit(p) \/ M!ExpireCommit(p)
    BY <1>3
  <2>2. \A w \in M!Invites :
          invitations[w].status # "pending" =>
            invitations'[w].status = invitations[w].status
    BY <2>1, RevocationSettles, ExpirySettles, SettlersArePending,
       SettlementKeeps
  <2>3. QED
    BY <1>3, <2>2 DEF StatusesStay
<1>4. CASE \E p \in Ops : M!RedeemCommit(p)
  <2>1. PICK p \in Ops : M!RedeemCommit(p)
    BY <1>4
  <2>2. \A w \in M!Invites :
          invitations[w].status # "pending" =>
            invitations'[w].status = invitations[w].status
    BY <2>1, RedemptionSettles, SettlersArePending, SettlementKeeps
  <2>3. \A m \in M!Members : memberships'[m] = memberships[m]
    <3>1. ASSUME NEW m \in MembershipIds, NEW row, Inserted(m, row)
          PROVE  \A n \in M!Members : memberships'[n] = memberships[n]
      BY <3>1, MembershipChanges DEF Inserted, M!Members, Base, MembershipHolds
    <3>2. QED
      BY <2>1, <3>1, RedemptionSettles
  <2>4. QED
    BY <2>2, <2>3 DEF StatusesStay
<1>5. CASE /\ UNCHANGED invitations
           /\ \E p \in Ops : \/ M!ActivateCommit(p)
                             \/ \E m \in MembershipIds : M!ArchiveCommit(p, m)
  <2>1. PICK m \in MembershipIds, status \in {"active", "archived"} :
          /\ Patched(m, status)
          /\ status = "active" => memberships[m].status = "pending"
    <3>1. PICK p \in Ops : \/ M!ActivateCommit(p)
                           \/ \E m \in MembershipIds : M!ArchiveCommit(p, m)
      BY <1>5
    <3>2. CASE M!ActivateCommit(p)
      BY <3>2, ActivationPatches
      DEF AllActOnPending, ActsOnPending, M!ActivateCommit, M!At
    <3>3. CASE \E m \in MembershipIds : M!ArchiveCommit(p, m)
      BY <3>3, ArchivalPatches
    <3>4. QED
      BY <3>1, <3>2, <3>3
  <2>2. PICK row : /\ memberships' = [memberships EXCEPT ![m] = row]
                   /\ row.status = status
    BY <2>1 DEF Patched
  <2>3. \A n \in MembershipIds :
          memberships'[n] = IF n = m THEN row ELSE memberships[n]
    BY <2>2, MembershipChanges DEF Base, MembershipHolds
  <2>4. QED
    BY <1>5, <2>1, <2>2, <2>3 DEF StatusesStay, M!Members
<1>6. QED
  BY <1>1, <1>2, <1>3, <1>4, <1>5, StoreSteps

-----------------------------------------------------------------------------
(* So what was announced of an invitation stays true, and the projection   *)
(* can lag but not run ahead.                                              *)

AnnouncedStays ==
  \A v \in InvitationIds : \A s \in KnownStatuses :
    Settled(s, v) \in sent => /\ v \in M!Invites
                              /\ invitations[v].status = s
                              /\ s # "pending"

NotAhead ==
  \A v \in InvitationIds :
    known[v] # None => known[v].status \in {"pending", invitations[v].status}

LEMMA InitNotAhead == Init => AnnouncedStays /\ NotAhead
BY DEF Init, IdentityInit, AnnouncedStays, NotAhead

LEMMA NextAnnouncedStays ==
  ASSUME Base, AllActOnPending, AnnouncedStays, [Next]_vars
  PROVE  AnnouncedStays'
<1>1. StatusesStay /\ M!Invites \subseteq M!Invites'
  BY NextStatusesStay, NextRowsStay, InvitesStay
<1>2. ASSUME \A v \in InvitationIds : \A s \in KnownStatuses :
               Settled(s, v) \in sent' => Settled(s, v) \in sent
      PROVE  AnnouncedStays'
  BY <1>1, <1>2 DEF AnnouncedStays, StatusesStay
<1>3. ASSUME NEW p \in Ops, NEW v \in InvitationIds,
             Tells(Created(v, op[p].who))
      PROVE  AnnouncedStays'
  BY <1>2, <1>3, MessagesDiffer DEF Tells
<1>4. ASSUME NEW q \in Requests, NEW u \in UserIds,
             Asks(Redemption(work[q].inv, u)) \/ Asks(Activated(u))
      PROVE  AnnouncedStays'
  BY <1>2, <1>4, MessagesDiffer DEF Asks
<1>5. ASSUME NEW v \in InvitationIds, NEW s \in KnownStatuses, s # "pending",
             Settles(v, s), invitations[v].status = "pending", Tells(Settled(s, v))
      PROVE  AnnouncedStays'
  <2>1. sent' = sent \union {Settled(s, v)}
    BY <1>5 DEF Tells
  <2>2. invitations'[v].status = s
    BY <1>5, SettlementKeeps
  <2>3. v \in M!Invites'
    BY <1>1, <1>5 DEF Settles
  <2>4. \A w \in InvitationIds : \A r \in KnownStatuses :
          Settled(r, w) \in sent' => Settled(r, w) \in sent \/ (r = s /\ w = v)
    BY <2>1, MessagesName
  <2>5. QED
    BY <1>1, <1>5, <2>2, <2>3, <2>4 DEF AnnouncedStays, StatusesStay
<1>6. ASSUME NEW p \in Ops,
             \/ M!RevokeCommit(p) /\ Tells(Settled("revoked", op[p].inv))
             \/ M!ExpireCommit(p) /\ Tells(Settled("expired", op[p].inv))
             \/ M!RedeemCommit(p) /\ Tells(Settled("redeemed", op[p].inv))
      PROVE  AnnouncedStays'
  <2>1. {"revoked", "expired", "redeemed"} \subseteq KnownStatuses
    BY DEF KnownStatuses
  <2>2. QED
    BY <1>5, <1>6, <2>1, SettlersArePending, RevocationSettles, ExpirySettles,
       RedemptionSettles
<1>7. QED
  BY <1>2, <1>3, <1>4, <1>6, MessageSteps

LEMMA NextNotAhead ==
  ASSUME Base, Named, AllActOnPending, AnnouncedStays, NotAhead, [Next]_vars
  PROVE  NotAhead'
<1>1. StatusesStay
  BY NextStatusesStay
<1>2. CASE UNCHANGED known
  BY <1>1, <1>2 DEF NotAhead, StatusesStay, Named, KnownNamed
<1>3. ASSUME UNCHANGED invitations,
             NEW v \in InvitationIds, NEW e \in Emails, RecordKnownInvitation(v, e)
      PROVE  NotAhead'
  <2>1. PICK row : row = [email |-> e, status |-> "pending"]
    OBVIOUS
  <2>2. row \in KnownRow /\ row.status = "pending"
    BY <2>1 DEF KnownRow, KnownStatuses
  <2>3. known' = [known EXCEPT ![v] = row]
    BY <1>3, <2>1 DEF RecordKnownInvitation
  <2>4. \A w \in InvitationIds : known'[w] = IF w = v THEN row ELSE known[w]
    BY <2>2, <2>3, KnownChanges DEF Named
  <2>5. QED
    BY <1>3, <2>2, <2>4 DEF NotAhead
<1>4. ASSUME UNCHANGED invitations, NEW v \in InvitationIds,
             NEW event \in {"expired", "revoked", "redeemed"},
             MarkKnownInvitation(event, v)
      PROVE  NotAhead'
  <2>1. PICK row \in KnownRow :
          known' = [known EXCEPT ![v] = row] /\ row.status = event
    BY <1>4, MarkingChanges DEF Named
  <2>2. \A w \in InvitationIds : known'[w] = IF w = v THEN row ELSE known[w]
    BY <2>1, KnownChanges DEF Named
  <2>3. invitations[v].status = event
    BY <1>4 DEF MarkKnownInvitation, AnnouncedStays, KnownStatuses
  <2>4. QED
    BY <1>4, <2>1, <2>2, <2>3 DEF NotAhead
<1>5. QED
  BY <1>2, <1>3, <1>4, KnownSteps

OneAtATime == AllActOnPending /\ AnnouncedStays /\ NotAhead

LEMMA AlwaysOneAtATime ==
  ASSUME OneHandler
  PROVE  Spec => []OneAtATime
<1>1. Init => OneAtATime
  BY InitActsOnPending, InitNotAhead DEF OneAtATime
<1>2. Base /\ Named /\ OneAtATime /\ [Next]_vars => OneAtATime'
  BY NextActsOnPending, NextAnnouncedStays, NextNotAhead DEF OneAtATime
<1>3. QED
  BY <1>1, <1>2, AlwaysBase, AlwaysNamed, PTL DEF Spec

\* While Membership settles an invitation in one handler at a time, what
\* Identity has recorded of it, from messages in any order and repeated at
\* will, is that it is pending or the way it was really settled.
THEOREM OneHandlerKeepsProjectionBehind ==
  ASSUME OneHandler
  PROVE  Spec => []ProjectionIsNotAhead
<1>1. Named /\ OneAtATime => ProjectionIsNotAhead
  BY DEF Named, KnownNamed, OneAtATime, NotAhead, ProjectionIsNotAhead
<1>2. QED
  BY <1>1, AlwaysNamed, AlwaysOneAtATime, PTL

\* Nobody is admitted through an invitation that was revoked, expired or
\* redeemed before: a membership appears with the redemption of a pending one.
THEOREM OneHandlerAdmitsByPendingInvitation ==
  ASSUME OneHandler
  PROVE  Spec => SettledInvitationsAdmitNobody
<1>1. ASSUME Base, AllActOnPending, [Next]_vars, NEW m \in MembershipIds,
             memberships[m] = None, memberships'[m] # None
      PROVE  \E v \in M!Invites : /\ invitations[v].status = "pending"
                                  /\ invitations'[v].status = "redeemed"
  <2>1. CASE \E p \in Ops : M!RedeemCommit(p)
    <3>1. PICK p \in Ops : M!RedeemCommit(p)
      BY <2>1
    <3>2. /\ Settles(op[p].inv, "redeemed") /\ op[p].inv \in InvitationIds
          /\ invitations[op[p].inv].status = "pending"
      BY <1>1, <3>1, RedemptionSettles, SettlersArePending
    <3>3. invitations'[op[p].inv].status = "redeemed"
      BY <1>1, <3>2, SettlementKeeps
    <3>4. QED
      BY <3>2, <3>3 DEF Settles
  <2>2. CASE UNCHANGED memberships
    BY <1>1, <2>2
  <2>3. CASE \E p \in Ops : \/ M!ActivateCommit(p)
                            \/ \E n \in MembershipIds : M!ArchiveCommit(p, n)
    <3>p. PICK n \in MembershipIds : \E row :
            n \in M!Members /\ memberships' = [memberships EXCEPT ![n] = row]
      BY <1>1, <2>3, ActivationPatches, ArchivalPatches DEF Patched
    <3>1. PICK row :
            n \in M!Members /\ memberships' = [memberships EXCEPT ![n] = row]
      BY <3>p
    <3>2. memberships'[m] = IF m = n THEN row ELSE memberships[m]
      BY <1>1, <3>1, MembershipChanges DEF Base, MembershipHolds
    <3>3. QED
      BY <1>1, <3>1, <3>2 DEF M!Members
  <2>4. QED
    BY <1>1, <2>1, <2>2, <2>3, StoreSteps
<1>2. Base /\ OneAtATime /\ [Next]_vars =>
        [\A m \in MembershipIds :
           memberships[m] = None /\ memberships'[m] # None =>
             \E v \in M!Invites : /\ invitations[v].status = "pending"
                                  /\ invitations'[v].status = "redeemed"
        ]_vars
  BY <1>1 DEF OneAtATime
<1>3. QED
  BY <1>2, AlwaysBase, AlwaysOneAtATime, PTL
  DEF Spec, SettledInvitationsAdmitNobody

-----------------------------------------------------------------------------
(* What Membership owes Identity is dropped only when it has been done, or *)
(* cannot be done any more.                                                *)

LEMMA OwedSteps ==
  ASSUME [Next]_vars
  PROVE  \/ owed \subseteq owed'
         \/ \E p \in Ops : RedeemDone(p) \/ RedeemRejected(p) \/ ActivateDone(p)
         \/ \E u \in UserIds :
              \/ NothingToActivate(u)
              \/ \E v \in InvitationIds : RedeemRefused(v, u)
<1>1. CASE IdentityStep \/ \E q \in Requests : VerifyEmail(q)
  BY <1>1
  DEF IdentityStep, RecordKnownInvitation, MarkKnownInvitation, SignUpVerify,
      SignUpFindUser, CreateNewIdentity, CreateExistingIdentitySession,
      VerifyEmailRead, VerifyEmailFindUser, Fail, VerifyEmail,
      VerifyEmailCommit, Publish
<1>2. CASE \E p \in Ops : \/ Invite(p) \/ Revoke(p) \/ Expire(p) \/ Archive(p)
  BY <1>2 DEF Invite, Revoke, Expire, Archive, Quietly, Telling
<1>3. CASE \/ \E p \in Ops :
                \/ RedeemFind(p) \/ ActivateNext(p)
                \/ \E u \in UserIds :
                     \/ ActivateRequested(p, u)
                     \/ \E v \in InvitationIds : RedeemRequested(p, v, u)
                \/ M!Abandon(p) /\ Quietly
           \/ \E v \in InvitationIds : M!Lapse(v) /\ Quietly
           \/ UNCHANGED vars
  BY <1>3 DEF RedeemFind, ActivateNext, ActivateRequested, RedeemRequested,
              Quietly, vars
<1>4. QED
  BY <1>1, <1>2, <1>3 DEF Next

\* How a request for a redemption comes to be sent and no longer owed.
LEMMA RedemptionDropped ==
  ASSUME Base, [Next]_vars, NEW v \in InvitationIds, NEW u \in UserIds,
         Redemption(v, u) \in sent' \ owed', Redemption(v, u) \notin sent \ owed
  PROVE  \/ \E p \in Ops : RedeemDone(p) /\ op[p].inv = v
         \/ \E p \in Ops : /\ RedeemRejected(p) /\ op[p].inv = v
                           /\ u \in FindUserByEmail(op[p].who)
         \/ RedeemRefused(v, u)
<1>1. Redemption(v, u) \in owed
  <2>1. CASE UNCHANGED sent
    BY <2>1
  <2>2. CASE \/ \E x \in InvitationIds : \E e : Tells(Created(x, e))
             \/ \E s \in KnownStatuses : \E x : Tells(Settled(s, x))
             \/ \E t \in UserIds : Asks(Activated(t))
    BY <2>2, MessagesDiffer DEF Tells, Asks
  <2>3. CASE \E q \in Requests, t \in UserIds : Asks(Redemption(work[q].inv, t))
    BY <2>3 DEF Asks
  <2>4. {"revoked", "expired", "redeemed"} \subseteq KnownStatuses
    BY DEF KnownStatuses
  <2>5. QED
    BY <2>1, <2>2, <2>3, <2>4, MessageSteps
<1>2. CASE \E p \in Ops : RedeemDone(p)
  BY <1>1, <1>2, MessagesName DEF RedeemDone, Asked
<1>3. CASE \E p \in Ops : RedeemRejected(p)
  BY <1>1, <1>3, MessagesName DEF RedeemRejected, Done, Asked
<1>4. CASE \E p \in Ops : ActivateDone(p)
  <2>1. PICK p \in Ops : ActivateDone(p)
    BY <1>4
  <2>2. \/ owed' = owed
        \/ owed' = owed \ {Activated(t) :
                             t \in FindUserByEmail(memberships[op[p].mem].who)}
    BY <2>1 DEF ActivateDone, Quietly, Done
  <2>3. QED
    BY <1>1, <2>2, MessagesDiffer
<1>5. CASE \E t \in UserIds : NothingToActivate(t)
  BY <1>1, <1>5, MessagesDiffer DEF NothingToActivate, Done
<1>6. CASE \E t \in UserIds, w \in InvitationIds : RedeemRefused(w, t)
  BY <1>1, <1>6, MessagesName DEF RedeemRefused, Done
<1>7. QED
  BY <1>1, <1>2, <1>3, <1>4, <1>5, <1>6, OwedSteps

Resolved(v, u) ==
  \/ invitations[v].status # "pending"
  \/ \E m \in M!FindMembership(users[u].email, invitations[v].ten) :
       memberships[m].status \notin {"pending", "active"}

LEMMA SettledStays ==
  ASSUME Base, AllActOnPending, [Next]_vars,
         NEW v \in M!Invites, NEW u \in UserIds, users[u] # None, Resolved(v, u)
  PROVE  Resolved(v, u)'
<1>1. UsersStay /\ MembershipsStay /\ InvitationsStay /\ StatusesStay
  BY NextUsersStay, NextRowsStay, NextStatusesStay DEF Base
<1>2. CASE invitations[v].status # "pending"
  BY <1>1, <1>2 DEF Resolved, InvitationsStay, M!Invites
<1>3. ASSUME NEW m \in M!FindMembership(users[u].email, invitations[v].ten),
             memberships[m].status \notin {"pending", "active"}
      PROVE  Resolved(v, u)'
  <2>1. /\ m \in M!Members /\ m \in MembershipIds
        /\ memberships[m].who = users[u].email
        /\ memberships[m].ten = invitations[v].ten
    BY DEF M!FindMembership, M!Members
  <2>2. /\ m \in M!Members'
        /\ memberships'[m].who = users'[u].email
        /\ memberships'[m].ten = invitations'[v].ten
    BY <1>1, <2>1
    DEF UsersStay, MembershipsStay, InvitationsStay, M!Members, M!Invites
  <2>3. memberships'[m].status \notin {"pending", "active"}
    BY <1>1, <1>3, <2>1 DEF StatusesStay
  <2>4. QED
    BY <2>2, <2>3 DEF Resolved, M!FindMembership
<1>4. QED
  BY <1>2, <1>3 DEF Resolved

AllSettled ==
  \A v \in InvitationIds, u \in UserIds :
    Redemption(v, u) \in sent \ owed => Resolved(v, u)

LEMMA NextAllSettled ==
  ASSUME Base, Named, AllActOnPending, AllSettled, [Next]_vars
  PROVE  AllSettled'
<1> SUFFICES ASSUME NEW v \in InvitationIds, NEW u \in UserIds,
                    Redemption(v, u) \in sent' \ owed'
             PROVE  Resolved(v, u)'
  BY DEF AllSettled
<1>1. CASE Redemption(v, u) \in sent \ owed
  <2>1. v \in M!Invites /\ users[u] # None
    BY <1>1 DEF Named, SentNamed, Base, SignedUp, MessagesNameUsers
  <2>2. QED
    BY <1>1, <2>1, SettledStays DEF AllSettled
<1>2. CASE \E p \in Ops : RedeemDone(p) /\ op[p].inv = v
  <2>1. PICK p \in Ops : M!RedeemCommit(p) /\ op[p].inv = v
    BY <1>2 DEF RedeemDone
  <2>2. Settles(v, "redeemed") /\ invitations[v].status = "pending"
    BY <2>1, RedemptionSettles, SettlersArePending
  <2>3. invitations'[v].status = "redeemed"
    BY <2>2, SettlementKeeps
  <2>4. QED
    BY <2>3 DEF Resolved
<1>3. CASE \E p \in Ops : /\ RedeemRejected(p) /\ op[p].inv = v
                          /\ u \in FindUserByEmail(op[p].who)
  <2>1. PICK p \in Ops : /\ RedeemRejected(p) /\ op[p].inv = v
                         /\ u \in FindUserByEmail(op[p].who)
    BY <1>3
  <2>2. op[p].step = "redeem"
    BY <2>1 DEF RedeemRejected, PermanentFailure
  <2>3. v \in M!Invites /\ invitations[v].ten = op[p].ten
    BY <2>1, <2>2 DEF Base, MembershipHolds, M!StaleReadsHold,
                      M!HoldsInvitations, M!Processes
  <2>4. users[u] # None /\ users[u].email = op[p].who
    BY <2>1 DEF FindUserByEmail
  <2>5. Resolved(v, u)
    BY <2>1, <2>3, <2>4 DEF Resolved, RedeemRejected, PermanentFailure
  <2>6. QED
    BY <2>3, <2>4, <2>5, SettledStays
<1>4. CASE RedeemRefused(v, u)
  BY <1>4 DEF Resolved, RedeemRefused, membership
<1>5. QED
  BY <1>1, <1>2, <1>3, <1>4, RedemptionDropped

\* Whatever fails and is delivered again, a redemption that Identity asked for
\* is dropped only when the invitation has been settled, or the membership is
\* past what a redemption admits.
THEOREM OneHandlerSettlesRequests ==
  ASSUME OneHandler
  PROVE  Spec => []RequestsAreSettled
<1>1. Init => AllSettled
  BY DEF Init, IdentityInit, AllSettled
<1>2. Base /\ Named /\ OneAtATime /\ AllSettled /\ [Next]_vars => AllSettled'
  BY NextAllSettled DEF OneAtATime
<1>3. AllSettled => RequestsAreSettled
  BY DEF AllSettled, Resolved, RequestsAreSettled
<1>4. QED
  BY <1>1, <1>2, <1>3, AlwaysBase, AlwaysNamed, AlwaysOneAtATime, PTL DEF Spec

-----------------------------------------------------------------------------
(* The list that a reaction to user.activated works through is complete.   *)

LEMMA ActivationDropped ==
  ASSUME [Next]_vars, NEW u \in UserIds,
         Activated(u) \in owed, Activated(u) \notin owed'
  PROVE  \/ NothingToActivate(u)
         \/ \E p \in Ops :
              /\ M!ActivateCommit(p) /\ LastActivated(p)
              /\ u \in FindUserByEmail(memberships[op[p].mem].who)
<1>1. CASE \E p \in Ops : RedeemDone(p) \/ RedeemRejected(p)
  BY <1>1, MessagesDiffer DEF RedeemDone, RedeemRejected, Done, Asked
<1>2. CASE \E p \in Ops : ActivateDone(p)
  BY <1>2, MessagesName DEF ActivateDone, Done, Quietly
<1>3. CASE \E t \in UserIds : NothingToActivate(t)
  BY <1>3, MessagesName DEF NothingToActivate, Done
<1>4. CASE \E t \in UserIds, w \in InvitationIds : RedeemRefused(w, t)
  BY <1>4, MessagesDiffer DEF RedeemRefused, Done
<1>5. QED
  BY <1>1, <1>2, <1>3, <1>4, OwedSteps

StillOwed(m) ==
  \E u \in FindUserByEmail(memberships[m].who) : Activated(u) \in owed

\* Who waits and whose activation is owed goes on waiting for it, or is
\* pending no more.
LEMMA OwedStays ==
  ASSUME Base, AllActOnPending, [Next]_vars, NEW m \in M!Members,
         memberships[m].status = "pending", StillOwed(m),
         memberships'[m].status = "pending"
  PROVE  StillOwed(m)'
<1>1. PICK u \in UserIds : /\ u \in FindUserByEmail(memberships[m].who)
                           /\ Activated(u) \in owed
  BY DEF StillOwed, FindUserByEmail
<1>2. users[u] # None /\ users[u].email = memberships[m].who
  BY <1>1 DEF FindUserByEmail
<1>3. u \in FindUserByEmail(memberships[m].who)'
  BY <1>2, NextUsersStay, NextRowsStay
  DEF Base, UsersStay, MembershipsStay, FindUserByEmail, M!Members
<1>4. ~NothingToActivate(u)
  <2>1. m \in PendingOf(users[u].email)
    BY <1>2 DEF PendingOf, M!ListByIdentity
  <2>2. QED
    BY <2>1 DEF NothingToActivate
<1>5. ASSUME NEW p \in Ops, M!ActivateCommit(p), LastActivated(p),
             u \in FindUserByEmail(memberships[op[p].mem].who)
      PROVE  FALSE
  <2>1. op[p].step = "activate"
    BY <1>5 DEF M!ActivateCommit, M!At
  <2>2. PICK e \in Emails : /\ \A n \in op[p].todo : memberships[n].who = e
                            /\ PendingOf(e) \subseteq op[p].todo
    BY <2>1 DEF AllActOnPending, ActsOnPending
  <2>3. op[p].mem \in op[p].todo
    BY <2>1 DEF AllActOnPending, ActsOnPending
  <2>4. memberships[m].who = e
    BY <1>2, <1>5, <2>2, <2>3 DEF FindUserByEmail
  <2>5. m = op[p].mem
    BY <1>5, <2>2, <2>4 DEF PendingOf, M!ListByIdentity, LastActivated
  <2>6. PICK row : /\ memberships' = [memberships EXCEPT ![m] = row]
                   /\ row.status = "active"
    BY <1>5, <2>5, ActivationPatches DEF Patched
  <2>7. memberships'[m] = row
    BY <2>6 DEF Base, MembershipHolds, M!TypeOK, M!Members
  <2>8. QED
    BY <2>6, <2>7
<1>6. Activated(u) \in owed'
  BY <1>1, <1>4, <1>5, ActivationDropped
<1>7. QED
  BY <1>3, <1>6 DEF StillOwed

AllOwed == \A m \in waiting : memberships[m].status = "pending" => StillOwed(m)

LEMMA NextAllOwed ==
  ASSUME Base, Named, AllActOnPending, AllOwed, [Next]_vars
  PROVE  AllOwed'
<1> SUFFICES ASSUME NEW m \in waiting', memberships'[m].status = "pending"
             PROVE  StillOwed(m)'
  BY DEF AllOwed
<1>1. CASE m \in waiting
  <2>1. m \in M!Members
    BY <1>1 DEF Named
  <2>2. memberships[m].status = "pending"
    BY <2>1, NextStatusesStay DEF StatusesStay
  <2>3. QED
    BY <1>1, <2>1, <2>2, OwedStays DEF AllOwed
<1>2. CASE \E q \in Requests : VerifyEmail(q) /\ m \notin waiting
  <2>1. PICK q \in Requests : VerifyEmail(q) /\ m \notin waiting
    BY <1>2
  <2>2. PICK u : u = work[q].user
    OBVIOUS
  <2>3. u \in UserIds /\ users[u] # None
    BY <2>1, <2>2 DEF Base, SignedUp, WorkHolds, Remembers, Work, VerifyEmail,
                      VerifyEmailCommit, Busy
  <2>4. m \in PendingOf(users[u].email)
    BY <2>1, <2>2 DEF VerifyEmail
  <2>5. memberships[m].who = users[u].email /\ UNCHANGED memberships
    BY <2>1, <2>4 DEF PendingOf, M!ListByIdentity, VerifyEmail, membership
  <2>6. users'[u] # None /\ users'[u].email = users[u].email
    BY <2>3, NextUsersStay DEF Base, UsersStay
  <2>7. Activated(u) \in owed'
    BY <2>1, <2>2 DEF VerifyEmail, VerifyEmailCommit, Publish
  <2>8. QED
    BY <2>3, <2>5, <2>6, <2>7 DEF StillOwed, FindUserByEmail
<1>3. QED
  BY <1>1, <1>2, WaitingSteps

\* A membership that was pending when its identity was verified is not
\* stranded by a failure half-way through the list: until it is activated or
\* archived, the activation is owed and will be delivered again.
THEOREM OneHandlerActivatesVerified ==
  ASSUME OneHandler
  PROVE  Spec => []VerifiedMembersAreActivated
<1>1. Init => AllOwed
  BY DEF Init, AllOwed
<1>2. Base /\ Named /\ OneAtATime /\ AllOwed /\ [Next]_vars => AllOwed'
  BY NextAllOwed DEF OneAtATime
<1>3. AllOwed => VerifiedMembersAreActivated
  BY DEF AllOwed, StillOwed, VerifiedMembersAreActivated
<1>4. QED
  BY <1>1, <1>2, <1>3, AlwaysBase, AlwaysNamed, AlwaysOneAtATime, PTL DEF Spec
=============================================================================
