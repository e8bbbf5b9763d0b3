# Formal verification of Folksdo identity and access

TLA+ models of the three services of this repository (Identity, Membership and
Access) and of the server that hosts them, the TLC runs that check them on small
instances, and TLAPS proofs of the properties that matter most for every value
of the constants. Paths below are relative to the repository root; `PROJECT.json` maps every definition that
models code to the lines it models.

Contents: [the system](#the-system) ·
[what is hard](#what-is-hard-in-this-code) ·
[modules](#modules-and-how-they-correspond-to-the-code) ·
[runs](#runs) · [fairness](#fairness) · [proofs](#proofs) ·
[divergences](#where-code-and-documentation-disagree) ·
[consequences without a run](#consequences-seen-in-the-models-without-a-run-of-their-own) ·
[not modelled](#what-is-not-modelled) · [plan](#plan)

## The system

Three services run in one server (`apps/server`). They share no state. Each
keeps its collections in MongoDB, and talks to the others through events that
its commits leave in an outbox.

| Component | State it keeps | Operations | Correct when |
|---|---|---|---|
| **Membership** (`services/membership`) | memberships (pending, active, suspended, archived, with the source of a suspension), invitations (pending, redeemed, revoked, expired), one selected context per identity | twelve use cases that write, reactions to seven events of Identity, tenants and subscriptions, the invitation expiration worker | one membership per identity and tenant; one live invitation per tenant and email; a redemption has its membership; nothing becomes effective without an activation; what was announced is what is stored; lapsed invitations are settled |
| **Access: lifecycle** (`services/access/src/usecases/authorization-lifecycle`, `reactions`) | known facts about identities, memberships and tenants; role and permission assignments with their suspension causes | fourteen registered reactions, the assignment expiration worker | a suspension names its causes and ends with the last of them; a right is assigned once; the fact of a membership and its assignments move together; what is due is expired |
| **Access: decision** (`authorization/`, `usecases/queries`) | reads roles, bindings, assignments, restrictions, facts, capabilities | evaluate one permission; list the current ones | the evaluator decides by the definition of an effective permission; reads spread over commits do not make it overlook a lasting denial; the two queries agree |
| **Access: administration** (`usecases/roles`, `policies`, `restrictions`, `permissions`) | roles, role and permission assignments, policies, restrictions | create, update, archive, restore; assign, remove, grant, revoke; restrict | nobody hands on what the tenant was never given; effects stay within their tenant; a commit changes its caller's tenant only |
| **Access: permission catalogues, adapters, observability** | tables | none that change state | not modelled |
| **Identity: sign-up** (`services/identity`) | users, verifications, credentials, profiles; a projection of Membership's invitations | invitation sign-up, email verification, four reactions | one identity per email; the projection does not run ahead of Membership; whoever signs up gets into the tenant, and nobody whose invitation is settled |
| **Identity: sessions and passwords** | sessions, credentials, tokens of a reset | sign in and out, current session and user, change, request and reset of the password | a reset ends the sessions stored before it; events agree with rows; a bound request acts for an active identity |
| **Authentication adapter** | none (Better Auth keeps accounts, passwords, its own sessions and tokens) | the calls that sign-up and passwords make | external: modelled by what each call leaves behind |
| **APIs and guards** of the three services | none | routing, the session and the context of a request, its decision, the guard's checks, validation | no request acts without a session, a membership and a permission that were its own |
| **Host server** (`apps/server`) and **runtimes** | the HTTP application, the platform runtime, the Access runtime, interval timers, executions in flight | bootstrap, start, readiness, signals, shutdown | a server that serves is ready; a shutdown drains, ends, and leaves nothing behind |
| **Certification, staging and test scripts** | none | tools | not modelled |

### How the parts interact

    Identity  -- user.activated ------------------------> Membership, Access
              -- invitation_redemption.requested -------> Membership
    Membership -- invitation.created/redeemed/... ------> Identity (projection)
               -- membership.created/activated/... -----> Access
    Outside this repository:
    tenant.*, subscription.*, an identity's disabling,
    restoration and archival ---------------------------> Membership, Access

    A request: session of Identity, context of Membership, decision of Access,
    rows of the service it is for (calls, each an await of its own)
    Server:    one platform runtime, three services, two runtimes with timers

(No code of `services/identity` disables, restores or archives an identity;
Access listens for `identity.user_archived`, Membership for
`identity.identity.archived`.)

A use case reads with `await`, decides with a pure function of
`business-rules/`, and ends in **one engine commit** that writes rows, events
and outbox messages in one transaction. Three facts about that commit shape all
the models:

1. It carries **no expected version**. An update of Membership patches fields by
   id; an update of Access replaces the whole document as it was read. Whatever
   another handler committed after the read is overwritten.
2. Only the **unique indexes** are checked when it is applied.
3. A reaction is delivered **at least once and in any order**, and no reaction
   remembers what it has handled.

The engine and its transport are libraries outside `src`; the three facts are
how the code here uses them, and are the assumption of every result below.

## What is hard in this code

`PROJECT.json` lists each hazard with its line and the properties that guard
it. In short: state read before an `await` and written after it (every use
case); two creations that both found nothing; three handlers settling one
invitation; reactions that walk a list, one commit per row, and may die
half-way; late, repeated and swapped events; whole-document replacements that
lose a suspension cause; assignments that wait for an event which never touches
them; decisions that mix documents of several moments; an outside provider
called between the reads and the commit; sessions that a reset has listed and
those that requests in flight still store; checks of scope and of delegation
made awaits before the write they are for; a session, a context and a
decision that go stale one after the other on the way of a request; failures
sorted into permanent and transient ones; workers with bounded batches; a
signal that lands in the middle of a start, or of a shutdown that drains.

## Modules and how they correspond to the code

    MembershipLifecycle          AssignmentLifecycle            (abstract)
            ^ refined by                ^ refined by
      MembershipSerial             AccessSerial                 (one handler)
            |                           |
        Membership              AccessLifecycle     Authorization   (the code)
         ^      | INSTANCE              |                 |
         |   Onboarding --> Identity    |                 |
    MembershipSafety            AccessProofs     AuthorizationProofs
           OnboardingProofs

    Administration      Sessions      Requests      Server          (the code)
          |                 |             |            |
    AdministrationProofs SessionsProofs RequestsProofs ServerProofs

    MCSerial:  AccessSerial + MembershipSerial      MCWorkers: AccessLifecycle + Membership

**Style shared by all.** A use case with reads and a commit is one handler that
takes one action per read that matters and one for the commit; between them
every other process may act. A failed check throws and changes nothing, so it
is a disabled guard. A commit that is rejected, and a process that dies, are
both `Abandon` (`Fail`, `GiveUp`): the handler forgets what it read, and
nothing is written. A reaction may start whenever its event has been published,
any number of times. Clocks are abstracted to what code compares them with: the
set of rows that have lapsed, or a small number. Ids are model values, and the
number of ids bounds the rows. Business rules are operators with the rule's
name, and stand beside a *mutation* of the rule where one is used to check that
a property can fail.

**`Membership`** models `services/membership/src/usecases`, `reactions`,
`workers` and `business-rules`. `memberships`, `invitations` and `contexts` are
the collections; `announced` is the last lifecycle event published per id;
`op` holds what each handler remembers between its awaits (`todo` is the list
that a reaction walks). Creation, invitation, redemption (three steps: it reads
the invitation, then the membership, then commits both), revocation, expiration,
activation, suspension, reactivation, archival and context selection, by command and
by reaction. `Sweep…` is the expiration worker. An email stands for the
identity that owns it.

**`MembershipLifecycle`** is what the documentation promises
(`services/membership/docs`): the same lifecycles as atomic steps without
handlers. **`MembershipSerial`** maps `Membership` to it.

**`AccessLifecycle`** models the reactions of Access on identities, memberships
and tenants with their known facts, the grant and the end of role and
permission assignments (one kind of row for both: both go through the same
statuses by the same rules), and the assignment worker. `patch` is the
whole-document plan a handler commits. `published` keeps which events other
services have sent; `Follows` says which event may first come after which, and
after that each may be redelivered for ever.

**`AssignmentLifecycle`** is the promise: an event applies to all assignments of
its subject at once, and an assignment comes back with the last cause.
**`AccessSerial`** instantiates it and names the premise, `OneHandler`.

**`Authorization`** models `AuthorizeActionUseCase` and
`CurrentAuthorizationUseCase` with the evaluator, the resolver and the
precedence of `services/access/src/authorization`, and the administration of
what they read. `asked` is one evaluation in progress: its reads happen one at
a time in the phases of the code (`FirstReads`, `LaterReads`, `LastReads`), in any
order within a phase (they are a `Promise.all`). `before`, `enduring` and
`changes` are history: the store when it began, what has blocked ever since,
and how often a document it reads has changed. The state is what decisions
about ONE membership and ONE permission look at. Assignments and facts change
by the commits `AssignmentLifecycle` promises, plus late membership events. A
restriction on the membership, its tenant or the permission is one target
(`"whole"`); one administration handler is in flight; an identity and a tenant
are both just `Contexts` that must be active.

**`Identity`** models invitation sign-up, email verification and the
known-invitation projection. The provider is called between
`SignUpFindUser` and the commit; an account whose commit failed is met again by the
next attempt. A user's status stands for `emailVerified` and for the status of
its verification, which the same commit writes. `sent` is all an outbox has
published, `owed` what Membership has not finished handling.

**`Onboarding`** composes `Identity` with the handlers of `Membership`
(`M == INSTANCE Membership WITH Identities <- Emails`), through messages alone.
That an email can stand for an identity is `OneIdentityPerEmail`, proved below.
Of Membership's commands those that touch an invitation, and archival, take
part; manual creation, activation and suspension do not (they would make
memberships effective by command, about which onboarding promises nothing).
`PermanentFailure` and `RedeemRefused` model how the redemption reaction sorts
errors: a permanent one ends the message, any other is delivered again.

**`Sessions`** models the session and password use cases of Identity with the
provider's side of each. `password`, `confirmed` and `tokens` are the
provider's; `users`, `credentials` and `sessions` are collections; `announced` is
the outbox. A use case takes one action for its reads, one for the call of the
provider and one for its commit, so a password is replaced some time before
Identity ends the sessions of the old one. `work` is what each HTTP request
remembers (`ends` is the list of sessions a reset or a change is to end). Two fields
of a session row, `by` and `at`, are history: the password that
let it in, and the one in force when it was stored.

**`Administration`** models every administrative use case of Access together
with the checks that the API puts before it: the decision on the permission of
the route, the scope check of the document named, the decision on each
permission handed on (`Delegate`), the read and the commit of the whole
document. `seeded` is history: what the platform has put into a tenant. A decision
can deny for reasons that are in `Authorization`; here any request may be
abandoned, and what counts is what an allowing decision requires (`Holds`).

**`Requests`** follows ONE request, to any route of Membership or query of
Access, through every await: session, context, decision, the guard's checks,
the rows. Everybody else is atomic steps of `Others`: sessions end, contexts are
switched, memberships and invitations move, and `allows`, what Access would decide,
changes at any time. `since` is history: what has been true at some time
since the request began, which is all that stale reads can vouch for.

**`Server`** is the life of the process: `main()` through bootstrap and start,
the cleanup of a failed start, the handler of a signal, which may run at the same time
as either, the timers of the three workers and their executions. `stopping` says at
which of the three stops each of the two shutdowns is. Assumed of what is
outside the repository: a closed HTTP application cannot listen again, a stop
succeeds, and a stop of the platform that overtakes its start leaves it
started or stopped.

`MC…` modules hold model values, symmetry and named bounds; `MCSerial` and
`MCWorkers` check the same question of Access and of Membership in one run (a behaviour
is one of either, the other stands still).

## Runs

Deadlock is checked in every run but two: `sessions` and `administration` stop
when the bounded ids and versions are used up.

| Run | Question | Instance | Result |
|---|---|---|---|
| `membership_races` | Six safety properties, every use case and reaction interleaved | 1 identity, 1 tenant, 2 membership ids, 2 invitation ids, 2 handlers, 1 worker; symmetric | hold |
| `membership_revoked_race` | "A revoked invitation cannot subsequently be redeemed" | 2 handlers | **violated** |
| `access_races` | Types, one assignment per right, status and causes agree | 2 assignment ids, seven events, 2 handlers, 1 worker; symmetric | hold |
| `access_late_activation` | "Permanently exclude the Membership from authorization evaluation" | 1 handler | **violated** |
| `serial` | Does one handler at a time implement the documented lifecycle, in either service; is a restoration aware of its source; does a membership's fact govern its assignments; is an archived tenant final? | Access: every event but `membership.reactivated`, 1 process that takes requests and runs the worker; Membership: 2 identities, 2 invitations, 1 handler | hold |
| `workers` | Is everything that is due done, by either worker? | batch of 1; 2 assignments, 2 rights; 2 invitations; 1 handler, 1 worker | hold |
| `authorization` | Is the answer that of one state; do lasting blockers deny; does the evaluator decide by definition; do the two queries agree? | 1 role, 1 kind of resource, 2 instants, at most 2 commits of others, questions with and without resource and capability | hold |
| `administration` | Can the people of a tenant come by what it was never given; do effects and commits stay within their tenant? | 2 tenants, 3 members and the platform, 2 roles, 1 policy, 1 restriction, 2 requests, in six topics; symmetric | hold |
| `onboarding` | Six properties of joining a tenant | 1 email, 2 user ids, 2 tenants, 2 invitations, 2 requests, 1 Membership handler; symmetric | hold |
| `sessions` | Does a reset end the sessions stored before it; do events and rows agree; whom does a bound request act for? | 1 user, 2 sessions, 2 requests, 3 replacements of the password; symmetric | hold |
| `requests` | Does a request act, and reach rows, under an authority it has had since it began? | 1 session, 3 memberships of 2 people, 1 invitation, 2 documents, a control plane and a tenant | hold |
| `server` | Is a server that serves ready; does a shutdown drain, end, and leave nothing? | the three workers of the repository; a failure at every await, a signal at every moment | hold |

**Why the bounds are enough to meet the cases.** The races in this code are
between two handlers on one row, or on one key of a unique index: two handlers,
one key and two ids let both try to create, and let one act between any two
steps of the other. Two invitations to one email let a second invite meet a
live, a settled or a lapsed one; in `onboarding` they go to two tenants, so that
one person signs up twice, at once, and a reaction walks a list of two
memberships. The workers' batch is one row, the smallest that can starve. In
`authorization` two commits (`MaxCommits`) let an evaluation see the first and
miss the second; windows lapse at the second instant or begin at it. In
`administration` two requests suffice for one to change what the other has
checked; a behaviour takes its requests from one *topic* (`MCAdministration!Topics`), the
operations that touch the same documents, because all thirteen at once are beyond
TLC (the proofs have all of them). Three replacements of a password let two resets
and a change overtake a sign-in. `server` has the workers the repository
schedules, so there is no bound. The
theorems below drop the bounds for the safety properties of every module, with
the exceptions listed there.

**Symmetry** is used only in runs without liveness, over sets from whose members no
definition chooses one by its value (a `CHOOSE` is always from a set that has at
most one element, by an invariant of the same run). Assignment ids are ordered
(batches are sorted by id) and are not symmetric.

Five more configurations are kept beside the runs; each shows one of the
divergences below, and is run by hand with
`tlc -config <cfg> <module>`: `MCAccessRegrant.cfg` and `MCAccessWaiting.cfg`
(module `MCAccess`), `MCSessionsReset.cfg` (`MCSessions`),
`MCAdministrationRoles.cfg` and `MCAdministrationVersions.cfg`
(`MCAdministration`).

Each property of a passing run has a mutant in `PROJECT.json`: a plausible bug
in one operator under which the run finds that property violated.

## Fairness

Liveness is claimed of the two expiration workers and of the shutdown.

The workers' is under `WorkerFairness` (in `MCWorkers` the same per service): a
server keeps its interval timer (weak fairness of starting a batch and of skipping rows
that need nothing more), and a commit that is retried for ever succeeds
sometimes (strong fairness of the step that takes a row and of its commit). The timer is
`setInterval` in the workers' `start`; users and other services owe nothing,
and no fairness is assumed of requests or reactions. A row whose commit *always* fails is
excluded by this; with a bounded batch such rows can keep others waiting (a
listed hazard). In `workers` Access has no suspending events: with a batch of one, a
request that suspends and restores the row at the head of the batch for ever
could keep the worker from it.

The shutdown's (`Server!Fairness`): awaited calls return, successfully or not,
and the executions of workers end. Nothing makes a signal come, a timer fire, or the
process survive.

Redelivery is modelled without fairness: `RequestsAreSettled` and
`VerifiedMembersAreActivated` say that a message is still *owed* as long as its
effect is missing, so the transport's own promise to deliver what is owed is
all they need.

## Proofs

All theorems are about the same `Spec` the runs check, for every value of the
constants that satisfies the modules' assumptions. These are: ids of different
kinds do not clash (`IdsDisjoint`, `WorkersDisjoint`, `TargetsDiffer`,
`IdsAreApart`, `PlatformIsNobody`, `SweepIsApart`), the absent value is no value
(`NoneIsNoValue`, `NoneIsNothing`, `NoneIsNoDocument`, `NoneIsNoIdentity`,
`NoneIsNoRow`), batches and versions are positive, windows are times, reactions are events,
a membership has a tenant, routes have permissions. `MembershipMeetsIdentity` is
the first two kinds for Membership inside `Onboarding`.

Some theorems have hypotheses of their own, in their `ASSUME`: `OneHandler`
(`\A p, q \in Processes : p = q`; in `Onboarding` of `Ops`, since no worker runs
there), `SubjectsDisjoint` (an identity is not also a tenant) and
`NoneIsNoPromise` (the absent row is no row of the abstract lifecycle).
`OneHandler` is *not* something the services guarantee: it marks exactly which
promises of the documentation concurrency breaks. TLC refutes each of these
conclusions as soon as there are two handlers, and the runs that check them have
one (`Premises` and `MembershipPremises` of `MCSerial`, `Premise` of
`MCOnboarding`). In one case, `VerifiedMembersAreActivated`, the counterexample is
one of the model: two requests verify the same identity, and their two
announcements are a single message in `sent`; whether it is also one of the code
is open. Every other theorem is for any number of handlers.

**Membership** (`MembershipSafety`). The invariant
`Safety` is the conjunction of the type invariant, `StaleReadsHold` and the
safety invariants. None of them is inductive alone: that a patched row has
the type of a row, or that a redeemed invitation has a membership, depends on
what a handler remembers from two awaits ago, so *what stale reads still
guarantee* (`StaleReadsHold`) is the strengthening. The argument is pointwise:
`MembershipWrites` and `InvitationWrites` show that whatever step is taken,
one row changes only in one of a few ways, and each invariant is preserved by
each way.

**Refinement of Membership** (the last part of `MembershipSafety`). With
`OneHandler`, `Fresh` holds besides `Safety`: the rows that the only handler has
read, and all that its list still has to walk, have the status it read them
with (`FreshMemberships`, `FreshInvitations`). Nothing but an own commit could
change that, and a commit takes its row off the list. `SourceOfSuspension` (only
a suspended row has a source) is needed too: otherwise an activation would
keep a source that the abstract lifecycle, which forgets it, does not have.
Then `NextIsDocumented`: each of the commits is the abstract step of
its name, everything else stutters (`OneHandlerKeepsLifecycles`, the theorem
behind `MembershipImplementsLifecycle` of `MCSerial`). From the same invariant
`RestorationIsSourceAware`, and, through the refinement, that a revoked invitation
is not redeemed: what `membership_revoked_race` refutes of two handlers is true of one.

**Access** (`AccessProofs`). `Safe` says of every handler that its memory
`Fits`: rows it will replace exist, and the planned row has the same key and
is consistent. No document is ever removed and none changes its key (`Grows`),
so another handler's commit keeps that. From it: `OneAssignmentPerRight` and
`SuspensionIsConsistent` under any mixture of overwrites.

**Refinement of Access** (the second half of `AccessProofs`). With `OneHandler` and
`SubjectsDisjoint` (hypotheses of this theorem alone), what the handler read is
still so when it commits (`Fresh`, part of the inductive invariant `Serial`); with the agreement of the code's rules and
the abstract ones row by row, every commit is one abstract step and
everything else stutters. This covers all events, `membership.reactivated` included.

`MembershipGovernsAssignments` and `ArchivedTenantIsFinal`, from the same
hypotheses: `Governed` adds to `Serial` that the fact a handler is about to write
was computed from the one that is stored (`FactFresh`), and that every assignment
agrees with the fact of its membership row by row (`Governs`): a suspended membership
is itself *among the causes* of the suspension, since otherwise a restored
identity would lift the assignment under it.

**Authorization** (`AuthorizationProofs`). `TypeCorrect`; `EnduringBlockersDeny`
from the invariant that a blocker which is still enduring was seen by every
read that could show it (`StillBlocked`); `DecisionIsEffective`, which is a
theorem about the evaluator for every store; and `QueriesAgree`.
`AnswerIsOfOneState` follows from `SeesOneState`: as long as at most one commit has
changed what the evaluation reads, what it has seen, taken as a whole, *is* the store
before or the store now. That is inductive only together with `OneApart`: the two
stores differ in a single part, and where a part is read element by element
(the facts, the statuses of roles) in a single element, so that one more read
either leaves what was seen as it is or completes it to the store of now.

**Onboarding** (`OnboardingProofs`). `SignedUp`: what a request remembers and
what a message names are users that exist. From it `OneIdentityPerEmail`, and
`Spec => M!Spec`: the composition drives Membership only through steps that
`Membership` allows. What is proved of Membership then holds of it:
`MembershipSafety` is instantiated like `Membership` (`Safety`), the two
instances are shown to mean the same, and all invariants of Membership follow
(`OnboardingKeepsMembershipSafe`), with one handler its documented
lifecycles too (`OnboardingFollowsLifecycles`).

`EffectiveMembersAreVerified` is for any number of handlers: an activation that is
under way walks a list of memberships of verified identities only
(`OnlyVerified`), verification is never undone and a row never changes whose
it is. The other properties are false with two handlers (a revocation
and a redemption both settle an invitation, and both tell Identity; see above for
the activation) and have the hypothesis `OneHandler`. Then a handler past its reads acts on an invitation that
is still pending (`AllActOnPending`), so what Membership has announced as settled stays so
(`AnnouncedStays`), and the projection, which only repeats announcements, is not
ahead (`NotAhead`). From these `ProjectionIsNotAhead` and
`SettledInvitationsAdmitNobody`. For the last two, what a message asked for, once
done or refused for good, stays so (`SettledStays`); and the list that a handler
walks contains all that its owner has pending (`AllActOnPending` again), so a reaction
ends its message only when nobody waits for it any more (`OwedStays`):
`RequestsAreSettled` and `VerifiedMembersAreActivated`.

**Sessions** (`SessionsProofs`). `Safe` adds to the three properties what each
request still relies on (`Fits`): the user or session it found is there, a
password it was let in by is not newer than the one in force, the sessions it
lists are of its user. That survives the steps of others because rows never
disappear and passwords, events and session statuses only move forwards
(`Moves`). `ResetEndsStoredSessions` then holds because a reset lists *after* the
provider has replaced the password: a session stored before that is in the list,
one stored later carries the new password.

**Administration** (`AdministrationProofs`). The same shape: documents keep
their tenants, and what a tenant was given only grows (`Moves`), so what a
request has named, found in scope and had checked (`Names`, `InScope`, `Delegated`)
still fits when it decides and commits (`Decided`), although roles are
overwritten by stale copies meanwhile. From it `AuthorityIsDelegated`,
`EffectsBelong` and the action property `TenantsStayConfined`, for all thirteen
operations at once.

**Requests** (`RequestsProofs`). `Guided` says at each place of the request's way
what it may rely on. Of what it has read it can only rely on that it *has been* so
(`since`) and on what never changes (owners and tenants); that this is enough for
`ActsUnderAuthority` and `ReachIsConfined` is the theorem.

**Server** (`ServerProofs`). `Safe` relates how far `main()` and the handler
have come to what is up, for any set of Access workers: whatever either
shutdown has taken down stays down, unless `main()` may still bring it up, in
which case it will also notice. `TypeOK`, `ServesWhenReady`,
`NothingIsLeftBehind` and `DrainedBeforePlatform` follow.

**Only model-checked.** The three liveness properties (`DueIsExpired`,
`LapsedIsSettled`, `ShutdownEnds`): liveness under fairness, and `ENABLED`, are
out of this prover's reach. Every other property of a passing run is proved;
`MembershipImplementsLifecycle` and `RestorationIsSourceAware` in their original
form in `MembershipSafety`, not as `MCSerial` wraps them to check both services in one
run. No module has recursive definitions, so nothing stays unproved for that
reason.

## Where code and documentation disagree

Each is a counterexample of a few steps; the first two are `violation` runs, the
others have configurations of their own (see [Runs](#runs)).

1. `RevokedIsNotRedeemed` (`membership_revoked_race`): a redemption that read the
   invitation before a revocation committed redeems it afterwards
   (`redeem-invitation-usecase.ts`).
2. `ArchivedMembershipExcluded` (`access_late_activation`): the three membership
   reactions overwrite an archived fact when their event comes late or again.
3. `WaitingAssignmentsActivate` (`MCAccessWaiting.cfg`): an assignment granted
   to a pending membership stays pending after its activation.
   `restoreAssignment` only lifts causes.
4. `EndedRightsCanBeGranted` (`MCAccessRegrant.cfg`): the unique index on
   assignments has no filter by status, so a right once removed can never be granted again.
5. `ResetEndsOldSessions` (`MCSessionsReset.cfg`): a sign-in that passed the
   provider with the old password stores its session after a reset has listed
   the sessions it ends.
6. `ArchivedRolesWait` (`MCAdministrationRoles.cfg`): an update of a role that
   was read before an archival writes it back as active.
7. `VersionsGrow` (`MCAdministrationVersions.cfg`): two updates of a policy write
   the same version, or an older one over a newer.

## Consequences seen in the models without a run of their own

- Archival is terminal only one handler at a time: a stale suspension,
  activation or restoration patches an archived membership back. For the same
  reason an expiration and a redemption may overwrite each other, and
  `ImplementsLifecycle` is stated of one handler.
- Two Access reactions in flight lose a suspension cause: the later replacement
  was computed without it. `SuspensionIsConsistent` is what survives.
- A decision that falls across *one commit of several documents* may combine
  them into an answer that neither the state before nor the state after gives;
  `AnswerIsOfOneState` is stated of at most one change for that reason.
- The selected context keeps pointing at a suspended or archived membership;
  `membership.context.cleared` is announced and nothing consumes it.
- An identity that was active before it redeems gets a *pending* membership, and
  no further `user.activated` comes. The same happens when the redemption is handled after
  the activation. A command has to activate it.
- A redelivered `invitation.created` sets the projection of a settled invitation
  back to pending; sign-up lets the person through, and Membership refuses the
  redemption (`SettledInvitationsAdmitNobody`).
- Restrictions without a tenant are never in the list of a decision
  (`mongo-access-filters.ts:213`); a policy is created as a draft, may be
  archived, and no code makes it active.
- The timer of the invitation sweep does not await its execution: a list that cannot be read
  is a rejection nobody handles, and ends the process (`Server!Perish`).
- A sweep in flight outlives the shutdown of the platform: only the Access
  workers are drained (`DrainedBeforePlatform` says nothing of it).
- A signal that comes before the Access runtime has started finds nothing to
  drain (`overtaken`), and an execution that starts afterwards may lose its platform.
- A context outlives its membership; a request through it is stopped by the
  guard and by the decision, not by the context (`ActsUnderAuthority`).
- Timestamps with an offset are accepted, stored as they came and compared as
  strings.
- The header of `invite-member-usecase.ts` says the token hash is not published;
  the payload contains it.

## What is not modelled

- **Permission catalogues**: tables of names. Every property speaks of any set
  of names; the reads of the catalogue change nothing.
- **Validation schemas, data transfer objects, mappers, error translation,
  logging**: checks and formatting of single requests, with no state. They are most
  of the code that no definition maps. Expiry timestamps with an offset are
  the one place where a format decides something; it is a listed hazard.
- **Paging, sorting and filters** of the lists: `Requests` has what a list lets
  whom see, not which page of it.
- **The reads for providers** (two of Identity, two of Membership), health checks, the
  `authorize` route of Access (a decision like any other), and the comparison of emails in a
  redemption (in `Membership` an email *is* the identity that owns it).
- **Rows of profiles** that the sign-up commits also write: no modelled step
  reads them.
- **The authentication library and the engine**: external; modelled by how the
  code uses them (what a call leaves behind; the three facts above).
- **Evaluation of policies**: no policy is ever in force. The security-policy
  use cases of Access have no caller.
- **The order of a subscription's capability messages** (`effectiveAt` is not
  looked at): the set of capabilities is one commit of `Authorization`.
- **Configuration, the indexes that are not unique, scripts**.
- Names, descriptions, reasons, actors, timestamps beyond set or not set.

## Plan

Done: `Membership`, `AccessLifecycle`, `Authorization`, `Identity` and
`Onboarding`, `Sessions`, `Administration`, `Requests`, `Server`, with the
proofs above. What is left, in order of importance:

1. Membership's events into Access, composed like `Onboarding`: what Access
   believes of a membership against what Membership stores once every message
   has been handled.
2. Proofs: which of the conclusions that have the hypothesis `OneHandler` need it
   only of some handlers (commands may overlap with reactions on other rows).
3. `Requests` with the decision of `Authorization` in place of `allows`.
