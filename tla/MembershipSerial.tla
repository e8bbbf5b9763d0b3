-------------------------- MODULE MembershipSerial --------------------------
(***************************************************************************)
(* Membership implements MembershipLifecycle when one handler is in flight *)
(* at a time (OneHandler): every commit then acts on what its reads saw.   *)
(* Rows are mapped by forgetting the timestamps.                           *)
(***************************************************************************)
EXTENDS Membership

OneHandler == \A p, q \in Processes : p = q

\* An absent row is not the promise of a row either.
NoneIsNoPromise ==
  None \notin [who : Identities, ten : Tenants, status : MembershipStatuses,
               source : SuspensionSources \union {None}]

Promised(row) ==
  IF row = None THEN None
  ELSE [who |-> row.who, ten |-> row.ten,
        status |-> row.status, source |-> row.source]

PromisedMemberships == [m \in MembershipIds |-> Promised(memberships[m])]

Lifecycle == INSTANCE MembershipLifecycle
               WITH membership <- PromisedMemberships,
                    invitation <- invitations,
                    context    <- contexts

\* Each commit of the service is one documented lifecycle step, and nothing
\* else changes rows: archival is terminal, settled invitations stay settled,
\* a redemption has its membership, a context was eligible when selected.
ImplementsLifecycle == Lifecycle!Spec

=============================================================================
