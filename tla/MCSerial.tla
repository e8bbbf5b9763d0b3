------------------------------ MODULE MCSerial ------------------------------
(* Does each service implement its documented lifecycle when its handlers   *)
(* run one at a time?  The services meet only through messages, which each  *)
(* of the two modules takes from anywhere, so a behaviour is one of Access  *)
(* or one of Membership while the other stands still.                       *)
EXTENDS AccessSerial

ASSUME Premises == OneHandler /\ SubjectsDisjoint

CONSTANTS People, Companies, MembershipIds, InvitationIds

VARIABLES service, memberships, invitations, contexts, lapsed, announced,
          handling

M == INSTANCE MembershipSerial
       WITH Identities <- People, Tenants <- Companies, Workers <- {},
            op <- handling

\* The premises of the same theorems about Membership.
ASSUME MembershipPremises == M!OneHandler /\ M!NoneIsNoPromise

accessVars     == vars
membershipVars ==
  <<memberships, invitations, contexts, lapsed, announced, handling>>

\* Ids are interchangeable, so it is enough that invitations take them in one
\* order and that the one membership a person can have takes a certain id.
Canonical ==
  /\ \A i, j \in InvitationIds :
       i < j /\ invitations'[j] # None => invitations'[i] # None
  /\ \A m \in MembershipIds :
       memberships'[m] # None => memberships'[m].who = m

SerialInit == service \in {"access", "membership"} /\ Init /\ M!Init

SerialNext ==
  /\ UNCHANGED service
  /\ \/ service = "access" /\ Next /\ UNCHANGED membershipVars
     \/ service = "membership" /\ M!Next /\ Canonical /\ UNCHANGED accessVars

SerialSpec == SerialInit /\ [][SerialNext]_<<service, accessVars, membershipVars>>

\* The properties of MembershipSerial, which say there what they are about:
\* each commit of Membership is one documented lifecycle step,
MembershipImplementsLifecycle ==
  /\ M!Lifecycle!Init
  /\ [][service = "membership" => M!Lifecycle!Next]_(M!Lifecycle!vars)

\* and a reaction restores only what its own source has suspended.
RestorationIsSourceAware == M!RestorationIsSourceAware

\* The lifecycles of all three subjects of Access overlap; a membership comes
\* back by its activation (its reactivation has the same effect, see
\* MCAccess!RacingCauses).
OverlappingEvents == Events \ {"membership.reactivated"}
=============================================================================
