------------------------- MODULE OrganizationRegistry -------------------------
(***************************************************************************)
(* OrganizationRegistry.sol: banks and third-party providers register        *)
(* themselves, and a regulator approves, suspends and revokes them.  Names,   *)
(* licences, timestamps and the holders of REGULATOR_ROLE are left out;       *)
(* userRoles repeats the role of the record.                                *)
(***************************************************************************)
CONSTANT Orgs

VARIABLE organizations  \* function from the registered wallets to [role, status]

OrgRoles == {"BANK", "TSP"}

OrgStatuses == {"PENDING", "APPROVED", "SUSPENDED", "REVOKED"}

OrganizationTypeOK ==
  /\ DOMAIN organizations \subseteq Orgs
  /\ organizations \in [DOMAIN organizations -> [role: OrgRoles, status: OrgStatuses]]

OrganizationInit == organizations = [o \in {} |-> o]

\* The role of the organization is not looked at.
IsOrganizationApproved(o) == o \in DOMAIN organizations /\ organizations[o].status = "APPROVED"

RegisterOrganization(o, role) ==
  /\ o \notin DOMAIN organizations
  /\ organizations' = [p \in DOMAIN organizations \cup {o} |->
                         IF p = o THEN [role |-> role, status |-> "PENDING"] ELSE organizations[p]]

\* A status change that the registry allows from the statuses in from only.
ChangeStatus(o, from, status) ==
  /\ o \in DOMAIN organizations
  /\ organizations[o].status \in from
  /\ organizations' = [organizations EXCEPT ![o].status = status]

ApproveOrganization(o) == ChangeStatus(o, {"PENDING", "SUSPENDED"}, "APPROVED")

SuspendOrganization(o) == ChangeStatus(o, {"APPROVED"}, "SUSPENDED")

RevokeOrganization(o) == ChangeStatus(o, {"APPROVED", "SUSPENDED"}, "REVOKED")

OrganizationNext ==
  \E o \in Orgs :
    \/ \E role \in OrgRoles : RegisterOrganization(o, role)
    \/ ApproveOrganization(o)
    \/ SuspendOrganization(o)
    \/ RevokeOrganization(o)
=============================================================================
