------------------------------ MODULE OrgRules ------------------------------
(***************************************************************************)
(* The rules for the organization's roles, one change at a time: what      *)
(* server/utils/organization.py promises.  OrgRoles.tla is how requests    *)
(* carry them out, a SELECT and an UPDATE at a time.                       *)
(***************************************************************************)
EXTENDS Integers

CONSTANTS
    People,     \* the people with an address on the organization's domain
    Bootstrap,  \* the one `bootstrap_owner_email` names; None when it names nobody
    None        \* no row

ASSUME OrgRulesAssumption ==
    /\ People # {}
    /\ Bootstrap \in People \cup {None}
    /\ None \notin People \cup {"member", "admin", "owner"}

VARIABLES
    role,     \* role[p]: the role of p's row in `organization_members`; None without one
    account   \* account[p]: "none", "open" (is_active) or "closed"

Member == "member"
Admin  == "admin"
Owner  == "owner"
Roles  == {Member, Admin, Owner}
Rank   == [r \in Roles |-> IF r = Owner THEN 2 ELSE IF r = Admin THEN 1 ELSE 0]

ActiveOwners == {p \in People : role[p] = Owner /\ account[p] = "open"}

RulesInit ==
    /\ account \in [People -> {"none", "open", "closed"}]
    /\ role \in [People -> Roles \cup {None}]
    /\ \A p \in People : role[p] # None => account[p] = "open"
    /\ ActiveOwners # {}

StepsDown(p) ==
    \E new \in Roles :
        /\ role[p] # None
        /\ Rank[new] < Rank[role[p]]
        /\ role[p] = Owner => ActiveOwners # {p}
        /\ role' = [role EXCEPT ![p] = new]
        /\ UNCHANGED account

ChangesRoleOf(actor, p) ==
    \E new \in Roles :
        /\ role[actor] = Owner
        /\ actor # p
        /\ role[p] \in {Member, Admin}
        /\ role' = [role EXCEPT ![p] = new]
        /\ UNCHANGED account

HandsOver(actor, p) ==
    /\ role[actor] = Owner
    /\ actor # p
    /\ role[p] # None
    /\ role' = [role EXCEPT ![p] = Owner, ![actor] = Admin]
    /\ UNCHANGED account

Removes(actor, p) ==
    /\ role[actor] \in {Admin, Owner}
    /\ role[p] # None
    /\ Rank[role[p]] < Rank[role[actor]]
    /\ role' = [role EXCEPT ![p] = None]
    /\ account' = [account EXCEPT ![p] = "closed"]

RoleOnJoining(p) == IF p = Bootstrap /\ ActiveOwners = {} THEN Owner ELSE Member

SignsUp(p) ==
    /\ account[p] = "none"
    /\ account' = [account EXCEPT ![p] = "open"]
    /\ role' = [role EXCEPT ![p] = RoleOnJoining(p)]

\* The open accounts without a membership join when a task starts.
OpenAccountsJoin ==
    /\ role' = [p \in People |->
                   IF role[p] = None /\ account[p] = "open" THEN RoleOnJoining(p) ELSE role[p]]
    /\ UNCHANGED account

RulesNext ==
    \/ OpenAccountsJoin
    \/ \E p \in People :
          \/ StepsDown(p) \/ SignsUp(p)
          \/ \E actor \in People : ChangesRoleOf(actor, p) \/ HandsOver(actor, p) \/ Removes(actor, p)

RulesSpec == RulesInit /\ [][RulesNext]_<<role, account>>

\* "there is always at least one" owner (server/utils/organization.py): change_role refuses the
\* last owner's step down, and a handover makes an owner before it unmakes one.
AtLeastOneOwner == ActiveOwners # {}

=============================================================================
