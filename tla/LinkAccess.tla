----------------------------- MODULE LinkAccess -----------------------------
(***************************************************************************)
(* Who sees, changes and deletes links (server/utils/access.py, managed.py *)
(* and the routes of server/app/urls.py and campaigns.py that ask them),   *)
(* and the audit of what service accounts do (server/utils/audit.py).      *)
(*                                                                         *)
(* A request is authenticated, then reads the caller's membership (their   *)
(* Viewer), then does what it is for: memberships change in between.       *)
(*                                                                         *)
(* Abstracted: one organization; codes and domains (ShortCodes); what a    *)
(* change sets (Previews, LinkVisits, Tags).  A campaign's link stands for *)
(* the campaign too.  Owner is one of the owners, who stays (OrgRoles).    *)
(***************************************************************************)
EXTENDS Naturals, FiniteSets

CONSTANTS
    People,
    Owner,
    Services,
    Links,       \* bound: links ever made
    Requests,    \* requests served at once
    None

VARIABLES
    role,      \* role[u]: in the organization, or "none"
    active,    \* who is not closed
    link,      \* link[l]: the row, or None
    asked,     \* asked[r]: what the request is at
    audit,     \* what service accounts, and owners past them, did to links
    skipped    \* links a removed account changed, which left no row

accessVars == <<role, active, link, asked, audit, skipped>>

Users == People \cup Services
Roles == {"owner", "admin", "member", "none"}
Link  == [by : Users, via : Services \cup {None}, organization : BOOLEAN, campaign : BOOLEAN]

\* What the constants are assumed to be, where the module is instantiated.
AccessAssumption ==
    /\ Owner \in People /\ People \cap Services = {}
    /\ None \notin Users \cup Link

\* A row's target is the link, its campaign, or one of its rules.
Event == [target : {"url", "campaign", "redirect_rule"}, link : Links,
          did : {"created", "updated", "deleted", "override"}, by : Users]

Ops  == {"create", "read", "change", "delete", "tag", "override", "adopt"}
Asked == [step : {"idle", "authenticated", "viewing"}, op : Ops, user : Users, for : Users,
          role : Roles]

AccessTypeOK ==
    /\ role \in [Users -> Roles]
    /\ active \subseteq Users
    /\ link \in [Links -> Link \cup {None}]
    /\ asked \in [Requests -> Asked]
    /\ audit \subseteq Event
    /\ skipped \subseteq Links

Idle == [step |-> "idle", op |-> "read", user |-> Owner, for |-> Owner, role |-> "none"]

AccessInit ==
    /\ role \in [Users -> {"owner", "member"}]
    /\ \A u \in Users : role[u] = "owner" <=> u = Owner
    /\ active = Users
    /\ link = [l \in Links |-> None]
    /\ asked = [r \in Requests |-> Idle]
    /\ audit = {}
    /\ skipped = {}

-----------------------------------------------------------------------------
(* A viewer, of link x: who they are and the role that was read.            *)

Viewer(u, r) == [user |-> u, role |-> r]

IsManaged(x)      == x.via # None /\ ~x.campaign
IsManager(who, x) == IsManaged(x) /\ x.via = who.user

Belongs(who) == who.role # "none"

Sees(who, x) ==
    \/ x.organization /\ Belongs(who)
    \/ ~x.organization /\ x.by = who.user

CreatorOrAdmin(who, x) ==
    \/ x.by = who.user
    \/ x.via = who.user
    \/ x.organization /\ who.role \in {"admin", "owner"}

OwnsIt(who, x) == who.role = "owner" /\ x.organization

\* An owner does what its manager does: a wrong version.
OwnersOwn(who, x) == IF IsManaged(x) THEN IsManager(who, x) \/ OwnsIt(who, x) ELSE CreatorOrAdmin(who, x)

CanChange(who, x) == IF IsManaged(x) THEN IsManager(who, x) ELSE CreatorOrAdmin(who, x)

\* A campaign has no column for the service account that made it.
CanChangeCampaign(who, x) == CreatorOrAdmin(who, [x EXCEPT !.via = None])

CanChangeTags(who, x) == CreatorOrAdmin(who, x)

MayOverride(who, x) == who.user \in People /\ OwnsIt(who, x) /\ IsManaged(x)

SeesDestination(who, x) == ~IsManaged(x) \/ IsManager(who, x) \/ OwnsIt(who, x)

\* The same in the list's search, as SQL: a clause of its own.
DestinationVisible(who, x) ==
    \/ x.via = None \/ x.campaign
    \/ x.via = who.user
    \/ who.role = "owner" /\ x.organization

\* Personal when asked, whoever asks: a wrong version.
AsAsked(who, visibility) == visibility # "personal" /\ Belongs(who)

OrganizationFor(who, visibility) ==
    IF who.user \in Services THEN Belongs(who) ELSE visibility # "personal" /\ Belongs(who)

-----------------------------------------------------------------------------
(* Requests.                                                                *)

\* A session, a key or a service token; only a service acts for somebody (acting_for).
Authenticate(r) ==
    /\ asked[r].step = "idle"
    /\ \E u \in active, op \in Ops :
        \E p \in IF u \in Services /\ op = "create" THEN {u} \cup (People \cap active) ELSE {u} :
            /\ p # u => role[u] # "none" /\ role[p] # "none"
            /\ u \in Services => op \notin {"override", "adopt"}
            /\ asked' = [asked EXCEPT ![r] = [step |-> "authenticated", op |-> op, user |-> u,
                                              for |-> p, role |-> "none"]]
    /\ UNCHANGED <<role, active, link, audit, skipped>>

ReadViewer(r) ==
    /\ asked[r].step = "authenticated"
    /\ asked' = [asked EXCEPT ![r] = [@ EXCEPT !.step = "viewing", !.role = role[asked[r].user]]]
    /\ UNCHANGED <<role, active, link, audit, skipped>>

Who(r) == Viewer(asked[r].user, asked[r].role)

Doing(r, op) == asked[r].step = "viewing" /\ asked[r].op = op

Ends(r) == asked' = [asked EXCEPT ![r] = Idle]

\* A row for what a service account does, in the same transaction: none once it was removed.
Record(target, l, did, u) ==
    /\ audit' = IF u \in Services /\ role[u] # "none"
                THEN audit \cup {[target |-> target, link |-> l, did |-> did, by |-> u]} ELSE audit
    /\ skipped' = IF u \in Services /\ role[u] = "none" THEN skipped \cup {l} ELSE skipped

Kind(campaign) == IF campaign THEN "campaign" ELSE "url"

Make(r, campaign) ==
    /\ Doing(r, "create")
    /\ \E l \in Links, visibility \in {"organization", "personal"} :
        /\ link[l] = None
        /\ \A e \in audit : e.link # l
        /\ l \notin skipped
        /\ link' = [link EXCEPT ![l] =
                [by |-> asked[r].for,
                 via |-> IF asked[r].user \in Services THEN asked[r].user ELSE None,
                 organization |-> OrganizationFor(Who(r), visibility), campaign |-> campaign]]
        /\ Record(Kind(campaign), l, "created", asked[r].user)
    /\ Ends(r)
    /\ UNCHANGED <<role, active>>

CreateLink(r)     == Make(r, FALSE)
CreateCampaign(r) == Make(r, TRUE)

SeenBy(who) == {l \in Links : link[l] # None /\ Sees(who, link[l])}

Found(r) == SeenBy(Who(r))

\* A 404 for what they do not see, a 403 for what they see and may not change: nothing happens.
Refused(r) ==
    /\ asked[r].step = "viewing"
    /\ asked[r].op \in {"change", "delete", "tag", "override", "read", "create"}
    /\ Ends(r)
    /\ UNCHANGED <<role, active, link, audit, skipped>>

\* A campaign's links are what their campaign makes them, but for their rules and previews.
UpdateLink(r) ==
    /\ Doing(r, "change")
    /\ \E l \in Found(r) :
        /\ CanChange(Who(r), link[l])
        /\ ~link[l].campaign
        /\ Record("url", l, "updated", asked[r].user)
    /\ Ends(r)
    /\ UNCHANGED <<role, active, link>>

ChangeRules(r) ==
    /\ Doing(r, "change")
    /\ \E l \in Found(r) :
        /\ CanChange(Who(r), link[l])
        /\ Record("redirect_rule", l, "updated", asked[r].user)
    /\ Ends(r)
    /\ UNCHANGED <<role, active, link>>

\* The MCP server's tool, for people: no row is left, as none would be of them.
AddRuleByTool(r) ==
    /\ Doing(r, "change")
    /\ asked[r].user \in People
    /\ \E l \in Found(r) : CanChange(Who(r), link[l])
    /\ Ends(r)
    /\ UNCHANGED <<role, active, link, audit, skipped>>

\* Nothing of the link's own changes, and no row is left.
RefreshPreview(r) ==
    /\ Doing(r, "change")
    /\ \E l \in Found(r) : CanChange(Who(r), link[l])
    /\ Ends(r)
    /\ UNCHANGED <<role, active, link, audit, skipped>>

ChangeTags(r) ==
    /\ Doing(r, "tag")
    /\ \E l \in Found(r) :
        /\ CanChangeTags(Who(r), link[l])
        /\ Record("url", l, "updated", asked[r].user)
    /\ Ends(r)
    /\ UNCHANGED <<role, active, link>>

\* A campaign's tags, and with them its links'.
ChangeCampaignTags(r) ==
    /\ Doing(r, "tag")
    /\ \E l \in Found(r) :
        /\ link[l].campaign /\ CanChangeCampaign(Who(r), link[l])
        /\ Record("campaign", l, "updated", asked[r].user)
    /\ Ends(r)
    /\ UNCHANGED <<role, active, link>>

\* A link goes by itself, and a campaign's with it.
MayRemove(who, x) == IF x.campaign THEN CanChangeCampaign(who, x) ELSE CanChange(who, x)

RemoveLinks(r, campaign) ==
    /\ Doing(r, "delete")
    /\ \E l \in Found(r) :
        /\ link[l].campaign = campaign
        /\ MayRemove(Who(r), link[l])
        /\ Record(Kind(campaign), l, "deleted", asked[r].user)
        /\ link' = [link EXCEPT ![l] = None]
    /\ Ends(r)
    /\ UNCHANGED <<role, active>>

DeleteLink(r)     == RemoveLinks(r, FALSE)
DeleteCampaign(r) == RemoveLinks(r, TRUE)

OverrideDelete(r) ==
    /\ Doing(r, "override")
    /\ \E l \in Found(r) :
        /\ MayOverride(Who(r), link[l])
        /\ audit' = audit \cup {[target |-> "url", link |-> l, did |-> "override", by |-> asked[r].user]}
        /\ link' = [link EXCEPT ![l] = None]
    /\ Ends(r)
    /\ UNCHANGED <<role, active, skipped>>

\* An owner moves the personal links of somebody whose account is closed to the organization.
Adopts(x, u) == x # None /\ x.by = u /\ ~x.organization

Adopt(r) ==
    /\ Doing(r, "adopt")
    /\ \/ /\ asked[r].role = "owner"
          /\ \E u \in People \ active :
                link' = [l \in Links |-> IF Adopts(link[l], u) THEN [link[l] EXCEPT !.organization = TRUE]
                                         ELSE link[l]]
       \/ UNCHANGED link
    /\ Ends(r)
    /\ UNCHANGED <<role, active, audit, skipped>>

-----------------------------------------------------------------------------
(* What is read of the links, of one moment.  match[l] is where the text    *)
(* searched for is in link l; f is what else a list is asked for: links     *)
(* that are managed, or not; by which account; made by which.               *)

Places  == {"name", "destination"}
Filters == [managed : {"any", "exclude", "only"}, by : Services \cup {None}, via : Services \cup {None}]

\* A destination that is not shown is masked: its host and no more.
Shown(who, l) == [link |-> l, destination |-> SeesDestination(who, link[l])]

Matches(who, x, places) ==
    \/ "name" \in places
    \/ "destination" \in places /\ DestinationVisible(who, x)

IsAskedFor(x, f) ==
    /\ f.managed = "exclude" => (x.via = None \/ x.campaign)
    /\ f.managed = "only" => IsManaged(x)
    /\ f.by # None => IsManaged(x) /\ x.via = f.by
    /\ f.via # None => x.via = f.via

ListUrls(who, match, f) ==
    {Shown(who, l) : l \in {k \in SeenBy(who) : Matches(who, link[k], match[k]) /\ IsAskedFor(link[k], f)}}

GetUrl(who, l) == IF l \in SeenBy(who) THEN {Shown(who, l)} ELSE {}

Managed(who, a) == {l \in SeenBy(who) : IsManaged(link[l]) /\ link[l].via = a}

\* The dashboard's tabs.
ListLinkManagers(who) == {[account |-> a, links |-> Managed(who, a)] : a \in {b \in Services : Managed(who, b) # {}}}

\* A campaign's rows hold their destination as it is, on the screen and in the CSV.
ListCampaigns(who) == {l \in SeenBy(who) : link[l].campaign}

GetCampaign(who, l) == IF l \in ListCampaigns(who) THEN {[link |-> l, destination |-> TRUE]} ELSE {}

\* What a service account made, for owners and admins.
ListServiceAccountLinks(who, a) ==
    IF who.role \in {"owner", "admin"} THEN {Shown(who, l) : l \in {k \in SeenBy(who) : link[k].via = a}} ELSE {}

\* A link's row names it, if the reader may see it now; a campaign's, or a rule's, names none.
AuditItems(who) == {[event |-> e, named |-> e.target = "url" /\ e.link \in SeenBy(who)] : e \in audit}

-----------------------------------------------------------------------------
(* Meanwhile.                                                               *)

ChangeRole ==
    /\ \E u \in Users \ {Owner}, to \in Roles \ {"none"} :
        /\ role[u] \notin {"none", to}
        /\ u \in Services => to # "owner"
        /\ role' = [role EXCEPT ![u] = to]
    /\ UNCHANGED <<active, link, asked, audit, skipped>>

\* Removing somebody, or a service account, closes their account.
RemoveUser ==
    /\ \E u \in Users \ {Owner} :
        /\ role[u] # "none"
        /\ role' = [role EXCEPT ![u] = "none"]
        /\ active' = active \ {u}
    /\ UNCHANGED <<link, asked, audit, skipped>>

AccessNext ==
    \/ \E r \in Requests :
        \/ Authenticate(r) \/ ReadViewer(r) \/ Refused(r)
        \/ CreateLink(r) \/ CreateCampaign(r) \/ UpdateLink(r) \/ ChangeRules(r) \/ AddRuleByTool(r)
        \/ RefreshPreview(r) \/ ChangeTags(r) \/ ChangeCampaignTags(r) \/ DeleteLink(r) \/ DeleteCampaign(r)
        \/ OverrideDelete(r) \/ Adopt(r)
    \/ ChangeRole \/ RemoveUser

AccessSpec == AccessInit /\ [][AccessNext]_accessVars

-----------------------------------------------------------------------------
(* Properties.                                                              *)

Now(u) == Viewer(u, role[u])

MayDelete(u, x) == Sees(Now(u), x) /\ (MayRemove(Now(u), x) \/ MayOverride(Now(u), x))

\* Every link has somebody who may delete it, whoever leaves: its creator or manager, an admin, an
\* owner past a manager that was removed ("its links stay protected, and only an owner's audited
\* override deletes them"), or an owner who adopts it first.  But for a service account's that is
\* no organization's: made as the account was removed, after its token was accepted.
LinksCanBeDeleted ==
    \A l \in Links : link[l] # None =>
        \/ \E u \in active : MayDelete(u, link[l])
        \/ link[l].by \in People \ active /\ ~link[l].organization
        \/ link[l].via # None /\ ~link[l].organization /\ role[link[l].via] = "none"

\* A managed link goes only by its manager's hand or past it by an owner's, and leaves a row in
\* the audit either way, unless its manager was removed after its token was accepted.
ManagedLinksLeaveATrace ==
    [][\A l \in Links : (link[l] # None /\ IsManaged(link[l]) /\ link'[l] = None) =>
            \/ [target |-> "url", link |-> l, did |-> "deleted", by |-> link[l].via] \in audit' \ audit
            \/ \E u \in People : [target |-> "url", link |-> l, did |-> "override", by |-> u] \in audit' \ audit
            \/ l \in skipped' /\ role[link[l].via] = "none"]_accessVars

\* A search tells nothing of a destination that its reader gets masked: the answer is the same
\* whether the text is in it or not; and it finds every link whose destination, shown, has it
\* (the rule is written once in SQL and once in Python: urls.py and managed.py).
SearchTellsNothingHidden ==
    \A u \in Users, read \in Roles, f \in Filters, one, other \in [Links -> SUBSET Places] :
        LET who == Viewer(u, read)
            hidden(l) == link[l] # None /\ ~SeesDestination(who, link[l])
        IN  /\ (\A l \in Links : IF hidden(l) THEN "name" \in one[l] <=> "name" \in other[l] ELSE one[l] = other[l])
                    => ListUrls(who, one, f) = ListUrls(who, other, f)
            /\ \A l \in SeenBy(who) :
                    ("destination" \in one[l] /\ ~hidden(l) /\ IsAskedFor(link[l], f)) =>
                        Shown(who, l) \in ListUrls(who, one, f)

Everything == [l \in Links |-> Places]
Only(managed, by) == [managed |-> managed, by |-> by, via |-> None]

\* The tabs and the audit tell one story (urls.py, campaigns.py, service_accounts.py: four queries
\* and a history): a managed link on its account's tab has the row of its making, by that account
\* and naming it, whatever was done since, unless the account was removed as it made it; no row of
\* a link's end names one; what an account's page lists is on its tab or is of a campaign, whose
\* pages show nothing that the list masks.
TabsAndAuditAgree ==
    \A u \in Users, read \in Roles :
        LET who  == Viewer(u, read)
            tab(by) == ListUrls(who, Everything, Only("any", by))
            rest == ListUrls(who, Everything, Only("exclude", None))
        IN  /\ \A m \in ListLinkManagers(who) : \A l \in m.links :
                    l \in skipped \/ \E item \in AuditItems(who) :
                        /\ item.named /\ item.event.link = l
                        /\ item.event.did = "created" /\ item.event.by = m.account
            /\ \A item \in AuditItems(who) : item.named => item.event.did \notin {"deleted", "override"}
            /\ \A a \in Services : ListServiceAccountLinks(who, a) \subseteq
                    tab(a) \cup UNION {GetCampaign(who, l) : l \in Links}
            /\ \A l \in Links : GetCampaign(who, l) \subseteq rest
=============================================================================
