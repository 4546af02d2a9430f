--------------------------- MODULE ReadingsProofs ---------------------------
(***************************************************************************)
(* Theorems of the parts MCReadings runs: LinkAccess, for any people,      *)
(* services, links and requests; Redirects, for any rules and visitors;    *)
(* McpAccess, for any people, tokens, tasks and calls; Analytics, for any  *)
(* links, visits and queries; Pages, for any rows and size of a page; and  *)
(* Moving, for any links, visits, size of a page and recovery budget.      *)
(***************************************************************************)
EXTENDS LinkAccess, Redirects, McpAccess, Analytics, Pages, Moving, FiniteSetTheorems,
        SequenceTheorems, WellFoundedInduction, TLAPS

-----------------------------------------------------------------------------
(* Who sees, changes and deletes links.                                     *)

\* Owner stays, whoever else leaves.
OwnerStays == Owner \in active /\ role[Owner] = "owner"

\* A person acts for themselves; who was no member when they were looked up is none now.
RequestSound(r) ==
    /\ asked[r].user \in People => asked[r].for = asked[r].user
    /\ (asked[r].step = "viewing" /\ asked[r].role = "none") => role[asked[r].user] = "none"

\* A link that is no organization's is a person's own, or of a service account that was removed.
LinkSound(x) ==
    /\ x.via = None => x.by \in People
    /\ (~x.organization /\ x.via # None) => role[x.via] = "none"

\* A link that went is not there, nor made again.
GoneIsGone == \A e \in audit : e.did \in {"deleted", "override"} => link[e.link] = None

\* A link that a service account made has the row of its making, unless it was removed as it did.
MakingIsRecorded(l) ==
    (link[l] # None /\ link[l].via # None) =>
        \/ l \in skipped
        \/ [target |-> Kind(link[l].campaign), link |-> l, did |-> "created", by |-> link[l].via] \in audit

AccessInv ==
    /\ AccessTypeOK
    /\ OwnerStays
    /\ \A r \in Requests : RequestSound(r)
    /\ \A l \in Links : link[l] # None => LinkSound(link[l])
    /\ GoneIsGone
    /\ \A l \in Links : MakingIsRecorded(l)

-----------------------------------------------------------------------------
LEMMA IdleType ==
    ASSUME AccessAssumption
    PROVE  Idle \in Asked /\ Owner \in Users /\ None \notin Link /\ None \notin Services
  BY DEF AccessAssumption, Idle, Asked, Users, Ops, Roles

LEMMA InitInv ==
    ASSUME AccessAssumption, AccessInit
    PROVE  AccessInv
  <1>1. AccessTypeOK
    <2>1. role \in [Users -> Roles]
      BY DEF AccessInit, Roles
    <2>2. link \in [Links -> Link \cup {None}]
      BY DEF AccessInit
    <2>3. asked \in [Requests -> Asked]
      BY IdleType DEF AccessInit
    <2> QED  BY <2>1, <2>2, <2>3 DEF AccessInit, AccessTypeOK
  <1>2. OwnerStays
    BY IdleType DEF AccessInit, OwnerStays
  <1>3. \A r \in Requests : RequestSound(r)
    BY DEF AccessInit, RequestSound, Idle
  <1> QED
    BY <1>1, <1>2, <1>3 DEF AccessInit, AccessInv, GoneIsGone, MakingIsRecorded

-----------------------------------------------------------------------------
(* The parts of a step.                                                     *)

\* A request that ends is sound, while nobody's role changes.
LEMMA EndsSound ==
    ASSUME AccessAssumption, AccessInv, NEW r \in Requests, Ends(r), UNCHANGED role
    PROVE  asked' \in [Requests -> Asked] /\ \A q \in Requests : RequestSound(q)'
  <1>1. asked' \in [Requests -> Asked]
    BY IdleType DEF Ends, AccessInv, AccessTypeOK
  <1>2. ASSUME NEW q \in Requests PROVE RequestSound(q)'
    <2>1. CASE q = r
      <3>1. asked'[q] = Idle
        BY <2>1 DEF Ends, AccessInv, AccessTypeOK
      <3> QED  BY <3>1 DEF RequestSound, Idle
    <2>2. CASE q # r
      <3>1. asked'[q] = asked[q]
        BY <2>2 DEF Ends, AccessInv, AccessTypeOK
      <3> QED  BY <3>1 DEF RequestSound, AccessInv
    <2> QED  BY <2>1, <2>2
  <1> QED  BY <1>1, <1>2

\* What is recorded is of link l and typed.
LEMMA RecordType ==
    ASSUME AccessTypeOK, NEW target \in {"url", "campaign", "redirect_rule"}, NEW l \in Links,
           NEW did \in {"created", "updated", "deleted"}, NEW u \in Users, Record(target, l, did, u)
    PROVE  /\ audit' \subseteq Event /\ skipped' \subseteq Links
           /\ audit \subseteq audit' /\ skipped \subseteq skipped'
           /\ \A e \in audit' : e \in audit \/ (e.link = l /\ e.did = did)
  <1>1. [target |-> target, link |-> l, did |-> did, by |-> u] \in Event
    BY DEF Event
  <1> QED  BY <1>1 DEF Record, AccessTypeOK

\* A link that stays as it was has the row it had.
LEMMA StillRecorded ==
    ASSUME NEW l, MakingIsRecorded(l), audit \subseteq audit', skipped \subseteq skipped',
           link'[l] # None => /\ link[l] # None /\ link'[l].via = link[l].via
                              /\ link'[l].campaign = link[l].campaign
    PROVE  MakingIsRecorded(l)'
  BY DEF MakingIsRecorded, Kind

\* A step that ends a request and changes no row keeps the invariant, whatever it records of a link.
LEMMA RowsStay ==
    ASSUME AccessAssumption, AccessInv, NEW r \in Requests, Ends(r), UNCHANGED <<role, active, link>>,
           audit' \subseteq Event, skipped' \subseteq Links, audit \subseteq audit', skipped \subseteq skipped',
           \A e \in audit' : e \in audit \/ e.did \notin {"deleted", "override"}
    PROVE  AccessInv'
  <1>1. AccessTypeOK'
    BY EndsSound DEF AccessInv, AccessTypeOK
  <1>2. OwnerStays' /\ (\A l \in Links : link'[l] # None => LinkSound(link[l])')
    BY DEF AccessInv, OwnerStays, LinkSound
  <1>3. GoneIsGone'
    BY DEF AccessInv, GoneIsGone
  <1>4. \A l \in Links : MakingIsRecorded(l)'
    BY StillRecorded DEF AccessInv
  <1> QED  BY <1>1, <1>2, <1>3, <1>4, EndsSound DEF AccessInv

\* A row that goes leaves the others sound.
LEMMA RowGoes ==
    ASSUME AccessAssumption, AccessInv, NEW r \in Requests, Ends(r), UNCHANGED <<role, active>>,
           NEW l \in Links, link' = [link EXCEPT ![l] = None],
           audit' \subseteq Event, skipped' \subseteq Links, audit \subseteq audit', skipped \subseteq skipped',
           \A e \in audit' : e \in audit \/ e.link = l
    PROVE  AccessInv'
  <1>1. /\ link' \in [Links -> Link \cup {None}]
        /\ link'[l] = None /\ \A k \in Links : k # l => link'[k] = link[k]
    BY DEF AccessInv, AccessTypeOK
  <1>2. AccessTypeOK'
    BY <1>1, EndsSound DEF AccessInv, AccessTypeOK
  <1>3. OwnerStays'
    BY DEF AccessInv, OwnerStays
  <1>4. ASSUME NEW k \in Links, link'[k] # None PROVE LinkSound(link[k])'
    BY <1>1, <1>4 DEF AccessInv, LinkSound
  <1>5. ASSUME NEW e \in audit', e.did \in {"deleted", "override"} PROVE link'[e.link] = None
    <2>1. e \in Event /\ e.link \in Links
      BY DEF Event
    <2> QED  BY <1>1, <1>5, <2>1 DEF AccessInv, GoneIsGone
  <1>6. \A k \in Links : MakingIsRecorded(k)'
    <2> SUFFICES ASSUME NEW k \in Links PROVE MakingIsRecorded(k)'
      OBVIOUS
    <2>1. link'[k] # None => link'[k] = link[k]  BY <1>1
    <2> QED  BY <2>1, StillRecorded DEF AccessInv
  <1> QED  BY <1>2, <1>3, <1>4, <1>5, <1>6, EndsSound DEF AccessInv, GoneIsGone

-----------------------------------------------------------------------------
(* The steps.                                                               *)

\* Requests change, and nothing else: those that do stay sound.
LEMMA AskedChanges ==
    ASSUME AccessAssumption, AccessInv, NEW r \in Requests, NEW a \in Asked,
           asked' = [asked EXCEPT ![r] = a], UNCHANGED <<role, active, link, audit, skipped>>,
           a.user \in People => a.for = a.user,
           (a.step = "viewing" /\ a.role = "none") => role[a.user] = "none"
    PROVE  AccessInv'
  <1>1. /\ asked' \in [Requests -> Asked] /\ asked'[r] = a
        /\ \A q \in Requests : q # r => asked'[q] = asked[q]
    BY DEF AccessInv, AccessTypeOK
  <1>2. \A q \in Requests : RequestSound(q)'
    BY <1>1 DEF AccessInv, RequestSound
  <1> QED
    BY <1>1, <1>2 DEF AccessInv, AccessTypeOK, OwnerStays, LinkSound, GoneIsGone, MakingIsRecorded

LEMMA AuthenticateInv ==
    ASSUME AccessAssumption, AccessInv, NEW r \in Requests, Authenticate(r)
    PROVE  AccessInv'
  <1>1. PICK u \in active, op \in Ops :
            \E p \in IF u \in Services /\ op = "create" THEN {u} \cup (People \cap active) ELSE {u} :
                asked' = [asked EXCEPT ![r] = [step |-> "authenticated", op |-> op, user |-> u,
                                               for |-> p, role |-> "none"]]
    BY DEF Authenticate
  <1>2. PICK p \in IF u \in Services /\ op = "create" THEN {u} \cup (People \cap active) ELSE {u} :
            asked' = [asked EXCEPT ![r] = [step |-> "authenticated", op |-> op, user |-> u,
                                           for |-> p, role |-> "none"]]
    BY <1>1
  <1> DEFINE a == [step |-> "authenticated", op |-> op, user |-> u, for |-> p, role |-> "none"]
  <1>3. u \in Users /\ p \in Users /\ (u \in People => p = u)
    BY AccessAssumption DEF AccessInv, AccessTypeOK, AccessAssumption, Users
  <1>4. a \in Asked
    BY <1>3 DEF Asked, Roles
  <1>5. asked' = [asked EXCEPT ![r] = a] /\ a.user = u /\ a.for = p /\ a.step = "authenticated"
    BY <1>2
  <1> HIDE DEF a
  <1> QED
    BY <1>3, <1>4, <1>5, AskedChanges DEF Authenticate

LEMMA ReadViewerInv ==
    ASSUME AccessAssumption, AccessInv, NEW r \in Requests, ReadViewer(r)
    PROVE  AccessInv'
  <1> DEFINE q == asked[r]
             a == [q EXCEPT !.step = "viewing", !.role = role[q.user]]
  <1>1. q \in Asked
    BY DEF AccessInv, AccessTypeOK
  <1>2. q.user \in Users /\ role[q.user] \in Roles
    BY <1>1 DEF Asked, AccessInv, AccessTypeOK
  <1>3. a \in Asked
    BY <1>1, <1>2 DEF Asked
  <1>4. a.user = q.user /\ a.for = q.for /\ a.role = role[q.user]
    BY <1>1 DEF Asked
  <1>5. asked' = [asked EXCEPT ![r] = a]
    BY DEF ReadViewer, AccessInv, AccessTypeOK
  <1>6. a.user \in People => a.for = a.user
    BY <1>4 DEF AccessInv, RequestSound
  <1>7. a.role = role[a.user]
    BY <1>4
  <1> HIDE DEF a, q
  <1> QED
    BY <1>3, <1>5, <1>6, <1>7, AskedChanges DEF ReadViewer

LEMMA MakeInv ==
    ASSUME AccessAssumption, AccessInv, NEW r \in Requests, NEW campaign \in BOOLEAN, Make(r, campaign)
    PROVE  AccessInv'
  <1> DEFINE q == asked[r]
             row(visibility) ==
                [by |-> q.for, via |-> IF q.user \in Services THEN q.user ELSE None,
                 organization |-> OrganizationFor(Who(r), visibility), campaign |-> campaign]
  <1>1. PICK l \in Links, visibility \in {"organization", "personal"} :
            /\ link[l] = None /\ \A e \in audit : e.link # l
            /\ link' = [link EXCEPT ![l] = row(visibility)]
            /\ Record(Kind(campaign), l, "created", q.user)
    BY DEF Make
  <1>2. q \in Asked /\ q.step = "viewing"
    BY DEF Make, Doing, AccessInv, AccessTypeOK
  <1>3. q.user \in Users /\ q.for \in Users
    BY <1>2 DEF Asked
  <1>4. OrganizationFor(Who(r), visibility) \in BOOLEAN
    BY DEF OrganizationFor, Belongs
  <1>5. row(visibility) \in Link
    BY <1>3, <1>4 DEF Link
  <1>6. LinkSound(row(visibility))
    <2>1. q.user \notin Services => q.for \in People
      BY <1>3 DEF Users, AccessInv, RequestSound
    <2>2. (q.user \in Services /\ ~OrganizationFor(Who(r), visibility)) => role[q.user] = "none"
      BY <1>2 DEF OrganizationFor, Belongs, Who, Viewer, AccessInv, RequestSound
    <2> QED  BY <2>1, <2>2, IdleType DEF LinkSound
  <1> HIDE DEF row
  <1>7. UNCHANGED <<role, active>> /\ Ends(r)
    BY DEF Make
  <1>8. /\ link' \in [Links -> Link \cup {None}]
        /\ link'[l] = row(visibility) /\ \A k \in Links : k # l => link'[k] = link[k]
    BY <1>1, <1>5 DEF AccessInv, AccessTypeOK
  <1>9. /\ audit' \subseteq Event /\ skipped' \subseteq Links
        /\ audit \subseteq audit' /\ skipped \subseteq skipped'
        /\ \A e \in audit' : e \in audit \/ e.did = "created"
    BY <1>1, <1>3, RecordType DEF AccessInv, Kind
  <1>10. AccessTypeOK'
    BY <1>7, <1>8, <1>9, EndsSound DEF AccessInv, AccessTypeOK
  <1>11. ASSUME NEW k \in Links, link'[k] # None PROVE LinkSound(link[k])'
    BY <1>6, <1>7, <1>8, <1>11 DEF AccessInv, LinkSound
  <1>12. ASSUME NEW e \in audit', e.did \in {"deleted", "override"} PROVE link'[e.link] = None
    <2>1. e \in audit /\ e.link \in Links
      BY <1>9, <1>12 DEF Event
    <2> QED  BY <1>1, <1>8, <1>12, <2>1 DEF AccessInv, GoneIsGone
  <1>13. ASSUME NEW k \in Links PROVE MakingIsRecorded(k)'
    <2>1. CASE k # l
      BY <1>8, <1>9, <2>1, StillRecorded DEF AccessInv
    <2>2. CASE k = l
      <3>1. /\ link'[l].via = IF q.user \in Services THEN q.user ELSE None
            /\ link'[l].campaign = campaign
        BY <1>8 DEF row
      <3>2. link'[l].via # None => q.user \in Services /\ link'[l].via = q.user
        BY <3>1
      <3>3. q.user \in Services =>
               \/ l \in skipped'
               \/ [target |-> Kind(campaign), link |-> l, did |-> "created", by |-> q.user] \in audit'
        BY <1>1 DEF Record
      <3> QED  BY <2>2, <3>1, <3>2, <3>3 DEF MakingIsRecorded
    <2> QED  BY <2>1, <2>2
  <1> QED
    BY <1>7, <1>10, <1>11, <1>12, <1>13, EndsSound DEF AccessInv, OwnerStays, GoneIsGone

\* A request that is viewing may record something of a link it finds.
LEMMA AsksType ==
    ASSUME AccessInv, NEW r \in Requests
    PROVE  asked[r].user \in Users /\ Found(r) \subseteq Links
  BY DEF AccessInv, AccessTypeOK, Asked, Found, SeenBy

LEMMA RecordsInv ==
    ASSUME AccessAssumption, AccessInv, NEW r \in Requests,
           UpdateLink(r) \/ ChangeRules(r) \/ ChangeTags(r) \/ ChangeCampaignTags(r)
    PROVE  AccessInv'
  <1>1. PICK l \in Links, target \in {"url", "campaign", "redirect_rule"} :
           Record(target, l, "updated", asked[r].user)
    BY AsksType DEF UpdateLink, ChangeRules, ChangeTags, ChangeCampaignTags
  <1>2. Ends(r) /\ UNCHANGED <<role, active, link>>
    BY DEF UpdateLink, ChangeRules, ChangeTags, ChangeCampaignTags
  <1>3. /\ audit' \subseteq Event /\ skipped' \subseteq Links
        /\ audit \subseteq audit' /\ skipped \subseteq skipped'
        /\ \A e \in audit' : e \in audit \/ e.did = "updated"
    BY <1>1, AsksType, RecordType DEF AccessInv
  <1> QED  BY <1>2, <1>3, RowsStay

LEMMA NothingRecordedInv ==
    ASSUME AccessAssumption, AccessInv, NEW r \in Requests,
           Refused(r) \/ RefreshPreview(r) \/ AddRuleByTool(r)
    PROVE  AccessInv'
  <1>1. Ends(r) /\ UNCHANGED <<role, active, link, audit, skipped>>
    BY DEF Refused, RefreshPreview, AddRuleByTool
  <1> QED  BY <1>1, RowsStay DEF AccessInv, AccessTypeOK

LEMMA RemoveInv ==
    ASSUME AccessAssumption, AccessInv, NEW r \in Requests, NEW campaign \in BOOLEAN, RemoveLinks(r, campaign)
    PROVE  AccessInv'
  <1>1. PICK l \in Links : /\ Record(Kind(campaign), l, "deleted", asked[r].user)
                           /\ link' = [link EXCEPT ![l] = None]
    BY AsksType DEF RemoveLinks
  <1>2. /\ audit' \subseteq Event /\ skipped' \subseteq Links
        /\ audit \subseteq audit' /\ skipped \subseteq skipped'
        /\ \A e \in audit' : e \in audit \/ e.link = l
    BY <1>1, AsksType, RecordType DEF AccessInv, Kind
  <1> QED  BY <1>1, <1>2, RowGoes DEF RemoveLinks

LEMMA OverrideDeleteInv ==
    ASSUME AccessAssumption, AccessInv, NEW r \in Requests, OverrideDelete(r)
    PROVE  AccessInv'
  <1>1. PICK l \in Links :
            /\ audit' = audit \cup {[target |-> "url", link |-> l, did |-> "override", by |-> asked[r].user]}
            /\ link' = [link EXCEPT ![l] = None]
    BY AsksType DEF OverrideDelete
  <1>2. [target |-> "url", link |-> l, did |-> "override", by |-> asked[r].user] \in Event
    BY AsksType DEF Event
  <1>3. audit' \subseteq Event /\ audit \subseteq audit' /\ \A e \in audit' : e \in audit \/ e.link = l
    BY <1>1, <1>2 DEF AccessInv, AccessTypeOK
  <1> QED  BY <1>1, <1>3, RowGoes DEF OverrideDelete, AccessInv, AccessTypeOK

LEMMA AdoptInv ==
    ASSUME AccessAssumption, AccessInv, NEW r \in Requests, Adopt(r)
    PROVE  AccessInv'
  <1>1. Ends(r) /\ UNCHANGED <<role, active, audit, skipped>>
    BY DEF Adopt
  <1>2. CASE UNCHANGED link
    BY <1>1, <1>2, RowsStay DEF AccessInv, AccessTypeOK
  <1>3. CASE ~UNCHANGED link
    <2>1. PICK u \in People :
              link' = [l \in Links |-> IF Adopts(link[l], u) THEN [link[l] EXCEPT !.organization = TRUE] ELSE link[l]]
      BY <1>3 DEF Adopt
    <2>2. ASSUME NEW l \in Links
          PROVE  /\ link'[l] \in Link \cup {None}
                 /\ link[l] = None => link'[l] = None
                 /\ link'[l] # None => LinkSound(link'[l])
                 /\ link'[l] # None => /\ link[l] # None /\ link'[l].via = link[l].via
                                       /\ link'[l].campaign = link[l].campaign
      <3>1. CASE Adopts(link[l], u)
        <4>1. link[l] \in Link /\ link[l] # None
          BY <3>1 DEF Adopts, AccessInv, AccessTypeOK
        <4>2. link'[l] = [link[l] EXCEPT !.organization = TRUE]
          BY <2>1, <3>1
        <4>3. /\ link'[l] \in Link /\ link'[l].organization
              /\ link'[l].via = link[l].via /\ link'[l].by = link[l].by
              /\ link'[l].campaign = link[l].campaign
          BY <4>1, <4>2 DEF Link
        <4> QED  BY <4>1, <4>3 DEF LinkSound, AccessInv
      <3>2. CASE ~Adopts(link[l], u)
        BY <2>1, <3>2 DEF AccessInv, AccessTypeOK
      <3> QED  BY <3>1, <3>2
    <2>3. link' \in [Links -> Link \cup {None}]
      BY <2>1, <2>2
    <2>4. AccessTypeOK'
      BY <1>1, <2>3, EndsSound DEF AccessInv, AccessTypeOK
    <2>5. \A l \in Links : link'[l] # None => LinkSound(link[l])'
      BY <1>1, <2>2 DEF LinkSound
    <2>6. ASSUME NEW e \in audit', e.did \in {"deleted", "override"} PROVE link'[e.link] = None
      <3>1. e \in audit /\ e.link \in Links
        BY <1>1 DEF AccessInv, AccessTypeOK, Event
      <3> QED  BY <2>2, <2>6, <3>1 DEF AccessInv, GoneIsGone
    <2>7. \A l \in Links : MakingIsRecorded(l)'
      BY <1>1, <2>2, StillRecorded DEF AccessInv
    <2> QED
      BY <1>1, <2>4, <2>5, <2>6, <2>7, EndsSound DEF AccessInv, OwnerStays, GoneIsGone
  <1> QED  BY <1>2, <1>3

\* Who is removed, or is no member, stays so; the owner is neither changed nor removed.
LEMMA MembershipInv ==
    ASSUME AccessAssumption, AccessInv, ChangeRole \/ RemoveUser
    PROVE  AccessInv'
  <1>1. /\ role' \in [Users -> Roles] /\ active' \subseteq Users
        /\ \A u \in Users : role[u] = "none" => role'[u] = "none"
    BY DEF ChangeRole, RemoveUser, AccessInv, AccessTypeOK, Roles
  <1>2. OwnerStays'
    BY IdleType DEF ChangeRole, RemoveUser, AccessInv, AccessTypeOK, OwnerStays
  <1>3. UNCHANGED <<link, asked, audit, skipped>>
    BY DEF ChangeRole, RemoveUser
  <1>4. \A r \in Requests : RequestSound(r)'
    BY <1>1, <1>3, AsksType DEF AccessInv, RequestSound
  <1>5. ASSUME NEW l \in Links, link'[l] # None PROVE LinkSound(link[l])'
    <2>1. link[l] \in Link
      BY <1>3, <1>5 DEF AccessInv, AccessTypeOK
    <2>2. link[l].via # None => link[l].via \in Users
      BY <2>1 DEF Link, Users
    <2> QED  BY <1>1, <1>3, <1>5, <2>2 DEF AccessInv, LinkSound
  <1> QED
    BY <1>1, <1>2, <1>3, <1>4, <1>5 DEF AccessInv, AccessTypeOK, GoneIsGone, MakingIsRecorded

LEMMA NextInv ==
    ASSUME AccessAssumption, AccessInv, [AccessNext]_accessVars
    PROVE  AccessInv'
  <1>1. CASE UNCHANGED accessVars
    BY <1>1 DEF accessVars, AccessInv, AccessTypeOK, OwnerStays, RequestSound, LinkSound, GoneIsGone,
              MakingIsRecorded
  <1>2. ASSUME NEW r \in Requests,
               \/ Authenticate(r) \/ ReadViewer(r) \/ Refused(r)
               \/ CreateLink(r) \/ CreateCampaign(r) \/ UpdateLink(r) \/ ChangeRules(r) \/ AddRuleByTool(r)
               \/ RefreshPreview(r) \/ ChangeTags(r) \/ ChangeCampaignTags(r) \/ DeleteLink(r) \/ DeleteCampaign(r)
               \/ OverrideDelete(r) \/ Adopt(r)
        PROVE  AccessInv'
    <2>1. (CreateLink(r) \/ CreateCampaign(r)) => AccessInv'
      BY MakeInv DEF CreateLink, CreateCampaign
    <2>2. (DeleteLink(r) \/ DeleteCampaign(r)) => AccessInv'
      BY RemoveInv DEF DeleteLink, DeleteCampaign
    <2> QED
      BY <1>2, <2>1, <2>2, AuthenticateInv, ReadViewerInv, NothingRecordedInv, RecordsInv, OverrideDeleteInv, AdoptInv
  <1> QED
    BY <1>1, <1>2, MembershipInv DEF AccessNext

-----------------------------------------------------------------------------
(* The theorems.                                                            *)

LEMMA Invariance ==
    ASSUME AccessAssumption
    PROVE  AccessSpec => []AccessInv
  <1>1. AccessInit => AccessInv
    BY InitInv
  <1>2. AccessInv /\ [AccessNext]_accessVars => AccessInv'
    BY NextInv
  <1> QED  BY <1>1, <1>2, PTL DEF AccessSpec

\* The variables keep their types.
THEOREM AccessTypeCorrect ==
    ASSUME AccessAssumption
    PROVE  AccessSpec => []AccessTypeOK
  <1>1. AccessInv => AccessTypeOK
    BY DEF AccessInv
  <1> QED  BY <1>1, Invariance, PTL

LEMMA DeletableLink ==
    ASSUME AccessAssumption, AccessInv, NEW l \in Links, link[l] # None
    PROVE  \/ \E u \in active : MayDelete(u, link[l])
           \/ link[l].by \in People \ active /\ ~link[l].organization
           \/ link[l].via # None /\ ~link[l].organization /\ role[link[l].via] = "none"
  <1>1. link[l] \in Link /\ LinkSound(link[l])
    BY DEF AccessInv, AccessTypeOK
  <1>2. CASE link[l].organization
    \* Owner deletes what is the organization's, past its manager if it has one.
    <2>1. MayDelete(Owner, link[l])
      BY <1>2, AccessAssumption DEF AccessAssumption, MayDelete, Now, Viewer, Sees, Belongs, MayRemove, CanChange,
         CanChangeCampaign, CreatorOrAdmin, Link,
         MayOverride, OwnsIt, AccessInv, OwnerStays
    <2> QED  BY <2>1 DEF AccessInv, OwnerStays
  <1>3. CASE ~link[l].organization /\ link[l].via = None
    <2>1. link[l].by \in active => MayDelete(link[l].by, link[l])
      BY <1>1, <1>3 DEF MayDelete, Now, Viewer, Sees, MayRemove, CanChange, CanChangeCampaign, CreatorOrAdmin,
         IsManaged, Link
    <2> QED  BY <1>1, <1>3, <2>1 DEF LinkSound
  <1>4. CASE ~link[l].organization /\ link[l].via # None
    BY <1>1, <1>4 DEF LinkSound
  <1> QED  BY <1>2, <1>3, <1>4

\* Every link has somebody who may delete it, but for a closed account's personal links and those
\* a service account made, as it was removed, for nobody's organization (LinksCanBeDeleted).
THEOREM LinksAreDeletable ==
    ASSUME AccessAssumption
    PROVE  AccessSpec => []LinksCanBeDeleted
  <1>1. AccessInv => LinksCanBeDeleted
    BY DeletableLink DEF LinksCanBeDeleted
  <1> QED  BY <1>1, Invariance, PTL

\* What is left of a managed link that goes.
LeavesATrace(l) ==
    \/ [target |-> "url", link |-> l, did |-> "deleted", by |-> link[l].via] \in audit' \ audit
    \/ \E u \in People : [target |-> "url", link |-> l, did |-> "override", by |-> u] \in audit' \ audit
    \/ l \in skipped' /\ role[link[l].via] = "none"

LEMMA ManagedLinkGoes ==
    ASSUME AccessAssumption, AccessInv, AccessNext, NEW l \in Links, link[l] # None, IsManaged(link[l]), link'[l] = None
    PROVE  LeavesATrace(l)
  <1>1. link[l] \in Link
    BY DEF AccessInv, AccessTypeOK
  <1>2. \A e \in audit : e.link = l => e.did \notin {"deleted", "override"}
    BY DEF AccessInv, GoneIsGone
  <1>3. ASSUME NEW r \in Requests, NEW campaign \in BOOLEAN, RemoveLinks(r, campaign) PROVE LeavesATrace(l)
    <2>1. PICK k \in Found(r) : /\ link[k].campaign = campaign /\ MayRemove(Who(r), link[k])
                                /\ Record(Kind(campaign), k, "deleted", asked[r].user)
                                /\ link' = [link EXCEPT ![k] = None]
      BY <1>3 DEF RemoveLinks
    <2>2. k = l
      BY <2>1 DEF AccessInv, AccessTypeOK
    <2>3. link[l].via = asked[r].user /\ Kind(campaign) = "url"
      BY <2>1, <2>2 DEF MayRemove, CanChange, IsManaged, IsManager, Who, Viewer, Kind
    <2>4. asked[r].user \in Services
      BY <1>1, <2>3 DEF Link, IsManaged
    <2>5. CASE role[asked[r].user] # "none"
      <3> DEFINE event == [target |-> "url", link |-> l, did |-> "deleted", by |-> asked[r].user]
      <3>1. event \in audit'
        BY <2>1, <2>2, <2>3, <2>4, <2>5 DEF Record
      <3>2. event \notin audit
        BY <1>2
      <3> QED  BY <2>3, <3>1, <3>2 DEF LeavesATrace
    <2>6. CASE role[asked[r].user] = "none"
      BY <2>1, <2>2, <2>3, <2>4, <2>6 DEF Record, LeavesATrace
    <2> QED  BY <2>5, <2>6
  <1>4. ASSUME NEW r \in Requests, OverrideDelete(r) PROVE LeavesATrace(l)
    <2>1. PICK k \in Found(r) : /\ MayOverride(Who(r), link[k])
                                /\ audit' = audit \cup {[target |-> "url", link |-> k, did |-> "override", by |-> asked[r].user]}
                                /\ link' = [link EXCEPT ![k] = None]
      BY <1>4 DEF OverrideDelete
    <2>2. k = l
      BY <2>1 DEF AccessInv, AccessTypeOK
    <2>3. asked[r].user \in People
      BY <2>1 DEF MayOverride, Who, Viewer
    <2> DEFINE event == [target |-> "url", link |-> l, did |-> "override", by |-> asked[r].user]
    <2>4. event \in audit' /\ event \notin audit
      BY <1>2, <2>1, <2>2
    <2> QED  BY <2>3, <2>4 DEF LeavesATrace
  <1>5. ASSUME NEW r \in Requests, NEW campaign \in BOOLEAN, Make(r, campaign) PROVE FALSE
    <2>1. PICK k \in Links : link[k] = None /\ \E x : link' = [link EXCEPT ![k] = x]
      BY <1>5 DEF Make
    <2> QED  BY <2>1 DEF AccessInv, AccessTypeOK
  <1>6. ASSUME NEW r \in Requests, Adopt(r) PROVE FALSE
    <2>1. link'[l] \in {link[l], [link[l] EXCEPT !.organization = TRUE]}
      BY <1>6 DEF Adopt
    <2>2. [link[l] EXCEPT !.organization = TRUE] \in Link
      BY <1>1 DEF Link
    <2> QED  BY <2>1, <2>2, IdleType
  <1>7. CASE UNCHANGED link
    BY <1>7
  <1> QED
    BY <1>3, <1>4, <1>5, <1>6, <1>7
    DEF AccessNext, Authenticate, ReadViewer, Refused, CreateLink, CreateCampaign, UpdateLink, ChangeRules, AddRuleByTool,
        RefreshPreview, ChangeTags, ChangeCampaignTags, DeleteLink, DeleteCampaign, ChangeRole, RemoveUser

\* A managed link goes only by its manager's hand or past it by an owner's, and leaves a row in the
\* audit, unless its manager was removed after its token was accepted (ManagedLinksLeaveATrace).
THEOREM ManagedLinksAreTraced ==
    ASSUME AccessAssumption
    PROVE  AccessSpec => ManagedLinksLeaveATrace
  <1>1. AccessInv /\ [AccessNext]_accessVars =>
            [\A l \in Links : (link[l] # None /\ IsManaged(link[l]) /\ link'[l] = None) =>
                \/ [target |-> "url", link |-> l, did |-> "deleted", by |-> link[l].via] \in audit' \ audit
                \/ \E u \in People : [target |-> "url", link |-> l, did |-> "override", by |-> u] \in audit' \ audit
                \/ l \in skipped' /\ role[link[l].via] = "none"]_accessVars
    BY ManagedLinkGoes DEF LeavesATrace
  <1> QED  BY <1>1, Invariance, PTL DEF AccessSpec, ManagedLinksLeaveATrace

-----------------------------------------------------------------------------
(* What the lists show, of any links.                                       *)

\* The rule as the search has it in SQL is the one that masks.
LEMMA OneRule ==
    ASSUME NEW u, NEW read, NEW x
    PROVE  DestinationVisible(Viewer(u, read), x) <=> SeesDestination(Viewer(u, read), x)
  BY DEF DestinationVisible, SeesDestination, IsManaged, IsManager, OwnsIt, Viewer

\* A search tells nothing of a destination that is masked, and finds what is shown.
THEOREM SearchTellsNothing == SearchTellsNothingHidden
  <1> SUFFICES ASSUME NEW u \in Users, NEW read \in Roles, NEW f \in Filters,
                      NEW one \in [Links -> SUBSET Places], NEW other \in [Links -> SUBSET Places]
               PROVE  LET who == Viewer(u, read)
                          hidden(l) == link[l] # None /\ ~SeesDestination(who, link[l])
                      IN  /\ (\A l \in Links : IF hidden(l) THEN "name" \in one[l] <=> "name" \in other[l]
                                               ELSE one[l] = other[l])
                              => ListUrls(who, one, f) = ListUrls(who, other, f)
                          /\ \A l \in SeenBy(who) :
                                ("destination" \in one[l] /\ ~hidden(l) /\ IsAskedFor(link[l], f)) =>
                                    Shown(who, l) \in ListUrls(who, one, f)
    BY DEF SearchTellsNothingHidden
  <1> DEFINE who == Viewer(u, read)
             hidden(l) == link[l] # None /\ ~SeesDestination(who, link[l])
  <1>1. ASSUME \A l \in Links : IF hidden(l) THEN "name" \in one[l] <=> "name" \in other[l] ELSE one[l] = other[l]
        PROVE  ListUrls(who, one, f) = ListUrls(who, other, f)
    <2>1. \A l \in SeenBy(who) : Matches(who, link[l], one[l]) <=> Matches(who, link[l], other[l])
      BY <1>1, OneRule DEF Matches, SeenBy
    <2> QED  BY <2>1 DEF ListUrls
  <1>2. ASSUME NEW l \in SeenBy(who), "destination" \in one[l], ~hidden(l), IsAskedFor(link[l], f)
        PROVE  Shown(who, l) \in ListUrls(who, one, f)
    <2>1. Matches(who, link[l], one[l])
      BY <1>2, OneRule DEF Matches, SeenBy
    <2> QED  BY <1>2, <2>1 DEF ListUrls
  <1> QED  BY <1>1, <1>2

\* What the tabs, an account's page and the audit hold of links, in a state that the invariant is of.
LEMMA OneStory ==
    ASSUME AccessAssumption, AccessInv
    PROVE  TabsAndAuditAgree
  <1> SUFFICES ASSUME NEW u \in Users, NEW read \in Roles
               PROVE  LET who  == Viewer(u, read)
                          tab(by) == ListUrls(who, Everything, Only("any", by))
                          rest == ListUrls(who, Everything, Only("exclude", None))
                      IN  /\ \A m \in ListLinkManagers(who) : \A l \in m.links :
                                l \in skipped \/ \E item \in AuditItems(who) :
                                    /\ item.named /\ item.event.link = l
                                    /\ item.event.did = "created" /\ item.event.by = m.account
                          /\ \A item \in AuditItems(who) :
                                item.named => item.event.did \notin {"deleted", "override"}
                          /\ \A a \in Services : ListServiceAccountLinks(who, a) \subseteq
                                tab(a) \cup UNION {GetCampaign(who, l) : l \in Links}
                          /\ \A l \in Links : GetCampaign(who, l) \subseteq rest
    BY DEF TabsAndAuditAgree
  <1> DEFINE who == Viewer(u, read)
             tab(by) == ListUrls(who, Everything, Only("any", by))
             rest == ListUrls(who, Everything, Only("exclude", None))
  <1>1. \A l \in SeenBy(who) : Matches(who, link[l], Everything[l]) /\ l \in Links /\ link[l] \in Link
    BY DEF Matches, Everything, Places, SeenBy, AccessInv, AccessTypeOK
  <1>2. \A l \in SeenBy(who) : link[l].campaign => Shown(who, l) = [link |-> l, destination |-> TRUE]
    BY DEF Shown, SeesDestination, IsManaged
  <1> HIDE DEF who
  <1>3. ASSUME NEW m \in ListLinkManagers(who), NEW l \in m.links, l \notin skipped
        PROVE  \E item \in AuditItems(who) : /\ item.named /\ item.event.link = l
                                             /\ item.event.did = "created" /\ item.event.by = m.account
    <2>1. l \in Managed(who, m.account)  BY DEF ListLinkManagers
    <2>2. l \in SeenBy(who) /\ IsManaged(link[l]) /\ link[l].via = m.account  BY <2>1 DEF Managed
    <2> DEFINE event == [target |-> "url", link |-> l, did |-> "created", by |-> m.account]
    <2>3. event \in audit
      <3>1. l \in Links /\ link[l] # None /\ link[l].via # None /\ ~ link[l].campaign
        BY <2>2 DEF IsManaged, SeenBy
      <3>2. MakingIsRecorded(l)  BY <3>1 DEF AccessInv
      <3> QED  BY <1>3, <2>2, <3>1, <3>2 DEF MakingIsRecorded, Kind
    <2>4. [event |-> event, named |-> event.target = "url" /\ event.link \in SeenBy(who)] \in AuditItems(who)
      BY <2>3 DEF AuditItems
    <2> QED  BY <2>2, <2>4
  <1>4. ASSUME NEW item \in AuditItems(who), item.named, item.event.did \in {"deleted", "override"} PROVE FALSE
    <2> DEFINE named(e) == e.target = "url" /\ e.link \in SeenBy(who)
    <2>0. PICK e \in audit : item = [event |-> e, named |-> named(e)]  BY DEF AuditItems
    <2> HIDE DEF named
    <2>p. item.event = e /\ item.named = named(e)  BY <2>0
    <2>q. named(e)  BY <1>4, <2>p
    <2>1. item.event \in audit /\ item.event.link \in SeenBy(who)  BY <2>p, <2>q DEF named
    <2> QED  BY <1>4, <2>1 DEF AccessInv, GoneIsGone, SeenBy
  <1>5. ASSUME NEW a \in Services, NEW x \in ListServiceAccountLinks(who, a)
        PROVE  x \in tab(a) \cup UNION {GetCampaign(who, l) : l \in Links}
    <2>1. PICK l \in SeenBy(who) : link[l].via = a /\ x = Shown(who, l)  BY DEF ListServiceAccountLinks
    <2>2. a # None  BY IdleType
    <2>3. CASE link[l].campaign
      BY <1>1, <1>2, <2>1, <2>3 DEF GetCampaign, ListCampaigns
    <2>4. CASE ~ link[l].campaign
      <3>1. IsAskedFor(link[l], Only("any", a))
        BY <2>1, <2>2, <2>4 DEF IsAskedFor, Only, IsManaged
      <3> QED  BY <1>1, <2>1, <3>1 DEF ListUrls
    <2> QED  BY <2>3, <2>4
  <1>6. ASSUME NEW l \in Links PROVE GetCampaign(who, l) \subseteq rest
    <2>1. CASE l \in ListCampaigns(who)
      <3>1. l \in SeenBy(who) /\ link[l].campaign  BY <2>1 DEF ListCampaigns
      <3>2. IsAskedFor(link[l], Only("exclude", None))  BY <3>1 DEF IsAskedFor, Only
      <3>3. Shown(who, l) \in rest  BY <1>1, <3>1, <3>2 DEF ListUrls
      <3> QED  BY <1>2, <2>1, <3>1, <3>3 DEF GetCampaign
    <2> QED  BY <2>1 DEF GetCampaign
  <1> QED
    BY <1>3, <1>4, <1>5, <1>6 DEF who

\* A managed link on its account's tab has the row of its making, that names it, whatever was done
\* since and whoever came and went, unless its account was removed as it made it; no row of a link's
\* end names one; an account's page lists what its tab does and its campaigns' links, and no page
\* of a campaign shows what the list masks (TabsAndAuditAgree).
THEOREM TabsAgreeWithTheAudit ==
    ASSUME AccessAssumption
    PROVE  AccessSpec => []TabsAndAuditAgree
  <1>1. AccessInv => TabsAndAuditAgree
    BY OneStory
  <1> QED  BY <1>1, Invariance, PTL

-----------------------------------------------------------------------------
(* Where a link leads.                                                      *)

\* A visit under way has seen where the link leads now; and it has the destination of now, or that
\* changed; and it knows whether the link was deleted.
HasSeen(v) ==
    /\ alive => LeadsTo(rule, destination, visit[v].facts, time) \subseteq during[v].led
    /\ "destination" \in during[v].changed \/ visit[v].destination = destination
    /\ "link" \in during[v].changed <=> ~ alive
    /\ during[v].since \subseteq during[v].changed

\* It may go to: where the link led, or as GoesWhereItLed excepts.
MayGo(v, to) ==
    \/ to \in during[v].led
    \/ {"rules", "time"} \subseteq during[v].since
    \/ /\ to = visit[v].destination
       /\ \/ "destination" \in during[v].changed /\ during[v].changed \cap {"rules", "time"} # {}
          \/ "link" \in during[v].changed

\* Where the rules that v has read lead now.
Picks(v) == PickTarget(visit[v].rows, visit[v].destination, visit[v].facts, time)

\* Before the rules are read, the visit has seen where those of now lead with the destination it has,
\* or they, or the time, changed.  Once they are, it may go where they lead now, or time passed; and
\* they are those of now, or these changed.
VisitSees(v) ==
    /\ visit[v].step = "away" => during[v].changed = {} /\ during[v].since = {}
    /\ visit[v].step \in {"found", "read"} => HasSeen(v)
    /\ visit[v].step = "found" =>
        \/ during[v].changed \cap {"rules", "time"} # {}
        \/ LeadsTo(rule, visit[v].destination, visit[v].facts, time) \subseteq during[v].led
    /\ visit[v].step = "read" =>
        /\ "time" \in during[v].since \/ MayGo(v, Picks(v))
        /\ "rules" \in during[v].since \/ visit[v].rows \in RulesRead(rule)

\* The rules of a deleted link went with it.
RulesWent == alive \/ \A k \in RuleRows : rule[k] = Nothing

RedirectsInv ==
    /\ RedirectsTypeOK
    /\ RulesWent
    /\ \A v \in Visitors : VisitSees(v)
    /\ GoesWhereItLed

\* The first of some positions.
LEMMA FirstPosition ==
    ASSUME NEW S \in SUBSET Nat, S # {}
    PROVE  \E i \in S : \A j \in S : i <= j
  <1> DEFINE R == OpToRel(<, Nat)
  <1>1. R = {ss \in Nat \X Nat : ss[1] < ss[2]}  BY DEF OpToRel
  <1>2. IsWellFoundedOn(R, Nat)  BY NatLessThanWellFounded
  <1> HIDE DEF R
  <1>3. PICK i \in S : \A j \in S : ~ (<<j, i>> \in R)  BY <1>2, WFMin
  <1>4. \A j \in S : ~ (j < i)  BY <1>1, <1>3
  <1> QED  BY <1>4

\* The order the rows come in holds each of them.
LEMMA EveryRuleComes ==
    ASSUME RedirectsAssumption, RedirectsTypeOK, NEW s \in ByPriority(rule)
    PROVE  LET rows == {k \in RuleRows : rule[k] # Nothing}
           IN  /\ \E n \in Nat : DOMAIN s = 1 .. n
               /\ \A i \in DOMAIN s : s[i] \in rows
               /\ \A k \in rows : \E i \in DOMAIN s : s[i] = k
               /\ \A i, j \in DOMAIN s : i < j => rule[s[i]].priority <= rule[s[j]].priority
  <1> DEFINE rows == {k \in RuleRows : rule[k] # Nothing}
             n == Cardinality(rows)
  <1>1. IsFiniteSet(rows)  BY FS_Subset DEF RedirectsAssumption
  <1>2. n \in Nat  BY <1>1, FS_CardinalityType
  <1>3. /\ s \in SetToSeqs(rows)
        /\ \A i, j \in DOMAIN s : i < j => rule[s[i]].priority <= rule[s[j]].priority
    BY DEF ByPriority
  <1> HIDE DEF rows
  <1>4. s \in [1 .. n -> rows] /\ \A i, j \in 1 .. n : i # j => s[i] # s[j]
    BY <1>3 DEF SetToSeqs
  <1>5. s \in Injection(1 .. n, rows)  BY <1>4 DEF Injection, IsInjective
  <1>6. IsFiniteSet(1 .. n) /\ Cardinality(1 .. n) = n  BY <1>2, FS_Interval
  <1>7. s \in Surjection(1 .. n, rows)  BY <1>1, <1>5, <1>6, FS_Injection
  <1>8. \A k \in rows : \E i \in 1 .. n : s[i] = k  BY <1>7 DEF Surjection
  <1>9. DOMAIN s = 1 .. n  BY <1>4
  <1> QED  BY <1>2, <1>3, <1>4, <1>8, <1>9 DEF rows

\* The rules as they were read are rules of the link, each of them, by priority.
LEMMA RulesAreRead ==
    ASSUME RedirectsAssumption, RedirectsTypeOK, NEW rows \in RulesRead(rule)
    PROVE  /\ rows \in Seq(Rule)
           /\ \A i \in DOMAIN rows : \E k \in RuleRows : rule[k] # Nothing /\ rows[i] = rule[k]
           /\ \A k \in RuleRows : rule[k] # Nothing => \E i \in DOMAIN rows : rows[i] = rule[k]
           /\ \A i, j \in DOMAIN rows : i < j => rows[i].priority <= rows[j].priority
  <1> DEFINE made == {k \in RuleRows : rule[k] # Nothing}
  <1>1. PICK s \in ByPriority(rule) : rows = [i \in DOMAIN s |-> rule[s[i]]]  BY DEF RulesRead
  <1>2. /\ \E n \in Nat : DOMAIN s = 1 .. n
        /\ \A i \in DOMAIN s : s[i] \in made
        /\ \A k \in made : \E i \in DOMAIN s : s[i] = k
        /\ \A i, j \in DOMAIN s : i < j => rule[s[i]].priority <= rule[s[j]].priority
    BY EveryRuleComes
  <1>3. \A i \in DOMAIN s : rule[s[i]] \in Rule  BY <1>2 DEF RedirectsTypeOK
  <1>4. rows \in Seq(Rule)
    <2>1. PICK n \in Nat : DOMAIN s = 1 .. n  BY <1>2
    <2>2. rows \in [1 .. n -> Rule]  BY <1>1, <1>3, <2>1
    <2> QED  BY <2>1, <2>2
  <1>5. DOMAIN rows = DOMAIN s /\ \A i \in DOMAIN s : rows[i] = rule[s[i]]  BY <1>1
  <1> QED  BY <1>2, <1>4, <1>5

\* The first of some rules that matches.
LEMMA FirstMatch ==
    ASSUME RedirectsAssumption, NEW rows \in Seq(Rule), NEW default, NEW facts, NEW when
    PROVE  \/ /\ \A i \in DOMAIN rows : ~ RuleMatches(rows[i], facts, when)
              /\ PickTarget(rows, default, facts, when) = default
           \/ \E i \in DOMAIN rows :
                /\ RuleMatches(rows[i], facts, when)
                /\ \A j \in DOMAIN rows : RuleMatches(rows[j], facts, when) => i <= j
                /\ PickTarget(rows, default, facts, when) = rows[i].target
                /\ rows[i].target \in Targets
  <1> DEFINE at == {i \in DOMAIN rows : RuleMatches(rows[i], facts, when)}
             first == CHOOSE i \in at : \A j \in at : i <= j
  <1>1. CASE at = {}
    BY <1>1 DEF PickTarget
  <1>2. CASE at # {}
    <2>1. at \in SUBSET Nat  OBVIOUS
    <2>2. PICK i \in at : i = first /\ \A j \in at : i <= j  BY <1>2, <2>1, FirstPosition
    <2>3. PickTarget(rows, default, facts, when) = rows[i].target  BY <1>2, <2>2 DEF PickTarget
    <2>4. rows[i].target \in Targets
      <3>1. rows[i] \in Rule  OBVIOUS
      <3> QED  BY <3>1 DEF Rule
    <2> QED  BY <2>2, <2>3, <2>4
  <1> QED  BY <1>1, <1>2

\* The first rule that matches, of the rules as they were read, is one the link leads by; or none
\* does, and the link leads to its destination, whatever that is.
LEMMA PickedIsFirst ==
    ASSUME RedirectsAssumption, RedirectsTypeOK, NEW rows \in RulesRead(rule), NEW default, NEW d,
           NEW facts, NEW when
    PROVE  \/ PickTarget(rows, default, facts, when) \in LeadsTo(rule, d, facts, when)
           \/ PickTarget(rows, default, facts, when) = default /\ LeadsTo(rule, d, facts, when) = {d}
  <1> DEFINE matching == {k \in RuleRows : rule[k] # Nothing /\ RuleMatches(rule[k], facts, when)}
  <1>1. /\ rows \in Seq(Rule)
        /\ \A i \in DOMAIN rows : \E k \in RuleRows : rule[k] # Nothing /\ rows[i] = rule[k]
        /\ \A k \in RuleRows : rule[k] # Nothing => \E i \in DOMAIN rows : rows[i] = rule[k]
        /\ \A i, j \in DOMAIN rows : i < j => rows[i].priority <= rows[j].priority
    BY RulesAreRead
  <1>2. CASE /\ \A i \in DOMAIN rows : ~ RuleMatches(rows[i], facts, when)
             /\ PickTarget(rows, default, facts, when) = default
    <2>1. matching = {}  BY <1>1, <1>2
    <2> QED  BY <1>2, <2>1 DEF LeadsTo
  <1>3. ASSUME NEW i \in DOMAIN rows, RuleMatches(rows[i], facts, when),
               \A j \in DOMAIN rows : RuleMatches(rows[j], facts, when) => i <= j,
               PickTarget(rows, default, facts, when) = rows[i].target
        PROVE  PickTarget(rows, default, facts, when) \in LeadsTo(rule, d, facts, when)
    <2>1. PICK k \in RuleRows : rule[k] # Nothing /\ rows[i] = rule[k]  BY <1>1
    <2>2. k \in matching  BY <1>3, <2>1
    <2>3. ASSUME NEW m \in matching PROVE rule[k].priority <= rule[m].priority
      <3>1. PICK j \in DOMAIN rows : rows[j] = rule[m]  BY <1>1
      <3>2. i <= j /\ i \in Nat /\ j \in Nat  BY <1>1, <1>3, <3>1
      <3>3. rule[m] \in Rule  BY DEF RedirectsTypeOK
      <3>4. rule[m].priority \in Nat  BY <3>3 DEF Rule, RedirectsAssumption
      <3>5. CASE i = j  BY <2>1, <3>1, <3>4, <3>5
      <3>6. CASE i < j  BY <1>1, <2>1, <3>1, <3>6
      <3> QED  BY <3>2, <3>5, <3>6
    <2> QED  BY <1>3, <2>1, <2>2, <2>3 DEF LeadsTo
  <1>4. \/ /\ \A i \in DOMAIN rows : ~ RuleMatches(rows[i], facts, when)
           /\ PickTarget(rows, default, facts, when) = default
        \/ \E i \in DOMAIN rows :
             /\ RuleMatches(rows[i], facts, when)
             /\ \A j \in DOMAIN rows : RuleMatches(rows[j], facts, when) => i <= j
             /\ PickTarget(rows, default, facts, when) = rows[i].target
             /\ rows[i].target \in Targets
    BY <1>1, FirstMatch
  <1> QED  BY <1>2, <1>3, <1>4

\* A link without rules leads to its destination, and so do the rules read of it.
LEMMA NoRules ==
    ASSUME RedirectsAssumption, RedirectsTypeOK, \A k \in RuleRows : rule[k] = Nothing,
           NEW rows \in RulesRead(rule), NEW default, NEW facts, NEW when
    PROVE  PickTarget(rows, default, facts, when) = default
  <1>1. LeadsTo(rule, default, facts, when) = {default}  BY DEF LeadsTo
  <1>2. \/ PickTarget(rows, default, facts, when) \in LeadsTo(rule, default, facts, when)
        \/ PickTarget(rows, default, facts, when) = default
           /\ LeadsTo(rule, default, facts, when) = {default}
    BY PickedIsFirst
  <1> QED  BY <1>1, <1>2

LEMMA LeadsSomewhere ==
    ASSUME RedirectsTypeOK, NEW default \in Targets, NEW facts, NEW when
    PROVE  LeadsTo(rule, default, facts, when) \subseteq Targets
  <1>1. \A k \in RuleRows : rule[k] # Nothing => rule[k].target \in Targets
    BY DEF RedirectsTypeOK, Rule
  <1> QED  BY <1>1 DEF LeadsTo

\* A visit knows the same while nothing of it, or of the link, changes.
LEMMA VisitSeesAsBefore ==
    ASSUME RedirectsInv, UNCHANGED <<time, alive, destination, rule>>, NEW u \in Visitors,
           visit'[u] = visit[u], during'[u] = during[u]
    PROVE  VisitSees(u)'
  <1>1. VisitSees(u)  BY DEF RedirectsInv
  <1>2. HasSeen(u)' <=> HasSeen(u)  BY DEF HasSeen
  <1>3. MayGo(u, Picks(u))' <=> MayGo(u, Picks(u))  BY DEF MayGo, Picks
  <1>4. RulesRead(rule)' = RulesRead(rule)  BY DEF RulesRead, ByPriority
  <1> QED  BY <1>1, <1>2, <1>3, <1>4 DEF VisitSees

-----------------------------------------------------------------------------
(* The edits.                                                               *)

LEMMA WrittenIsARule ==
    ASSUME NEW x \in Rule, NEW p \in [row : RuleRows, loaded : Rule, new : Rule]
    PROVE  Written(p, x) \in Rule
  <1>1. p.new \in Rule /\ p.loaded \in Rule  OBVIOUS
  <1>2. DOMAIN x = {"priority", "conditions", "target"}  BY DEF Rule
  <1> DEFINE w == Written(p, x)
             r == [priority |-> w.priority, conditions |-> w.conditions, target |-> w.target]
  <1>3. w = r  BY <1>2 DEF Written
  <1>4. w.priority \in Priorities /\ w.conditions \in ConditionSets /\ w.target \in Targets
    BY <1>1, <1>2 DEF Written, Rule
  <1>5. r \in Rule  BY <1>4 DEF Rule
  <1> QED  BY <1>3, <1>5

\* What a visit under way knows of a step by another.
LEMMA WatchIs ==
    ASSUME RedirectsTypeOK, Watch, visit' = visit, NEW v \in Visitors,
           visit[v].step \in {"found", "read"}
    PROVE  /\ during'[v].led = during[v].led \cup
                (IF alive' THEN LeadsTo(rule', destination', visit[v].facts, time') ELSE {})
           /\ during'[v].changed = during[v].changed \cup Changed
           /\ during'[v].since = during[v].since \cup Changed
  BY DEF Watch

LEMMA ChangedIs ==
    /\ Changed \subseteq Changeable
    /\ "destination" \in Changed <=> destination' # destination
    /\ "rules" \in Changed <=> rule' # rule
    /\ "time" \in Changed <=> time' # time
    /\ "link" \in Changed <=> alive' # alive
  BY DEF Changed, Changeable

\* What an edit, or the clock, does to the link's rules is seen by every visit under way.
LEMMA WatchKeepsVisits ==
    ASSUME RedirectsInv, Watch, RedirectsTypeOK', RulesWent', visit' = visit, alive' => alive
    PROVE  RedirectsInv'
  <1>1. ASSUME NEW v \in Visitors PROVE VisitSees(v)'
    <2>1. VisitSees(v) /\ RedirectsTypeOK  BY DEF RedirectsInv
    <2>2. CASE visit[v].step \in {"found", "read"}
      <3> DEFINE old == during[v]
                 new == during'[v]
                 leads == LeadsTo(rule', destination', visit[v].facts, time')
      <3>1. /\ new.led = old.led \cup (IF alive' THEN leads ELSE {})
            /\ new.changed = old.changed \cup Changed /\ new.since = old.since \cup Changed
        BY <2>1, <2>2, WatchIs
      <3>2. visit'[v] = visit[v]  OBVIOUS
      <3>3. HasSeen(v)'
        <4>1. HasSeen(v)  BY <2>1, <2>2 DEF VisitSees
        <4>2. alive' => leads \subseteq new.led  BY <3>1
        <4>3. "destination" \in new.changed \/ visit[v].destination = destination'
          BY <3>1, <4>1, ChangedIs DEF HasSeen
        <4>4. "link" \in new.changed <=> ~ alive'
          BY <2>1, <3>1, <4>1, ChangedIs DEF HasSeen, RedirectsTypeOK
        <4>5. new.since \subseteq new.changed  BY <3>1, <4>1 DEF HasSeen
        <4> QED  BY <4>2, <4>3, <4>4, <4>5 DEF HasSeen
      <3>4. CASE visit[v].step = "found"
        <4>1. \/ old.changed \cap {"rules", "time"} # {}
              \/ LeadsTo(rule, visit[v].destination, visit[v].facts, time) \subseteq old.led
          BY <2>1, <3>4 DEF VisitSees
        <4>2. \/ new.changed \cap {"rules", "time"} # {}
              \/ rule' = rule /\ time' = time
          BY <3>1, ChangedIs
        <4>3. \/ new.changed \cap {"rules", "time"} # {}
              \/ LeadsTo(rule', visit[v].destination, visit[v].facts, time') \subseteq new.led
          BY <3>1, <4>1, <4>2
        <4> QED  BY <3>3, <3>4, <4>3 DEF VisitSees
      <3>5. CASE visit[v].step = "read"
        <4>1. /\ "time" \in old.since \/ MayGo(v, Picks(v))
              /\ "rules" \in old.since \/ visit[v].rows \in RulesRead(rule)
          BY <2>1, <3>5 DEF VisitSees
        <4>2. "rules" \in new.since \/ visit[v].rows \in RulesRead(rule')
          BY <3>1, <4>1, ChangedIs
        <4>3. CASE "time" \in new.since
          BY <3>3, <3>5, <4>2, <4>3 DEF VisitSees, RulesRead, ByPriority
        <4>4. CASE "time" \notin new.since
          <5>1. time' = time /\ MayGo(v, Picks(v))  BY <3>1, <4>1, <4>4, ChangedIs
          <5>2. Picks(v)' = Picks(v)  BY <5>1 DEF Picks
          <5>3. MayGo(v, Picks(v))'  BY <3>1, <5>1, <5>2 DEF MayGo
          <5> QED  BY <3>3, <3>5, <4>2, <5>3 DEF VisitSees, RulesRead, ByPriority
        <4> QED  BY <4>3, <4>4
      <3> QED  BY <2>2, <3>4, <3>5
    <2>3. CASE visit[v].step \notin {"found", "read"}
      <3>1. during'[v] = during[v]  BY <2>3 DEF Watch
      <3> QED  BY <2>1, <2>3, <3>1 DEF VisitSees
    <2> QED  BY <2>2, <2>3
  <1>2. GoesWhereItLed'
    BY DEF RedirectsInv, GoesWhereItLed, Watch
  <1> QED  BY <1>1, <1>2 DEF RedirectsInv

LEMMA WatchIsTyped ==
    ASSUME RedirectsTypeOK, Watch, visit' = visit, alive' \in BOOLEAN,
           time' \in 0 .. MaxTime, destination' \in Targets, edits' \in 0 .. MaxEdits,
           rule' \in [RuleRows -> Rule \cup {Nothing}],
           patch' \in [Editors -> [row : RuleRows, loaded : Rule, new : Rule] \cup {Nothing}]
    PROVE  RedirectsTypeOK'
  <1> DEFINE seen(v) == IF alive' THEN LeadsTo(rule', destination', visit[v].facts, time') ELSE {}
  <1>1. \A k \in RuleRows : rule'[k] # Nothing => rule'[k].target \in Targets
    BY DEF Rule
  <1>2. \A v \in Visitors : seen(v) \subseteq Targets
    BY <1>1 DEF LeadsTo
  <1> DEFINE History == [led : SUBSET Targets, changed : SUBSET Changeable, since : SUBSET Changeable]
             Seeing(v) == [led     |-> during[v].led \cup seen(v),
                           changed |-> during[v].changed \cup Changed,
                           since   |-> during[v].since \cup Changed]
  <1>3. during' = [v \in Visitors |-> IF visit[v].step \notin {"found", "read"} THEN during[v] ELSE Seeing(v)]
    BY DEF Watch
  <1> HIDE DEF seen
  <1>4. \A v \in Visitors : Seeing(v) \in History
    BY <1>2, ChangedIs DEF RedirectsTypeOK
  <1> HIDE DEF Seeing
  <1>5. during' \in [Visitors -> History]  BY <1>3, <1>4 DEF RedirectsTypeOK
  <1> QED  BY <1>5 DEF RedirectsTypeOK

LEMMA EditsKeepVisits ==
    ASSUME RedirectsAssumption, RedirectsInv,
           CreateRule \/ DeleteRule \/ MoveLink \/ DeleteUrl \/ TimePasses
             \/ \E e \in Editors : LoadRule(e) \/ CommitUpdate(e)
    PROVE  RedirectsInv'
  <1>0. RedirectsTypeOK /\ RulesWent  BY DEF RedirectsInv
  <1>1. Watch /\ visit' = visit /\ (alive' => alive)
    BY DEF CreateRule, DeleteRule, MoveLink, DeleteUrl, TimePasses, LoadRule, CommitUpdate
  <1>2. /\ time' \in 0 .. MaxTime /\ destination' \in Targets /\ edits' \in 0 .. MaxEdits
        /\ alive' \in BOOLEAN
    <2>1. MaxTime \in Nat /\ MaxEdits \in Nat  BY DEF RedirectsAssumption
    <2>2. /\ time \in 0 .. MaxTime /\ destination \in Targets /\ edits \in 0 .. MaxEdits
          /\ alive \in BOOLEAN
      BY <1>0 DEF RedirectsTypeOK
    <2>3. time' = time \/ (time < MaxTime /\ time' = time + 1)
      BY DEF CreateRule, DeleteRule, MoveLink, DeleteUrl, TimePasses, LoadRule, CommitUpdate
    <2>4. edits' = edits \/ (edits < MaxEdits /\ edits' = edits + 1)
      BY DEF CreateRule, DeleteRule, MoveLink, DeleteUrl, TimePasses, LoadRule, CommitUpdate, Edits
    <2>5. destination' = destination \/ destination' \in Targets
      BY DEF CreateRule, DeleteRule, MoveLink, DeleteUrl, TimePasses, LoadRule, CommitUpdate
    <2>6. alive' = alive \/ alive' = FALSE
      BY DEF CreateRule, DeleteRule, MoveLink, DeleteUrl, TimePasses, LoadRule, CommitUpdate
    <2>7. alive' \in BOOLEAN  BY <2>2, <2>6
    <2>8. time' \in 0 .. MaxTime /\ edits' \in 0 .. MaxEdits  BY <2>1, <2>2, <2>3, <2>4
    <2>9. destination' \in Targets  BY <2>2, <2>5
    <2> QED  BY <2>7, <2>8, <2>9
  <1>3. /\ rule' \in [RuleRows -> Rule \cup {Nothing}]
        /\ patch' \in [Editors -> [row : RuleRows, loaded : Rule, new : Rule] \cup {Nothing}]
        /\ RulesWent'
    <2>0. /\ rule \in [RuleRows -> Rule \cup {Nothing}]
          /\ patch \in [Editors -> [row : RuleRows, loaded : Rule, new : Rule] \cup {Nothing}]
      BY <1>0 DEF RedirectsTypeOK
    <2>1. CASE CreateRule \/ DeleteRule \/ MoveLink \/ DeleteUrl \/ TimePasses
      BY <1>0, <2>0, <2>1 DEF CreateRule, DeleteRule, MoveLink, DeleteUrl, TimePasses, RulesWent
    <2>2. ASSUME NEW e \in Editors, LoadRule(e)
          PROVE  /\ rule' = rule /\ alive' = alive
                 /\ patch' \in [Editors -> [row : RuleRows, loaded : Rule, new : Rule] \cup {Nothing}]
      <3>1. PICK k \in RuleRows, x \in Rule :
               rule[k] # Nothing /\ patch' = [patch EXCEPT ![e] = [row |-> k, loaded |-> rule[k], new |-> x]]
        BY <2>2 DEF LoadRule
      <3>2. rule[k] \in Rule  BY <2>0, <3>1
      <3> QED  BY <2>0, <2>2, <3>1, <3>2 DEF LoadRule
    <2>3. ASSUME NEW e \in Editors, CommitUpdate(e)
          PROVE  /\ rule' \in [RuleRows -> Rule \cup {Nothing}]
                 /\ patch' = [patch EXCEPT ![e] = Nothing]
                 /\ RulesWent'
      <3>1. patch[e] \in [row : RuleRows, loaded : Rule, new : Rule]
        BY <2>0, <2>3 DEF CommitUpdate
      <3>2. CASE rule[patch[e].row] = Nothing
        BY <1>0, <2>0, <2>3, <3>2 DEF CommitUpdate, RulesWent
      <3>3. CASE rule[patch[e].row] # Nothing
        <4>1. patch[e].row \in RuleRows /\ rule[patch[e].row] \in Rule  BY <2>0, <3>1, <3>3
        <4>2. Written(patch[e], rule[patch[e].row]) \in Rule  BY <3>1, <4>1, WrittenIsARule
        <4>3. alive /\ alive' = alive  BY <1>0, <2>3, <3>3, <4>1 DEF RulesWent, CommitUpdate
        <4> QED  BY <2>0, <2>3, <3>3, <4>1, <4>2, <4>3 DEF CommitUpdate, RulesWent
      <3> QED  BY <2>3, <3>2, <3>3 DEF CommitUpdate
    <2> QED  BY <1>0, <2>0, <2>1, <2>2, <2>3 DEF RulesWent
  <1>4. RedirectsTypeOK'
    BY <1>0, <1>1, <1>2, <1>3, WatchIsTyped
  <1> QED  BY <1>1, <1>3, <1>4, WatchKeepsVisits

-----------------------------------------------------------------------------
(* A visit.                                                                 *)

LEMMA FollowKeepsVisits ==
    ASSUME RedirectsInv, NEW v \in Visitors, Follow(v)
    PROVE  RedirectsInv'
  <1>0. RedirectsTypeOK /\ visit[v] \in Visiting /\ visit[v].step = "away" /\ alive
    BY DEF RedirectsInv, RedirectsTypeOK, Follow
  <1>1. PICK facts \in SUBSET Facts :
           /\ visit' = [visit EXCEPT ![v] = [visit[v] EXCEPT !.step = "found", !.facts = facts,
                                                             !.destination = destination]]
           /\ during' = [during EXCEPT ![v].led = LeadsTo(rule, destination, facts, time)]
    BY DEF Follow
  <1>2. UNCHANGED <<time, alive, destination, rule, patch, edits>>  BY DEF Follow
  <1> DEFINE found == [visit[v] EXCEPT !.step = "found", !.facts = facts,
                                       !.destination = destination]
             led == LeadsTo(rule, destination, facts, time)
  <1>3. /\ found \in Visiting /\ found.step = "found" /\ found.facts = facts
        /\ found.destination = destination
    BY <1>0 DEF Visiting, RedirectsTypeOK
  <1>4. led \subseteq Targets  BY <1>0, LeadsSomewhere DEF RedirectsTypeOK
  <1>5. visit' = [visit EXCEPT ![v] = found] /\ during' = [during EXCEPT ![v].led = led]
    BY <1>1
  <1> HIDE DEF found, led
  <1>6. RedirectsTypeOK'
    BY <1>0, <1>2, <1>3, <1>4, <1>5 DEF RedirectsTypeOK
  <1>7. ASSUME NEW u \in Visitors PROVE VisitSees(u)'
    <2>1. CASE u = v
      <3>1. visit'[v] = found /\ during'[v].led = led
        BY <1>0, <1>5 DEF RedirectsTypeOK
      <3>2. during'[v].changed = during[v].changed /\ during'[v].since = during[v].since
        BY <1>0, <1>5 DEF RedirectsTypeOK
      <3>3. during[v].changed = {} /\ during[v].since = {}
        BY <1>0 DEF RedirectsInv, VisitSees
      <3>4. HasSeen(v)'
        BY <1>0, <1>2, <1>3, <3>1, <3>2, <3>3 DEF HasSeen, led
      <3> QED  BY <1>2, <1>3, <2>1, <3>1, <3>4 DEF VisitSees, led
    <2>2. CASE u # v
      <3>1. visit'[u] = visit[u] /\ during'[u] = during[u]
        BY <1>0, <1>5, <2>2 DEF RedirectsTypeOK
      <3> QED  BY <1>2, <3>1, VisitSeesAsBefore
    <2> QED  BY <2>1, <2>2
  <1>8. GoesWhereItLed'
    BY <1>0, <1>3, <1>5 DEF RedirectsInv, GoesWhereItLed, RedirectsTypeOK
  <1>9. RulesWent'  BY <1>2 DEF RedirectsInv, RulesWent
  <1> QED  BY <1>6, <1>7, <1>8, <1>9 DEF RedirectsInv

\* Where the rules that are read lead, the visit may go, now.
LEMMA ReadNow ==
    ASSUME RedirectsAssumption, RedirectsInv, NEW v \in Visitors, visit[v].step = "found",
           NEW rows \in RulesRead(rule)
    PROVE  LET to == PickTarget(rows, visit[v].destination, visit[v].facts, time)
           IN  \/ to \in during[v].led
               \/ /\ to = visit[v].destination
                  /\ \/ "destination" \in during[v].changed /\ during[v].changed \cap {"rules", "time"} # {}
                     \/ "link" \in during[v].changed
  <1> DEFINE mine == visit[v].destination
             facts == visit[v].facts
             to == PickTarget(rows, mine, facts, time)
  <1>1. RedirectsTypeOK /\ RulesWent /\ VisitSees(v)  BY DEF RedirectsInv
  <1>2. HasSeen(v)  BY <1>1 DEF VisitSees
  <1>3. CASE ~ alive
    <2>1. to = mine  BY <1>1, <1>3, NoRules DEF RulesWent
    <2> QED  BY <1>2, <1>3, <2>1 DEF HasSeen
  <1>4. CASE alive
    <2>1. \/ to \in LeadsTo(rule, destination, facts, time)
          \/ to = mine /\ LeadsTo(rule, destination, facts, time) = {destination}
      BY <1>1, PickedIsFirst
    <2>2. \/ to \in LeadsTo(rule, mine, facts, time)
          \/ to = mine /\ LeadsTo(rule, mine, facts, time) = {mine}
      BY <1>1, PickedIsFirst
    <2>3. LeadsTo(rule, destination, facts, time) \subseteq during[v].led
      BY <1>2, <1>4 DEF HasSeen
    <2> HIDE DEF to
    <2>4. CASE to \in LeadsTo(rule, destination, facts, time)
      BY <2>3, <2>4 DEF to
    <2>5. CASE to = mine /\ LeadsTo(rule, destination, facts, time) = {destination}
      <3>1. CASE mine = destination
        BY <2>3, <2>5, <3>1 DEF to
      <3>2. CASE mine # destination
        <4>1. "destination" \in during[v].changed  BY <1>2, <3>2 DEF HasSeen
        <4>2. \/ during[v].changed \cap {"rules", "time"} # {}
              \/ LeadsTo(rule, mine, facts, time) \subseteq during[v].led
          BY <1>1 DEF VisitSees
        <4>3. to \in LeadsTo(rule, mine, facts, time)  BY <2>2, <2>5
        <4> QED  BY <2>5, <4>1, <4>2, <4>3 DEF to
      <3> QED  BY <3>1, <3>2
    <2> QED  BY <2>1, <2>4, <2>5 DEF to
  <1> QED  BY <1>3, <1>4

LEMMA ReadRulesKeepsVisits ==
    ASSUME RedirectsAssumption, RedirectsInv, NEW v \in Visitors, ReadRules(v)
    PROVE  RedirectsInv'
  <1>0. RedirectsTypeOK /\ visit[v] \in Visiting /\ visit[v].step = "found"
    BY DEF RedirectsInv, RedirectsTypeOK, ReadRules
  <1>1. PICK rows \in RulesRead(rule) :
           visit' = [visit EXCEPT ![v] = [visit[v] EXCEPT !.step = "read", !.rows = rows]]
    BY DEF ReadRules
  <1>2. /\ UNCHANGED <<time, alive, destination, rule, patch, edits>>
        /\ during' = [during EXCEPT ![v].since = {}]
    BY DEF ReadRules
  <1> DEFINE read == [visit[v] EXCEPT !.step = "read", !.rows = rows]
  <1>3. rows \in Seq(Rule)  BY <1>0, RulesAreRead
  <1>4. /\ read \in Visiting /\ read.step = "read" /\ read.rows = rows
        /\ read.facts = visit[v].facts /\ read.destination = visit[v].destination
    BY <1>0, <1>3 DEF Visiting
  <1>5. visit' = [visit EXCEPT ![v] = read]  BY <1>1
  <1> HIDE DEF read
  <1>6. RedirectsTypeOK'
    BY <1>0, <1>2, <1>4, <1>5 DEF RedirectsTypeOK
  <1>7. ASSUME NEW u \in Visitors PROVE VisitSees(u)'
    <2>1. CASE u = v
      <3>1. /\ visit'[v] = read
            /\ during'[v].led = during[v].led /\ during'[v].changed = during[v].changed
            /\ during'[v].since = {}
        BY <1>0, <1>2, <1>5 DEF RedirectsTypeOK
      <3>2. HasSeen(v)  BY <1>0 DEF RedirectsInv, VisitSees
      <3>3. HasSeen(v)'
        BY <1>2, <1>4, <3>1, <3>2 DEF HasSeen
      <3>4. MayGo(v, Picks(v))'
        BY <1>0, <1>2, <1>4, <3>1, ReadNow DEF MayGo, Picks
      <3>5. visit'[v].rows \in RulesRead(rule')
        BY <1>2, <1>4, <3>1
      <3> QED  BY <1>4, <2>1, <3>1, <3>3, <3>4, <3>5 DEF VisitSees, RulesRead, ByPriority
    <2>2. CASE u # v
      <3>1. visit'[u] = visit[u] /\ during'[u] = during[u]
        BY <1>0, <1>2, <1>5, <2>2 DEF RedirectsTypeOK
      <3> QED  BY <1>2, <3>1, VisitSeesAsBefore
    <2> QED  BY <2>1, <2>2
  <1>8. GoesWhereItLed'
    BY <1>0, <1>2, <1>4, <1>5 DEF RedirectsInv, GoesWhereItLed, RedirectsTypeOK
  <1>9. RulesWent'  BY <1>2 DEF RedirectsInv, RulesWent
  <1> QED  BY <1>6, <1>7, <1>8, <1>9 DEF RedirectsInv

\* Where the rules that were read lead when the clock is, the visit may go.
LEMMA GoesNow ==
    ASSUME RedirectsAssumption, RedirectsInv, NEW v \in Visitors, visit[v].step = "read"
    PROVE  MayGo(v, Picks(v))
  <1>1. RedirectsTypeOK /\ RulesWent /\ VisitSees(v)  BY DEF RedirectsInv
  <1>2. HasSeen(v)  BY <1>1 DEF VisitSees
  <1>3. CASE "time" \notin during[v].since
    BY <1>1, <1>3 DEF VisitSees
  <1>4. CASE "time" \in during[v].since /\ "rules" \in during[v].since
    BY <1>4 DEF MayGo
  <1>5. CASE "time" \in during[v].since /\ "rules" \notin during[v].since
    <2>1. visit[v].rows \in RulesRead(rule)  BY <1>1, <1>5 DEF VisitSees
    <2>2. CASE ~ alive
      <3>1. Picks(v) = visit[v].destination  BY <1>1, <2>1, <2>2, NoRules DEF RulesWent, Picks
      <3> QED  BY <1>2, <2>2, <3>1 DEF HasSeen, MayGo
    <2>3. CASE alive
      <3>1. \/ Picks(v) \in LeadsTo(rule, destination, visit[v].facts, time)
            \/ /\ Picks(v) = visit[v].destination
               /\ LeadsTo(rule, destination, visit[v].facts, time) = {destination}
        BY <1>1, <2>1, PickedIsFirst DEF Picks
      <3>2. LeadsTo(rule, destination, visit[v].facts, time) \subseteq during[v].led
        BY <1>2, <2>3 DEF HasSeen
      <3>3. "time" \in during[v].changed  BY <1>2, <1>5 DEF HasSeen
      <3>4. "destination" \in during[v].changed \/ visit[v].destination = destination
        BY <1>2 DEF HasSeen
      <3> QED  BY <3>1, <3>2, <3>3, <3>4 DEF MayGo
    <2> QED  BY <2>2, <2>3
  <1> QED  BY <1>3, <1>4, <1>5

LEMMA RedirectKeepsVisits ==
    ASSUME RedirectsAssumption, RedirectsInv, NEW v \in Visitors, Redirect(v)
    PROVE  RedirectsInv'
  <1>0. RedirectsTypeOK /\ visit[v] \in Visiting /\ visit[v].step = "read"
    BY DEF RedirectsInv, RedirectsTypeOK, Redirect
  <1>1. PICK logged \in BOOLEAN :
           visit' = [visit EXCEPT ![v] =
               IF logged /\ ~ alive THEN [visit[v] EXCEPT !.step = "failed", !.rows = <<>>]
               ELSE [visit[v] EXCEPT !.step = "gone", !.rows = <<>>, !.logged = logged,
                                     !.to = Picks(v)]]
    BY DEF Redirect, Picks
  <1>2. UNCHANGED <<time, alive, destination, rule, patch, edits, during>>  BY DEF Redirect
  <1>3. Picks(v) \in Targets
    <2>1. visit[v].rows \in Seq(Rule) /\ visit[v].destination \in Targets  BY <1>0 DEF Visiting
    <2> QED  BY <2>1, FirstMatch DEF Picks
  <1> DEFINE ended == IF logged /\ ~ alive THEN [visit[v] EXCEPT !.step = "failed", !.rows = <<>>]
                      ELSE [visit[v] EXCEPT !.step = "gone", !.rows = <<>>, !.logged = logged,
                                            !.to = Picks(v)]
  <1>4. visit' = [visit EXCEPT ![v] = ended]  BY <1>1
  <1>5. /\ ended \in Visiting /\ ended.step \in {"gone", "failed"}
        /\ ended.destination = visit[v].destination
        /\ ended.step = "gone" => /\ ended.to = Picks(v) /\ ended.logged = logged
                                  /\ ~ (logged /\ ~ alive)
    <2>1. <<>> \in Seq(Rule)  OBVIOUS
    <2>2. CASE logged /\ ~ alive
      BY <1>0, <2>1, <2>2 DEF Visiting
    <2>3. CASE ~ (logged /\ ~ alive)
      <3>1. ended = [visit[v] EXCEPT !.step = "gone", !.rows = <<>>, !.logged = logged, !.to = Picks(v)]
        BY <2>3
      <3> HIDE DEF ended
      <3> QED  BY <1>0, <1>3, <2>1, <2>3, <3>1 DEF Visiting
    <2> QED  BY <2>2, <2>3
  <1> HIDE DEF ended
  <1>6. RedirectsTypeOK'
    BY <1>0, <1>2, <1>4, <1>5 DEF RedirectsTypeOK
  <1>7. \A u \in Visitors : visit'[u] = IF u = v THEN ended ELSE visit[u]
    BY <1>0, <1>4 DEF RedirectsTypeOK
  <1>8. ASSUME NEW u \in Visitors PROVE VisitSees(u)'
    <2>1. CASE u = v
      BY <1>5, <1>7, <2>1 DEF VisitSees
    <2>2. CASE u # v
      BY <1>2, <1>7, <2>2, VisitSeesAsBefore
    <2> QED  BY <2>1, <2>2
  <1>9. GoesWhereItLed'
    <2>1. MayGo(v, Picks(v))  BY <1>0, GoesNow
    <2>2. "link" \in during[v].changed <=> ~ alive
      BY <1>0 DEF RedirectsInv, VisitSees, HasSeen
    <2>3. ended.step = "gone" =>
            \/ ended.to \in during[v].led
            \/ {"rules", "time"} \subseteq during[v].since
            \/ /\ ended.to = ended.destination
               /\ \/ "destination" \in during[v].changed /\ during[v].changed \cap {"rules", "time"} # {}
                  \/ "link" \in during[v].changed /\ ~ ended.logged
      BY <1>5, <2>1, <2>2 DEF MayGo
    <2> QED  BY <1>2, <1>7, <2>3 DEF RedirectsInv, GoesWhereItLed
  <1>10. RulesWent'  BY <1>2 DEF RedirectsInv, RulesWent
  <1> QED  BY <1>6, <1>8, <1>9, <1>10 DEF RedirectsInv

LEMMA RedirectsStep ==
    ASSUME RedirectsAssumption, RedirectsInv, [RedirectsNext]_redirectVars
    PROVE  RedirectsInv'
  <1>1. CASE UNCHANGED redirectVars
    <2>1. \A v \in Visitors : VisitSees(v)'
      BY <1>1, VisitSeesAsBefore DEF redirectVars
    <2> QED
      BY <1>1, <2>1 DEF redirectVars, RedirectsInv, RedirectsTypeOK, RulesWent, GoesWhereItLed
  <1> QED
    BY <1>1, FollowKeepsVisits, ReadRulesKeepsVisits, RedirectKeepsVisits, EditsKeepVisits
       DEF RedirectsNext

LEMMA RedirectsStart ==
    ASSUME RedirectsAssumption, RedirectsInit
    PROVE  RedirectsInv
  <1>1. 0 \in 0 .. MaxTime /\ 0 \in 0 .. MaxEdits  BY DEF RedirectsAssumption
  <1>2. RedirectsTypeOK
    BY <1>1 DEF RedirectsInit, RedirectsTypeOK, Visiting
  <1> QED  BY <1>2 DEF RedirectsInv, RedirectsInit, VisitSees, GoesWhereItLed, RulesWent

\* At any moment one of two rules that share the time out matches.
LEMMA OneOfTheTwoMatches ==
    ASSUME RedirectsAssumption, RedirectsTypeOK
    PROVE  SchedulesMissNobody
  <1> SUFFICES ASSUME NEW v \in Visitors, visit[v].step = "read",
                      NEW j \in DOMAIN visit[v].rows, NEW k \in DOMAIN visit[v].rows,
                      NEW d \in 0 .. MaxTime,
                      [type |-> "before", value |-> d] \in visit[v].rows[j].conditions,
                      visit[v].rows[k].conditions =
                         (visit[v].rows[j].conditions \ {[type |-> "before", value |-> d]})
                            \cup {[type |-> "after", value |-> d]},
                      \A c \in visit[v].rows[j].conditions \ {[type |-> "before", value |-> d]} :
                         EvaluateCondition(c, visit[v].facts, time)
               PROVE  PickTarget(visit[v].rows, Nothing, visit[v].facts, time) # Nothing
    BY DEF SchedulesMissNobody
  <1> DEFINE before == [type |-> "before", value |-> d]
             after  == [type |-> "after", value |-> d]
             rows   == visit[v].rows
             facts  == visit[v].facts
  <1>1. time \in Nat /\ d \in Nat  BY DEF RedirectsTypeOK, RedirectsAssumption
  <1>2. rows \in Seq(Rule)  BY DEF RedirectsTypeOK, Visiting
  <1>3. \E i \in DOMAIN rows : RuleMatches(rows[i], facts, time)
    <2>1. CASE time < d
      <3>1. EvaluateCondition(before, facts, time)  BY <2>1 DEF EvaluateCondition
      <3>2. RuleMatches(rows[j], facts, time)  BY <3>1 DEF RuleMatches
      <3> QED  BY <3>2
    <2>2. CASE time >= d
      <3>1. EvaluateCondition(after, facts, time)  BY <2>2 DEF EvaluateCondition
      <3>2. RuleMatches(rows[k], facts, time)  BY <3>1 DEF RuleMatches
      <3> QED  BY <3>2
    <2> QED  BY <1>1, <2>1, <2>2
  <1> HIDE DEF rows, facts
  <1>4. PickTarget(rows, Nothing, facts, time) \in Targets  BY <1>2, <1>3, FirstMatch
  <1> QED  BY <1>4 DEF RedirectsAssumption, rows, facts

\* A visitor goes where the link led at a moment of their visit, for any rules, editors and visitors,
\* but as GoesWhereItLed excepts; rules that share the time out miss nobody (urls.py,
\* redirect_rules.py).
THEOREM VisitorsAreLed ==
    ASSUME RedirectsAssumption
    PROVE  RedirectsSpec => []VisitorsGoWhereItLeads
  <1>1. RedirectsInit => RedirectsInv  BY RedirectsStart
  <1>2. RedirectsInv /\ [RedirectsNext]_redirectVars => RedirectsInv'  BY RedirectsStep
  <1>3. RedirectsInv => VisitorsGoWhereItLeads
    BY OneOfTheTwoMatches DEF RedirectsInv, VisitorsGoWhereItLeads
  <1> QED  BY <1>1, <1>2, <1>3, PTL DEF RedirectsSpec

-----------------------------------------------------------------------------
(* Who the MCP server lets in.                                              *)

Calling == [step : {"idle", "stored", "refreshed", "ask", "answered", "known", "let in"},
            began : Ticks, task : Tasks, token : Tokens \cup {Nil}, check : Check \cup {Nil}]
Letting == [check : Check, began : Ticks]

\* A check that is kept is of a call that asked Google at most Delay before, and is no longer good
\* Kept later, or when the token expires.
CheckSound(check) ==
    /\ check.until <= tick + Kept /\ check.until <= check.expires
    /\ left[check.of] # Nil => check.until <= left[check.of] + Delay + Kept

\* A call is as old as a call may be, at most; what it knows of its token was good when it began, or
\* is good since; the account was open since it began, if it was looked up.
CallSound(x) ==
    /\ x.step # "idle" => x.began <= tick /\ tick <= x.began + Delay
    /\ x.step \in {"stored", "refreshed", "ask", "answered"} => x.token \in Tokens
    /\ x.step \in {"answered", "known", "let in"} => x.check \in Check /\ x.began < x.check.expires
    /\ x.step = "answered" /\ left[x.check.of] # Nil => x.began <= left[x.check.of]
    /\ x.step \in {"known", "let in"} /\ left[x.check.of] # Nil =>
          x.began < left[x.check.of] + Delay + Kept
    /\ x.step = "let in" /\ closed[x.check.of] # Nil => x.began <= closed[x.check.of]

KeptSound(list) == /\ list \in Seq(Check) /\ Len(list) <= Most
                   /\ \A i \in DOMAIN list : CheckSound(list[i])

McpInv ==
    /\ McpTypeOK
    /\ kept = [k \in Tasks |-> kept[k]] /\ \A k \in Tasks : KeptSound(kept[k])
    /\ call \in [Calls -> Calling] /\ \A c \in Calls : CallSound(call[c])
    /\ let # Nil => let \in Letting /\ let.began <= tick
    /\ AccessEnds

LEMMA McpNumbers ==
    ASSUME McpAssumption
    PROVE  /\ Kept \in Nat /\ Most \in Nat /\ Life \in Nat /\ Delay \in Nat /\ LastTick \in Nat
           /\ Kept > 0 /\ Most > 0 /\ Delay > 0
  BY DEF McpAssumption

LEMMA TimesAreNumbers ==
    ASSUME McpAssumption, McpInv
    PROVE  /\ tick \in Nat /\ tick \in Ticks
           /\ \A p \in Holders : left[p] # Nil => left[p] \in Nat
           /\ \A p \in Holders : closed[p] # Nil => closed[p] \in Nat
  <1>1. Ticks \subseteq Nat  BY McpNumbers DEF Ticks
  <1> QED  BY <1>1 DEF McpInv, McpTypeOK

LEMMA CallNumbers ==
    ASSUME McpAssumption, NEW x \in Calling
    PROVE  x.began \in Nat /\ x.began \in Ticks
  <1>1. Ticks \subseteq Nat  BY McpNumbers DEF Ticks
  <1>2. x.began \in Ticks  BY DEF Calling
  <1> QED  BY <1>1, <1>2

LEMMA CheckNumbers ==
    ASSUME NEW check \in Check
    PROVE  check.of \in Holders /\ check.until \in Nat /\ check.expires \in Nat
  BY DEF Check

LEMMA RestingIsSound ==
    ASSUME McpAssumption
    PROVE  Resting \in Calling /\ CallSound(Resting) /\ Resting.step = "idle"
  <1>1. (CHOOSE k \in Tasks : TRUE) \in Tasks  BY DEF McpAssumption
  <1>2. 0 \in Ticks  BY McpNumbers DEF Ticks
  <1>3. Resting \in Calling /\ Resting.step = "idle"  BY <1>1, <1>2 DEF Resting, Calling
  <1> QED  BY <1>3 DEF CallSound

\* A call goes on: the clock and the accounts are as they were.
LEMMA CallGoesOn ==
    ASSUME McpInv, NEW c \in Calls, NEW x \in Calling, CallSound(x),
           call' = [call EXCEPT ![c] = x], UNCHANGED <<tick, left, closed>>,
           stored' \in [Tokens -> Stored \cup {Nil}],
           kept' = [k \in Tasks |-> kept'[k]], \A k \in Tasks : KeptSound(kept'[k]),
           let' # Nil => let' \in Letting /\ let'.began <= tick, AccessEnds'
    PROVE  McpInv'
  <1>1. call' \in [Calls -> Calling] /\ \A d \in Calls : CallSound(call'[d])
    BY DEF McpInv
  <1>2. \A d \in Calls : CallSound(call[d])'
    BY <1>1 DEF CallSound
  <1>3. \A k \in Tasks : KeptSound(kept[k])'
    BY DEF KeptSound, CheckSound
  <1>4. McpTypeOK'
    BY DEF McpInv, McpTypeOK, KeptSound
  <1> QED  BY <1>1, <1>2, <1>3, <1>4 DEF McpInv

LEMMA StoresStep ==
    ASSUME McpAssumption, McpInv, NEW c \in Calls, NEW p \in Holders,
           NEW step \in {"stored", "refreshed"}, Stores(c, p, step),
           UNCHANGED <<tick, left, closed, kept, let>>
    PROVE  McpInv'
  <1>1. PICK t \in Tokens, k \in Tasks :
           /\ stored' = Write(t, [of |-> p, expires |-> tick + Life, out |-> FALSE])
           /\ call' = [call EXCEPT ![c] = [Resting EXCEPT !.step = step, !.began = tick, !.task = k, !.token = t]]
    BY DEF Stores
  <1> DEFINE x == [Resting EXCEPT !.step = step, !.began = tick, !.task = k, !.token = t]
             row == [of |-> p, expires |-> tick + Life, out |-> FALSE]
  <1>2. tick \in Ticks /\ tick \in Nat  BY McpNumbers DEF McpInv, McpTypeOK, Ticks
  <1>3. x \in Calling /\ x.step = step /\ x.began = tick /\ x.token = t
    BY <1>2, RestingIsSound DEF Calling
  <1>4. call' = [call EXCEPT ![c] = x]  BY <1>1
  <1>5. row \in Stored  BY <1>2, McpNumbers DEF Stored
  <1>6. stored' = Write(t, row)  BY <1>1
  <1> HIDE DEF x, row
  <1>7. CallSound(x)
    <2>1. tick <= tick /\ tick <= tick + Delay  BY <1>2, McpNumbers
    <2> QED  BY <1>3, <2>1 DEF CallSound
  <1>8. stored' \in [Tokens -> Stored \cup {Nil}]
    BY <1>5, <1>6 DEF Write, McpInv, McpTypeOK
  <1>9. AccessEnds'  BY DEF AccessEnds, McpInv
  <1> QED  BY <1>3, <1>4, <1>7, <1>8, <1>9, CallGoesOn DEF McpInv

\* A call that ends, or goes on to what it needs to know no more for.
LEMMA CallEndsSound ==
    ASSUME McpAssumption, McpInv, NEW c \in Calls, UNCHANGED <<tick, left, closed, kept, let>>,
           stored' \in [Tokens -> Stored \cup {Nil}],
           EndsCall(c) \/ \E x \in Calling : CallSound(x) /\ call' = [call EXCEPT ![c] = x]
    PROVE  McpInv'
  <1>1. PICK x \in Calling : CallSound(x) /\ call' = [call EXCEPT ![c] = x]
    BY RestingIsSound DEF EndsCall
  <1>2. AccessEnds'  BY DEF AccessEnds, McpInv
  <1> QED  BY <1>1, <1>2, CallGoesOn DEF McpInv

LEMMA TokensStep ==
    ASSUME McpAssumption, McpInv, NEW c \in Calls,
           Exchange(c) \/ Issue(c) \/ Refresh(c) \/ CheckRefreshed(c)
    PROVE  McpInv'
  <1>0. stored \in [Tokens -> Stored \cup {Nil}] /\ call[c] \in Calling /\ CallSound(call[c])
    BY DEF McpInv, McpTypeOK
  <1>1. CASE Exchange(c)
    BY <1>1, StoresStep DEF Exchange
  <1>2. CASE Refresh(c)
    <2>1. PICK old \in Tokens : stored[old] # Nil /\ Stores(c, stored[old].of, "refreshed")
      BY <1>2 DEF Refresh
    <2>2. stored[old].of \in Holders  BY <1>0, <2>1 DEF Stored
    <2> QED  BY <1>2, <2>1, <2>2, StoresStep DEF Refresh
  <1>3. CASE Issue(c)
    <2> DEFINE t == call[c].token
    <2>1. t \in Tokens  BY <1>0, <1>3 DEF Issue, CallSound
    <2>2. stored' \in [Tokens -> Stored \cup {Nil}]
      <3>1. CASE stored[t] # Nil /\ closed[stored[t].of] = Nil
        <4>1. stored' = [stored EXCEPT ![t].out = TRUE]  BY <1>3, <3>1 DEF Issue
        <4>2. stored[t] \in Stored  BY <1>0, <2>1, <3>1
        <4>3. [stored[t] EXCEPT !.out = TRUE] \in Stored  BY <4>2 DEF Stored
        <4> QED  BY <1>0, <2>1, <4>1, <4>3
      <3>2. CASE ~(stored[t] # Nil /\ closed[stored[t].of] = Nil)
        BY <1>0, <1>3, <3>2 DEF Issue
      <3> QED  BY <3>1, <3>2
    <2> QED  BY <1>3, <2>2, CallEndsSound DEF Issue
  <1>4. CASE CheckRefreshed(c)
    <2> DEFINE x == [call[c] EXCEPT !.step = "stored"]
    <2>1. x \in Calling /\ x.step = "stored" /\ x.began = call[c].began /\ x.token = call[c].token
      BY <1>0 DEF Calling
    <2>2. CASE Goes(c, "stored")
      <3>1. call' = [call EXCEPT ![c] = x]  BY <2>2 DEF Goes
      <3> HIDE DEF x
      <3>2. CallSound(x)  BY <1>0, <1>4, <2>1 DEF CallSound, CheckRefreshed
      <3> QED  BY <1>0, <1>4, <2>1, <3>1, <3>2, CallEndsSound DEF CheckRefreshed
    <2> QED  BY <1>0, <1>4, <2>2, CallEndsSound DEF CheckRefreshed
  <1> QED  BY <1>1, <1>2, <1>3, <1>4

-----------------------------------------------------------------------------
(* The checks that are kept.                                                *)

LEMMA DropKeepsSound ==
    ASSUME NEW list, KeptSound(list), NEW t \in Tokens, Most \in Nat
    PROVE  KeptSound(Drop(list, t))
  <1> DEFINE same == {i \in DOMAIN list : list[i].token = t}
  <1>1. CASE same = {}
    BY <1>1 DEF Drop
  <1>2. CASE same # {}
    <2>1. PICK i \in DOMAIN list : Drop(list, t) = RemoveAt(list, i)
      BY <1>2 DEF Drop
    <2>2. list \in Seq(Check) /\ i \in 1 .. Len(list) /\ Len(list) \in Nat  BY DEF KeptSound
    <2> DEFINE a == SubSeq(list, 1, i - 1)
               b == SubSeq(list, i + 1, Len(list))
    <2>3. a \in Seq(Check) /\ Len(a) = i - 1 /\ \A j \in 1 .. i - 1 : a[j] = list[j]
      BY <2>2
    <2>4. b \in Seq(Check) /\ Len(b) = Len(list) - i /\ \A j \in 1 .. Len(list) - i : b[j] = list[i + j]
      BY <2>2
    <2> HIDE DEF a, b
    <2>5. a \o b \in Seq(Check) /\ Len(a \o b) = Len(list) - 1
      BY <2>2, <2>3, <2>4
    <2>6. \A j \in 1 .. Len(a \o b) : \E k \in DOMAIN list : (a \o b)[j] = list[k]
      <3> SUFFICES ASSUME NEW j \in 1 .. Len(list) - 1 PROVE \E k \in DOMAIN list : (a \o b)[j] = list[k]
        BY <2>5
      <3>1. CASE j <= i - 1
        BY <2>2, <2>3, <2>4, <3>1
      <3>2. CASE j > i - 1
        <4>5. Len(a) = i - 1 /\ Len(b) = Len(list) - i /\ Len(list) \in Nat /\ i \in Int /\ j \in Int
              /\ j <= Len(list) - 1
          BY <2>2, <2>3, <2>4
        <4>6. a \in Seq(Check) /\ b \in Seq(Check)  BY <2>3, <2>4
        <4>0. j \in 1 .. Len(a) + Len(b) /\ ~(j <= Len(a))  BY <3>2, <4>5
        <4>7. \A n \in 1 .. Len(a) + Len(b) : (a \o b)[n] = IF n <= Len(a) THEN a[n] ELSE b[n - Len(a)]
          BY <4>6, ConcatProperties
        <4>1. (a \o b)[j] = b[j - Len(a)]  BY <4>0, <4>7
        <4>2. j - (i - 1) \in 1 .. Len(list) - i  BY <2>2, <3>2
        <4>3. b[j - (i - 1)] = list[j + 1]  BY <2>2, <2>4, <4>2
        <4>4. j - Len(a) = j - (i - 1) /\ j + 1 \in DOMAIN list  BY <2>2, <2>3
        <4> QED  BY <4>1, <4>3, <4>4
      <3>3. j \in Int /\ i \in Int  BY <2>2
      <3>4. j <= i - 1 \/ j > i - 1  BY <3>3
      <3> QED  BY <3>1, <3>2, <3>4
    <2>7. DOMAIN (a \o b) = 1 .. Len(a \o b)  BY <2>5
    <2>8. KeptSound(a \o b)  BY <2>2, <2>5, <2>6, <2>7 DEF KeptSound
    <2> QED  BY <2>1, <2>8 DEF RemoveAt, a, b
  <1> QED  BY <1>1, <1>2

LEMMA PutKeepsSound ==
    ASSUME NEW list, KeptSound(list), NEW check \in Check, CheckSound(check), Most \in Nat, Most > 0
    PROVE  KeptSound(Put(list, check))
  <1> DEFINE same == {i \in DOMAIN list : list[i].token = check.token}
             all == IF same = {} THEN Append(list, check)
                    ELSE [i \in DOMAIN list |-> IF i \in same THEN check ELSE list[i]]
  <1>1. list \in Seq(Check) /\ Len(list) <= Most /\ Len(list) \in Nat /\ DOMAIN list = 1 .. Len(list)
    BY DEF KeptSound
  <1>2. /\ all \in Seq(Check) /\ Len(all) <= Most + 1 /\ Len(all) \in Nat
        /\ \A i \in 1 .. Len(all) : CheckSound(all[i])
    <2>1. CASE same = {}
      <3>1. all = Append(list, check)  BY <2>1
      <3> HIDE DEF all
      <3> QED  BY <1>1, <3>1 DEF KeptSound
    <2>2. CASE same # {}
      <3>1. all = [i \in 1 .. Len(list) |-> IF i \in same THEN check ELSE list[i]]
        BY <1>1, <2>2
      <3> HIDE DEF all
      <3>2. all \in Seq(Check) /\ Len(all) = Len(list)
        BY <1>1, <3>1
      <3> QED  BY <1>1, <3>1, <3>2 DEF KeptSound
    <2> QED  BY <2>1, <2>2
  <1>3. Put(list, check) = IF Len(all) > Most THEN Tail(all) ELSE all  BY DEF Put
  <1> HIDE DEF all
  <1>4. DOMAIN all = 1 .. Len(all)  BY <1>2
  <1>5. CASE Len(all) > Most
    <2>1. Tail(all) \in Seq(Check) /\ Len(Tail(all)) = Len(all) - 1 /\ DOMAIN Tail(all) = 1 .. Len(all) - 1
      BY <1>2, <1>5
    <2>2. \A i \in 1 .. Len(all) - 1 : Tail(all)[i] = all[i + 1]
      BY <1>2, <1>5
    <2> QED  BY <1>2, <1>3, <1>5, <2>1, <2>2 DEF KeptSound
  <1>6. CASE ~(Len(all) > Most)
    BY <1>2, <1>3, <1>4, <1>6 DEF KeptSound
  <1> QED  BY <1>5, <1>6

-----------------------------------------------------------------------------
(* A request.                                                               *)

LEMMA RequestStep ==
    ASSUME McpAssumption, McpInv, NEW c \in Calls, Request(c)
    PROVE  McpInv'
  <1>0. UNCHANGED <<tick, left, closed, stored, let>> /\ tick \in Ticks /\ tick \in Nat
    BY McpNumbers DEF Request, McpInv, McpTypeOK, Ticks
  <1>1. AccessEnds' /\ (let' # Nil => let' \in Letting /\ let'.began <= tick)
        /\ stored' \in [Tokens -> Stored \cup {Nil}]
    BY <1>0 DEF AccessEnds, McpInv, McpTypeOK
  <1>2. PICK k \in Tasks, t \in Tokens :
           LET found == {kept[k][i] : i \in OfToken(k, t)}
               good  == {check \in found : StillGood(check)}
               began == [Resting EXCEPT !.began = tick, !.task = k, !.token = t]
           IN  IF good # {}
               THEN /\ call' = [call EXCEPT ![c] = [began EXCEPT !.step = "known",
                                                                 !.check = CHOOSE check \in good : TRUE]]
                    /\ UNCHANGED kept
               ELSE /\ call' = [call EXCEPT ![c] = [began EXCEPT !.step = "ask"]]
                    /\ kept' = [kept EXCEPT ![k] = Drop(@, t)]
    BY DEF Request
  <1> DEFINE good == {check \in {kept[k][i] : i \in OfToken(k, t)} : StillGood(check)}
             began == [Resting EXCEPT !.began = tick, !.task = k, !.token = t]
  <1>3. began \in Calling /\ began.began = tick /\ began.token = t
    BY <1>0, RestingIsSound DEF Calling
  <1>4. CASE good # {}
    <2> DEFINE check == CHOOSE check \in good : TRUE
               x == [began EXCEPT !.step = "known", !.check = check]
    <2>1. check \in good  BY <1>4
    <2>2. call' = [call EXCEPT ![c] = x] /\ kept' = kept  BY <1>2, <1>4
    <2> HIDE DEF check
    <2>3. PICK i \in OfToken(k, t) : check = kept[k][i] /\ StillGood(check)  BY <2>1
    <2>4. check \in Check /\ CheckSound(check)
      BY <2>3 DEF OfToken, McpInv, KeptSound
    <2> HIDE DEF began
    <2>5. x \in Calling /\ x.step = "known" /\ x.began = tick /\ x.check = check
      BY <1>3, <2>4 DEF Calling
    <2> HIDE DEF x
    <2>6. check.of \in Holders /\ check.until \in Nat /\ check.expires \in Nat  BY <2>4 DEF Check
    <2>7. left[check.of] \in Nat \cup {Nil}  BY <2>6, McpNumbers DEF McpInv, McpTypeOK, Ticks
    <2>8. CallSound(x)
      BY <1>0, <2>3, <2>4, <2>5, <2>6, <2>7, McpNumbers DEF CallSound, CheckSound, StillGood
    <2> QED  BY <1>0, <1>1, <2>2, <2>5, <2>8, CallGoesOn DEF McpInv
  <1>5. CASE good = {}
    <2> DEFINE x == [began EXCEPT !.step = "ask"]
    <2>1. call' = [call EXCEPT ![c] = x] /\ kept' = [kept EXCEPT ![k] = Drop(kept[k], t)]
      BY <1>2, <1>5
    <2> HIDE DEF began
    <2>2. x \in Calling /\ x.step = "ask" /\ x.began = tick /\ x.token = t
      BY <1>3 DEF Calling
    <2> HIDE DEF x
    <2>3. CallSound(x)  BY <1>0, <2>2, McpNumbers DEF CallSound
    <2>4. KeptSound(Drop(kept[k], t))  BY DropKeepsSound, McpNumbers DEF McpInv
    <2>5. kept' = [l \in Tasks |-> kept'[l]] /\ \A l \in Tasks : KeptSound(kept'[l])
      BY <2>1, <2>4 DEF McpInv
    <2> QED  BY <1>0, <1>1, <2>1, <2>2, <2>3, <2>5, CallGoesOn
  <1> QED  BY <1>4, <1>5

LEMMA AskStep ==
    ASSUME McpAssumption, McpInv, NEW c \in Calls, AskGoogle(c)
    PROVE  McpInv'
  <1> DEFINE t == call[c].token
  <1>0. /\ UNCHANGED <<tick, left, closed, stored, kept, let>> /\ call[c].step = "ask"
        /\ call[c] \in Calling /\ CallSound(call[c]) /\ t \in Tokens
        /\ stored \in [Tokens -> Stored \cup {Nil}] /\ tick \in Nat
    <2>1. call[c] \in Calling /\ CallSound(call[c]) /\ call[c].step = "ask"
      BY DEF McpInv, AskGoogle
    <2>2. t \in Tokens  BY <2>1 DEF CallSound
    <2> QED  BY <2>1, <2>2, TimesAreNumbers DEF AskGoogle, McpInv, McpTypeOK
  <1>1. CASE Good(t)
    <2>1. stored[t] \in Stored /\ left[stored[t].of] = Nil /\ tick < stored[t].expires
      BY <1>0, <1>1 DEF Good
    <2> DEFINE check == [token |-> t, until |-> 0, of |-> stored[t].of, expires |-> stored[t].expires]
               x == [call[c] EXCEPT !.step = "answered", !.check = check]
    <2>2. check \in Check /\ check.of = stored[t].of /\ check.expires = stored[t].expires
      BY <1>0, <2>1 DEF Check, Stored
    <2>3. call' = [call EXCEPT ![c] = x]
      <3>1. call' = [call EXCEPT ![c].step = "answered", ![c].check = check]
        BY <1>1 DEF AskGoogle
      <3>2. call \in [Calls -> Calling]  BY DEF McpInv
      <3> HIDE DEF check
      <3> QED  BY <1>0, <3>1, <3>2 DEF Calling
    <2> HIDE DEF check
    <2>4. /\ x \in Calling /\ x.step = "answered" /\ x.began = call[c].began /\ x.token = t
          /\ x.check = check
      BY <1>0, <2>2 DEF Calling
    <2> HIDE DEF x
    <2>5. call[c].began \in Nat /\ check.expires \in Nat
      BY <1>0, <2>2, CallNumbers, CheckNumbers
    <2>6. CallSound(x)
      <3>1. call[c].began <= tick /\ tick <= call[c].began + Delay  BY <1>0 DEF CallSound
      <3>2. call[c].began < check.expires  BY <1>0, <2>1, <2>2, <2>5, <3>1
      <3> QED  BY <1>0, <2>1, <2>2, <2>4, <3>1, <3>2 DEF CallSound
    <2> QED  BY <1>0, <2>3, <2>4, <2>6, CallEndsSound
  <1>2. CASE ~Good(t)
    BY <1>0, <1>2, CallEndsSound DEF AskGoogle
  <1> QED  BY <1>1, <1>2

LEMMA KeepStep ==
    ASSUME McpAssumption, McpInv, NEW c \in Calls, KeepCheck(c)
    PROVE  McpInv'
  <1> DEFINE had == call[c].check
             until == Sooner(tick + Kept, had.expires)
             check == [had EXCEPT !.until = until]
             x == [call[c] EXCEPT !.step = "known", !.check = check]
  <1>0. /\ UNCHANGED <<tick, left, closed, stored, let>> /\ call[c].step = "answered"
        /\ call[c] \in Calling /\ CallSound(call[c]) /\ had \in Check
        /\ stored' \in [Tokens -> Stored \cup {Nil}] /\ tick \in Nat
    <2>1. call[c] \in Calling /\ CallSound(call[c]) /\ call[c].step = "answered"
      BY DEF McpInv, KeepCheck
    <2>2. had \in Check  BY <2>1 DEF CallSound
    <2> QED  BY <2>1, <2>2, TimesAreNumbers DEF KeepCheck, McpInv, McpTypeOK
  <1>1. /\ call[c].began \in Nat /\ had.expires \in Nat /\ had.of \in Holders
        /\ left[had.of] # Nil => left[had.of] \in Nat
    BY <1>0, CallNumbers, CheckNumbers, TimesAreNumbers
  <1>2. until \in Nat /\ until <= tick + Kept /\ until <= had.expires
    BY <1>0, <1>1, McpNumbers DEF Sooner
  <1>3. call' = [call EXCEPT ![c] = x]
    <2>1. call' = [call EXCEPT ![c].step = "known", ![c].check = check]
      BY DEF KeepCheck
    <2>2. call \in [Calls -> Calling]  BY DEF McpInv
    <2> HIDE DEF check
    <2> QED  BY <1>0, <2>1, <2>2 DEF Calling
  <1>4. kept' = [kept EXCEPT ![call[c].task] = Put(kept[call[c].task], check)]
    BY DEF KeepCheck
  <1> HIDE DEF until
  <1>5. /\ check \in Check /\ check.until = until /\ check.of = had.of
        /\ check.expires = had.expires
    BY <1>0, <1>2 DEF Check
  <1> HIDE DEF check
  <1>6. /\ x \in Calling /\ x.step = "known" /\ x.began = call[c].began /\ x.check = check
    BY <1>0, <1>5 DEF Calling
  <1> HIDE DEF x
  <1>7. CheckSound(check)
    <2>1. /\ tick <= call[c].began + Delay
          /\ left[had.of] # Nil => call[c].began <= left[had.of]
      BY <1>0 DEF CallSound
    <2>2. left[had.of] # Nil => until <= left[had.of] + Delay + Kept
      BY <1>0, <1>1, <1>2, <2>1, McpNumbers
    <2> QED  BY <1>2, <1>5, <2>2 DEF CheckSound
  <1>8. CallSound(x)
    <2>1. /\ call[c].began <= tick /\ tick <= call[c].began + Delay /\ call[c].began < had.expires
          /\ left[had.of] # Nil => call[c].began <= left[had.of]
      BY <1>0 DEF CallSound
    <2>2. left[had.of] # Nil => call[c].began < left[had.of] + Delay + Kept
      BY <1>1, <2>1, McpNumbers
    <2> QED  BY <1>0, <1>5, <1>6, <2>1, <2>2 DEF CallSound
  <1>9. call[c].task \in Tasks  BY <1>0 DEF Calling
  <1>10. KeptSound(Put(kept[call[c].task], check))
    BY <1>5, <1>7, <1>9, PutKeepsSound, McpNumbers DEF McpInv
  <1>11. kept' = [k \in Tasks |-> kept'[k]] /\ \A k \in Tasks : KeptSound(kept'[k])
    BY <1>4, <1>9, <1>10 DEF McpInv
  <1>12. AccessEnds'  BY <1>0 DEF AccessEnds, McpInv
  <1> QED  BY <1>0, <1>3, <1>6, <1>8, <1>11, <1>12, CallGoesOn DEF McpInv

LEMMA LookUpStep ==
    ASSUME McpAssumption, McpInv, NEW c \in Calls, LookUp(c)
    PROVE  McpInv'
  <1> DEFINE x == [call[c] EXCEPT !.step = "let in"]
  <1>0. /\ UNCHANGED <<tick, left, closed, stored, kept, let>> /\ call[c].step = "known"
        /\ call[c] \in Calling /\ CallSound(call[c]) /\ stored' \in [Tokens -> Stored \cup {Nil}]
    BY DEF LookUp, McpInv, McpTypeOK
  <1>1. CASE closed[call[c].check.of] = Nil
    <2>1. call' = [call EXCEPT ![c] = x]  BY <1>1 DEF LookUp, Goes
    <2>2. x \in Calling /\ x.step = "let in" /\ x.began = call[c].began /\ x.check = call[c].check
      BY <1>0 DEF Calling
    <2> HIDE DEF x
    <2>3. CallSound(x)  BY <1>0, <1>1, <2>2 DEF CallSound
    <2> QED  BY <1>0, <2>1, <2>2, <2>3, CallEndsSound
  <1>2. CASE closed[call[c].check.of] # Nil
    BY <1>0, <1>2, CallEndsSound DEF LookUp
  <1> QED  BY <1>1, <1>2

LEMMA LetInStep ==
    ASSUME McpAssumption, McpInv, NEW c \in Calls, LetIn(c)
    PROVE  McpInv'
  <1> DEFINE x == call[c]
             new == [check |-> x.check, began |-> x.began]
  <1>0. /\ UNCHANGED <<tick, left, closed, stored, kept>> /\ x.step = "let in" /\ let' = new
        /\ x \in Calling /\ CallSound(x) /\ stored' \in [Tokens -> Stored \cup {Nil}] /\ tick \in Nat
    BY TimesAreNumbers DEF LetIn, McpInv, McpTypeOK
  <1>1. /\ x.check \in Check /\ x.began \in Ticks /\ x.began \in Nat /\ x.check.expires \in Nat
        /\ x.check.of \in Holders
    <2>1. x.check \in Check  BY <1>0 DEF CallSound
    <2> QED  BY <1>0, <2>1, CallNumbers, CheckNumbers
  <1>2. left[x.check.of] # Nil => left[x.check.of] \in Nat
    BY <1>1, TimesAreNumbers
  <1>3. new \in Letting /\ new.check = x.check /\ new.began = x.began  BY <1>1 DEF Letting
  <1>4. x.began <= tick /\ tick <= x.began + Delay  BY <1>0 DEF CallSound
  <1>5. AccessEnds'
    <2>1. /\ x.began < x.check.expires
          /\ left[x.check.of] # Nil => x.began < left[x.check.of] + Delay + Kept
          /\ closed[x.check.of] # Nil => x.began <= closed[x.check.of]
      BY <1>0 DEF CallSound
    <2> DEFINE began == x.began
               expires == x.check.expires
               went == left[x.check.of]
    <2>2. tick \in Nat /\ began \in Nat /\ expires \in Nat /\ (went # Nil => went \in Nat)
      BY <1>0, <1>1, <1>2
    <2>3. /\ tick <= began + Delay /\ began < expires
          /\ went # Nil => began < went + Delay + Kept
      BY <1>4, <2>1
    <2> HIDE DEF began, expires, went
    <2>4. tick < expires + Delay  BY <2>2, <2>3, McpNumbers
    <2>5. went # Nil => tick < went + Delay + Kept + Delay  BY <2>2, <2>3, McpNumbers
    <2> QED  BY <1>0, <1>3, <2>1, <2>4, <2>5 DEF AccessEnds, expires, went
  <1>6. call' = [call EXCEPT ![c] = Resting]  BY DEF LetIn, EndsCall
  <1> HIDE DEF new
  <1> QED  BY <1>0, <1>3, <1>4, <1>5, <1>6, RestingIsSound, CallGoesOn DEF McpInv

-----------------------------------------------------------------------------
(* Meanwhile.                                                               *)

LEMMA SuspendStep ==
    ASSUME McpAssumption, McpInv, Suspend
    PROVE  McpInv'
  <1>1. PICK p \in Holders : left[p] = Nil /\ left' = [left EXCEPT ![p] = tick]
    BY DEF Suspend
  <1>2. UNCHANGED <<tick, closed, stored, kept, call, let>> /\ tick \in Ticks /\ tick \in Nat
    BY TimesAreNumbers DEF Suspend
  <1>3. /\ left \in [Holders -> Ticks \cup {Nil}]
        /\ \A q \in Holders : left'[q] = IF q = p THEN tick ELSE left[q]
    BY <1>1 DEF McpInv, McpTypeOK
  <1>4. McpTypeOK'  BY <1>1, <1>2 DEF McpInv, McpTypeOK
  <1>5. ASSUME NEW check \in Check, CheckSound(check) PROVE CheckSound(check)'
    <2>1. check.of \in Holders /\ check.until \in Nat  BY DEF Check
    <2> QED  BY <1>2, <1>3, <1>5, <2>1, McpNumbers DEF CheckSound
  <1>6. \A k \in Tasks : KeptSound(kept[k])'
    BY <1>2, <1>5 DEF McpInv, KeptSound
  <1>7. ASSUME NEW c \in Calls PROVE CallSound(call[c])'
    <2> DEFINE x == call[c]
    <2>1. x \in Calling /\ CallSound(x) /\ x.began \in Nat  BY CallNumbers DEF McpInv
    <2>2. x.step \in {"answered", "known", "let in"} => x.check.of \in Holders
      BY <2>1 DEF CallSound, Check
    <2>3. x.step # "idle" => x.began <= tick  BY <2>1 DEF CallSound
    <2>4. x.step # "idle" => x.began < tick + Delay + Kept  BY <1>2, <2>1, <2>3, McpNumbers
    <2> QED  BY <1>2, <1>3, <2>1, <2>2, <2>3, <2>4 DEF CallSound
  <1>8. AccessEnds'
    <2>1. let # Nil => let.check.of \in Holders  BY DEF McpInv, Letting, Check
    <2> QED  BY <1>2, <1>3, <2>1, McpNumbers DEF McpInv, AccessEnds
  <1> QED  BY <1>2, <1>4, <1>6, <1>7, <1>8 DEF McpInv

LEMMA CloseStep ==
    ASSUME McpAssumption, McpInv, Close
    PROVE  McpInv'
  <1>1. PICK p \in Holders : closed[p] = Nil /\ closed' = [closed EXCEPT ![p] = tick]
    BY DEF Close
  <1>2. UNCHANGED <<tick, left, stored, kept, call, let>> /\ tick \in Ticks /\ tick \in Nat
    BY TimesAreNumbers DEF Close
  <1>3. /\ closed \in [Holders -> Ticks \cup {Nil}]
        /\ \A q \in Holders : closed'[q] = IF q = p THEN tick ELSE closed[q]
    BY <1>1 DEF McpInv, McpTypeOK
  <1>4. McpTypeOK'  BY <1>1, <1>2 DEF McpInv, McpTypeOK
  <1>5. \A k \in Tasks : KeptSound(kept[k])'
    BY <1>2 DEF McpInv, KeptSound, CheckSound
  <1>6. ASSUME NEW c \in Calls PROVE CallSound(call[c])'
    <2> DEFINE x == call[c]
    <2>1. x \in Calling /\ CallSound(x) /\ x.began \in Nat  BY CallNumbers DEF McpInv
    <2>2. x.step \in {"answered", "known", "let in"} => x.check.of \in Holders
      BY <2>1 DEF CallSound, Check
    <2> QED  BY <1>2, <1>3, <2>1, <2>2, McpNumbers DEF CallSound
  <1>7. AccessEnds'
    <2>1. let # Nil => let.check.of \in Holders /\ let.began <= tick  BY DEF McpInv, Letting, Check
    <2> QED  BY <1>2, <1>3, <2>1, McpNumbers DEF McpInv, AccessEnds
  <1> QED  BY <1>2, <1>4, <1>5, <1>6, <1>7 DEF McpInv

LEMMA RestartStep ==
    ASSUME McpAssumption, McpInv, Restart
    PROVE  McpInv'
  <1>1. PICK k \in Tasks : /\ kept' = [kept EXCEPT ![k] = <<>>]
                           /\ call' = [c \in Calls |-> IF call[c].task = k THEN Resting ELSE call[c]]
    BY DEF Restart
  <1>2. UNCHANGED <<tick, left, closed, stored, let>>  BY DEF Restart
  <1>3. <<>> \in Seq(Check) /\ Len(<<>>) = 0 /\ DOMAIN <<>> = {}  OBVIOUS
  <1>4. KeptSound(<<>>)  BY <1>3, McpNumbers DEF KeptSound
  <1>5. kept' = [l \in Tasks |-> kept'[l]] /\ \A l \in Tasks : KeptSound(kept'[l])
    BY <1>1, <1>4 DEF McpInv
  <1>6. \A l \in Tasks : KeptSound(kept[l])'
    BY <1>2, <1>5 DEF KeptSound, CheckSound
  <1>7. call' \in [Calls -> Calling] /\ \A c \in Calls : CallSound(call'[c])
    BY <1>1, RestingIsSound DEF McpInv
  <1>8. \A c \in Calls : CallSound(call[c])'  BY <1>2, <1>7 DEF CallSound
  <1>9. McpTypeOK'  BY <1>2, <1>5 DEF McpInv, McpTypeOK, KeptSound
  <1>10. AccessEnds'  BY <1>2 DEF McpInv, AccessEnds
  <1> QED  BY <1>2, <1>5, <1>6, <1>7, <1>8, <1>9, <1>10 DEF McpInv

LEMMA McpTickStep ==
    ASSUME McpAssumption, McpInv, McpTick
    PROVE  McpInv'
  <1>1. /\ tick < LastTick /\ tick' = tick + 1 /\ let' = Nil
        /\ UNCHANGED <<left, closed, stored, kept, call>>
        /\ \A c \in Calls : call[c].step # "idle" => tick < call[c].began + Delay
    BY DEF McpTick
  <1>2. tick \in Nat /\ tick' \in Ticks  BY <1>1, McpNumbers DEF McpInv, McpTypeOK, Ticks
  <1>3. McpTypeOK'  BY <1>1, <1>2 DEF McpInv, McpTypeOK
  <1>4. ASSUME NEW k \in Tasks PROVE KeptSound(kept[k])'
    <2>1. kept[k] \in Seq(Check) /\ KeptSound(kept[k])  BY DEF McpInv, KeptSound
    <2>2. \A i \in DOMAIN kept[k] : kept[k][i] \in Check /\ kept[k][i].until \in Nat
      BY <2>1, CheckNumbers
    <2> QED  BY <1>1, <1>2, <2>1, <2>2, McpNumbers DEF KeptSound, CheckSound
  <1>5. ASSUME NEW c \in Calls PROVE CallSound(call[c])'
    <2>1. call[c] \in Calling /\ CallSound(call[c]) /\ call[c].began \in Nat
      BY CallNumbers DEF McpInv
    <2>2. call[c].step # "idle" => call[c].began <= tick /\ tick < call[c].began + Delay
      BY <1>1, <2>1 DEF CallSound
    <2>3. call[c].step # "idle" => call[c].began <= tick + 1 /\ tick + 1 <= call[c].began + Delay
      BY <1>2, <2>1, <2>2, McpNumbers
    <2> QED  BY <1>1, <2>1, <2>3 DEF CallSound
  <1>6. AccessEnds'  BY <1>1 DEF AccessEnds
  <1> QED  BY <1>1, <1>3, <1>4, <1>5, <1>6 DEF McpInv

LEMMA McpStep ==
    ASSUME McpAssumption, McpInv, [McpNext]_mcpVars
    PROVE  McpInv'
  <1>1. CASE UNCHANGED mcpVars
    BY <1>1 DEF mcpVars, McpInv, McpTypeOK, KeptSound, CheckSound, CallSound, AccessEnds
  <1> QED
    BY <1>1, TokensStep, RequestStep, AskStep, KeepStep, LookUpStep, LetInStep, SuspendStep, CloseStep,
       RestartStep, McpTickStep DEF McpNext

LEMMA McpStart ==
    ASSUME McpAssumption, McpInit
    PROVE  McpInv
  <1>1. 0 \in Ticks  BY McpNumbers DEF Ticks
  <1>2. <<>> \in Seq(Check) /\ Len(<<>>) = 0 /\ DOMAIN <<>> = {}  OBVIOUS
  <1>3. KeptSound(<<>>)  BY <1>2, McpNumbers DEF KeptSound
  <1>4. McpTypeOK  BY <1>1, <1>2, McpNumbers DEF McpInit, McpTypeOK
  <1> QED  BY <1>3, <1>4, RestingIsSound DEF McpInit, McpInv, AccessEnds

\* Who was closed, suspended or has an expired token is not let in past the time a call and a kept
\* check take, for any people, tokens, tasks and calls (google_oauth.py).
THEOREM AccessEndsInTime ==
    ASSUME McpAssumption
    PROVE  McpSpec => []AccessEnds
  <1>1. McpInit => McpInv  BY McpStart
  <1>2. McpInv /\ [McpNext]_mcpVars => McpInv'  BY McpStep
  <1>3. McpInv => AccessEnds  BY DEF McpInv
  <1> QED  BY <1>1, <1>2, <1>3, PTL DEF McpSpec

-----------------------------------------------------------------------------
(* What the parts of an answer count.                                       *)

\* The parts of which some are of the same visits, and all there are.
Alike    == {"total", "clicked", "top", "agents", "countries", "cities", "rows", "counts", "matching", "page"}
AllParts == Alike \cup {"days", "series", "clicks", "opens", "recipients", "stats"}
AllKinds == {"clicks", "opens", "bots", "all", "hits", "people"}

\* Whether a visit is of a kind, and of a time.
IsKind(x, kind) ==
    \/ kind = "clicks" /\ ~x.is.pixel /\ ~x.is.bot
    \/ kind = "opens"  /\ x.is.pixel /\ ~x.is.bot
    \/ kind = "bots"   /\ x.is.bot
    \/ kind = "hits"   /\ ~x.is.pixel
    \/ kind = "people" /\ ~x.is.bot
    \/ kind = "all"
InTime(x, window) ==
    \/ window.is = "all"
    \/ /\ Midnight(Utc, window.period.first) <= x.at
       /\ x.at < Midnight(Utc, window.period.last + 1)

\* An answer has one kind and one time, those of its parts that are alike: its days are the last of
\* that kind's of all time, its clicks and opens are what they are called, and its recipients'
\* links are the only query of no visits.
Window(window) == window = AllTime \/ window.is = "period"
QueryOf(kind, window) ==
    {q \in [part : AllParts, kind : AllKinds \cup {"none"}, window : {AllTime, RecentDays, window}] :
        /\ q.part \in Alike => q.kind = kind /\ q.window = window
        /\ q.part = "days" => q.kind = kind /\ window = AllTime
        /\ q.part \in {"clicks", "opens"} => q.kind = q.part /\ q.window = AllTime
        /\ q.kind = "none" <=> q.part = "recipients"}
Entry    == [part : AllParts, ids : SUBSET Nat, links : SUBSET AllLinks]
Answers(kind, window) ==
    [of : SUBSET AllLinks, queries : Seq(QueryOf(kind, window)), got : Seq(Entry), had : Nat]

\* What there was of a kind and a time when the request came.
There(kind, window) ==
    {v \in 1 .. asking.had : /\ visits[v].link \in asking.of
                             /\ IsKind(visits[v], kind) /\ InTime(visits[v], window)}

\* What a part holds is what there was, but for what came or went.
GotSound(e, kind, window) ==
    /\ e.ids \subseteq DOMAIN visits
    /\ e.part \in Alike =>
          \A v \in (e.ids \ There(kind, window)) \cup (There(kind, window) \ e.ids) : CameOrWent(v)
    /\ e.part = "days" =>
          window = AllTime /\ \A v \in e.ids \ There(kind, window) : CameOrWent(v)
    /\ e.part \in {"clicks", "opens"} => \A v \in e.ids : IsKind(visits[v], e.part)

\* The links of recipients are asked for first, and what is counted after is of some of them.
RecipientsFirst ==
    /\ \A j \in DOMAIN asking.queries :
          asking.queries[j].part = "recipients" => j = 1 /\ asking.got = <<>>
    /\ \A i \in DOMAIN asking.got : asking.got[i].part = "recipients" =>
          /\ asking.of \cap links \subseteq asking.got[i].links
          /\ \A j \in DOMAIN asking.got : asking.got[j].links \subseteq asking.got[i].links

AnswerSound(kind, window) ==
    /\ kind \in AllKinds /\ Window(window)
    /\ asking \in Answers(kind, window)
    /\ asking.had <= Len(visits)
    /\ \A i \in DOMAIN asking.got : GotSound(asking.got[i], kind, window)

ReadInv ==
    /\ ReadTypeOK
    /\ asking # Null => /\ RecipientsFirst
                        /\ \E kind, window : AnswerSound(kind, window)

LEMMA OfKind ==
    ASSUME NEW vs, NEW kind \in AllKinds
    PROVE  OfType(vs, kind) = {v \in vs : IsKind(visits[v], kind)}
  <1>1. CASE kind = "clicks"  BY <1>1 DEF OfType, ExcludeBots, IsKind
  <1>2. CASE kind = "opens"   BY <1>2 DEF OfType, ExcludeBots, IsKind
  <1>3. CASE kind = "bots"    BY <1>3 DEF OfType, ExcludeBots, IsKind
  <1>4. CASE kind = "hits"    BY <1>4 DEF OfType, ExcludeBots, IsKind
  <1>5. CASE kind = "people"  BY <1>5 DEF OfType, ExcludeBots, IsKind
  <1>6. CASE kind = "all"     BY <1>6 DEF OfType, ExcludeBots, IsKind
  <1> QED  BY <1>1, <1>2, <1>3, <1>4, <1>5, <1>6 DEF AllKinds

\* The last days' visits are of all time's.
LEMMA DaysAreOfAllTime ==
    ASSUME AnalyticsAssumption, NEW vs, NEW z
    PROVE  UNION {LastDays(z, vs, Recent)[d] : d \in 1 .. Recent} \subseteq vs
  <1> DEFINE bounds == Bounds(z, Today(z) - Recent + 1, Recent)
  <1>1. Recent \in Nat  BY DEF AnalyticsAssumption
  <1>2. Len(bounds) = Recent + 1  BY <1>1 DEF Bounds
  <1> HIDE DEF bounds
  <1>3. ASSUME NEW d \in 1 .. Recent PROVE LastDays(z, vs, Recent)[d] \subseteq vs
    <2>1. d \in 1 .. Len(bounds) - 1  BY <1>1, <1>2
    <2>2. LastDays(z, vs, Recent) = CountPerPeriod(vs, bounds)  BY DEF LastDays, bounds
    <2>3. LastDays(z, vs, Recent)[d] = Within(vs, bounds[d], bounds[d + 1])
      BY <2>1, <2>2 DEF CountPerPeriod
    <2> QED  BY <2>3 DEF Within
  <1> QED  BY <1>3

LEMMA CountedIs ==
    ASSUME AnalyticsAssumption, NEW q, q.kind \in AllKinds,
           q.window.is = "all" \/ q.window.is = "period" \/ q.window = RecentDays
    PROVE  /\ \A v \in Counted(q) : v \in Of(asking.of) /\ IsKind(visits[v], q.kind)
           /\ q.window.is # "recent" =>
                 Counted(q) = {v \in Of(asking.of) : IsKind(visits[v], q.kind) /\ InTime(visits[v], q.window)}
  <1> DEFINE counted == OfType(Of(asking.of), q.kind)
  <1>1. counted = {v \in Of(asking.of) : IsKind(visits[v], q.kind)}  BY OfKind
  <1> HIDE DEF counted
  <1>2. CASE q.window.is = "all"
    <2>1. Counted(q) = counted  BY <1>2 DEF Counted, counted
    <2> QED  BY <1>1, <1>2, <2>1 DEF InTime
  <1>3. CASE q.window.is = "period"
    <2>1. Counted(q) = InPeriod(Utc, counted, q.window.period)  BY <1>3 DEF Counted, counted
    <2>2. Counted(q) = {v \in counted : InTime(visits[v], q.window)}
      BY <1>3, <2>1 DEF InPeriod, PeriodBounds, Within, InTime
    <2> QED  BY <1>1, <2>2
  <1>4. CASE q.window = RecentDays
    <2>1. q.window.is = "recent"  BY <1>4 DEF RecentDays
    <2>2. Counted(q) = UNION {LastDays(Utc, counted, Recent)[d] : d \in 1 .. Recent}
      BY <2>1 DEF Counted, counted
    <2>3. Counted(q) \subseteq counted  BY <2>2, DaysAreOfAllTime
    <2> QED  BY <1>1, <2>1, <2>3
  <1> QED  BY <1>2, <1>3, <1>4

\* The cities share the visits between them.
LEMMA GroupedIs ==
    ASSUME NEW q, NEW vs
    PROVE  Grouped(q, vs) = vs
  <1>1. UNION {g.visits : g \in CitiesOf(vs, AtLeast)} = vs
    <2> DEFINE from(c) == {visits[v].link : v \in {u \in vs : visits[u].is.city = c}}
               name(c) == IF c = Null THEN "unknown"
                          ELSE IF Cardinality(from(c)) < AtLeast THEN "others" ELSE c
               group(c) == [name |-> name(c), visits |-> {v \in vs : name(visits[v].is.city) = name(c)}]
    <2>1. CitiesOf(vs, AtLeast) = {group(c) : c \in {visits[v].is.city : v \in vs}}
      BY DEF CitiesOf
    <2>2. \A c : group(c).visits = {v \in vs : name(visits[v].is.city) = name(c)}
      OBVIOUS
    <2> HIDE DEF name, group
    <2> QED  BY <2>1, <2>2
  <1> QED  BY <1>1 DEF Grouped

-----------------------------------------------------------------------------
(* A request, its queries and its answer.                                   *)

LEMMA AskStarts ==
    ASSUME ReadInv, NEW of \in SUBSET AllLinks, NEW queries, NEW kind \in AllKinds, NEW window,
           Window(window), queries \in Seq(QueryOf(kind, window)),
           \A j \in DOMAIN queries : queries[j].part = "recipients" => j = 1,
           Ask(of, queries)
    PROVE  ReadInv'
  <1> DEFINE new == [of |-> of, queries |-> queries, got |-> <<>>, had |-> Len(visits)]
  <1>1. asking' = new /\ UNCHANGED <<now, links, visits>>  BY DEF Ask
  <1>2. Len(visits) \in Nat /\ ReadTypeOK'  BY <1>1 DEF ReadInv, ReadTypeOK
  <1>3. <<>> \in Seq(Entry)  OBVIOUS
  <1>4. DOMAIN <<>> = {}  OBVIOUS
  <1>5. /\ new \in Answers(kind, window) /\ new.queries = queries /\ new.got = <<>>
        /\ new.had = Len(visits)
    BY <1>2, <1>3 DEF Answers
  <1> HIDE DEF new
  <1>6. RecipientsFirst'  BY <1>1, <1>4, <1>5 DEF RecipientsFirst
  <1>7. asking' \in Answers(kind, window)  BY <1>1, <1>5
  <1>8. AnswerSound(kind, window)'
    BY <1>1, <1>2, <1>4, <1>5, <1>7 DEF AnswerSound, Answers, QueryOf
  <1> QED  BY <1>2, <1>6, <1>8 DEF ReadInv

\* The visits and the links that a request does not change are still what it found.
LEMMA RunStep ==
    ASSUME AnalyticsAssumption, ReadInv, RunQuery
    PROVE  ReadInv'
  <1>1. PICK kind, window : AnswerSound(kind, window)
    BY DEF ReadInv, RunQuery
  <1> DEFINE q  == Head(asking.queries)
             vs == Grouped(q, Counted(q))
             e  == [part  |-> q.part, ids |-> IF q.kind = "none" THEN {} ELSE vs,
                    links |-> IF q.kind = "none" THEN asking.of \cap links
                              ELSE {visits[v].link : v \in vs}]
  <1>2. /\ asking \in Answers(kind, window) /\ asking.queries # <<>> /\ RecipientsFirst
        /\ UNCHANGED <<now, links, visits>>
        /\ visits \in Seq(Visit) /\ links \in SUBSET AllLinks /\ ReadTypeOK'
    BY <1>1 DEF AnswerSound, RunQuery, ReadInv, ReadTypeOK
  <1>3. asking' = [asking EXCEPT !.queries = Tail(asking.queries), !.got = Append(asking.got, e)]
    BY DEF RunQuery
  <1>4. /\ asking.of \in SUBSET AllLinks /\ asking.queries \in Seq(QueryOf(kind, window))
        /\ asking.got \in Seq(Entry) /\ asking.had \in Nat
    BY <1>2 DEF Answers
  <1>5. q = asking.queries[1] /\ q \in QueryOf(kind, window) /\ 1 \in DOMAIN asking.queries
    BY <1>2, <1>4
  <1>6. q.kind # "none" =>
          /\ \A v \in vs : v \in Of(asking.of) /\ IsKind(visits[v], q.kind)
          /\ q.window.is # "recent" =>
                vs = {v \in Of(asking.of) : IsKind(visits[v], q.kind) /\ InTime(visits[v], q.window)}
    <2>1. q.window.is = "all" \/ q.window.is = "period" \/ q.window = RecentDays
      BY <1>1, <1>5 DEF AnswerSound, Window, QueryOf, AllTime
    <2>2. q.kind # "none" => q.kind \in AllKinds  BY <1>5 DEF QueryOf
    <2>3. vs = Counted(q)  BY GroupedIs
    <2> HIDE DEF q, vs
    <2> QED  BY <2>1, <2>2, <2>3, CountedIs
  <1> HIDE DEF vs
  <1>7. \A v \in Of(asking.of) : /\ v \in DOMAIN visits /\ visits[v].link \in asking.of \cap links
                                 /\ v \in Nat
    BY <1>2 DEF Of, Live
  <1>8. /\ e.part = q.part /\ e.ids = (IF q.kind = "none" THEN {} ELSE vs)
        /\ e.links = (IF q.kind = "none" THEN asking.of \cap links ELSE {visits[v].link : v \in vs})
    OBVIOUS
  <1>9. e \in Entry
    <2>1. q.part \in AllParts  BY <1>5 DEF QueryOf
    <2> QED  BY <1>4, <1>6, <1>7, <2>1 DEF Entry
  <1> HIDE DEF q, e
  <1>10. e.links \subseteq asking.of \cap links
    BY <1>6, <1>7, <1>8
  <1>11. GotSound(e, kind, window)
    <2>1. e.ids \subseteq DOMAIN visits  BY <1>6, <1>7, <1>8
    <2>2. ASSUME e.part \in Alike,
                 NEW v \in (e.ids \ There(kind, window)) \cup (There(kind, window) \ e.ids)
          PROVE  CameOrWent(v)
      <3>1. q.kind = kind /\ q.window = window /\ q.kind # "none" /\ q.window.is # "recent"
        BY <1>1, <1>5, <1>8, <2>2 DEF AnswerSound, Window, QueryOf, AllTime, AllKinds
      <3>2. e.ids = {u \in Of(asking.of) : IsKind(visits[u], kind) /\ InTime(visits[u], window)}
        BY <1>6, <1>8, <3>1
      <3>3. CASE v \in e.ids \ There(kind, window)
        BY <1>4, <1>7, <3>2, <3>3, <1>2 DEF There, CameOrWent
      <3>4. CASE v \in There(kind, window) \ e.ids
        <4>1. v \in 1 .. asking.had /\ asking.had \in Nat /\ asking.had <= Len(visits)
          BY <1>1, <1>4, <3>4 DEF There, AnswerSound
        <4>2. v \in DOMAIN visits  BY <1>2, <4>1
        <4> QED  BY <3>2, <3>4, <4>2 DEF There, CameOrWent, Of, Live
      <3> QED  BY <2>2, <3>3, <3>4
    <2>3. e.part = "days" => /\ window = AllTime
                             /\ \A v \in e.ids \ There(kind, window) : CameOrWent(v)
      <3> SUFFICES ASSUME e.part = "days"
                   PROVE  window = AllTime /\ \A v \in e.ids \ There(kind, window) : CameOrWent(v)
        OBVIOUS
      <3>1. q.kind = kind /\ window = AllTime /\ q.kind # "none"
        BY <1>5, <1>8 DEF QueryOf, AllKinds
      <3>2. \A v : InTime(visits[v], window)  BY <3>1 DEF InTime, AllTime
      <3>3. \A v \in e.ids : v \in Of(asking.of) /\ IsKind(visits[v], kind)
        BY <1>6, <1>8, <3>1
      <3> QED  BY <1>2, <1>4, <1>7, <3>1, <3>2, <3>3 DEF There, CameOrWent
    <2>4. e.part \in {"clicks", "opens"} => \A v \in e.ids : IsKind(visits[v], e.part)
      BY <1>5, <1>6, <1>8 DEF QueryOf
    <2> QED  BY <2>1, <2>2, <2>3, <2>4 DEF GotSound
  <1>12. /\ asking'.of = asking.of /\ asking'.had = asking.had
         /\ asking'.queries = Tail(asking.queries) /\ asking'.got = Append(asking.got, e)
         /\ asking' \in Answers(kind, window)
    <2>1. Tail(asking.queries) \in Seq(QueryOf(kind, window)) /\ Append(asking.got, e) \in Seq(Entry)
      BY <1>2, <1>4, <1>9
    <2>2. asking' = [of |-> asking.of, queries |-> Tail(asking.queries), got |-> Append(asking.got, e),
                     had |-> asking.had]
      BY <1>2, <1>3 DEF Answers
    <2> QED  BY <1>4, <2>1, <2>2 DEF Answers
  <1>13. /\ \A i \in DOMAIN asking'.got :
               asking'.got[i] = e \/ (i \in DOMAIN asking.got /\ asking'.got[i] = asking.got[i])
         /\ \A j \in DOMAIN asking'.queries :
               j + 1 \in DOMAIN asking.queries /\ asking'.queries[j] = asking.queries[j + 1] /\ j + 1 # 1
    BY <1>2, <1>4, <1>9, <1>12
  <1>14. ASSUME NEW d, GotSound(d, kind, window) PROVE GotSound(d, kind, window)'
    BY <1>2, <1>12, <1>14 DEF GotSound, There, CameOrWent
  <1>15. AnswerSound(kind, window)'
    BY <1>1, <1>2, <1>11, <1>12, <1>13, <1>14 DEF AnswerSound
  <1>16. RecipientsFirst'
    <2>1. \A j \in DOMAIN asking'.queries : asking'.queries[j].part # "recipients"
      BY <1>2, <1>13 DEF RecipientsFirst
    <2>2. ASSUME NEW i \in DOMAIN asking'.got, asking'.got[i].part = "recipients"
          PROVE  /\ asking.of \cap links \subseteq asking'.got[i].links
                 /\ \A j \in DOMAIN asking'.got : asking'.got[j].links \subseteq asking'.got[i].links
      <3>1. CASE asking'.got[i] = e
        <4>1. q.part = "recipients" /\ asking.got = <<>>
          BY <1>2, <1>5, <1>8, <2>2, <3>1 DEF RecipientsFirst
        <4>2. q.kind = "none"  BY <1>5, <4>1 DEF QueryOf
        <4>3. e.links = asking.of \cap links  BY <1>8, <4>2
        <4>4. DOMAIN <<>> = {}  OBVIOUS
        <4>5. \A j \in DOMAIN asking'.got : asking'.got[j] = e  BY <1>13, <4>1, <4>4
        <4> QED  BY <3>1, <4>3, <4>5
      <3>2. CASE i \in DOMAIN asking.got /\ asking'.got[i] = asking.got[i]
        <4>1. /\ asking.of \cap links \subseteq asking.got[i].links
              /\ \A j \in DOMAIN asking.got : asking.got[j].links \subseteq asking.got[i].links
          BY <1>2, <2>2, <3>2 DEF RecipientsFirst
        <4> QED  BY <1>10, <1>13, <3>2, <4>1
      <3> QED  BY <1>13, <3>1, <3>2
    <2> QED  BY <1>2, <1>12, <2>1, <2>2 DEF RecipientsFirst
  <1> QED  BY <1>2, <1>15, <1>16 DEF ReadInv

-----------------------------------------------------------------------------
(* What is asked.                                                           *)

LEMMA SomeQuery ==
    ASSUME NEW kind \in AllKinds, NEW window, Window(window),
           NEW part \in AllParts \ {"recipients", "days", "clicks", "opens"}
    PROVE  Q(part, kind, window) \in QueryOf(kind, window)
  BY DEF Q, QueryOf, AllParts, AllKinds

LEMMA DaysQuery ==
    ASSUME NEW kind \in AllKinds
    PROVE  Q("days", kind, RecentDays) \in QueryOf(kind, AllTime)
  BY DEF Q, QueryOf, AllParts, AllKinds, Alike

LEMMA ClicksAndOpens ==
    ASSUME NEW kind \in AllKinds
    PROVE  /\ Q("clicks", "clicks", AllTime) \in QueryOf(kind, AllTime)
           /\ Q("opens", "opens", AllTime) \in QueryOf(kind, AllTime)
           /\ Q("recipients", "none", AllTime) \in QueryOf(kind, AllTime)
  BY DEF Q, QueryOf, AllParts, AllKinds, Alike

LEMMA KindsAsked ==
    ASSUME AnalyticsAssumption
    PROVE  /\ \A include \in BOOLEAN : Clicks(include) \in AllKinds /\ TopKind(include) = Clicks(include)
           /\ Includes \subseteq BOOLEAN /\ Types \subseteq AllKinds
           /\ \A p : Window(Days(p))
           /\ Window(AllTime)
  BY DEF AnalyticsAssumption, Clicks, TopKind, AllKinds, Window, Days

\* No more than one query of an answer is of the links alone, and that is its first.
LEMMA QueriesOfVisits ==
    ASSUME NEW of \in SUBSET AllLinks, ReadInv, NEW kind \in AllKinds, NEW window, Window(window),
           NEW queries \in Seq({Q(part, kind, window) : part \in AllParts \ {"recipients", "days", "clicks", "opens"}}),
           Ask(of, queries)
    PROVE  ReadInv'
  <1> DEFINE S == {Q(part, kind, window) : part \in AllParts \ {"recipients", "days", "clicks", "opens"}}
  <1>1. S \subseteq QueryOf(kind, window)  BY SomeQuery
  <1>2. \A q \in S : q.part # "recipients"  BY DEF Q
  <1>0. queries \in Seq(S)  OBVIOUS
  <1> HIDE DEF S
  <1>3. queries \in Seq(QueryOf(kind, window))  BY <1>0, <1>1
  <1>4. \A j \in DOMAIN queries : queries[j].part # "recipients"  BY <1>0, <1>2
  <1> QED  BY <1>3, <1>4, AskStarts

LEMMA LinkRequestStep ==
    ASSUME AnalyticsAssumption, ReadInv, LinkRequest
    PROVE  ReadInv'
  <1> DEFINE p == LastN(Utc, Recent)
             plain == AllParts \ {"recipients", "days", "clicks", "opens"}
  <1> HIDE DEF p
  <1>1. PICK l \in AllLinks :
           \/ LinkTotals(l)
           \/ \E include \in Includes : Daily(l, include) \/ Geo(l, include, p) \/ Summary(l, include)
           \/ LinkSeries(l, p)
           \/ \E type \in Types : LinkBreakdown(l, type, p) \/ ListVisits(l, type, p) \/ ExportVisits(l, type, p)
    BY DEF LinkRequest, p
  <1>2. {l} \in SUBSET AllLinks  OBVIOUS
  <1>3. Window(Days(p)) /\ Window(AllTime)  BY KindsAsked
  <1>4. {"series", "countries", "agents", "cities", "total", "rows", "clicked", "top"} \subseteq plain
    BY DEF AllParts, Alike
  <1>6. CASE LinkTotals(l)
    <2> DEFINE queries == <<Q("clicks", "clicks", AllTime), Q("opens", "opens", AllTime)>>
    <2>1. "clicks" \in AllKinds  BY DEF AllKinds
    <2>2. queries \in Seq(QueryOf("clicks", AllTime))
      <3>1. /\ Q("clicks", "clicks", AllTime) \in QueryOf("clicks", AllTime)
            /\ Q("opens", "opens", AllTime) \in QueryOf("clicks", AllTime)
        BY <2>1, ClicksAndOpens
      <3> QED  BY <3>1
    <2>3. \A j \in DOMAIN queries : queries[j].part # "recipients"
      <3>1. Q("clicks", "clicks", AllTime).part # "recipients" /\ Q("opens", "opens", AllTime).part # "recipients"
        BY DEF Q
      <3>2. DOMAIN queries = 1 .. 2  OBVIOUS
      <3> QED  BY <3>1, <3>2
    <2>4. Ask({l}, queries)  BY <1>6 DEF LinkTotals
    <2> HIDE DEF queries
    <2> QED  BY <1>2, <1>3, <2>1, <2>2, <2>3, <2>4, AskStarts
  <1>7. CASE \E include \in Includes : Daily(l, include) \/ Geo(l, include, p) \/ Summary(l, include)
    <2>1. PICK include \in Includes : Daily(l, include) \/ Geo(l, include, p) \/ Summary(l, include)
      BY <1>7
    <2>2. Clicks(include) \in AllKinds  BY KindsAsked
    <2> DEFINE kind == Clicks(include)
    <2> HIDE DEF kind
    <2>3. CASE Daily(l, include)
      <3> DEFINE queries == <<Q("days", kind, RecentDays)>>
      <3>1. queries \in Seq(QueryOf(kind, AllTime))  BY <2>2, DaysQuery DEF kind
      <3>2. \A j \in DOMAIN queries : queries[j].part # "recipients"  BY DEF Q
      <3>3. Ask({l}, queries)  BY <2>3 DEF Daily, kind
      <3> HIDE DEF queries
      <3> QED  BY <1>2, <1>3, <2>2, <3>1, <3>2, <3>3, AskStarts DEF kind
    <2>4. CASE Geo(l, include, p)
      <3>1. Ask({l}, <<Q("countries", kind, Days(p))>>)  BY <2>4 DEF Geo, kind
      <3>2. <<Q("countries", kind, Days(p))>> \in Seq({Q(q, kind, Days(p)) : q \in plain})
        BY <1>4
      <3> QED  BY <1>2, <1>3, <2>2, <3>1, <3>2, QueriesOfVisits DEF kind
    <2>5. CASE Summary(l, include)
      <3> DEFINE queries == <<Q("total", kind, AllTime), Q("clicked", kind, AllTime),
                              Q("days", kind, RecentDays), Q("top", kind, AllTime)>>
      <3>1. queries \in Seq(QueryOf(kind, AllTime))
        <4>1. \A part \in plain : Q(part, kind, AllTime) \in QueryOf(kind, AllTime)
          BY <1>3, <2>2, SomeQuery DEF kind
        <4>2. Q("days", kind, RecentDays) \in QueryOf(kind, AllTime)  BY <2>2, DaysQuery DEF kind
        <4> QED  BY <1>4, <4>1, <4>2
      <3>2. \A j \in DOMAIN queries : queries[j].part # "recipients"  BY DEF Q
      <3>3. Ask({l}, queries)  BY <2>5 DEF Summary, kind
      <3> HIDE DEF queries
      <3> QED  BY <1>2, <1>3, <2>2, <3>1, <3>2, <3>3, AskStarts DEF kind
    <2> QED  BY <2>1, <2>3, <2>4, <2>5
  <1>8. CASE LinkSeries(l, p)
    <2>1. Ask({l}, <<Q("series", "people", Days(p))>>)  BY <1>8 DEF LinkSeries
    <2>2. <<Q("series", "people", Days(p))>> \in Seq({Q(q, "people", Days(p)) : q \in plain})
      BY <1>4
    <2>3. "people" \in AllKinds  BY DEF AllKinds
    <2> QED  BY <1>2, <1>3, <2>1, <2>2, <2>3, QueriesOfVisits
  <1>9. CASE \E type \in Types : LinkBreakdown(l, type, p) \/ ListVisits(l, type, p) \/ ExportVisits(l, type, p)
    <2>1. PICK type \in Types : LinkBreakdown(l, type, p) \/ ListVisits(l, type, p) \/ ExportVisits(l, type, p)
      BY <1>9
    <2>2. type \in AllKinds  BY KindsAsked
    <2> DEFINE S == {Q(q, type, Days(p)) : q \in plain}
    <2>3. /\ Q("agents", type, Days(p)) \in S /\ Q("countries", type, Days(p)) \in S
          /\ Q("cities", type, Days(p)) \in S /\ Q("total", type, Days(p)) \in S
          /\ Q("rows", type, Days(p)) \in S
      BY <1>4
    <2>4. \A queries \in Seq(S) : Ask({l}, queries) => ReadInv'
      BY <1>2, <1>3, <2>2, QueriesOfVisits
    <2> HIDE DEF S
    <2>5. CASE LinkBreakdown(l, type, p)
      <3> DEFINE more == IF l \in Recipients THEN <<>> ELSE <<Q("cities", type, Days(p))>>
      <3>1. BreakdownQueries(type, p) \in Seq(S)  BY <2>3 DEF BreakdownQueries
      <3>2. <<>> \in Seq(S) /\ <<Q("cities", type, Days(p))>> \in Seq(S)  BY <2>3
      <3>3. more \in Seq(S)  BY <3>2
      <3>4. Ask({l}, BreakdownQueries(type, p) \o more)  BY <2>5 DEF LinkBreakdown
      <3> HIDE DEF more
      <3>5. BreakdownQueries(type, p) \o more \in Seq(S)  BY <3>1, <3>3
      <3> QED  BY <2>4, <3>4, <3>5
    <2>6. CASE ListVisits(l, type, p)
      <3>1. <<Q("total", type, Days(p)), Q("rows", type, Days(p))>> \in Seq(S)  BY <2>3
      <3> QED  BY <2>4, <2>6, <3>1 DEF ListVisits
    <2>7. CASE ExportVisits(l, type, p)
      <3>1. <<Q("rows", type, Days(p))>> \in Seq(S)  BY <2>3
      <3> QED  BY <2>4, <2>7, <3>1 DEF ExportVisits
    <2> QED  BY <2>1, <2>5, <2>6, <2>7
  <1> QED  BY <1>1, <1>6, <1>7, <1>8, <1>9

LEMMA CampaignRequestStep ==
    ASSUME AnalyticsAssumption, ReadInv, CampaignRequest
    PROVE  ReadInv'
  <1> DEFINE p == LastN(Utc, Recent)
             plain == AllParts \ {"recipients", "days", "clicks", "opens"}
  <1> HIDE DEF p
  <1>1. Recipients \in SUBSET AllLinks /\ Recipients \cap links \in SUBSET AllLinks /\ links \in SUBSET AllLinks
    BY DEF AnalyticsAssumption, ReadInv, ReadTypeOK
  <1>2. Window(Days(p)) /\ Window(AllTime)  BY KindsAsked
  <1>3. {"series", "countries", "agents", "cities", "total", "clicked", "top", "stats", "counts",
         "matching", "page"} \subseteq plain
    BY DEF AllParts, Alike
  <1>4. CASE CampaignTotals
    <2>1. "clicks" \in AllKinds  BY DEF AllKinds
    <2>2. TotalsQueries \in Seq(QueryOf("clicks", AllTime))
      <3>1. /\ Q("recipients", "none", AllTime) \in QueryOf("clicks", AllTime)
            /\ Q("clicks", "clicks", AllTime) \in QueryOf("clicks", AllTime)
            /\ Q("opens", "opens", AllTime) \in QueryOf("clicks", AllTime)
        BY <2>1, ClicksAndOpens
      <3> QED  BY <3>1 DEF TotalsQueries
    <2>3. \A j \in DOMAIN TotalsQueries : TotalsQueries[j].part = "recipients" => j = 1
      <3>1. Q("clicks", "clicks", AllTime).part # "recipients" /\ Q("opens", "opens", AllTime).part # "recipients"
        BY DEF Q
      <3>2. /\ DOMAIN TotalsQueries = 1 .. 3 /\ TotalsQueries[2] = Q("clicks", "clicks", AllTime)
            /\ TotalsQueries[3] = Q("opens", "opens", AllTime)
        BY DEF TotalsQueries
      <3> QED  BY <3>1, <3>2
    <2> QED  BY <1>1, <1>2, <1>4, <2>1, <2>2, <2>3, AskStarts DEF CampaignTotals
  <1>5. CASE CampaignSeries(p)
    <2>1. <<Q("series", "people", Days(p))>> \in Seq({Q(q, "people", Days(p)) : q \in plain})
      BY <1>3
    <2>2. "people" \in AllKinds  BY DEF AllKinds
    <2> QED  BY <1>1, <1>2, <1>5, <2>1, <2>2, QueriesOfVisits DEF CampaignSeries
  <1>6. CASE \E include \in Includes : CampaignSummary(include) \/ CampaignUsers(include) \/ Overview(include)
    <2>1. PICK include \in Includes : CampaignSummary(include) \/ CampaignUsers(include) \/ Overview(include)
      BY <1>6
    <2>2. Clicks(include) \in AllKinds /\ TopKind(include) = Clicks(include)  BY KindsAsked
    <2> DEFINE kind == Clicks(include)
    <2> HIDE DEF kind
    <2>3. /\ \A part \in plain : /\ Q(part, kind, AllTime) \in QueryOf(kind, AllTime)
                                 /\ Q(part, kind, AllTime).part # "recipients"
          /\ Q("days", kind, RecentDays) \in QueryOf(kind, AllTime)
          /\ Q("days", kind, RecentDays).part # "recipients"
      <3>1. \A part \in plain : Q(part, kind, AllTime) \in QueryOf(kind, AllTime)
        BY <1>2, <2>2, SomeQuery DEF kind
      <3>2. Q("days", kind, RecentDays) \in QueryOf(kind, AllTime)  BY <2>2, DaysQuery DEF kind
      <3> QED  BY <3>1, <3>2 DEF Q
    <2>4. CASE CampaignSummary(include)
      <3> DEFINE queries == <<Q("total", kind, AllTime), Q("clicked", kind, AllTime),
                              Q("top", kind, AllTime), Q("days", kind, RecentDays)>>
      <3>1. queries \in Seq(QueryOf(kind, AllTime))  BY <1>3, <2>3
      <3>2. \A j \in DOMAIN queries : queries[j].part # "recipients"
        <4>1. DOMAIN queries = 1 .. 4  OBVIOUS
        <4> QED  BY <1>3, <2>3, <4>1
      <3>3. Ask(Recipients \cap links, queries)  BY <2>2, <2>4 DEF CampaignSummary, kind
      <3> HIDE DEF queries
      <3> QED  BY <1>1, <1>2, <2>2, <3>1, <3>2, <3>3, AskStarts DEF kind
    <2>5. CASE CampaignUsers(include)
      <3> DEFINE queries == <<Q("recipients", "none", AllTime), Q("stats", kind, AllTime)>>
      <3>1. queries \in Seq(QueryOf(kind, AllTime))
        <4>1. Q("recipients", "none", AllTime) \in QueryOf(kind, AllTime)
          BY <2>2, ClicksAndOpens DEF kind
        <4> QED  BY <1>3, <2>3, <4>1
      <3>2. \A j \in DOMAIN queries : queries[j].part = "recipients" => j = 1
        <4>1. DOMAIN queries = 1 .. 2  OBVIOUS
        <4> QED  BY <1>3, <2>3, <4>1
      <3>3. Ask(Recipients, queries)  BY <2>5 DEF CampaignUsers, kind
      <3> HIDE DEF queries
      <3> QED  BY <1>1, <1>2, <2>2, <3>1, <3>2, <3>3, AskStarts DEF kind
    <2>6. CASE Overview(include)
      <3> DEFINE queries == <<Q("total", kind, AllTime), Q("days", kind, RecentDays), Q("top", kind, AllTime)>>
      <3>1. queries \in Seq(QueryOf(kind, AllTime))  BY <1>3, <2>3
      <3>2. \A j \in DOMAIN queries : queries[j].part # "recipients"
        <4>1. DOMAIN queries = 1 .. 3  OBVIOUS
        <4> QED  BY <1>3, <2>3, <4>1
      <3>3. Ask(links, queries)  BY <2>2, <2>6 DEF Overview, kind
      <3> HIDE DEF queries
      <3> QED  BY <1>1, <1>2, <2>2, <3>1, <3>2, <3>3, AskStarts DEF kind
    <2> QED  BY <2>1, <2>4, <2>5, <2>6
  <1>7. CASE \E type \in Types : CampaignBreakdown(type, p)
    <2>1. PICK type \in Types : CampaignBreakdown(type, p)  BY <1>7
    <2>2. type \in AllKinds  BY KindsAsked
    <2> DEFINE S == {Q(q, type, Days(p)) : q \in plain}
    <2>3. /\ Q("agents", type, Days(p)) \in S /\ Q("countries", type, Days(p)) \in S
          /\ Q("cities", type, Days(p)) \in S
      BY <1>3
    <2>4. \A queries \in Seq(S) : Ask(Recipients, queries) => ReadInv'
      BY <1>1, <1>2, <2>2, QueriesOfVisits
    <2> HIDE DEF S
    <2>5. BreakdownQueries(type, p) \in Seq(S) /\ <<Q("cities", type, Days(p))>> \in Seq(S)
      BY <2>3 DEF BreakdownQueries
    <2>6. BreakdownQueries(type, p) \o <<Q("cities", type, Days(p))>> \in Seq(S)  BY <2>5
    <2> QED  BY <2>1, <2>4, <2>6 DEF CampaignBreakdown
  <1>8. CASE \E type \in {"clicks", "opens", "people"} : ListRecipients(type) \/ ExportRecipients(type)
    <2>1. PICK type \in {"clicks", "opens", "people"} : ListRecipients(type) \/ ExportRecipients(type)
      BY <1>8
    <2>2. type \in AllKinds  BY DEF AllKinds
    <2> DEFINE S == {Q(q, type, AllTime) : q \in plain}
    <2>3. Q("counts", type, AllTime) \in S /\ Q("matching", type, AllTime) \in S /\ Q("page", type, AllTime) \in S
      BY <1>3
    <2>4. \A queries \in Seq(S) : Ask(Recipients, queries) => ReadInv'
      BY <1>1, <1>2, <2>2, QueriesOfVisits
    <2> HIDE DEF S
    <2>5. /\ RecipientsQueries(type) \in Seq(S)
          /\ RecipientsQueries(type)[1] = Q("counts", type, AllTime)
          /\ RecipientsQueries(type)[2] = Q("page", type, AllTime)
      BY <2>3 DEF RecipientsQueries
    <2>6. <<Q("counts", type, AllTime), Q("matching", type, AllTime), Q("page", type, AllTime)>> \in Seq(S)
      BY <2>3
    <2> QED  BY <2>1, <2>4, <2>5, <2>6 DEF ListRecipients, ExportRecipients
  <1> QED  BY <1>4, <1>5, <1>6, <1>7, <1>8 DEF CampaignRequest, p

-----------------------------------------------------------------------------
(* Meanwhile.                                                               *)

\* Visits come and links go: what was found stays found, but for those.
LEMMA MeanwhileStep ==
    ASSUME AnalyticsAssumption, ReadInv, Arrive \/ LinkGoes \/ ReadTick
    PROVE  ReadInv'
  <1>1. /\ asking' = asking /\ links' \subseteq links
        /\ visits \in Seq(Visit) /\ visits' \in Seq(Visit) /\ ReadTypeOK'
        /\ Len(visits) \in Nat /\ Len(visits') \in Nat /\ Len(visits) <= Len(visits')
        /\ \A v \in 1 .. Len(visits) : visits'[v] = visits[v]
    <2>1. ReadTypeOK  BY DEF ReadInv
    <2>2. CASE Arrive
      <3>1. PICK l \in links, is \in Arriving : visits' = Append(visits, [link |-> l, at |-> now, is |-> is])
        BY <2>2 DEF Arrive
      <3>2. [link |-> l, at |-> now, is |-> is] \in Visit  BY <2>1 DEF ReadTypeOK, Visit
      <3>3. /\ visits \in Seq(Visit) /\ Len(visits) < MaxVisits /\ MaxVisits \in Nat
            /\ UNCHANGED <<now, links, asking>>
        BY <2>1, <2>2 DEF Arrive, ReadTypeOK, AnalyticsAssumption
      <3>4. /\ visits' \in Seq(Visit) /\ Len(visits') = Len(visits) + 1
            /\ \A v \in 1 .. Len(visits) : visits'[v] = visits[v]
        BY <3>1, <3>2, <3>3
      <3>5. Len(visits) \in Nat /\ Len(visits') <= MaxVisits  BY <3>3, <3>4
      <3> QED  BY <2>1, <3>3, <3>4, <3>5 DEF ReadTypeOK
    <2>3. CASE LinkGoes
      BY <2>1, <2>3 DEF LinkGoes, ReadTypeOK
    <2>4. CASE ReadTick
      BY <2>1, <2>4 DEF ReadTick, ReadTypeOK, AnalyticsAssumption
    <2> QED  BY <2>2, <2>3, <2>4
  <1>2. CASE asking = Null
    BY <1>1, <1>2 DEF ReadInv
  <1>3. CASE asking # Null
    <2>1. PICK kind, window : AnswerSound(kind, window)
      BY <1>3 DEF ReadInv
    <2>2. /\ asking.had \in Nat /\ asking.had <= Len(visits) /\ asking.got \in Seq(Entry)
      BY <2>1 DEF AnswerSound, Answers
    <2>3. DOMAIN visits = 1 .. Len(visits) /\ DOMAIN visits' = 1 .. Len(visits')  BY <1>1
    <2>4. 1 .. asking.had \subseteq 1 .. Len(visits) /\ 1 .. Len(visits) \subseteq 1 .. Len(visits')
      BY <1>1, <2>2
    <2>5. There(kind, window)' = There(kind, window)
      BY <1>1, <2>4 DEF There
    <2>6. \A v \in DOMAIN visits : CameOrWent(v) => CameOrWent(v)'
      BY <1>1, <2>3 DEF CameOrWent
    <2>7. There(kind, window) \subseteq DOMAIN visits  BY <2>3, <2>4 DEF There
    <2>8. ASSUME NEW e, GotSound(e, kind, window) PROVE GotSound(e, kind, window)'
      <3>1. e.ids \subseteq DOMAIN visits  BY <2>8 DEF GotSound
      <3>2. \A v \in e.ids : visits'[v] = visits[v]  BY <1>1, <2>3, <3>1
      <3> QED  BY <2>3, <2>4, <2>5, <2>6, <2>7, <2>8, <3>1, <3>2 DEF GotSound
    <2>9. AnswerSound(kind, window)'
      BY <1>1, <2>1, <2>2, <2>8 DEF AnswerSound
    <2>10. RecipientsFirst'
      BY <1>1, <1>3 DEF ReadInv, RecipientsFirst
    <2> QED  BY <1>1, <2>9, <2>10 DEF ReadInv
  <1> QED  BY <1>2, <1>3

LEMMA ReadStep ==
    ASSUME AnalyticsAssumption, ReadInv, [ReadNext]_readVars
    PROVE  ReadInv'
  <1>1. CASE UNCHANGED readVars
    BY <1>1 DEF readVars, ReadInv, ReadTypeOK, RecipientsFirst, AnswerSound, GotSound, There, CameOrWent
  <1>2. CASE Answer
    BY <1>2 DEF Answer, ReadInv, ReadTypeOK
  <1> QED
    BY <1>1, <1>2, LinkRequestStep, CampaignRequestStep, RunStep, MeanwhileStep DEF ReadNext

LEMMA ReadStart ==
    ASSUME AnalyticsAssumption, ReadInit
    PROVE  ReadInv
  <1>1. <<>> \in Seq(Visit) /\ Len(<<>>) = 0  OBVIOUS
  <1> QED  BY <1>1 DEF ReadInit, ReadInv, ReadTypeOK, AnalyticsAssumption

LEMMA SoundPartsAgree ==
    ASSUME ReadInv
    PROVE  PartsAgree
  <1> SUFFICES ASSUME asking # Null, NEW i \in DOMAIN asking.got, NEW j \in DOMAIN asking.got
               PROVE  LET a == asking.got[i]
                          b == asking.got[j]
                      IN  /\ (\E parts \in Same : {a.part, b.part} \subseteq parts) =>
                                  \A v \in (a.ids \ b.ids) \cup (b.ids \ a.ids) : CameOrWent(v)
                          /\ a.part = "recipients" => b.links \subseteq a.links
                          /\ (a.part = "clicks" /\ b.part = "opens") => a.ids \cap b.ids = {}
                          /\ (a.part = "total" /\ b.part = "days") => \A v \in b.ids \ a.ids : CameOrWent(v)
    BY DEF PartsAgree
  <1>1. PICK kind, window : AnswerSound(kind, window)
    BY DEF ReadInv
  <1> DEFINE a == asking.got[i]
             b == asking.got[j]
  <1>2. GotSound(a, kind, window) /\ GotSound(b, kind, window)  BY <1>1 DEF AnswerSound
  <1>3. a.part = "recipients" => b.links \subseteq a.links  BY DEF ReadInv, RecipientsFirst
  <1> HIDE DEF a, b
  <1>4. (\E parts \in Same : {a.part, b.part} \subseteq parts) => a.part \in Alike /\ b.part \in Alike
    BY DEF Same, Alike
  <1>5. a.part \in Alike /\ b.part \in Alike =>
           \A v \in (a.ids \ b.ids) \cup (b.ids \ a.ids) : CameOrWent(v)
    BY <1>2 DEF GotSound
  <1>6. (a.part = "clicks" /\ b.part = "opens") => a.ids \cap b.ids = {}
    BY <1>2 DEF GotSound, IsKind
  <1>7. (a.part = "total" /\ b.part = "days") => \A v \in b.ids \ a.ids : CameOrWent(v)
    BY <1>2 DEF GotSound, Alike
  <1> QED  BY <1>3, <1>4, <1>5, <1>6, <1>7 DEF a, b

\* The parts of one answer count the same visits, but for those that came or went while it was
\* made, for any links, visits, kinds and periods (analytics.py).
THEOREM AnswersAgree ==
    ASSUME AnalyticsAssumption
    PROVE  ReadSpec => []PartsAgree
  <1>1. ReadInit => ReadInv  BY ReadStart
  <1>2. ReadInv /\ [ReadNext]_readVars => ReadInv'  BY ReadStep
  <1>3. ReadInv => PartsAgree  BY SoundPartsAgree
  <1> QED  BY <1>1, <1>2, <1>3, PTL DEF ReadSpec

-----------------------------------------------------------------------------
(* Local days.                                                              *)

LEMMA ReadNumbers ==
    ASSUME AnalyticsAssumption
    PROVE  /\ MinLinks \in Nat \ {0} /\ Day \in Nat \ {0} /\ Week \in Nat \ {0} /\ Recent \in Nat \ {0}
           /\ Weeks \in Nat \ {0} /\ MaxPeriod \in Nat \ {0}
           /\ Start \in Nat /\ End \in Nat /\ Start <= End
           /\ Day * (Recent + 1) <= Start /\ Day * (Weeks * Week) < Start
  BY DEF AnalyticsAssumption

LEMMA LocalIs ==
    ASSUME AnalyticsAssumption, NEW z \in Zones
    PROVE  /\ \A t \in Instants : /\ t \in Nat /\ z[t] \in {0, 1} /\ Local(z, t) = t + z[t]
                                  /\ Local(z, t) \in Nat
           /\ \A t, u \in Instants : t <= u => Local(z, t) <= Local(z, u)
  <1>1. PICK before \in {0, 1}, after \in {0, 1}, turn \in Start .. End :
           z = [t \in Instants |-> IF t < turn THEN before ELSE after]
    BY DEF Zones
  <1>2. ASSUME NEW t \in Instants PROVE t \in Nat /\ z[t] \in {0, 1}
    BY <1>1, ReadNumbers DEF Instants
  <1> QED  BY <1>2 DEF Local

\* A date is at least d from d days' worth of time on.
LEMMA DateIs ==
    ASSUME AnalyticsAssumption, NEW x \in Nat, NEW d \in Int
    PROVE  /\ x \div Day \in Int
           /\ d <= x \div Day <=> d * Day <= x
  <1> DEFINE q == x \div Day
             m == x % Day
             D == Day
  <1>1. D \in Nat /\ D > 0  BY ReadNumbers
  <1>2. q \in Int /\ m \in 0 .. D - 1 /\ x = D * q + m  BY <1>1
  <1> HIDE DEF q, m, D
  <1>3. D * q <= x /\ x < D * q + D  BY <1>1, <1>2
  <1>4. d <= q => d * D <= D * q  BY <1>1, <1>2
  <1>5. d > q => d * D >= D * q + D
    <2> SUFFICES ASSUME d > q PROVE d * D >= D * q + D  OBVIOUS
    <2>1. d >= q + 1  BY <1>2
    <2>2. d * D >= (q + 1) * D  BY <1>1, <1>2, <2>1
    <2> QED  BY <1>1, <1>2, <2>2
  <1>6. D * q \in Int /\ d * D \in Int  BY <1>1, <1>2
  <1>7. q \in Int /\ (d <= q <=> d * D <= x)  BY <1>1, <1>2, <1>3, <1>4, <1>5, <1>6
  <1> QED  BY <1>7 DEF q, D

\* A day begins at the first instant whose local time is its midnight or later.
LEMMA MidnightIs ==
    ASSUME AnalyticsAssumption, NEW z \in Zones, NEW d \in Int, 1 <= d * Day, d * Day <= End + 2 * Day
    PROVE  /\ Midnight(z, d) \in Nat
           /\ \A t \in Instants : Midnight(z, d) <= t <=> d * Day <= Local(z, t)
  <1> DEFINE wall  == d * Day
             shown == {t \in Instants : Local(z, t) = wall}
             until == {t \in Instants : Local(z, t) < wall}
             from  == {t \in Instants : wall <= Local(z, t)}
             last  == End + 2 * Day
  <1>1. wall \in Nat /\ 1 <= wall /\ wall <= last /\ last \in Nat  BY ReadNumbers
  <1>2. /\ \A t \in Instants : /\ t \in Nat /\ z[t] \in {0, 1} /\ Local(z, t) = t + z[t]
                               /\ Local(z, t) \in Nat
        /\ \A t, u \in Instants : t <= u => Local(z, t) <= Local(z, u)
    BY LocalIs
  <1>3. Instants = 0 .. last  BY DEF Instants
  <1>4. Midnight(z, d) = IF shown # {} THEN CHOOSE t \in shown : \A u \in shown : t <= u
                         ELSE wall - z[CHOOSE t \in until : \A u \in until : u <= t]
    BY DEF Midnight
  <1> HIDE DEF wall, shown, until, last
  <1>5. last \in from  BY <1>1, <1>2, <1>3
  <1>6. from \in SUBSET Nat  BY <1>2
  <1>7. PICK f \in from : \A t \in from : f <= t  BY <1>5, <1>6, FirstPosition
  <1>8. f \in Instants /\ f \in Nat /\ wall <= Local(z, f)  BY <1>2, <1>7
  <1>9. \A t \in Instants : f <= t <=> wall <= Local(z, t)
    <2> SUFFICES ASSUME NEW t \in Instants PROVE f <= t <=> wall <= Local(z, t)  OBVIOUS
    <2>1. f <= t => Local(z, f) <= Local(z, t)  BY <1>2, <1>8
    <2>2. wall <= Local(z, t) => f <= t  BY <1>7
    <2> QED  BY <1>1, <1>2, <1>8, <2>1, <2>2
  <1>10. CASE shown # {}
    <2>1. PICK s \in shown : TRUE  BY <1>10
    <2>2. s \in Instants /\ Local(z, s) = wall  BY <2>1 DEF shown
    <2>3. f <= s  BY <1>1, <1>9, <2>2
    <2>4. Local(z, f) <= wall  BY <1>2, <1>8, <2>2, <2>3
    <2>5. f \in shown  BY <1>1, <1>2, <1>8, <2>4 DEF shown
    <2>6. \A t \in shown : f <= t  BY <1>1, <1>9 DEF shown
    <2>7. shown \subseteq Nat  BY <1>2 DEF shown
    <2>8. (CHOOSE t \in shown : \A u \in shown : t <= u) = f
      <3> DEFINE c == CHOOSE t \in shown : \A u \in shown : t <= u
      <3>1. c \in shown /\ \A u \in shown : c <= u  BY <2>5, <2>6
      <3> HIDE DEF c
      <3>2. c \in Nat /\ c <= f /\ f <= c  BY <2>5, <2>6, <2>7, <3>1
      <3>3. c = f  BY <1>8, <3>2
      <3> QED  BY <3>3 DEF c
    <2>9. Midnight(z, d) = f  BY <1>4, <1>10, <2>8
    <2> QED  BY <1>8, <1>9, <2>9 DEF wall
  <1>11. CASE shown = {}
    <2>1. f # 0
      <3> SUFFICES ASSUME f = 0 PROVE FALSE  OBVIOUS
      <3>1. Local(z, f) = z[f] /\ z[f] \in {0, 1}  BY <1>2, <1>8
      <3>2. Local(z, f) = wall  BY <1>1, <1>8, <3>1
      <3> QED  BY <1>8, <1>11, <3>2 DEF shown
    <2>2. f - 1 \in Instants /\ f - 1 \in Nat  BY <1>1, <1>3, <1>8, <2>1
    <2>3. ~(wall <= Local(z, f - 1))  BY <1>8, <1>9, <2>2
    <2>4. f - 1 \in until  BY <1>1, <1>2, <2>2, <2>3 DEF until
    <2>5. \A t \in until : t <= f - 1
      <3> SUFFICES ASSUME NEW t \in until PROVE t <= f - 1  OBVIOUS
      <3>1. t \in Instants /\ Local(z, t) < wall  BY DEF until
      <3>2. t \in Nat /\ ~(f <= t)  BY <1>1, <1>2, <1>9, <3>1
      <3> QED  BY <1>8, <3>2
    <2>6. until \subseteq Nat  BY <1>2 DEF until
    <2>7. (CHOOSE t \in until : \A u \in until : u <= t) = f - 1
      <3> DEFINE c == CHOOSE t \in until : \A u \in until : u <= t
      <3>1. c \in until /\ \A u \in until : u <= c  BY <2>4, <2>5
      <3> HIDE DEF c
      <3>2. c \in Nat /\ c <= f - 1 /\ f - 1 <= c  BY <2>4, <2>5, <2>6, <3>1
      <3>3. c = f - 1  BY <2>2, <3>2
      <3> QED  BY <3>3 DEF c
    <2>8. Midnight(z, d) = wall - z[f - 1]  BY <1>4, <1>11, <2>7
    <2>9. Local(z, f) # wall  BY <1>8, <1>11 DEF shown
    <2>10. /\ Local(z, f) = f + z[f] /\ z[f] \in {0, 1}
           /\ Local(z, f - 1) = f - 1 + z[f - 1] /\ z[f - 1] \in {0, 1}
      BY <1>2, <1>8, <2>2
    <2>11. wall - z[f - 1] = f  BY <1>1, <1>8, <2>3, <2>9, <2>10
    <2> QED  BY <1>8, <1>9, <2>8, <2>11 DEF wall
  <1> QED  BY <1>10, <1>11

\* From one midnight to another come the visits of the days between.
LEMMA DaysBetween ==
    ASSUME AnalyticsAssumption, ReadTypeOK, NEW z \in Zones, NEW vs \in SUBSET DOMAIN visits,
           NEW d \in Int, NEW e \in Int, 1 <= d, 1 <= e, d <= Today(z) + 1, e <= Today(z) + 1
    PROVE  Within(vs, Midnight(z, d), Midnight(z, e)) =
              {v \in vs : d <= LocalDate(z, visits[v].at) /\ LocalDate(z, visits[v].at) < e}
  <1>1. now \in Instants /\ now <= End /\ Local(z, now) \in Nat /\ Local(z, now) <= End + 1
    <2>1. now \in Start .. End  BY DEF ReadTypeOK
    <2>2. now \in Instants /\ now <= End  BY <2>1, ReadNumbers DEF Instants
    <2> QED  BY <2>2, LocalIs, ReadNumbers
  <1>2. ASSUME NEW x \in Int, 1 <= x, x <= Today(z) + 1
        PROVE  1 <= x * Day /\ x * Day <= End + 2 * Day
    <2>1. x - 1 <= Local(z, now) \div Day  BY <1>1, <1>2, DateIs DEF Today, LocalDate
    <2>2. (x - 1) * Day <= Local(z, now)  BY <1>1, <2>1, DateIs
    <2>3. Day \in Nat /\ Day >= 1 /\ End \in Nat  BY ReadNumbers
    <2>4. (x - 1) * Day = x * Day - Day /\ x * Day \in Int  BY <2>3
    <2>5. x * Day >= 1 * Day  BY <1>2, <2>3
    <2> QED  BY <1>1, <2>2, <2>3, <2>4, <2>5
  <1>3. ASSUME NEW v \in vs
        PROVE  visits[v].at \in Instants
    <2>1. visits[v] \in Visit  BY DEF ReadTypeOK
    <2> QED  BY <2>1, ReadNumbers DEF Visit, Instants
  <1>4. ASSUME NEW v \in vs, NEW x \in Int, 1 <= x, x <= Today(z) + 1
        PROVE  /\ Midnight(z, x) \in Nat /\ visits[v].at \in Nat /\ LocalDate(z, visits[v].at) \in Int
               /\ Midnight(z, x) <= visits[v].at <=> x <= LocalDate(z, visits[v].at)
    <2>1. visits[v].at \in Instants /\ visits[v].at \in Nat /\ Local(z, visits[v].at) \in Nat
      BY <1>3, LocalIs
    <2>2. /\ Midnight(z, x) \in Nat
          /\ Midnight(z, x) <= visits[v].at <=> x * Day <= Local(z, visits[v].at)
      BY <1>2, <1>4, <2>1, MidnightIs
    <2> QED  BY <2>1, <2>2, DateIs DEF LocalDate
  <1>5. ASSUME NEW v \in vs
        PROVE  (Midnight(z, d) <= visits[v].at /\ visits[v].at < Midnight(z, e)) <=>
                  (d <= LocalDate(z, visits[v].at) /\ LocalDate(z, visits[v].at) < e)
    BY <1>4
  <1> QED  BY <1>5 DEF Within

\* As many days as are shown lie behind.
LEMMA TodayIs ==
    ASSUME AnalyticsAssumption, ReadTypeOK, NEW z \in Zones
    PROVE  Today(z) \in Int /\ Recent + 1 <= Today(z) /\ Weeks * Week <= Today(z)
  <1>1. now \in Instants /\ Start <= now /\ now \in Nat
    BY ReadNumbers DEF ReadTypeOK, Instants
  <1>2. Local(z, now) \in Nat /\ now <= Local(z, now)  BY <1>1, LocalIs
  <1>3. Weeks * Week \in Int /\ Recent + 1 \in Int  BY ReadNumbers
  <1>4. Day * (Recent + 1) <= Local(z, now) /\ Day * (Weeks * Week) <= Local(z, now)
    BY <1>1, <1>2, <1>3, ReadNumbers
  <1>5. (Recent + 1) * Day <= Local(z, now) /\ (Weeks * Week) * Day <= Local(z, now)
    <2> DEFINE w == Weeks * Week
    <2> HIDE DEF w
    <2>1. Day * (Recent + 1) = (Recent + 1) * Day  BY ReadNumbers
    <2>2. Day * w = w * Day  BY <1>3, ReadNumbers DEF w
    <2> QED  BY <1>4, <2>1, <2>2 DEF w
  <1> QED  BY <1>2, <1>3, <1>5, DateIs DEF Today, LocalDate

LEMMA DatesAreNumbers ==
    ASSUME AnalyticsAssumption, ReadTypeOK, NEW z \in Zones, NEW v \in DOMAIN visits
    PROVE  LocalDate(z, visits[v].at) \in Int
  <1>1. visits[v] \in Visit  BY DEF ReadTypeOK
  <1>2. visits[v].at \in Instants  BY <1>1, ReadNumbers DEF Visit, Instants
  <1>3. Local(z, visits[v].at) \in Nat  BY <1>2, LocalIs
  <1> QED  BY <1>3, DateIs DEF LocalDate

LEMMA LastDaysAre ==
    ASSUME AnalyticsAssumption, ReadTypeOK, NEW z \in Zones, NEW d \in 1 .. Recent
    PROVE  LastDays(z, Live, Recent)[d] = {v \in Live : LocalDate(z, visits[v].at) = Today(z) - Recent + d}
  <1> DEFINE bounds == Bounds(z, Today(z) - Recent + 1, Recent)
             x == Today(z) - Recent + d
  <1>1. Recent \in Nat /\ Recent >= 1  BY ReadNumbers
  <1>2. Len(bounds) = Recent + 1  BY <1>1 DEF Bounds
  <1>3. Today(z) \in Int /\ Recent + 1 <= Today(z)  BY TodayIs
  <1>4. bounds[d] = Midnight(z, x) /\ bounds[d + 1] = Midnight(z, x + 1)
    <2>1. d \in 1 .. Recent + 1 /\ d + 1 \in 1 .. Recent + 1  BY <1>1
    <2>2. Today(z) - Recent + 1 + d - 1 = x /\ Today(z) - Recent + 1 + (d + 1) - 1 = x + 1
      BY <1>1, <1>3
    <2>3. /\ bounds[d] = Midnight(z, Today(z) - Recent + 1 + d - 1)
          /\ bounds[d + 1] = Midnight(z, Today(z) - Recent + 1 + (d + 1) - 1)
      BY <2>1 DEF Bounds
    <2> QED  BY <2>2, <2>3
  <1>5. LastDays(z, Live, Recent)[d] = Within(Live, bounds[d], bounds[d + 1])
    <2>1. LastDays(z, Live, Recent) = CountPerPeriod(Live, bounds)  BY DEF LastDays
    <2> HIDE DEF bounds
    <2>2. d \in 1 .. Len(bounds) - 1  BY <1>1, <1>2
    <2> QED  BY <2>1, <2>2 DEF CountPerPeriod
  <1> HIDE DEF bounds
  <1>6. x \in Int /\ 1 <= x /\ x + 1 <= Today(z) + 1  BY <1>1, <1>3
  <1>7. Live \in SUBSET DOMAIN visits  BY DEF Live
  <1> HIDE DEF x
  <1>8. LastDays(z, Live, Recent)[d] =
           {v \in Live : x <= LocalDate(z, visits[v].at) /\ LocalDate(z, visits[v].at) < x + 1}
    BY <1>3, <1>4, <1>5, <1>6, <1>7, DaysBetween
  <1>9. \A v \in Live : LocalDate(z, visits[v].at) \in Int  BY <1>7, DatesAreNumbers
  <1>10. {v \in Live : x <= LocalDate(z, visits[v].at) /\ LocalDate(z, visits[v].at) < x + 1} =
            {v \in Live : LocalDate(z, visits[v].at) = x}
    BY <1>6, <1>9
  <1> QED  BY <1>8, <1>10 DEF x

LEMMA LastWeeksAre ==
    ASSUME AnalyticsAssumption, ReadTypeOK, NEW z \in Zones, NEW w \in 1 .. Weeks
    PROVE  LET first == Today(z) - (Weeks - w + 1) * Week + 1
           IN  LastWeeks(z, Live, Weeks)[w] =
                  {v \in Live : IsIn(z, v, [first |-> first, last |-> first + Week - 1])}
  <1> DEFINE n      == Weeks * Week
             days   == Bounds(z, Today(z) - n + 1, n)
             bounds == [i \in 1 .. Weeks + 1 |-> days[(i - 1) * Week + 1]]
             first  == Today(z) - (Weeks - w + 1) * Week + 1
             k      == (w - 1) * Week
  <1>1. Weeks \in Nat /\ Weeks >= 1 /\ Week \in Nat /\ Week >= 1 /\ w \in Nat  BY ReadNumbers
  <1>2. Today(z) \in Int /\ n <= Today(z)  BY TodayIs
  <1>3. LastWeeks(z, Live, Weeks) = CountPerPeriod(Live, bounds)  BY DEF LastWeeks
  <1>4. Len(bounds) = Weeks + 1  BY <1>1
  <1>5. LastWeeks(z, Live, Weeks)[w] = Within(Live, bounds[w], bounds[w + 1])
    <2> HIDE DEF bounds
    <2>1. w \in 1 .. Len(bounds) - 1  BY <1>1, <1>4
    <2> QED  BY <1>3, <2>1 DEF CountPerPeriod
  <1>6. bounds[w] = days[k + 1] /\ bounds[w + 1] = days[k + Week + 1]
    <2>1. w \in 1 .. Weeks + 1 /\ w + 1 \in 1 .. Weeks + 1  BY <1>1
    <2>2. (w + 1 - 1) * Week = k + Week  BY <1>1
    <2> HIDE DEF days, k
    <2> QED  BY <2>1, <2>2 DEF k
  <1>7. k \in Nat /\ k + Week <= n /\ n \in Nat
    <2>1. w * Week <= Weeks * Week  BY <1>1
    <2>2. k + Week = w * Week  BY <1>1
    <2>3. 0 <= w - 1 /\ w - 1 \in Nat  BY <1>1
    <2> QED  BY <1>1, <2>1, <2>2, <2>3
  <1>8. first = Today(z) - n + 1 + k /\ first \in Int
    <2>1. (Weeks - w + 1) * Week = n - k  BY <1>1
    <2> HIDE DEF n, k
    <2> QED  BY <1>2, <1>7, <2>1
  <1> HIDE DEF n, k, first, bounds
  <1>9. days[k + 1] = Midnight(z, first) /\ days[k + Week + 1] = Midnight(z, first + Week)
    <2>1. k + 1 \in 1 .. n + 1 /\ k + Week + 1 \in 1 .. n + 1  BY <1>1, <1>7
    <2>2. /\ days[k + 1] = Midnight(z, Today(z) - n + 1 + (k + 1) - 1)
          /\ days[k + Week + 1] = Midnight(z, Today(z) - n + 1 + (k + Week + 1) - 1)
      BY <2>1 DEF Bounds
    <2>3. /\ Today(z) - n + 1 + (k + 1) - 1 = first
          /\ Today(z) - n + 1 + (k + Week + 1) - 1 = first + Week
      BY <1>1, <1>2, <1>7, <1>8
    <2> QED  BY <2>2, <2>3
  <1>10. 1 <= first /\ first + Week <= Today(z) + 1  BY <1>1, <1>2, <1>7, <1>8
  <1>11. Live \in SUBSET DOMAIN visits  BY DEF Live
  <1>12. LastWeeks(z, Live, Weeks)[w] =
            {v \in Live : first <= LocalDate(z, visits[v].at) /\ LocalDate(z, visits[v].at) < first + Week}
    <2>1. first + Week \in Int /\ 1 <= first + Week /\ first <= Today(z) + 1  BY <1>1, <1>2, <1>8, <1>10
    <2> QED  BY <1>5, <1>6, <1>8, <1>9, <1>10, <1>11, <2>1, DaysBetween
  <1>13. \A v \in Live : LocalDate(z, visits[v].at) \in Int  BY <1>11, DatesAreNumbers
  <1>14. \A v \in Live : (first <= LocalDate(z, visits[v].at) /\ LocalDate(z, visits[v].at) < first + Week) <=>
                         IsIn(z, v, [first |-> first, last |-> first + Week - 1])
    BY <1>1, <1>8, <1>13 DEF IsIn
  <1>15. LastWeeks(z, Live, Weeks)[w] =
            {v \in Live : IsIn(z, v, [first |-> first, last |-> first + Week - 1])}
    BY <1>12, <1>14
  <1> QED  BY <1>15 DEF first

-----------------------------------------------------------------------------
(* The buckets of a period, from any of its days on.                        *)

\* What Buckets' recursion says of a function of days, from n on.
CutsFrom(f, p, group, n) ==
    \A d \in n .. p.last + 1 :
        f[d] = IF d > p.last THEN <<>>
               ELSE <<[first |-> d, last |-> BucketEnd(p, group, d)]>> \o f[BucketEnd(p, group, d) + 1]

\* Buckets that hold each day from d to the last once, in order.
Bucket == [first : Int, last : Int]
Parted(s, d, last) ==
    /\ s \in Seq(Bucket)
    /\ \A i \in DOMAIN s : d <= s[i].first /\ s[i].first <= s[i].last /\ s[i].last <= last
    /\ \A i, j \in DOMAIN s : i < j => s[i].last < s[j].first
    /\ \A x \in d .. last : \E i \in DOMAIN s : s[i].first <= x /\ x <= s[i].last

LEMMA BucketEnds ==
    ASSUME AnalyticsAssumption, NEW p, p.last \in Int, NEW group, NEW d \in Int, d <= p.last
    PROVE  BucketEnd(p, group, d) \in d .. p.last
  <1> DEFINE ends == {e \in d .. p.last : EndsGroup(group, e)} \cup {p.last}
             past == {k \in Nat : d + k \in ends}
  <1>1. ends \subseteq d .. p.last /\ p.last \in ends  OBVIOUS
  <1>2. past \in SUBSET Nat /\ p.last - d \in past  BY <1>1
  <1>3. BucketEnd(p, group, d) = CHOOSE e \in ends : \A n \in ends : e <= n  BY DEF BucketEnd
  <1> HIDE DEF ends
  <1>4. PICK k \in past : \A j \in past : k <= j
    <2> HIDE DEF past
    <2> QED  BY <1>2, FirstPosition
  <1>5. d + k \in ends /\ k \in Nat  BY <1>4
  <1>6. ASSUME NEW n \in ends PROVE d + k <= n
    <2>1. n \in Int /\ n - d \in Nat /\ d + (n - d) = n  BY <1>1
    <2>2. k <= n - d  BY <1>4, <2>1
    <2> QED  BY <1>5, <2>1, <2>2
  <1> QED  BY <1>1, <1>3, <1>5, <1>6

\* One bucket before others that begin after it.
LEMMA OneBefore ==
    ASSUME NEW t, NEW d \in Int, NEW e \in Int, NEW last \in Int, d < e, e <= last + 1, Parted(t, e, last)
    PROVE  Parted(<<[first |-> d, last |-> e - 1]>> \o t, d, last)
  <1> DEFINE b == [first |-> d, last |-> e - 1]
             s == <<b>> \o t
  <1>1. b \in Bucket /\ b.first = d /\ b.last = e - 1  BY DEF Bucket
  <1>2. t \in Seq(Bucket)  BY DEF Parted
  <1> HIDE DEF b
  <1>3. /\ s \in Seq(Bucket) /\ Len(s) = Len(t) + 1 /\ s[1] = b /\ Len(t) \in Nat
        /\ \A i \in 1 .. Len(t) : s[i + 1] = t[i]
    BY <1>1, <1>2
  <1> HIDE DEF s
  <1>4. DOMAIN s = 1 .. Len(t) + 1 /\ DOMAIN t = 1 .. Len(t)  BY <1>2, <1>3
  <1>5. ASSUME NEW i \in DOMAIN s, i # 1
        PROVE  i - 1 \in DOMAIN t /\ s[i] = t[i - 1] /\ t[i - 1] \in Bucket
    <2>1. i - 1 \in 1 .. Len(t) /\ i - 1 + 1 = i  BY <1>3, <1>4, <1>5
    <2> QED  BY <1>2, <1>3, <1>4, <2>1
  <1>6. ASSUME NEW i \in DOMAIN s
        PROVE  d <= s[i].first /\ s[i].first <= s[i].last /\ s[i].last <= last
    <2>1. CASE i = 1  BY <1>1, <1>3, <2>1
    <2>2. CASE i # 1  BY <1>5, <2>2 DEF Parted, Bucket
    <2> QED  BY <2>1, <2>2
  <1>7. ASSUME NEW i \in DOMAIN s, NEW j \in DOMAIN s, i < j
        PROVE  s[i].last < s[j].first
    <2>1. j # 1 /\ i \in Nat /\ j \in Nat  BY <1>3, <1>4, <1>7
    <2>2. CASE i = 1
      <3>1. e <= s[j].first /\ s[j].first \in Int  BY <1>5, <2>1 DEF Parted, Bucket
      <3> QED  BY <1>1, <1>3, <2>2, <3>1
    <2>3. CASE i # 1
      <3>1. i - 1 < j - 1  BY <1>7, <2>1
      <3> QED  BY <1>5, <2>1, <2>3, <3>1 DEF Parted
    <2> QED  BY <2>2, <2>3
  <1>8. ASSUME NEW x \in d .. last
        PROVE  \E i \in DOMAIN s : s[i].first <= x /\ x <= s[i].last
    <2>1. CASE x < e  BY <1>1, <1>3, <1>4, <2>1
    <2>2. CASE x >= e
      <3>1. x \in e .. last  BY <2>2
      <3>2. PICK i \in DOMAIN t : t[i].first <= x /\ x <= t[i].last  BY <3>1 DEF Parted
      <3>3. i + 1 \in DOMAIN s /\ s[i + 1] = t[i]  BY <1>3, <1>4
      <3> QED  BY <3>2, <3>3
    <2> QED  BY <2>1, <2>2
  <1>9. Parted(s, d, last)  BY <1>3, <1>6, <1>7, <1>8 DEF Parted
  <1> QED  BY <1>9 DEF s, b

\* A period that is cut from each of its days on is parted by it: the last day for which it is not
\* would be followed by one for which it is.
LEMMA CutsPart ==
    ASSUME AnalyticsAssumption, NEW p, p.first \in Int, p.last \in Int, NEW group, NEW f,
           CutsFrom(f, p, group, p.first)
    PROVE  \A d \in p.first .. p.last + 1 : Parted(f[d], d, p.last)
  <1> DEFINE first == p.first
             last  == p.last
             bad   == {k \in Nat : last + 1 - k >= first /\ ~Parted(f[last + 1 - k], last + 1 - k, last)}
             end(d) == BucketEnd(p, group, d)
  <1>1. first \in Int /\ last \in Int  OBVIOUS
  <1>2. /\ first <= last + 1 => f[last + 1] = <<>>
        /\ \A d \in first .. last : f[d] = <<[first |-> d, last |-> end(d)]>> \o f[end(d) + 1]
    <2>1. \A d \in first .. last + 1 :
             f[d] = IF d > last THEN <<>> ELSE <<[first |-> d, last |-> end(d)]>> \o f[end(d) + 1]
      BY DEF CutsFrom
    <2>2. \A d \in first .. last : d \in first .. last + 1 /\ ~(d > last)  BY <1>1
    <2>3. first <= last + 1 => last + 1 \in first .. last + 1 /\ last + 1 > last  BY <1>1
    <2> HIDE DEF first, last, end
    <2> QED  BY <2>1, <2>2, <2>3
  <1>3. \A d \in Int : d <= last => end(d) \in d .. last  BY <1>1, BucketEnds
  <1> HIDE DEF first, last, end
  <1>4. ASSUME bad # {} PROVE FALSE
    <2>1. PICK k \in bad : \A j \in bad : k <= j
      <3>1. bad \in SUBSET Nat  OBVIOUS
      <3> QED  BY <1>4, <3>1, FirstPosition
    <2> DEFINE d == last + 1 - k
    <2>2. k \in Nat /\ d \in first .. last + 1 /\ ~Parted(f[d], d, last)  BY <1>1, <2>1
    <2>3. CASE k = 0
      <3>1. d = last + 1 /\ first <= last + 1  BY <1>1, <2>2, <2>3
      <3>2. f[d] = <<>>
        <4> HIDE DEF d
        <4> QED  BY <1>2, <3>1
      <3>3. Parted(<<>>, last + 1, last)  BY <1>1 DEF Parted
      <3> QED  BY <2>2, <3>1, <3>2, <3>3
    <2>4. CASE k > 0
      <3> DEFINE e == end(d) + 1
                 j == last + 1 - e
                 t == f[e]
                 b == [first |-> d, last |-> e - 1]
                 s == <<b>> \o t
      <3>1. d \in Int /\ d <= last  BY <1>1, <2>2, <2>4
      <3>2. end(d) \in d .. last  BY <1>3, <3>1
      <3>3. e \in d + 1 .. last + 1 /\ e - 1 = end(d)  BY <1>1, <3>1, <3>2
      <3>4. f[d] = s
        <4>1. f[d] = <<[first |-> d, last |-> end(d)]>> \o f[end(d) + 1]
          <5>1. d \in first .. last  BY <1>1, <2>2, <3>1
          <5> HIDE DEF d
          <5> QED  BY <1>2, <5>1
        <4> QED  BY <3>3, <4>1
      <3>5. j \in Nat /\ j < k /\ last + 1 - j = e  BY <1>1, <2>2, <3>1, <3>3
      <3>6. Parted(t, e, last)
        <4>1. j \notin bad
          <5> SUFFICES ASSUME j \in bad PROVE FALSE  OBVIOUS
          <5>1. k <= j  BY <2>1
          <5> QED  BY <2>2, <3>5, <5>1
        <4>2. last + 1 - j >= first  BY <1>1, <2>2, <3>1, <3>3, <3>5
        <4> QED  BY <3>5, <4>1, <4>2
      <3> HIDE DEF d, e, j, t
      <3>7. Parted(s, d, last)  BY <1>1, <3>1, <3>3, <3>6, OneBefore
      <3> QED  BY <2>2, <3>4, <3>7
    <2> QED  BY <2>2, <2>3, <2>4
  <1>5. ASSUME NEW d \in first .. last + 1 PROVE Parted(f[d], d, last)
    <2>1. last + 1 - d \in Nat /\ last + 1 - (last + 1 - d) = d /\ d >= first  BY <1>1
    <2>2. last + 1 - d \notin bad  BY <1>4
    <2> QED  BY <2>1, <2>2
  <1> QED  BY <1>5 DEF first, last

\* From each day there are cuts to the last: those from the next day on, and one more.
LEMMA CutsExist ==
    ASSUME AnalyticsAssumption, NEW p, p.first \in Int, p.last \in Int, NEW group
    PROVE  \A n \in p.first .. p.last + 1 : \E f : CutsFrom(f, p, group, n)
  <1> DEFINE first == p.first
             last  == p.last
             end(d) == BucketEnd(p, group, d)
             Cuts(f, n) == \A d \in n .. last + 1 :
                              f[d] = IF d > last THEN <<>>
                                     ELSE <<[first |-> d, last |-> end(d)]>> \o f[end(d) + 1]
             bad   == {k \in Nat : last + 1 - k >= first /\ ~\E f : Cuts(f, last + 1 - k)}
  <1>1. first \in Int /\ last \in Int  OBVIOUS
  <1>2. \A f, n : Cuts(f, n) <=> CutsFrom(f, p, group, n)  BY DEF CutsFrom
  <1>3. \A d \in Int : d <= last => end(d) \in d .. last  BY <1>1, BucketEnds
  <1> HIDE DEF first, last, end
  <1>4. ASSUME bad # {} PROVE FALSE
    <2>1. PICK k \in bad : \A j \in bad : k <= j
      <3>1. bad \in SUBSET Nat  OBVIOUS
      <3> QED  BY <1>4, <3>1, FirstPosition
    <2> DEFINE n == last + 1 - k
    <2>2. k \in Nat /\ n \in Int /\ first <= n /\ n <= last + 1  BY <1>1, <2>1
    <2>3. ~\E f : Cuts(f, n)  BY <2>1
    <2>4. CASE k = 0
      <3> DEFINE f == [x \in {last + 1} |-> <<>>]
      <3>1. n = last + 1  BY <1>1, <2>4
      <3>2. \A d \in n .. last + 1 : d = last + 1 /\ d > last  BY <1>1, <3>1
      <3>3. Cuts(f, n)
        <4>1. f[last + 1] = <<>>  OBVIOUS
        <4> HIDE DEF f, n
        <4> QED  BY <3>2, <4>1
      <3> QED  BY <2>3, <3>3
    <2>5. CASE k > 0
      <3> DEFINE j == k - 1
      <3>1. j \in Nat /\ j < k /\ last + 1 - j = n + 1 /\ n + 1 >= first /\ n <= last
        BY <1>1, <2>2, <2>5
      <3>2. j \notin bad
        <4> SUFFICES ASSUME j \in bad PROVE FALSE  OBVIOUS
        <4>1. k <= j  BY <2>1
        <4> QED  BY <2>2, <3>1, <4>1
      <3>3. \E g : Cuts(g, n + 1)
        <4>1. last + 1 - j >= first  BY <3>1
        <4> HIDE DEF j, n
        <4>2. \E g : Cuts(g, last + 1 - j)  BY <3>1, <3>2, <4>1
        <4> QED  BY <3>1, <4>2
      <3> HIDE DEF n
      <3> HIDE DEF bad, Cuts
      <3>4. PICK g : Cuts(g, n + 1)  BY <3>3
      <3> DEFINE f == [x \in first .. last + 1 |->
                          IF x = n THEN <<[first |-> n, last |-> end(n)]>> \o g[end(n) + 1] ELSE g[x]]
      <3>5. \A x \in n + 1 .. last + 1 : f[x] = g[x]
        <4>1. \A x \in n + 1 .. last + 1 : x \in first .. last + 1 /\ x # n  BY <1>1, <2>2
        <4> QED  BY <4>1
      <3>6. f[n] = <<[first |-> n, last |-> end(n)]>> \o g[end(n) + 1]
        <4>1. n \in first .. last + 1  BY <1>1, <2>2
        <4> QED  BY <4>1
      <3> HIDE DEF f
      <3>7. ASSUME NEW d \in n .. last PROVE end(d) + 1 \in n + 1 .. last + 1
        <4>1. d \in Int /\ d <= last /\ n <= d  BY <1>1, <2>2
        <4>2. end(d) \in d .. last  BY <1>3, <4>1
        <4> QED  BY <1>1, <2>2, <4>1, <4>2
      <3>8. ASSUME NEW d \in n .. last + 1
            PROVE  f[d] = IF d > last THEN <<>>
                          ELSE <<[first |-> d, last |-> end(d)]>> \o f[end(d) + 1]
        <4>1. CASE d = n
          <5>1. ~(d > last) /\ d \in n .. last  BY <1>1, <2>2, <3>1, <4>1
          <5>2. f[end(d) + 1] = g[end(d) + 1]  BY <3>5, <3>7, <5>1
          <5> QED  BY <3>6, <4>1, <5>1, <5>2
        <4>2. CASE d # n
          <5>1. d \in n + 1 .. last + 1  BY <1>1, <2>2, <4>2
          <5>2. f[d] = g[d]  BY <3>5, <5>1
          <5>3. g[d] = IF d > last THEN <<>> ELSE <<[first |-> d, last |-> end(d)]>> \o g[end(d) + 1]
            BY <3>4, <5>1 DEF Cuts
          <5>4. ~(d > last) => f[end(d) + 1] = g[end(d) + 1]
            <6>1. ~(d > last) => d \in n .. last  BY <1>1, <2>2, <5>1
            <6> QED  BY <3>5, <3>7, <6>1
          <5> QED  BY <5>2, <5>3, <5>4
        <4> QED  BY <4>1, <4>2
      <3>9. Cuts(f, n)  BY <3>8 DEF Cuts
      <3> QED  BY <2>3, <3>9
    <2> QED  BY <2>2, <2>4, <2>5
  <1>5. ASSUME NEW n \in first .. last + 1 PROVE \E f : Cuts(f, n)
    <2>1. last + 1 - n \in Nat /\ last + 1 - (last + 1 - n) = n /\ n >= first  BY <1>1
    <2>2. last + 1 - n \notin bad  BY <1>4
    <2> QED  BY <2>1, <2>2
  <1> QED  BY <1>2, <1>5 DEF first, last

\* So there is the function of days that Buckets' recursion is about.
LEMMA BucketsCut ==
    ASSUME AnalyticsAssumption, NEW p, p.first \in Int, p.last \in Int, p.first <= p.last, NEW group
    PROVE  \E f : CutsFrom(f, p, group, p.first) /\ Buckets(p, group) = f[p.first]
  <1> DEFINE S == p.first .. p.last + 1
             Cut(f) == [d \in S |-> IF d > p.last THEN <<>>
                                    ELSE <<[first |-> d, last |-> BucketEnd(p, group, d)]>>
                                            \o f[BucketEnd(p, group, d) + 1]]
             from == CHOOSE f : f = Cut(f)
  <1>1. p.first \in S  OBVIOUS
  <1>2. PICK g : CutsFrom(g, p, group, p.first)  BY <1>1, CutsExist
  <1> DEFINE h == [d \in S |-> g[d]]
  <1>3. h = Cut(h)
    <2>1. ASSUME NEW d \in S PROVE h[d] = Cut(h)[d]
      <3>1. CASE d > p.last
        <4>1. g[d] = <<>>  BY <1>2, <3>1 DEF CutsFrom
        <4> QED  BY <3>1, <4>1
      <3>2. CASE ~(d > p.last)
        <4>1. BucketEnd(p, group, d) + 1 \in S
          <5>1. d \in Int /\ d <= p.last /\ p.first <= d  BY <3>2
          <5>2. BucketEnd(p, group, d) \in d .. p.last  BY <5>1, BucketEnds
          <5> QED  BY <5>1, <5>2
        <4>2. g[d] = <<[first |-> d, last |-> BucketEnd(p, group, d)]>> \o g[BucketEnd(p, group, d) + 1]
          BY <1>2, <3>2 DEF CutsFrom
        <4> QED  BY <3>2, <4>1, <4>2
      <3> QED  BY <3>1, <3>2
    <2> QED  BY <2>1
  <1> HIDE DEF h, Cut
  <1>4. from = Cut(from)  BY <1>3
  <1>5. Buckets(p, group) = from[p.first]
    BY DEF Buckets, Cut
  <1> HIDE DEF from
  <1>6. CutsFrom(from, p, group, p.first)
    <2>1. \A d \in S : from[d] = Cut(from)[d]  BY <1>4
    <2> QED  BY <2>1 DEF CutsFrom, Cut
  <1> QED  BY <1>5, <1>6

\* The buckets of a period hold each of its days once, in order.
LEMMA BucketsPart ==
    ASSUME AnalyticsAssumption, NEW p, p.first \in Int, p.last \in Int, p.first <= p.last, NEW group
    PROVE  Parted(Buckets(p, group), p.first, p.last)
  <1>1. PICK f : CutsFrom(f, p, group, p.first) /\ Buckets(p, group) = f[p.first]  BY BucketsCut
  <1>2. p.first \in p.first .. p.last + 1  OBVIOUS
  <1> QED  BY <1>1, <1>2, CutsPart

\* The bucket a day is in is the one with as many that begin by then.
LEMMA BucketHolds ==
    ASSUME NEW s, NEW d \in Int, NEW last \in Int, NEW x \in d .. last, Parted(s, d, last)
    PROVE  LET place == Cardinality({b \in DOMAIN s : s[b].first <= x})
           IN  /\ place \in DOMAIN s /\ place # 0
               /\ \A i \in DOMAIN s : i = place <=> s[i].first <= x /\ x <= s[i].last
  <1> DEFINE begun == {b \in DOMAIN s : s[b].first <= x}
  <1>1. PICK i \in DOMAIN s : s[i].first <= x /\ x <= s[i].last  BY DEF Parted
  <1>2. s \in Seq(Bucket) /\ \A j \in DOMAIN s : s[j].first \in Int /\ s[j].last \in Int
    <2>1. s \in Seq(Bucket)  BY DEF Parted
    <2>2. \A j \in DOMAIN s : s[j] \in Bucket  BY <2>1
    <2> QED  BY <2>1, <2>2 DEF Bucket
  <1>3. DOMAIN s = 1 .. Len(s) /\ Len(s) \in Nat  BY <1>2
  <1>4. /\ \A j \in DOMAIN s : s[j].first <= s[j].last
        /\ \A j, k \in DOMAIN s : j < k => s[j].last < s[k].first
    BY DEF Parted
  <1>5. \A j \in DOMAIN s : j <= i => s[j].first <= x
    <2> SUFFICES ASSUME NEW j \in DOMAIN s, j < i PROVE s[j].first <= x  BY <1>1, <1>3
    <2>1. s[j].first <= s[j].last /\ s[j].last < s[i].first  BY <1>4
    <2> QED  BY <1>1, <1>2, <2>1
  <1>6. \A j \in DOMAIN s : i < j => ~(s[j].first <= x)
    <2> SUFFICES ASSUME NEW j \in DOMAIN s, i < j PROVE ~(s[j].first <= x)  OBVIOUS
    <2>1. s[i].last < s[j].first  BY <1>4
    <2> QED  BY <1>1, <1>2, <2>1
  <1>7. begun = 1 .. i
    <2>1. \A j \in begun : j \in 1 .. i  BY <1>3, <1>6
    <2>2. \A j \in 1 .. i : j \in begun  BY <1>3, <1>5
    <2> QED  BY <2>1, <2>2
  <1>8. Cardinality(begun) = i
    <2>1. i \in Nat /\ i >= 1  BY <1>3
    <2>2. Cardinality(1 .. i) = i  BY <2>1, FS_Interval
    <2> QED  BY <1>7, <2>1, <2>2
  <1>9. \A j \in DOMAIN s : s[j].first <= x /\ x <= s[j].last => j = i
    <2> SUFFICES ASSUME NEW j \in DOMAIN s, s[j].first <= x, x <= s[j].last, j # i PROVE FALSE
      OBVIOUS
    <2>1. ~(i < j)  BY <1>6
    <2>2. j < i  BY <1>3, <2>1
    <2>3. s[j].last < s[i].first  BY <1>4, <2>2
    <2> QED  BY <1>1, <1>2, <2>3
  <1> HIDE DEF begun
  <1>10. LET place == Cardinality(begun)
         IN  /\ place \in DOMAIN s /\ place # 0
             /\ \A j \in DOMAIN s : j = place <=> s[j].first <= x /\ x <= s[j].last
    BY <1>1, <1>3, <1>8, <1>9
  <1> QED  BY <1>10 DEF begun

\* A series counts each visit of its period, and no other, in the bucket its local date is in.
LEMMA SeriesIs ==
    ASSUME AnalyticsAssumption, ReadTypeOK, NEW z \in Zones, NEW p \in Ranges(z), NEW group,
           NEW b \in DOMAIN Series(z, Live, p, group)
    PROVE  LET series == Series(z, Live, p, group)
               of(type) == {v \in OfType(Live, type) : IsIn(z, v, series[b].bucket)}
           IN  series[b].clicks = of("clicks") /\ series[b].opens = of("opens")
  <1> DEFINE buckets  == Buckets(p, group)
             rows     == OfType(InPeriod(z, Live, p), "people")
             begun(v) == Cardinality({i \in DOMAIN buckets : buckets[i].first <= LocalDate(z, visits[v].at)})
             place(v) == IF begun(v) = 0 THEN Len(buckets) ELSE begun(v)
             placed(kind) == {v \in rows : place(v) = b /\ KindOf(v) = kind}
             is       == buckets[b]
             date(v)  == LocalDate(z, visits[v].at)
  <1>1. /\ p.first \in Int /\ p.last \in Int /\ 1 <= p.first /\ p.first <= p.last /\ p.last <= Today(z)
        /\ Today(z) \in Int
    BY TodayIs DEF Ranges
  <1>2. Parted(buckets, p.first, p.last)  BY <1>1, BucketsPart
  <1>3. /\ DOMAIN Series(z, Live, p, group) = DOMAIN buckets
        /\ Series(z, Live, p, group)[b] = [bucket |-> is, clicks |-> placed("clicks"), opens |-> placed("opens")]
    BY DEF Series
  <1>4. Live \in SUBSET DOMAIN visits  BY DEF Live
  <1>5. rows = {v \in Live : p.first <= date(v) /\ date(v) < p.last + 1 /\ IsKind(visits[v], "people")}
    <2>1. InPeriod(z, Live, p) = Within(Live, Midnight(z, p.first), Midnight(z, p.last + 1))
      BY DEF InPeriod, PeriodBounds
    <2>2. InPeriod(z, Live, p) = {v \in Live : p.first <= date(v) /\ date(v) < p.last + 1}
      BY <1>1, <1>4, <2>1, DaysBetween
    <2>3. rows = {v \in InPeriod(z, Live, p) : IsKind(visits[v], "people")}
      BY OfKind DEF AllKinds
    <2> QED  BY <2>2, <2>3
  <1>6. b \in DOMAIN buckets  BY <1>3
  <1>7. is \in Bucket /\ p.first <= is.first /\ is.last <= p.last
    <2>1. buckets \in Seq(Bucket)  BY <1>2 DEF Parted
    <2> QED  BY <1>2, <1>6, <2>1 DEF Parted
  <1> HIDE DEF buckets, rows
  <1>8. ASSUME NEW v \in rows
        PROVE  place(v) = b <=> is.first <= date(v) /\ date(v) <= is.last
    <2>1. v \in Live /\ date(v) \in Int /\ p.first <= date(v) /\ date(v) < p.last + 1
      BY <1>4, <1>5, DatesAreNumbers
    <2> HIDE DEF date
    <2>2. date(v) \in p.first .. p.last  BY <1>1, <2>1
    <2>3. LET n == Cardinality({i \in DOMAIN buckets : buckets[i].first <= date(v)})
          IN  /\ n \in DOMAIN buckets /\ n # 0
              /\ \A i \in DOMAIN buckets : i = n <=> buckets[i].first <= date(v) /\ date(v) <= buckets[i].last
      BY <1>1, <1>2, <2>2, BucketHolds
    <2>4. Cardinality({i \in DOMAIN buckets : buckets[i].first <= date(v)}) = begun(v)  BY DEF date
    <2> HIDE DEF begun
    <2> QED  BY <1>6, <2>3, <2>4
  <1>9. ASSUME NEW v \in Live
        PROVE  (v \in rows /\ place(v) = b) <=> (IsKind(visits[v], "people") /\ IsIn(z, v, is))
    <2>1. date(v) \in Int  BY <1>4, DatesAreNumbers
    <2>2. IsIn(z, v, is) <=> is.first <= date(v) /\ date(v) <= is.last
      BY <1>7, <2>1 DEF IsIn, Bucket
    <2>3. is.first \in Int /\ is.last \in Int  BY <1>7 DEF Bucket
    <2> HIDE DEF date, is, place
    <2>4. IsIn(z, v, is) => p.first <= date(v) /\ date(v) < p.last + 1
      BY <1>1, <1>7, <2>1, <2>2, <2>3
    <2> QED  BY <1>5, <1>8, <2>2, <2>4
  <1>10. \A v : KindOf(v) = "clicks" /\ IsKind(visits[v], "people") <=> IsKind(visits[v], "clicks")
    BY DEF KindOf, IsKind
  <1>11. \A v : KindOf(v) = "opens" /\ IsKind(visits[v], "people") <=> IsKind(visits[v], "opens")
    BY DEF KindOf, IsKind
  <1>12. rows \subseteq {v \in Live : IsKind(visits[v], "people")}  BY <1>5
  <1> HIDE DEF place, is
  <1>13. placed("clicks") = {v \in OfType(Live, "clicks") : IsIn(z, v, is)}
    <2>1. OfType(Live, "clicks") = {v \in Live : IsKind(visits[v], "clicks")}  BY OfKind DEF AllKinds
    <2> QED  BY <1>9, <1>10, <1>12, <2>1
  <1>14. placed("opens") = {v \in OfType(Live, "opens") : IsIn(z, v, is)}
    <2>1. OfType(Live, "opens") = {v \in Live : IsKind(visits[v], "opens")}  BY OfKind DEF AllKinds
    <2> QED  BY <1>9, <1>11, <1>12, <2>1
  <1> HIDE DEF placed
  <1> QED  BY <1>3, <1>13, <1>14

LEMMA EverySeriesFollows ==
    ASSUME AnalyticsAssumption, ReadTypeOK
    PROVE  SeriesFollowDays
  <1> SUFFICES ASSUME NEW z \in Zones
               PROVE  /\ \A p \in Ranges(z), group \in {"day", "week", "month"} :
                            LET series == Series(z, Live, p, group)
                                of(b, type) == {v \in OfType(Live, type) : IsIn(z, v, series[b].bucket)}
                            IN  \A b \in DOMAIN series : /\ series[b].clicks = of(b, "clicks")
                                                         /\ series[b].opens = of(b, "opens")
                      /\ LET days == LastDays(z, Live, Recent)
                         IN  \A d \in 1 .. Recent :
                                days[d] = {v \in Live : LocalDate(z, visits[v].at) = Today(z) - Recent + d}
                      /\ LET weeks == LastWeeks(z, Live, Weeks)
                             first(w) == Today(z) - (Weeks - w + 1) * Week + 1
                         IN  \A w \in 1 .. Weeks :
                                weeks[w] = {v \in Live :
                                               IsIn(z, v, [first |-> first(w), last |-> first(w) + Week - 1])}
    BY DEF SeriesFollowDays
  <1>1. \A p \in Ranges(z), group \in {"day", "week", "month"} :
           LET series == Series(z, Live, p, group)
               of(b, type) == {v \in OfType(Live, type) : IsIn(z, v, series[b].bucket)}
           IN  \A b \in DOMAIN series : /\ series[b].clicks = of(b, "clicks")
                                        /\ series[b].opens = of(b, "opens")
    BY SeriesIs
  <1>2. \A d \in 1 .. Recent :
           LastDays(z, Live, Recent)[d] = {v \in Live : LocalDate(z, visits[v].at) = Today(z) - Recent + d}
    BY LastDaysAre
  <1>3. \A w \in 1 .. Weeks :
           LET first == Today(z) - (Weeks - w + 1) * Week + 1
           IN  LastWeeks(z, Live, Weeks)[w] =
                  {v \in Live : IsIn(z, v, [first |-> first, last |-> first + Week - 1])}
    BY LastWeeksAre
  <1> QED  BY <1>1, <1>2, <1>3

\* Every series, day and week of an answer counts the visits whose local dates it covers, in
\* every zone, for any offsets, periods and visits (local_days.py, analytics.py).
THEOREM SeriesAreLocal ==
    ASSUME AnalyticsAssumption
    PROVE  ReadSpec => []SeriesFollowDays /\ []SeriesFollowTheDays
  <1>1. ReadInit => ReadInv  BY ReadStart
  <1>2. ReadInv /\ [ReadNext]_readVars => ReadInv'  BY ReadStep
  <1>3. ReadInv => SeriesFollowDays  BY EverySeriesFollows DEF ReadInv
  <1>4. SeriesFollowDays => SeriesFollowTheDays  BY DEF SeriesFollowTheDays
  <1> QED  BY <1>1, <1>2, <1>3, <1>4, PTL DEF ReadSpec

-----------------------------------------------------------------------------
(* What a reader of every page sees.                                        *)

LEMMA SpansAreNumbers ==
    ASSUME PagesAssumption
    PROVE  /\ PageSize \in Nat /\ PageSize > 0 /\ Span \in Nat /\ Late \in Nat /\ LastClock \in Nat
           /\ ListRows \in SUBSET Nat /\ IsFiniteSet(ListRows) /\ Clock \subseteq Nat /\ 0 \in Clock
  BY DEF PagesAssumption, Clock

\* Rows that are written.
AreWritten(R) == R \in SUBSET ListRows /\ \A r \in R : written[r] \in Nat /\ written[r] # Never

LEMMA NewerIsAnOrder ==
    ASSUME PagesAssumption, NEW R, AreWritten(R)
    PROVE  /\ \A r, q \in R : r # q => (Newer(r, q) \/ Newer(q, r))
           /\ \A r, q \in R : Newer(r, q) => ~Newer(q, r)
           /\ \A r, q, o \in R : Newer(r, q) /\ Newer(q, o) => Newer(r, o)
  <1>1. \A r \in R : r \in Nat /\ written[r] \in Nat  BY SpansAreNumbers DEF AreWritten
  <1> QED  BY <1>1 DEF Newer

\* There is an order of them: each at the place that those newer leave it.
LEMMA AnOrder ==
    ASSUME PagesAssumption, NEW R, AreWritten(R)
    PROVE  /\ Cardinality(R) \in Nat /\ IsFiniteSet(R)
           /\ \E s \in [1 .. Cardinality(R) -> R] : \A i, j \in DOMAIN s : i < j => Newer(s[i], s[j])
  <1> DEFINE before(r) == {q \in R : Newer(q, r)}
             f == [r \in R |-> Cardinality(before(r)) + 1]
             n == Cardinality(R)
  <1>1. IsFiniteSet(R) /\ n \in Nat
    BY SpansAreNumbers, FS_Subset, FS_CardinalityType DEF AreWritten
  <1>2. ASSUME NEW r \in R
        PROVE  /\ IsFiniteSet(before(r)) /\ Cardinality(before(r)) \in Nat /\ Cardinality(before(r)) < n
    <2>1. before(r) \in SUBSET R /\ r \notin before(r)
      BY NewerIsAnOrder
    <2> HIDE DEF before
    <2>2. /\ IsFiniteSet(before(r)) /\ Cardinality(before(r)) \in Nat
          /\ Cardinality(before(r)) <= n /\ Cardinality(before(r)) # n
      BY <1>1, <2>1, FS_Subset, FS_CardinalityType
    <2> QED  BY <1>1, <2>2
  <1>3. ASSUME NEW r \in R, NEW q \in R, Newer(r, q) PROVE f[r] < f[q]
    <2>1. before(r) \in SUBSET before(q) /\ r \in before(q) /\ r \notin before(r)
      BY <1>3, NewerIsAnOrder
    <2>2. /\ IsFiniteSet(before(q)) /\ Cardinality(before(q)) \in Nat /\ Cardinality(before(r)) \in Nat
      BY <1>2
    <2> HIDE DEF before
    <2>3. Cardinality(before(r)) <= Cardinality(before(q)) /\ Cardinality(before(r)) # Cardinality(before(q))
      BY <2>1, <2>2, FS_Subset
    <2> QED  BY <2>2, <2>3
  <1>4. f \in [R -> 1 .. n]
    <2>1. \A r \in R : Cardinality(before(r)) \in Nat /\ Cardinality(before(r)) < n  BY <1>2
    <2> HIDE DEF before
    <2> QED  BY <1>1, <2>1
  <1> HIDE DEF f, before
  <1>5. f \in Injection(R, 1 .. n)
    <2> SUFFICES ASSUME NEW r \in R, NEW q \in R, f[r] = f[q] PROVE r = q
      BY <1>4 DEF Injection, IsInjective
    <2>1. f[r] \in Int /\ f[q] \in Int  BY <1>4
    <2>2. ~Newer(r, q) /\ ~Newer(q, r)  BY <1>3, <2>1
    <2> QED  BY <2>2, NewerIsAnOrder
  <1>6. \A i \in 1 .. n : \E r \in R : f[r] = i
    <2>1. IsFiniteSet(1 .. n) /\ Cardinality(1 .. n) = n  BY <1>1, FS_Interval
    <2>2. f \in Surjection(R, 1 .. n)  BY <1>5, <2>1, FS_Injection
    <2> QED  BY <2>2 DEF Surjection
  <1> DEFINE s == [i \in 1 .. n |-> CHOOSE r \in R : f[r] = i]
  <1>7. s \in [1 .. n -> R] /\ \A i \in 1 .. n : f[s[i]] = i
    BY <1>6
  <1>8. ASSUME NEW i \in 1 .. n, NEW j \in 1 .. n, i < j PROVE Newer(s[i], s[j])
    <2>1. s[i] \in R /\ s[j] \in R /\ f[s[i]] = i /\ f[s[j]] = j  BY <1>7
    <2> HIDE DEF s
    <2>2. i \in Int /\ j \in Int  OBVIOUS
    <2>3. s[i] # s[j] /\ ~Newer(s[j], s[i])  BY <1>3, <1>8, <2>1, <2>2
    <2> QED  BY <2>1, <2>3, NewerIsAnOrder
  <1> HIDE DEF s
  <1>9. DOMAIN s = 1 .. n  BY <1>7
  <1> QED  BY <1>1, <1>7, <1>8, <1>9

\* What NewestFirst(R) is: the rows of R, each once, the newer before.
IsOrder(s, R) ==
    /\ s \in Seq(ListRows) /\ Len(s) = Cardinality(R) /\ Len(s) \in Nat /\ DOMAIN s = 1 .. Len(s)
    /\ \A i \in 1 .. Len(s) : s[i] \in R
    /\ \A r \in R : \E i \in 1 .. Len(s) : s[i] = r
    /\ \A i, j \in 1 .. Len(s) : i < j => Newer(s[i], s[j])
    /\ \A i, j \in 1 .. Len(s) : s[i] = s[j] => i = j

LEMMA NewestFirstIs ==
    ASSUME PagesAssumption, NEW R, AreWritten(R)
    PROVE  IsOrder(NewestFirst(R), R)
  <1> DEFINE s == NewestFirst(R)
             n == Cardinality(R)
  <1>1. n \in Nat /\ IsFiniteSet(R)  BY AnOrder
  <1>2. s \in [1 .. n -> R] /\ \A i, j \in DOMAIN s : i < j => Newer(s[i], s[j])
    BY AnOrder DEF NewestFirst
  <1> HIDE DEF s
  <1>3. \A i, j \in 1 .. n : i < j => Newer(s[i], s[j]) /\ s[i] # s[j]
    BY <1>2, NewerIsAnOrder
  <1>4. \A i, j \in 1 .. n : s[i] = s[j] => i = j
    BY <1>1, <1>3
  <1>5. s \in Injection(1 .. n, R)
    BY <1>2, <1>4 DEF Injection, IsInjective
  <1>6. \A r \in R : \E i \in 1 .. n : s[i] = r
    <2>1. Cardinality(1 .. n) = n  BY <1>1, FS_Interval
    <2>2. s \in Surjection(1 .. n, R)  BY <1>1, <1>5, <2>1, FS_Injection
    <2> QED  BY <2>2 DEF Surjection
  <1>7. s \in Seq(ListRows) /\ Len(s) = n /\ DOMAIN s = 1 .. n
    BY <1>1, <1>2 DEF AreWritten
  <1> HIDE DEF n
  <1>8. n = Cardinality(R)  BY DEF n
  <1>9. \A i \in 1 .. n : s[i] \in R  BY <1>2
  <1> QED  BY <1>1, <1>3, <1>4, <1>6, <1>7, <1>8, <1>9 DEF IsOrder, s

\* A row's place is one more than the rows newer than it.
NewerThan(r) == {q \in ListRows : written[q] # Never /\ Newer(q, r)}

LEMMA PlaceIs ==
    ASSUME PagesAssumption, NEW R, AreWritten(R), NEW s, IsOrder(s, R), NEW k \in 1 .. Len(s),
           NewerThan(s[k]) \subseteq R, \A r \in R : written[r] # Never
    PROVE  Cardinality(NewerThan(s[k])) = k - 1
  <1> DEFINE f == [i \in 1 .. k - 1 |-> s[i]]
             T == NewerThan(s[k])
  <1>0. Len(s) \in Nat /\ k \in Nat /\ k >= 1 /\ k <= Len(s) /\ s[k] \in R  BY DEF IsOrder
  <1>1. \A i \in 1 .. k - 1 : i \in 1 .. Len(s) /\ i < k  BY <1>0
  <1>2. \A i \in 1 .. k - 1 : s[i] \in T
    BY <1>0, <1>1 DEF IsOrder, NewerThan, AreWritten
  <1>3. \A q \in T : \E i \in 1 .. k - 1 : s[i] = q
    <2> SUFFICES ASSUME NEW q \in T PROVE \E i \in 1 .. k - 1 : s[i] = q  OBVIOUS
    <2>1. q \in R /\ Newer(q, s[k])  BY DEF NewerThan
    <2>2. PICK i \in 1 .. Len(s) : s[i] = q  BY <2>1 DEF IsOrder
    <2>3. i # k  BY <1>0, <2>1, <2>2, NewerIsAnOrder
    <2>4. ~(k < i)
      <3>1. k < i => Newer(s[k], s[i])  BY DEF IsOrder
      <3> QED  BY <1>0, <2>1, <2>2, <3>1, NewerIsAnOrder
    <2>5. i \in 1 .. k - 1  BY <1>0, <2>3, <2>4
    <2> QED  BY <2>2, <2>5
  <1>4. \A i, j \in 1 .. k - 1 : s[i] = s[j] => i = j  BY <1>1 DEF IsOrder
  <1> HIDE DEF T
  <1>5. f \in Bijection(1 .. k - 1, T)
    <2>1. f \in [1 .. k - 1 -> T]  BY <1>2
    <2>2. \A i \in 1 .. k - 1 : f[i] = s[i]  OBVIOUS
    <2> HIDE DEF f
    <2>3. f \in Injection(1 .. k - 1, T)  BY <1>4, <2>1, <2>2 DEF Injection, IsInjective
    <2>4. f \in Surjection(1 .. k - 1, T)  BY <1>3, <2>1, <2>2 DEF Surjection
    <2> QED  BY <2>3, <2>4 DEF Bijection
  <1>6. ExistsBijection(1 .. k - 1, T)  BY <1>5 DEF ExistsBijection
  <1>7. IsFiniteSet(1 .. k - 1) /\ Cardinality(1 .. k - 1) = k - 1
    <2> DEFINE m == k - 1
    <2>1. m \in Nat /\ 1 \in Int  BY <1>0
    <2> HIDE DEF m
    <2>2. IsFiniteSet(1 .. m) /\ Cardinality(1 .. m) = IF 1 > m THEN 0 ELSE m - 1 + 1
      BY <2>1, FS_Interval
    <2>3. Cardinality(1 .. m) = m  BY <2>1, <2>2
    <2> QED  BY <2>2, <2>3 DEF m
  <1>8. Cardinality(T) = k - 1  BY <1>6, <1>7, FS_Bijection
  <1> QED  BY <1>8 DEF T

-----------------------------------------------------------------------------
(* The reader.                                                              *)

Walks == [list : {"none", "visits", "audit"}, step : {"idle", "count", "read", "audit", "instant", "done", "failed"},
          page : Nat \ {0}, before : Clock \cup {Never}, from : Clock, total : Nat,
          seen : Seq(ListRows), owed : SUBSET ListRows, crossed : BOOLEAN]

PagesTyped ==
    /\ clock \in Clock /\ purged \in Clock
    /\ written \in [ListRows -> Clock \cup {Never}]
    /\ walk \in Walks
    /\ \A r \in walk.owed : written[r] # Never

\* A visit that is owed was seen, or as many as all pages yet are newer than it.
VisitsSound ==
    /\ walk.from <= Back(Span)
    /\ walk.step \in {"count", "read", "done"}
    /\ walk.step # "done" => \A r \in walk.owed \cap Since(walk.from) :
           r \in ToSet(walk.seen) \/ (walk.page - 1) * PageSize <= Cardinality(NewerThan(r))
    /\ (walk.step = "read" /\ ~walk.crossed) => walk.total = Cardinality(Since(walk.from))
    /\ (walk.step = "done" /\ ~walk.crossed) => walk.owed \cap Since(walk.from) \subseteq ToSet(walk.seen)

\* The rows of the audit up to where the next page begins were seen, once each, and none past it.
Reached(r) ==
    CASE walk.step = "audit"   -> walk.before # Never /\ written[r] >= walk.before
      [] walk.step = "instant" -> written[r] > walk.before
      [] OTHER                 -> TRUE
AuditSound ==
    /\ walk.step \in {"audit", "instant", "done", "failed"}
    /\ walk.step = "instant" => walk.before # Never
    /\ \A i, j \in DOMAIN walk.seen : walk.seen[i] = walk.seen[j] => i = j
    /\ \A i \in DOMAIN walk.seen : written[walk.seen[i]] # Never /\ Reached(walk.seen[i])
    /\ walk.step # "failed" => \A r \in walk.owed \cap Since(purged) : Reached(r) => r \in ToSet(walk.seen)

PagesInv ==
    /\ PagesTyped
    /\ walk.list = "none" => walk.step = "idle"
    /\ walk.list = "visits" => VisitsSound
    /\ walk.list = "audit" => AuditSound

LEMMA SinceIsWritten ==
    ASSUME PagesAssumption, PagesTyped, NEW from
    PROVE  AreWritten(Since(from)) /\ (\A r \in Since(from) : written[r] # Never /\ written[r] \in Clock)
  BY SpansAreNumbers DEF AreWritten, Since, PagesTyped

LEMMA BackGoesOn ==
    ASSUME PagesAssumption, PagesTyped, NEW ticks \in Nat
    PROVE  Back(ticks) \in Clock /\ Back(ticks) \in Nat
  <1>1. clock \in Nat /\ clock <= LastClock  BY SpansAreNumbers DEF PagesTyped, Clock
  <1> QED  BY <1>1, SpansAreNumbers DEF Back, Clock

\* The rows an order's page has are those of its places.
LEMMA OfAPage ==
    ASSUME NEW S, NEW s \in Seq(S), NEW a \in Nat, NEW b \in Nat, b <= Len(s), a >= 1,
           NEW k \in a .. b
    PROVE  s[k] \in ToSet(SubSeq(s, a, b))
  <1>1. Len(s) \in Nat /\ k \in Nat /\ k >= a /\ k <= b  OBVIOUS
  <1>2. SubSeq(s, a, b) \in Seq(S) /\ Len(SubSeq(s, a, b)) = b - a + 1
        /\ \A i \in 1 .. b - a + 1 : SubSeq(s, a, b)[i] = s[a + i - 1]
    BY <1>1
  <1>3. k - a + 1 \in 1 .. b - a + 1 /\ a + (k - a + 1) - 1 = k  BY <1>1
  <1>4. SubSeq(s, a, b)[k - a + 1] = s[k]  BY <1>2, <1>3
  <1>5. DOMAIN SubSeq(s, a, b) = 1 .. b - a + 1  BY <1>2
  <1> QED  BY <1>3, <1>4, <1>5 DEF ToSet

LEMMA JoinedHas ==
    ASSUME NEW S, NEW s \in Seq(S), NEW t \in Seq(S)
    PROVE  s \o t \in Seq(S) /\ ToSet(s \o t) = ToSet(s) \cup ToSet(t)
  <1>1. /\ s \o t \in Seq(S) /\ Len(s \o t) = Len(s) + Len(t) /\ Len(s) \in Nat /\ Len(t) \in Nat
        /\ \A i \in 1 .. Len(s) + Len(t) : (s \o t)[i] = IF i <= Len(s) THEN s[i] ELSE t[i - Len(s)]
    BY ConcatProperties
  <1>2. DOMAIN (s \o t) = 1 .. Len(s) + Len(t) /\ DOMAIN s = 1 .. Len(s) /\ DOMAIN t = 1 .. Len(t)
    BY <1>1
  <1>3. ASSUME NEW i \in 1 .. Len(s) + Len(t) PROVE (s \o t)[i] \in ToSet(s) \cup ToSet(t)
    <2>1. CASE i <= Len(s)
      <3>1. i \in DOMAIN s /\ (s \o t)[i] = s[i]  BY <1>1, <1>2, <2>1
      <3> QED  BY <3>1 DEF ToSet
    <2>2. CASE ~(i <= Len(s))
      <3>1. i - Len(s) \in DOMAIN t /\ (s \o t)[i] = t[i - Len(s)]  BY <1>1, <1>2, <2>2
      <3> QED  BY <3>1 DEF ToSet
    <2> QED  BY <2>1, <2>2
  <1>4. ASSUME NEW i \in DOMAIN s PROVE s[i] \in ToSet(s \o t)
    <2>1. i \in DOMAIN (s \o t) /\ (s \o t)[i] = s[i]  BY <1>1, <1>2
    <2> QED  BY <2>1 DEF ToSet
  <1>5. ASSUME NEW i \in DOMAIN t PROVE t[i] \in ToSet(s \o t)
    <2>1. i + Len(s) \in 1 .. Len(s) + Len(t) /\ ~(i + Len(s) <= Len(s)) /\ i + Len(s) - Len(s) = i
      BY <1>1, <1>2
    <2>2. i + Len(s) \in DOMAIN (s \o t) /\ (s \o t)[i + Len(s)] = t[i]  BY <1>1, <1>2, <2>1
    <2> QED  BY <2>2 DEF ToSet
  <1>6. \A x \in ToSet(s \o t) : x \in ToSet(s) \cup ToSet(t)  BY <1>2, <1>3 DEF ToSet
  <1>7. \A x \in ToSet(s) \cup ToSet(t) : x \in ToSet(s \o t)  BY <1>4, <1>5 DEF ToSet
  <1> QED  BY <1>1, <1>6, <1>7

\* Two lists of nothing twice, and of nothing in both, make one of nothing twice.
LEMMA JoinedOnce ==
    ASSUME NEW S, NEW s \in Seq(S), NEW t \in Seq(S), ToSet(s) \cap ToSet(t) = {},
           \A i, j \in DOMAIN s : s[i] = s[j] => i = j, \A i, j \in DOMAIN t : t[i] = t[j] => i = j
    PROVE  \A i, j \in DOMAIN (s \o t) : (s \o t)[i] = (s \o t)[j] => i = j
  <1>1. /\ s \o t \in Seq(S) /\ Len(s \o t) = Len(s) + Len(t) /\ Len(s) \in Nat /\ Len(t) \in Nat
        /\ \A i \in 1 .. Len(s) + Len(t) : (s \o t)[i] = IF i <= Len(s) THEN s[i] ELSE t[i - Len(s)]
    BY ConcatProperties
  <1>2. DOMAIN (s \o t) = 1 .. Len(s) + Len(t) /\ DOMAIN s = 1 .. Len(s) /\ DOMAIN t = 1 .. Len(t)
    BY <1>1
  <1> SUFFICES ASSUME NEW i \in DOMAIN (s \o t), NEW j \in DOMAIN (s \o t), (s \o t)[i] = (s \o t)[j]
               PROVE  i = j
    OBVIOUS
  <1>3. i \in Nat /\ j \in Nat  BY <1>2
  <1>4. \A n \in DOMAIN (s \o t) : n <= Len(s) => n \in DOMAIN s /\ (s \o t)[n] = s[n] /\ s[n] \in ToSet(s)
    <2> TAKE n \in DOMAIN (s \o t)
    <2> HAVE n <= Len(s)
    <2>1. n \in DOMAIN s /\ (s \o t)[n] = s[n]  BY <1>1, <1>2
    <2> QED  BY <2>1 DEF ToSet
  <1>5. \A n \in DOMAIN (s \o t) : ~(n <= Len(s)) =>
           n - Len(s) \in DOMAIN t /\ (s \o t)[n] = t[n - Len(s)] /\ t[n - Len(s)] \in ToSet(t)
    <2> TAKE n \in DOMAIN (s \o t)
    <2> HAVE ~(n <= Len(s))
    <2>1. n - Len(s) \in DOMAIN t /\ (s \o t)[n] = t[n - Len(s)]  BY <1>1, <1>2
    <2> QED  BY <2>1 DEF ToSet
  <1>6. CASE i <= Len(s) /\ j <= Len(s)
    BY <1>4, <1>6
  <1>7. CASE ~(i <= Len(s)) /\ ~(j <= Len(s))
    <2>1. i - Len(s) = j - Len(s)  BY <1>5, <1>7
    <2> QED  BY <1>1, <1>3, <2>1
  <1>8. ~(i <= Len(s) /\ ~(j <= Len(s))) /\ ~(~(i <= Len(s)) /\ j <= Len(s))
    BY <1>4, <1>5
  <1> QED  BY <1>6, <1>7, <1>8

LEMMA PagesOfRows ==
    ASSUME NEW p \in Nat \ {0}, NEW n \in Nat \ {0}
    PROVE  (p - 1) * n \in Nat /\ p * n \in Nat /\ p * n = (p - 1) * n + n /\ p + 1 \in Nat \ {0} /\ p + 1 - 1 = p
  <1>1. p - 1 \in Nat  OBVIOUS
  <1>2. (p - 1) * n \in Nat  BY <1>1
  <1> QED  BY <1>2

LEMMA WalkIs ==
    ASSUME PagesTyped
    PROVE  /\ walk.page \in Nat \ {0} /\ walk.before \in Clock \cup {Never} /\ walk.from \in Clock
           /\ walk.total \in Nat /\ walk.seen \in Seq(ListRows) /\ walk.owed \in SUBSET ListRows
  BY DEF PagesTyped, Walks

LEMMA NotReadingIs ==
    ASSUME PagesAssumption, NEW w, w \in Walks, NEW R, R \in SUBSET ListRows
    PROVE  /\ NotReading \in Walks
           /\ [NotReading EXCEPT !.list = "visits", !.step = "count", !.owed = R] \in Walks
           /\ [NotReading EXCEPT !.list = "audit", !.step = "audit", !.owed = R] \in Walks
  <1>1. <<>> \in Seq(ListRows) /\ {} \in SUBSET ListRows /\ 0 \in Clock /\ 0 \in Nat /\ 1 \in Nat \ {0}
    BY SpansAreNumbers
  <1> QED  BY <1>1 DEF NotReading, Walks

-----------------------------------------------------------------------------
(* Each step.                                                               *)

\* What only the reader changes.
LEMMA RowsAreTheSame ==
    ASSUME UNCHANGED <<clock, written>>, NEW w, w = walk'
    PROVE  /\ Back(Span)' = Back(Span) /\ Since(walk.from)' = Since(w.from)
           /\ \A r : Cardinality(NewerThan(r))' = Cardinality(NewerThan(r))
  BY DEF Back, Since, NewerThan, Newer

\* The visits' part of the invariant, of the reader w.
LEMMA VisitsAreSound ==
    ASSUME UNCHANGED <<clock, written>>, NEW w, w = walk',
           w.from <= Back(Span), w.step \in {"count", "read", "done"},
           w.step # "done" => \A r \in w.owed \cap Since(w.from) :
               r \in ToSet(w.seen) \/ (w.page - 1) * PageSize <= Cardinality(NewerThan(r)),
           (w.step = "read" /\ ~w.crossed) => w.total = Cardinality(Since(w.from)),
           (w.step = "done" /\ ~w.crossed) => w.owed \cap Since(w.from) \subseteq ToSet(w.seen)
    PROVE  VisitsSound'
  <1>1. /\ Back(Span)' = Back(Span) /\ Since(walk.from)' = Since(w.from)
        /\ \A r : Cardinality(NewerThan(r))' = Cardinality(NewerThan(r))
    BY RowsAreTheSame
  <1> QED  BY <1>1 DEF VisitsSound

LEMMA StartVisitsKeeps ==
    ASSUME PagesAssumption, PagesInv, StartVisits
    PROVE  PagesInv'
  <1> PICK w : w = walk'  OBVIOUS
  <1>1. w = [NotReading EXCEPT !.list = "visits", !.step = "count", !.owed = Since(Back(Span))]
        /\ UNCHANGED <<clock, written, purged>>
    BY DEF StartVisits
  <1>2. PagesTyped /\ AreWritten(Since(Back(Span))) /\ walk \in Walks
        /\ \A r \in Since(Back(Span)) : written[r] # Never
    BY SinceIsWritten DEF PagesInv, PagesTyped
  <1>3. w \in Walks  BY <1>1, <1>2, NotReadingIs DEF AreWritten
  <1>4. /\ w.list = "visits" /\ w.step = "count" /\ w.owed = Since(Back(Span)) /\ w.page = 1 /\ w.from = 0
    BY <1>1 DEF NotReading
  <1>5. PagesTyped'  BY <1>1, <1>2, <1>3, <1>4 DEF PagesTyped
  <1>6. 0 <= Back(Span)  BY <1>2, BackGoesOn, SpansAreNumbers
  <1>7. (1 - 1) * PageSize = 0  BY SpansAreNumbers
  <1>8. \A r : 0 <= Cardinality(NewerThan(r))
    <2> TAKE r
    <2>1. NewerThan(r) \in SUBSET ListRows  BY DEF NewerThan
    <2>2. Cardinality(NewerThan(r)) \in Nat  BY <2>1, SpansAreNumbers, FS_Subset, FS_CardinalityType
    <2> QED  BY <2>2
  <1>9. (w.page - 1) * PageSize = 0  BY <1>4, <1>7
  <1>10. w.step # "done" => \A r \in w.owed \cap Since(w.from) :
            r \in ToSet(w.seen) \/ (w.page - 1) * PageSize <= Cardinality(NewerThan(r))
    BY <1>8, <1>9
  <1>11. w.from <= Back(Span) /\ w.step \in {"count", "read", "done"} /\ w.step # "read" /\ w.step # "done"
    BY <1>4, <1>6
  <1>12. VisitsSound'
    BY <1>1, <1>10, <1>11, VisitsAreSound
  <1> QED  BY <1>4, <1>5, <1>12 DEF PagesInv

LEMMA CountVisitsKeeps ==
    ASSUME PagesAssumption, PagesInv, CountVisits
    PROVE  PagesInv'
  <1> DEFINE b == Back(Span)
  <1> PICK w : w = walk'  OBVIOUS
  <1>1. /\ walk.step = "count" /\ UNCHANGED <<clock, written, purged>>
        /\ w = [walk EXCEPT !.step = "read", !.from = b, !.crossed = FALSE, !.total = Cardinality(Since(b))]
    BY DEF CountVisits
  <1>2. PagesTyped /\ walk \in Walks  BY DEF PagesInv, PagesTyped
  <1>3. b \in Clock /\ b \in Nat  BY <1>2, BackGoesOn, SpansAreNumbers
  <1>4. Cardinality(Since(b)) \in Nat  BY <1>2, SinceIsWritten, AnOrder
  <1>5. walk.list = "visits" /\ VisitsSound
    BY <1>1, <1>2 DEF PagesInv, AuditSound, Walks
  <1> HIDE DEF b
  <1>6. /\ w \in Walks /\ w.list = walk.list /\ w.step = "read" /\ w.from = b /\ w.crossed = FALSE
        /\ w.total = Cardinality(Since(b)) /\ w.seen = walk.seen /\ w.owed = walk.owed /\ w.page = walk.page
    BY <1>1, <1>2, <1>3, <1>4 DEF Walks
  <1>7. PagesTyped'  BY <1>1, <1>2, <1>6 DEF PagesTyped
  <1>8. \A r \in Since(b) : r \in Since(walk.from)
    <2> TAKE r \in Since(b)
    <2>1. written[r] \in Nat /\ walk.from \in Nat /\ walk.from <= b /\ written[r] >= b /\ written[r] # Never /\ r \in ListRows
      BY <1>2, <1>5, WalkIs, SinceIsWritten, SpansAreNumbers DEF VisitsSound, Since, b
    <2> QED  BY <1>3, <2>1 DEF Since
  <1>9. \A r \in w.owed \cap Since(w.from) :
           r \in ToSet(w.seen) \/ (w.page - 1) * PageSize <= Cardinality(NewerThan(r))
    BY <1>1, <1>5, <1>6, <1>8 DEF VisitsSound
  <1>10. w.from <= Back(Span)  BY <1>3, <1>6 DEF b
  <1>11. VisitsSound'
    BY <1>1, <1>6, <1>9, <1>10, VisitsAreSound
  <1> QED  BY <1>5, <1>6, <1>7, <1>11 DEF PagesInv

\* Who is newer than a row of the period is of the period.
LEMMA NewerAreSince ==
    ASSUME PagesAssumption, PagesTyped, NEW from \in Clock, NEW r \in Since(from)
    PROVE  NewerThan(r) \subseteq Since(from)
  <1> SUFFICES ASSUME NEW q \in NewerThan(r) PROVE q \in Since(from)  OBVIOUS
  <1>1. q \in ListRows /\ written[q] # Never /\ Newer(q, r)  BY DEF NewerThan
  <1>2. written[q] \in Nat /\ written[r] \in Nat /\ written[r] >= from /\ from \in Nat
    BY <1>1, SpansAreNumbers, SinceIsWritten DEF PagesTyped, Since
  <1>3. written[q] >= written[r]  BY <1>1, <1>2 DEF Newer
  <1> QED  BY <1>1, <1>2, <1>3 DEF Since

LEMMA ReadVisitsKeeps ==
    ASSUME PagesAssumption, PagesInv, ReadVisits
    PROVE  PagesInv'
  <1> DEFINE rows == Since(walk.from)
             s    == NewestFirst(rows)
             a    == (walk.page - 1) * PageSize
             b    == walk.page * PageSize
             end  == IF b < Len(s) THEN b ELSE Len(s)
             pg   == SubSeq(s, a + 1, end)
  <1> PICK w : w = walk'  OBVIOUS
  <1>1. /\ walk.step = "read" /\ UNCHANGED <<clock, written, purged>>
        /\ w = [walk EXCEPT !.seen = @ \o pg,
                            !.step = IF b < walk.total THEN "count" ELSE "done",
                            !.page = IF b < walk.total THEN @ + 1 ELSE @]
    BY DEF ReadVisits, PageOf
  <1>2. PagesTyped /\ walk \in Walks  BY DEF PagesInv, PagesTyped
  <1>3. walk.list = "visits" /\ VisitsSound
    BY <1>1, <1>2 DEF PagesInv, AuditSound, Walks
  <1>4. /\ walk.page \in Nat \ {0} /\ walk.from \in Clock /\ walk.total \in Nat
        /\ walk.seen \in Seq(ListRows) /\ walk.owed \in SUBSET ListRows
    BY <1>2, WalkIs
  <1>5. a \in Nat /\ b \in Nat /\ b = a + PageSize /\ walk.page + 1 \in Nat \ {0} /\ walk.page + 1 - 1 = walk.page
    <2>1. PageSize \in Nat \ {0}  BY SpansAreNumbers
    <2> QED  BY <1>4, <2>1, PagesOfRows
  <1>6. AreWritten(rows) /\ (\A r \in rows : written[r] # Never) /\ IsOrder(s, rows)
    BY <1>2, SinceIsWritten, NewestFirstIs
  <1>7. s \in Seq(ListRows) /\ Len(s) = Cardinality(rows) /\ Len(s) \in Nat
        /\ \A r \in rows : \E i \in 1 .. Len(s) : s[i] = r
    BY <1>6 DEF IsOrder
  <1> HIDE DEF s, rows
  <1>8. \A k \in 1 .. Len(s) : Cardinality(NewerThan(s[k])) = k - 1
    <2> TAKE k \in 1 .. Len(s)
    <2>1. s[k] \in rows  BY <1>6 DEF IsOrder
    <2>2. NewerThan(s[k]) \subseteq rows  BY <1>2, <1>4, <2>1, NewerAreSince DEF rows
    <2> QED  BY <1>6, <2>2, PlaceIs
  <1> HIDE DEF a, b
  <1>9. end \in Nat /\ end <= Len(s)  BY <1>5, <1>7
  <1>10. pg \in Seq(ListRows)
    <2>1. \A i \in a + 1 .. end : s[i] \in ListRows  BY <1>5, <1>7, <1>9
    <2>2. a + 1 \in Int /\ end \in Int  BY <1>5, <1>9
    <2> HIDE DEF end
    <2> QED  BY <2>1, <2>2, <1>7, SubSeqProperties
  <1>11. \A k \in 1 .. Len(s) : a < k /\ k <= b => s[k] \in ToSet(pg)
    <2> SUFFICES ASSUME NEW k \in 1 .. Len(s), a < k, k <= b PROVE s[k] \in ToSet(pg)  OBVIOUS
    <2>1. k \in a + 1 .. end /\ a + 1 \in Nat /\ a + 1 >= 1  BY <1>5, <1>7
    <2> HIDE DEF end
    <2> QED  BY <1>7, <1>9, <2>1, OfAPage
  <1> HIDE DEF pg, end
  <1>12. walk.seen \o pg \in Seq(ListRows) /\ ToSet(walk.seen \o pg) = ToSet(walk.seen) \cup ToSet(pg)
    BY <1>4, <1>10, JoinedHas
  <1>13. /\ w \in Walks /\ w.list = walk.list /\ w.from = walk.from /\ w.crossed = walk.crossed
         /\ w.seen = walk.seen \o pg /\ w.owed = walk.owed /\ w.step \in {"count", "done"}
         /\ w.step = "count" => w.page = walk.page + 1
         /\ w.step = "done" <=> ~(b < walk.total)
    BY <1>1, <1>2, <1>5, <1>12 DEF Walks
  <1>14. PagesTyped'  BY <1>1, <1>2, <1>13 DEF PagesTyped
  <1>15. \A r \in walk.owed \cap rows :
            r \in ToSet(walk.seen \o pg) \/ (b <= Cardinality(NewerThan(r)) /\ b < Len(s))
    <2> SUFFICES ASSUME NEW r \in walk.owed \cap rows, r \notin ToSet(walk.seen), r \notin ToSet(pg)
                 PROVE  b <= Cardinality(NewerThan(r)) /\ b < Len(s)
      BY <1>12
    <2>1. PICK k \in 1 .. Len(s) : s[k] = r  BY <1>7
    <2>2. Cardinality(NewerThan(r)) = k - 1 /\ k \in Nat /\ k <= Len(s)  BY <1>7, <1>8, <2>1
    <2>3. a <= k - 1
      <3>1. r \in walk.owed \cap Since(walk.from)  BY DEF rows
      <3>2. a <= Cardinality(NewerThan(r))  BY <1>1, <1>3, <3>1 DEF VisitsSound, a
      <3> QED  BY <2>2, <3>2
    <2>4. ~(k <= b)
      <3>1. a < k  BY <1>5, <2>2, <2>3
      <3> QED  BY <1>11, <2>1, <3>1
    <2> QED  BY <1>5, <1>7, <2>2, <2>4
  <1>16. w.step # "done" => \A r \in w.owed \cap Since(w.from) :
            r \in ToSet(w.seen) \/ (w.page - 1) * PageSize <= Cardinality(NewerThan(r))
    <2>0. w.step # "done" => w.page = walk.page + 1  BY <1>13
    <2>1. w.page \in Nat /\ walk.page \in Nat  BY <1>4, <1>13 DEF Walks
    <2>2. ASSUME w.step # "done" PROVE (w.page - 1) * PageSize = b
      <3>1. w.page = walk.page + 1  BY <2>0, <2>2
      <3>2. w.page - 1 = walk.page  BY <2>1, <3>1
      <3> QED  BY <3>2 DEF b
    <2> QED  BY <1>13, <1>15, <2>2 DEF rows
  <1>17. (w.step = "done" /\ ~w.crossed) => w.owed \cap Since(w.from) \subseteq ToSet(w.seen)
    <2> SUFFICES ASSUME w.step = "done", ~w.crossed PROVE w.owed \cap Since(w.from) \subseteq ToSet(w.seen)
      OBVIOUS
    <2>1. walk.total = Len(s)  BY <1>1, <1>3, <1>7, <1>13 DEF VisitsSound, rows
    <2>2. ~(b < Len(s))  BY <1>13, <2>1
    <2>3. \A r \in walk.owed \cap rows : r \in ToSet(walk.seen \o pg)  BY <1>15, <2>2
    <2> QED  BY <1>13, <2>3 DEF rows
  <1>18. w.from <= Back(Span)  BY <1>3, <1>13 DEF VisitsSound
  <1>19. w.step \in {"count", "read", "done"} /\ w.step # "read"  BY <1>13
  <1>20. VisitsSound'
    BY <1>1, <1>16, <1>17, <1>18, <1>19, VisitsAreSound
  <1> QED  BY <1>3, <1>13, <1>14, <1>20 DEF PagesInv

\* The audit's part of the invariant, of the reader w.
PastIs(w, r) ==
    CASE w.step = "audit"   -> w.before # Never /\ written[r] >= w.before
      [] w.step = "instant" -> written[r] > w.before
      [] OTHER              -> TRUE

LEMMA AuditsAreSound ==
    ASSUME UNCHANGED <<written, purged>>, NEW w, w = walk',
           w.step \in {"audit", "instant", "done", "failed"}, w.step = "instant" => w.before # Never,
           \A i, j \in DOMAIN w.seen : w.seen[i] = w.seen[j] => i = j,
           \A r \in ToSet(w.seen) : written[r] # Never /\ PastIs(w, r),
           w.step # "failed" => \A r \in w.owed \cap Since(purged) : PastIs(w, r) => r \in ToSet(w.seen)
    PROVE  AuditSound'
  <1>1. \A r : Reached(r)' = PastIs(w, r)  BY DEF Reached, PastIs
  <1>2. Since(purged)' = Since(purged)  BY DEF Since
  <1>3. \A i \in DOMAIN w.seen : w.seen[i] \in ToSet(w.seen)  BY DEF ToSet
  <1> QED  BY <1>1, <1>2, <1>3 DEF AuditSound

LEMMA StartAuditKeeps ==
    ASSUME PagesAssumption, PagesInv, StartAudit
    PROVE  PagesInv'
  <1> PICK w : w = walk'  OBVIOUS
  <1>1. w = [NotReading EXCEPT !.list = "audit", !.step = "audit", !.owed = Since(purged)]
        /\ UNCHANGED <<clock, written, purged>>
    BY DEF StartAudit
  <1>2. PagesTyped /\ AreWritten(Since(purged)) /\ walk \in Walks /\ \A r \in Since(purged) : written[r] # Never
    BY SinceIsWritten DEF PagesInv, PagesTyped
  <1>3. w \in Walks  BY <1>1, <1>2, NotReadingIs DEF AreWritten
  <1>4. w.list = "audit" /\ w.step = "audit" /\ w.owed = Since(purged) /\ w.before = Never /\ w.seen = <<>>
    BY <1>1 DEF NotReading
  <1>5. PagesTyped'  BY <1>1, <1>2, <1>3, <1>4 DEF PagesTyped
  <1>6. DOMAIN w.seen = {} /\ ToSet(w.seen) = {}
    <2>1. DOMAIN <<>> = {}  OBVIOUS
    <2> QED  BY <1>4, <2>1 DEF ToSet
  <1>7. \A r : ~PastIs(w, r)  BY <1>4 DEF PastIs
  <1>8. AuditSound'
    BY <1>1, <1>4, <1>6, <1>7, AuditsAreSound
  <1> QED  BY <1>4, <1>5, <1>8 DEF PagesInv

\* What a reader of the audit that was at w had seen and was owed.
LEMMA AuditWas ==
    ASSUME PagesAssumption, PagesInv, walk.step \in {"audit", "instant"}
    PROVE  /\ PagesTyped /\ walk \in Walks /\ walk.list = "audit" /\ AuditSound
           /\ walk.seen \in Seq(ListRows) /\ walk.owed \in SUBSET ListRows /\ purged \in Clock
           /\ \A r \in ToSet(walk.seen) : r \in ListRows /\ written[r] \in Nat /\ Reached(r)
           /\ \A r \in walk.owed \cap Since(purged) : Reached(r) => r \in ToSet(walk.seen)
           /\ walk.before # Never => walk.before \in Nat
           /\ walk.step = "instant" => walk.before # Never
  <1>1. PagesTyped /\ walk \in Walks  BY DEF PagesInv, PagesTyped
  <1>2. walk.list = "audit" /\ AuditSound
    BY <1>1 DEF PagesInv, VisitsSound, Walks
  <1>3. walk.seen \in Seq(ListRows) /\ walk.before \in Clock \cup {Never} /\ walk.owed \in SUBSET ListRows
    BY <1>1, WalkIs
  <1>4. ASSUME NEW r \in ToSet(walk.seen) PROVE r \in ListRows /\ written[r] \in Nat /\ Reached(r)
    <2>1. PICK i \in DOMAIN walk.seen : r = walk.seen[i]  BY DEF ToSet
    <2>2. r \in ListRows  BY <1>3, <2>1
    <2>3. written[r] # Never /\ Reached(r)  BY <1>2, <2>1 DEF AuditSound
    <2> QED  BY <1>1, <2>2, <2>3, SpansAreNumbers DEF PagesTyped
  <1>5. walk.before # Never => walk.before \in Nat  BY <1>3, SpansAreNumbers
  <1>6. \A r \in walk.owed \cap Since(purged) : Reached(r) => r \in ToSet(walk.seen)
    BY <1>2 DEF AuditSound
  <1>7. walk.step = "instant" => walk.before # Never  BY <1>2 DEF AuditSound
  <1>8. purged \in Clock  BY <1>1 DEF PagesTyped
  <1> QED  BY <1>1, <1>2, <1>3, <1>4, <1>5, <1>6, <1>7, <1>8

\* The first page of an order, and the instant of the row after it.
LEMMA BoundaryIs ==
    ASSUME PagesAssumption, NEW R, AreWritten(R), NEW s, IsOrder(s, R), PageSize < Len(s)
    PROVE  /\ s[PageSize + 1] \in R
           /\ \A r \in ToSet(SubSeq(s, 1, PageSize)) : r \in R /\ written[r] >= written[s[PageSize + 1]]
           /\ \A r \in R : written[r] > written[s[PageSize + 1]] => r \in ToSet(SubSeq(s, 1, PageSize))
  <1>1. /\ PageSize \in Nat /\ PageSize > 0 /\ Len(s) \in Nat /\ s \in Seq(ListRows)
        /\ \A i \in 1 .. Len(s) : s[i] \in R
        /\ \A i, j \in 1 .. Len(s) : i < j => Newer(s[i], s[j])
        /\ \A r \in R : \E i \in 1 .. Len(s) : s[i] = r
    BY SpansAreNumbers DEF IsOrder
  <1>2. PageSize + 1 \in 1 .. Len(s)  BY <1>1
  <1>3. \A r \in R : written[r] \in Nat  BY DEF AreWritten
  <1>4. s[PageSize + 1] \in R /\ written[s[PageSize + 1]] \in Nat  BY <1>1, <1>2, <1>3
  <1>5. ASSUME NEW r \in ToSet(SubSeq(s, 1, PageSize))
        PROVE  r \in R /\ written[r] >= written[s[PageSize + 1]]
    <2>1. Len(SubSeq(s, 1, PageSize)) = PageSize /\ DOMAIN SubSeq(s, 1, PageSize) = 1 .. PageSize
          /\ \A i \in 1 .. PageSize : SubSeq(s, 1, PageSize)[i] = s[i]
      BY <1>1
    <2>2. PICK i \in 1 .. PageSize : r = s[i]
      <3>1. PICK i \in DOMAIN SubSeq(s, 1, PageSize) : r = SubSeq(s, 1, PageSize)[i]  BY DEF ToSet
      <3> QED  BY <2>1, <3>1
    <2>3. i \in 1 .. Len(s) /\ i < PageSize + 1  BY <1>1, <1>2
    <2>4. r \in R /\ Newer(r, s[PageSize + 1])  BY <1>1, <1>2, <2>2, <2>3
    <2> QED  BY <1>3, <1>4, <2>4 DEF Newer
  <1>6. ASSUME NEW r \in R, written[r] > written[s[PageSize + 1]]
        PROVE  r \in ToSet(SubSeq(s, 1, PageSize))
    <2>1. PICK i \in 1 .. Len(s) : s[i] = r  BY <1>1
    <2>2. ~(PageSize + 1 < i)
      <3>1. PageSize + 1 < i => Newer(s[PageSize + 1], r)  BY <1>1, <1>2, <2>1
      <3> QED  BY <1>3, <1>4, <1>6, <3>1 DEF Newer
    <2>3. i # PageSize + 1  BY <1>4, <1>6, <2>1
    <2>4. i \in 1 .. PageSize  BY <1>1, <2>2, <2>3
    <2> QED  BY <1>1, <2>1, <2>4, OfAPage
  <1> QED  BY <1>4, <1>5, <1>6

\* Rows are added to the seen ones in their order, none of them seen before.
LEMMA SeenOnce ==
    ASSUME PagesAssumption, PagesInv, walk.step \in {"audit", "instant"},
           NEW R, AreWritten(R), \A r \in R : r \notin ToSet(walk.seen), NEW s, IsOrder(s, R)
    PROVE  /\ walk.seen \o s \in Seq(ListRows) /\ ToSet(walk.seen \o s) = ToSet(walk.seen) \cup R
           /\ \A i, j \in DOMAIN (walk.seen \o s) : (walk.seen \o s)[i] = (walk.seen \o s)[j] => i = j
  <1>1. /\ s \in Seq(ListRows) /\ DOMAIN s = 1 .. Len(s) /\ (\A i \in 1 .. Len(s) : s[i] \in R)
        /\ (\A r \in R : \E i \in 1 .. Len(s) : s[i] = r)
        /\ \A i, j \in 1 .. Len(s) : s[i] = s[j] => i = j
    BY DEF IsOrder
  <1>2. walk.seen \in Seq(ListRows) /\ AuditSound  BY AuditWas
  <1>3. ToSet(s) = R  BY <1>1 DEF ToSet
  <1>4. ToSet(walk.seen) \cap ToSet(s) = {}  BY <1>3
  <1>5. \A i, j \in DOMAIN walk.seen : walk.seen[i] = walk.seen[j] => i = j  BY <1>2 DEF AuditSound
  <1>6. \A i, j \in DOMAIN s : s[i] = s[j] => i = j  BY <1>1
  <1>7. \A i, j \in DOMAIN (walk.seen \o s) : (walk.seen \o s)[i] = (walk.seen \o s)[j] => i = j
    BY <1>1, <1>2, <1>4, <1>5, <1>6, JoinedOnce
  <1>8. walk.seen \o s \in Seq(ListRows) /\ ToSet(walk.seen \o s) = ToSet(walk.seen) \cup ToSet(s)
    BY <1>1, <1>2, JoinedHas
  <1> QED  BY <1>3, <1>7, <1>8

\* A reader of the audit whose step has these fields keeps the invariant.
LEMMA AuditGoesOn ==
    ASSUME PagesAssumption, PagesInv, walk.step \in {"audit", "instant"}, UNCHANGED <<clock, written, purged>>,
           NEW R, AreWritten(R), \A r \in R : r \notin ToSet(walk.seen), NEW s, IsOrder(s, R),
           NEW w, w = walk', w \in Walks, w.list = "audit", w.owed = walk.owed, w.seen = walk.seen \o s,
           w.step \in {"audit", "instant", "done", "failed"}, w.step = "instant" => w.before # Never,
           \A r \in ListRows : r \in ToSet(walk.seen) \/ r \in R => PastIs(w, r),
           w.step # "failed" => \A r \in Since(purged) : PastIs(w, r) => Reached(r) \/ r \in R
    PROVE  PagesInv'
  <1>1. /\ walk.seen \o s \in Seq(ListRows) /\ ToSet(walk.seen \o s) = ToSet(walk.seen) \cup R
        /\ \A i, j \in DOMAIN (walk.seen \o s) : (walk.seen \o s)[i] = (walk.seen \o s)[j] => i = j
    BY SeenOnce
  <1>2. /\ PagesTyped
        /\ \A r \in ToSet(walk.seen) : r \in ListRows /\ written[r] \in Nat
        /\ \A r \in walk.owed \cap Since(purged) : Reached(r) => r \in ToSet(walk.seen)
    BY AuditWas
  <1>3. PagesTyped'  BY <1>2 DEF PagesTyped
  <1>4. ASSUME NEW r \in ToSet(w.seen) PROVE written[r] # Never /\ PastIs(w, r)
    <2>1. r \in ToSet(walk.seen) \/ r \in R  BY <1>1, <1>4
    <2>2. r \in ListRows  BY <1>2, <2>1 DEF AreWritten
    <2>3. written[r] # Never
      <3>1. walk.seen \in Seq(ListRows) /\ AuditSound  BY AuditWas
      <3>2. ASSUME r \in ToSet(walk.seen) PROVE written[r] # Never
        BY <3>1, <3>2 DEF AuditSound, ToSet
      <3>3. ASSUME r \in R PROVE written[r] # Never
        BY <3>3 DEF AreWritten
      <3> QED  BY <2>1, <3>2, <3>3
    <2> QED  BY <2>1, <2>2, <2>3
  <1>5. w.step # "failed" => \A r \in w.owed \cap Since(purged) : PastIs(w, r) => r \in ToSet(w.seen)
    BY <1>1, <1>2
  <1>6. \A i, j \in DOMAIN w.seen : w.seen[i] = w.seen[j] => i = j  BY <1>1
  <1>7. AuditSound'
    BY <1>4, <1>5, <1>6, AuditsAreSound
  <1> QED  BY <1>3, <1>7 DEF PagesInv

LEMMA ReadAuditKeeps ==
    ASSUME PagesAssumption, PagesInv, ReadAudit
    PROVE  PagesInv'
  <1> DEFINE s        == NewestFirst(Older)
             boundary == written[s[PageSize + 1]]
             first    == SubSeq(s, 1, PageSize)
             earlier  == Earlier(first, boundary)
             page     == NewestFirst(earlier)
  <1> PICK w : w = walk'  OBVIOUS
  <1>1. walk.step = "audit" /\ UNCHANGED <<clock, written, purged>>  BY DEF ReadAudit
  <1>2. /\ PagesTyped /\ walk \in Walks /\ walk.list = "audit" /\ purged \in Clock
        /\ \A r \in ToSet(walk.seen) : r \in ListRows /\ written[r] \in Nat /\ Reached(r)
        /\ walk.before # Never => walk.before \in Nat
    BY <1>1, AuditWas
  <1>3. \A r : Reached(r) <=> walk.before # Never /\ written[r] >= walk.before
    BY <1>1 DEF Reached
  <1>4. \A r \in Since(purged) : r \in ListRows /\ written[r] \in Nat /\ written[r] # Never /\ written[r] \in Clock
    BY <1>2, SinceIsWritten, SpansAreNumbers DEF Since
  <1>5. Older \subseteq Since(purged) /\ AreWritten(Older)
    BY <1>4 DEF Older, AreWritten
  <1>6. \A r \in Older : r \notin ToSet(walk.seen)
    <2> SUFFICES ASSUME NEW r \in Older, r \in ToSet(walk.seen) PROVE FALSE  OBVIOUS
    <2>1. walk.before # Never /\ written[r] >= walk.before  BY <1>2, <1>3
    <2>2. written[r] < walk.before  BY <2>1 DEF Older
    <2> QED  BY <1>2, <2>1, <2>2
  <1>7. \A r \in Since(purged) : Reached(r) \/ r \in Older
    <2> SUFFICES ASSUME NEW r \in Since(purged), ~Reached(r) PROVE r \in Older  OBVIOUS
    <2>1. walk.before = Never \/ written[r] < walk.before
      <3>1. walk.before = Never \/ ~(written[r] >= walk.before)  BY <1>3
      <3> QED  BY <1>2, <1>4, <3>1
    <2> QED  BY <2>1 DEF Older
  <1>8. IsOrder(s, Older)  BY <1>5, NewestFirstIs
  <1>9. Len(s) \in Nat /\ s \in Seq(ListRows)  BY <1>8 DEF IsOrder
  <1> HIDE DEF s
  <1>10. CASE Len(s) <= PageSize
    <2>1. w = [walk EXCEPT !.seen = @ \o s, !.step = "done"]
      BY <1>10 DEF ReadAudit, s
    <2>2. walk.seen \o s \in Seq(ListRows)  BY <1>1, <1>5, <1>6, <1>8, SeenOnce
    <2>3. w \in Walks /\ w.list = "audit" /\ w.owed = walk.owed /\ w.seen = walk.seen \o s /\ w.step = "done"
      BY <1>2, <2>1, <2>2 DEF Walks
    <2>4. \A r : PastIs(w, r)  BY <2>3 DEF PastIs
    <2> QED  BY <1>1, <1>5, <1>6, <1>7, <1>8, <2>3, <2>4, AuditGoesOn
  <1>11. CASE ~(Len(s) <= PageSize)
    <2>1. PageSize < Len(s)  BY <1>9, <1>11, SpansAreNumbers
    <2>2. /\ s[PageSize + 1] \in Older
          /\ \A r \in ToSet(first) : r \in Older /\ written[r] >= boundary
          /\ \A r \in Older : written[r] > boundary => r \in ToSet(first)
      BY <1>5, <1>8, <2>1, BoundaryIs
    <2>3. /\ boundary \in Clock /\ boundary \in Nat /\ boundary # Never
          /\ walk.before # Never => boundary < walk.before
      BY <1>4, <1>5, <2>2 DEF Older
    <2>4. w = IF earlier = {}
              THEN [walk EXCEPT !.before = boundary, !.step = "instant"]
              ELSE [walk EXCEPT !.seen = @ \o page, !.before = written[Last(page)]]
      BY <1>11 DEF ReadAudit, s
    <2> HIDE DEF boundary, first
    <2>5. earlier \subseteq Older /\ \A r \in earlier : written[r] \in Nat /\ written[r] > boundary
      <3> SUFFICES ASSUME NEW r \in earlier PROVE r \in Older /\ written[r] \in Nat /\ written[r] > boundary
        OBVIOUS
      <3>1. r \in ToSet(first) /\ written[r] # boundary  BY DEF Earlier
      <3>2. r \in Older /\ written[r] \in Nat /\ written[r] >= boundary /\ boundary \in Nat
        BY <1>4, <1>5, <2>2, <2>3, <3>1
      <3> QED  BY <3>1, <3>2
    <2>6. \A r \in Older : written[r] > boundary => r \in earlier
      <3> SUFFICES ASSUME NEW r \in Older, written[r] > boundary PROVE r \in earlier  OBVIOUS
      <3>1. r \in ToSet(first) /\ written[r] \in Nat  BY <1>4, <1>5, <2>2
      <3>2. written[r] # boundary  BY <2>3, <3>1
      <3> QED  BY <3>1, <3>2 DEF Earlier
    <2>7. AreWritten(earlier) /\ IsOrder(page, earlier)
      <3>1. AreWritten(earlier)  BY <1>5, <2>5 DEF AreWritten
      <3> QED  BY <3>1, NewestFirstIs
    <2> HIDE DEF earlier, page
    <2>8. CASE earlier = {}
      <3>1. w = [walk EXCEPT !.before = boundary, !.step = "instant"]  BY <2>4, <2>8
      <3>2. IsOrder(<<>>, earlier)
        <4>1. <<>> \in Seq(ListRows) /\ Len(<<>>) = 0 /\ DOMAIN <<>> = 1 .. 0 /\ 1 .. 0 = {}  OBVIOUS
        <4>2. Cardinality({}) = 0  BY FS_EmptySet
        <4> QED  BY <2>8, <4>1, <4>2 DEF IsOrder
      <3>3. walk.seen \o <<>> = walk.seen
        <4>1. walk.seen \in Seq(ListRows)  BY <1>1, AuditWas
        <4> QED  BY <4>1
      <3>4. /\ w \in Walks /\ w.list = "audit" /\ w.owed = walk.owed /\ w.seen = walk.seen
            /\ w.step = "instant" /\ w.before = boundary
        <4>1. boundary \in Clock \cup {Never}  BY <2>3
        <4> QED  BY <1>2, <3>1, <4>1 DEF Walks
      <3>5. \A r : PastIs(w, r) <=> written[r] > boundary  BY <3>4 DEF PastIs
      <3>6. ASSUME NEW r \in ToSet(walk.seen) PROVE PastIs(w, r)
        <4>1. written[r] \in Nat /\ walk.before # Never /\ written[r] >= walk.before  BY <1>2, <1>3
        <4>2. boundary \in Nat /\ walk.before \in Nat /\ boundary < walk.before  BY <1>2, <2>3, <4>1
        <4>3. written[r] > boundary  BY <4>1, <4>2
        <4> QED  BY <3>5, <4>3
      <3>7. ASSUME NEW r \in Since(purged), PastIs(w, r), ~Reached(r) PROVE FALSE
        <4>1. r \in Older /\ written[r] > boundary  BY <1>7, <3>5, <3>7
        <4> QED  BY <2>6, <2>8, <4>1
      <3>8. w.seen = walk.seen \o <<>> /\ w.before # Never  BY <2>3, <3>3, <3>4
      <3>9. w.step \in {"audit", "instant", "done", "failed"} /\ \A r \in earlier : r \notin ToSet(walk.seen)  BY <2>8, <3>4
      <3>10. \A r \in ListRows : r \in ToSet(walk.seen) \/ r \in earlier => PastIs(w, r)  BY <2>8, <3>6
      <3>11. w.step # "failed" => \A r \in Since(purged) : PastIs(w, r) => Reached(r) \/ r \in earlier  BY <3>7
      <3>12. w \in Walks /\ w.list = "audit" /\ w.owed = walk.owed  BY <3>4
      <3> QED  BY <1>1, <2>7, <3>2, <3>8, <3>9, <3>10, <3>11, <3>12, AuditGoesOn
    <2>9. CASE earlier # {}
      <3> DEFINE n == Len(page)
                 last == written[Last(page)]
      <3>1. w = [walk EXCEPT !.seen = @ \o page, !.before = last]  BY <2>4, <2>9
      <3>2. n \in Nat /\ n >= 1 /\ Last(page) = page[n]
        <4>1. PICK r : r \in earlier  BY <2>9
        <4>2. PICK i \in 1 .. n : page[i] = r  BY <2>7, <4>1 DEF IsOrder
        <4>3. n \in Nat  BY <2>7 DEF IsOrder
        <4> QED  BY <4>2, <4>3 DEF Last
      <3>3. page[n] \in earlier /\ \A r \in earlier : written[r] >= written[page[n]]
        <4>1. n \in 1 .. n  BY <3>2
        <4>2. page[n] \in earlier  BY <2>7, <4>1 DEF IsOrder
        <4>3. ASSUME NEW r \in earlier PROVE written[r] >= written[page[n]]
          <5>1. PICK i \in 1 .. n : page[i] = r  BY <2>7 DEF IsOrder
          <5>2. i = n \/ i < n  BY <3>2
          <5>3. i < n => Newer(r, page[n])  BY <2>7, <4>1, <5>1 DEF IsOrder
          <5> QED  BY <2>5, <4>2, <5>1, <5>2, <5>3 DEF Newer
        <4> QED  BY <4>2, <4>3
      <3>4. /\ last \in Nat /\ last \in Clock /\ last # Never /\ last > boundary
            /\ walk.before # Never => last < walk.before
            /\ \A r \in earlier : written[r] >= last
        <4>1. page[n] \in Older /\ last = written[page[n]]  BY <2>5, <3>2, <3>3
        <4>2. last \in Nat /\ last \in Clock /\ last # Never  BY <1>4, <1>5, <4>1
        <4>3. walk.before # Never => last < walk.before  BY <4>1 DEF Older
        <4> QED  BY <2>5, <3>3, <4>1, <4>2, <4>3
      <3> HIDE DEF n, last
      <3>5. walk.seen \o page \in Seq(ListRows)
        BY <1>1, <1>6, <2>5, <2>7, SeenOnce
      <3>6. /\ w \in Walks /\ w.list = "audit" /\ w.owed = walk.owed /\ w.seen = walk.seen \o page
            /\ w.step = "audit" /\ w.before = last
        BY <1>1, <1>2, <3>1, <3>4, <3>5 DEF Walks
      <3>7. \A r : PastIs(w, r) <=> written[r] >= last  BY <3>4, <3>6 DEF PastIs
      <3>8. ASSUME NEW r \in ToSet(walk.seen) PROVE PastIs(w, r)
        <4>1. written[r] \in Nat /\ walk.before # Never /\ written[r] >= walk.before  BY <1>2, <1>3
        <4>2. last \in Nat /\ walk.before \in Nat /\ last < walk.before  BY <1>2, <3>4, <4>1
        <4>3. written[r] >= last  BY <4>1, <4>2
        <4> QED  BY <3>7, <4>3
      <3>9. ASSUME NEW r \in Since(purged), PastIs(w, r), ~Reached(r) PROVE r \in earlier
        <4>1. written[r] \in Nat /\ written[r] >= last /\ r \in Older  BY <1>4, <1>7, <3>7, <3>9
        <4>2. boundary \in Nat /\ last \in Nat /\ last > boundary  BY <2>3, <3>4
        <4>3. written[r] > boundary  BY <4>1, <4>2
        <4> QED  BY <2>6, <4>1, <4>3
      <3>10. \A r \in earlier : r \notin ToSet(walk.seen) /\ PastIs(w, r)  BY <1>6, <2>5, <3>4, <3>7
      <3>11. w.step = "instant" => w.before # Never  BY <3>6
      <3> QED  BY <1>1, <2>7, <3>6, <3>8, <3>9, <3>10, <3>11, AuditGoesOn
    <2> QED  BY <2>8, <2>9
  <1> QED  BY <1>10, <1>11

LEMMA ReadInstantKeeps ==
    ASSUME PagesAssumption, PagesInv, ReadInstant
    PROVE  PagesInv'
  <1> DEFINE rows == {r \in Since(purged) : written[r] = walk.before}
             s    == NewestFirst(rows)
  <1> PICK w : w = walk'  OBVIOUS
  <1>1. /\ walk.step = "instant" /\ UNCHANGED <<clock, written, purged>>
        /\ w = [walk EXCEPT !.seen = @ \o s, !.step = IF rows = {} THEN "failed" ELSE "audit"]
    BY DEF ReadInstant
  <1>2. /\ PagesTyped /\ walk \in Walks /\ walk.list = "audit" /\ purged \in Clock
        /\ \A r \in ToSet(walk.seen) : r \in ListRows /\ written[r] \in Nat /\ Reached(r)
        /\ walk.before # Never /\ walk.before \in Nat
    BY <1>1, AuditWas
  <1>3. \A r : Reached(r) <=> written[r] > walk.before
    BY <1>1 DEF Reached
  <1>4. \A r \in Since(purged) : r \in ListRows /\ written[r] \in Nat /\ written[r] # Never
    BY <1>2, SinceIsWritten, SpansAreNumbers DEF Since
  <1>5. AreWritten(rows) /\ IsOrder(s, rows)
    <2>1. AreWritten(rows)  BY <1>4 DEF AreWritten
    <2> QED  BY <2>1, NewestFirstIs
  <1>6. \A r \in rows : written[r] = walk.before /\ r \notin ToSet(walk.seen)
    <2> SUFFICES ASSUME NEW r \in rows, r \in ToSet(walk.seen) PROVE FALSE  OBVIOUS
    <2>1. written[r] > walk.before /\ written[r] = walk.before  BY <1>2, <1>3
    <2> QED  BY <1>2, <2>1
  <1>7. \A r \in Since(purged) : written[r] = walk.before => r \in rows  OBVIOUS
  <1> HIDE DEF rows, s
  <1>8. walk.seen \o s \in Seq(ListRows)  BY <1>1, <1>5, <1>6, SeenOnce
  <1>9. /\ w \in Walks /\ w.list = "audit" /\ w.owed = walk.owed /\ w.seen = walk.seen \o s
        /\ w.step \in {"audit", "failed"} /\ w.before = walk.before
    BY <1>1, <1>2, <1>8 DEF Walks
  <1>10. \A r : PastIs(w, r) <=> (w.step = "failed" \/ written[r] >= walk.before)
    BY <1>2, <1>9 DEF PastIs
  <1>11. ASSUME NEW r \in ListRows, r \in ToSet(walk.seen) \/ r \in rows PROVE PastIs(w, r)
    <2>1. CASE r \in ToSet(walk.seen)
      <3>1. written[r] \in Nat /\ written[r] > walk.before  BY <1>2, <1>3, <2>1
      <3>2. written[r] >= walk.before  BY <1>2, <3>1
      <3> QED  BY <1>10, <3>2
    <2>2. CASE r \in rows
      <3>1. written[r] = walk.before  BY <1>6, <2>2
      <3>2. written[r] >= walk.before  BY <1>2, <3>1
      <3> QED  BY <1>10, <3>2
    <2> QED  BY <1>11, <2>1, <2>2
  <1>12. ASSUME w.step # "failed", NEW r \in Since(purged), PastIs(w, r), ~Reached(r) PROVE r \in rows
    <2>1. written[r] \in Nat /\ written[r] >= walk.before /\ ~(written[r] > walk.before)
      BY <1>3, <1>4, <1>10, <1>12
    <2>2. written[r] = walk.before  BY <1>2, <2>1
    <2> QED  BY <1>7, <2>2
  <1>13. w.step \in {"audit", "instant", "done", "failed"} /\ w.step # "instant"  BY <1>9
  <1>14. UNCHANGED <<clock, written, purged>> /\ walk.step \in {"audit", "instant"}  BY <1>1
  <1>15. \A r \in rows : r \notin ToSet(walk.seen)  BY <1>6
  <1> QED  BY <1>5, <1>9, <1>11, <1>12, <1>13, <1>14, <1>15, AuditGoesOn

LEMMA StopReadingKeeps ==
    ASSUME PagesAssumption, PagesInv, StopReading
    PROVE  PagesInv'
  <1>1. /\ walk' = NotReading /\ UNCHANGED <<clock, written, purged>>  BY DEF StopReading
  <1>2. PagesTyped  BY DEF PagesInv
  <1>3. NotReading \in Walks  BY <1>2, NotReadingIs DEF PagesTyped
  <1>4. NotReading.owed = {} /\ NotReading.list = "none" /\ NotReading.step = "idle"  BY DEF NotReading
  <1>5. PagesTyped'  BY <1>1, <1>2, <1>3, <1>4 DEF PagesTyped
  <1> QED  BY <1>1, <1>4, <1>5 DEF PagesInv

LEMMA PurgeAuditKeeps ==
    ASSUME PagesAssumption, PagesInv, PurgeAudit
    PROVE  PagesInv'
  <1>1. purged < Back(Span) /\ purged' = Back(Span) /\ UNCHANGED <<clock, written, walk>>  BY DEF PurgeAudit
  <1>2. PagesTyped  BY DEF PagesInv
  <1>3. Back(Span) \in Clock /\ Back(Span) \in Nat /\ purged \in Nat  BY <1>2, BackGoesOn, SpansAreNumbers DEF PagesTyped
  <1>4. PagesTyped'  BY <1>1, <1>2, <1>3 DEF PagesTyped
  <1>5. Since(purged)' \subseteq Since(purged)
    <2> SUFFICES ASSUME NEW r \in Since(purged)' PROVE r \in Since(purged)  OBVIOUS
    <2>1. r \in ListRows /\ written[r] # Never /\ written[r] >= Back(Span)  BY <1>1 DEF Since
    <2>2. written[r] \in Nat  BY <1>2, <2>1, SpansAreNumbers DEF PagesTyped
    <2>3. written[r] >= purged  BY <1>1, <1>3, <2>1, <2>2
    <2> QED  BY <2>1, <2>3 DEF Since
  <1>6. ASSUME VisitsSound PROVE VisitsSound'
    <2>1. \A r : NewerThan(r)' = NewerThan(r)  BY <1>1 DEF NewerThan, Newer
    <2>2. Back(Span)' = Back(Span) /\ Since(walk.from)' = Since(walk.from)  BY <1>1 DEF Back, Since
    <2> QED  BY <1>1, <1>6, <2>1, <2>2 DEF VisitsSound
  <1>7. ASSUME AuditSound PROVE AuditSound'
    <2>1. \A r : Reached(r)' = Reached(r)  BY <1>1 DEF Reached
    <2> QED  BY <1>1, <1>5, <1>7, <2>1 DEF AuditSound
  <1> QED  BY <1>1, <1>4, <1>6, <1>7 DEF PagesInv

LEMMA PagesTickKeeps ==
    ASSUME PagesAssumption, PagesInv, PagesTick
    PROVE  PagesInv'
  <1>1. clock < LastClock /\ clock' = clock + 1 /\ UNCHANGED <<written, purged, walk>>  BY DEF PagesTick
  <1>2. PagesTyped  BY DEF PagesInv
  <1>3. clock \in Nat /\ LastClock \in Nat /\ Span \in Nat  BY <1>2, SpansAreNumbers DEF PagesTyped
  <1>4. clock + 1 \in Clock  BY <1>1, <1>3 DEF Clock
  <1>5. PagesTyped'  BY <1>1, <1>2, <1>4 DEF PagesTyped
  <1>6. Back(Span) \in Nat /\ Back(Span)' \in Nat /\ Back(Span) <= Back(Span)'  BY <1>1, <1>3 DEF Back
  <1>7. ASSUME VisitsSound PROVE VisitsSound'
    <2>1. \A r : NewerThan(r)' = NewerThan(r)  BY <1>1 DEF NewerThan, Newer
    <2>2. Since(walk.from)' = Since(walk.from)  BY <1>1 DEF Since
    <2>3. walk.from \in Nat /\ walk.from <= Back(Span)  BY <1>2, <1>7, WalkIs, SpansAreNumbers DEF VisitsSound
    <2>4. walk.from <= Back(Span)'  BY <1>6, <2>3
    <2> QED  BY <1>1, <1>7, <2>1, <2>2, <2>4 DEF VisitsSound
  <1>8. ASSUME AuditSound PROVE AuditSound'
    <2>1. \A r : Reached(r)' = Reached(r)  BY <1>1 DEF Reached
    <2>2. Since(purged)' = Since(purged)  BY <1>1 DEF Since
    <2> QED  BY <1>1, <1>8, <2>1, <2>2 DEF AuditSound
  <1> QED  BY <1>1, <1>5, <1>7, <1>8 DEF PagesInv

LEMMA WriteRowKeeps ==
    ASSUME PagesAssumption, PagesInv, WriteRow
    PROVE  PagesInv'
  <1> PICK w : w = walk'  OBVIOUS
  <1>1. PICK o \in ListRows : \E at \in Back(Late) .. clock : written[o] = Never /\ written' = [written EXCEPT ![o] = at]
    BY DEF WriteRow
  <1>2. PICK at \in Back(Late) .. clock : written[o] = Never /\ written' = [written EXCEPT ![o] = at]
    BY <1>1
  <1>3. w = [walk EXCEPT !.crossed = @ \/ walk.step = "read"] /\ UNCHANGED <<clock, purged>>
    BY DEF WriteRow
  <1>4. PagesTyped /\ walk \in Walks  BY DEF PagesInv, PagesTyped
  <1>5. at \in Clock
    <2>1. clock \in Nat /\ clock <= LastClock /\ Back(Late) \in Nat
      BY <1>4, BackGoesOn, SpansAreNumbers DEF PagesTyped, Clock
    <2> QED  BY <2>1, SpansAreNumbers DEF Clock
  <1>6. /\ w \in Walks /\ w.list = walk.list /\ w.step = walk.step /\ w.page = walk.page /\ w.before = walk.before
        /\ w.from = walk.from /\ w.total = walk.total /\ w.seen = walk.seen /\ w.owed = walk.owed
        /\ (~w.crossed) => (~walk.crossed /\ walk.step # "read")
    BY <1>3, <1>4 DEF Walks
  <1>7. \A r \in ListRows : written[r] # Never => written'[r] = written[r]
    BY <1>2, <1>4 DEF PagesTyped
  <1>8. \A r \in walk.owed : r \in ListRows /\ written[r] # Never  BY <1>4 DEF PagesTyped, Walks
  <1>9. \A from : walk.owed \cap Since(from)' = walk.owed \cap Since(from)
    BY <1>7, <1>8 DEF Since
  <1>10. PagesTyped'
    <2>1. written' \in [ListRows -> Clock \cup {Never}]  BY <1>2, <1>4, <1>5 DEF PagesTyped
    <2>2. \A r \in w.owed : written'[r] # Never  BY <1>6, <1>7, <1>8
    <2> QED  BY <1>3, <1>4, <1>6, <2>1, <2>2 DEF PagesTyped
  <1>11. ASSUME VisitsSound PROVE VisitsSound'
    <2>1. ASSUME NEW r \in walk.owed
          PROVE  /\ Cardinality(NewerThan(r)) \in Nat /\ Cardinality(NewerThan(r)') \in Nat
                 /\ Cardinality(NewerThan(r)) <= Cardinality(NewerThan(r)')
      <3>1. NewerThan(r) \subseteq NewerThan(r)'  BY <1>7, <1>8 DEF NewerThan, Newer
      <3>2. NewerThan(r)' \in SUBSET ListRows  BY DEF NewerThan
      <3>3. IsFiniteSet(NewerThan(r)')  BY <3>2, SpansAreNumbers, FS_Subset
      <3> QED  BY <3>1, <3>3, FS_Subset, FS_CardinalityType
    <2>2. Back(Span)' = Back(Span) /\ w.from <= Back(Span) /\ w.step \in {"count", "read", "done"}
      BY <1>3, <1>6, <1>11 DEF Back, VisitsSound
    <2>3. walk.owed \cap Since(walk.from)' = walk.owed \cap Since(w.from)
      BY <1>6, <1>7, <1>8 DEF Since
    <2>4. ASSUME w.step # "done", NEW r \in walk.owed \cap Since(w.from)
          PROVE  r \in ToSet(w.seen) \/ (w.page - 1) * PageSize <= Cardinality(NewerThan(r)')
      <3>1. r \in ToSet(walk.seen) \/ (walk.page - 1) * PageSize <= Cardinality(NewerThan(r))
        BY <1>6, <1>11, <2>4 DEF VisitsSound
      <3>2. (walk.page - 1) * PageSize \in Nat
        <4>1. walk.page \in Nat \ {0} /\ PageSize \in Nat \ {0}  BY <1>4, WalkIs, SpansAreNumbers
        <4> QED  BY <4>1, PagesOfRows
      <3> DEFINE p == (walk.page - 1) * PageSize
      <3>3. (w.page - 1) * PageSize = p  BY <1>6
      <3> HIDE DEF p
      <3>4. r \in ToSet(walk.seen) \/ p <= Cardinality(NewerThan(r)')
        BY <2>1, <3>1, <3>2 DEF p
      <3> QED  BY <1>6, <3>3, <3>4
    <2>5. (w.step = "done" /\ ~w.crossed) => walk.owed \cap Since(w.from) \subseteq ToSet(w.seen)
      BY <1>6, <1>11 DEF VisitsSound
    <2>6. \A r : Cardinality(NewerThan(r))' = Cardinality(NewerThan(r)')  OBVIOUS
    <2>7. w.step = "read" => w.crossed  BY <1>6
    <2> QED  BY <1>6, <2>2, <2>3, <2>4, <2>5, <2>6, <2>7 DEF VisitsSound
  <1>12. ASSUME AuditSound PROVE AuditSound'
    <2>1. walk.owed \cap Since(purged)' = walk.owed \cap Since(purged)
      BY <1>3, <1>7, <1>8 DEF Since
    <2>2. \A i \in DOMAIN walk.seen : walk.seen[i] \in ListRows
      BY <1>4, WalkIs
    <2>3. \A r \in ListRows : written[r] # Never => (Reached(r)' <=> Reached(r))
      BY <1>6, <1>7 DEF Reached
    <2>4. \A i \in DOMAIN w.seen : written'[w.seen[i]] # Never /\ Reached(w.seen[i])'
      BY <1>6, <1>7, <1>12, <2>2, <2>3 DEF AuditSound
    <2>5. w.step # "failed" => \A r \in walk.owed \cap Since(purged) : Reached(r)' => r \in ToSet(w.seen)
      BY <1>6, <1>8, <1>12, <2>3 DEF AuditSound
    <2> QED  BY <1>6, <1>12, <2>1, <2>4, <2>5 DEF AuditSound
  <1> QED  BY <1>6, <1>10, <1>11, <1>12 DEF PagesInv

LEMMA NoPageYet ==
    ASSUME PagesAssumption, PagesInit
    PROVE  PagesInv
  <1>1. clock = 0 /\ purged = 0 /\ written = [r \in ListRows |-> Never] /\ walk = NotReading  BY DEF PagesInit
  <1>2. <<>> \in Seq(ListRows) /\ {} \in SUBSET ListRows /\ 0 \in Clock /\ 0 \in Nat /\ 1 \in Nat \ {0}
    BY SpansAreNumbers
  <1>3. NotReading \in Walks  BY <1>2 DEF NotReading, Walks
  <1>4. NotReading.owed = {} /\ NotReading.list = "none" /\ NotReading.step = "idle"  BY DEF NotReading
  <1> QED  BY <1>1, <1>2, <1>3, <1>4 DEF PagesInv, PagesTyped

LEMMA PagesStaySound ==
    ASSUME PagesAssumption, PagesInv, [PagesNext]_pageVars
    PROVE  PagesInv'
  <1>1. CASE UNCHANGED pageVars
    <2>1. UNCHANGED <<clock, written, purged, walk>>  BY <1>1 DEF pageVars
    <2>2. \A r : Reached(r)' = Reached(r) /\ NewerThan(r)' = NewerThan(r)
      BY <2>1 DEF Reached, NewerThan, Newer
    <2>3. Since(walk.from)' = Since(walk.from) /\ Since(purged)' = Since(purged) /\ Back(Span)' = Back(Span)
      BY <2>1 DEF Since, Back
    <2>4. PagesTyped' = PagesTyped  BY <2>1 DEF PagesTyped
    <2>5. VisitsSound' = VisitsSound /\ AuditSound' = AuditSound
      BY <2>1, <2>2, <2>3 DEF VisitsSound, AuditSound
    <2> QED  BY <2>1, <2>4, <2>5 DEF PagesInv
  <1> QED
    BY <1>1, StartVisitsKeeps, CountVisitsKeeps, ReadVisitsKeeps, StartAuditKeeps, ReadAuditKeeps,
       ReadInstantKeeps, StopReadingKeeps, WriteRowKeeps, PurgeAuditKeeps, PagesTickKeeps DEF PagesNext

LEMMA NothingMissed ==
    ASSUME PagesAssumption, PagesInv
    PROVE  PagesMissNothing
  <1>1. PagesTyped /\ walk \in Walks  BY DEF PagesInv, PagesTyped
  <1>2. CASE walk.step = "done" /\ walk.list = "audit"
    <2>1. AuditSound  BY <1>2 DEF PagesInv
    <2>2. \A r : Reached(r)  BY <1>2 DEF Reached
    <2>3. ASSUME NEW r \in ToSet(walk.seen) PROVE Saw(r) = 1
      <3>1. PICK k \in DOMAIN walk.seen : walk.seen[k] = r  BY <2>3 DEF ToSet
      <3>2. {i \in DOMAIN walk.seen : walk.seen[i] = r} = {k}  BY <2>1, <3>1 DEF AuditSound
      <3> QED  BY <3>2, FS_Singleton DEF Saw
    <2>4. ASSUME NEW r, r \notin ToSet(walk.seen) PROVE Saw(r) = 0
      <3>1. {i \in DOMAIN walk.seen : walk.seen[i] = r} = {}  BY <2>4 DEF ToSet
      <3> QED  BY <3>1, FS_EmptySet DEF Saw
    <2>5. \A r \in walk.owed \cap Since(purged) : r \in ToSet(walk.seen)  BY <1>2, <2>1, <2>2 DEF AuditSound
    <2>6. \A r \in walk.owed \cap Since(purged) : Saw(r) = 1  BY <2>3, <2>5
    <2>7. \A r \in ListRows : Saw(r) = 1 \/ Saw(r) = 0  BY <2>3, <2>4
    <2>8. \A r \in ListRows : Saw(r) <= 1  BY <2>7
    <2> QED  BY <1>2, <2>6, <2>8 DEF PagesMissNothing
  <1>3. CASE walk.step = "done" /\ walk.list # "audit"
    <2>1. walk.list = "visits"  BY <1>1, <1>3 DEF PagesInv, Walks
    <2>2. VisitsSound  BY <2>1 DEF PagesInv
    <2> QED  BY <1>3, <2>2 DEF PagesMissNothing, VisitsSound
  <1> QED  BY <1>2, <1>3 DEF PagesMissNothing

\* Of a list read a page at a time, whoever reads to the end saw what was there when it began: the
\* audit's rows once each, however rows of an instant fall on its pages, while more are written and
\* the old are purged; a link's visits, unless one came between the count and the page.
THEOREM NothingIsMissed ==
    ASSUME PagesAssumption
    PROVE  PagesSpec => []PagesMissNothing
  <1>1. PagesInit => PagesInv  BY NoPageYet
  <1>2. PagesInv /\ [PagesNext]_pageVars => PagesInv'  BY PagesStaySound
  <1>3. PagesInv => PagesMissNothing  BY NothingMissed
  <1> QED  BY <1>1, <1>2, <1>3, PTL DEF PagesSpec

-----------------------------------------------------------------------------
(* Moving from Shlink.                                                      *)

\* No member comes twice.
EachOnce(s) == \A i, j \in DOMAIN s : s[i] = s[j] => i = j

\* Of the visits there are: one of the link, that came by then, one whose second is in a range, or
\* in one of those lost.
OfLink(v, c, until, came) == v \in DOMAIN came /\ CodeOf[came[v].row] = c /\ came[v].at <= until
InRange(v, range, came)    == range.start <= came[v].at /\ came[v].at <= range.end
Lost(v, gaps, came)       == \E gap \in gaps : InRange(v, gap, came)

\* The pages read list the first links, until one comes or goes: then the counts tell.
ListSound ==
    export.step = "list" =>
        LET n == Cardinality(held) IN
        /\ export.stayed \subseteq held
        /\ export.page = 1 => /\ export.listed = <<>> /\ export.counts = {}
                              /\ ~export.made /\ ~export.gone
        /\ (export.page > 1 /\ ~export.made /\ ~export.gone) =>
              /\ export.counts = {n}
              /\ Len(export.listed) = (export.page - 1) * ListSize
              /\ Len(export.listed) < n
              /\ \A i \in DOMAIN export.listed : export.listed[i].row = Ordered(held)[i]
        /\ (export.page > 1 /\ export.made /\ ~export.gone) => \E m \in export.counts : m < n
        /\ (export.page > 1 /\ export.gone /\ ~export.made) => \E m \in export.counts : m > n

CollapseSound ==
    (export.step = "collapse" /\ ~(export.made /\ export.gone)) =>
        \A r \in export.stayed : \E i \in DOMAIN export.listed : export.listed[i].row = r

EntrySound(e, until, came) ==
    /\ EachOnce(e.found)
    /\ \A v \in ToSet(e.found) : OfLink(v, e.code, until, came)
    /\ \A v \in e.owed : v \in DOMAIN came /\ (v \in ToSet(e.found) \/ Lost(v, e.gaps, came))

\* Each link once, none left out, and an entry for each up to the current.
LinksSound ==
    IF export.step \in {"visits", "recover"}
    THEN /\ Len(export.entries) <= Len(export.links)
         /\ \A i, j \in DOMAIN export.links :
               CodeOf[export.links[i].row] = CodeOf[export.links[j].row] => i = j
         /\ ~(export.made /\ export.gone) =>
               \A r \in export.stayed :
                  \E i \in DOMAIN export.links : CodeOf[export.links[i].row] = CodeOf[r]
         /\ \A i \in DOMAIN export.entries :
               /\ export.entries[i].code = CodeOf[export.links[i].row]
               /\ EntrySound(export.entries[i], export.until, theirVisits)
    ELSE export.entries = <<>>

\* The ranges to try are older than what was found, each older than the next, and what is owed
\* was found, or lost, or is in one of them.
RecoverSound ==
    IF export.step = "recover"
    THEN /\ Len(export.entries) < Len(export.links)
         /\ EachOnce(export.found)
         /\ \A v \in ToSet(export.found) : OfLink(v, CodeNow, export.until, theirVisits)
         /\ \A i \in DOMAIN export.pending : export.pending[i].end <= export.until
         /\ \A i, j \in DOMAIN export.pending : i < j => export.pending[i].end < export.pending[j].start
         /\ \A v \in ToSet(export.found), i \in DOMAIN export.pending :
               export.pending[i].end < theirVisits[v].at
         /\ \A v \in export.owed :
               /\ v \in TheVisits
               /\ \/ v \in ToSet(export.found) \/ Lost(v, export.gaps, theirVisits)
                  \/ \E i \in DOMAIN export.pending : InRange(v, export.pending[i], theirVisits)
    ELSE export.found = <<>> /\ export.gaps = {} /\ export.owed = {} /\ export.pending = <<>>

SnapshotSound ==
    snapshot # Absent =>
        /\ ~snapshot.moving => \A r \in snapshot.stayed : \E e \in snapshot.links : e.code = CodeOf[r]
        /\ \A e, f \in snapshot.links : e.code = f.code => e = f
        /\ \A e \in snapshot.links : EntrySound(e, snapshot.until, theirVisits)

ImportSound ==
    importing # Absent =>
        /\ snapshot # Absent /\ export.step = "idle"
        /\ importing.plan \subseteq snapshot.links
        /\ importing.new \subseteq {e.code : e \in importing.plan}
        /\ importing.until = snapshot.until

\* Nothing was imported from after the export that runs, or the snapshot there is.
ImportedBefore ==
    \A c \in Codes :
        /\ imported[c] <= second
        /\ export.step # "idle" => imported[c] <= export.until /\ export.until <= second
        /\ snapshot # Absent => imported[c] <= snapshot.until /\ snapshot.until <= second

\* A visit that was moved is of a link that is there, and no later than its last import.
MovedSound ==
    \A v \in DOMAIN moved : moved[v] > 0 =>
        /\ v \in DOMAIN theirVisits
        /\ ourLink[VisitCode(v)] # Absent
        /\ theirVisits[v].at <= imported[VisitCode(v)]

MovingInv ==
    /\ MovingTypeOK
    /\ ListSound /\ CollapseSound /\ LinksSound /\ RecoverSound
    /\ SnapshotSound /\ ImportSound /\ ImportedBefore /\ MovedSound

-----------------------------------------------------------------------------
(* What is sorted.                                                          *)

\* A strict order of the members of S, as the pairs it holds of.
Orders(O, S) ==
    /\ \A x, y \in S : x # y => (<<x, y>> \in O \/ <<y, x>> \in O)
    /\ \A x, y \in S : <<x, y>> \in O => <<y, x>> \notin O
    /\ \A x, y, z \in S : <<x, y>> \in O /\ <<y, z>> \in O => <<x, z>> \in O

\* s is S in that order.
InOrder(s, S, O) == s \in [1 .. Cardinality(S) -> S] /\ \A i, j \in DOMAIN s : i < j => <<s[i], s[j]>> \in O

\* A finite set has an order of its members: each at the place that those before it leave it.
LEMMA CanBeSorted ==
    ASSUME NEW S, IsFiniteSet(S), NEW O, Orders(O, S)
    PROVE  \E s : InOrder(s, S, O)
  <1> DEFINE before(x) == {y \in S : <<y, x>> \in O}
             f == [x \in S |-> Cardinality(before(x)) + 1]
             n == Cardinality(S)
  <1>1. n \in Nat  BY FS_CardinalityType
  <1>2. ASSUME NEW x \in S
        PROVE  /\ IsFiniteSet(before(x)) /\ Cardinality(before(x)) \in Nat /\ Cardinality(before(x)) < n
    <2>1. before(x) \in SUBSET S /\ x \notin before(x)
      BY DEF Orders
    <2> HIDE DEF before
    <2>2. /\ IsFiniteSet(before(x)) /\ Cardinality(before(x)) \in Nat
          /\ Cardinality(before(x)) <= n /\ Cardinality(before(x)) # n
      BY <1>1, <2>1, FS_Subset, FS_CardinalityType
    <2> QED  BY <1>1, <2>2
  <1>3. ASSUME NEW x \in S, NEW y \in S, <<x, y>> \in O PROVE f[x] < f[y]
    <2>1. before(x) \in SUBSET before(y) /\ x \in before(y) /\ x \notin before(x)
      BY <1>3 DEF Orders
    <2>2. /\ IsFiniteSet(before(y)) /\ Cardinality(before(y)) \in Nat /\ Cardinality(before(x)) \in Nat
      BY <1>2
    <2> HIDE DEF before
    <2>3. Cardinality(before(x)) <= Cardinality(before(y)) /\ Cardinality(before(x)) # Cardinality(before(y))
      BY <2>1, <2>2, FS_Subset
    <2> QED  BY <2>2, <2>3
  <1>4. f \in [S -> 1 .. n]
    <2>1. \A x \in S : Cardinality(before(x)) \in Nat /\ Cardinality(before(x)) < n  BY <1>2
    <2> HIDE DEF before
    <2> QED  BY <1>1, <2>1
  <1> HIDE DEF f, before
  <1>5. f \in Injection(S, 1 .. n)
    <2> SUFFICES ASSUME NEW x \in S, NEW y \in S, f[x] = f[y] PROVE x = y
      BY <1>4 DEF Injection, IsInjective
    <2>1. f[x] \in Int /\ f[y] \in Int  BY <1>4
    <2>2. <<x, y>> \notin O /\ <<y, x>> \notin O  BY <1>3, <2>1
    <2> QED  BY <2>2 DEF Orders
  <1>6. \A i \in 1 .. n : \E x \in S : f[x] = i
    <2>1. IsFiniteSet(1 .. n) /\ Cardinality(1 .. n) = n  BY <1>1, FS_Interval
    <2>2. f \in Surjection(S, 1 .. n)  BY <1>5, <2>1, FS_Injection
    <2> QED  BY <2>2 DEF Surjection
  <1> DEFINE s == [i \in 1 .. n |-> CHOOSE x \in S : f[x] = i]
  <1>7. s \in [1 .. n -> S] /\ \A i \in 1 .. n : f[s[i]] = i
    BY <1>6
  <1>8. ASSUME NEW i \in 1 .. n, NEW j \in 1 .. n, i < j PROVE <<s[i], s[j]>> \in O
    <2>1. s[i] \in S /\ s[j] \in S /\ f[s[i]] = i /\ f[s[j]] = j  BY <1>7
    <2> HIDE DEF s
    <2>2. i \in Int /\ j \in Int  OBVIOUS
    <2>3. s[i] # s[j] /\ <<s[j], s[i]>> \notin O  BY <1>3, <1>8, <2>1, <2>2
    <2> QED  BY <2>1, <2>3 DEF Orders
  <1> HIDE DEF s
  <1>9. DOMAIN s = 1 .. n  BY <1>7
  <1> QED  BY <1>1, <1>7, <1>8, <1>9 DEF InOrder

\* All of S, each once.
Lists(s, S) ==
    /\ s \in Seq(S) /\ Len(s) = Cardinality(S) /\ Cardinality(S) \in Nat /\ DOMAIN s = 1 .. Len(s)
    /\ ToSet(s) = S
    /\ EachOnce(s)

LEMMA OrderedLists ==
    ASSUME NEW S, IsFiniteSet(S), NEW O, Orders(O, S), NEW s, InOrder(s, S, O)
    PROVE  Lists(s, S)
  <1> DEFINE n == Cardinality(S)
  <1>1. n \in Nat  BY FS_CardinalityType
  <1>2. s \in [1 .. n -> S]  BY DEF InOrder
  <1>3. \A i, j \in 1 .. n : i < j => s[i] # s[j]  BY <1>2 DEF InOrder, Orders
  <1>4. \A i, j \in 1 .. n : s[i] = s[j] => i = j  BY <1>1, <1>3
  <1>5. s \in Injection(1 .. n, S)  BY <1>2, <1>4 DEF Injection, IsInjective
  <1>6. \A x \in S : \E i \in 1 .. n : s[i] = x
    <2>1. Cardinality(1 .. n) = n  BY <1>1, FS_Interval
    <2>2. s \in Surjection(1 .. n, S)  BY <1>1, <1>5, <2>1, FS_Injection
    <2> QED  BY <2>2 DEF Surjection
  <1>7. s \in Seq(S) /\ Len(s) = n /\ DOMAIN s = 1 .. n  BY <1>1, <1>2
  <1>8. ToSet(s) = S
    <2>1. \A i \in 1 .. n : s[i] \in S  BY <1>2
    <2> HIDE DEF n
    <2> QED  BY <1>6, <1>7, <2>1 DEF ToSet
  <1>9. EachOnce(s)  BY <1>4, <1>7 DEF EachOnce
  <1> QED  BY <1>1, <1>7, <1>8, <1>9 DEF Lists

-----------------------------------------------------------------------------
LEMMA TheConstants ==
    ASSUME MovingAssumption
    PROVE  /\ ShlinkRows \in SUBSET Nat /\ IsFiniteSet(ShlinkRows)
           /\ \A r \in ShlinkRows : CodeOf[r] \in Nat /\ CodeOf[r] \in Codes /\ DestOf[r] \in Dests
           /\ Absent \notin Dests
           /\ ListSize \in Nat /\ ListSize > 0 /\ LastSecond \in Nat /\ MaxTheirs \in Nat
           /\ Seconds \subseteq Nat /\ NotBefore \in Int /\ NotBefore < 0 /\ Times \subseteq Int
           /\ 0 \in Seconds
  BY DEF MovingAssumption, Codes, Dests, Seconds, NotBefore, Times

LEMMA OrderedIs ==
    ASSUME MovingAssumption, NEW R \in SUBSET ShlinkRows
    PROVE  Lists(Ordered(R), R)
  <1> DEFINE O == {p \in R \X R : ByCode(p[1], p[2])}
  <1>1. IsFiniteSet(R) /\ \A r \in R : r \in Nat /\ CodeOf[r] \in Nat
    BY TheConstants, FS_Subset
  <1>2. Orders(O, R)
    <2>1. \A x, y \in R : <<x, y>> \in O <=> ByCode(x, y)  OBVIOUS
    <2> HIDE DEF O
    <2>2. \A x, y \in R : x # y => ByCode(x, y) \/ ByCode(y, x)  BY <1>1 DEF ByCode
    <2>3. \A x, y \in R : ByCode(x, y) => ~ByCode(y, x)  BY <1>1 DEF ByCode
    <2>4. \A x, y, z \in R : ByCode(x, y) /\ ByCode(y, z) => ByCode(x, z)  BY <1>1 DEF ByCode
    <2> QED  BY <2>1, <2>2, <2>3, <2>4 DEF Orders
  <1>3. \E s \in [1 .. Cardinality(R) -> R] : \A i, j \in DOMAIN s : i < j => ByCode(s[i], s[j])
    <2>1. PICK s : InOrder(s, R, O)  BY <1>1, <1>2, CanBeSorted
    <2> QED  BY <2>1 DEF InOrder
  <1>4. /\ Ordered(R) \in [1 .. Cardinality(R) -> R]
        /\ \A i, j \in DOMAIN Ordered(R) : i < j => ByCode(Ordered(R)[i], Ordered(R)[j])
    BY <1>3 DEF Ordered, Sorted
  <1>5. InOrder(Ordered(R), R, O)
    BY <1>4 DEF InOrder
  <1> QED  BY <1>1, <1>2, <1>5, OrderedLists

LEMMA TheirVisitsAre ==
    ASSUME MovingAssumption, MovingTypeOK
    PROVE  /\ Len(theirVisits) \in Nat /\ DOMAIN theirVisits = 1 .. Len(theirVisits)
           /\ Len(theirVisits) <= MaxTheirs
           /\ DOMAIN theirVisits \in SUBSET Nat /\ IsFiniteSet(DOMAIN theirVisits)
           /\ \A v \in DOMAIN theirVisits :
                 /\ v \in Nat /\ theirVisits[v].row \in ShlinkRows
                 /\ theirVisits[v].at \in Seconds /\ theirVisits[v].at \in Nat
                 /\ VisitCode(v) \in Codes
  <1>1. theirVisits \in Seq(Theirs) /\ Len(theirVisits) <= MaxTheirs  BY DEF MovingTypeOK
  <1>3. Len(theirVisits) \in Nat /\ DOMAIN theirVisits = 1 .. Len(theirVisits)  BY <1>1
  <1>2. \A v \in DOMAIN theirVisits : theirVisits[v] \in Theirs  BY <1>1, <1>3
  <1>4. IsFiniteSet(DOMAIN theirVisits)  BY <1>3, FS_Interval
  <1>5. DOMAIN theirVisits \in SUBSET Nat  BY <1>3
  <1>6. \A v \in DOMAIN theirVisits : theirVisits[v].row \in ShlinkRows /\ theirVisits[v].at \in Seconds
    BY <1>2 DEF Theirs
  <1> QED  BY <1>1, <1>3, <1>4, <1>5, <1>6, TheConstants DEF VisitCode

LEMMA LatestFirstIs ==
    ASSUME MovingAssumption, MovingTypeOK, NEW R \in SUBSET DOMAIN theirVisits
    PROVE  Lists(LatestFirst(R), R)
  <1> DEFINE O == {p \in R \X R : Later(p[1], p[2])}
  <1>1. IsFiniteSet(R) /\ \A r \in R : r \in Nat /\ theirVisits[r].at \in Nat
    BY TheirVisitsAre, FS_Subset
  <1>2. Orders(O, R)
    <2>1. \A x, y \in R : <<x, y>> \in O <=> Later(x, y)  OBVIOUS
    <2> HIDE DEF O
    <2>2. \A x, y \in R : x # y => Later(x, y) \/ Later(y, x)  BY <1>1 DEF Later
    <2>3. \A x, y \in R : Later(x, y) => ~Later(y, x)  BY <1>1 DEF Later
    <2>4. \A x, y, z \in R : Later(x, y) /\ Later(y, z) => Later(x, z)  BY <1>1 DEF Later
    <2> QED  BY <2>1, <2>2, <2>3, <2>4 DEF Orders
  <1>3. \E s \in [1 .. Cardinality(R) -> R] : \A i, j \in DOMAIN s : i < j => Later(s[i], s[j])
    <2>1. PICK s : InOrder(s, R, O)  BY <1>1, <1>2, CanBeSorted
    <2> QED  BY <2>1 DEF InOrder
  <1>4. /\ LatestFirst(R) \in [1 .. Cardinality(R) -> R]
        /\ \A i, j \in DOMAIN LatestFirst(R) : i < j => Later(LatestFirst(R)[i], LatestFirst(R)[j])
    BY <1>3 DEF LatestFirst, Sorted
  <1>5. InOrder(LatestFirst(R), R, O)
    BY <1>4 DEF InOrder
  <1> QED  BY <1>1, <1>2, <1>5, OrderedLists

LEMMA PlacesInOrder ==
    ASSUME NEW S \in SUBSET Nat, IsFiniteSet(S)
    PROVE  Lists(Sorted(S, <), S)
  <1> DEFINE O == {p \in S \X S : p[1] < p[2]}
             t == Sorted(S, <)
  <1>2. Orders(O, S)
    <2>1. \A x, y \in S : <<x, y>> \in O <=> x < y  OBVIOUS
    <2> HIDE DEF O
    <2>2. \A x, y \in S : x # y => x < y \/ y < x  OBVIOUS
    <2>3. \A x, y \in S : x < y => ~(y < x)  OBVIOUS
    <2>4. \A x, y, z \in S : x < y /\ y < z => x < z  OBVIOUS
    <2> QED  BY <2>1, <2>2, <2>3, <2>4 DEF Orders
  <1>3. \E s \in [1 .. Cardinality(S) -> S] : \A i, j \in DOMAIN s : i < j => s[i] < s[j]
    <2>1. PICK s : InOrder(s, S, O)  BY <1>2, CanBeSorted
    <2> QED  BY <2>1 DEF InOrder
  <1>4. /\ t \in [1 .. Cardinality(S) -> S]
        /\ \A i, j \in DOMAIN t : i < j => t[i] < t[j]
    BY <1>3 DEF Sorted
  <1>5. InOrder(t, S, O)
    BY <1>4 DEF InOrder
  <1> QED  BY <1>2, <1>5, OrderedLists

-----------------------------------------------------------------------------
LEMMA ExportIs ==
    ASSUME MovingTypeOK
    PROVE  /\ export \in Exports
           /\ export.step \in {"idle", "list", "collapse", "visits", "recover"}
           /\ export.page \in Nat \ {0} /\ export.until \in Seconds
           /\ export.listed \in Seq(Items) /\ export.counts \in SUBSET Nat
           /\ export.visits \in BOOLEAN /\ export.made \in BOOLEAN /\ export.gone \in BOOLEAN
           /\ export.links \in Seq(Items) /\ export.entries \in Seq(Entries)
           /\ export.stayed \in SUBSET ShlinkRows
           /\ export.pending \in Seq(Intervals) /\ export.requests \in Nat
           /\ export.found \in Seq(Nat) /\ export.gaps \in SUBSET Intervals
           /\ export.owed \in SUBSET Nat
  <1>1. export \in Exports  BY DEF MovingTypeOK
  <1> QED  BY <1>1 DEF Exports

LEMMA NothingYet ==
    /\ <<>> \in Seq(Items) /\ <<>> \in Seq(Intervals) /\ <<>> \in Seq(Entries) /\ <<>> \in Seq(Nat)
    /\ {} \in SUBSET Nat /\ {} \in SUBSET Intervals /\ 1 \in Nat \ {0}
  <1> DEFINE I == Items
             R == Intervals
             E == Entries
  <1> HIDE DEF I, R, E
  <1>1. /\ <<>> \in Seq(I) /\ <<>> \in Seq(R) /\ <<>> \in Seq(E) /\ <<>> \in Seq(Nat)
    OBVIOUS
  <1> QED
    BY <1>1 DEF I, R, E

LEMMA NoExportIs ==
    ASSUME MovingAssumption
    PROVE  NoExport \in Exports
  BY NothingYet, TheConstants DEF NoExport, Exports

LEMMA PageReaches ==
    ASSUME MovingAssumption, NEW n \in Nat, NEW p \in Nat
    PROVE  /\ p >= CountPages(n) => n <= p * ListSize
           /\ p < CountPages(n) => p * ListSize < n
  <1> DEFINE q == CountPages(n)
             m == (n + ListSize - 1) % ListSize
             S == ListSize
  <1>0. S \in Nat /\ S > 0  BY TheConstants
  <1>1. n + S - 1 \in Nat  BY <1>0
  <1>2. q \in Int /\ m \in 0 .. S - 1 /\ n + S - 1 = S * q + m
    BY <1>0, <1>1 DEF CountPages
  <1> HIDE DEF q, m, S
  <1>3. S * q >= n /\ S * q < n + S  BY <1>0, <1>2
  <1>4. p >= q => p * S >= S * q  BY <1>0, <1>2
  <1>5. p < q => p * S <= S * q - S
    <2> SUFFICES ASSUME p < q PROVE p * S <= S * q - S  OBVIOUS
    <2>1. p <= q - 1  BY <1>2
    <2>2. p * S <= (q - 1) * S  BY <1>0, <1>2, <2>1
    <2>3. (q - 1) * S = S * q - S  BY <1>0, <1>2
    <2> QED  BY <2>2, <2>3
  <1>6. p * S \in Int /\ S * q \in Int  BY <1>0, <1>2
  <1>7. p >= q => n <= p * S  BY <1>0, <1>2, <1>3, <1>4, <1>6
  <1>8. p < q => p * S < n  BY <1>0, <1>2, <1>3, <1>5, <1>6
  <1> QED  BY <1>7, <1>8 DEF q, S

\* The rows of a page: those of that place.
LEMMA ListedIs ==
    ASSUME MovingAssumption, MovingTypeOK, NEW p \in Nat \ {0}
    PROVE  LET n     == Cardinality(held)
               start == (p - 1) * ListSize
               end   == IF p * ListSize < n THEN p * ListSize ELSE n
           IN  /\ n \in Nat /\ start \in Nat /\ p * ListSize \in Nat /\ start + ListSize = p * ListSize
               /\ Listed(p) \in Seq(Items)
               /\ start <= n => Len(Listed(p)) = end - start
               /\ \A i \in 1 .. Len(Listed(p)) : Listed(p)[i].row = Ordered(held)[start + i]
  <1> DEFINE all   == Ordered(held)
             n     == Cardinality(held)
             start == (p - 1) * ListSize
             end   == IF p * ListSize < Len(all) THEN p * ListSize ELSE Len(all)
             rows  == SubSeq(all, start + 1, end)
  <1>1. held \in SUBSET ShlinkRows  BY DEF MovingTypeOK
  <1>2. /\ all \in Seq(held) /\ Len(all) = n /\ n \in Nat
    BY <1>1, OrderedIs DEF Lists
  <1>3. ListSize \in Nat /\ ListSize > 0  BY TheConstants
  <1>4. start \in Nat /\ p * ListSize \in Nat /\ start + ListSize = p * ListSize  BY <1>3
  <1>5. end \in Nat /\ end <= n  BY <1>2, <1>4
  <1>6. \A i \in start + 1 .. end : all[i] \in held  BY <1>2, <1>4, <1>5
  <1> HIDE DEF all, n, start
  <1>7. /\ rows \in Seq(held)
        /\ Len(rows) = IF start + 1 <= end THEN end - (start + 1) + 1 ELSE 0
        /\ \A i \in 1 .. end - (start + 1) + 1 : rows[i] = all[start + 1 + i - 1]
    <2>1. start + 1 \in Int /\ end \in Int  BY <1>4, <1>5
    <2> HIDE DEF end
    <2> QED  BY <1>6, <2>1, SubSeqProperties
  <1>8. Listed(p) = [i \in DOMAIN rows |-> [row |-> rows[i], total |-> Total(rows[i])]]
    BY DEF Listed, all, start
  <1>9. \A r : Total(r) \in Nat
    BY TheirVisitsAre, FS_Subset, FS_CardinalityType DEF Total
  <1> HIDE DEF rows
  <1>10. DOMAIN rows = 1 .. Len(rows) /\ Len(rows) \in Nat /\ \A i \in 1 .. Len(rows) : rows[i] \in ShlinkRows
    BY <1>1, <1>7
  <1>11. Listed(p) \in Seq(Items) /\ Len(Listed(p)) = Len(rows)
    BY <1>8, <1>9, <1>10 DEF Items
  <1>12. \A i \in 1 .. Len(Listed(p)) : Listed(p)[i].row = rows[i]
    BY <1>8, <1>10, <1>11
  <1>13. \A i \in 1 .. Len(rows) : rows[i] = all[start + i]
    <2> SUFFICES ASSUME NEW i \in 1 .. Len(rows) PROVE rows[i] = all[start + i]  OBVIOUS
    <2>1. i \in 1 .. end - (start + 1) + 1 /\ start + 1 + i - 1 = start + i
      <3> HIDE DEF end
      <3> QED  BY <1>4, <1>5, <1>7, <1>10
    <2> QED  BY <1>7, <2>1
  <1>14. start <= n => Len(rows) = end - start
    <2>1. start <= n => start <= end  BY <1>2, <1>3, <1>4
    <2> HIDE DEF end
    <2> QED  BY <1>4, <1>5, <1>7, <2>1
  <1>15. end = IF p * ListSize < n THEN p * ListSize ELSE n  BY <1>2
  <1> HIDE DEF end
  <1>16. \A i \in 1 .. Len(Listed(p)) : Listed(p)[i].row = all[start + i]
    BY <1>11, <1>12, <1>13
  <1> QED
    BY <1>2, <1>4, <1>11, <1>14, <1>15, <1>16 DEF all, n, start

-----------------------------------------------------------------------------
(* The export.                                                              *)

\* A step of the export leaves what is written and imported.
LEMMA ExportGoesOn ==
    ASSUME MovingInv, export.step # "idle", export' \in Exports,
           export'.step # "idle" => export'.until = export.until,
           UNCHANGED <<shlink, snapshot, shurly, importing, changes>>
    PROVE  MovingTypeOK' /\ SnapshotSound' /\ ImportSound' /\ ImportedBefore' /\ MovedSound'
  <1>1. UNCHANGED <<second, held, theirVisits, snapshot, ourLink, moved, own, imported, importing, changes>>
    BY DEF shlink, shurly
  <1>2. MovingTypeOK'  BY <1>1 DEF MovingInv, MovingTypeOK
  <1>3. SnapshotSound'
    BY <1>1 DEF MovingInv, SnapshotSound
  <1>4. ImportSound'  BY <1>1 DEF MovingInv, ImportSound
  <1>5. ImportedBefore'  BY <1>1 DEF MovingInv, ImportedBefore
  <1>6. MovedSound'  BY <1>1 DEF MovingInv, MovedSound, VisitCode
  <1> QED  BY <1>2, <1>3, <1>4, <1>5, <1>6

LEMMA ExportStops ==
    ASSUME MovingAssumption, MovingInv, export.step # "idle", export' = NoExport,
           UNCHANGED <<shlink, snapshot, shurly, importing, changes>>
    PROVE  MovingInv'
  <1>1. /\ export'.step = "idle" /\ export'.entries = <<>> /\ export'.found = <<>> /\ export'.gaps = {} /\ export'.owed = {}
        /\ export'.pending = <<>>
    BY DEF NoExport
  <1>2. export' \in Exports  BY NoExportIs
  <1>3. MovingTypeOK' /\ SnapshotSound' /\ ImportSound' /\ ImportedBefore' /\ MovedSound'
    BY <1>1, <1>2, ExportGoesOn
  <1>4. ListSound' /\ CollapseSound' /\ LinksSound' /\ RecoverSound'
    BY <1>1 DEF ListSound, CollapseSound, LinksSound, RecoverSound
  <1> QED  BY <1>3, <1>4 DEF MovingInv

LEMMA StartExportKeeps ==
    ASSUME MovingAssumption, MovingInv, StartExport
    PROVE  MovingInv'
  <1>1. PICK v \in BOOLEAN : export' = [NoExport EXCEPT !.step = "list", !.until = second, !.visits = v,
                                                        !.stayed = held]
    BY DEF StartExport
  <1>2. /\ UNCHANGED <<second, held, theirVisits, ourLink, moved, own, imported, importing, changes>>
        /\ importing = Absent /\ snapshot' = Absent
    BY DEF StartExport, shlink, shurly
  <1>3. second \in Seconds /\ held \in SUBSET ShlinkRows  BY DEF MovingInv, MovingTypeOK
  <1>4. NoExport \in Exports  BY NoExportIs
  <1>5. export' \in Exports  BY <1>1, <1>3, <1>4 DEF Exports
  <1>6. /\ export'.step = "list" /\ export'.until = second /\ export'.stayed = held
        /\ export'.page = 1 /\ export'.listed = <<>> /\ export'.counts = {}
        /\ export'.made = FALSE /\ export'.gone = FALSE
        /\ export'.entries = <<>> /\ export'.found = <<>> /\ export'.gaps = {} /\ export'.owed = {} /\ export'.pending = <<>>
    BY <1>1 DEF NoExport
  <1>7. MovingTypeOK'  BY <1>2, <1>5 DEF MovingInv, MovingTypeOK
  <1>8. ListSound'
    BY <1>2, <1>6 DEF ListSound
  <1>9. CollapseSound' /\ LinksSound' /\ RecoverSound'
    BY <1>6 DEF CollapseSound, LinksSound, RecoverSound
  <1>10. SnapshotSound' /\ ImportSound'  BY <1>2 DEF SnapshotSound, ImportSound
  <1>11. ImportedBefore'
    <2>1. \A c \in Codes : imported[c] <= second  BY DEF MovingInv, ImportedBefore
    <2>2. second <= second  BY <1>3, TheConstants
    <2> QED  BY <1>2, <1>6, <2>1, <2>2 DEF ImportedBefore
  <1>12. MovedSound'  BY <1>2 DEF MovingInv, MovedSound, VisitCode
  <1> QED  BY <1>7, <1>8, <1>9, <1>10, <1>11, <1>12 DEF MovingInv

LEMMA ListPageKeeps ==
    ASSUME MovingAssumption, MovingInv, ListPage
    PROVE  MovingInv'
  <1> DEFINE p      == export.page
             n      == Cardinality(held)
             brings == Listed(p)
             listed == export.listed \o brings
             counts == export.counts \cup {n}
             last   == p >= CountPages(n)
             start  == (p - 1) * ListSize
  <1>1. /\ export.step = "list"
        /\ UNCHANGED <<second, held, theirVisits, snapshot, ourLink, moved, own, imported, importing, changes>>
        /\ UNCHANGED <<shlink, snapshot, shurly, importing, changes>>
    BY DEF ListPage, shlink, shurly
  <1>2. export' = IF ~last THEN [export EXCEPT !.listed = listed, !.counts = counts, !.page = @ + 1]
                  ELSE IF Counts(counts, Len(listed))
                  THEN [export EXCEPT !.listed = listed, !.step = "collapse"]
                  ELSE NoExport
    BY DEF ListPage
  <1>3. MovingTypeOK /\ ListSound /\ LinksSound /\ RecoverSound  BY DEF MovingInv
  <1>4. /\ export \in Exports /\ p \in Nat \ {0} /\ export.listed \in Seq(Items)
        /\ export.counts \in SUBSET Nat /\ export.stayed \in SUBSET ShlinkRows
        /\ export.made \in BOOLEAN /\ export.gone \in BOOLEAN
    BY <1>3, ExportIs
  <1>5. /\ n \in Nat /\ start \in Nat /\ p * ListSize \in Nat /\ start + ListSize = p * ListSize
        /\ brings \in Seq(Items)
        /\ start <= n => Len(brings) = (IF p * ListSize < n THEN p * ListSize ELSE n) - start
        /\ \A i \in 1 .. Len(brings) : brings[i].row = Ordered(held)[start + i]
    BY <1>3, <1>4, ListedIs
  <1>6. /\ p >= CountPages(n) => n <= p * ListSize
        /\ p < CountPages(n) => p * ListSize < n
        /\ CountPages(n) \in Int
    <2>1. ListSize \in Nat /\ ListSize > 0 /\ p \in Nat  BY <1>4, TheConstants
    <2>2. CountPages(n) \in Int
      <3> HIDE DEF n
      <3> QED  BY <1>5, <2>1 DEF CountPages
    <2> QED  BY <1>5, <2>1, <2>2, PageReaches
  <1> HIDE DEF brings
  <1>7. /\ listed \in Seq(Items) /\ Len(listed) = Len(export.listed) + Len(brings) /\ Len(listed) \in Nat
        /\ Len(export.listed) \in Nat /\ Len(brings) \in Nat
        /\ \A i \in 1 .. Len(export.listed) + Len(brings) :
              listed[i] = IF i <= Len(export.listed) THEN export.listed[i] ELSE brings[i - Len(export.listed)]
    BY <1>4, <1>5, ConcatProperties, LenProperties
  <1>8. ~export.made /\ ~export.gone =>
          /\ counts = {n}
          /\ Len(export.listed) = start
          /\ start <= n
          /\ \A i \in DOMAIN listed : listed[i].row = Ordered(held)[i]
    <2> SUFFICES ASSUME ~export.made /\ ~export.gone
                 PROVE  /\ counts = {n} /\ Len(export.listed) = start /\ start <= n
                        /\ \A i \in DOMAIN listed : listed[i].row = Ordered(held)[i]
      OBVIOUS
    <2>1. CASE p = 1
      <3>1. export.listed = <<>> /\ export.counts = {}  BY <1>1, <1>3, <2>1 DEF ListSound
      <3>2. start = 0  BY <2>1, TheConstants
      <3>3. Len(export.listed) = 0  BY <3>1
      <3>4. counts = {n}  BY <3>1
      <3>5. \A i \in DOMAIN listed : listed[i].row = Ordered(held)[i]
        <4> HIDE DEF listed, start
        <4> SUFFICES ASSUME NEW i \in DOMAIN listed PROVE listed[i].row = Ordered(held)[i]  OBVIOUS
        <4>1. i \in 1 .. Len(brings) /\ ~(i <= Len(export.listed))  BY <1>7, <3>3
        <4>2. i - Len(export.listed) = i /\ start + i = i  BY <3>2, <3>3, <4>1
        <4> QED  BY <1>5, <1>7, <3>3, <4>1, <4>2
      <3> QED  BY <1>5, <3>2, <3>3, <3>4, <3>5
    <2>2. CASE p > 1
      <3>1. /\ export.counts = {n} /\ Len(export.listed) = start /\ Len(export.listed) < n
            /\ \A i \in DOMAIN export.listed : export.listed[i].row = Ordered(held)[i]
        BY <1>1, <1>3, <2>2 DEF ListSound
      <3>2. counts = {n}  BY <3>1
      <3>3. \A i \in DOMAIN listed : listed[i].row = Ordered(held)[i]
        <4> HIDE DEF listed, start
        <4> SUFFICES ASSUME NEW i \in DOMAIN listed PROVE listed[i].row = Ordered(held)[i]  OBVIOUS
        <4>1. i \in 1 .. Len(export.listed) + Len(brings) /\ i \in Nat  BY <1>7
        <4>2. CASE i <= Len(export.listed)
          <5>1. i \in DOMAIN export.listed  BY <1>4, <4>1, <4>2
          <5> QED  BY <1>7, <3>1, <4>1, <4>2, <5>1
        <4>3. CASE ~(i <= Len(export.listed))
          <5>1. i - Len(export.listed) \in 1 .. Len(brings) /\ start + (i - Len(export.listed)) = i
            BY <1>5, <1>7, <3>1, <4>1, <4>3
          <5>2. brings[i - Len(export.listed)].row = Ordered(held)[i]  BY <1>5, <5>1
          <5> QED  BY <1>7, <4>1, <4>3, <5>2
        <4> QED  BY <4>2, <4>3
      <3> QED  BY <1>5, <3>1, <3>2, <3>3
    <2> QED  BY <1>4, <2>1, <2>2
  <1>9. (export.made /\ ~export.gone) => \E m \in export.counts : m < n
    BY <1>1, <1>3, <1>4 DEF ListSound
  <1>10. (export.gone /\ ~export.made) => \E m \in export.counts : m > n
    BY <1>1, <1>3, <1>4 DEF ListSound
  <1>11. /\ export.entries = <<>> /\ export.found = <<>> /\ export.gaps = {} /\ export.owed = {}
         /\ export.pending = <<>>
    BY <1>1, <1>3 DEF RecoverSound, LinksSound
  <1>12. export.stayed \subseteq held  BY <1>1, <1>3 DEF ListSound
  <1> HIDE DEF listed
  <1>13. CASE ~last
    <2>1. export' = [export EXCEPT !.listed = listed, !.counts = counts, !.page = @ + 1]
      BY <1>2, <1>13
    <2>2. p + 1 \in Nat \ {0} /\ p + 1 > 1 /\ p + 1 # 1 /\ p + 1 - 1 = p  BY <1>4
    <2>3. counts \in SUBSET Nat  BY <1>4, <1>5
    <2>4. export' \in Exports
      <3> HIDE DEF counts
      <3> QED  BY <1>4, <1>7, <2>1, <2>2, <2>3 DEF Exports
    <2>5. /\ export'.step = "list" /\ export'.listed = listed /\ export'.counts = counts /\ export'.page = p + 1
          /\ export'.made = export.made /\ export'.gone = export.gone /\ export'.stayed = export.stayed
          /\ export'.until = export.until
          /\ export'.entries = <<>> /\ export'.found = <<>> /\ export'.gaps = {} /\ export'.owed = {} /\ export'.pending = <<>>
      BY <1>1, <1>4, <1>11, <2>1 DEF Exports
    <2>6. ~export.made /\ ~export.gone => Len(listed) = p * ListSize /\ Len(listed) < n
      <3>1. p * ListSize < n  BY <1>4, <1>6, <1>13
      <3> HIDE DEF n, start, last
      <3> QED  BY <1>5, <1>7, <1>8, <3>1
    <2>7. ListSound'
      <3>1. held' = held  BY <1>1
      <3>2. Ordered(held)' = Ordered(held)  BY <3>1 DEF Ordered, Sorted, ByCode
      <3> HIDE DEF counts, start, last
      <3>3. \E m \in counts : m = n  BY DEF counts
      <3>4. (export.made /\ ~export.gone) => \E m \in counts : m < n  BY <1>9 DEF counts
      <3>5. (export.gone /\ ~export.made) => \E m \in counts : m > n  BY <1>10 DEF counts
      <3>6. (~export'.made /\ ~export'.gone) =>
              /\ export'.counts = {Cardinality(held')}
              /\ Len(export'.listed) = (export'.page - 1) * ListSize
              /\ Len(export'.listed) < Cardinality(held')
              /\ \A i \in DOMAIN export'.listed : export'.listed[i].row = Ordered(held)'[i]
        <4>1. export'.page - 1 = p
          <5>1. export'.page = p + 1 /\ p \in Nat  BY <1>4, <2>5
          <5> HIDE DEF p
          <5> QED  BY <5>1
        <4>2. (export'.page - 1) * ListSize = p * ListSize  BY <4>1
        <4>3. Cardinality(held') = n  BY <3>1
        <4> HIDE DEF n, p
        <4>4. Len(export'.listed) = Len(listed) /\ DOMAIN export'.listed = DOMAIN listed  BY <2>5
        <4> SUFFICES ASSUME ~export.made, ~export.gone
                     PROVE  /\ export'.counts = {Cardinality(held')}
                            /\ Len(export'.listed) = (export'.page - 1) * ListSize
                            /\ Len(export'.listed) < Cardinality(held')
                            /\ \A i \in DOMAIN export'.listed : export'.listed[i].row = Ordered(held)'[i]
          BY <2>5
        <4>5. export'.counts = {Cardinality(held')}  BY <1>8, <2>5, <4>3
        <4>6. Len(export'.listed) = (export'.page - 1) * ListSize  BY <2>6, <4>2, <4>4
        <4>7. Len(export'.listed) < Cardinality(held')  BY <2>6, <4>3, <4>4
        <4>8. \A i \in DOMAIN export'.listed : export'.listed[i].row = Ordered(held)'[i]
          BY <1>8, <2>5, <3>2
        <4> QED  BY <4>5, <4>6, <4>7, <4>8
      <3>7. /\ (export'.made /\ ~export'.gone) => \E m \in export'.counts : m < Cardinality(held')
            /\ (export'.gone /\ ~export'.made) => \E m \in export'.counts : m > Cardinality(held')
        BY <2>5, <3>1, <3>4, <3>5
      <3>8. export'.stayed \subseteq held' /\ export'.page # 1  BY <1>12, <2>2, <2>5, <3>1
      <3> QED  BY <3>6, <3>7, <3>8 DEF ListSound
    <2>8. CollapseSound' /\ LinksSound' /\ RecoverSound'
      BY <2>5 DEF CollapseSound, LinksSound, RecoverSound
    <2>9. MovingTypeOK' /\ SnapshotSound' /\ ImportSound' /\ ImportedBefore' /\ MovedSound'
      BY <1>1, <2>4, <2>5, ExportGoesOn
    <2> QED  BY <2>7, <2>8, <2>9 DEF MovingInv
  <1>14. CASE last /\ Counts(counts, Len(listed))
    <2>1. export' = [export EXCEPT !.listed = listed, !.step = "collapse"]
      BY <1>2, <1>14
    <2>2. counts = {Len(listed)}  BY <1>14 DEF Counts
    <2>3. export' \in Exports  BY <1>4, <1>7, <2>1 DEF Exports
    <2>4. /\ export'.step = "collapse" /\ export'.listed = listed
          /\ export'.made = export.made /\ export'.gone = export.gone /\ export'.stayed = export.stayed
          /\ export'.until = export.until
          /\ export'.entries = <<>> /\ export'.found = <<>> /\ export'.gaps = {} /\ export'.owed = {} /\ export'.pending = <<>>
      BY <1>4, <1>11, <2>1 DEF Exports
    <2>5. CollapseSound'
      <3> SUFFICES ASSUME ~(export.made /\ export.gone), NEW r \in export.stayed
                   PROVE  \E i \in DOMAIN listed : listed[i].row = r
        BY <2>4 DEF CollapseSound
      <3>1. n = Len(listed)  BY <2>2
      <3>2. \A m \in export.counts : m = n  BY <2>2, <3>1
      <3>3. ~export.made /\ ~export.gone
        <4> HIDE DEF n
        <4> QED  BY <1>4, <1>5, <1>9, <1>10, <3>2
      <3>4. \A i \in DOMAIN listed : listed[i].row = Ordered(held)[i]  BY <1>8, <3>3
      <3>5. /\ ToSet(Ordered(held)) = held /\ DOMAIN Ordered(held) = 1 .. n
        BY <1>3, OrderedIs DEF Lists, MovingTypeOK
      <3>6. PICK i \in 1 .. n : Ordered(held)[i] = r
        BY <1>12, <3>5 DEF ToSet
      <3>7. DOMAIN listed = 1 .. n  BY <1>7, <3>1
      <3> QED  BY <3>4, <3>6, <3>7
    <2>6. ListSound' /\ LinksSound' /\ RecoverSound'
      BY <2>4 DEF ListSound, LinksSound, RecoverSound
    <2>7. MovingTypeOK' /\ SnapshotSound' /\ ImportSound' /\ ImportedBefore' /\ MovedSound'
      BY <1>1, <2>3, <2>4, ExportGoesOn
    <2> QED  BY <2>5, <2>6, <2>7 DEF MovingInv
  <1>15. CASE last /\ ~Counts(counts, Len(listed))
    <2>1. export' = NoExport  BY <1>2, <1>15
    <2> QED  BY <1>1, <2>1, ExportStops
  <1> QED  BY <1>13, <1>14, <1>15

\* The first of each link's copies, in their order: each link listed is there, once.
LEMMA FirstOfTheCopies ==
    ASSUME MovingAssumption, MovingTypeOK
    PROVE  /\ FirstCopies \in Seq(Items)
           /\ \A i, j \in DOMAIN FirstCopies :
                 CodeOf[FirstCopies[i].row] = CodeOf[FirstCopies[j].row] => i = j
           /\ \A k \in DOMAIN export.listed : \E i \in DOMAIN FirstCopies :
                 CodeOf[FirstCopies[i].row] = CodeOf[export.listed[k].row]
  <1> DEFINE first == {i \in DOMAIN export.listed : \A j \in Copies(CodeAt(i)) : i <= j}
             order == Sorted(first, <)
             firsts == [i \in DOMAIN order |-> export.listed[order[i]]]
  <1>0. FirstCopies = firsts  BY DEF FirstCopies
  <1> HIDE DEF order
  <1>1. export.listed \in Seq(Items)  BY ExportIs
  <1>2. Len(export.listed) \in Nat /\ DOMAIN export.listed = 1 .. Len(export.listed)  BY <1>1
  <1>3. first \in SUBSET DOMAIN export.listed /\ first \in SUBSET Nat  BY <1>2
  <1> HIDE DEF first
  <1>4. IsFiniteSet(first)
    <2>1. IsFiniteSet(DOMAIN export.listed)  BY <1>2, FS_Interval
    <2> QED  BY <1>3, <2>1, FS_Subset
  <1>5. Lists(order, first)  BY <1>3, <1>4, PlacesInOrder DEF order
  <1>6. /\ DOMAIN order = 1 .. Len(order) /\ Len(order) \in Nat /\ ToSet(order) = first /\ EachOnce(order)
        /\ \A i \in DOMAIN order : order[i] \in first
    BY <1>5 DEF Lists, ToSet
  <1>7. \A k \in DOMAIN export.listed : export.listed[k] \in Items  BY <1>1, <1>2
  <1>8. firsts \in Seq(Items) /\ DOMAIN firsts = DOMAIN order
    <2>1. \A i \in 1 .. Len(order) : export.listed[order[i]] \in Items  BY <1>3, <1>6, <1>7
    <2> QED  BY <1>6, <2>1
  <1>9. ASSUME NEW i \in DOMAIN order, NEW j \in DOMAIN order,
               CodeOf[export.listed[order[i]].row] = CodeOf[export.listed[order[j]].row]
        PROVE  i = j
    <2>1. order[i] \in first /\ order[j] \in first  BY <1>6
    <2>2. order[i] \in Copies(CodeAt(order[j])) /\ order[j] \in Copies(CodeAt(order[i]))
      BY <1>3, <1>9, <2>1 DEF Copies, CodeAt
    <2>3. order[i] <= order[j] /\ order[j] <= order[i]  BY <2>1, <2>2 DEF first
    <2>4. order[i] = order[j]  BY <1>3, <2>1, <2>3
    <2> QED  BY <1>6, <2>4 DEF EachOnce
  <1>10. ASSUME NEW k \in DOMAIN export.listed
         PROVE  \E i \in DOMAIN order :
                   CodeOf[export.listed[order[i]].row] = CodeOf[export.listed[k].row]
    <2> DEFINE copies == Copies(CodeAt(k))
    <2>1. copies \in SUBSET Nat /\ k \in copies  BY <1>2 DEF Copies
    <2> HIDE DEF copies
    <2>2. PICK i \in copies : \A j \in copies : i <= j  BY <2>1, FirstPosition
    <2>3. i \in DOMAIN export.listed /\ CodeAt(i) = CodeAt(k)  BY <2>2 DEF copies, Copies
    <2>4. i \in first  BY <2>2, <2>3 DEF copies, first
    <2>5. PICK m \in DOMAIN order : order[m] = i  BY <1>6, <2>4 DEF ToSet
    <2> QED  BY <2>3, <2>5 DEF CodeAt
  <1>11. \A i \in DOMAIN firsts : firsts[i] = export.listed[order[i]]  BY <1>8
  <1> HIDE DEF firsts
  <1> QED
    BY <1>0, <1>8, <1>9, <1>10, <1>11

LEMMA CollapseKeeps ==
    ASSUME MovingAssumption, MovingInv, Collapse
    PROVE  MovingInv'
  <1> DEFINE firsts   == FirstCopies
             differs == \E c \in Repeated : Differing(c) \/ Holds(c) # Cardinality(Copies(c))
  <1>1. /\ export.step = "collapse"
        /\ UNCHANGED <<second, held, theirVisits, snapshot, ourLink, moved, own, imported, importing, changes>>
        /\ UNCHANGED <<shlink, snapshot, shurly, importing, changes>>
    BY DEF Collapse, shlink, shurly
  <1>2. export' = IF differs THEN NoExport
                  ELSE [export EXCEPT !.step = "visits", !.listed = <<>>, !.counts = {}, !.page = 1,
                                      !.links = firsts]
    BY DEF Collapse
  <1>3. MovingTypeOK /\ CollapseSound /\ LinksSound /\ RecoverSound  BY DEF MovingInv
  <1>4. /\ firsts \in Seq(Items)
        /\ \A i, j \in DOMAIN firsts : CodeOf[firsts[i].row] = CodeOf[firsts[j].row] => i = j
        /\ \A k \in DOMAIN export.listed : \E i \in DOMAIN firsts :
              CodeOf[firsts[i].row] = CodeOf[export.listed[k].row]
    BY <1>3, FirstOfTheCopies
  <1>5. /\ export.entries = <<>> /\ export.found = <<>> /\ export.gaps = {} /\ export.owed = {}
        /\ export.pending = <<>>
    BY <1>1, <1>3 DEF RecoverSound, LinksSound
  <1> HIDE DEF firsts, differs
  <1>6. CASE differs
    <2>1. export' = NoExport  BY <1>2, <1>6
    <2> QED  BY <1>1, <2>1, ExportStops
  <1>7. CASE ~differs
    <2>1. export' = [export EXCEPT !.step = "visits", !.listed = <<>>, !.counts = {}, !.page = 1,
                                   !.links = firsts]
      BY <1>2, <1>7
    <2>2. export \in Exports  BY <1>3, ExportIs
    <2>3. export' \in Exports
      <3>1. firsts \in Seq(Items)  BY <1>4
      <3> QED  BY <2>1, <2>2, <3>1, NothingYet DEF Exports
    <2>4. /\ export'.step = "visits" /\ export'.links = firsts
          /\ export'.made = export.made /\ export'.gone = export.gone /\ export'.stayed = export.stayed
          /\ export'.until = export.until
          /\ export'.entries = <<>> /\ export'.found = <<>> /\ export'.gaps = {} /\ export'.owed = {}
          /\ export'.pending = <<>>
      BY <1>5, <2>1, <2>2 DEF Exports
    <2>5. LinksSound'
      <3>1. Len(export'.entries) <= Len(export'.links)
        <4>1. Len(export'.entries) = 0  BY <2>4
        <4>2. Len(export'.links) \in Nat  BY <1>4, <2>4, LenProperties
        <4> QED  BY <4>1, <4>2
      <3>2. \A i \in DOMAIN export'.entries : FALSE  BY <2>4
      <3>3. ~(export.made /\ export.gone) =>
               \A r \in export.stayed : \E i \in DOMAIN firsts : CodeOf[firsts[i].row] = CodeOf[r]
        <4> SUFFICES ASSUME ~(export.made /\ export.gone), NEW r \in export.stayed
                     PROVE  \E i \in DOMAIN firsts : CodeOf[firsts[i].row] = CodeOf[r]
          OBVIOUS
        <4>1. PICK k \in DOMAIN export.listed : export.listed[k].row = r
          BY <1>1, <1>3 DEF CollapseSound
        <4> QED  BY <1>4, <4>1
      <3> QED  BY <1>4, <2>4, <3>1, <3>2, <3>3 DEF LinksSound
    <2>6. ListSound' /\ CollapseSound' /\ RecoverSound'
      BY <2>4 DEF ListSound, CollapseSound, RecoverSound
    <2>7. MovingTypeOK' /\ SnapshotSound' /\ ImportSound' /\ ImportedBefore' /\ MovedSound'
      BY <1>1, <2>3, <2>4, ExportGoesOn
    <2> QED  BY <2>5, <2>6, <2>7 DEF MovingInv
  <1> QED  BY <1>6, <1>7

-----------------------------------------------------------------------------
(* The visits of a link.                                                    *)

LEMMA CurrentIs ==
    ASSUME MovingAssumption, MovingTypeOK, Len(export.entries) < Len(export.links)
    PROVE  /\ Len(export.entries) \in Nat /\ Len(export.links) \in Nat
           /\ Len(export.entries) + 1 \in DOMAIN export.links
           /\ Current.row \in ShlinkRows /\ CodeNow \in Codes /\ DestOf[Current.row] \in Dests
  <1>1. export.entries \in Seq(Entries) /\ export.links \in Seq(Items)  BY ExportIs
  <1>2. /\ Len(export.entries) \in Nat /\ Len(export.links) \in Nat
        /\ DOMAIN export.links = 1 .. Len(export.links)
    BY <1>1, LenProperties
  <1>3. Len(export.entries) + 1 \in 1 .. Len(export.links)  BY <1>2
  <1>4. Current \in Items  BY <1>1, <1>3, ElementOfSeq DEF Current
  <1>5. Current.row \in ShlinkRows  BY <1>4 DEF Items
  <1> QED  BY <1>2, <1>3, <1>5, TheConstants DEF CodeNow

\* The row that Shlink finds is of the code it is asked for, and the first such.
LEMMA RowOfIs ==
    ASSUME MovingAssumption, MovingTypeOK, NEW c, Holds(c) > 0
    PROVE  /\ RowOf(c) \in held /\ CodeOf[RowOf(c)] = c
           /\ \A q \in held : CodeOf[q] = c => RowOf(c) <= q
  <1> DEFINE rows == {r \in held : CodeOf[r] = c}
  <1>1. held \in SUBSET Nat  BY TheConstants DEF MovingTypeOK
  <1>2. rows # {}
    <2> SUFFICES ASSUME rows = {} PROVE FALSE  OBVIOUS
    <2>1. Cardinality(rows) = 0  BY FS_EmptySet
    <2> QED  BY <2>1 DEF Holds
  <1>3. rows \in SUBSET Nat  BY <1>1
  <1>4. RowOf(c) = CHOOSE r \in rows : \A q \in rows : r <= q  BY DEF RowOf
  <1> HIDE DEF rows
  <1>5. \E r \in rows : \A q \in rows : r <= q  BY <1>2, <1>3, FirstPosition
  <1>6. RowOf(c) \in rows /\ \A q \in rows : RowOf(c) <= q  BY <1>4, <1>5
  <1> QED  BY <1>6 DEF rows

LEMMA TheVisitsAre ==
    ASSUME MovingAssumption, MovingTypeOK
    PROVE  /\ TheVisits \in SUBSET DOMAIN theirVisits
           /\ \A v \in TheVisits : OfLink(v, CodeNow, export.until, theirVisits)
  <1>1. TheVisits \in SUBSET DOMAIN theirVisits  BY DEF TheVisits
  <1>2. ASSUME NEW v \in TheVisits PROVE OfLink(v, CodeNow, export.until, theirVisits)
    <2>1. /\ Holds(CodeNow) > 0 /\ theirVisits[v].row = RowOf(CodeNow) /\ theirVisits[v].at <= export.until
      BY DEF TheVisits
    <2>2. CodeOf[RowOf(CodeNow)] = CodeNow  BY <2>1, RowOfIs
    <2> QED  BY <1>1, <2>1, <2>2 DEF OfLink, VisitCode
  <1> QED  BY <1>1, <1>2

LEMMA EntryIsAdded ==
    ASSUME MovingAssumption, MovingInv, export.step \in {"visits", "recover"},
           Len(export.entries) < Len(export.links),
           NEW found \in Seq(Nat), NEW gaps \in SUBSET Intervals, NEW owed \in SUBSET Nat,
           EachOnce(found), \A v \in ToSet(found) : OfLink(v, CodeNow, export.until, theirVisits),
           \A v \in owed : v \in DOMAIN theirVisits /\ (v \in ToSet(found) \/ Lost(v, gaps, theirVisits)),
           export' = WithEntry(found, gaps, owed),
           UNCHANGED <<shlink, snapshot, shurly, importing, changes>>
    PROVE  MovingInv'
  <1> DEFINE e == [code |-> CodeNow, dest |-> DestOf[Current.row], found |-> found, gaps |-> gaps, owed |-> owed]
             n == Len(export.entries)
  <1>1. UNCHANGED <<second, held, theirVisits, snapshot, ourLink, moved, own, imported, importing, changes>>
    BY DEF shlink, shurly
  <1>2. MovingTypeOK /\ LinksSound  BY DEF MovingInv
  <1>3. /\ n \in Nat /\ Len(export.links) \in Nat /\ CodeNow \in Codes /\ DestOf[Current.row] \in Dests
    BY <1>2, CurrentIs
  <1>4. e \in Entries  BY <1>3 DEF Entries
  <1>5. export \in Exports /\ export.entries \in Seq(Entries) /\ export.links \in Seq(Items)
    BY <1>2, ExportIs
  <1>6. export' = [export EXCEPT !.step = "visits", !.entries = Append(export.entries, e), !.pending = <<>>,
                                 !.requests = 0, !.found = <<>>, !.gaps = {}, !.owed = {}]
    BY DEF WithEntry
  <1>7. /\ EachOnce(e.found) /\ \A v \in ToSet(e.found) : OfLink(v, e.code, export.until, theirVisits)
        /\ \A v \in e.owed : v \in DOMAIN theirVisits /\ (v \in ToSet(e.found) \/ Lost(v, e.gaps, theirVisits))
        /\ e.code = CodeOf[export.links[n + 1].row]
    BY DEF CodeNow, Current
  <1>8. EntrySound(e, export.until, theirVisits)  BY <1>7 DEF EntrySound
  <1> HIDE DEF e
  <1>9. /\ Append(export.entries, e) \in Seq(Entries) /\ Len(Append(export.entries, e)) = n + 1
        /\ \A i \in 1 .. n : Append(export.entries, e)[i] = export.entries[i]
        /\ Append(export.entries, e)[n + 1] = e
    BY <1>4, <1>5, AppendProperties
  <1>10. export' \in Exports
    <2> DEFINE longer == Append(export.entries, e)
    <2>1. longer \in Seq(Entries)  BY <1>9
    <2>2. export' = [export EXCEPT !.step = "visits", !.entries = longer, !.pending = <<>>, !.requests = 0,
                                   !.found = <<>>, !.gaps = {}, !.owed = {}]
      BY <1>6
    <2> HIDE DEF longer
    <2> DEFINE one   == [export EXCEPT !.step = "visits", !.entries = longer]
               two   == [one EXCEPT !.pending = <<>>, !.requests = 0]
               three == [two EXCEPT !.found = <<>>, !.gaps = {}, !.owed = {}]
    <2>3. one \in Exports  BY <1>5, <2>1 DEF Exports
    <2> HIDE DEF one
    <2>4. two \in Exports  BY <2>3, NothingYet DEF Exports
    <2> HIDE DEF two
    <2>5. three \in Exports  BY <2>4, NothingYet DEF Exports
    <2>6. export' = three  BY <2>2 DEF three, two, one
    <2> QED  BY <2>5, <2>6
  <1>11. /\ export'.step = "visits" /\ export'.entries = Append(export.entries, e)
         /\ export'.links = export.links /\ export'.until = export.until
         /\ export'.made = export.made /\ export'.gone = export.gone /\ export'.stayed = export.stayed
         /\ export'.found = <<>> /\ export'.gaps = {} /\ export'.owed = {} /\ export'.pending = <<>>
    BY <1>5, <1>6 DEF Exports
  <1>12. DOMAIN export.entries = 1 .. n /\ DOMAIN export'.entries = 1 .. n + 1
    BY <1>5, <1>9, <1>11, LenProperties
  <1>13. ASSUME NEW i \in DOMAIN export'.entries
         PROVE  /\ export'.entries[i].code = CodeOf[export'.links[i].row]
                /\ EntrySound(export'.entries[i], export'.until, theirVisits')
    <2>1. /\ EntrySound(export'.entries[i], export.until, theirVisits) /\ export'.entries[i].code = CodeOf[export.links[i].row]
      <3>1. CASE i \in 1 .. n
        <4>1. export'.entries[i] = export.entries[i] /\ i \in DOMAIN export.entries
          BY <1>9, <1>11, <1>12, <3>1
        <4> QED  BY <1>2, <4>1 DEF LinksSound
      <3>2. CASE i = n + 1
        <4>1. export'.entries[i] = e  BY <1>9, <1>11, <3>2
        <4> QED  BY <1>7, <1>8, <3>2, <4>1
      <3> QED  BY <1>3, <1>12, <3>1, <3>2
    <2> QED  BY <1>1, <1>11, <2>1 DEF EntrySound
  <1>14. LinksSound'
    <2>1. Len(export'.entries) <= Len(export'.links)
      <3>1. n + 1 <= Len(export.links)  BY <1>3
      <3> QED  BY <1>9, <1>11, <3>1
    <2>2. \A i, j \in DOMAIN export'.links :
             CodeOf[export'.links[i].row] = CodeOf[export'.links[j].row] => i = j
      BY <1>2, <1>11 DEF LinksSound
    <2>3. ~(export'.made /\ export'.gone) => \A r \in export'.stayed :
             \E i \in DOMAIN export'.links : CodeOf[export'.links[i].row] = CodeOf[r]
      BY <1>2, <1>11 DEF LinksSound
    <2> QED  BY <1>11, <1>13, <2>1, <2>2, <2>3 DEF LinksSound
  <1>15. ListSound' /\ CollapseSound' /\ RecoverSound'
    BY <1>11 DEF ListSound, CollapseSound, RecoverSound
  <1>16. MovingTypeOK' /\ SnapshotSound' /\ ImportSound' /\ ImportedBefore' /\ MovedSound'
    BY <1>1, <1>10, <1>11, ExportGoesOn
  <1> QED  BY <1>14, <1>15, <1>16 DEF MovingInv

\* A step of the recovery leaves what was listed.
LEMMA RecoveryGoesOn ==
    ASSUME MovingAssumption, MovingInv, export.step \in {"visits", "recover"},
           export' \in Exports, export'.step = "recover",
           export'.links = export.links, export'.entries = export.entries, export'.until = export.until,
           export'.made = export.made, export'.gone = export.gone, export'.stayed = export.stayed,
           RecoverSound',
           UNCHANGED <<shlink, snapshot, shurly, importing, changes>>
    PROVE  MovingInv'
  <1>1. UNCHANGED <<second, held, theirVisits, snapshot, ourLink, moved, own, imported, importing, changes>>
    BY DEF shlink, shurly
  <1>2. ListSound' /\ CollapseSound'  BY DEF ListSound, CollapseSound
  <1>3. LinksSound'
    <2>1. LinksSound  BY DEF MovingInv
    <2>2. \A i \in DOMAIN export'.entries :
             /\ export'.entries[i].code = CodeOf[export'.links[i].row]
             /\ EntrySound(export'.entries[i], export'.until, theirVisits')
      BY <1>1, <2>1 DEF LinksSound
    <2> QED  BY <2>1, <2>2 DEF LinksSound
  <1>4. MovingTypeOK' /\ SnapshotSound' /\ ImportSound' /\ ImportedBefore' /\ MovedSound'
    BY <1>1, ExportGoesOn
  <1> QED  BY <1>2, <1>3, <1>4 DEF MovingInv

\* What is visited next depends on what was listed, and on what Shlink holds.
LEMMA CurrentStays ==
    ASSUME export'.links = export.links, export'.entries = export.entries, export'.until = export.until,
           UNCHANGED <<held, theirVisits>>
    PROVE  CodeNow' = CodeNow /\ TheVisits' = TheVisits
  <1>1. CodeNow' = CodeNow  BY DEF CodeNow, Current
  <1> QED  BY <1>1 DEF TheVisits, Holds, RowOf

LEMMA ListVisitsOfKeeps ==
    ASSUME MovingAssumption, MovingInv, ListVisitsOf
    PROVE  MovingInv'
  <1> DEFINE vs == TheVisits
  <1>1. /\ export.step = "visits" /\ Len(export.entries) < Len(export.links)
        /\ UNCHANGED <<shlink, snapshot, shurly, importing, changes>>
    BY DEF ListVisitsOf
  <1>2. MovingTypeOK /\ LinksSound /\ RecoverSound  BY DEF MovingInv
  <1>3. vs \in SUBSET DOMAIN theirVisits /\ \A v \in vs : OfLink(v, CodeNow, export.until, theirVisits)
    BY <1>2, TheVisitsAre
  <1>4. vs \in SUBSET Nat  BY <1>2, <1>3, TheirVisitsAre
  <1> HIDE DEF vs
  <1>5. CASE export' = WithEntry(<<>>, {}, {})
    <2> DEFINE none == <<>>
               nil  == {}
    <2>1. /\ none \in Seq(Nat) /\ nil \in SUBSET Intervals /\ nil \in SUBSET Nat
          /\ EachOnce(none) /\ \A v : v \notin ToSet(none) /\ v \notin nil
      BY NothingYet DEF EachOnce, ToSet
    <2>2. export' = WithEntry(none, nil, nil)  BY <1>5
    <2> HIDE DEF none, nil
    <2> QED  BY <1>1, <2>1, <2>2, EntryIsAdded
  <1>6. CASE export' = NoExport
    BY <1>1, <1>6, ExportStops
  <1>7. CASE export' = WithEntry(LatestFirst(TheVisits), {}, TheVisits)
    <2> DEFINE found == LatestFirst(vs)
               nil   == {}
    <2>1. Lists(found, vs)  BY <1>2, <1>3, LatestFirstIs
    <2>2. export' = WithEntry(found, nil, vs)  BY <1>7 DEF vs
    <2> HIDE DEF found
    <2>3. found \in Seq(Nat) /\ EachOnce(found) /\ ToSet(found) = vs
      BY <1>4, <2>1, SeqMonotonic DEF Lists
    <2>4. nil \in SUBSET Intervals  OBVIOUS
    <2> HIDE DEF nil
    <2> QED  BY <1>1, <1>3, <1>4, <2>2, <2>3, <2>4, EntryIsAdded
  <1>8. CASE export' = [export EXCEPT !.step = "recover", !.owed = TheVisits,
                                      !.pending = <<[start |-> 0, end |-> export.until]>>]
    <2> DEFINE range == [start |-> 0, end |-> export.until]
               only  == <<range>>
    <2>1. export \in Exports /\ export.until \in Nat  BY <1>2, ExportIs, TheConstants
    <2>2. range \in Intervals /\ range.start = 0 /\ range.end = export.until  BY <2>1 DEF Intervals
    <2> HIDE DEF range
    <2>3. only \in Seq(Intervals) /\ Len(only) = 1 /\ DOMAIN only = {1} /\ only[1] = range  BY <2>2
    <2>4. export' = [export EXCEPT !.step = "recover", !.owed = vs, !.pending = only]
      BY <1>8 DEF vs, range
    <2> HIDE DEF only
    <2>5. export' \in Exports  BY <1>4, <2>1, <2>3, <2>4 DEF Exports
    <2>6. /\ export'.step = "recover" /\ export'.pending = only /\ export'.owed = vs
          /\ export'.found = export.found /\ export'.gaps = export.gaps
          /\ export'.links = export.links /\ export'.entries = export.entries
          /\ export'.until = export.until
          /\ export'.made = export.made /\ export'.gone = export.gone /\ export'.stayed = export.stayed
      BY <2>1, <2>4 DEF Exports
    <2>7. UNCHANGED <<held, theirVisits>>  BY <1>1 DEF shlink
    <2>8. CodeNow' = CodeNow /\ TheVisits' = vs  BY <2>6, <2>7, CurrentStays DEF vs
    <2>9. export.found = <<>>  BY <1>1, <1>2 DEF RecoverSound
    <2>10. EachOnce(export'.found) /\ \A v : v \notin ToSet(export'.found)
      BY <2>6, <2>9 DEF EachOnce, ToSet
    <2>11. \A v \in vs : v \in TheVisits' /\ InRange(v, only[1], theirVisits')
      <3>1. \A v \in vs : theirVisits[v].at \in Nat /\ theirVisits[v].at <= export.until
        BY <1>2, <1>3, TheirVisitsAre DEF OfLink
      <3> QED  BY <2>1, <2>2, <2>3, <2>7, <2>8, <3>1 DEF InRange
    <2>12. RecoverSound'
      <3>1. \A i \in DOMAIN export'.pending : i = 1 /\ export'.pending[i].end <= export'.until
        BY <2>1, <2>2, <2>3, <2>6
      <3>2. \A i, j \in DOMAIN export'.pending : ~(i < j)  BY <3>1
      <3>3. Len(export'.entries) < Len(export'.links)  BY <1>1, <2>6
      <3>4. \A v \in export'.owed : v \in TheVisits' /\ \E i \in DOMAIN export'.pending : InRange(v, export'.pending[i], theirVisits')
        <4>1. 1 \in DOMAIN export'.pending  BY <2>3, <2>6
        <4> QED  BY <2>6, <2>11, <4>1 DEF InRange
      <3> QED  BY <2>6, <2>10, <3>1, <3>2, <3>3, <3>4 DEF RecoverSound
    <2> QED  BY <1>1, <2>5, <2>6, <2>12, RecoveryGoesOn
  <1> QED  BY <1>5, <1>6, <1>7, <1>8 DEF ListVisitsOf

\* What a listing takes is a number.
LEMMA AsksAre ==
    ASSUME MovingAssumption, MovingTypeOK, NEW vs \in SUBSET DOMAIN theirVisits
    PROVE  Asks(vs) \in Nat /\ OneByOne(vs) \in Nat
  <1>1. ASSUME NEW n \in Nat PROVE CountPages(n) \in Nat
    <2>1. ListSize \in Nat /\ ListSize > 0  BY TheConstants
    <2>2. CountPages(n) \in Int  BY <2>1 DEF CountPages
    <2>3. ~(CountPages(n) < 0)
      <3> SUFFICES ASSUME CountPages(n) < 0 PROVE FALSE  OBVIOUS
      <3>1. n <= 0 * ListSize  BY <2>2, PageReaches
      <3>2. n + ListSize - 1 >= 0  BY <2>1
      <3> QED  BY <2>1, <3>2 DEF CountPages
    <2> QED  BY <2>2, <2>3
  <1> DEFINE all == LatestFirst(vs)
             bad == {i \in DOMAIN all : ~Serializable(all[i])}
  <1>2. Lists(all, vs)  BY LatestFirstIs
  <1>3. DOMAIN all \in SUBSET Nat /\ Len(all) \in Nat /\ Cardinality(vs) \in Nat
    BY <1>2 DEF Lists
  <1>4. Asks(vs) = IF bad # {} THEN CountPages(CHOOSE i \in bad : \A j \in bad : i <= j)
                   ELSE IF vs = {} THEN 1 ELSE CountPages(Len(all))
    BY DEF Asks
  <1> HIDE DEF all
  <1>5. bad \in SUBSET Nat  BY <1>3
  <1> HIDE DEF bad
  <1>6. bad # {} => (CHOOSE i \in bad : \A j \in bad : i <= j) \in Nat
    <2> SUFFICES ASSUME bad # {} PROVE (CHOOSE i \in bad : \A j \in bad : i <= j) \in Nat  OBVIOUS
    <2>1. \E i \in bad : \A j \in bad : i <= j  BY <1>5, FirstPosition
    <2>2. (CHOOSE i \in bad : \A j \in bad : i <= j) \in bad  BY <2>1
    <2> QED  BY <1>5, <2>2
  <1>7. Asks(vs) \in Nat  BY <1>1, <1>3, <1>4, <1>6
  <1>8. OneByOne(vs) \in Nat  BY <1>3 DEF OneByOne
  <1> QED  BY <1>7, <1>8

LEMMA PendingIs ==
    ASSUME MovingAssumption, MovingTypeOK, export.pending # <<>>
    PROVE  LET n == Len(export.pending)
           IN  /\ n \in Nat /\ n >= 1 /\ DOMAIN export.pending = 1 .. n
               /\ Last(export.pending) = export.pending[n] /\ export.pending[n] \in Intervals
               /\ \A i \in 1 .. n : export.pending[i].start \in Nat /\ export.pending[i].end \in Nat
               /\ Front(export.pending) \in Seq(Intervals) /\ Len(Front(export.pending)) = n - 1
               /\ DOMAIN Front(export.pending) = 1 .. n - 1
               /\ \A i \in 1 .. n - 1 : Front(export.pending)[i] = export.pending[i]
  <1> DEFINE p == export.pending
             n == Len(p)
  <1>1. p \in Seq(Intervals) /\ p # <<>>  BY ExportIs
  <1> HIDE DEF p
  <1>2. n \in Nat \ {0} /\ DOMAIN p = 1 .. n  BY <1>1, EmptySeq, LenProperties
  <1>3. \A i \in 1 .. n : p[i] \in Intervals  BY <1>1, ElementOfSeq
  <1>4. \A i \in 1 .. n : p[i].start \in Nat /\ p[i].end \in Nat  BY <1>3 DEF Intervals
  <1>5. Last(p) = p[n]  BY DEF Last
  <1>6. Front(p) = SubSeq(p, 1, n - 1)  BY DEF Front
  <1>7. /\ SubSeq(p, 1, n - 1) \in Seq(Intervals)
        /\ Len(SubSeq(p, 1, n - 1)) = (IF 1 <= n - 1 THEN n - 1 - 1 + 1 ELSE 0)
        /\ \A i \in 1 .. n - 1 - 1 + 1 : SubSeq(p, 1, n - 1)[i] = p[1 + i - 1]
    <2> DEFINE m == n - 1
    <2>1. m \in Int /\ \A i \in 1 .. m : p[i] \in Intervals  BY <1>2, <1>3
    <2> HIDE DEF m, n
    <2>2. /\ SubSeq(p, 1, m) \in Seq(Intervals)
          /\ Len(SubSeq(p, 1, m)) = (IF 1 <= m THEN m - 1 + 1 ELSE 0)
          /\ \A i \in 1 .. m - 1 + 1 : SubSeq(p, 1, m)[i] = p[1 + i - 1]
      BY <2>1, SubSeqProperties
    <2> QED  BY <2>2 DEF m
  <1> DEFINE f == SubSeq(p, 1, n - 1)
  <1> HIDE DEF n
  <1>8. Len(f) = n - 1  BY <1>2, <1>7
  <1>9. \A i \in 1 .. n - 1 : f[i] = p[i]
    <2> SUFFICES ASSUME NEW i \in 1 .. n - 1 PROVE f[i] = p[i]  OBVIOUS
    <2>1. i \in 1 .. n - 1 - 1 + 1 /\ 1 + i - 1 = i  BY <1>2
    <2>2. f[i] = p[1 + i - 1]  BY <1>7, <2>1
    <2> QED  BY <2>1, <2>2
  <1>10. DOMAIN f = 1 .. n - 1
    <2>1. f \in Seq(Intervals)  BY <1>7
    <2> HIDE DEF f
    <2> QED  BY <1>8, <2>1, LenProperties
  <1> HIDE DEF f
  <1>11. Front(p) = f  BY <1>6 DEF f
  <1>12. f \in Seq(Intervals)  BY <1>7 DEF f
  <1> QED  BY <1>2, <1>3, <1>4, <1>5, <1>8, <1>9, <1>10, <1>11, <1>12 DEF n, p

\* The visits of a range that can be told.
LEMMA DuringIs ==
    ASSUME NEW vs, NEW range
    PROVE  /\ During(vs, range) \in SUBSET vs /\ OneSecond(During(vs, range)) \in SUBSET During(vs, range)
           /\ \A v \in vs : v \in During(vs, range) <=> InRange(v, range, theirVisits)
  BY DEF During, OneSecond, InRange

\* The last range is done with: its visits were found, or it is lost.
LEMMA RangeIsDone ==
    ASSUME MovingAssumption, MovingInv, Recovering, NEW ws, NEW F \in Seq(Nat),
           ws \in SUBSET During(TheVisits, Last(export.pending)), Lists(F, ws),
           export'.step = "recover", export'.entries = export.entries, export'.links = export.links,
           export'.until = export.until, export'.owed = export.owed,
           export'.pending = Front(export.pending), export'.found = export.found \o F,
           export.gaps \subseteq export'.gaps,
           ws = During(TheVisits, Last(export.pending)) \/ Last(export.pending) \in export'.gaps,
           UNCHANGED <<held, theirVisits>>
    PROVE  RecoverSound'
  <1> DEFINE n     == Len(export.pending)
             range == Last(export.pending)
             k     == Len(export.found)
             m     == Len(F)
             found == export.found \o F
  <1>1. MovingTypeOK /\ RecoverSound /\ export.step = "recover" /\ export.pending # <<>>
    BY DEF MovingInv, Recovering
  <1>2. /\ n \in Nat /\ n >= 1 /\ DOMAIN export.pending = 1 .. n /\ range = export.pending[n]
        /\ range \in Intervals
        /\ \A i \in 1 .. n : export.pending[i].start \in Nat /\ export.pending[i].end \in Nat
        /\ DOMAIN Front(export.pending) = 1 .. n - 1
        /\ \A i \in 1 .. n - 1 : Front(export.pending)[i] = export.pending[i]
    BY <1>1, PendingIs
  <1>3. /\ Len(export.entries) < Len(export.links)
        /\ EachOnce(export.found)
        /\ \A v \in ToSet(export.found) : OfLink(v, CodeNow, export.until, theirVisits)
        /\ \A i \in DOMAIN export.pending : export.pending[i].end <= export.until
        /\ \A i, j \in DOMAIN export.pending : i < j => export.pending[i].end < export.pending[j].start
        /\ \A v \in ToSet(export.found), i \in DOMAIN export.pending :
              export.pending[i].end < theirVisits[v].at
        /\ \A v \in export.owed :
              /\ v \in TheVisits
              /\ \/ v \in ToSet(export.found) \/ Lost(v, export.gaps, theirVisits)
                 \/ \E i \in DOMAIN export.pending : InRange(v, export.pending[i], theirVisits)
    BY <1>1 DEF RecoverSound
  <1>4. CodeNow' = CodeNow /\ TheVisits' = TheVisits  BY CurrentStays
  <1>5. /\ found \in Seq(Nat) /\ Len(found) = k + m /\ k \in Nat /\ m \in Nat
        /\ DOMAIN found = 1 .. k + m /\ DOMAIN export.found = 1 .. k /\ DOMAIN F = 1 .. m
        /\ \A i \in 1 .. k + m : found[i] = IF i <= k THEN export.found[i] ELSE F[i - k]
    <2>1. export.found \in Seq(Nat)  BY <1>1, ExportIs
    <2> QED  BY <2>1, ConcatProperties, LenProperties
  <1>6. \A i \in 1 .. k : export.found[i] \in ToSet(export.found)  BY <1>5 DEF ToSet
  <1>7. ToSet(F) = ws /\ EachOnce(F) /\ \A i \in 1 .. m : F[i] \in ws
    BY <1>5 DEF Lists, ToSet
  <1> HIDE DEF found, n, k, m
  <1>8. \A i \in 1 .. k + m : \/ i \in 1 .. k /\ found[i] = export.found[i]
                              \/ i - k \in 1 .. m /\ found[i] = F[i - k]
    BY <1>5
  <1>9. ToSet(found) = ToSet(export.found) \cup ws
    <2>1. \A v \in ToSet(found) : v \in ToSet(export.found) \cup ws
      BY <1>5, <1>6, <1>7, <1>8 DEF ToSet
    <2>2. \A v \in ToSet(export.found) : v \in ToSet(found)
      <3>1. \A i \in 1 .. k : i \in 1 .. k + m /\ found[i] = export.found[i]  BY <1>5
      <3> QED  BY <1>5, <3>1 DEF ToSet
    <2>3. \A v \in ws : v \in ToSet(found)
      <3> SUFFICES ASSUME NEW v \in ws PROVE v \in ToSet(found)  OBVIOUS
      <3>1. PICK i \in 1 .. m : F[i] = v  BY <1>5, <1>7 DEF ToSet
      <3>2. i + k \in 1 .. k + m /\ ~(i + k <= k) /\ i + k - k = i  BY <1>5
      <3>3. found[i + k] = v  BY <1>5, <3>1, <3>2
      <3> QED  BY <1>5, <3>2, <3>3 DEF ToSet
    <2> QED  BY <2>1, <2>2, <2>3
  <1>10. \A v \in ws : v \in TheVisits /\ InRange(v, range, theirVisits)
    BY DuringIs
  <1>11. \A v \in ws : /\ OfLink(v, CodeNow, export.until, theirVisits) /\ theirVisits[v].at \in Nat
                       /\ range.start <= theirVisits[v].at /\ theirVisits[v].at <= range.end
    BY <1>1, <1>10, TheVisitsAre, TheirVisitsAre DEF InRange
  <1>12. \A v \in ToSet(export.found) : theirVisits[v].at \in Nat /\ range.end < theirVisits[v].at
    <2>1. n \in DOMAIN export.pending  BY <1>2
    <2> QED  BY <1>1, <1>2, <1>3, <2>1, TheirVisitsAre DEF OfLink
  <1>13. range.start \in Nat /\ range.end \in Nat  BY <1>2 DEF Intervals
  <1>14. EachOnce(found)
    <2> SUFFICES ASSUME NEW i \in 1 .. k + m, NEW j \in 1 .. k + m, found[i] = found[j] PROVE i = j
      BY <1>5 DEF EachOnce
    <2>1. \A v \in ToSet(export.found), w \in ws : v # w  BY <1>11, <1>12, <1>13
    <2>2. CASE i \in 1 .. k /\ found[i] = export.found[i]
      <3>1. j \in 1 .. k /\ found[j] = export.found[j]  BY <1>6, <1>7, <1>8, <2>1, <2>2
      <3> QED  BY <1>3, <1>5, <2>2, <3>1 DEF EachOnce
    <2>3. CASE i - k \in 1 .. m /\ found[i] = F[i - k]
      <3>1. j - k \in 1 .. m /\ found[j] = F[j - k]  BY <1>6, <1>7, <1>8, <2>1, <2>3
      <3>2. i - k = j - k  BY <1>5, <1>7, <2>3, <3>1 DEF EachOnce
      <3> QED  BY <1>5, <3>2
    <2> QED  BY <1>8, <2>2, <2>3
  <1>15. \A v \in ToSet(found) : OfLink(v, CodeNow, export.until, theirVisits)
    BY <1>3, <1>9, <1>11
  <1>16. \A i \in 1 .. n - 1 : i \in DOMAIN export.pending /\ n \in DOMAIN export.pending /\ i < n
    BY <1>2
  <1>17. \A v \in ToSet(found), i \in 1 .. n - 1 : export.pending[i].end < theirVisits[v].at
    <2> SUFFICES ASSUME NEW v \in ToSet(found), NEW i \in 1 .. n - 1
                 PROVE  export.pending[i].end < theirVisits[v].at
      OBVIOUS
    <2>1. CASE v \in ToSet(export.found)  BY <1>3, <1>16, <2>1
    <2>2. CASE v \in ws
      <3>1. export.pending[i].end < range.start  BY <1>2, <1>3, <1>16
      <3>2. export.pending[i].end \in Nat  BY <1>2, <1>16
      <3>3. range.start <= theirVisits[v].at /\ theirVisits[v].at \in Nat  BY <1>11, <2>2
      <3> QED  BY <1>13, <3>1, <3>2, <3>3
    <2> QED  BY <1>9, <2>1, <2>2
  <1>18. \A v \in export.owed : \/ v \in ToSet(found) \/ Lost(v, export'.gaps, theirVisits)
                                \/ \E i \in 1 .. n - 1 : InRange(v, export.pending[i], theirVisits)
    <2> SUFFICES ASSUME NEW v \in export.owed, v \notin ToSet(found), ~Lost(v, export'.gaps, theirVisits)
                 PROVE  \E i \in 1 .. n - 1 : InRange(v, export.pending[i], theirVisits)
      OBVIOUS
    <2>1. v \in TheVisits /\ v \notin ToSet(export.found) /\ v \notin ws  BY <1>3, <1>9
    <2>2. ~Lost(v, export.gaps, theirVisits)  BY DEF Lost
    <2>3. PICK i \in 1 .. n : InRange(v, export.pending[i], theirVisits)  BY <1>2, <1>3, <2>1, <2>2
    <2>4. ~InRange(v, range, theirVisits)  BY <2>1, DuringIs DEF Lost
    <2>5. i # n  BY <1>2, <2>3, <2>4
    <2>6. i \in 1 .. n - 1  BY <1>2, <2>5
    <2> QED  BY <2>3, <2>6
  <1>19. /\ DOMAIN export'.pending = 1 .. n - 1
         /\ \A i \in 1 .. n - 1 : export'.pending[i] = export.pending[i]
    BY <1>2
  <1>20. \A i \in DOMAIN export'.pending : export'.pending[i].end <= export'.until
    BY <1>3, <1>16, <1>19
  <1>21. \A i, j \in DOMAIN export'.pending : i < j => export'.pending[i].end < export'.pending[j].start
    BY <1>3, <1>16, <1>19
  <1>22. export'.found = found  BY DEF found
  <1>23. \A v \in export'.owed :
            /\ v \in TheVisits'
            /\ \/ v \in ToSet(export'.found) \/ Lost(v, export'.gaps, theirVisits')
               \/ \E i \in DOMAIN export'.pending : InRange(v, export'.pending[i], theirVisits')
    BY <1>3, <1>4, <1>18, <1>19, <1>22
  <1>24. \A v \in ToSet(export'.found), i \in DOMAIN export'.pending :
            export'.pending[i].end < theirVisits'[v].at
    BY <1>17, <1>19, <1>22
  <1>25. /\ Len(export'.entries) < Len(export'.links) /\ EachOnce(export'.found)
         /\ \A v \in ToSet(export'.found) : OfLink(v, CodeNow', export'.until, theirVisits')
    BY <1>3, <1>4, <1>14, <1>15, <1>22
  <1> QED
    BY <1>20, <1>21, <1>23, <1>24, <1>25 DEF RecoverSound

\* A range that fails is cut in two, the newer half tried first: what was in it is in one of them.
LEMMA RangeIsCut ==
    ASSUME MovingAssumption, MovingInv, Recovering,
           Last(export.pending).start < Last(export.pending).end,
           export'.step = "recover", export'.entries = export.entries, export'.links = export.links,
           export'.until = export.until, export'.owed = export.owed, export'.found = export.found,
           export'.gaps = export.gaps,
           export'.pending = Front(export.pending) \o Halves(Last(export.pending)),
           UNCHANGED <<held, theirVisits>>
    PROVE  RecoverSound' /\ export'.pending \in Seq(Intervals)
  <1> DEFINE n      == Len(export.pending)
             range  == Last(export.pending)
             middle == (range.start + range.end) \div 2
             older  == [start |-> range.start, end |-> middle]
             newer  == [start |-> middle + 1, end |-> range.end]
             p      == Front(export.pending) \o <<older, newer>>
  <1>1. MovingTypeOK /\ RecoverSound /\ export.step = "recover" /\ export.pending # <<>>
    BY DEF MovingInv, Recovering
  <1>2. /\ n \in Nat /\ n >= 1 /\ DOMAIN export.pending = 1 .. n /\ range = export.pending[n]
        /\ range \in Intervals
        /\ \A i \in 1 .. n : export.pending[i].start \in Nat /\ export.pending[i].end \in Nat
        /\ Front(export.pending) \in Seq(Intervals) /\ Len(Front(export.pending)) = n - 1
        /\ \A i \in 1 .. n - 1 : Front(export.pending)[i] = export.pending[i]
    BY <1>1, PendingIs
  <1>3. /\ Len(export.entries) < Len(export.links)
        /\ EachOnce(export.found)
        /\ \A v \in ToSet(export.found) : OfLink(v, CodeNow, export.until, theirVisits)
        /\ \A i \in DOMAIN export.pending : export.pending[i].end <= export.until
        /\ \A i, j \in DOMAIN export.pending : i < j => export.pending[i].end < export.pending[j].start
        /\ \A v \in ToSet(export.found), i \in DOMAIN export.pending :
              export.pending[i].end < theirVisits[v].at
        /\ \A v \in export.owed :
              /\ v \in TheVisits
              /\ \/ v \in ToSet(export.found) \/ Lost(v, export.gaps, theirVisits)
                 \/ \E i \in DOMAIN export.pending : InRange(v, export.pending[i], theirVisits)
    BY <1>1 DEF RecoverSound
  <1>4. CodeNow' = CodeNow /\ TheVisits' = TheVisits  BY CurrentStays
  <1>5. range.start \in Nat /\ range.end \in Nat /\ range.start < range.end  BY <1>2 DEF Intervals
  <1>6. middle \in Nat /\ range.start <= middle /\ middle < range.end
    <2> DEFINE s == range.start
               e == range.end
    <2>1. s \in Nat /\ e \in Nat /\ s < e  BY <1>5
    <2> HIDE DEF s, e
    <2>2. (s + e) \div 2 \in Nat /\ s <= (s + e) \div 2 /\ (s + e) \div 2 < e  BY <2>1
    <2> QED  BY <2>2 DEF s, e
  <1>7. export'.pending = p  BY DEF Halves
  <1> HIDE DEF middle
  <1>8. /\ older \in Intervals /\ older.start = range.start /\ older.end = middle
        /\ newer \in Intervals /\ newer.start = middle + 1 /\ newer.end = range.end
    BY <1>5, <1>6 DEF Intervals
  <1> HIDE DEF older, newer
  <1>9. /\ <<older, newer>> \in Seq(Intervals) /\ Len(<<older, newer>>) = 2
        /\ <<older, newer>>[1] = older /\ <<older, newer>>[2] = newer
    BY <1>8
  <1>10. /\ p \in Seq(Intervals) /\ Len(p) = n + 1 /\ DOMAIN p = 1 .. n + 1
         /\ \A i \in 1 .. n - 1 : p[i] = export.pending[i]
         /\ p[n] = older /\ p[n + 1] = newer
    <2> DEFINE front == Front(export.pending)
               two   == <<older, newer>>
    <2>1. front \in Seq(Intervals) /\ two \in Seq(Intervals) /\ Len(front) = n - 1 /\ Len(two) = 2  BY <1>2, <1>9
    <2> HIDE DEF front, two, n
    <2>2. /\ front \o two \in Seq(Intervals) /\ Len(front \o two) = n - 1 + 2
          /\ \A i \in 1 .. n - 1 + 2 : (front \o two)[i] = IF i <= n - 1 THEN front[i] ELSE two[i - (n - 1)]
      <3> DEFINE R == Intervals
      <3>1. front \in Seq(R) /\ two \in Seq(R) /\ Len(front) = n - 1 /\ Len(two) = 2  BY <2>1
      <3> HIDE DEF R
      <3>2. /\ front \o two \in Seq(R) /\ Len(front \o two) = Len(front) + Len(two)
            /\ \A i \in 1 .. Len(front) + Len(two) :
                  (front \o two)[i] = IF i <= Len(front) THEN front[i] ELSE two[i - Len(front)]
        BY <3>1, ConcatProperties
      <3> QED  BY <3>1, <3>2 DEF R
    <2>3. n - 1 + 2 = n + 1 /\ n \in Nat /\ n >= 1  BY <1>2
    <2>4. DOMAIN (front \o two) = 1 .. n + 1  BY <2>2, <2>3, LenProperties
    <2>5. \A i \in 1 .. n - 1 : (front \o two)[i] = front[i]  BY <2>2, <2>3
    <2>6. (front \o two)[n] = two[1] /\ (front \o two)[n + 1] = two[2]
      <3>1. n \in 1 .. n - 1 + 2 /\ ~(n <= n - 1) /\ n - (n - 1) = 1  BY <2>3
      <3>2. n + 1 \in 1 .. n - 1 + 2 /\ ~(n + 1 <= n - 1) /\ n + 1 - (n - 1) = 2  BY <2>3
      <3>3. (front \o two)[n] = two[n - (n - 1)]  BY <2>2, <3>1
      <3>4. (front \o two)[n + 1] = two[2]
        <4>1. \A k \in 1 .. n - 1 + 2 : ~(k <= n - 1) /\ k - (n - 1) = 2 => (front \o two)[k] = two[2]
          BY <2>2
        <4>2. PICK k \in 1 .. n - 1 + 2 : k = n + 1  BY <3>2
        <4>3. ~(k <= n - 1) /\ k - (n - 1) = 2  BY <2>3, <4>2
        <4>4. (front \o two)[k] = two[2]  BY <4>1, <4>3
        <4> QED  BY <4>2, <4>4
      <3> QED  BY <3>1, <3>3, <3>4
    <2>7. p = front \o two /\ two[1] = older /\ two[2] = newer  BY <1>9 DEF front, two
    <2>8. \A i \in 1 .. n - 1 : front[i] = export.pending[i]  BY <1>2 DEF front
    <2> QED  BY <2>2, <2>3, <2>4, <2>5, <2>6, <2>7, <2>8
  <1> HIDE DEF p, n
  <1>11. \A i \in 1 .. n + 1 : i \in 1 .. n - 1 \/ i = n \/ i = n + 1  BY <1>2
  <1>12. \A i \in 1 .. n - 1 : i \in 1 .. n /\ n \in 1 .. n /\ i < n  BY <1>2
  <1>13. n \in 1 .. n /\ export.until \in Nat /\ range.end <= export.until
    <2>1. n \in 1 .. n  BY <1>2
    <2>2. export.until \in Nat  BY <1>1, ExportIs, TheConstants
    <2>3. range.end <= export.until  BY <1>2, <1>3, <2>1
    <2> QED  BY <2>1, <2>2, <2>3
  <1>14. \A i \in 1 .. n - 1 : export.pending[i].end \in Nat /\ export.pending[i].end < range.start
    BY <1>2, <1>3, <1>12
  <1>15. \A i \in 1 .. n + 1 : p[i].end <= export.until
    <2>1. \A i \in 1 .. n - 1 : p[i].end <= export.until  BY <1>2, <1>3, <1>10, <1>12
    <2>2. p[n].end <= export.until /\ p[n + 1].end <= export.until  BY <1>5, <1>6, <1>8, <1>10, <1>13
    <2> QED  BY <1>11, <2>1, <2>2
  <1>16. ASSUME NEW i \in 1 .. n + 1, NEW j \in 1 .. n + 1, i < j
         PROVE  p[i].end < p[j].start
    <2>1. CASE i \in 1 .. n - 1
      <3>1. p[i].end \in Nat /\ p[i].end < range.start /\ p[i] = export.pending[i]  BY <1>10, <1>14, <2>1
      <3>2. CASE j \in 1 .. n - 1
        <4>1. p[j] = export.pending[j] /\ i \in DOMAIN export.pending /\ j \in DOMAIN export.pending
          BY <1>2, <1>10, <1>12, <2>1, <3>2
        <4> QED  BY <1>3, <1>16, <3>1, <4>1
      <3>3. CASE j = n
        <4>1. p[j].start = range.start  BY <1>8, <1>10, <3>3
        <4> QED  BY <3>1, <4>1
      <3>4. CASE j = n + 1
        <4>1. p[j].start = middle + 1  BY <1>8, <1>10, <3>4
        <4> QED  BY <1>5, <1>6, <3>1, <4>1
      <3> QED  BY <1>11, <3>2, <3>3, <3>4
    <2>2. CASE i = n
      <3>1. j = n + 1  BY <1>2, <1>16, <2>2
      <3>2. p[i].end = middle /\ p[j].start = middle + 1  BY <1>8, <1>10, <2>2, <3>1
      <3> QED  BY <1>6, <3>2
    <2>3. i # n + 1  BY <1>2, <1>16
    <2> QED  BY <1>11, <2>1, <2>2, <2>3
  <1>17. \A v \in ToSet(export.found), i \in 1 .. n + 1 : p[i].end < theirVisits[v].at
    <2> SUFFICES ASSUME NEW v \in ToSet(export.found), NEW i \in 1 .. n + 1
                 PROVE  p[i].end < theirVisits[v].at
      OBVIOUS
    <2>1. theirVisits[v].at \in Nat  BY <1>1, <1>3, TheirVisitsAre DEF OfLink
    <2>2. range.end < theirVisits[v].at  BY <1>2, <1>3, <1>13
    <2>3. CASE i \in 1 .. n - 1  BY <1>2, <1>3, <1>10, <1>12, <2>3
    <2>4. CASE i = n
      <3>1. p[i].end = middle  BY <1>8, <1>10, <2>4
      <3> QED  BY <1>5, <1>6, <2>1, <2>2, <3>1
    <2>5. CASE i = n + 1
      <3>1. p[i].end = range.end  BY <1>8, <1>10, <2>5
      <3> QED  BY <2>2, <3>1
    <2> QED  BY <1>11, <2>3, <2>4, <2>5
  <1>18. ASSUME NEW v \in export.owed, NEW i \in 1 .. n, InRange(v, export.pending[i], theirVisits)
         PROVE  \E j \in 1 .. n + 1 : InRange(v, p[j], theirVisits)
    <2>1. CASE i \in 1 .. n - 1
      <3>1. p[i] = export.pending[i] /\ i \in 1 .. n + 1  BY <1>2, <1>10, <2>1
      <3> QED  BY <1>18, <3>1
    <2>2. CASE i = n
      <3>1. theirVisits[v].at \in Nat  BY <1>1, <1>3, TheVisitsAre, TheirVisitsAre
      <3>2. range.start <= theirVisits[v].at /\ theirVisits[v].at <= range.end  BY <1>2, <1>18, <2>2 DEF InRange
      <3>3. theirVisits[v].at <= middle \/ middle + 1 <= theirVisits[v].at  BY <1>6, <3>1
      <3>4. InRange(v, older, theirVisits) \/ InRange(v, newer, theirVisits)  BY <1>8, <3>2, <3>3 DEF InRange
      <3>5. n \in 1 .. n + 1 /\ n + 1 \in 1 .. n + 1  BY <1>2
      <3> QED  BY <1>10, <3>4, <3>5
    <2>3. i \in 1 .. n - 1 \/ i = n  BY <1>2
    <2> QED  BY <2>1, <2>2, <2>3
  <1>19. \A v \in export'.owed :
            /\ v \in TheVisits'
            /\ \/ v \in ToSet(export'.found) \/ Lost(v, export'.gaps, theirVisits')
               \/ \E i \in DOMAIN export'.pending : InRange(v, export'.pending[i], theirVisits')
    BY <1>2, <1>3, <1>4, <1>7, <1>10, <1>18
  <1>20. /\ \A i \in DOMAIN export'.pending : export'.pending[i].end <= export'.until
         /\ \A i, j \in DOMAIN export'.pending : i < j => export'.pending[i].end < export'.pending[j].start
    BY <1>7, <1>10, <1>15, <1>16
  <1>21. \A v \in ToSet(export'.found), i \in DOMAIN export'.pending :
            export'.pending[i].end < theirVisits'[v].at
    BY <1>7, <1>10, <1>17
  <1>22. /\ Len(export'.entries) < Len(export'.links) /\ EachOnce(export'.found)
         /\ \A v \in ToSet(export'.found) : OfLink(v, CodeNow', export'.until, theirVisits')
    BY <1>3, <1>4
  <1> QED
    BY <1>7, <1>10, <1>19, <1>20, <1>21, <1>22 DEF RecoverSound

LEMMA RecoverRangeKeeps ==
    ASSUME MovingAssumption, MovingInv, RecoverRange
    PROVE  MovingInv'
  <1> DEFINE range == Last(export.pending)
             vs    == During(TheVisits, range)
             ones  == OneSecond(vs)
             asks  == export.requests + Asks(vs)
             front == Front(export.pending)
             found == export.found \o LatestFirst(vs)
             some  == export.found \o LatestFirst(ones)
             cut   == front \o Halves(range)
             gaps  == export.gaps \cup {range}
  <1>1. /\ Recovering /\ export.step = "recover" /\ export.pending # <<>>
        /\ UNCHANGED <<shlink, snapshot, shurly, importing, changes>>
        /\ UNCHANGED <<held, theirVisits>>
    BY DEF RecoverRange, Recovering, shlink
  <1>2. MovingTypeOK  BY DEF MovingInv
  <1>3. /\ export \in Exports /\ export.requests \in Nat /\ export.found \in Seq(Nat)
        /\ export.gaps \in SUBSET Intervals
    BY <1>2, ExportIs
  <1>4. /\ vs \in SUBSET DOMAIN theirVisits /\ ones \in SUBSET vs /\ ones \in SUBSET DOMAIN theirVisits
        /\ vs \in SUBSET Nat /\ ones \in SUBSET Nat
    BY <1>2, DuringIs, TheVisitsAre, TheirVisitsAre
  <1>5. asks \in Nat /\ OneByOne(vs) \in Nat /\ asks + OneByOne(vs) \in Nat
    <2>1. Asks(vs) \in Nat /\ OneByOne(vs) \in Nat  BY <1>2, <1>4, AsksAre
    <2> QED  BY <1>3, <2>1
  <1>6. range \in Intervals /\ front \in Seq(Intervals)  BY <1>1, <1>2, PendingIs
  <1>7. gaps \in SUBSET Intervals /\ export.gaps \subseteq gaps /\ range \in gaps  BY <1>3, <1>6
  <1>8. Lists(LatestFirst(vs), vs) /\ Lists(LatestFirst(ones), ones)  BY <1>2, <1>4, LatestFirstIs
  <1>9. LatestFirst(vs) \in Seq(Nat) /\ LatestFirst(ones) \in Seq(Nat)
    BY <1>4, <1>8, SeqMonotonic DEF Lists
  <1>10. found \in Seq(Nat) /\ some \in Seq(Nat)  BY <1>3, <1>9, ConcatProperties
  <1>11. \/ export' = NoExport
         \/ export' = [export EXCEPT !.pending = front, !.requests = asks, !.found = found]
         \/ /\ range.start < range.end
            /\ export' = [export EXCEPT !.pending = cut, !.requests = asks]
         \/ export' = [export EXCEPT !.pending = front, !.requests = asks + OneByOne(vs), !.gaps = gaps,
                                     !.found = some]
    <2> DEFINE tried == [export EXCEPT !.pending = front, !.requests = asks]
    <2>1. \/ export' = NoExport
          \/ export' = [tried EXCEPT !.found = @ \o LatestFirst(vs)]
          \/ /\ range.start < range.end
             /\ export' = [tried EXCEPT !.pending = @ \o Halves(range)]
          \/ export' = [tried EXCEPT !.requests = @ + OneByOne(vs), !.gaps = @ \cup {range},
                                     !.found = @ \o LatestFirst(ones)]
      BY DEF RecoverRange
    <2> HIDE DEF asks, front, vs, ones, range
    <2>2. /\ tried \in [DOMAIN export -> {export[f] : f \in DOMAIN export} \cup {front, asks}]
          /\ tried.pending = front /\ tried.requests = asks /\ tried.gaps = export.gaps
          /\ tried.found = export.found
      BY <1>3 DEF Exports
    <2>3. [tried EXCEPT !.found = @ \o LatestFirst(vs)]
            = [export EXCEPT !.pending = front, !.requests = asks, !.found = found]
      BY <1>3 DEF Exports
    <2>4. [tried EXCEPT !.pending = @ \o Halves(range)]
            = [export EXCEPT !.pending = cut, !.requests = asks]
      BY <1>3 DEF Exports
    <2>5. [tried EXCEPT !.requests = @ + OneByOne(vs), !.gaps = @ \cup {range}, !.found = @ \o LatestFirst(ones)]
            = [export EXCEPT !.pending = front, !.requests = asks + OneByOne(vs), !.gaps = gaps, !.found = some]
      BY <1>3 DEF Exports
    <2> HIDE DEF tried
    <2> QED  BY <2>1, <2>3, <2>4, <2>5
  <1> DEFINE spent == asks + OneByOne(vs)
             newest == LatestFirst(vs)
             told   == LatestFirst(ones)
  <1> HIDE DEF asks, spent
  <1>12. CASE export' = NoExport  BY <1>1, <1>12, ExportStops
  <1>13. CASE export' = [export EXCEPT !.pending = front, !.requests = asks, !.found = found]
    <2>1. export' \in Exports /\ export'.step = "recover" /\ export'.pending = front /\ export'.found = found
          /\ export'.gaps = export.gaps /\ export'.owed = export.owed
          /\ export'.links = export.links /\ export'.entries = export.entries /\ export'.until = export.until
          /\ export'.made = export.made /\ export'.gone = export.gone /\ export'.stayed = export.stayed
      <3> HIDE DEF front, found
      <3> QED  BY <1>1, <1>3, <1>5, <1>6, <1>10, <1>13 DEF Exports
    <2>2. RecoverSound'
      BY <1>1, <1>8, <1>9, <2>1, RangeIsDone
    <2> QED  BY <1>1, <2>1, <2>2, RecoveryGoesOn
  <1>14. CASE range.start < range.end /\ export' = [export EXCEPT !.pending = cut, !.requests = asks]
    <2>1. export'.step = "recover" /\ export'.pending = cut /\ export'.found = export.found
          /\ export'.gaps = export.gaps /\ export'.owed = export.owed
          /\ export'.links = export.links /\ export'.entries = export.entries /\ export'.until = export.until
          /\ export'.made = export.made /\ export'.gone = export.gone /\ export'.stayed = export.stayed
      <3> HIDE DEF cut
      <3> QED  BY <1>1, <1>3, <1>14 DEF Exports
    <2>2. RecoverSound' /\ export'.pending \in Seq(Intervals)
      BY <1>1, <1>14, <2>1, RangeIsCut
    <2>3. export' \in Exports
      <3>1. cut \in Seq(Intervals)  BY <2>1, <2>2
      <3> HIDE DEF cut
      <3> QED  BY <1>3, <1>5, <1>14, <3>1 DEF Exports
    <2> QED  BY <1>1, <2>1, <2>2, <2>3, RecoveryGoesOn
  <1>15. CASE export' = [export EXCEPT !.pending = front, !.requests = spent, !.gaps = gaps, !.found = some]
    <2>1. export' \in Exports /\ export'.step = "recover" /\ export'.pending = front /\ export'.found = some
          /\ export'.gaps = gaps /\ export'.owed = export.owed
          /\ export'.links = export.links /\ export'.entries = export.entries /\ export'.until = export.until
          /\ export'.made = export.made /\ export'.gone = export.gone /\ export'.stayed = export.stayed
      <3>1. spent \in Nat  BY <1>5 DEF spent
      <3> HIDE DEF front, some, gaps
      <3> DEFINE one == [export EXCEPT !.pending = front, !.requests = spent]
                 two == [one EXCEPT !.gaps = gaps, !.found = some]
      <3>2. one \in Exports  BY <1>3, <1>6, <3>1 DEF Exports
      <3>3. two \in Exports
        <4> HIDE DEF one
        <4> QED  BY <1>7, <1>10, <3>2 DEF Exports
      <3>4. export' = two  BY <1>15
      <3> QED  BY <1>1, <1>3, <1>15, <3>3, <3>4 DEF Exports
    <2>2. RecoverSound'
      BY <1>1, <1>4, <1>7, <1>8, <1>9, <2>1, RangeIsDone
    <2> QED  BY <1>1, <2>1, <2>2, RecoveryGoesOn
  <1> QED  BY <1>11, <1>12, <1>13, <1>14, <1>15 DEF spent

LEMMA GiveUpRangesKeeps ==
    ASSUME MovingAssumption, MovingInv, GiveUpRanges
    PROVE  MovingInv'
  <1> DEFINE gaps == export.gaps \cup ToSet(export.pending)
  <1>1. /\ export.step = "recover" /\ export.pending # <<>>
        /\ export' = [export EXCEPT !.pending = <<>>, !.gaps = gaps]
        /\ UNCHANGED <<shlink, snapshot, shurly, importing, changes>>
        /\ UNCHANGED <<held, theirVisits>>
    BY DEF GiveUpRanges, Recovering, shlink
  <1>2. MovingTypeOK /\ RecoverSound  BY DEF MovingInv
  <1>3. export \in Exports /\ export.gaps \in SUBSET Intervals /\ export.pending \in Seq(Intervals)
    BY <1>2, ExportIs
  <1>4. gaps \in SUBSET Intervals
    <2>1. \A i \in DOMAIN export.pending : export.pending[i] \in Intervals
      BY <1>1, <1>2, PendingIs, <1>3, ElementOfSeq
    <2> QED  BY <1>3, <2>1 DEF ToSet
  <1>5. export.gaps \subseteq gaps /\ \A i \in DOMAIN export.pending : export.pending[i] \in gaps
    BY DEF ToSet
  <1> HIDE DEF gaps
  <1>6. export' \in Exports  BY <1>1, <1>3, <1>4, NothingYet DEF Exports
  <1>7. /\ export'.step = "recover" /\ export'.pending = <<>> /\ export'.found = export.found
        /\ export'.gaps = gaps /\ export'.owed = export.owed
        /\ export'.links = export.links /\ export'.entries = export.entries /\ export'.until = export.until
        /\ export'.made = export.made /\ export'.gone = export.gone /\ export'.stayed = export.stayed
    BY <1>1, <1>3 DEF Exports
  <1>8. CodeNow' = CodeNow /\ TheVisits' = TheVisits  BY <1>1, <1>7, CurrentStays
  <1>9. RecoverSound'
    <2>1. \A i \in DOMAIN export'.pending : FALSE  BY <1>7
    <2>2. \A v \in export.owed :
             v \in TheVisits /\ (v \in ToSet(export.found) \/ Lost(v, gaps, theirVisits))
      BY <1>1, <1>2, <1>5 DEF RecoverSound, Lost
    <2>3. /\ Len(export.entries) < Len(export.links) /\ EachOnce(export.found)
          /\ \A v \in ToSet(export.found) : OfLink(v, CodeNow, export.until, theirVisits)
      BY <1>1, <1>2 DEF RecoverSound
    <2>4. \A v \in export'.owed :
             v \in TheVisits' /\ (v \in ToSet(export'.found) \/ Lost(v, export'.gaps, theirVisits'))
      BY <1>1, <1>7, <1>8, <2>2
    <2>5. /\ Len(export'.entries) < Len(export'.links) /\ EachOnce(export'.found)
          /\ \A v \in ToSet(export'.found) : OfLink(v, CodeNow', export'.until, theirVisits')
      BY <1>1, <1>7, <1>8, <2>3
    <2> QED  BY <1>7, <2>1, <2>4, <2>5 DEF RecoverSound
  <1> QED  BY <1>1, <1>6, <1>7, <1>9, RecoveryGoesOn

LEMMA EndRecoveryKeeps ==
    ASSUME MovingAssumption, MovingInv, EndRecovery
    PROVE  MovingInv'
  <1> DEFINE fewer == export.gaps = {} /\ Len(export.found) < Current.total
             gaps  == IF fewer THEN {Open} ELSE export.gaps
  <1>1. /\ export.step = "recover" /\ export.pending = <<>>
        /\ export' = WithEntry(export.found, gaps, export.owed)
        /\ UNCHANGED <<shlink, snapshot, shurly, importing, changes>>
    BY DEF EndRecovery
  <1>2. MovingTypeOK /\ RecoverSound  BY DEF MovingInv
  <1>3. export.found \in Seq(Nat) /\ export.gaps \in SUBSET Intervals /\ export.owed \in SUBSET Nat
    BY <1>2, ExportIs
  <1>4. gaps \in SUBSET Intervals /\ export.gaps \subseteq gaps
    <2>1. Open \in Intervals  BY TheConstants DEF Open, Intervals
    <2> QED  BY <1>3, <2>1
  <1> HIDE DEF gaps
  <1>5. \A i \in DOMAIN export.pending : FALSE  BY <1>1
  <1>6. /\ Len(export.entries) < Len(export.links) /\ EachOnce(export.found)
        /\ \A v \in ToSet(export.found) : OfLink(v, CodeNow, export.until, theirVisits)
        /\ \A v \in export.owed :
              v \in TheVisits /\ (v \in ToSet(export.found) \/ Lost(v, export.gaps, theirVisits))
    BY <1>1, <1>2, <1>5 DEF RecoverSound
  <1>7. \A v \in export.owed :
           v \in DOMAIN theirVisits /\ (v \in ToSet(export.found) \/ Lost(v, gaps, theirVisits))
    BY <1>2, <1>4, <1>6, TheVisitsAre DEF Lost
  <1> QED  BY <1>1, <1>3, <1>4, <1>6, <1>7, EntryIsAdded

LEMMA ExportFailsKeeps ==
    ASSUME MovingAssumption, MovingInv, ExportFails
    PROVE  MovingInv'
  BY ExportStops DEF ExportFails

LEMMA WriteSnapshotKeeps ==
    ASSUME MovingAssumption, MovingInv, WriteSnapshot
    PROVE  MovingInv'
  <1> DEFINE entered == ToSet(export.entries)
             n     == Len(export.entries)
             taken == [links |-> entered, until |-> export.until, visits |-> export.visits,
                       stayed |-> export.stayed, moving |-> export.made /\ export.gone]
  <1>1. /\ export.step = "visits" /\ n = Len(export.links)
        /\ snapshot' = taken /\ export' = NoExport
        /\ UNCHANGED <<second, held, theirVisits, ourLink, moved, own, imported, importing, changes>>
    BY DEF WriteSnapshot, shlink, shurly
  <1>2. MovingTypeOK /\ LinksSound /\ ImportSound /\ ImportedBefore /\ MovedSound  BY DEF MovingInv
  <1>3. /\ export.entries \in Seq(Entries) /\ export.links \in Seq(Items) /\ export.until \in Seconds
        /\ export.visits \in BOOLEAN /\ export.stayed \in SUBSET ShlinkRows
        /\ (export.made /\ export.gone) \in BOOLEAN
    BY <1>2, ExportIs
  <1>4. DOMAIN export.entries = 1 .. n /\ DOMAIN export.links = 1 .. n  BY <1>1, <1>3, LenProperties
  <1>5. \A i \in 1 .. n : export.entries[i] \in Entries  BY <1>3, <1>4, ElementOfSeq
  <1>6. entered \in SUBSET Entries  BY <1>4, <1>5 DEF ToSet
  <1>7. \A e \in entered : \E i \in 1 .. n : e = export.entries[i]  BY <1>4 DEF ToSet
  <1>8. \A i \in 1 .. n : export.entries[i] \in entered  BY <1>4 DEF ToSet
  <1>9. \A i \in 1 .. n : /\ export.entries[i].code = CodeOf[export.links[i].row]
                          /\ EntrySound(export.entries[i], export.until, theirVisits)
    BY <1>1, <1>2, <1>4 DEF LinksSound
  <1>10. \A e \in entered : EntrySound(e, export.until, theirVisits)  BY <1>7, <1>9
  <1>11. \A e, f \in entered : e.code = f.code => e = f
    <2> SUFFICES ASSUME NEW e \in entered, NEW f \in entered, e.code = f.code PROVE e = f  OBVIOUS
    <2>1. PICK i \in 1 .. n : e = export.entries[i]  BY <1>7
    <2>2. PICK j \in 1 .. n : f = export.entries[j]  BY <1>7
    <2>3. CodeOf[export.links[i].row] = CodeOf[export.links[j].row]  BY <1>9, <2>1, <2>2
    <2>4. i = j  BY <1>1, <1>2, <1>4, <2>3 DEF LinksSound
    <2> QED  BY <2>1, <2>2, <2>4
  <1>12. ~(export.made /\ export.gone) => \A r \in export.stayed : \E e \in entered : e.code = CodeOf[r]
    <2> SUFFICES ASSUME ~(export.made /\ export.gone), NEW r \in export.stayed
                 PROVE  \E e \in entered : e.code = CodeOf[r]
      OBVIOUS
    <2>1. PICK i \in 1 .. n : CodeOf[export.links[i].row] = CodeOf[r]  BY <1>1, <1>2, <1>4 DEF LinksSound
    <2> QED  BY <1>8, <1>9, <2>1
  <1> HIDE DEF entered
  <1>13. /\ taken \in Snapshots /\ taken.links = entered /\ taken.until = export.until
         /\ taken.stayed = export.stayed /\ taken.moving = (export.made /\ export.gone)
    BY <1>3, <1>6 DEF Snapshots
  <1> HIDE DEF taken
  <1>14. export' \in Exports /\ export'.step = "idle"  BY <1>1, NoExportIs DEF NoExport
  <1>15. MovingTypeOK'  BY <1>1, <1>2, <1>13, <1>14 DEF MovingTypeOK
  <1>16. ListSound' /\ CollapseSound' /\ LinksSound' /\ RecoverSound'
    BY <1>1 DEF NoExport, ListSound, CollapseSound, LinksSound, RecoverSound
  <1>17. SnapshotSound'
    <2>1. ~taken.moving => \A r \in taken.stayed : \E e \in taken.links : e.code = CodeOf[r]
      BY <1>12, <1>13
    <2>2. \A e, f \in taken.links : e.code = f.code => e = f  BY <1>11, <1>13
    <2>3. \A e \in taken.links : EntrySound(e, taken.until, theirVisits')  BY <1>1, <1>10, <1>13
    <2> QED  BY <1>1, <2>1, <2>2, <2>3 DEF SnapshotSound
  <1>18. ImportSound'
    <2>1. importing = Absent  BY <1>1, <1>2 DEF ImportSound
    <2> QED  BY <1>1, <2>1 DEF ImportSound
  <1>19. ImportedBefore'
    <2>1. \A c \in Codes : imported[c] <= second /\ imported[c] <= export.until /\ export.until <= second
      BY <1>1, <1>2 DEF ImportedBefore
    <2> QED  BY <1>1, <1>13, <1>14, <2>1 DEF ImportedBefore
  <1>20. MovedSound'  BY <1>1, <1>2 DEF MovedSound, VisitCode
  <1> QED  BY <1>15, <1>16, <1>17, <1>18, <1>19, <1>20 DEF MovingInv

-----------------------------------------------------------------------------
(* Imports.                                                                 *)

LEMMA StartImportKeeps ==
    ASSUME MovingAssumption, MovingInv, StartImport
    PROVE  MovingInv'
  <1>1. /\ export.step = "idle" /\ snapshot # Absent
        /\ UNCHANGED <<second, held, theirVisits, export, snapshot, ourLink, moved, own, imported, changes>>
    BY DEF StartImport, shlink, shurly
  <1>2. /\ MovingTypeOK /\ ListSound /\ CollapseSound /\ LinksSound /\ RecoverSound
        /\ SnapshotSound /\ ImportSound /\ ImportedBefore /\ MovedSound
    BY DEF MovingInv
  <1>3. snapshot \in Snapshots  BY <1>1, <1>2 DEF MovingTypeOK
  <1>4. /\ snapshot.links \in SUBSET Entries /\ snapshot.until \in Seconds /\ snapshot.visits \in BOOLEAN
    BY <1>3 DEF Snapshots
  <1>5. PICK dropped \in SUBSET {e.code : e \in snapshot.links}, withVisits \in BOOLEAN :
            LET planned == {e \in snapshot.links : e.code \notin dropped}
            IN  importing' = [plan |-> planned,
                              new |-> {e.code : e \in {e \in planned : ourLink[e.code] = Absent}},
                              visits |-> withVisits /\ snapshot.visits, until |-> snapshot.until]
    BY DEF StartImport
  <1> DEFINE planned == {e \in snapshot.links : e.code \notin dropped}
             new  == {e.code : e \in {e \in planned : ourLink[e.code] = Absent}}
  <1>6. planned \in SUBSET Entries /\ planned \subseteq snapshot.links  BY <1>4
  <1>7. new \in SUBSET {e.code : e \in planned}  OBVIOUS
  <1>8. \A e \in planned : e.code \in Codes  BY <1>6 DEF Entries
  <1>9. importing' = [plan |-> planned, new |-> new, visits |-> withVisits /\ snapshot.visits,
                      until |-> snapshot.until]
    BY <1>5
  <1> HIDE DEF planned, new
  <1>10. importing' \in Imports
    <2>1. new \in SUBSET Codes  BY <1>7, <1>8
    <2> QED  BY <1>4, <1>6, <1>9, <2>1 DEF Imports
  <1>11. MovingTypeOK'  BY <1>1, <1>2, <1>10 DEF MovingTypeOK
  <1>12. ImportSound'
    <2>1. importing'.plan = planned /\ importing'.new = new /\ importing'.until = snapshot.until  BY <1>9
    <2> QED  BY <1>1, <1>6, <1>7, <2>1 DEF ImportSound
  <1>13. ListSound' /\ CollapseSound' /\ LinksSound'
    BY <1>1, <1>2 DEF ListSound, CollapseSound, LinksSound
  <1>14. RecoverSound'
    BY <1>1, <1>2 DEF RecoverSound
  <1>15. SnapshotSound'  BY <1>1, <1>2 DEF SnapshotSound
  <1>16. ImportedBefore'  BY <1>1, <1>2 DEF ImportedBefore
  <1>17. MovedSound'  BY <1>1, <1>2 DEF MovedSound, VisitCode
  <1> QED  BY <1>11, <1>12, <1>13, <1>14, <1>15, <1>16, <1>17 DEF MovingInv

LEMMA RollbackImportKeeps ==
    ASSUME MovingAssumption, MovingInv, RollbackImport
    PROVE  MovingInv'
  <1>1. /\ importing' = Absent
        /\ UNCHANGED <<second, held, theirVisits, export, snapshot, ourLink, moved, own, imported, changes>>
    BY DEF RollbackImport, shlink, shurly
  <1>2. /\ MovingTypeOK /\ ListSound /\ CollapseSound /\ LinksSound /\ RecoverSound
        /\ SnapshotSound /\ ImportSound /\ ImportedBefore /\ MovedSound
    BY DEF MovingInv
  <1>3. MovingTypeOK'  BY <1>1, <1>2 DEF MovingTypeOK
  <1>4. ListSound' /\ CollapseSound' /\ LinksSound'
    BY <1>1, <1>2 DEF ListSound, CollapseSound, LinksSound
  <1>5. RecoverSound'
    <2>1. export' = export /\ held' = held /\ theirVisits' = theirVisits  BY <1>1
    <2>2. CodeNow' = CodeNow /\ TheVisits' = TheVisits  BY <2>1, CurrentStays
    <2> QED  BY <1>2, <2>1, <2>2 DEF RecoverSound
  <1>6. SnapshotSound' /\ ImportSound'  BY <1>1, <1>2 DEF SnapshotSound, ImportSound
  <1>7. ImportedBefore'  BY <1>1, <1>2 DEF ImportedBefore
  <1>8. MovedSound'  BY <1>1, <1>2 DEF MovedSound, VisitCode
  <1> QED  BY <1>3, <1>4, <1>5, <1>6, <1>7, <1>8 DEF MovingInv

LEMMA NewestIs ==
    ASSUME MovingAssumption, NEW times \in SUBSET Times, times # {}
    PROVE  Newest(times) \in times /\ \A t \in times : Newest(times) >= t
  <1>1. LastSecond \in Nat  BY TheConstants
  <1>2. \A t \in times : t \in Int /\ LastSecond - t \in Nat
    BY <1>1 DEF Times, Seconds, NotBefore
  <1> DEFINE ages == {LastSecond - t : t \in times}
  <1>3. ages \in SUBSET Nat /\ ages # {}  BY <1>2
  <1>4. PICK a \in ages : \A b \in ages : a <= b
    <2> HIDE DEF ages
    <2> QED  BY <1>3, FirstPosition
  <1>5. PICK t \in times : a = LastSecond - t  BY <1>4
  <1>6. \A u \in times : t >= u
    <2> SUFFICES ASSUME NEW u \in times PROVE t >= u  OBVIOUS
    <2>1. LastSecond - t <= LastSecond - u  BY <1>4, <1>5
    <2>2. t \in Int /\ u \in Int  BY <1>2
    <2> QED  BY <1>1, <2>1, <2>2
  <1> QED  BY <1>6 DEF Newest

\* The newest of a link's moved visits, and of its own of no known address, is one of them.
LEMMA LatestIs ==
    ASSUME MovingAssumption, MovingTypeOK, NEW c \in Codes
    PROVE  /\ Latest(c) \in Int /\ own[c].unknown \in Int
           /\ \/ Latest(c) = own[c].unknown
              \/ \E v \in DOMAIN theirVisits :
                    moved[v] > 0 /\ VisitCode(v) = c /\ Latest(c) = theirVisits[v].at
           /\ \A v \in DOMAIN theirVisits : moved[v] > 0 /\ VisitCode(v) = c => Latest(c) >= theirVisits[v].at
  <1> DEFINE times == Moved(c) \cup {own[c].unknown}
  <1>1. own[c].unknown \in Times  BY DEF MovingTypeOK
  <1>2. \A v \in DOMAIN theirVisits : theirVisits[v].at \in Times
    BY TheirVisitsAre DEF Times
  <1>3. times \in SUBSET Times /\ times # {}  BY <1>1, <1>2 DEF Moved
  <1>4. Latest(c) = Newest(times)  BY DEF Latest
  <1> HIDE DEF times
  <1>5. Latest(c) \in times /\ \A t \in times : Latest(c) >= t  BY <1>3, <1>4, NewestIs
  <1>6. Latest(c) \in Int /\ own[c].unknown \in Int  BY <1>1, <1>3, <1>5, TheConstants
  <1>7. \A v \in DOMAIN theirVisits : moved[v] > 0 /\ VisitCode(v) = c => theirVisits[v].at \in times
    BY DEF times, Moved
  <1>8. Latest(c) = own[c].unknown \/ Latest(c) \in Moved(c)  BY <1>5 DEF times
  <1> QED  BY <1>5, <1>6, <1>7, <1>8 DEF Moved

LEMMA CopiedOnce ==
    ASSUME NEW s, EachOnce(s), NEW v \in ToSet(s)
    PROVE  Copied(v, s) = 1
  <1>1. PICK i \in DOMAIN s : s[i] = v  BY DEF ToSet
  <1>2. {j \in DOMAIN s : s[j] = v} = {i}  BY <1>1 DEF EachOnce
  <1> QED  BY <1>2, FS_Singleton DEF Copied

\* The links of a plan: each once, of visits that are there, none moved before that would be again.
LEMMA PlanIs ==
    ASSUME MovingAssumption, MovingInv, importing # Absent
    PROVE  /\ importing \in Imports /\ export.step = "idle" /\ snapshot # Absent
           /\ importing.until = snapshot.until /\ importing.until \in Seconds
           /\ importing.new \in SUBSET {e.code : e \in importing.plan}
           /\ \A e, f \in importing.plan : e.code = f.code => e = f
           /\ \A e \in importing.plan :
                 /\ e \in Entries /\ e.code \in Codes /\ e.dest \in Dests
                 /\ EachOnce(e.found)
                 /\ \A v \in ToSet(e.found) : OfLink(v, e.code, importing.until, theirVisits)
  <1>1. MovingTypeOK /\ ImportSound /\ SnapshotSound  BY DEF MovingInv
  <1>2. importing \in Imports  BY <1>1 DEF MovingTypeOK
  <1>3. importing.plan \in SUBSET Entries /\ importing.until \in Seconds  BY <1>2 DEF Imports
  <1>4. \A e \in importing.plan : e \in Entries /\ e.code \in Codes /\ e.dest \in Dests
    BY <1>3 DEF Entries
  <1>5. /\ snapshot # Absent /\ export.step = "idle" /\ importing.until = snapshot.until
        /\ importing.plan \subseteq snapshot.links
        /\ importing.new \subseteq {e.code : e \in importing.plan}
    BY <1>1 DEF ImportSound
  <1>6. \A e \in importing.plan : EntrySound(e, importing.until, theirVisits)
    BY <1>1, <1>5 DEF SnapshotSound
  <1>7. \A e, f \in importing.plan : e.code = f.code => e = f
    BY <1>1, <1>5 DEF SnapshotSound
  <1>8. \A e \in importing.plan :
           EachOnce(e.found) /\ \A v \in ToSet(e.found) : OfLink(v, e.code, importing.until, theirVisits)
    BY <1>6 DEF EntrySound
  <1> QED  BY <1>2, <1>3, <1>4, <1>5, <1>7, <1>8

\* What a commit brings was not here, is brought once, and nothing else comes.
LEMMA CommitBrings ==
    ASSUME MovingAssumption, MovingInv, CommitImport
    PROVE  /\ \A e \in importing.plan : \A v \in ToSet(e.found) :
                 v \in DOMAIN moved /\ v \in DOMAIN theirVisits /\ VisitCode(v) = e.code
           /\ \A e \in importing.plan : \A v \in Brings(e) : v \in ToSet(e.found) /\ moved'[v] = 1
           /\ \A v \in DOMAIN moved :
                 (\A e \in importing.plan : v \notin Brings(e)) => moved'[v] = moved[v]
           /\ DOMAIN moved' = DOMAIN moved
  <1>1. /\ importing # Absent
        /\ \A e \in importing.plan : IF e.code \in importing.new THEN ourLink[e.code] = Absent
                                     ELSE Brings(e) # {} => ourLink[e.code] # Absent
        /\ moved' = [v \in DOMAIN moved |->
                        LET of == {e \in importing.plan : v \in Brings(e)}
                        IN  IF of = {} THEN moved[v] ELSE moved[v] + Copied(v, (CHOOSE e \in of : TRUE).found)]
    BY DEF CommitImport
  <1>2. MovingTypeOK /\ MovedSound  BY DEF MovingInv
  <1>3. /\ \A e, f \in importing.plan : e.code = f.code => e = f
        /\ \A e \in importing.plan :
              /\ e.code \in Codes
              /\ EachOnce(e.found)
              /\ \A v \in ToSet(e.found) : OfLink(v, e.code, importing.until, theirVisits)
    BY <1>1, PlanIs
  <1>4. DOMAIN moved = 1 .. MaxTheirs /\ \A v \in DOMAIN moved : moved[v] \in {0, 1}
    BY <1>2 DEF MovingTypeOK
  <1>5. \A v \in DOMAIN theirVisits : v \in DOMAIN moved
    <2>1. /\ Len(theirVisits) \in Nat /\ DOMAIN theirVisits = 1 .. Len(theirVisits)
          /\ Len(theirVisits) <= MaxTheirs /\ MaxTheirs \in Nat
      BY <1>2, TheirVisitsAre, TheConstants
    <2> QED  BY <1>4, <2>1
  <1>6. \A e \in importing.plan : \A v \in ToSet(e.found) :
           v \in DOMAIN moved /\ v \in DOMAIN theirVisits /\ VisitCode(v) = e.code
    BY <1>3, <1>5 DEF OfLink, VisitCode
  <1>7. \A e \in importing.plan : \A v \in Brings(e) :
           /\ v \in ToSet(e.found)
           /\ e.code \in importing.new \/ theirVisits[v].at > Latest(e.code)
    BY DEF Brings, IsNewer
  <1>8. ASSUME NEW e \in importing.plan, NEW v \in Brings(e)
        PROVE  moved[v] = 0
    <2>1. v \in DOMAIN moved /\ v \in DOMAIN theirVisits /\ VisitCode(v) = e.code  BY <1>6, <1>7
    <2>2. moved[v] \in {0, 1}  BY <1>4, <2>1
    <2> SUFFICES ASSUME moved[v] > 0 PROVE FALSE  BY <2>2
    <2>3. CASE e.code \in importing.new
      <3>1. ourLink[e.code] = Absent  BY <1>1, <2>3
      <3> QED  BY <1>2, <2>1, <3>1 DEF MovedSound
    <2>4. CASE theirVisits[v].at > Latest(e.code)
      <3>1. Latest(e.code) >= theirVisits[v].at /\ Latest(e.code) \in Int
        BY <1>2, <1>3, <2>1, LatestIs
      <3>2. theirVisits[v].at \in Nat  BY <1>2, <2>1, TheirVisitsAre
      <3> QED  BY <2>4, <3>1, <3>2
    <2> QED  BY <1>7, <2>3, <2>4
  <1>9. ASSUME NEW e \in importing.plan, NEW v \in Brings(e)
        PROVE  moved'[v] = 1
    <2> DEFINE of == {f \in importing.plan : v \in Brings(f)}
    <2>1. of = {e}
      <3>1. \A f \in of : f.code = VisitCode(v)  BY <1>6, <1>7
      <3>2. e \in of  OBVIOUS
      <3> HIDE DEF of
      <3>3. \A f \in of : f.code = e.code  BY <3>1, <3>2
      <3>4. \A f \in of : f \in importing.plan  BY DEF of
      <3> QED  BY <1>3, <3>2, <3>3, <3>4
    <2>2. v \in DOMAIN moved  BY <1>6, <1>7
    <2>3. moved'[v] = IF of = {} THEN moved[v] ELSE moved[v] + Copied(v, (CHOOSE f \in of : TRUE).found)
      BY <1>1, <2>2
    <2>4. (CHOOSE f \in of : TRUE) = e
      <3> HIDE DEF of
      <3> QED  BY <2>1
    <2> HIDE DEF of
    <2>5. moved'[v] = 0 + Copied(v, e.found)  BY <1>8, <2>1, <2>3, <2>4
    <2>6. Copied(v, e.found) = 1  BY <1>3, <1>7, CopiedOnce
    <2> QED  BY <2>5, <2>6
  <1>10. \A v \in DOMAIN moved : (\A e \in importing.plan : v \notin Brings(e)) => moved'[v] = moved[v]
    BY <1>1
  <1>11. DOMAIN moved' = DOMAIN moved  BY <1>1
  <1> QED  BY <1>6, <1>7, <1>9, <1>10, <1>11

LEMMA CommitImportKeeps ==
    ASSUME MovingAssumption, MovingInv, CommitImport
    PROVE  MovingInv'
  <1> DEFINE planned == {e.code : e \in importing.plan}
  <1>1. /\ importing # Absent /\ importing' = Absent
        /\ \A e \in importing.plan : IF e.code \in importing.new THEN ourLink[e.code] = Absent
                                     ELSE Brings(e) # {} => ourLink[e.code] # Absent
        /\ ourLink' = [c \in Codes |-> IF c \in importing.new
                                       THEN (CHOOSE e \in importing.plan : e.code = c).dest ELSE ourLink[c]]
        /\ imported' = [c \in Codes |-> IF importing.visits /\ c \in planned
                                        THEN importing.until ELSE imported[c]]
        /\ UNCHANGED <<second, held, theirVisits, export, snapshot, own, changes>>
    BY DEF CommitImport, shlink
  <1>2. /\ MovingTypeOK /\ ListSound /\ CollapseSound /\ LinksSound /\ RecoverSound
        /\ SnapshotSound /\ ImportSound /\ ImportedBefore /\ MovedSound
    BY DEF MovingInv
  <1>3. /\ export.step = "idle" /\ snapshot # Absent
        /\ importing.until = snapshot.until /\ importing.until \in Seconds
        /\ importing.new \in SUBSET planned
        /\ \A e \in importing.plan :
              /\ e.code \in Codes /\ e.dest \in Dests
              /\ \A v \in ToSet(e.found) : OfLink(v, e.code, importing.until, theirVisits)
    BY <1>1, PlanIs
  <1>4. /\ \A e \in importing.plan : \A v \in ToSet(e.found) :
              v \in DOMAIN moved /\ v \in DOMAIN theirVisits /\ VisitCode(v) = e.code
        /\ \A e \in importing.plan : \A v \in Brings(e) : v \in ToSet(e.found) /\ moved'[v] = 1
        /\ \A v \in DOMAIN moved :
              (\A e \in importing.plan : v \notin Brings(e)) => moved'[v] = moved[v]
        /\ DOMAIN moved' = DOMAIN moved
    BY CommitBrings
  <1>5. \A c \in Codes : /\ c \in importing.new => ourLink[c] = Absent /\ ourLink'[c] \in Dests
                         /\ c \notin importing.new => ourLink'[c] = ourLink[c]
    <2> SUFFICES ASSUME NEW c \in Codes, c \in importing.new
                 PROVE  ourLink[c] = Absent /\ ourLink'[c] \in Dests
      BY <1>1
    <2>1. PICK e \in importing.plan : e.code = c  BY <1>3
    <2>2. (CHOOSE f \in importing.plan : f.code = c) \in importing.plan  BY <2>1
    <2>3. ourLink'[c] = (CHOOSE f \in importing.plan : f.code = c).dest  BY <1>1
    <2> QED  BY <1>1, <1>3, <2>1, <2>2, <2>3
  <1>6. ourLink' \in [Codes -> Dests \cup {Absent}]
    <2>1. DOMAIN ourLink' = Codes /\ ourLink' = [c \in Codes |-> ourLink'[c]]  BY <1>1
    <2>2. \A c \in Codes : ourLink[c] \in Dests \cup {Absent}  BY <1>2 DEF MovingTypeOK
    <2>3. \A c \in Codes : ourLink'[c] \in Dests \cup {Absent}  BY <1>5, <2>2
    <2> QED  BY <2>1, <2>3
  <1>7. moved' \in [1 .. MaxTheirs -> {0, 1}]
    <2>1. DOMAIN moved = 1 .. MaxTheirs /\ \A v \in DOMAIN moved : moved[v] \in {0, 1}
      BY <1>2 DEF MovingTypeOK
    <2>2. \A v \in DOMAIN moved : moved'[v] \in {0, 1}  BY <1>4, <2>1
    <2>3. moved' = [v \in DOMAIN moved |-> moved'[v]]  BY DEF CommitImport
    <2> QED  BY <2>1, <2>2, <2>3
  <1>8. \A c \in Codes : /\ importing.visits /\ c \in planned => imported'[c] = importing.until
                         /\ ~(importing.visits /\ c \in planned) => imported'[c] = imported[c]
    BY <1>1
  <1>9. imported' \in [Codes -> Times]
    <2>1. \A c \in Codes : imported[c] \in Times  BY <1>2 DEF MovingTypeOK
    <2>2. importing.until \in Times  BY <1>3 DEF Times
    <2>3. \A c \in Codes : imported'[c] \in Times  BY <1>8, <2>1, <2>2
    <2>4. imported' = [c \in Codes |-> imported'[c]]  BY <1>1
    <2> QED  BY <2>3, <2>4
  <1>10. MovingTypeOK'  BY <1>1, <1>2, <1>6, <1>7, <1>9 DEF MovingTypeOK
  <1>11. \A c \in Codes : imported[c] <= snapshot.until /\ snapshot.until <= second /\ imported[c] <= second
    BY <1>2, <1>3 DEF ImportedBefore
  <1>12. /\ second \in Int /\ snapshot.until \in Int /\ \A c \in Codes : imported[c] \in Int
    BY <1>2, <1>3, TheConstants DEF MovingTypeOK
  <1>13. ImportedBefore'
    <2>1. \A c \in Codes : imported'[c] <= snapshot.until /\ imported'[c] <= second
      BY <1>3, <1>8, <1>11, <1>12
    <2> QED  BY <1>1, <1>3, <1>11, <2>1 DEF ImportedBefore
  <1>14. MovedSound'
    <2> SUFFICES ASSUME NEW v \in DOMAIN moved, moved'[v] > 0
                 PROVE  /\ v \in DOMAIN theirVisits
                        /\ ourLink'[VisitCode(v)] # Absent
                        /\ theirVisits[v].at <= imported'[VisitCode(v)]
      BY <1>1, <1>4 DEF MovedSound, VisitCode
    <2>1. CASE \E e \in importing.plan : v \in Brings(e)
      <3>1. PICK e \in importing.plan : v \in Brings(e)  BY <2>1
      <3>2. v \in ToSet(e.found) /\ importing.visits  BY <3>1 DEF Brings
      <3>3. v \in DOMAIN theirVisits /\ VisitCode(v) = e.code /\ theirVisits[v].at <= importing.until
        BY <1>3, <1>4, <3>2 DEF OfLink
      <3>4. e.code \in Codes /\ e.code \in planned  BY <1>3
      <3>5. ourLink'[e.code] # Absent
        <4>1. e.code \notin importing.new => ourLink[e.code] # Absent  BY <1>1, <3>1
        <4> QED  BY <1>5, <3>4, <4>1, TheConstants
      <3>6. imported'[e.code] = importing.until  BY <1>8, <3>2, <3>4
      <3> QED  BY <3>3, <3>5, <3>6
    <2>2. CASE \A e \in importing.plan : v \notin Brings(e)
      <3>1. moved[v] > 0  BY <1>4, <2>2
      <3>2. /\ v \in DOMAIN theirVisits /\ ourLink[VisitCode(v)] # Absent
            /\ theirVisits[v].at <= imported[VisitCode(v)]
        BY <1>2, <3>1 DEF MovedSound
      <3>3. VisitCode(v) \in Codes /\ theirVisits[v].at \in Nat  BY <1>2, <3>2, TheirVisitsAre
      <3>4. ourLink'[VisitCode(v)] # Absent  BY <1>5, <3>2, <3>3
      <3>5. theirVisits[v].at <= imported'[VisitCode(v)]
        <4> DEFINE c == VisitCode(v)
        <4>1. imported[c] \in Int /\ imported[c] <= importing.until /\ importing.until \in Int
          BY <1>3, <1>11, <1>12, <3>3
        <4>2. theirVisits[v].at <= imported[c]  BY <3>2
        <4>3. imported'[c] = importing.until \/ imported'[c] = imported[c]  BY <1>8, <3>3
        <4> HIDE DEF c
        <4>4. theirVisits[v].at <= imported'[c]  BY <3>3, <4>1, <4>2, <4>3
        <4> QED  BY <4>4 DEF c
      <3> QED  BY <3>2, <3>4, <3>5
    <2> QED  BY <2>1, <2>2
  <1>15. ListSound' /\ CollapseSound' /\ LinksSound'
    BY <1>1, <1>2 DEF ListSound, CollapseSound, LinksSound
  <1>16. RecoverSound'
    <2>1. export' = export /\ held' = held /\ theirVisits' = theirVisits  BY <1>1
    <2>2. CodeNow' = CodeNow /\ TheVisits' = TheVisits  BY <2>1, CurrentStays
    <2> QED  BY <1>2, <2>1, <2>2 DEF RecoverSound
  <1>17. SnapshotSound' /\ ImportSound'  BY <1>1, <1>2 DEF SnapshotSound, ImportSound
  <1> QED  BY <1>10, <1>13, <1>14, <1>15, <1>16, <1>17 DEF MovingInv

-----------------------------------------------------------------------------
(* Meanwhile.                                                               *)

\* What happens at Shurly leaves the export and the snapshot.
LEMMA ExportAside ==
    ASSUME MovingInv, UNCHANGED <<held, theirVisits, export, snapshot>>
    PROVE  ListSound' /\ CollapseSound' /\ LinksSound' /\ RecoverSound' /\ SnapshotSound'
  <1>1. ListSound /\ CollapseSound /\ LinksSound /\ RecoverSound /\ SnapshotSound  BY DEF MovingInv
  <1>2. ListSound' /\ CollapseSound' /\ LinksSound'
    BY <1>1 DEF ListSound, CollapseSound, LinksSound
  <1>3. RecoverSound'
    <2>1. CodeNow' = CodeNow /\ TheVisits' = TheVisits  BY CurrentStays
    <2> QED  BY <1>1, <2>1 DEF RecoverSound
  <1>4. SnapshotSound'  BY <1>1 DEF SnapshotSound
  <1> QED  BY <1>2, <1>3, <1>4

LEMMA ShurlyMakesKeeps ==
    ASSUME MovingAssumption, MovingInv, ShurlyMakes
    PROVE  MovingInv'
  <1>1. PICK c \in Codes \ OwnPaths, d \in Dests :
            ourLink[c] = Absent /\ ourLink' = [ourLink EXCEPT ![c] = d]
    BY DEF ShurlyMakes
  <1>2. /\ UNCHANGED <<second, held, theirVisits, export, snapshot, moved, own, imported, importing>>
        /\ changes' = changes + 1
    BY DEF ShurlyMakes, shlink
  <1>3. MovingTypeOK /\ ImportSound /\ ImportedBefore /\ MovedSound  BY DEF MovingInv
  <1>4. ourLink \in [Codes -> Dests \cup {Absent}] /\ changes \in Nat  BY <1>3 DEF MovingTypeOK
  <1>5. ourLink' \in [Codes -> Dests \cup {Absent}] /\ changes' \in Nat  BY <1>1, <1>2, <1>4
  <1>6. MovingTypeOK'  BY <1>2, <1>3, <1>5 DEF MovingTypeOK
  <1>7. ImportSound' /\ ImportedBefore'  BY <1>2, <1>3 DEF ImportSound, ImportedBefore
  <1>8. \A k \in Codes : ourLink[k] # Absent => ourLink'[k] # Absent  BY <1>1, <1>4, TheConstants
  <1>9. \A v \in DOMAIN theirVisits : VisitCode(v) \in Codes  BY <1>3, TheirVisitsAre
  <1>10. MovedSound'  BY <1>2, <1>3, <1>8, <1>9 DEF MovedSound, VisitCode
  <1> QED  BY <1>2, <1>6, <1>7, <1>10, ExportAside DEF MovingInv

LEMMA ShurlyDeletesKeeps ==
    ASSUME MovingAssumption, MovingInv, ShurlyDeletes
    PROVE  MovingInv'
  <1>1. PICK c \in Codes :
            /\ ourLink[c] # Absent
            /\ ourLink' = [ourLink EXCEPT ![c] = Absent]
            /\ moved' = [v \in DOMAIN moved |-> IF v \in DOMAIN theirVisits /\ VisitCode(v) = c
                                                THEN 0 ELSE moved[v]]
            /\ own' = [own EXCEPT ![c] = NoOwn]
            /\ imported' = [imported EXCEPT ![c] = NotBefore]
    BY DEF ShurlyDeletes
  <1>2. /\ UNCHANGED <<second, held, theirVisits, export, snapshot, importing>>
        /\ changes' = changes + 1
    BY DEF ShurlyDeletes, shlink
  <1>3. MovingTypeOK /\ ImportSound /\ ImportedBefore /\ MovedSound  BY DEF MovingInv
  <1>4. /\ ourLink \in [Codes -> Dests \cup {Absent}] /\ changes \in Nat
        /\ moved \in [1 .. MaxTheirs -> {0, 1}]
        /\ own \in [Codes -> [known : Times, unknown : Times]] /\ imported \in [Codes -> Times]
        /\ export.until \in Seconds /\ second \in Seconds
        /\ snapshot # Absent => snapshot \in Snapshots
    BY <1>3, ExportIs DEF MovingTypeOK
  <1>5. ourLink' \in [Codes -> Dests \cup {Absent}] /\ changes' \in Nat  BY <1>1, <1>2, <1>4
  <1>6. moved' \in [1 .. MaxTheirs -> {0, 1}]  BY <1>1, <1>4
  <1>7. own' \in [Codes -> [known : Times, unknown : Times]]
    <2>1. NoOwn \in [known : Times, unknown : Times]  BY DEF NoOwn, Times, NotBefore
    <2> QED  BY <1>1, <1>4, <2>1
  <1>8. imported' \in [Codes -> Times]  BY <1>1, <1>4 DEF Times
  <1>9. MovingTypeOK'  BY <1>2, <1>3, <1>5, <1>6, <1>7, <1>8 DEF MovingTypeOK
  <1>10. ImportSound'  BY <1>2, <1>3 DEF ImportSound
  <1>11. \A k \in Codes : k # c => ourLink'[k] = ourLink[k] /\ imported'[k] = imported[k]
    BY <1>1, <1>4
  <1>12. imported'[c] = NotBefore  BY <1>1, <1>4
  <1>13. ImportedBefore'
    <2>1. \A t \in Seconds : NotBefore <= t
      <3>1. \A t \in Seconds : t \in Nat  BY TheConstants
      <3> QED  BY <3>1 DEF NotBefore
    <2>2. snapshot # Absent => snapshot.until \in Seconds  BY <1>4 DEF Snapshots
    <2>3. \A k \in Codes :
             /\ imported'[k] <= second
             /\ export.step # "idle" => imported'[k] <= export.until /\ export.until <= second
             /\ snapshot # Absent => imported'[k] <= snapshot.until /\ snapshot.until <= second
      BY <1>3, <1>4, <1>11, <1>12, <2>1, <2>2 DEF ImportedBefore
    <2> QED  BY <1>2, <2>3 DEF ImportedBefore
  <1>14. MovedSound'
    <2> SUFFICES ASSUME NEW v \in DOMAIN moved, moved'[v] > 0
                 PROVE  /\ v \in DOMAIN theirVisits
                        /\ ourLink'[VisitCode(v)] # Absent
                        /\ theirVisits[v].at <= imported'[VisitCode(v)]
      BY <1>1, <1>2 DEF MovedSound, VisitCode
    <2>1. moved'[v] = moved[v] /\ ~(v \in DOMAIN theirVisits /\ VisitCode(v) = c)  BY <1>1
    <2>2. /\ v \in DOMAIN theirVisits /\ ourLink[VisitCode(v)] # Absent
          /\ theirVisits[v].at <= imported[VisitCode(v)]
      BY <1>3, <2>1 DEF MovedSound
    <2>3. VisitCode(v) \in Codes /\ VisitCode(v) # c  BY <1>3, <2>1, <2>2, TheirVisitsAre
    <2> QED  BY <1>11, <2>2, <2>3
  <1> QED  BY <1>2, <1>9, <1>10, <1>13, <1>14, ExportAside DEF MovingInv

LEMMA ShurlyVisitedKeeps ==
    ASSUME MovingAssumption, MovingInv, ShurlyVisited
    PROVE  MovingInv'
  <1>1. PICK c \in Codes : \/ own' = [own EXCEPT ![c].known = second]
                           \/ own' = [own EXCEPT ![c].unknown = second]
    BY DEF ShurlyVisited
  <1>2. /\ UNCHANGED <<second, held, theirVisits, export, snapshot, ourLink, moved, imported, importing>>
        /\ changes' = changes + 1
    BY DEF ShurlyVisited, shlink
  <1>3. MovingTypeOK /\ ImportSound /\ ImportedBefore /\ MovedSound  BY DEF MovingInv
  <1>4. /\ own \in [Codes -> [known : Times, unknown : Times]] /\ second \in Times /\ changes \in Nat
    BY <1>3 DEF MovingTypeOK, Times
  <1>5. own' \in [Codes -> [known : Times, unknown : Times]] /\ changes' \in Nat  BY <1>1, <1>2, <1>4
  <1>6. MovingTypeOK'  BY <1>2, <1>3, <1>5 DEF MovingTypeOK
  <1>7. ImportSound' /\ ImportedBefore' /\ MovedSound'
    BY <1>2, <1>3 DEF ImportSound, ImportedBefore, MovedSound, VisitCode
  <1> QED  BY <1>2, <1>6, <1>7, ExportAside DEF MovingInv

LEMMA SecondPassesKeeps ==
    ASSUME MovingAssumption, MovingInv, SecondPasses
    PROVE  MovingInv'
  <1>1. /\ second < LastSecond /\ second' = second + 1
        /\ UNCHANGED <<held, theirVisits, export, snapshot, ourLink, moved, own, imported, importing, changes>>
    BY DEF SecondPasses, shurly
  <1>2. MovingTypeOK /\ ImportSound /\ ImportedBefore /\ MovedSound  BY DEF MovingInv
  <1>3. second \in Seconds /\ LastSecond \in Nat  BY <1>2, TheConstants DEF MovingTypeOK
  <1>4. second' \in Seconds /\ second \in Nat  BY <1>1, <1>3 DEF Seconds
  <1>5. MovingTypeOK'  BY <1>1, <1>2, <1>4 DEF MovingTypeOK
  <1>6. ImportedBefore'
    <2>1. \A t \in Int : t <= second => t <= second'  BY <1>1, <1>4
    <2>2. \A c \in Codes : imported[c] \in Int  BY <1>2, TheConstants DEF MovingTypeOK
    <2>3. export.until \in Int  BY <1>2, ExportIs, TheConstants
    <2>4. snapshot # Absent => snapshot.until \in Int
      <3>1. snapshot # Absent => snapshot.until \in Seconds  BY <1>2 DEF MovingTypeOK, Snapshots
      <3> QED  BY <3>1, TheConstants
    <2>5. \A c \in Codes :
             /\ imported[c] <= second'
             /\ export.step # "idle" => imported[c] <= export.until /\ export.until <= second'
             /\ snapshot # Absent => imported[c] <= snapshot.until /\ snapshot.until <= second'
      BY <1>2, <2>1, <2>2, <2>3, <2>4 DEF ImportedBefore
    <2> QED  BY <1>1, <2>5 DEF ImportedBefore
  <1>7. ImportSound' /\ MovedSound'
    BY <1>1, <1>2 DEF ImportSound, MovedSound, VisitCode
  <1> QED  BY <1>1, <1>5, <1>6, <1>7, ExportAside DEF MovingInv

\* A visit that comes leaves those before it.
LEMMA VisitsStay ==
    ASSUME NEW came, NEW more,
           \A v \in DOMAIN came : v \in DOMAIN more /\ more[v] = came[v]
    PROVE  /\ \A v, c, until : OfLink(v, c, until, came) => OfLink(v, c, until, more)
           /\ \A v \in DOMAIN came : \A range : InRange(v, range, came) <=> InRange(v, range, more)
           /\ \A v \in DOMAIN came : \A gaps : Lost(v, gaps, came) => Lost(v, gaps, more)
           /\ \A e, until : EntrySound(e, until, came) => EntrySound(e, until, more)
  <1>1. \A v, c, until : OfLink(v, c, until, came) => OfLink(v, c, until, more)  BY DEF OfLink
  <1>2. \A v \in DOMAIN came : \A range : InRange(v, range, came) <=> InRange(v, range, more)  BY DEF InRange
  <1>3. \A v \in DOMAIN came : \A gaps : Lost(v, gaps, came) => Lost(v, gaps, more)  BY <1>2 DEF Lost
  <1>4. ASSUME NEW e, NEW until, EntrySound(e, until, came) PROVE EntrySound(e, until, more)
    <2>1. /\ EachOnce(e.found) /\ \A v \in ToSet(e.found) : OfLink(v, e.code, until, came)
          /\ \A v \in e.owed : v \in DOMAIN came /\ (v \in ToSet(e.found) \/ Lost(v, e.gaps, came))
      BY <1>4 DEF EntrySound
    <2> QED  BY <1>1, <1>3, <2>1 DEF EntrySound
  <1> QED  BY <1>1, <1>2, <1>3, <1>4

LEMMA ShlinkVisitedKeeps ==
    ASSUME MovingAssumption, MovingInv, ShlinkVisited
    PROVE  MovingInv'
  <1>1. PICK r \in held, good \in BOOLEAN :
            theirVisits' = Append(theirVisits, [row |-> r, at |-> second, good |-> good])
    BY DEF ShlinkVisited
  <1>2. /\ Len(theirVisits) < MaxTheirs
        /\ UNCHANGED <<second, held, export, snapshot, ourLink, moved, own, imported, importing, changes>>
    BY DEF ShlinkVisited, shurly
  <1>3. /\ MovingTypeOK /\ ListSound /\ CollapseSound /\ LinksSound /\ RecoverSound
        /\ SnapshotSound /\ ImportSound /\ ImportedBefore /\ MovedSound
    BY DEF MovingInv
  <1> DEFINE last == [row |-> r, at |-> second, good |-> good]
             n     == Len(theirVisits)
  <1>4. theirVisits \in Seq(Theirs) /\ second \in Seconds /\ held \in SUBSET ShlinkRows
    BY <1>3 DEF MovingTypeOK
  <1>5. last \in Theirs  BY <1>4 DEF Theirs
  <1>6. theirVisits' = Append(theirVisits, last)  BY <1>1
  <1> HIDE DEF last
  <1>7. /\ theirVisits' \in Seq(Theirs) /\ Len(theirVisits') = n + 1
        /\ \A i \in 1 .. n : theirVisits'[i] = theirVisits[i]
    BY <1>4, <1>5, <1>6, AppendProperties
  <1>8. /\ n \in Nat /\ MaxTheirs \in Nat /\ DOMAIN theirVisits = 1 .. n /\ DOMAIN theirVisits' = 1 .. n + 1
    BY <1>4, <1>7, TheConstants, LenProperties
  <1>9. Len(theirVisits') <= MaxTheirs  BY <1>2, <1>7, <1>8
  <1>10. \A v \in DOMAIN theirVisits : v \in DOMAIN theirVisits' /\ theirVisits'[v] = theirVisits[v]
    BY <1>7, <1>8
  <1>11. MovingTypeOK'  BY <1>2, <1>3, <1>7, <1>9 DEF MovingTypeOK
  <1>12. ListSound'
    <2>1. Ordered(held)' = Ordered(held)  BY <1>2 DEF Ordered, Sorted, ByCode
    <2> QED  BY <1>2, <1>3, <2>1 DEF ListSound
  <1>13. CollapseSound'  BY <1>2, <1>3 DEF CollapseSound
  <1>14. \A e, until : EntrySound(e, until, theirVisits) => EntrySound(e, until, theirVisits')
    <2>1. PICK came : came = theirVisits  OBVIOUS
    <2>2. PICK more : more = theirVisits'  OBVIOUS
    <2>3. \A v \in DOMAIN came : v \in DOMAIN more /\ more[v] = came[v]  BY <1>10, <2>1, <2>2
    <2>4. \A e, until : EntrySound(e, until, came) => EntrySound(e, until, more)  BY <2>3, VisitsStay
    <2> QED  BY <2>1, <2>2, <2>4
  <1>15. LinksSound'  BY <1>2, <1>3, <1>14 DEF LinksSound
  <1>16. SnapshotSound'  BY <1>2, <1>3, <1>14 DEF SnapshotSound
  <1>17. RecoverSound'
    <2>1. PICK came : came = theirVisits  OBVIOUS
    <2>2. PICK more : more = theirVisits'  OBVIOUS
    <2>3. \A v \in DOMAIN came : v \in DOMAIN more /\ more[v] = came[v]  BY <1>10, <2>1, <2>2
    <2>4. /\ \A v, c, until : OfLink(v, c, until, came) => OfLink(v, c, until, more)
          /\ \A v \in DOMAIN came : \A range : InRange(v, range, came) <=> InRange(v, range, more)
          /\ \A v \in DOMAIN came : \A gaps : Lost(v, gaps, came) => Lost(v, gaps, more)
      BY <2>3, VisitsStay
    <2>5. CodeNow' = CodeNow  BY <1>2 DEF CodeNow, Current
    <2>6. TheVisits \subseteq TheVisits'
      BY <1>2, <1>10, <2>5 DEF TheVisits, Holds, RowOf
    <2>7. CASE export.step = "recover"
      <3>1. /\ Len(export.entries) < Len(export.links)
            /\ EachOnce(export.found)
            /\ \A v \in ToSet(export.found) : OfLink(v, CodeNow, export.until, came)
            /\ \A i \in DOMAIN export.pending : export.pending[i].end <= export.until
            /\ \A i, j \in DOMAIN export.pending : i < j => export.pending[i].end < export.pending[j].start
            /\ \A v \in ToSet(export.found), i \in DOMAIN export.pending : export.pending[i].end < came[v].at
            /\ \A v \in export.owed :
                  /\ v \in TheVisits
                  /\ \/ v \in ToSet(export.found) \/ Lost(v, export.gaps, came)
                     \/ \E i \in DOMAIN export.pending : InRange(v, export.pending[i], came)
        BY <1>3, <2>1, <2>7 DEF RecoverSound
      <3>2. \A v \in ToSet(export.found) : v \in DOMAIN came /\ more[v] = came[v]
        BY <2>3, <3>1 DEF OfLink
      <3>3. \A v \in TheVisits : v \in DOMAIN came  BY <2>1 DEF TheVisits
      <3>4. \A v \in ToSet(export.found) : OfLink(v, CodeNow, export.until, more)  BY <2>4, <3>1
      <3>5. \A v \in ToSet(export.found), i \in DOMAIN export.pending : export.pending[i].end < more[v].at
        BY <3>1, <3>2
      <3>6. \A v \in export.owed :
               \/ v \in ToSet(export.found) \/ Lost(v, export.gaps, more)
               \/ \E i \in DOMAIN export.pending : InRange(v, export.pending[i], more)
        BY <2>4, <3>1, <3>3
      <3>7. \A v \in export.owed : v \in TheVisits'  BY <2>6, <3>1
      <3> QED  BY <1>2, <2>2, <2>5, <2>7, <3>1, <3>4, <3>5, <3>6, <3>7 DEF RecoverSound
    <2>8. CASE export.step # "recover"
      BY <1>2, <1>3, <2>8 DEF RecoverSound
    <2> QED  BY <2>7, <2>8
  <1>18. ImportSound' /\ ImportedBefore'  BY <1>2, <1>3 DEF ImportSound, ImportedBefore
  <1>19. MovedSound'
    <2>1. \A v \in DOMAIN theirVisits : VisitCode(v)' = VisitCode(v)  BY <1>10 DEF VisitCode
    <2> QED  BY <1>2, <1>3, <1>10 DEF MovedSound, VisitCode
  <1> QED
    BY <1>11, <1>12, <1>13, <1>15, <1>16, <1>17, <1>18, <1>19 DEF MovingInv

\* The row that Shlink finds for a code stays the one, while it is held and none before it comes.
LEMMA RowStays ==
    ASSUME MovingAssumption, MovingTypeOK, held' \in SUBSET ShlinkRows,
           NEW c, Holds(c) > 0, RowOf(c) \in held',
           \A q \in held' : CodeOf[q] = c => RowOf(c) <= q
    PROVE  Holds(c)' > 0 /\ RowOf(c)' = RowOf(c)
  <1> DEFINE rows == {r \in held' : CodeOf[r] = c}
             row  == RowOf(c)
  <1>1. row \in held /\ CodeOf[row] = c  BY RowOfIs
  <1>2. held' \in SUBSET Nat  BY TheConstants
  <1>3. row \in rows /\ \A q \in rows : row <= q  BY <1>1
  <1>4. RowOf(c)' = CHOOSE r \in rows : \A q \in rows : r <= q  BY DEF RowOf
  <1>5. Holds(c)' = Cardinality(rows)  BY DEF Holds
  <1>6. IsFiniteSet(rows) /\ rows \in SUBSET Nat
    <2>1. rows \in SUBSET ShlinkRows  OBVIOUS
    <2> QED  BY <1>2, <2>1, TheConstants, FS_Subset
  <1> HIDE DEF rows, row
  <1>7. Cardinality(rows) > 0
    <2>1. Cardinality(rows) \in Nat /\ Cardinality(rows) # 0  BY <1>3, <1>6, FS_CardinalityType, FS_EmptySet
    <2> QED  BY <2>1
  <1>8. \A r \in rows : (\A q \in rows : r <= q) => r = row  BY <1>3, <1>6
  <1>9. (CHOOSE r \in rows : \A q \in rows : r <= q) = row  BY <1>3, <1>8
  <1> QED  BY <1>4, <1>5, <1>7, <1>9 DEF row

\* A link made or deleted at Shlink leaves what is written and imported, and what was listed.
LEMMA LinksChange ==
    ASSUME MovingAssumption, MovingInv, held' \in SUBSET ShlinkRows, changes' = changes + 1,
           export' \in Exports, export'.step = export.step, export'.until = export.until,
           export'.listed = export.listed, export'.links = export.links, export'.entries = export.entries,
           export.step # "list" => export'.made = export.made /\ export'.gone = export.gone
                                   /\ export'.stayed = export.stayed,
           UNCHANGED <<second, theirVisits, snapshot, shurly, importing>>
    PROVE  /\ MovingTypeOK' /\ CollapseSound' /\ LinksSound'
           /\ SnapshotSound' /\ ImportSound' /\ ImportedBefore' /\ MovedSound'
  <1>1. UNCHANGED <<second, theirVisits, snapshot, ourLink, moved, own, imported, importing>>
    BY DEF shurly
  <1>2. /\ MovingTypeOK /\ CollapseSound /\ LinksSound
        /\ SnapshotSound /\ ImportSound /\ ImportedBefore /\ MovedSound
    BY DEF MovingInv
  <1>3. MovingTypeOK'
    <2>1. changes' \in Nat  BY <1>2 DEF MovingTypeOK
    <2> QED  BY <1>1, <1>2, <2>1 DEF MovingTypeOK
  <1>4. CollapseSound'  BY <1>2 DEF CollapseSound
  <1>5. LinksSound'
    <2>1. CASE export.step \in {"visits", "recover"}
      <3>1. /\ export'.made = export.made /\ export'.gone = export.gone /\ export'.stayed = export.stayed
            /\ export'.step \in {"visits", "recover"}
        BY <2>1
      <3>2. \A i \in DOMAIN export'.entries :
               /\ export'.entries[i].code = CodeOf[export'.links[i].row]
               /\ EntrySound(export'.entries[i], export'.until, theirVisits')
        BY <1>1, <1>2, <2>1 DEF LinksSound
      <3> QED  BY <1>2, <2>1, <3>1, <3>2 DEF LinksSound
    <2>2. CASE export.step \notin {"visits", "recover"}  BY <1>2, <2>2 DEF LinksSound
    <2> QED  BY <2>1, <2>2
  <1>6. SnapshotSound' /\ ImportSound'  BY <1>1, <1>2 DEF SnapshotSound, ImportSound
  <1>7. ImportedBefore'  BY <1>1, <1>2 DEF ImportedBefore
  <1>8. MovedSound'  BY <1>1, <1>2 DEF MovedSound, VisitCode
  <1> QED  BY <1>3, <1>4, <1>5, <1>6, <1>7, <1>8

\* What is still owed is of the row that Shlink finds, then as before.
LEMMA RecoveryStays ==
    ASSUME MovingAssumption, MovingInv, held' \in SUBSET ShlinkRows,
           export'.step = export.step, export'.until = export.until, export'.links = export.links,
           export'.entries = export.entries, export'.pending = export.pending,
           export'.found = export.found, export'.gaps = export.gaps,
           export'.owed \subseteq export.owed, UNCHANGED theirVisits,
           \A v \in export'.owed : v \in TheVisits =>
              /\ RowOf(CodeNow) \in held'
              /\ \A q \in held' : CodeOf[q] = CodeNow => RowOf(CodeNow) <= q
    PROVE  RecoverSound'
  <1>1. MovingTypeOK /\ RecoverSound  BY DEF MovingInv
  <1>2. CASE export.step # "recover"  BY <1>1, <1>2 DEF RecoverSound
  <1>3. CASE export.step = "recover"
    <2>1. PICK c : c = CodeNow  OBVIOUS
    <2>2. CodeNow' = CodeNow  BY DEF CodeNow, Current
    <2>3. ASSUME NEW v \in export'.owed
          PROVE  /\ v \in TheVisits'
                 /\ \/ v \in ToSet(export.found) \/ Lost(v, export.gaps, theirVisits)
                    \/ \E i \in DOMAIN export.pending : InRange(v, export.pending[i], theirVisits)
      <3>1. /\ v \in TheVisits
            /\ \/ v \in ToSet(export.found) \/ Lost(v, export.gaps, theirVisits)
               \/ \E i \in DOMAIN export.pending : InRange(v, export.pending[i], theirVisits)
        BY <1>1, <1>3 DEF RecoverSound
      <3>2. /\ v \in DOMAIN theirVisits /\ Holds(c) > 0 /\ theirVisits[v].row = RowOf(c)
            /\ theirVisits[v].at <= export.until
        BY <2>1, <3>1 DEF TheVisits
      <3>3. RowOf(c) \in held' /\ \A q \in held' : CodeOf[q] = c => RowOf(c) <= q
        BY <2>1, <3>1
      <3>4. Holds(c)' > 0 /\ RowOf(c)' = RowOf(c)
        BY <1>1, <3>2, <3>3, RowStays
      <3>5. CodeNow' = c  BY <2>1, <2>2
      <3>6. Holds(CodeNow)' > 0 /\ RowOf(CodeNow)' = RowOf(c)
        BY <3>4, <3>5 DEF Holds, RowOf
      <3>7. v \in TheVisits'  BY <3>2, <3>6 DEF TheVisits
      <3> QED  BY <3>1, <3>7
    <2>4. /\ Len(export.entries) < Len(export.links)
          /\ EachOnce(export.found)
          /\ \A v \in ToSet(export.found) : OfLink(v, CodeNow, export.until, theirVisits)
          /\ \A i \in DOMAIN export.pending : export.pending[i].end <= export.until
          /\ \A i, j \in DOMAIN export.pending : i < j => export.pending[i].end < export.pending[j].start
          /\ \A v \in ToSet(export.found), i \in DOMAIN export.pending :
                export.pending[i].end < theirVisits[v].at
      BY <1>1, <1>3 DEF RecoverSound
    <2> QED  BY <1>3, <2>2, <2>3, <2>4 DEF RecoverSound
  <1> QED  BY <1>2, <1>3

LEMMA ShlinkMakesKeeps ==
    ASSUME MovingAssumption, MovingInv, ShlinkMakes
    PROVE  MovingInv'
  <1>1. PICK r \in ShlinkRows \ held :
            /\ \A q \in held : CodeOf[q] = CodeOf[r] => q < r
            /\ held' = held \cup {r}
    BY DEF ShlinkMakes
  <1>2. /\ export' = [export EXCEPT !.made = @ \/ Between]
        /\ changes' = changes + 1
        /\ UNCHANGED <<second, theirVisits, snapshot, shurly, importing>>
        /\ UNCHANGED <<theirVisits>>
    BY DEF ShlinkMakes
  <1>3. MovingTypeOK /\ ListSound  BY DEF MovingInv
  <1>4. /\ held \in SUBSET ShlinkRows /\ held' \in SUBSET ShlinkRows
        /\ \A q \in held' : q \in Nat
    BY <1>1, <1>3, TheConstants DEF MovingTypeOK
  <1>5. /\ export \in Exports /\ export.made \in BOOLEAN /\ export.gone \in BOOLEAN
        /\ export.page \in Nat \ {0}
    BY <1>3, ExportIs
  <1>6. export' \in Exports
    <2>1. (export.made \/ Between) \in BOOLEAN  BY <1>5 DEF Between
    <2> QED  BY <1>2, <1>5, <2>1 DEF Exports
  <1>7. /\ export'.step = export.step /\ export'.until = export.until /\ export'.page = export.page
        /\ export'.listed = export.listed /\ export'.counts = export.counts
        /\ export'.links = export.links /\ export'.entries = export.entries
        /\ export'.pending = export.pending /\ export'.found = export.found
        /\ export'.gaps = export.gaps /\ export'.owed = export.owed
        /\ export'.made = (export.made \/ Between) /\ export'.gone = export.gone
        /\ export'.stayed = export.stayed
    BY <1>2, <1>5 DEF Exports
  <1>8. /\ MovingTypeOK' /\ CollapseSound' /\ LinksSound'
        /\ SnapshotSound' /\ ImportSound' /\ ImportedBefore' /\ MovedSound'
    <2>1. export.step # "list" => export'.made = export.made  BY <1>5, <1>7 DEF Between
    <2> QED  BY <1>2, <1>4, <1>6, <1>7, <2>1, LinksChange
  <1>9. RecoverSound'
    <2>1. ASSUME NEW v \in export'.owed, v \in TheVisits
          PROVE  /\ RowOf(CodeNow) \in held'
                 /\ \A q \in held' : CodeOf[q] = CodeNow => RowOf(CodeNow) <= q
      <3>1. PICK c : c = CodeNow  OBVIOUS
      <3>2. Holds(c) > 0  BY <2>1, <3>1 DEF TheVisits
      <3>3. /\ RowOf(c) \in held /\ CodeOf[RowOf(c)] = c
            /\ \A q \in held : CodeOf[q] = c => RowOf(c) <= q
        BY <1>3, <3>2, RowOfIs
      <3>4. CodeOf[r] = c => RowOf(c) <= r  BY <1>1, <1>4, <3>3
      <3> QED  BY <1>1, <3>1, <3>3, <3>4
    <2> QED  BY <1>2, <1>4, <1>7, <2>1, RecoveryStays
  <1>10. Cardinality(held) \in Nat /\ Cardinality(held') = Cardinality(held) + 1
    <2>1. IsFiniteSet(held)  BY <1>4, TheConstants, FS_Subset
    <2> QED  BY <1>1, <2>1, FS_CardinalityType, FS_AddElement
  <1>11. ListSound'
    <2> SUFFICES ASSUME export.step = "list" PROVE ListSound'  BY <1>7 DEF ListSound
    <2> DEFINE n == Cardinality(held)
    <2>1. /\ export.stayed \subseteq held
          /\ export.page = 1 => /\ export.listed = <<>> /\ export.counts = {}
                                /\ ~export.made /\ ~export.gone
          /\ (export.page > 1 /\ ~export.made /\ ~export.gone) => export.counts = {n}
          /\ (export.page > 1 /\ export.made /\ ~export.gone) => \E m \in export.counts : m < n
      BY <1>3 DEF ListSound
    <2>2. /\ export.page = 1 => export'.made = export.made
          /\ export.page > 1 => export'.made = TRUE
      <3>1. Between <=> export.page > 1  BY DEF Between
      <3>2. export.page = 1 => ~(export.page > 1)  OBVIOUS
      <3> QED  BY <1>5, <1>7, <3>1, <3>2
    <2>3. export.page > 1 /\ ~export.gone => \E m \in export.counts : m < Cardinality(held')
      <3> SUFFICES ASSUME export.page > 1, ~export.gone
                   PROVE  \E m \in export.counts : m < Cardinality(held')
        OBVIOUS
      <3>1. PICK m \in export.counts : m <= n
        <4>1. n \in Nat /\ \A m \in export.counts : m \in Nat  BY <1>3, <1>10, ExportIs
        <4> HIDE DEF n
        <4>2. n <= n /\ \A m \in Nat : m < n => m <= n  BY <4>1
        <4> QED  BY <2>1, <4>1, <4>2
      <3>2. m \in Nat  BY <1>3, ExportIs
      <3>3. m < Cardinality(held')  BY <1>10, <3>1, <3>2
      <3> QED  BY <3>3
    <2>4. export'.stayed \subseteq held'  BY <1>1, <1>7, <2>1
    <2>5. export'.page = 1 => /\ export'.listed = <<>> /\ export'.counts = {}
                              /\ ~export'.made /\ ~export'.gone
      BY <1>7, <2>1, <2>2
    <2>6. export'.page > 1 => export'.made  BY <1>7, <2>2
    <2>7. (export'.page > 1 /\ export'.made /\ ~export'.gone) => \E m \in export'.counts : m < Cardinality(held')
      BY <1>7, <2>3
    <2> QED  BY <2>4, <2>5, <2>6, <2>7 DEF ListSound
  <1> QED  BY <1>8, <1>9, <1>11 DEF MovingInv

LEMMA ShlinkDeletesKeeps ==
    ASSUME MovingAssumption, MovingInv, ShlinkDeletes
    PROVE  MovingInv'
  <1>1. PICK r \in held :
            /\ held' = held \ {r}
            /\ export' = [export EXCEPT !.gone = @ \/ Between,
                                        !.stayed = IF export.step = "list" THEN @ \ {r} ELSE @,
                                        !.owed = {v \in @ : theirVisits[v].row # r}]
    BY DEF ShlinkDeletes
  <1>2. /\ changes' = changes + 1
        /\ UNCHANGED <<second, theirVisits, snapshot, shurly, importing>>
        /\ UNCHANGED <<theirVisits>>
    BY DEF ShlinkDeletes
  <1>3. MovingTypeOK /\ ListSound  BY DEF MovingInv
  <1>4. /\ held \in SUBSET ShlinkRows /\ held' \in SUBSET ShlinkRows
        /\ \A q \in held : q \in Nat
    BY <1>1, <1>3, TheConstants DEF MovingTypeOK
  <1>5. /\ export \in Exports /\ export.made \in BOOLEAN /\ export.gone \in BOOLEAN
        /\ export.page \in Nat \ {0} /\ export.stayed \in SUBSET ShlinkRows /\ export.owed \in SUBSET Nat
    BY <1>3, ExportIs
  <1> DEFINE gone   == export.gone \/ Between
             stayed == IF export.step = "list" THEN export.stayed \ {r} ELSE export.stayed
             owed   == {v \in export.owed : theirVisits[v].row # r}
  <1>6. /\ export' = [export EXCEPT !.gone = gone, !.stayed = stayed, !.owed = owed]
        /\ gone \in BOOLEAN /\ stayed \in SUBSET ShlinkRows /\ owed \in SUBSET Nat
        /\ owed \subseteq export.owed
    BY <1>1, <1>5 DEF Between
  <1>7. \A v \in owed : theirVisits[v].row # r  OBVIOUS
  <1>8. export.step # "list" => gone = export.gone /\ stayed = export.stayed  BY <1>5 DEF Between
  <1>9. export.step = "list" => stayed = export.stayed \ {r} /\ gone = (export.gone \/ export.page > 1)
    BY DEF Between
  <1> HIDE DEF gone, stayed, owed
  <1>10. export' \in Exports  BY <1>5, <1>6 DEF Exports
  <1>11. /\ export'.step = export.step /\ export'.until = export.until /\ export'.page = export.page
         /\ export'.listed = export.listed /\ export'.counts = export.counts
         /\ export'.links = export.links /\ export'.entries = export.entries
         /\ export'.pending = export.pending /\ export'.found = export.found
         /\ export'.gaps = export.gaps /\ export'.owed = owed
         /\ export'.made = export.made /\ export'.gone = gone /\ export'.stayed = stayed
    BY <1>5, <1>6 DEF Exports
  <1>12. /\ MovingTypeOK' /\ CollapseSound' /\ LinksSound'
         /\ SnapshotSound' /\ ImportSound' /\ ImportedBefore' /\ MovedSound'
    BY <1>2, <1>4, <1>8, <1>10, <1>11, LinksChange
  <1>13. RecoverSound'
    <2>1. ASSUME NEW v \in export'.owed, v \in TheVisits
          PROVE  /\ RowOf(CodeNow) \in held'
                 /\ \A q \in held' : CodeOf[q] = CodeNow => RowOf(CodeNow) <= q
      <3>1. PICK c : c = CodeNow  OBVIOUS
      <3>2. Holds(c) > 0 /\ theirVisits[v].row = RowOf(c)  BY <2>1, <3>1 DEF TheVisits
      <3>3. /\ RowOf(c) \in held /\ CodeOf[RowOf(c)] = c
            /\ \A q \in held : CodeOf[q] = c => RowOf(c) <= q
        BY <1>3, <3>2, RowOfIs
      <3>4. RowOf(c) # r  BY <1>7, <1>11, <3>2
      <3> QED  BY <1>1, <3>1, <3>3, <3>4
    <2> QED  BY <1>2, <1>4, <1>6, <1>11, <2>1, RecoveryStays
  <1>14. Cardinality(held) \in Nat /\ Cardinality(held') = Cardinality(held) - 1
    <2>1. IsFiniteSet(held)  BY <1>4, TheConstants, FS_Subset
    <2> QED  BY <1>1, <2>1, FS_CardinalityType, FS_RemoveElement
  <1>15. ListSound'
    <2> SUFFICES ASSUME export.step = "list" PROVE ListSound'  BY <1>11 DEF ListSound
    <2> DEFINE n == Cardinality(held)
    <2>1. /\ export.stayed \subseteq held
          /\ export.page = 1 => /\ export.listed = <<>> /\ export.counts = {}
                                /\ ~export.made /\ ~export.gone
          /\ (export.page > 1 /\ ~export.made /\ ~export.gone) => export.counts = {n}
          /\ (export.page > 1 /\ export.gone /\ ~export.made) => \E m \in export.counts : m > n
      BY <1>3 DEF ListSound
    <2>2. /\ export.page = 1 => export'.gone = export.gone
          /\ export.page > 1 => export'.gone = TRUE
      <3>1. export.page = 1 => ~(export.page > 1)  OBVIOUS
      <3> QED  BY <1>5, <1>9, <1>11, <3>1
    <2>3. export.page > 1 /\ ~export.made => \E m \in export.counts : m > Cardinality(held')
      <3> SUFFICES ASSUME export.page > 1, ~export.made
                   PROVE  \E m \in export.counts : m > Cardinality(held')
        OBVIOUS
      <3>1. PICK m \in export.counts : m >= n
        <4>1. n \in Nat /\ \A m \in export.counts : m \in Nat  BY <1>3, <1>14, ExportIs
        <4> HIDE DEF n
        <4>2. n >= n /\ \A m \in Nat : m > n => m >= n  BY <4>1
        <4> QED  BY <2>1, <4>1, <4>2
      <3>2. m \in Nat  BY <1>3, ExportIs
      <3>3. m > Cardinality(held')  BY <1>14, <3>1, <3>2
      <3> QED  BY <3>3
    <2>4. export'.stayed \subseteq held'  BY <1>1, <1>9, <1>11, <2>1
    <2>5. export'.page = 1 => /\ export'.listed = <<>> /\ export'.counts = {}
                              /\ ~export'.made /\ ~export'.gone
      BY <1>11, <2>1, <2>2
    <2>6. export'.page > 1 => export'.gone  BY <1>11, <2>2
    <2>7. (export'.page > 1 /\ export'.gone /\ ~export'.made) => \E m \in export'.counts : m > Cardinality(held')
      BY <1>11, <2>3
    <2> QED  BY <2>4, <2>5, <2>6, <2>7 DEF ListSound
  <1> QED  BY <1>12, <1>13, <1>15 DEF MovingInv

-----------------------------------------------------------------------------
(* The theorems.                                                            *)

LEMMA MovingStarts ==
    ASSUME MovingAssumption, MovingInit
    PROVE  MovingInv
  <1>1. /\ second = 0 /\ held \in HeldFirst /\ theirVisits = <<>> /\ export = NoExport /\ snapshot = Absent
        /\ ourLink = [c \in Codes |-> Absent] /\ moved = [v \in 1 .. MaxTheirs |-> 0]
        /\ own = [c \in Codes |-> NoOwn] /\ importing = Absent
        /\ imported = [c \in Codes |-> NotBefore] /\ changes = 0
    BY DEF MovingInit
  <1>2. export \in Exports /\ export.step = "idle" /\ export.entries = <<>> /\ export.found = <<>>
        /\ export.gaps = {} /\ export.owed = {} /\ export.pending = <<>>
    BY <1>1, NoExportIs DEF NoExport
  <1>3. MovingTypeOK
    <2>1. held \in SUBSET ShlinkRows  BY <1>1 DEF MovingAssumption
    <2>2. theirVisits \in Seq(Theirs) /\ Len(theirVisits) = 0
      <3> DEFINE T == Theirs
      <3> HIDE DEF T
      <3>1. theirVisits \in Seq(T) /\ Len(theirVisits) = 0  BY <1>1
      <3> QED  BY <3>1 DEF T
    <2>3. Len(theirVisits) <= MaxTheirs  BY <2>2, TheConstants
    <2>4. NoOwn \in [known : Times, unknown : Times] /\ NotBefore \in Times
      BY DEF NoOwn, Times, NotBefore
    <2> QED  BY <1>1, <1>2, <2>1, <2>2, <2>3, <2>4, TheConstants DEF MovingTypeOK
  <1>4. ListSound /\ CollapseSound /\ LinksSound /\ RecoverSound
    BY <1>2 DEF ListSound, CollapseSound, LinksSound, RecoverSound
  <1>5. SnapshotSound /\ ImportSound  BY <1>1 DEF SnapshotSound, ImportSound
  <1>6. ImportedBefore  BY <1>1, <1>2, TheConstants DEF ImportedBefore
  <1>7. MovedSound  BY <1>1 DEF MovedSound
  <1> QED  BY <1>3, <1>4, <1>5, <1>6, <1>7 DEF MovingInv

LEMMA NothingMoves ==
    ASSUME MovingInv, UNCHANGED movingVars
    PROVE  MovingInv'
  <1>1. UNCHANGED <<second, held, theirVisits, export, snapshot, ourLink, moved, own, importing, imported, changes>>
    BY DEF movingVars
  <1>2. MovingTypeOK /\ ImportSound /\ ImportedBefore /\ MovedSound  BY DEF MovingInv
  <1>3. MovingTypeOK'  BY <1>1, <1>2 DEF MovingTypeOK
  <1>4. ImportSound' /\ ImportedBefore' /\ MovedSound'
    BY <1>1, <1>2 DEF ImportSound, ImportedBefore, MovedSound, VisitCode
  <1> QED  BY <1>1, <1>3, <1>4, ExportAside DEF MovingInv

\* As many members as places, when none comes twice.
LEMMA OnceEach ==
    ASSUME NEW s \in Seq(Nat), EachOnce(s)
    PROVE  Len(s) = Cardinality(ToSet(s))
  <1> DEFINE n == Len(s)
             S == ToSet(s)
  <1>1. n \in Nat /\ DOMAIN s = 1 .. n  BY LenProperties
  <1> HIDE DEF n
  <1>2. \A x \in S : \E i \in 1 .. n : s[i] = x  BY <1>1 DEF ToSet
  <1>3. \A i \in 1 .. n : s[i] \in S  BY <1>1 DEF ToSet
  <1> HIDE DEF S
  <1>4. s \in [1 .. n -> S]  BY <1>1, <1>3
  <1>5. s \in Injection(1 .. n, S)  BY <1>1, <1>4 DEF EachOnce, Injection, IsInjective
  <1>6. s \in Surjection(1 .. n, S)  BY <1>2, <1>4 DEF Surjection
  <1>7. IsFiniteSet(1 .. n) /\ Cardinality(1 .. n) = n  BY <1>1, FS_Interval
  <1>8. Cardinality(S) = n  BY <1>5, <1>6, <1>7, FS_Surjection
  <1> QED  BY <1>8 DEF n, S

\* The steps of the program keep the invariant.
LEMMA MovingKeeps ==
    ASSUME MovingAssumption
    PROVE  MovingSpec => []MovingInv
  <1>1. MovingInit => MovingInv  BY MovingStarts
  <1>2. MovingInv /\ [MovingNext]_movingVars => MovingInv'
    <2> SUFFICES ASSUME MovingInv, [MovingNext]_movingVars PROVE MovingInv'  OBVIOUS
    <2>1. CASE StartExport    BY <2>1, StartExportKeeps
    <2>2. CASE ListPage       BY <2>2, ListPageKeeps
    <2>3. CASE Collapse       BY <2>3, CollapseKeeps
    <2>4. CASE ListVisitsOf   BY <2>4, ListVisitsOfKeeps
    <2>5. CASE RecoverRange   BY <2>5, RecoverRangeKeeps
    <2>6. CASE GiveUpRanges   BY <2>6, GiveUpRangesKeeps
    <2>7. CASE EndRecovery    BY <2>7, EndRecoveryKeeps
    <2>8. CASE WriteSnapshot  BY <2>8, WriteSnapshotKeeps
    <2>9. CASE ExportFails    BY <2>9, ExportFailsKeeps
    <2>10. CASE StartImport    BY <2>10, StartImportKeeps
    <2>11. CASE CommitImport   BY <2>11, CommitImportKeeps
    <2>12. CASE RollbackImport BY <2>12, RollbackImportKeeps
    <2>13. CASE ShlinkMakes    BY <2>13, ShlinkMakesKeeps
    <2>14. CASE ShlinkDeletes  BY <2>14, ShlinkDeletesKeeps
    <2>15. CASE ShlinkVisited  BY <2>15, ShlinkVisitedKeeps
    <2>16. CASE ShurlyMakes    BY <2>16, ShurlyMakesKeeps
    <2>17. CASE ShurlyDeletes  BY <2>17, ShurlyDeletesKeeps
    <2>18. CASE ShurlyVisited  BY <2>18, ShurlyVisitedKeeps
    <2>19. CASE SecondPasses   BY <2>19, SecondPassesKeeps
    <2>20. CASE UNCHANGED movingVars  BY <2>20, NothingMoves
    <2> QED
      BY <2>1, <2>2, <2>3, <2>4, <2>5, <2>6, <2>7, <2>8, <2>9, <2>10, <2>11, <2>12, <2>13, <2>14, <2>15,
         <2>16, <2>17, <2>18, <2>19, <2>20 DEF MovingNext
  <1> QED  BY <1>1, <1>2, PTL DEF MovingSpec

\* Whatever Shlink does between the pages, a snapshot is of every link it held all the while, each
\* once, and has or names as lost each of a link's visits: ListSound carries the first to where the
\* links are collapsed, and RecoverSound the visits through the halving of their ranges.
THEOREM ExportsAreWhole ==
    ASSUME MovingAssumption
    PROVE  MovingSpec => []ExportIsWholeOrNone
  <1>1. MovingInv => ExportIsWholeOrNone
    <2> SUFFICES ASSUME MovingInv, snapshot # Absent PROVE ExportIsWholeOrNone
      BY DEF ExportIsWholeOrNone
    <2>1. MovingTypeOK /\ SnapshotSound  BY DEF MovingInv
    <2>2. /\ ~snapshot.moving => \A r \in snapshot.stayed : \E e \in snapshot.links : e.code = CodeOf[r]
          /\ \A e, f \in snapshot.links : e.code = f.code => e = f
          /\ \A e \in snapshot.links : EntrySound(e, snapshot.until, theirVisits)
      BY <2>1 DEF SnapshotSound
    <2>3. \A e \in snapshot.links : e.found \in Seq(Nat)
      <3>1. snapshot \in Snapshots  BY <2>1 DEF MovingTypeOK
      <3>2. snapshot.links \in SUBSET Entries  BY <3>1 DEF Snapshots
      <3> QED  BY <3>2 DEF Entries
    <2>4. ASSUME NEW e \in snapshot.links
          PROVE  /\ Len(e.found) = Cardinality(ToSet(e.found))
                 /\ \A v \in e.owed \ ToSet(e.found) :
                       \E gap \in e.gaps : gap.start <= theirVisits[v].at /\ theirVisits[v].at <= gap.end
      <3>1. EachOnce(e.found) /\ \A v \in e.owed : v \in ToSet(e.found) \/ Lost(v, e.gaps, theirVisits)
        BY <2>2 DEF EntrySound
      <3>2. Len(e.found) = Cardinality(ToSet(e.found))
        BY <2>3, <3>1, OnceEach
      <3> QED  BY <3>1, <3>2 DEF Lost, InRange
    <2> QED  BY <2>2, <2>4 DEF ExportIsWholeOrNone
  <1>2. MovingSpec => []MovingInv  BY MovingKeeps
  <1> QED  BY <1>1, <1>2, PTL

\* Of the snapshot that an import is from, each visit is in Shurly once when it ends, but those that
\* an import before it lost, and those no newer than a visit of Shurly's own that passes for one.
THEOREM VisitsMoveOnce ==
    ASSUME MovingAssumption
    PROVE  MovingSpec => EveryVisitMovesOnce
  <1> DEFINE Moves == (importing # Absent /\ importing' = Absent /\ imported' # imported) =>
                         \A e \in importing.plan : importing.visits => \A v \in ToSet(e.found) :
                             \/ moved'[v] = 1
                             \/ /\ moved'[v] = 0
                                /\ \/ theirVisits[v].at <= own[e.code].unknown
                                   \/ theirVisits[v].at <= imported[e.code]
  <1>1. MovingInv /\ [MovingNext]_movingVars => [Moves]_movingVars
    <2> SUFFICES ASSUME MovingInv, [MovingNext]_movingVars,
                        importing # Absent, importing' = Absent, imported' # imported,
                        NEW e \in importing.plan, importing.visits, NEW v \in ToSet(e.found)
                 PROVE  \/ moved'[v] = 1
                        \/ /\ moved'[v] = 0
                           /\ \/ theirVisits[v].at <= own[e.code].unknown
                              \/ theirVisits[v].at <= imported[e.code]
      OBVIOUS
    <2>1. CommitImport
      <3>1. CASE StartExport    BY <3>1 DEF StartExport, shurly
      <3>2. CASE ListPage       BY <3>2 DEF ListPage
      <3>3. CASE Collapse       BY <3>3 DEF Collapse
      <3>4. CASE ListVisitsOf   BY <3>4 DEF ListVisitsOf
      <3>5. CASE RecoverRange   BY <3>5 DEF RecoverRange
      <3>6. CASE GiveUpRanges   BY <3>6 DEF GiveUpRanges
      <3>7. CASE EndRecovery    BY <3>7 DEF EndRecovery
      <3>8. CASE WriteSnapshot  BY <3>8 DEF WriteSnapshot
      <3>9. CASE ExportFails    BY <3>9 DEF ExportFails
      <3>10. CASE StartImport    BY <3>10 DEF StartImport
      <3>11. CASE RollbackImport BY <3>11 DEF RollbackImport, shurly
      <3>12. CASE ShlinkMakes    BY <3>12 DEF ShlinkMakes
      <3>13. CASE ShlinkDeletes  BY <3>13 DEF ShlinkDeletes
      <3>14. CASE ShlinkVisited  BY <3>14 DEF ShlinkVisited
      <3>15. CASE ShurlyMakes    BY <3>15 DEF ShurlyMakes
      <3>16. CASE ShurlyDeletes  BY <3>16 DEF ShurlyDeletes
      <3>17. CASE ShurlyVisited  BY <3>17 DEF ShurlyVisited
      <3>18. CASE SecondPasses   BY <3>18 DEF SecondPasses
      <3>19. CASE UNCHANGED movingVars  BY <3>19 DEF movingVars
      <3> QED
        BY <3>1, <3>2, <3>3, <3>4, <3>5, <3>6, <3>7, <3>8, <3>9, <3>10, <3>11, <3>12, <3>13, <3>14, <3>15,
           <3>16, <3>17, <3>18, <3>19 DEF MovingNext
    <2>2. MovingTypeOK /\ MovedSound  BY DEF MovingInv
    <2>3. /\ v \in DOMAIN moved /\ v \in DOMAIN theirVisits /\ VisitCode(v) = e.code
          /\ v \in Brings(e) => moved'[v] = 1
          /\ (\A f \in importing.plan : v \notin Brings(f)) => moved'[v] = moved[v]
      BY <2>1, CommitBrings
    <2>4. CASE v \in Brings(e)  BY <2>3, <2>4
    <2>5. CASE v \notin Brings(e)
      <3>1. ASSUME NEW f \in importing.plan, v \in Brings(f) PROVE FALSE
        <4>1. v \in ToSet(f.found)  BY <3>1 DEF Brings
        <4>2. f.code = e.code  BY <2>1, <2>3, <4>1, CommitBrings
        <4> QED  BY <2>5, <3>1, <4>2, PlanIs
      <3>2. moved'[v] = moved[v] /\ moved[v] \in {0, 1}
        <4>1. moved[v] \in {0, 1}  BY <2>2, <2>3 DEF MovingTypeOK
        <4> QED  BY <2>3, <3>1, <4>1
      <3>3. e.code \in Codes  BY PlanIs
      <3>4. theirVisits[v].at \in Nat  BY <2>2, <2>3, TheirVisitsAre
      <3>5. Latest(e.code) \in Int /\ ~(theirVisits[v].at > Latest(e.code))
        <4>1. ~(theirVisits[v].at > Latest(e.code))  BY <2>5 DEF Brings, IsNewer
        <4> QED  BY <2>2, <3>3, <4>1, LatestIs
      <3>6. CASE Latest(e.code) = own[e.code].unknown  BY <3>2, <3>4, <3>5, <3>6
      <3>7. CASE \E w \in DOMAIN theirVisits :
                    moved[w] > 0 /\ VisitCode(w) = e.code /\ Latest(e.code) = theirVisits[w].at
        <4>1. PICK w \in DOMAIN theirVisits :
                 moved[w] > 0 /\ VisitCode(w) = e.code /\ Latest(e.code) = theirVisits[w].at
          BY <3>7
        <4>2. w \in DOMAIN moved
          <5>1. DOMAIN moved = 1 .. MaxTheirs  BY <2>2 DEF MovingTypeOK
          <5> QED  BY <2>2, <4>1, <5>1, TheirVisitsAre, TheConstants
        <4>3. theirVisits[w].at <= imported[e.code]  BY <2>2, <4>1, <4>2 DEF MovedSound
        <4>4. imported[e.code] \in Int  BY <2>2, <3>3, TheConstants DEF MovingTypeOK
        <4>5. theirVisits[v].at <= imported[e.code]  BY <3>4, <3>5, <4>1, <4>3, <4>4
        <4> QED  BY <3>2, <4>5
      <3> QED  BY <2>2, <3>3, <3>6, <3>7, LatestIs
    <2> QED  BY <2>4, <2>5
  <1>2. MovingSpec => []MovingInv  BY MovingKeeps
  <1>3. MovingInv /\ [MovingNext]_movingVars => [Moves]_movingVars  BY <1>1
  <1>4. EveryVisitMovesOnce <=> [][Moves]_movingVars  BY DEF EveryVisitMovesOnce
  <1> QED  BY <1>2, <1>3, <1>4, PTL DEF MovingSpec
=============================================================================
