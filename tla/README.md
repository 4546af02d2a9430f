# Shurly: a verification development

Shurly is a URL shortener: a FastAPI application over PostgreSQL that redirects
short links, counts their visits and lets an organization manage its links,
campaigns, service accounts and people. This directory holds TLA+ models of how its
requests interleave over the database, the TLC configurations that check them, and
theorems that TLAPS proves about them. `PROJECT.json` maps every definition to the
lines it models and lists the components, the runs, the mutants each property was
tried against, the hazards and the findings.

Contents: [how the system runs](#how-the-system-runs), [its components](#components),
[the modules](#the-modules), [what each run shows](#runs), [bounds](#bounds),
[fairness](#fairness), [what is proved](#proofs), [what disagrees with the
docs](#findings), [what is not modelled](#not-modelled).

## How the system runs

One or two tasks (processes) serve requests. A handler that is a plain `def` runs in
a worker thread with a database session of its own; an `async def` handler runs on
the event loop and gives way at every `await`. A session is a READ COMMITTED
transaction: every SELECT sees what others committed before it, an UPDATE waits for
the row's lock and applies to the row as it is by then, nothing is written before a
flush (`autoflush=False`), and SQLAlchemy writes only the attributes that differ from
what it loaded. So the models take one action per SELECT a decision rests on and one
for the writes and the commit, and let the threads interleave at will. PostgreSQL,
SQLAlchemy and the network are modelled by how the code uses them.

## Components

| Component | Module | State | Operations | What is hard |
|---|---|---|---|---|
| Redirects, pixel and visits (`app/urls.py`) | LinkVisits | `urls`, `visits`, `orphan_visits` | follow, pixel, edit, delete | caps counted before the commit, clicks committed out of order, deletions racing visits |
| Redirect rules (`utils/redirect_rules.py`, `app/urls.py`) | Redirects | `redirect_rules`, the destination | evaluate; create, edit, delete, move, delete the link | the link, its rules and the clock read at three moments; schedules at their own moment |
| Organization roles (`utils/organization.py`) | OrgRules, OrgRoles | `organization_members`, `users.is_active` | change role, hand over, remove, join, start of a task | the last owner under concurrency, stale ranks, removals racing handovers |
| Access, managed links, audit (`utils/access.py`, `managed.py`, `audit.py`) | LinkAccess | roles, creators, managers, `audit_events` | see, search, create, change, delete, override, adopt | roles that change between the check and the write; who is left to delete; masked destinations |
| Page previews (`utils/previews.py`, `utils/housekeeping.py`) | Previews | `urls.page_*`, an advisory lock | create, move, refresh, daily refresh | a page fetched for a destination the link no longer has; starvation; two tasks, failing and dying runs |
| Page fetching (`utils/opengraph.py`) | Fetch | a fetch | resolve, connect, follow | names that resolve to something else, redirects |
| Short codes and domains (`app/urls.py`, `utils/domain.py`, `tools/domains.py`, `main.py`) | ShortCodes | `urls (domain, code)`, `domains` | create, custom create, campaign, delete, look up, seed and backfill at a start, promote, retire | check, then wait, then insert; the unique key; one default domain; starts that cross |
| Service accounts (`utils/service_accounts.py`) | ServiceTokens | accounts, tokens | create, renew, revoke, remove, act | crossing renewals, overlap, expiry, revocations |
| Sign-in, passwords, API keys (`utils/google_sign_in.py`, `app/auth.py`) | SignIn | users, identities, states, codes, sessions | start, callback, exchange, register, log in, set and remove a password, make a key | single use, one account per identity, what a first Google sign-in takes back |
| MCP server's sign-in (`mcp_server/google_oauth.py`, `auth.py`) | McpAccess | proxy tokens, each task's cache | exchange, refresh, check, let in | checks that are kept a minute, or under way when a person is suspended |
| Rate limits (`utils/rate_limit.py`) | RateLimits, FixedWindow | `rate_limits` | hit, check, purge | the clocks of two tasks; check and count apart |
| Client addresses (`utils/network.py`) | Addresses | a request's headers | CloudFront, balancer, service | each header filled by another party |
| Waitlist (`app/waitlist.py`) | Waitlist | `waitlist_entries` | join, remove, purge | read, then insert or update, against a purge |
| Tags (`app/tags.py`, `utils/tags.py`) | Tags | `tags`, `url_tags`, `campaign_tags` | seed, create, rename, delete, replace, add | differences with what was loaded |
| Analytics (`app/analytics.py`, `utils/local_days.py`) | Analytics | read-only | link, campaign and overview numbers | several queries of one answer; days of 23 and 25 hours |
| Lists of visits and of the audit (`app/analytics.py`, `utils/service_accounts.py`) | Pages | read-only | pages | rows added, committed late or purged between pages |
| Orphan visits (`utils/orphans.py`) | Orphans | `orphan_visits` | group, filter typos, suggest | one slip at an edge, pages and totals |
| Shlink import (`tools/shlink`) | Moving | both services' links and visits, snapshots | export, import | changes on both sides meanwhile, a second import |
| Load balancer rule sync (`infra/ecs-alb-rule-sync`) | RuleSync | listener rules, invocations | follow, hand over | weights that shift between a read and a write; invocations that cross |

They interact through the database, but for this: a request or the housekeeping
awaits the page fetcher with the rows it read in hand; the housekeeping loops of the
tasks exclude each other with an advisory lock; a sign-in makes an account and its
membership in one transaction; and each MCP task keeps checks of its own.

What makes each of them correct:

- **Redirects.** A cap is overshot by as little as the code promises; a click lies in
  its link's window; `last_click_at` is a click's; a deleted link leaves no visits; a
  visitor goes where the link led at some moment of their visit.
- **Roles and access.** There is always an owner; nobody changes the role of someone
  above; whoever was removed stays out; a link always has somebody who may delete it; a
  managed link does not go without a row in the audit; a search tells nothing hidden.
- **Previews and fetches.** A preview describes the link's present destination, and in
  the end the page as it is now; only public addresses are connected to.
- **Codes and domains.** A code names one link on a domain; a link made can be
  reached; one domain is the default; a visitor finds the link that is there; tasks
  can always start.
- **Service accounts.** A renewal interrupts nobody and does not pile tokens up; a
  revocation or a removal leaves nothing that works.
- **Sign-in.** One account per Google identity and one identity per account; states and
  codes used once; a first sign-in takes back every way in made before it; the MCP
  server lets nobody in for longer than its cache says.
- **Limits.** No more than the limit in a window, per key, over both tasks; a request is
  counted by its client's address.
- **Waitlist and tags.** Who signed up stays a year; a change of tags undoes nobody
  else's.
- **Readings.** A day counts the visits of its local date; the numbers of an answer are
  about the same visits; pages miss nothing; typos get the links they were meant for.
- **Import and rule sync.** An export is whole or there is none, a visit moves once; the
  custom rule's weights are the deployment's in the end.

## The modules

A module's first comment says what it stands for and what it abstracts. An
`MC` module gives it an instance. The `...Proofs` modules EXTEND the module they
prove about.

### LinkVisits (`LinkVisits.tla`, `MCLinkVisits.tla`, `LinkVisitsProofs.tla`)

`link` is the row of `urls` (`max_visits`, the window, `last_click_at`), `visits` the
rows of `visits` counted by kind, `clickTimes` the `visited_at` of the clicks,
`thread` the request each worker serves with what it has read, `now` the clock.

| Action | Code |
|---|---|
| `Follow` | `redirect_short_url` reads the link, or answers 404 and keeps an orphan visit |
| `CheckWindow` | it takes the time, and by it 404, 410, the crawlers' page, or goes on |
| `CountClicks` | the count against `max_visits` |
| `LogVisit` | the `Visitor`, `last_click_at` and the commit (a foreign key error when the link is gone) |
| `AskPixel`, `LogOpen` | `tracking_pixel` |
| `LoadToDelete`, `DeleteLink` | `delete_url`: the cascade loads the visits, then deletes them and the link |
| `UpdateLink` | `update_url`'s cap and window |
| `Tick` | time |

Three are histories: `peak`, the highest cap a link had, `opened`, the moments its window was
open, and `crossed`, the moments taken by a request that had read the window before an edit.

### Redirects (`Redirects.tla`, `ReadingsProofs.tla`)

Where a link leads. `rule` are the rows, each with a priority and conditions,
`destination` is `original_url`, `time` what schedules ask about. A visit has three steps:
`Follow` reads the link and its destination; `ReadRules` the rules, in a SELECT of their own
once the cap was counted (in any order among equal priorities, as the code's ORDER BY leaves
it); and `Redirect` takes the clock, once for all conditions, picks the target (`PickTarget`)
and logs the visit, unless the request asks not to be logged or is a crawler's. `CreateRule`,
`LoadRule` with `CommitUpdate`, `DeleteRule` and `MoveLink` edit; `DeleteUrl` takes the link and
its rules, after which a visit that has read the link finds no rules, and fails if it is to be
logged. `during` is a history: where the link led during a visit, what changed, and what did
`since` the rules were read.

`GoesWhereItLed` says what a visitor may be sent to: an address where the link led at some
moment of the visit, but for three things the code lets happen, which it names as narrowly as
they happen: the rules change after they are read *and then* the time they ask about passes; the
destination moves *and* the rules or the time change; or the link is deleted after it was read,
which only who isn't logged gets past.

### OrgRules and OrgRoles (`OrgRules.tla`, `OrgRoles.tla`, `MCOrgRoles.tla`, `OrgRolesProofs.tla`)

`OrgRules` is the abstract specification: the rules the docstring of
`utils/organization.py` promises, each change one step over `role` and `account`.
`OrgRoles` EXTENDS it with `request` and `lock`, and takes each change apart:
`Receive` and `ReadTarget` load the two memberships and decide (`MayChange`,
`MayHandOver`, `MayRemove`); `FindOwners`, `LockOwner`, `OwnersLocked` are
`_ensure_another_owner`'s SELECT FOR UPDATE, row by row, each read again once locked;
`WriteRole` the UPDATE; `Promote`, `StepDown` the two UPDATEs of `transfer_ownership`;
`ReadAccount` and `RemoveMember` the read and the writes of `remove_member`; `SignUp` is
`join_default_organization`; `Start` (the accounts to join), `Join` (the INSERT of one),
`ReadOwners`, `ReadConfigured` and `Started` (the configured owner's UPDATE, and the commit)
are `ensure_memberships`, which takes no lock of its own, so two starts cross, as when two
tasks are deployed; `BreakDeadlock` is PostgreSQL ending one transaction of a cycle.

### LinkAccess (`LinkAccess.tla`, `ReadingsProofs.tla`)

`role` and `active` say who is in the organization, `link` who made a link and for
whom, `audit` what service accounts did. A request is taken apart as the dependencies
of a route are: `Authenticate` (the token or session, and whom a service account acts
for), `ReadViewer` (the membership), then one action per operation: `CreateLink`,
`CreateCampaign`, `UpdateLink`, `ChangeRules`, `AddRuleByTool` (the MCP tool), `RefreshPreview`,
`ChangeTags`, `ChangeCampaignTags`, `DeleteLink`, `DeleteCampaign`, `OverrideDelete`, `Adopt`; `ChangeRole` and
`RemoveUser` come in between. What is only read are operators over the same state:
`ListUrls` (with its filters and its search), `GetUrl`, `ListLinkManagers`,
`GetCampaign`, `ListServiceAccountLinks`, `AuditItems`. A campaign has no column for the account
that made it, so who may change one is `CanChangeCampaign`; a row of the audit has a `target`,
the link, its campaign or a rule, and names a link only when that is its target.
`TabsAndAuditAgree` relates these answers to the history of the requests.

### Previews and Fetch (`Previews.tla`, `MCPreviews.tla`, `PreviewsProofs.tla`, `Fetch.tla`, `SmallPartsProofs.tla`)

A page is `<<destination, version>>`; `fetched` orders the links by
`page_fetched_at` and `old` counts those past PREVIEW_MAX_AGE. `Create`,
`CreateCampaign` with `StoreOnCampaign`, `Move` with `CommitMove`, `Refresh` with
`CommitRefresh` and `Delete` are the routes, cut at their `await`. `StartRun` (the
lock and the choice to run), `PickLinks` (the batch's SELECT), `LoadLinks` (the second
SELECT, by then with the pages) and `CommitRun` are `refresh_previews`; `Crash` and
`CutShort` end a run or a request anywhere. `Written` is SQLAlchemy's rule that an
attribute equal to the one loaded isn't written.

`Fetch` is one fetch itself: `ResolveHost` (all of a host's addresses are checked),
`Connect` (to one that passed), `Redirected`, the page's answer and the icon's, while
`NameChanges` gives a host other addresses at any time.

### ServiceTokens (`ServiceTokens.tla`, `MCServiceTokens.tla`, `ServiceTokensProofs.tla`)

`of`, `expires`, `replaced` and `revoked` are the columns of `service_tokens`,
`account` whether the account is open. `CreateAccount`; `Receive` (the account read,
the time taken), `ReadTokens` (the live ones, split in active and in their overlap)
and then `Issue` (`issue_token`), `Revoke` (`_revoke`) or `RemoveAccount`; `Use` and
`ReadAccount` are `get_service_token`, the token read before the account; `Tick`. A
request takes at most `Patience`.

### ShortCodes (`ShortCodes.tla`, `MCShortCodes.tla`, `ShortCodesProofs.tla`)

`domains` says of each host whether there is a row and whether it is the default;
`links` is the table `urls`, with a domain or, for the links from before domains, none.

| Actions | Code |
|---|---|
| `SeedDefault`, `SeedHostname`, `SeedInsert` | `get_default_domain` at a task's start: SELECTs and INSERT |
| `BackfillDefault`, `BackfillSelect`, `BackfillMove` | `backfill_url_domains`: its choice and its UPDATE, which a taken code makes fail |
| `CreateRandom`, `Draw`, `CreateCustom`, `TryCustom`, `TrySuffix`, `GiveUp`, `Save` | `create_short_url`, `create_custom_url`, `generate_urls_for_campaign`: the look-ups, then the INSERT after the page's wait |
| `DeleteUrl`, `DeleteCampaign` | the deletions |
| `Visit`, `ReadDefault`, `Lookup`, `LookupLegacy` | `resolve_domain_for_host` and `redirect_short_url`'s two SELECTs |
| `Promote`, `CommitPromotion`, `Retire`, `RetireLinks`, `CommitRetirement` | `tools/domains.py` |

`Watch` keeps two history variables: which links an address named throughout a visit,
and which starts others wrote around. `Next == Step /\ Watch`.

### SignIn and McpAccess (`SignIn.tla`, `MCSignIn.tla`, `SignInProofs.tla`, `McpAccess.tla`, `ReadingsProofs.tla`)

`account`, `identity`, `state`, `code` are the tables, `sessions` the JWTs given out,
`address` what Google vouches for. A thread takes a callback through `_take_state`, the
exchange with Google and the four rules of `sign_in` (known identity, account by
address, a link of a first sign-in, a new account), one action per SELECT; and a
registration, a login, a password set or removed and a key made through the check of
their session and their commit. A way in remembers whether it comes from a sign-up
nobody verified (`"unproven"`) or from Google; a history turns those written by requests
under way during a link into `"late"`, which is the exception `LockedOut` names.

`McpAccess` has the OAuth proxy's tokens (`stored`), Google's answers (`left`), accounts
closed (`closed`) and the checks each task keeps (`kept`): `Exchange`, `Issue`, `Refresh`,
`CheckRefreshed`; `Request`, `AskGoogle`, `KeepCheck`, `LookUp`, `LetIn`; `Suspend`, `Close`,
and the `Restart` of a task, whose cache goes with it.

### RateLimits, FixedWindow, Addresses (`RateLimits.tla`, `FixedWindow.tla`, `Addresses.tla`, `SmallPartsProofs.tla`)

`row` is one row for each of the two uses of a limit. `Ask` takes the window by its
task's clock and `Count` is the upsert, which sets `window_start` to the caller's;
`Guess`, `Check`, `Compare` are failed passwords, checked first and counted after;
`StoreFails` lets through when the database fails. `FixedWindow` is what a limit promises: at most
`Most` in a window, from the moment every clock and every request under way is in it.
`FixedWindows` is the refinement, with `settled` for the open window.

`Addresses` is a request on its way: `CloudFront` and `Balancer` add to its headers, or
not, as they are configured, and `Serve` is `client_ip`.

### Waitlist, Tags, RuleSync, Orphans (`Waitlist.tla`, `Tags.tla`, `RuleSync.tla`, `Orphans.tla`, `SmallPartsProofs.tla`)

- `Waitlist`: `Join` reads the entry, `InsertEntry` (or `ReadAgain` after the unique key
  refuses) and `Update` write; `RemoveEntry` and the daily `Purge` delete.
- `Tags`: each request reads (`Create`, `Rename`, `Delete`, `ReplaceOfLink`,
  `ReplaceOfCampaign`, `Add`) and commits later, all or nothing; a name that is what the row has
  is not written; `Seed` is the start's.
- `RuleSync`: `Deploy`, `Shift`, `Ends` are ECS's; `Invoke` delivers an event, and a
  lambda's step polls, reads both rules, writes, hands over, or gives up.
- `Orphans`: `Hit` records, `MakeLink` makes a link; the groups, the pages, the filter
  of typos, the suggestions and the MCP tool are operators over both.

### Analytics, Pages, Moving (`Analytics.tla`, `Pages.tla`, `Moving.tla`, `ReadingsProofs.tla`)

- `Analytics`: a number is the set of visits it counts. `LinkRequest` and
  `CampaignRequest` begin a route's answer, `RunQuery` runs its next query on what is
  committed by then, `Answer` ends it; visits arrive and links go in between. Local days,
  weeks, months and periods are operators over zones with and without a change of offset.
- `Pages`: a reader asks for page after page, of visits by number (`CountVisits`,
  `ReadVisits`) or of the audit by instant (`ReadAudit`, `ReadInstant`), while `WriteRow`
  adds rows, committed late, and `PurgeAudit` takes the old ones.
- `Moving`: `StartExport`, `ListPage`, `Collapse`; then each link's visits, `ListVisitsOf`,
  and what Shlink cannot serialize range by range: `RecoverRange` reads, halves or reads a
  second of it, `GiveUpRanges` at the budget's end, `EndRecovery`; `WriteSnapshot` or
  `ExportFails`. `StartImport` makes the plan, `CommitImport` or `RollbackImport`. Both services
  change between any two of these. A snapshot is followed until the next export starts: one
  that is imported after a later export failed is as if that had not started.

### MCSmallParts and MCReadings

`MCSmallParts` holds seven modules and `MCReadings` six that share no variable: `part`
chooses one for a behaviour, and the others stay as they start. What a run
explores is then the sum of the parts' states. The parts with theorems (RateLimits, Addresses,
Waitlist, Fetch, Tags, Orphans; all six of `MCReadings`) are EXTENDED there, RuleSync is an
instance; their assumptions are the `PartsAssumption` of each.

## Runs

| Run | What it shows |
|---|---|
| `link_visits` | Caps are overshot only by requests let in together; `last_click_at` is a click's; a deleted link keeps no visit; a click is of a moment at which its link was open |
| `org_roles` | A step down leaves an owner; the removed stay out, whatever starts cross; a lost owner comes back at a later start |
| `org_roles_one_by_one` | Refinement: one at a time, `OrgRoles` implements `OrgRules` |
| `previews` | A campaign's links show their own page; one run at a time, crashes included; a preview follows its page although a batch holds fewer links than there are |
| `service_tokens` | One active token per thread; the removed cannot act; revoking ends all there was; renewing ends nothing active |
| `short_codes` | Links are reachable; one default; visits find their link; a start fails only of a crossing |
| `sign_in` | A link to Google leaves nothing of the sign-up; an account opens for one Google account and always has a way in; a state and a code are good once |
| `small_parts` | Limits are fixed windows (refinement) and guesses overshoot by a few; the waitlist keeps who signed up; tags are replaced as asked; the balancer's rule converges; only public addresses are connected to; typos are answered; a request is its client's |
| `readings` | Series follow local days and parts of an answer agree; pages miss nothing; links can be deleted and managed ones leave a trace; an export is whole or none and a visit moves once; MCP access ends; visitors go where the link led, or as the three exceptions say |
| `hard_cap`, `last_owner`, `stale_preview` | Violated: see [findings](#findings) |

Every property of a passing run has a mutant of the code's model that breaks it under
that run's configuration (a dropped guard, a swapped order, a stale value), listed in
`PROJECT.json` and defined beside what it changes.

Each module also states its type invariant. Those of LinkVisits, OrgRoles,
ServiceTokens, ShortCodes, SignIn, LinkAccess, Addresses and RateLimits are theorems of
their own, and those of the other modules proved about are parts of their inductive invariants; they
are in no run's list, as no plausible change of the code breaks one, and are there
for a reader and for whoever changes a module.

### Bounds

Identities, threads and tasks are model values, with symmetry where nothing chooses
among them; TLC's symmetry is never used in a run with a liveness
property. `org_roles` has one: instead, it starts from one order of the people who are not the
configured owner (`MCInit`), since what follows another order follows with the names exchanged.

- *One of each where others do not matter.* Links do not affect each other's visits
  (`link_visits`: 1 link), nor accounts each other's tokens (`service_tokens`: 1 account);
  one link in LinkAccess has every creator, manager and campaign in turn.
- *Threads* are as many as a race needs: two for any crossing of two, three for the
  cap's overshoot, whose bound depends on their number. LinkAccess has one request
  and lets roles change between its steps, which is all that another request could do to it.
- *Requests* (`MaxRequests`, `MaxEdits`, `MaxBegun`, `MaxEvents`): each race needs two
  requests, or three with the setup done by a request of its own; the runs allow two to five.
- *Time.* LinkVisits has two moments, and windows open until the second or from it on: a request
  reads, checks and commits on either side of either border, and edits turn one into the other. ServiceTokens measures
  time in fractions of the overlap (`Overlap` 3, `Patience` 1): a token is replaced, outlives its
  overlap, and a request spans the moment. RateLimits has windows of 2 ticks, clocks one tick
  apart and rows that live for two; the waitlist's year is 2 ticks and
  5 pass. Analytics has days of two ticks, with a day one tick shorter or longer in its zones,
  so that the border of each bucket falls between two instants; a week has two days, and a
  month ends on day 4, which no week does (`MonthEnds`), so months are not weeks. Rules ask about
  moment 1 of 0 and 1: a visit's three steps fall before or after it.
- *Pages and lists.* A page holds 2 rows of 3 (Pages), 1 of 3 (Moving): the last is partial,
  several rows may share an instant. Three hits and links in Orphans, over codes of at most 3
  characters of a two-letter alphabet: each kind of slip at each place happens.
- *Previews.* 2 links, one of a campaign, batches of 1; a page changes once; one crash is
  enough to leave a lock over.
- *Codes*: `asked` stands for a code that is reserved where the app is (as `mcp`) and
  that a suffix turns into one that is reserved for the API (as `manag` + `ers`);
  `random` for one of the generated ones, which legacy links share. The reserved words
  have other lengths than generated codes, which is an assumption of the module.
- *Moving.* Two copies of one link, another destination for its code, and two other links,
  the last on one of Shurly's own paths; pages of 1, and two changes or visits, the fewest by
  which a link slides over a page or one second holds a visit that serializes and one that does
  not. Four requests of recovery (`Budget`; the code's is 600) for two seconds that both fail:
  it ends with a range left, or with none. `MovingInv` was also checked on it as an invariant.
- Not reached: campaigns of several rows in one batch (`MaxRows` 1); a retired
  domain made again; more hand-overs than one (`MaxHops` 1 stands for four) ; a
  creation that finds no row of the instance left is not answered.

- *Rules.* Two rows and three changes of two priorities, three kinds of condition and two
  addresses, with symmetry of rows and of addresses: a rule may be made, read, and edited or
  deleted, or the link moved or deleted, between any two steps of a visit.

Deadlock is not checked: when the requests are used up the system may stop.

### Fairness

Safety properties assume none. `org_roles` assumes that a thread which has something to
do goes on (threads are scheduled, PostgreSQL ends deadlocks) and that a task starts
again now and then (every deployment starts one): each thread, when it has something to do, goes
on, and when it has nothing starts a task. When the last owner is
lost two people were in the organization, so of three at most one is left to join, and two starts
cannot fail each other. With more people two starts could, for ever, in the model, which gives a
start's INSERTs any order; the code inserts in the order it read the accounts, which for two
starts is as a rule the same. `previews` assumes that time passes, that
a fetch ends (the fetcher has timeouts), that a run goes on, and that some task starts its
housekeeping every day; not that requests arrive, nor that crashes end (their number is
bounded). `Reliable` names the destinations that answer: `PreviewsFollowThePages` is
about links that lead to one of them, as long as in the end fewer links than a batch takes lead
elsewhere, since those that never answer are the first of every batch. `small_parts`
takes RuleSync's fairness: a deployment ends, a lambda that was invoked goes on, and events
are delivered in the end, in any order.

## Proofs

TLAPS checks these for every value of the constants under the assumption each module
names, which TLC evaluates in the runs. Eight modules hold proofs; `SmallPartsProofs` and
`ReadingsProofs` hold those of six modules each, as their runs do. Every invariant below was
first an invariant of a run.

**LinkVisitsProofs.** `LinkVisitsTypeOK`. `CapOvershootIsBounded`: "clicks <= cap +
threads - 1" is not inductive, because requests already let in will still commit. The
invariant `CapInv` counts those (`Admitted`) together with the committed clicks: a
request is let in only while the committed ones are below the cap, when at most the
other threads are admitted; and it keeps that every cap a request goes by is at most
the highest the link ever had (`CapsKnown`), since edits may lower it. The finite
threads give the cardinalities. `ClicksAreWithinWindow`: a request between its check
and its commit bears a moment its link's window was open at, unless an edit came between its read
of the window and of the clock, and then that moment is one of the link's `crossed` (`WindowInv`:
the window that a request has read is the link's still, or the link was edited since).
`LastClicksAreClicks` and `VisitsGoWithTheirLink` rest on `RowsInv`, which says what a row
says of its visits: the commit of a visit writes both, and a deletion takes them together or
fails.

**OrgRolesProofs.** `RulesKeepAnOwner`: the rules alone keep an owner. For the
implementation, `LockInv` says what a thread knows of the rows it holds (`Knows`):
an owner it locked and found is an owner still. Its preservation rests on one lemma,
that nobody writes a row another thread holds (`HeldRowsStay`). From it,
`StepDownIsSafe`; and `RemovedPeopleStayOut`: a membership disappears with the account's closing
in one step, and whom a start has yet to insert is open, or was removed meanwhile (`crossed`). `OrgRolesTypeOK`. `OneByOneFollowsTheRules` is the refinement: with
one thread every step of `OrgRoles` is a step of `OrgRules` or a stutter. Its invariant
(`Decided`, `OneByOneInv`) has that what a request read and decided is still so when it
writes; a handover's two UPDATEs are one step of the rules, the first of them.

**PreviewsProofs.** `RunsAreAlone`: whoever runs holds the lock (`RunnersHoldTheLock`), a crash
included, since the lock goes with the connection. `CampaignsShowTheirPage`: a campaign's link
leads where it did once it is made (`Settled`), so that a request or a run which has its
destination brings its page (`BringsTheirPage`, `StoresTheirPage`); `CampaignInv` says so
of all that is under way, which is what makes an UPDATE by id safe after the fetch.

**ServiceTokensProofs.** One invariant, `TokensInv`: a request is recent (`InTime`),
what it knows are its account's tokens (`Known`), a token that a renewal saw active
was replaced lately if at all (`RecentlyReplaced`), a thread's renewal sees what that
thread made before (`SeesItsOwn`), and what is over stays over (`IsOver`). The
assumption `Overlap > 2 * Patience` is the code's margin (a day against request
timeouts of seconds) and is where `RevocationIsComplete` and
`RenewalsEndNothingActive` need it: a late renewal starts the overlap anew, but only
of a token that is within it. Also `RenewalsLeaveOnePerThread`, `TheRemovedCannotAct`,
`ServiceTokensTypeOK`, and `OneTokenOneByOne`: with one thread, one active token.

**ShortCodesProofs.** `NamesInv`: the tables keep their constraints, a link without a
domain has a code from before domains, a creation's codes are not reserved where they
go, and a start never has two links of one code to bind: `LinksCanBeReached`,
`ShortCodesTypeOK`. `DefaultInv`: before the service has run only DEFAULT_DOMAIN can be
marked; afterwards no task is about to mark, and what the operator's command read of
the marks is still so: `OneDomainIsTheDefault`. `StartsFailOfCrossings`: `CrossedInv` says what
a start nobody wrote around finds as it read it (`Undisturbed`), which no INSERT or UPDATE of
it can then collide with. `VisitsFind`: `VisitInv` says at each of a visit's SELECTs what its address
has named throughout (`VisitOK`); it needs that a link on a domain keeps its code there
(`KeepTheirPlace`).

**SignInProofs.** `AccountsInv` says what a request still knows of its account
(`SoundRequest`: it was made; a first sign-in's address is its Google account's alone;
a request with an unproven root beyond its registration means no link yet), that two first
sign-ins with one address are of one Google account (`SameSubject`), and that rows refer to
accounts that were made. It gives `LinksLockOut`, `AccountsOpenForOne`,
`AccountsKeepAWayIn` and `SignInTypes`. `SecretsInv` follows a sign-in's secret: it is
in one place at a time, a state, a thread, a code or a session, which is
`SignInsOpenOneSession`.

**SmallPartsProofs.**

- *Addresses.* `AddressInv` has what is certain of a request wherever it is
  (`OnItsWay`): which hop is last and who put it there. `NobodyElsesAddressIsTaken` then needs
  that `client_ip`'s walk over a header of any length stops there: the last position
  outside the trusted networks exists by well-founded induction on a set of positions
  (`LastOfSome`).
- *RateLimits.* `LimitsAreFixedWindows` is the refinement of FixedWindow: initial
  states map to its own, and every step of RateLimits to a step of it or a stutter.
  `RateInv` says that what was let through since a window settled is in the row
  (`InTheRow`), which is of that window (`Settled`). `GuessesOvershootByAFew` adds the guesses
  that may still be counted (`Late`): they and the counted ones fit in the limit and one guess for
  each thread (`RoomForTheLate`).
- *Waitlist.* `SignedUpForAYear`: the entry's consent is as old as the latest answered sign-up's at
  most, less what a request takes, since a sign-up that crossed it wrote later with an earlier time
  (`ConsentIsRecent`); a removal asked for since excuses it.
- *Tags.* `TagsAreReplacedAsSeen`: a commit adds and takes the difference with what its request
  loaded; `LoadedIsAsked` has that it loaded just the things it changes.
- *Fetch.* `OnlyThePublicIsReached`: what is to be connected to, at every hop, was checked
  (`WasChecked`), whatever the name resolves to by then.
- *Orphans.* `OrphansAreAnswered` has it for every state, of codes of any length. What is
  deleted, swapped, replaced or inserted is one slip, and one slip is one of these
  (`OneEditIsOneSlip`, from what each does to every position). A list in order holds its
  set, each member once (`OrderedLists`), so the first so many are as many as there is room for,
  and the same code's links come before the others. A path's counted hits are the list's at some
  places, and the sample at place k has k of them as new (`PlaceOfHit`, `OfTheList`). That the pages
  hold each place of the list once is arithmetic of what a page skips (`SkipsAre`,
  `PlacesHold`); the visits add up since each shown hit is one of one group's (`PagesHoldAll`).

**ReadingsProofs.**

- *LinkAccess.* `AccessInv`: the owner stays, who was no member when looked up is
  none now, a link that is no organization's is a person's or a removed service account's, and
  a link in the audit as gone is not there. `LinksAreDeletable` follows from it by who made the
  link; `ManagedLinksAreTraced` needs, for each deletion, that the row it adds is new.
  `SearchTellsNothing` is about the operators, for every state. `TabsAgreeWithTheAudit` needs the
  history: a managed link's making is in the audit with the link as its target, unless its account
  was gone by then, and no row of an end is of a link that is there.
- *Redirects.* `VisitorsAreLed`, from what a visit knows at each step (`VisitSees`): it has seen
  where the link leads now, has the destination of now, or that moved, and knows of a deletion
  (`HasSeen`); before it reads the rules, those of now lead it where it has seen the link lead, or
  they or the time changed; once it has, they may lead it where they do at present (`MayGo`), or
  time passed, and they are the link's still, or these changed. That a deleted link has no rules
  (`RulesWent`) is the third exception. That the first rule that matches exists, for finitely
  many rules, is a minimum of a finite set.
- *McpAccess.* `AccessEndsInTime`: a check that is kept is of a call that asked Google at most
  `Delay` before (`CheckSound`), and what a call knows of its token was good when it began or is
  since (`CallSound`); the bound adds a kept check's life and a call's.
- *Analytics.* `AnswersAgree`: what a part of an answer holds is what there was of its kind and
  time when the request came, but for what came or went (`GotSound`), and queries of one kind and
  window are of the same visits (`Window`, `AnswerSound`). That recipients' links are asked for before
  what is counted of them (`RecipientsFirst`) is where an answer's own order is needed.
  `SeriesAreLocal`: an instant is before a day's midnight exactly if its local date is before the
  day, whichever of the zone's two offsets holds (`MidnightIs`), so what a query bounds by two
  midnights are the visits of the local days between (`DaysBetween`). The buckets part their
  period: were there a day from which the cut goes wrong, the last such day's first bucket would be
  followed by a cut that is right (`CutsExist`, `CutsPart`: a minimum, where an induction over
  the days would serve), and the bucket that is looked up by counting those begun is the one the
  date is in (`BucketHolds`). The theorem has it for every state; the run looks between
  requests that find a visit.
- *Pages.* `NothingIsMissed`: an order of finitely many rows exists, and a row's place in it is one
  more than the rows newer than it (`AnOrder`, `PlaceIs`). Of a link's visits, one that is owed was
  seen, or as many rows as all pages so far hold are newer than it, which further rows only add to
  (`VisitsSound`); the last page's count then leaves none out. Of the audit, every row that is as
  late as the page's end was seen, once, and none past it (`Reached`, `AuditSound`): a page never
  ends within an instant.
- *Moving.* `ExportsAreWhole` and `VisitsMoveOnce`, from `MovingInv`. Its parts follow a link and a
  visit through the export. `ListSound`: while nothing came or went between pages, those read list
  the first links in order; when something only came, or only went, some page's count is below or
  above what there is now, and `Counts` fails at the end, since the count was of that moment. That
  is where the exception for both at once is needed. `CollapseSound` and `LinksSound`: every link
  that stayed is listed, then each code once, with an entry up to the current one. `RecoverSound`:
  the ranges left are in order, apart, and older than what was found, so none brings a
  visit again, and a visit that is owed was found, is in a range lost, or in one left, which
  halving keeps. `SnapshotSound` has the same of what was written. `ImportSound`, `ImportedBefore` and
  `MovedSound`: a visit that was brought is no later than the import's snapshot, which is no later
  than the next export. That a finite set has a sequence in any strict order of it
  (`CanBeSorted`) makes what the pages list exist.

Only model-checked are the liveness properties (`OwnerComesBack`, `PreviewsFollowThePages`,
`RulesConverge`), which the prover does not reach.

## Findings

Each of these is a run that TLC shows violated.

1. **`hard_cap`** (`app/urls.py:1655`): "max_visits enforces a hard cap on clicks"
   (`core/models/url.py:75`), but the clicks are counted in one statement and the visit
   committed later, so requests at once all pass. At most one less than the threads.
2. **`last_owner`** (`utils/organization.py:289`): "there is always at least one" owner
   (`:10`), but only an owner's own step down locks: two owners who hand the role to
   each other, or an admin who steps down or is removed while the role is handed to
   them, leave none, until a task starts with a configured owner.
3. **`stale_preview`** (`app/urls.py:1239`): a refresh that was fetching when the link
   moved stores the old destination's page, which `update_url` takes care of.

Met while modelling, and not carried as runs of their own:

- *Visits.* A request reads the window before it takes the time, so an edit in between lets a click
  in at a moment neither window was open at (`crossed`). Two clicks may commit in the opposite order of their times, so
  `last_click_at` need not be the latest click's (`app/urls.py:1751`; the importer sets it
  too). A bot's visit leaves it alone, where a comment at `app/analytics.py:798` says
  otherwise.
- *Rules.* A visit reads the destination, the rules (`app/urls.py:1664`) and the clock
  (`utils/redirect_rules.py:150`) at three moments, so it may go where the link never led: to the
  old destination without the old rule, or by the old rules at a time when the link had new ones;
  and when the link is deleted after it was read, past its rules to its destination, if it isn't
  logged (the exceptions of `GoesWhereItLed`). Rules of equal priority are tried in any order. A
  PATCH with an explicit null fails with a 500.
- *Roles.* A removal or role change allowed by the ranks read is carried out on the ranks
  there are by then (`utils/organization.py:300`): someone promoted meanwhile is removed by an
  equal or a lower one. A start inserts whom it has read to be open (`utils/organization.py:188`):
  when another start joined them and they were removed in between, a closed account has a
  membership again, where the docstring says that inactive accounts stay out (the exception of
  `RemovedStayOut`). Nobody can use it.
- *Service accounts.* Two renewals at once leave two active tokens, where
  `core/models/service_token.py:8` says one; `OneActivePerThread` is the bound. A link made
  as its service account is removed is no organization's, and nobody may delete it. A page of
  the audit whose own instant is purged before the rest of it is read fails.
- *Codes.* A backfill between a visit's two SELECTs (on the domain, then among links
  without one, `app/urls.py:1621`) hides the link from that visit: a 404 during the first
  start. A custom code looked up on the default domain only may equal that of a link
  without one, which it then shadows (`app/urls.py:423`), where a comment says that such links
  "keep resolving" (`utils/domain.py:106-108`). Of two crossing requests for one custom
  code the later gets an error from the unique key instead of a suffix. Two operators at
  once can leave two defaults or none (`tools/domains.py:83`), and a retirement deletes a link
  made after its report; the model has one operator.
- *Previews.* As many links that never answer as a daily batch takes are the first every day and
  keep every other preview from being refreshed (`utils/housekeeping.py:138`).
- *Waitlist and tags.* A session writes only what differs from what it loaded, so two sign-ups
  that cross can leave an individual with a company (`IndividualsHaveNoCompany`, stated in
  the module and in no run). Two creations of one tag both find none, and the second
  fails on the unique key (`app/tags.py:81`); so may two starts that seed.
- *Analytics.* A link's or a city's share is of a total counted before or after it, and may
  pass 1 where `schemas/analytics.py:173` says it does not; a page of visits read between two
  counts may end early.
- *Import.* An export lists page by page: when one link is deleted and another made between
  two pages the count stays as it was and a link is missed, where `export.py:13-20` and the
  tool's README (line 65) say whole or none. Two imports at once may bring a visit twice
  (`importer.py:369`).
- *MCP server.* A suspension at Google bites up to a minute later, as the code says, and a check
  that was under way is kept after it.
- *Addresses.* Straight to a load balancer that does not append, the client's own
  X-Forwarded-For is believed.

## Not modelled

- *User agents, places, link parsing and reserved words, schemas, wording, images*: pattern
  matching and formatting. What they decide is an input of a module or a parameter of one.
- *Profiles, logos, last_used_at, descriptions and scopes*: one statement on a row of its own,
  with nothing read before.
- *An operator's preview backfill* (`tools/previews.py`): it stores pages as a housekeeping
  run does, without asking for the lock; with it the `previews` run is out of reach of its time.
- *Errors, logs, health, configuration, migrations*: nothing is decided from what
  they write; the migrations' lock is a single statement.
- *The MCP server's tools and pages, the web interface*: they call what the API does, whose
  modules cover it; three curated tools with logic of their own are in Analytics, Orphans and
  LinkAccess. The OAuth proxy's protocol is a library's.
- *Deployment scripts, the CloudFront function, monitoring*: run by hand, or configuration of
  services outside the repository. What they add to a request is in Addresses.
- *The Shlink import's* titles, tags, review columns and translated rules; *analytics'* names
  of browsers and referrers, and their CSVs; *the fetcher's* parsing of a page.

What could follow: the operator's backfill and two operators at once; a campaign of several
rows in ShortCodes; imports of snapshots in another order than they were made.
