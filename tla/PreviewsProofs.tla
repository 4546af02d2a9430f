--------------------------- MODULE PreviewsProofs ---------------------------
(***************************************************************************)
(* Theorems of Previews, for any links, campaigns, destinations, threads   *)
(* and tasks: one housekeeping run at a time, and a campaign's links that  *)
(* show their own page.  Neither needs what `fetched` and `old` say of the *)
(* times.                                                                  *)
(***************************************************************************)
EXTENDS Previews, TLAPS

\* The types of what the proofs look at.
TypesKept ==
    /\ link \in [Links -> Row]
    /\ request \in [Threads -> Request]
    /\ run \in [Tasks -> Run]
    /\ lock \in Tasks \cup {None}
    /\ version \in [Destinations -> 0 .. MaxVersions]

-----------------------------------------------------------------------------
LEMMA NothingYet ==
    /\ NoRow \in Row /\ NoRow.state = "none" /\ NoRow.page = None /\ NoRow.dest \in Destinations
    /\ NoRequest \in Request /\ NoRequest.step = "idle"
    /\ NoRun \in Run /\ NoRun.step = "idle"
  <1>1. PICK d \in Destinations : d = (CHOOSE e \in Destinations : TRUE)
    BY PreviewsAssumption
  <1>2. PICK l \in Links : l = (CHOOSE m \in Links : TRUE)  BY PreviewsAssumption
  <1>3. /\ NoRow \in Row /\ NoRow.state = "none" /\ NoRow.page = None
        /\ NoRow.dest \in Destinations
    BY <1>1 DEF NoRow, Row
  <1>4. NoRequest \in Request /\ NoRequest.step = "idle"
    BY <1>2, <1>3 DEF NoRequest, Request
  <1>5. NoRun \in Run /\ NoRun.step = "idle"  BY <1>3 DEF NoRun, Run
  <1> QED  BY <1>3, <1>4, <1>5

\* A fetch of d brings a page of d, or nothing.
LEMMA WhatAFetchBrings ==
    ASSUME TypesKept, NEW d \in Destinations, NEW page \in Outcomes(d)
    PROVE  page \in Page \cup {None} /\ (page # None => page[1] = d)
  <1>1. version[d] \in 0 .. MaxVersions  BY DEF TypesKept
  <1> QED  BY <1>1 DEF Outcomes, Page

LEMMA WrittenIsOneOfTwo ==
    ASSUME NEW was, NEW new, NEW current
    PROVE  Written(was, new, current) \in {new, current}
  BY DEF Written

-----------------------------------------------------------------------------
(* Types.                                                                   *)

LEMMA TypesInit == Init => TypesKept
  <1> SUFFICES ASSUME Init PROVE TypesKept  OBVIOUS
  <1>1. 0 \in 0 .. MaxVersions  BY PreviewsAssumption
  <1> QED  BY <1>1, NothingYet DEF Init, TypesKept

\* A request starts or ends, and no row changes but perhaps one.
LEMMA TypesOfARequest ==
    ASSUME TypesKept, UNCHANGED <<run, lock, version>>,
           link' \in [Links -> Row], request' \in [Threads -> Request]
    PROVE  TypesKept'
  BY DEF TypesKept

LEMMA EndsIsTyped ==
    ASSUME TypesKept, NEW t \in Threads, Ends(t)
    PROVE  request' \in [Threads -> Request]
  BY NothingYet DEF TypesKept, Ends

LEMMA LoadsIsTyped ==
    ASSUME TypesKept, NEW t \in Threads, NEW l \in Links, NEW d \in Destinations,
           NEW step \in {"move", "refresh"}, Loads(t, l, step, d)
    PROVE  request' \in [Threads -> Request]
  <1>1. link[l] \in Row /\ HasTime(l) \in BOOLEAN  BY DEF TypesKept, HasTime
  <1> QED  BY <1>1 DEF TypesKept, Loads, Request

LEMMA TypesMaking ==
    ASSUME TypesKept, NEW t \in Threads, NEW l \in Links, NEW d \in Destinations,
           Create(t, l, d) \/ CreateCampaign(t, l, d)
    PROVE  TypesKept'
  <1>1. ASSUME NEW page \in Page \cup {None},
               link' = [link EXCEPT ![l] = [state |-> "live", dest |-> d, page |-> page]]
        PROVE  link' \in [Links -> Row]
    BY <1>1 DEF TypesKept, Row
  <1>2. CASE Create(t, l, d)
    BY <1>1, <1>2, WhatAFetchBrings DEF Create, TypesKept
  <1>3. CASE CreateCampaign(t, l, d)
    <2>1. link' \in [Links -> Row]  BY <1>1, <1>3 DEF CreateCampaign
    <2>2. request' \in [Threads -> Request]
      BY <1>3, NothingYet DEF CreateCampaign, TypesKept, Request
    <2> QED  BY <1>3, <2>1, <2>2, TypesOfARequest DEF CreateCampaign
  <1> QED  BY <1>2, <1>3

LEMMA TypesReading ==
    ASSUME TypesKept, NEW t \in Threads, NEW l \in Links,
           Refresh(t, l) \/ \E d \in Destinations : Move(t, l, d)
    PROVE  TypesKept'
  <1>1. link[l].dest \in Destinations  BY DEF TypesKept, Row
  <1>2. CASE Refresh(t, l)
    BY <1>1, <1>2, LoadsIsTyped DEF Refresh, TypesKept
  <1>3. ASSUME NEW d \in Destinations, Move(t, l, d) PROVE TypesKept'
    BY <1>3, LoadsIsTyped DEF Move, TypesKept
  <1> QED  BY <1>2, <1>3

LEMMA TypesStoring ==
    ASSUME TypesKept, NEW t \in Threads, RequestStep(t)
    PROVE  TypesKept'
  <1> DEFINE r == request[t]
  <1>1. r.link \in Links /\ r.to \in Destinations /\ r.loaded \in Row
    BY DEF TypesKept, Request
  <1>2. request' \in [Threads -> Request] /\ UNCHANGED <<run, lock, version>>
    BY EndsIsTyped DEF RequestStep, StoreOnCampaign, CommitMove, CommitRefresh
  <1>3. ASSUME NEW page \in Page \cup {None}
        PROVE  /\ [link[r.link] EXCEPT !.page = page] \in Row
               /\ [link[r.link] EXCEPT !.dest = r.to, !.page = page] \in Row
    BY <1>1 DEF TypesKept, Row
  <1>4. link[r.link].page \in Page \cup {None}  BY <1>1 DEF TypesKept, Row
  <1>5. CASE StoreOnCampaign(t)
    <2>1. ASSUME NEW page \in Outcomes(r.to), link' = [link EXCEPT ![r.link].page = page]
          PROVE  link' \in [Links -> Row]
      BY <1>1, <1>3, <2>1, WhatAFetchBrings DEF TypesKept
    <2> QED  BY <1>2, <1>5, <2>1, TypesOfARequest DEF StoreOnCampaign, TypesKept
  <1>6. CASE CommitMove(t)
    <2>1. ASSUME NEW page \in Outcomes(r.to),
                 link' = [link EXCEPT ![r.link].dest = r.to,
                                      ![r.link].page = Written(r.loaded.page, page, @)]
          PROVE  link' \in [Links -> Row]
      <3>1. Written(r.loaded.page, page, link[r.link].page) \in Page \cup {None}
        BY <1>1, <1>4, WhatAFetchBrings, WrittenIsOneOfTwo
      <3> DEFINE new == Written(r.loaded.page, page, link[r.link].page)
      <3>2. link' = [link EXCEPT ![r.link] = [link[r.link] EXCEPT !.dest = r.to, !.page = new]]
        BY <2>1
      <3>3. [link[r.link] EXCEPT !.dest = r.to, !.page = new] \in Row  BY <1>3, <3>1
      <3>4. PICK row \in Row : link' = [link EXCEPT ![r.link] = row]  BY <3>2, <3>3
      <3>5. link \in [Links -> Row]  BY DEF TypesKept
      <3> QED  BY <3>4, <3>5
    <2> QED  BY <1>2, <1>6, <2>1, TypesOfARequest DEF CommitMove, TypesKept
  <1>7. CASE CommitRefresh(t)
    <2>1. ASSUME NEW page \in Outcomes(r.to),
                 link' = [link EXCEPT ![r.link].page = Written(r.loaded.page, page, @)]
          PROVE  link' \in [Links -> Row]
      <3>1. Written(r.loaded.page, page, link[r.link].page) \in Page \cup {None}
        BY <1>1, <1>4, WhatAFetchBrings, WrittenIsOneOfTwo
      <3> QED  BY <1>1, <1>3, <2>1, <3>1 DEF TypesKept
    <2> QED  BY <1>2, <1>7, <2>1, TypesOfARequest DEF CommitRefresh, TypesKept
  <1> QED  BY <1>5, <1>6, <1>7 DEF RequestStep

LEMMA TypesDeleting ==
    ASSUME TypesKept, NEW t \in Threads, NEW l \in Links, Delete(t, l)
    PROVE  TypesKept'
  <1>1. link' = [link EXCEPT ![l].state = "deleted"] /\ UNCHANGED <<request, run, lock, version>>
    BY DEF Delete
  <1>2. [link[l] EXCEPT !.state = "deleted"] \in Row  BY DEF TypesKept, Row
  <1> QED  BY <1>1, <1>2 DEF TypesKept

LEMMA TypesRunning ==
    ASSUME TypesKept, NEW k \in Tasks, StartRun(k) \/ PickLinks(k) \/ LoadLinks(k) \/ Crash(k)
    PROVE  TypesKept'
  <1>1. run[k] \in Run /\ link \in [Links -> Row] /\ UNCHANGED <<link, version>>
    BY DEF TypesKept, StartRun, PickLinks, LoadLinks, Crash
  <1>2. CASE StartRun(k)
    <2>1. run' \in [Tasks -> Run]  BY <1>1, <1>2 DEF StartRun, TypesKept, Run
    <2> QED  BY <1>2, <2>1 DEF StartRun, TypesKept
  <1>3. CASE PickLinks(k)
    <2>1. PICK S \in SUBSET StaleLinks, pages \in [Destinations -> Page \cup {None}] :
             run' = [run EXCEPT ![k] = [NoRun EXCEPT !.step = "load", !.picked = S, !.pages = pages]]
      BY <1>3 DEF PickLinks
    <2>2. S \subseteq Links  BY DEF StaleLinks, Missing, Live
    <2>3. run' \in [Tasks -> Run]  BY <2>1, <2>2, NothingYet DEF TypesKept, Run
    <2> QED  BY <1>3, <2>3 DEF PickLinks, TypesKept
  <1>4. CASE LoadLinks(k)
    <2>1. run' \in [Tasks -> Run]  BY <1>1, <1>4 DEF LoadLinks, TypesKept, Run, Live
    <2> QED  BY <1>4, <2>1 DEF LoadLinks, TypesKept
  <1>5. CASE Crash(k)
    <2>1. run' \in [Tasks -> Run]  BY <1>5, NothingYet DEF Crash, TypesKept
    <2> QED  BY <1>5, <2>1 DEF Crash, TypesKept
  <1> QED  BY <1>2, <1>3, <1>4, <1>5

LEMMA TypesCommitRun ==
    ASSUME TypesKept, NEW k \in Tasks, CommitRun(k)
    PROVE  TypesKept'
  <1> DEFINE r == run[k]
             S == Refreshed(r)
             WithPage(l) == [link[l] EXCEPT !.page = Written(r.loaded[l].page,
                                                             r.pages[r.loaded[l].dest], @)]
  <1>1. r \in Run  BY DEF TypesKept
  <1>2. run' \in [Tasks -> Run] /\ lock' = None /\ UNCHANGED <<request, version>>
    BY NothingYet DEF CommitRun, TypesKept
  <1>3. ASSUME NEW l \in Links PROVE WithPage(l) \in Row
    <2>1. link[l] \in Row /\ r.loaded[l] \in Row  BY <1>1 DEF TypesKept, Run
    <2>2. r.pages[r.loaded[l].dest] \in Page \cup {None}  BY <1>1, <2>1 DEF Run, Row
    <2>3. Written(r.loaded[l].page, r.pages[r.loaded[l].dest], link[l].page) \in Page \cup {None}
      BY <2>1, <2>2, WrittenIsOneOfTwo DEF Row
    <2> QED  BY <2>1, <2>3 DEF Row
  <1>4. \/ UNCHANGED link
        \/ link' = [l \in Links |-> IF l \in S THEN WithPage(l) ELSE link[l]]
    BY DEF CommitRun
  <1>5. link' \in [Links -> Row]  BY <1>3, <1>4 DEF TypesKept
  <1> QED  BY <1>2, <1>5 DEF TypesKept

LEMMA TypesStep == TypesKept /\ [Next]_vars => TypesKept'
  <1> SUFFICES ASSUME TypesKept, [Next]_vars PROVE TypesKept'  OBVIOUS
  <1>1. CASE UNCHANGED vars  BY <1>1 DEF vars, TypesKept
  <1>2. CASE GetsOld  BY <1>2 DEF GetsOld, TypesKept
  <1>3. ASSUME NEW d \in Destinations, PageChanges(d) PROVE TypesKept'
    BY <1>3, PreviewsAssumption DEF PageChanges, TypesKept
  <1>4. ASSUME NEW t \in Threads, CutShort(t) PROVE TypesKept'
    BY <1>4, EndsIsTyped DEF CutShort, TypesKept
  <1> QED
    BY <1>1, <1>2, <1>3, <1>4, TypesMaking, TypesReading, TypesStoring, TypesDeleting,
       TypesRunning, TypesCommitRun DEF Next, RunStep

LEMMA TypesAlways == Spec => []TypesKept
  BY TypesInit, TypesStep, PTL DEF Spec

-----------------------------------------------------------------------------
(* One run at a time.                                                       *)

\* Whoever runs holds the lock: it is asked for before a run and goes with its end or its task.
RunnersHoldTheLock == \A k \in Tasks : run[k].step # "idle" => lock = k

LEMMA LockInit == Init => RunnersHoldTheLock
  BY NothingYet DEF Init, RunnersHoldTheLock

LEMMA LockRunning ==
    ASSUME TypesKept, RunnersHoldTheLock, NEW k \in Tasks,
           StartRun(k) \/ PickLinks(k) \/ LoadLinks(k) \/ CommitRun(k) \/ Crash(k)
    PROVE  RunnersHoldTheLock'
  <1>1. run \in [Tasks -> Run]  BY DEF TypesKept
  <1>2. CASE StartRun(k)
    <2>1. \A m \in Tasks : run[m].step = "idle"
      BY <1>2, PreviewsAssumption DEF StartRun, MayStart, RunnersHoldTheLock
    <2> QED  BY <1>1, <1>2, <2>1 DEF StartRun, RunnersHoldTheLock
  <1>3. CASE PickLinks(k) \/ LoadLinks(k)
    <2>1. run[k].step # "idle" /\ lock' = lock  BY <1>3 DEF PickLinks, LoadLinks
    <2>2. \A m \in Tasks \ {k} : run'[m] = run[m]  BY <1>1, <1>3 DEF PickLinks, LoadLinks
    <2> QED  BY <2>1, <2>2 DEF RunnersHoldTheLock
  <1>4. CASE CommitRun(k) \/ Crash(k)
    <2>1. run[k].step # "idle" /\ run' = [run EXCEPT ![k] = NoRun]
      BY <1>4 DEF CommitRun, Crash
    <2>2. \A m \in Tasks \ {k} : run[m].step = "idle"  BY <2>1 DEF RunnersHoldTheLock
    <2> QED  BY <1>1, <2>1, <2>2, NothingYet DEF RunnersHoldTheLock
  <1> QED  BY <1>2, <1>3, <1>4

LEMMA LockStep == TypesKept /\ RunnersHoldTheLock /\ [Next]_vars => RunnersHoldTheLock'
  <1> SUFFICES ASSUME TypesKept, RunnersHoldTheLock, [Next]_vars PROVE RunnersHoldTheLock'
    OBVIOUS
  <1>1. CASE UNCHANGED <<run, lock>>  BY <1>1 DEF RunnersHoldTheLock
  <1>2. CASE UNCHANGED vars \/ GetsOld \/ \E d \in Destinations : PageChanges(d)
    BY <1>1, <1>2 DEF vars, GetsOld, PageChanges
  <1>3. ASSUME NEW t \in Threads, RequestStep(t) \/ CutShort(t) PROVE RunnersHoldTheLock'
    BY <1>1, <1>3 DEF RequestStep, StoreOnCampaign, CommitMove, CommitRefresh, CutShort
  <1>4. ASSUME NEW t \in Threads, NEW l \in Links,
               \/ Refresh(t, l) \/ Delete(t, l)
               \/ \E d \in Destinations : Create(t, l, d) \/ CreateCampaign(t, l, d) \/ Move(t, l, d)
        PROVE  RunnersHoldTheLock'
    BY <1>1, <1>4 DEF Refresh, Delete, Create, CreateCampaign, Move
  <1> QED  BY <1>2, <1>3, <1>4, LockRunning DEF Next, RunStep

\* Of all the tasks that start the daily housekeeping at most one is in it, although a task may
\* die in its run and lose the lock with its connection (housekeeping's pg_try_advisory_lock).
THEOREM RunsAreAlone == Spec => []OneRunAtATime
  <1>1. RunnersHoldTheLock => OneRunAtATime  BY DEF RunnersHoldTheLock, OneRunAtATime
  <1> QED  BY <1>1, TypesInit, TypesStep, LockInit, LockStep, PTL DEF Spec

-----------------------------------------------------------------------------
(* A campaign's links show their own page.                                  *)

\* A page is d's, or there is none.
IsOf(page, d) == page # None => page[1] = d

\* A campaign's link, once made, leads where it did; so a request or a run that has its
\* destination brings its page, and none is to move it.
BringsTheirPage(r) ==
    (r.step # "idle" /\ r.link \in Campaign) =>
        /\ r.step # "move"
        /\ link[r.link].state # "none" /\ r.to = link[r.link].dest

StoresTheirPage(r) ==
    r.step \in {"load", "commit"} =>
        /\ \A d \in Destinations : IsOf(r.pages[d], d)
        /\ \A l \in r.picked : link[l].state # "none"
        /\ r.step = "commit" => \A l \in r.picked \cap Campaign : r.loaded[l].dest = link[l].dest

CampaignInv ==
    /\ CampaignShowsItsPage
    /\ \A t \in Threads : BringsTheirPage(request[t])
    /\ \A k \in Tasks : StoresTheirPage(run[k])

LEMMA CampaignInit == Init => CampaignInv
  <1> SUFFICES ASSUME Init PROVE CampaignInv  OBVIOUS
  <1>1. CampaignShowsItsPage
    BY NothingYet, PreviewsAssumption DEF Init, CampaignShowsItsPage
  <1>2. \A t \in Threads : BringsTheirPage(request[t])
    BY NothingYet DEF Init, BringsTheirPage
  <1>3. \A k \in Tasks : StoresTheirPage(run[k])
    BY NothingYet DEF Init, StoresTheirPage
  <1> QED  BY <1>1, <1>2, <1>3 DEF CampaignInv

\* The links' destinations stay, once they are made.
Settled ==
    /\ \A l \in Links : link[l].state # "none" => link'[l].state # "none"
    /\ \A l \in Campaign : link[l].state # "none" => link'[l].dest = link[l].dest

\* A step that leaves the links settled, and a request or a run that is new in it brings their
\* page, keeps the invariant as long as the pages shown are theirs.
LEMMA CampaignKept ==
    ASSUME TypesKept, CampaignInv, Settled, CampaignShowsItsPage',
           \A t \in Threads : request'[t] # request[t] => BringsTheirPage(request[t])',
           \A k \in Tasks : run'[k] # run[k] => StoresTheirPage(run[k])'
    PROVE  CampaignInv'
  <1>1. ASSUME NEW t \in Threads, request'[t] = request[t] PROVE BringsTheirPage(request[t])'
    <2>1. request[t].link \in Links /\ BringsTheirPage(request[t])
      BY DEF TypesKept, Request, CampaignInv
    <2> QED  BY <1>1, <2>1 DEF BringsTheirPage, Settled
  <1>2. ASSUME NEW k \in Tasks, run'[k] = run[k] PROVE StoresTheirPage(run[k])'
    <2>1. run[k].picked \subseteq Links /\ StoresTheirPage(run[k])
      BY DEF TypesKept, Run, CampaignInv
    <2> QED  BY <1>2, <2>1 DEF StoresTheirPage, Settled
  <1> QED  BY <1>1, <1>2 DEF CampaignInv

LEMMA EndedBringsNothing ==
    ASSUME TypesKept, NEW t \in Threads, Ends(t)
    PROVE  \A u \in Threads : request'[u] # request[u] => BringsTheirPage(request[u])'
  BY NothingYet DEF TypesKept, Ends, BringsTheirPage

LEMMA CampaignMaking ==
    ASSUME TypesKept, CampaignInv, NEW t \in Threads, NEW l \in Links, NEW d \in Destinations,
           Create(t, l, d) \/ CreateCampaign(t, l, d)
    PROVE  CampaignInv'
  <1>1. link[l].state = "none" /\ link \in [Links -> Row] /\ UNCHANGED run
    BY DEF Create, CreateCampaign, IsNext, TypesKept
  <1>2. PICK page : /\ link' = [link EXCEPT ![l] = [state |-> "live", dest |-> d, page |-> page]]
                    /\ l \in Campaign => page = None
    BY DEF Create, CreateCampaign
  <1>3. Settled  BY <1>1, <1>2, PreviewsAssumption DEF Settled
  <1>4. CampaignShowsItsPage'
    <2> SUFFICES ASSUME NEW m \in Campaign, link'[m].page # None PROVE PageOf(m, link[m].dest)'
      BY DEF CampaignShowsItsPage
    <2>1. m # l /\ link'[m] = link[m]  BY <1>1, <1>2, PreviewsAssumption
    <2> QED  BY <2>1 DEF CampaignInv, CampaignShowsItsPage, PageOf
  <1>5. \A u \in Threads : request'[u] # request[u] => BringsTheirPage(request[u])'
    <2>1. CASE Create(t, l, d)  BY <2>1 DEF Create
    <2>2. CASE CreateCampaign(t, l, d)
      <3>1. request' = [request EXCEPT ![t] =
                           [NoRequest EXCEPT !.step = "campaign", !.link = l, !.to = d]]
        BY <2>2 DEF CreateCampaign
      <3>2. link'[l].state # "none" /\ link'[l].dest = d  BY <1>1, <1>2
      <3> QED  BY <3>1, <3>2, NothingYet DEF TypesKept, BringsTheirPage, Request
    <2> QED  BY <2>1, <2>2
  <1> QED  BY <1>1, <1>3, <1>4, <1>5, CampaignKept

LEMMA CampaignReading ==
    ASSUME TypesKept, CampaignInv, NEW t \in Threads, NEW l \in Links,
           Refresh(t, l) \/ \E d \in Destinations : Move(t, l, d)
    PROVE  CampaignInv'
  <1>1. UNCHANGED <<link, run>> /\ IsLive(l)  BY DEF Refresh, Move
  <1>2. Settled /\ CampaignShowsItsPage'
    BY <1>1 DEF Settled, CampaignInv, CampaignShowsItsPage, PageOf
  <1>3. ASSUME NEW u \in Threads, request'[u] # request[u] PROVE BringsTheirPage(request[u])'
    <2>1. PICK step \in {"move", "refresh"}, d \in Destinations :
             /\ Loads(t, l, step, d)
             /\ step = "move" => l \notin Campaign
             /\ step = "refresh" => d = link[l].dest
      BY <1>3 DEF Refresh, Move, MayMove, TypesKept, Row
    <2>2. u = t /\ request'[u].link = l /\ request'[u].step = step /\ request'[u].to = d
      BY <1>3, <2>1 DEF Loads, TypesKept
    <2> QED  BY <1>1, <2>1, <2>2 DEF BringsTheirPage, IsLive
  <1> QED  BY <1>1, <1>2, <1>3, CampaignKept

LEMMA CampaignStoring ==
    ASSUME TypesKept, CampaignInv, NEW t \in Threads, RequestStep(t)
    PROVE  CampaignInv'
  <1> DEFINE r == request[t]
  <1>1. PICK k \in Links : k = r.link  BY DEF TypesKept, Request
  <1>2. BringsTheirPage(r) /\ r.to \in Destinations /\ link \in [Links -> Row] /\ r.step # "idle"
    BY DEF CampaignInv, TypesKept, Request, RequestStep, StoreOnCampaign, CommitMove, CommitRefresh
  <1>3. Ends(t) /\ UNCHANGED run
    BY DEF RequestStep, StoreOnCampaign, CommitMove, CommitRefresh
  <1>4. CASE UNCHANGED link
    BY <1>3, <1>4, CampaignKept, EndedBringsNothing
       DEF Settled, CampaignInv, CampaignShowsItsPage, PageOf
  <1>5. CASE CommitMove(t) /\ ~UNCHANGED link
    <2>1. PICK page : link' = [link EXCEPT ![k].dest = r.to, ![k].page = page]
      BY <1>1, <1>5 DEF CommitMove
    <2>2. k \notin Campaign  BY <1>1, <1>2, <1>5 DEF CommitMove, BringsTheirPage
    <2>3. \A l \in Links : /\ link'[l].state = link[l].state
                           /\ l \in Campaign => link'[l] = link[l]
      BY <1>2, <2>1, <2>2 DEF Row
    <2>4. Settled /\ CampaignShowsItsPage'
      BY <2>3, PreviewsAssumption DEF Settled, CampaignInv, CampaignShowsItsPage, PageOf
    <2> QED  BY <1>3, <2>4, CampaignKept, EndedBringsNothing
  <1>6. CASE (StoreOnCampaign(t) \/ CommitRefresh(t)) /\ ~UNCHANGED link
    <2>1. PICK page, shown : /\ page \in Outcomes(r.to) /\ shown \in {page, link[k].page}
                              /\ link' = [link EXCEPT ![k].page = shown]
      BY <1>1, <1>6 DEF StoreOnCampaign, CommitRefresh, Written
    <2>2. \A l \in Links : /\ link'[l].state = link[l].state /\ link'[l].dest = link[l].dest
                           /\ l # k => link'[l].page = link[l].page
                           /\ l = k => link'[l].page = shown
      BY <1>2, <2>1 DEF Row
    <2>3. Settled  BY <2>2, PreviewsAssumption DEF Settled
    <2>4. IsOf(page, r.to)  BY <1>2, <2>1, WhatAFetchBrings DEF IsOf
    <2>5. CampaignShowsItsPage'
      <3> SUFFICES ASSUME NEW l \in Campaign, link'[l].page # None PROVE PageOf(l, link[l].dest)'
        BY DEF CampaignShowsItsPage
      <3>1. l \in Links  BY PreviewsAssumption
      <3>2. CASE link'[l].page = link[l].page
        BY <2>2, <3>1, <3>2 DEF CampaignInv, CampaignShowsItsPage, PageOf
      <3>3. CASE l = k /\ shown = page
        <4>1. r.to = link[l].dest  BY <1>1, <1>2, <3>3 DEF BringsTheirPage
        <4> QED  BY <2>2, <2>4, <3>1, <3>3, <4>1 DEF IsOf, PageOf
      <3> QED  BY <2>1, <2>2, <3>1, <3>2, <3>3
    <2> QED  BY <1>3, <2>3, <2>5, CampaignKept, EndedBringsNothing
  <1> QED  BY <1>4, <1>5, <1>6 DEF RequestStep

LEMMA CampaignDeleting ==
    ASSUME TypesKept, CampaignInv, NEW t \in Threads, NEW k \in Links, Delete(t, k)
    PROVE  CampaignInv'
  <1>1. link' = [link EXCEPT ![k].state = "deleted"] /\ UNCHANGED <<request, run>>
    BY DEF Delete
  <1>2. \A l \in Links : /\ link'[l].page = link[l].page /\ link'[l].dest = link[l].dest
                         /\ link[l].state # "none" => link'[l].state # "none"
    BY <1>1 DEF TypesKept, Row
  <1>3. Settled /\ CampaignShowsItsPage'
    BY <1>2, PreviewsAssumption DEF Settled, CampaignInv, CampaignShowsItsPage, PageOf
  <1> QED  BY <1>1, <1>3, CampaignKept

LEMMA CampaignRunning ==
    ASSUME TypesKept, CampaignInv, NEW k \in Tasks,
           StartRun(k) \/ PickLinks(k) \/ LoadLinks(k) \/ Crash(k)
    PROVE  CampaignInv'
  <1>1. UNCHANGED <<link, request>> /\ run[k] \in Run /\ run \in [Tasks -> Run]
    BY DEF StartRun, PickLinks, LoadLinks, Crash, TypesKept
  <1>2. Settled /\ CampaignShowsItsPage'
    BY <1>1 DEF Settled, CampaignInv, CampaignShowsItsPage, PageOf
  <1>3. (\A m \in Tasks \ {k} : run'[m] = run[m])
    BY <1>1 DEF StartRun, PickLinks, LoadLinks, Crash
  <1>4. StoresTheirPage(run[k])'
    <2>1. CASE StartRun(k) \/ Crash(k)
      <3>1. run'[k].step \in {"select", "idle"}
        BY <1>1, <2>1, NothingYet DEF StartRun, Crash, Run
      <3> QED  BY <3>1 DEF StoresTheirPage
    <2>2. CASE PickLinks(k)
      <3>1. PICK S \in SUBSET StaleLinks, pages \in [Destinations -> Page \cup {None}] :
              /\ \A d \in Destinations :
                    pages[d] \in IF d \in {link[l].dest : l \in S} THEN Outcomes(d) ELSE {None}
              /\ run' = [run EXCEPT ![k] = [NoRun EXCEPT !.step = "load", !.picked = S,
                                                         !.pages = pages]]
        BY <2>2 DEF PickLinks
      <3>2. \A d \in Destinations : IsOf(pages[d], d)  BY <3>1, WhatAFetchBrings DEF IsOf
      <3>3. \A l \in S : link[l].state # "none"  BY DEF StaleLinks, Missing, Live, IsLive
      <3>4. run'[k].step = "load" /\ run'[k].picked = S /\ run'[k].pages = pages
        BY <1>1, <3>1, NothingYet DEF Run
      <3> QED  BY <1>1, <3>2, <3>3, <3>4 DEF StoresTheirPage, IsOf
    <2>3. CASE LoadLinks(k)
      <3>1. StoresTheirPage(run[k]) /\ run[k].step = "load"  BY <2>3 DEF CampaignInv, LoadLinks
      <3>2. /\ run'[k].step = "commit" /\ run'[k].pages = run[k].pages
            /\ run'[k].picked = run[k].picked \cap Live /\ run'[k].loaded = link
        BY <1>1, <2>3 DEF LoadLinks, Run
      <3> QED  BY <1>1, <3>1, <3>2 DEF StoresTheirPage
    <2> QED  BY <2>1, <2>2, <2>3
  <1> QED  BY <1>1, <1>2, <1>3, <1>4, CampaignKept

LEMMA CampaignCommitRun ==
    ASSUME TypesKept, CampaignInv, NEW k \in Tasks, CommitRun(k)
    PROVE  CampaignInv'
  <1> DEFINE r == run[k]
             S == Refreshed(r)
             new(l) == Written(r.loaded[l].page, r.pages[r.loaded[l].dest], link[l].page)
  <1>1. /\ r \in Run /\ StoresTheirPage(r) /\ r.step = "commit"
        /\ link \in [Links -> Row] /\ run \in [Tasks -> Run] /\ UNCHANGED request
    BY DEF TypesKept, CampaignInv, CommitRun
  <1>2. run' = [run EXCEPT ![k] = NoRun]  BY DEF CommitRun
  <1>3. \A m \in Tasks : run'[m] # run[m] => StoresTheirPage(run[m])'
    BY <1>1, <1>2, NothingYet DEF StoresTheirPage
  <1>4. \A l \in Links : /\ link'[l].state = link[l].state /\ link'[l].dest = link[l].dest
                         /\ \/ link'[l].page = link[l].page
                            \/ l \in S /\ link'[l].page = new(l)
    BY <1>1 DEF CommitRun, Row
  <1>5. Settled  BY <1>4, PreviewsAssumption DEF Settled
  <1>6. CampaignShowsItsPage'
    <2> SUFFICES ASSUME NEW l \in Campaign, link'[l].page # None PROVE PageOf(l, link[l].dest)'
      BY DEF CampaignShowsItsPage
    <2>1. l \in Links  BY PreviewsAssumption
    <2>2. CASE link'[l].page = link[l].page
      BY <1>4, <2>1, <2>2 DEF CampaignInv, CampaignShowsItsPage, PageOf
    <2>3. CASE l \in S /\ link'[l].page = new(l) /\ link'[l].page # link[l].page
      <3>1. link'[l].page = r.pages[r.loaded[l].dest]  BY <2>3 DEF Written
      <3>2. l \in r.picked /\ r.loaded[l].dest = link[l].dest
        BY <1>1, <2>3 DEF Refreshed, StoresTheirPage
      <3>3. link[l].dest \in Destinations  BY <1>1, <2>1 DEF Row
      <3>4. IsOf(r.pages[link[l].dest], link[l].dest)  BY <1>1, <3>3 DEF StoresTheirPage
      <3> QED  BY <1>4, <2>1, <3>1, <3>2, <3>4 DEF IsOf, PageOf
    <2> QED  BY <1>4, <2>1, <2>2, <2>3
  <1> QED  BY <1>1, <1>3, <1>5, <1>6, CampaignKept

LEMMA CampaignStep == TypesKept /\ CampaignInv /\ [Next]_vars => CampaignInv'
  <1> SUFFICES ASSUME TypesKept, CampaignInv, [Next]_vars PROVE CampaignInv'  OBVIOUS
  <1>1. CASE UNCHANGED <<link, run>> /\ \A t \in Threads : request'[t] # request[t] => Ends(t)
    <2>1. Settled /\ CampaignShowsItsPage'
      BY <1>1 DEF Settled, CampaignInv, CampaignShowsItsPage, PageOf
    <2> QED  BY <1>1, <2>1, CampaignKept, EndedBringsNothing
  <1>2. CASE UNCHANGED vars \/ GetsOld \/ \E d \in Destinations : PageChanges(d)
    BY <1>1, <1>2 DEF vars, GetsOld, PageChanges
  <1>3. ASSUME NEW t \in Threads, CutShort(t) PROVE CampaignInv'
    <2>1. \A u \in Threads : request'[u] # request[u] => u = t
      BY <1>3 DEF CutShort, Ends, TypesKept
    <2> QED  BY <1>1, <1>3, <2>1 DEF CutShort
  <1> QED
    BY <1>2, <1>3, CampaignMaking, CampaignReading, CampaignStoring, CampaignDeleting,
       CampaignRunning, CampaignCommitRun DEF Next, RunStep

\* A campaign's links show the page they lead to, or none, whatever requests, runs and crashes
\* cross: nothing moves them (update_url refuses a campaign's link), so that each page fetched
\* for one is still its own when it is stored, an UPDATE by id included.
THEOREM CampaignsShowTheirPage == Spec => []CampaignShowsItsPage
  <1>1. CampaignInv => CampaignShowsItsPage  BY DEF CampaignInv
  <1> QED  BY <1>1, TypesInit, TypesStep, CampaignInit, CampaignStep, PTL DEF Spec

=============================================================================
