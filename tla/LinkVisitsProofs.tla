-------------------------- MODULE LinkVisitsProofs --------------------------
(***************************************************************************)
(* Theorems of LinkVisits, for any number of links and worker threads, any *)
(* caps and any windows.                                                   *)
(***************************************************************************)
EXTENDS LinkVisits, FiniteSetTheorems, TLAPS

\* The clicks let in and not committed yet: threads past the count of l's clicks.
Admitted(l) ==
    {t \in Threads : thread[t].step = "log" /\ thread[t].link = l /\ IsClick(thread[t])}

\* Every cap a request goes by was the link's, so it isn't above the highest one.
CapsKnown ==
    /\ \A l \in Links : peak[l] # None => link[l].cap # None /\ link[l].cap <= peak[l]
    /\ \A t \in Threads : thread[t].step \in {"found", "count"} /\ peak[thread[t].link] # None =>
          thread[t].cap # None /\ thread[t].cap <= peak[thread[t].link]

\* What bounds the overshoot: the clicks committed and those let in, together.
ClicksAndAdmitted ==
    \A l \in Links : peak[l] # None =>
        visits[l].click + Cardinality(Admitted(l)) <= peak[l] + Cardinality(Threads) - 1

CapInv == TypeOK /\ CapsKnown /\ ClicksAndAdmitted

\* The moments that a click may bear.
Stamps(l) == opened[l] \cup crossed[l]

\* The moment a request took was one its link's window was open at, or an edit crossed it.
WindowInv ==
    /\ \A l \in Links : OpenAt(link[l], now) => now \in opened[l]
    /\ \A t \in Threads : thread[t].step \in {"count", "log"} => thread[t].at \in Stamps(thread[t].link)
    /\ ClicksWithinWindow

-----------------------------------------------------------------------------
LEMMA IdleIsARequest ==
    ASSUME NEW a \in Answers
    PROVE  /\ Idle(a) \in Request
           /\ Idle(a).step = "idle"
  <1>1. (CHOOSE l \in Links : TRUE) \in Links  BY LinkVisitsAssumption
  <1>2. 0 \in Time  BY LinkVisitsAssumption DEF Time
  <1> QED  BY <1>1, <1>2, SMT DEF Idle, Request, Agents, Answers

\* Moving a request to another step, or answering it, keeps the threads well typed.
LEMMA ThreadTypes ==
    ASSUME TypeOK, NEW t \in Threads, NEW r \in Request
    PROVE  /\ \A a \in Answers : Answered(t, a) => thread' \in [Threads -> Request]
           /\ \A s \in {"found", "count", "log", "open", "delete"} :
                 Moves(t, r, s) => thread' \in [Threads -> Request]
           /\ PastTheCap(t, r) => thread' \in [Threads -> Request]
  <1>1. \A a \in Answers : Answered(t, a) => thread' \in [Threads -> Request]
    BY IdleIsARequest DEF Answered, TypeOK
  <1>2. \A s \in {"found", "count", "log", "open", "delete"} :
           Moves(t, r, s) => thread' \in [Threads -> Request]
    BY DEF Moves, TypeOK, Request
  <1>3. PastTheCap(t, r) => thread' \in [Threads -> Request]
    BY <1>1, <1>2 DEF PastTheCap, Answers
  <1> QED  BY <1>1, <1>2, <1>3

LEMMA NewRequestType ==
    ASSUME TypeOK, NEW l \in Links, NEW agent \in Agents, NEW nostat \in BOOLEAN
    PROVE  /\ NewRequest(l, agent, nostat) \in Request
           /\ [NewRequest(l, agent, nostat) EXCEPT !.window = link[l].window] \in Request
  <1>1. 0 \in Time  BY LinkVisitsAssumption DEF Time
  <1>2. link[l].cap \in Caps \cup {None} /\ link[l].window \in Windows  BY DEF TypeOK, Row
  <1> QED  BY <1>1, <1>2 DEF NewRequest, Request, Answers

\* Once it has the time, a request forgets the window.
LEMMA CheckedType ==
    ASSUME TypeOK, NEW t \in Threads
    PROVE  /\ [thread[t] EXCEPT !.at = now, !.window = None] \in Request
           /\ [thread[t] EXCEPT !.at = now, !.window = None].link = thread[t].link
           /\ [thread[t] EXCEPT !.at = now, !.window = None].cap = thread[t].cap
           /\ [thread[t] EXCEPT !.at = now, !.window = None].at = now
  BY DEF TypeOK, Request

LEMMA TotalType ==
    ASSUME TypeOK, NEW l \in Links
    PROVE  Total(l) \in Nat
  BY DEF TypeOK, Total, Visits

-----------------------------------------------------------------------------
\* Type correctness.
LEMMA TypeInit == Init => TypeOK
  <1> SUFFICES ASSUME Init PROVE TypeOK  OBVIOUS
  <1>1. now \in Time /\ requests \in 0 .. MaxRequests /\ orphans \in Nat
    BY LinkVisitsAssumption DEF Init, Time
  <1>2. link \in [Links -> Row]  BY DEF Init
  <1>3. thread \in [Threads -> Request]  BY IdleIsARequest DEF Init, Answers
  <1>4. visits \in [Links -> Visits]  BY DEF Init, NoVisits, Visits
  <1>5. /\ clickTimes \in [Links -> SUBSET Time]
        /\ opened \in [Links -> SUBSET Time]
        /\ crossed \in [Links -> SUBSET Time]
    BY <1>1 DEF Init
  <1>6. peak \in [Links -> Caps \cup {None}]  BY <1>2 DEF Init, Row
  <1> QED  BY <1>1, <1>2, <1>3, <1>4, <1>5, <1>6 DEF TypeOK

LEMMA TypeStep == TypeOK /\ [Next]_vars => TypeOK'
  <1> SUFFICES ASSUME TypeOK, [Next]_vars PROVE TypeOK'  OBVIOUS
  <1> USE LinkVisitsAssumption
  <1>1. CASE Tick
    BY <1>1 DEF Tick, TypeOK, Time
  <1>2. ASSUME NEW l \in Links, UpdateLink(l) PROVE TypeOK'
    <2>1. PICK cap \in Caps \cup {None}, window \in Windows :
             /\ link' = [link EXCEPT ![l].cap = cap, ![l].window = window]
             /\ peak' = [peak EXCEPT ![l] = PeakWith(l, cap)]
             /\ opened' = [opened EXCEPT ![l] = @ \cup {m \in {now} : OpenAt(link'[l], m)}]
      BY <1>2 DEF UpdateLink
    <2>2. link' \in [Links -> Row]
      <3>1. link[l] \in Row  BY DEF TypeOK
      <3>2. [link[l] EXCEPT !.cap = cap, !.window = window] \in Row  BY <3>1 DEF Row
      <3>3. link' = [link EXCEPT ![l] = [link[l] EXCEPT !.cap = cap, !.window = window]]
        BY <2>1 DEF TypeOK
      <3> QED  BY <3>2, <3>3 DEF TypeOK
    <2>3. peak' \in [Links -> Caps \cup {None}]  BY <2>1 DEF TypeOK, PeakWith
    <2>4. opened' \in [Links -> SUBSET Time]  BY <2>1 DEF TypeOK
    <2>5. requests' \in 0 .. MaxRequests  BY <1>2 DEF UpdateLink, TypeOK
    <2> QED  BY <1>2, <2>2, <2>3, <2>4, <2>5 DEF UpdateLink, TypeOK
  <1>3. ASSUME NEW t \in Threads, CountClicks(t) PROVE TypeOK'
    <2>1. thread[t] \in Request  BY DEF TypeOK
    <2>2. thread' \in [Threads -> Request]
      BY <1>3, <2>1, ThreadTypes DEF CountClicks, Answers
    <2> QED  BY <1>3, <2>2 DEF CountClicks, TypeOK
  <1>4. ASSUME NEW t \in Threads, LogVisit(t) PROVE TypeOK'
    <2>1. thread[t] \in Request  BY DEF TypeOK
    <2>2. thread' \in [Threads -> Request]
      BY <1>4, <2>1, ThreadTypes DEF LogVisit, Answers
    <2> DEFINE k == thread[t].link
    <2>k. k \in Links /\ visits[k] \in Visits /\ link[k] \in Row  BY <2>1 DEF Request, TypeOK
    <2>3. visits' \in [Links -> Visits]
      <3>1. WithVisit(visits[k], thread[t]) \in Visits  BY <2>k DEF WithVisit, Visits
      <3>2. visits' \in {visits, [visits EXCEPT ![k] = WithVisit(visits[k], thread[t])]}
        BY <1>4 DEF LogVisit
      <3> QED  BY <2>k, <3>1, <3>2 DEF TypeOK
    <2>4. clickTimes' \in [Links -> SUBSET Time]
      BY <1>4, <2>1 DEF LogVisit, TypeOK, Stamp, Request
    <2>5. LastClickAfter(thread[t]) \in Time \cup {None}
      BY <2>1 DEF LastClickAfter, Stamp, TypeOK, Row, Request
    <2>6. link' \in [Links -> Row]
      <3>1. [link[k] EXCEPT !.lastClick = LastClickAfter(thread[t])] \in Row
        BY <2>k, <2>5 DEF Row
      <3>2. link' \in {link, [link EXCEPT ![k] =
                                 [link[k] EXCEPT !.lastClick = LastClickAfter(thread[t])]]}
        BY <1>4 DEF LogVisit
      <3> QED  BY <2>k, <3>1, <3>2 DEF TypeOK
    <2> QED  BY <1>4, <2>2, <2>3, <2>4, <2>6 DEF LogVisit, TypeOK
  <1>5. ASSUME NEW t \in Threads, LogOpen(t) PROVE TypeOK'
    <2>1. thread[t] \in Request  BY DEF TypeOK
    <2>2. thread' \in [Threads -> Request]
      BY <1>5, <2>1, ThreadTypes DEF LogOpen, Answers
    <2> DEFINE k == thread[t].link
    <2>3. visits' \in [Links -> Visits]
      <3>1. k \in Links /\ visits[k] \in Visits  BY <2>1 DEF Request, TypeOK
      <3>2. [visits[k] EXCEPT !.open = @ + 1] \in Visits  BY <3>1 DEF Visits
      <3>3. visits' \in {visits, [visits EXCEPT ![k] = [visits[k] EXCEPT !.open = visits[k].open + 1]]}
        BY <1>5 DEF LogOpen
      <3> QED  BY <3>1, <3>2, <3>3 DEF TypeOK
    <2> QED  BY <1>5, <2>2, <2>3 DEF LogOpen, TypeOK
  <1>6. ASSUME NEW t \in Threads, DeleteLink(t) PROVE TypeOK'
    <2>1. thread[t] \in Request  BY DEF TypeOK
    <2>2. thread' \in [Threads -> Request]
      BY <1>6, <2>1, ThreadTypes DEF DeleteLink, Answers
    <2> DEFINE k == thread[t].link
    <2>k. k \in Links /\ link[k] \in Row  BY <2>1 DEF Request, TypeOK
    <2>3. link' \in [Links -> Row]
      <3>1. [link[k] EXCEPT !.live = FALSE, !.lastClick = None] \in Row  BY <2>k DEF Row
      <3>2. link' \in {link, [link EXCEPT ![k] =
                                 [link[k] EXCEPT !.live = FALSE, !.lastClick = None]]}
        BY <1>6, <2>k DEF DeleteLink, TypeOK
      <3> QED  BY <2>k, <3>1, <3>2 DEF TypeOK
    <2>4. visits' \in [Links -> Visits] /\ clickTimes' \in [Links -> SUBSET Time]
      <3>1. NoVisits \in Visits  BY DEF NoVisits, Visits
      <3> QED  BY <1>6, <2>k, <3>1 DEF DeleteLink, TypeOK
    <2> QED  BY <1>6, <2>2, <2>3, <2>4 DEF DeleteLink, TypeOK
  <1>7. ASSUME NEW t \in Threads, NEW l \in Links, AskPixel(t, l) PROVE TypeOK'
    <2>1. NewRequest(l, "person", FALSE) \in Request  BY NewRequestType DEF Agents
    <2>2. thread' \in [Threads -> Request]
      BY <1>7, <2>1, ThreadTypes DEF AskPixel, Answers
    <2>3. requests' \in 0 .. MaxRequests  BY <1>7 DEF AskPixel, Free, TypeOK
    <2> QED  BY <1>7, <2>2, <2>3 DEF AskPixel, TypeOK
  <1>8. ASSUME NEW t \in Threads, NEW l \in Links, LoadToDelete(t, l) PROVE TypeOK'
    <2> DEFINE r == [NewRequest(l, "person", FALSE) EXCEPT !.seen = Total(l)]
    <2>1. r \in Request
      <3>1. NewRequest(l, "person", FALSE) \in Request  BY NewRequestType DEF Agents
      <3>2. Total(l) \in Nat  BY TotalType
      <3> QED  BY <3>1, <3>2 DEF Request
    <2>2. thread' \in [Threads -> Request]
      BY <1>8, <2>1, ThreadTypes DEF LoadToDelete, Answers
    <2>3. requests' \in 0 .. MaxRequests  BY <1>8 DEF LoadToDelete, Free, TypeOK
    <2> QED  BY <1>8, <2>2, <2>3 DEF LoadToDelete, TypeOK
  <1>9. ASSUME NEW t \in Threads, NEW l \in Links, NEW agent \in Agents,
               NEW nostat \in BOOLEAN, Follow(t, l, agent, nostat)
        PROVE  TypeOK'
    <2>1. [NewRequest(l, agent, nostat) EXCEPT !.window = link[l].window] \in Request
      BY NewRequestType
    <2>2. thread' \in [Threads -> Request]
      BY <1>9, <2>1, ThreadTypes DEF Follow, Answers
    <2>3. requests' \in 0 .. MaxRequests /\ orphans' \in Nat
      BY <1>9 DEF Follow, Free, TypeOK
    <2> QED  BY <1>9, <2>2, <2>3 DEF Follow, TypeOK
  <1>11. ASSUME NEW t \in Threads, CheckWindow(t) PROVE TypeOK'
    <2> DEFINE r == [thread[t] EXCEPT !.at = now, !.window = None]
    <2>1. r \in Request  BY CheckedType
    <2>2. \/ \E a \in Answers : Answered(t, a)
          \/ PastTheCap(t, r) \/ Moves(t, r, "count")
      BY <1>11 DEF CheckWindow, Answers
    <2>3. thread' \in [Threads -> Request]  BY <2>1, <2>2, ThreadTypes
    <2>4. crossed' \in [Links -> SUBSET Time]  BY <1>11 DEF CheckWindow, TypeOK
    <2> QED  BY <1>11, <2>3, <2>4 DEF CheckWindow, TypeOK
  <1>10. CASE UNCHANGED vars  BY <1>10 DEF vars, TypeOK
  <1> QED
    BY <1>1, <1>2, <1>3, <1>4, <1>5, <1>6, <1>7, <1>8, <1>9, <1>10, <1>11 DEF Next

\* The type invariant of LinkVisits: rows, counters and requests keep their types.
THEOREM LinkVisitsTypeOK == Spec => []TypeOK
  BY TypeInit, TypeStep, PTL DEF Spec

-----------------------------------------------------------------------------
(***************************************************************************)
(* The overshoot of a cap.  `visits[l].click <= peak[l] + Threads - 1` is  *)
(* not inductive: a thread past its count commits whatever happened since. *)
(* ClicksAndAdmitted counts those threads too.  A thread is let in only    *)
(* while the clicks are below its cap, so below the highest one, and with  *)
(* it there are at most Threads of them.                                   *)
(***************************************************************************)
LEMMA AdmittedBound ==
    ASSUME NEW l \in Links
    PROVE  /\ IsFiniteSet(Admitted(l))
           /\ Cardinality(Admitted(l)) \in Nat
           /\ Cardinality(Threads) \in Nat
           /\ Cardinality(Admitted(l)) <= Cardinality(Threads)
           /\ IsFiniteSet(Admitted(l)')
           /\ Cardinality(Admitted(l)') \in Nat
           /\ Cardinality(Admitted(l)') <= Cardinality(Threads)
  <1>1. Admitted(l) \in SUBSET Threads /\ Admitted(l)' \in SUBSET Threads  BY DEF Admitted
  <1>2. IsFiniteSet(Threads)  BY LinkVisitsAssumption
  <1> QED  BY <1>1, <1>2, FS_Subset, FS_CardinalityType

\* A thread that is answered, or moves to another step than "log", lets nobody in.
LEMMA AdmittedShrinks ==
    ASSUME TypeOK, NEW t \in Threads, NEW q \in Request, q.step # "log",
           thread' = [thread EXCEPT ![t] = q], NEW l \in Links
    PROVE  Cardinality(Admitted(l)') <= Cardinality(Admitted(l))
  <1>1. Admitted(l)' \in SUBSET Admitted(l)  BY DEF Admitted, TypeOK
  <1> QED  BY <1>1, AdmittedBound, FS_Subset

\* CapsKnown is kept by a thread that goes on without its cap.
LEMMA CapsKnownKept ==
    ASSUME TypeOK, CapsKnown, NEW t \in Threads, NEW q \in Request, q.step \notin {"found", "count"},
           thread' = [thread EXCEPT ![t] = q], UNCHANGED peak,
           \A l \in Links : link'[l].cap = link[l].cap
    PROVE  CapsKnown'
  BY DEF CapsKnown, TypeOK

LEMMA CapsAreNumbers == \A c \in Caps \cup {None} : c # None => c \in Nat \ {0}
  BY LinkVisitsAssumption

LEMMA CapInit == Init => CapsKnown /\ ClicksAndAdmitted
  <1> SUFFICES ASSUME Init PROVE CapsKnown /\ ClicksAndAdmitted  OBVIOUS
  <1>1. \A t \in Threads : thread[t].step = "idle"
    BY IdleIsARequest DEF Init, Answers
  <1>2. CapsKnown
    <2>1. link \in [Links -> Row] /\ peak = [l \in Links |-> link[l].cap]  BY DEF Init
    <2>2. \A l \in Links : link[l].cap \in Caps \cup {None} /\ peak[l] = link[l].cap
      BY <2>1 DEF Row
    <2>3. \A l \in Links : peak[l] # None => link[l].cap # None /\ link[l].cap <= peak[l]
      BY <2>2, CapsAreNumbers
    <2> QED  BY <1>1, <2>3 DEF CapsKnown
  <1>3. ASSUME NEW l \in Links, peak[l] # None
        PROVE  visits[l].click + Cardinality(Admitted(l)) <= peak[l] + Cardinality(Threads) - 1
    <2>1. visits[l].click = 0  BY DEF Init, NoVisits
    <2>2. peak[l] \in Nat \ {0}
      <3>1. link[l] \in Row /\ peak[l] = link[l].cap  BY DEF Init
      <3> QED  BY <1>3, <3>1, LinkVisitsAssumption DEF Row
    <2> QED  BY <2>1, <2>2, AdmittedBound
  <1> QED  BY <1>2, <1>3 DEF ClicksAndAdmitted

\* A step that answers a thread or moves it elsewhere than to "log", and adds no click.
LEMMA NobodyLetIn ==
    ASSUME CapInv, NEW t \in Threads, NEW q \in Request, q.step \notin {"found", "count", "log"},
           thread' = [thread EXCEPT ![t] = q], UNCHANGED peak,
           \A l \in Links : link'[l].cap = link[l].cap,
           \A l \in Links : visits'[l].click \in Nat /\ visits'[l].click <= visits[l].click
    PROVE  CapsKnown' /\ ClicksAndAdmitted'
  <1>1. CapsKnown'  BY CapsKnownKept DEF CapInv
  <1>2. ASSUME NEW l \in Links, peak'[l] # None
        PROVE  visits'[l].click + Cardinality(Admitted(l)')
                   <= peak'[l] + Cardinality(Threads) - 1
    <2>1. Cardinality(Admitted(l)') <= Cardinality(Admitted(l))
      BY AdmittedShrinks DEF CapInv
    <2>2. visits[l].click + Cardinality(Admitted(l)) <= peak[l] + Cardinality(Threads) - 1
      BY <1>2 DEF CapInv, ClicksAndAdmitted
    <2>3. peak[l] \in Nat /\ visits[l].click \in Nat
      BY <1>2, LinkVisitsAssumption DEF CapInv, TypeOK, Visits
    <2> QED  BY <2>1, <2>2, <2>3, AdmittedBound
  <1> QED  BY <1>1, <1>2 DEF ClicksAndAdmitted

LEMMA PeakWithBounds ==
    ASSUME TypeOK, NEW l \in Links, NEW cap \in Caps \cup {None}, PeakWith(l, cap) # None
    PROVE  /\ peak[l] # None /\ cap # None
           /\ peak[l] \in Nat /\ cap \in Nat /\ PeakWith(l, cap) \in Nat
           /\ peak[l] <= PeakWith(l, cap) /\ cap <= PeakWith(l, cap)
  <1>1. peak[l] # None /\ cap # None  BY DEF PeakWith
  <1>2. peak[l] \in Nat /\ cap \in Nat  BY <1>1, LinkVisitsAssumption DEF TypeOK
  <1>3. PeakWith(l, cap) = IF cap > peak[l] THEN cap ELSE peak[l]  BY <1>1 DEF PeakWith
  <1> QED  BY <1>1, <1>2, <1>3

LEMMA CapUpdate ==
    ASSUME CapInv, NEW l \in Links, UpdateLink(l)
    PROVE  CapsKnown' /\ ClicksAndAdmitted'
  <1>1. PICK cap \in Caps \cup {None}, window \in Windows :
           /\ link' = [link EXCEPT ![l].cap = cap, ![l].window = window]
           /\ peak' = [peak EXCEPT ![l] = PeakWith(l, cap)]
    BY DEF UpdateLink
  <1>2. UNCHANGED <<thread, visits>>  BY DEF UpdateLink
  <1>3. /\ link'[l].cap = cap /\ peak'[l] = PeakWith(l, cap)
        /\ \A k \in Links : k # l => link'[k].cap = link[k].cap /\ peak'[k] = peak[k]
    <2>1. link \in [Links -> Row] /\ peak \in [Links -> Caps \cup {None}]
      BY DEF CapInv, TypeOK
    <2>2. link' = [link EXCEPT ![l] = [link[l] EXCEPT !.cap = cap, !.window = window]]
      BY <1>1, <2>1
    <2>3. [link[l] EXCEPT !.cap = cap, !.window = window].cap = cap  BY <2>1 DEF Row
    <2> QED  BY <1>1, <2>1, <2>2, <2>3
  <1>4. \A k \in Links : peak'[k] # None =>
           /\ peak[k] # None /\ peak[k] \in Nat /\ peak'[k] \in Nat /\ peak[k] <= peak'[k]
    <2> SUFFICES ASSUME NEW k \in Links, peak'[k] # None
                 PROVE  /\ peak[k] # None /\ peak[k] \in Nat
                        /\ peak'[k] \in Nat /\ peak[k] <= peak'[k]
      OBVIOUS
    <2>1. CASE k = l  BY <1>3, <2>1, PeakWithBounds DEF CapInv
    <2>2. CASE k # l
      <3>1. peak[k] \in Caps \cup {None} /\ peak'[k] = peak[k]
        BY <1>3, <2>2 DEF CapInv, TypeOK
      <3> QED  BY <3>1, CapsAreNumbers
    <2> QED  BY <2>1, <2>2
  <1>5. CapsKnown'
    <2>1. \A k \in Links : peak'[k] # None => link'[k].cap # None /\ link'[k].cap <= peak'[k]
      BY <1>3, PeakWithBounds DEF CapInv, CapsKnown
    <2>2. ASSUME NEW t \in Threads, thread'[t].step \in {"found", "count"}, peak'[thread'[t].link] # None
          PROVE  thread'[t].cap # None /\ thread'[t].cap <= peak'[thread'[t].link]
      <3>1. thread[t] \in Request  BY DEF CapInv, TypeOK
      <3>2. thread[t].link \in Links /\ thread[t].cap \in Nat \cup {None}
        BY <3>1, LinkVisitsAssumption DEF Request
      <3>3. thread[t].cap # None /\ thread[t].cap <= peak[thread[t].link]
        BY <1>2, <1>4, <2>2, <3>2 DEF CapInv, CapsKnown
      <3> QED  BY <1>2, <1>4, <2>2, <3>2, <3>3
    <2> QED  BY <2>1, <2>2 DEF CapsKnown
  <1>6. ASSUME NEW k \in Links, peak'[k] # None
        PROVE  visits'[k].click + Cardinality(Admitted(k)')
                   <= peak'[k] + Cardinality(Threads) - 1
    <2>1. Admitted(k)' = Admitted(k)  BY <1>2 DEF Admitted
    <2>2. visits[k].click + Cardinality(Admitted(k)) <= peak[k] + Cardinality(Threads) - 1
      BY <1>4, <1>6 DEF CapInv, ClicksAndAdmitted
    <2>3. visits[k].click \in Nat  BY DEF CapInv, TypeOK, Visits
    <2> QED  BY <1>2, <1>4, <1>6, <2>1, <2>2, <2>3, AdmittedBound
  <1> QED  BY <1>5, <1>6 DEF ClicksAndAdmitted

\* Past the cap, a thread is answered or let in; only r.link's count of admitted grows.
LEMMA LetIn ==
    ASSUME TypeOK, NEW t \in Threads, NEW r \in Request, PastTheCap(t, r),
           NEW l \in Links, l # r.link
    PROVE  Cardinality(Admitted(l)') <= Cardinality(Admitted(l))
  <1>1. CASE \E a \in Answers : Answered(t, a)
    <2>1. PICK a \in Answers : thread' = [thread EXCEPT ![t] = Idle(a)]  BY <1>1 DEF Answered
    <2> QED  BY <2>1, IdleIsARequest, AdmittedShrinks
  <1>2. CASE Moves(t, r, "log")
    <2>1. Admitted(l)' \in SUBSET Admitted(l)
      BY <1>2 DEF Moves, Admitted, TypeOK, Request
    <2> QED  BY <2>1, AdmittedBound, FS_Subset
  <1> QED  BY <1>1, <1>2 DEF PastTheCap, Answers

LEMMA PastTheCapKeepsCapsKnown ==
    ASSUME TypeOK, CapsKnown, NEW t \in Threads, NEW r \in Request, PastTheCap(t, r),
           UNCHANGED <<peak, link>>
    PROVE  CapsKnown'
  <1>1. CASE \E a \in Answers : Answered(t, a)
    <2>1. PICK a \in Answers : thread' = [thread EXCEPT ![t] = Idle(a)]  BY <1>1 DEF Answered
    <2>2. Idle(a).step \notin {"found", "count"}  BY IdleIsARequest
    <2> QED  BY <2>1, <2>2, IdleIsARequest, CapsKnownKept
  <1>2. CASE Moves(t, r, "log")
    <2>1. [r EXCEPT !.step = "log"] \in Request /\ [r EXCEPT !.step = "log"].step = "log"
      BY DEF Request
    <2> QED  BY <1>2, <2>1, CapsKnownKept DEF Moves
  <1> QED  BY <1>1, <1>2 DEF PastTheCap, Answers

\* A request let past its cap, under any of the conditions the code lets it in by.
LEMMA PastTheCapStep ==
    ASSUME CapInv, NEW t \in Threads, NEW r \in Request, PastTheCap(t, r),
           UNCHANGED <<peak, link, visits>>,
           peak[r.link] # None => visits[r.link].click < peak[r.link]
    PROVE  CapsKnown' /\ ClicksAndAdmitted'
  <1>1. CapsKnown'  BY PastTheCapKeepsCapsKnown DEF CapInv
  <1>2. ASSUME NEW l \in Links, peak[l] # None
        PROVE  visits[l].click + Cardinality(Admitted(l)')
                   <= peak[l] + Cardinality(Threads) - 1
    <2>1. peak[l] \in Nat /\ visits[l].click \in Nat
      BY <1>2, CapsAreNumbers DEF CapInv, TypeOK, Visits
    <2>2. CASE l = r.link  BY <1>2, <2>1, <2>2, AdmittedBound
    <2>3. CASE l # r.link
      <3>1. Cardinality(Admitted(l)') <= Cardinality(Admitted(l))  BY <2>3, LetIn DEF CapInv
      <3>2. visits[l].click + Cardinality(Admitted(l)) <= peak[l] + Cardinality(Threads) - 1
        BY <1>2 DEF CapInv, ClicksAndAdmitted
      <3> QED  BY <2>1, <3>1, <3>2, AdmittedBound
    <2> QED  BY <2>2, <2>3
  <1> QED  BY <1>1, <1>2 DEF ClicksAndAdmitted

\* A thread that is answered and adds no click.
LEMMA AnsweredStep ==
    ASSUME CapInv, NEW t \in Threads, NEW a \in Answers, Answered(t, a), UNCHANGED peak,
           \A l \in Links : link'[l].cap = link[l].cap,
           \A l \in Links : visits'[l].click \in Nat /\ visits'[l].click <= visits[l].click
    PROVE  CapsKnown' /\ ClicksAndAdmitted'
  <1>1. Idle(a) \in Request /\ Idle(a).step \notin {"found", "count", "log"}  BY IdleIsARequest
  <1>2. thread' = [thread EXCEPT ![t] = Idle(a)]  BY DEF Answered
  <1> QED  BY <1>1, <1>2, NobodyLetIn

LEMMA CapCountClicks ==
    ASSUME CapInv, NEW t \in Threads, CountClicks(t)
    PROVE  CapsKnown' /\ ClicksAndAdmitted'
  <1> DEFINE r == thread[t]
  <1>1. r \in Request /\ r.link \in Links  BY DEF CapInv, TypeOK, Request
  <1>2. UNCHANGED <<peak, link, visits>> /\ r.step = "count"  BY DEF CountClicks
  <1>3. CASE Answered(t, "used_up")
    BY <1>2, <1>3, AnsweredStep DEF CapInv, TypeOK, Visits, Answers
  <1>4. CASE ~CapReached(r) /\ PastTheCap(t, r)
    <2>1. ASSUME peak[r.link] # None PROVE visits[r.link].click < peak[r.link]
      <3>1. r.cap # None /\ r.cap <= peak[r.link]
        BY <1>2, <2>1 DEF CapInv, CapsKnown
      <3>2. ~(visits[r.link].click >= r.cap)  BY <1>4 DEF CapReached, ClickCount
      <3>3. r.cap \in Nat /\ peak[r.link] \in Nat /\ visits[r.link].click \in Nat
        BY <1>1, <2>1, <3>1, CapsAreNumbers DEF CapInv, TypeOK, Request, Visits
      <3> QED  BY <3>1, <3>2, <3>3
    <2> QED  BY <1>1, <1>2, <1>4, <2>1, PastTheCapStep
  <1> QED  BY <1>3, <1>4 DEF CountClicks

LEMMA CapLogVisit ==
    ASSUME CapInv, NEW t \in Threads, LogVisit(t)
    PROVE  CapsKnown' /\ ClicksAndAdmitted'
  <1> DEFINE r == thread[t]
  <1>1. r \in Request /\ r.link \in Links /\ r.step = "log"
    BY DEF CapInv, TypeOK, Request, LogVisit
  <1>2. UNCHANGED peak /\ visits \in [Links -> Visits] /\ link \in [Links -> Row]
    BY DEF LogVisit, CapInv, TypeOK
  <1>3. \A l \in Links : link'[l].cap = link[l].cap
    <2>1. [link[r.link] EXCEPT !.lastClick = LastClickAfter(r)].cap = link[r.link].cap
      BY <1>1, <1>2 DEF Row
    <2>2. link' \in {link, [link EXCEPT ![r.link] =
                               [link[r.link] EXCEPT !.lastClick = LastClickAfter(r)]]}
      BY DEF LogVisit
    <2> QED  BY <1>1, <1>2, <2>1, <2>2
  <1>4. CASE IsClick(r) /\ link[r.link].live
    <2>1. thread' = [thread EXCEPT ![t] = Idle("302")]  BY <1>4 DEF LogVisit, Answered
    <2>2. Idle("302") \in Request /\ Idle("302").step \notin {"found", "count", "log"}
      BY IdleIsARequest DEF Answers
    <2>3. CapsKnown'  BY <1>2, <1>3, <2>1, <2>2, CapsKnownKept DEF CapInv
    <2>4. visits' = [visits EXCEPT ![r.link] = [visits[r.link] EXCEPT !.click = visits[r.link].click + 1]]
      BY <1>4 DEF LogVisit, WithVisit
    <2>5. ASSUME NEW l \in Links, peak[l] # None
          PROVE  visits'[l].click + Cardinality(Admitted(l)')
                     <= peak[l] + Cardinality(Threads) - 1
      <3>1. visits[l].click + Cardinality(Admitted(l)) <= peak[l] + Cardinality(Threads) - 1
        BY <2>5 DEF CapInv, ClicksAndAdmitted
      <3>2. peak[l] \in Nat /\ visits[l].click \in Nat
        BY <2>5, CapsAreNumbers DEF CapInv, TypeOK, Visits
      <3>3. CASE l = r.link
        <4>1. Admitted(l)' = Admitted(l) \ {t} /\ t \in Admitted(l)
          BY <1>1, <1>4, <2>1, <2>2, <3>3 DEF Admitted, CapInv, TypeOK
        <4>2. Cardinality(Admitted(l)') = Cardinality(Admitted(l)) - 1
          BY <4>1, AdmittedBound, FS_RemoveElement
        <4>3. visits'[l].click = visits[l].click + 1  BY <1>1, <1>2, <2>4, <3>3 DEF Visits
        <4> QED  BY <3>1, <3>2, <4>2, <4>3, AdmittedBound
      <3>4. CASE l # r.link
        <4>1. Cardinality(Admitted(l)') <= Cardinality(Admitted(l))
          BY <2>1, <2>2, AdmittedShrinks DEF CapInv
        <4>2. visits'[l] = visits[l]  BY <1>2, <2>4, <3>4
        <4> QED  BY <3>1, <3>2, <4>1, <4>2, AdmittedBound
      <3> QED  BY <3>3, <3>4
    <2> QED  BY <1>2, <2>3, <2>5 DEF ClicksAndAdmitted
  <1>5. CASE ~IsClick(r) \/ ~link[r.link].live
    <2>1. PICK a \in Answers : Answered(t, a)  BY DEF LogVisit, Answers
    <2>2. visits' \in {visits, [visits EXCEPT ![r.link] =
                                   [visits[r.link] EXCEPT !.bot = @ + 1]]}
      BY <1>5 DEF LogVisit, WithVisit
    <2>3. \A l \in Links : visits'[l].click \in Nat /\ visits'[l].click <= visits[l].click
      BY <1>1, <1>2, <2>2 DEF Visits
    <2> QED  BY <1>2, <1>3, <2>1, <2>3, AnsweredStep
  <1> QED  BY <1>4, <1>5

\* A request that goes on with the cap that it read.
LEMMA CapGoesOn ==
    ASSUME CapInv, NEW t \in Threads, NEW q \in Request, q.step \in {"found", "count"},
           thread' = [thread EXCEPT ![t] = q], UNCHANGED <<peak, link, visits>>,
           peak[q.link] # None => q.cap # None /\ q.cap <= peak[q.link]
    PROVE  CapsKnown' /\ ClicksAndAdmitted'
  <1>1. CapsKnown'  BY DEF CapsKnown, CapInv, TypeOK
  <1>2. ASSUME NEW k \in Links, peak[k] # None
        PROVE  visits[k].click + Cardinality(Admitted(k)')
                   <= peak[k] + Cardinality(Threads) - 1
    <2>1. Cardinality(Admitted(k)') <= Cardinality(Admitted(k))
      BY AdmittedShrinks DEF CapInv
    <2>2. visits[k].click + Cardinality(Admitted(k)) <= peak[k] + Cardinality(Threads) - 1
      BY <1>2 DEF CapInv, ClicksAndAdmitted
    <2>3. peak[k] \in Nat /\ visits[k].click \in Nat
      BY <1>2, CapsAreNumbers DEF CapInv, TypeOK, Visits
    <2> QED  BY <2>1, <2>2, <2>3, AdmittedBound
  <1> QED  BY <1>1, <1>2 DEF ClicksAndAdmitted

LEMMA CapFollow ==
    ASSUME CapInv, NEW t \in Threads, NEW l \in Links, NEW agent \in Agents,
           NEW nostat \in BOOLEAN, Follow(t, l, agent, nostat)
    PROVE  CapsKnown' /\ ClicksAndAdmitted'
  <1> DEFINE r == [NewRequest(l, agent, nostat) EXCEPT !.window = link[l].window]
             q == [r EXCEPT !.step = "found"]
  <1>1. UNCHANGED <<peak, link, visits>>  BY DEF Follow
  <1>2. \A k \in Links : visits[k].click \in Nat  BY DEF CapInv, TypeOK, Visits
  <1>3. CASE \E a \in Answers : Answered(t, a)
    BY <1>1, <1>2, <1>3, AnsweredStep
  <1>4. CASE Moves(t, r, "found")
    <2>1. r \in Request /\ r.link = l /\ r.cap = link[l].cap
      BY NewRequestType DEF CapInv, NewRequest
    <2>2. q \in Request /\ q.step = "found" /\ q.link = l /\ q.cap = link[l].cap
      BY <2>1 DEF Request
    <2>3. thread' = [thread EXCEPT ![t] = q]  BY <1>4 DEF Moves
    <2>4. peak[l] # None => link[l].cap # None /\ link[l].cap <= peak[l]
      BY DEF CapInv, CapsKnown
    <2> HIDE DEF q, r
    <2> QED  BY <1>1, <2>2, <2>3, <2>4, CapGoesOn
  <1> QED  BY <1>3, <1>4 DEF Follow, Answers

LEMMA CapCheckWindow ==
    ASSUME CapInv, NEW t \in Threads, CheckWindow(t)
    PROVE  CapsKnown' /\ ClicksAndAdmitted'
  <1> DEFINE r == [thread[t] EXCEPT !.at = now, !.window = None]
             l == r.link
             q == [r EXCEPT !.step = "count"]
  <1>1. r \in Request /\ r.link = thread[t].link /\ r.cap = thread[t].cap /\ l \in Links
    BY CheckedType DEF CapInv, Request
  <1>2. UNCHANGED <<peak, link, visits>>  BY DEF CheckWindow
  <1>3. \A k \in Links : visits[k].click \in Nat  BY DEF CapInv, TypeOK, Visits
  <1>4. peak[l] # None => r.cap # None /\ r.cap <= peak[l]
    BY <1>1 DEF CapInv, CapsKnown, CheckWindow
  <1>5. \/ \E a \in Answers : Answered(t, a)
        \/ r.cap = None /\ PastTheCap(t, r)
        \/ Moves(t, r, "count")
    BY DEF CheckWindow, Answers
  <1>6. CASE \E a \in Answers : Answered(t, a)
    BY <1>2, <1>3, <1>6, AnsweredStep
  <1> HIDE DEF r
  <1>7. CASE r.cap = None /\ PastTheCap(t, r)
    BY <1>1, <1>2, <1>4, <1>7, PastTheCapStep
  <1>8. CASE Moves(t, r, "count")
    <2>1. thread' = [thread EXCEPT ![t] = q]  BY <1>8 DEF Moves
    <2>2. q \in Request /\ q.step = "count" /\ q.link = l /\ q.cap = r.cap
      BY <1>1 DEF Request
    <2> HIDE DEF q
    <2> QED  BY <1>2, <1>4, <2>1, <2>2, CapGoesOn
  <1> QED  BY <1>5, <1>6, <1>7, <1>8

\* The pixel and a deletion's load: the thread moves to a step that lets no click in.
LEMMA CapOtherRequests ==
    ASSUME CapInv, NEW t \in Threads, NEW l \in Links,
           AskPixel(t, l) \/ LoadToDelete(t, l)
    PROVE  CapsKnown' /\ ClicksAndAdmitted'
  <1>1. UNCHANGED <<peak, link, visits>>  BY DEF AskPixel, LoadToDelete
  <1>2. \A k \in Links : visits[k].click \in Nat  BY DEF CapInv, TypeOK, Visits
  <1>3. CASE \E a \in Answers : Answered(t, a)  BY <1>1, <1>2, <1>3, AnsweredStep
  <1>4. ASSUME NEW r \in Request, NEW s \in {"open", "delete"}, Moves(t, r, s)
        PROVE  CapsKnown' /\ ClicksAndAdmitted'
    <2> DEFINE q == [r EXCEPT !.step = s]
    <2>1. q \in Request /\ q.step \notin {"found", "count", "log"}  BY <1>4 DEF Request
    <2>2. thread' = [thread EXCEPT ![t] = q]  BY <1>4 DEF Moves
    <2>3. /\ \A k \in Links : link'[k].cap = link[k].cap
          /\ \A k \in Links : visits'[k].click \in Nat /\ visits'[k].click <= visits[k].click
      BY <1>1, <1>2
    <2> HIDE DEF q
    <2> QED  BY <1>1, <2>1, <2>2, <2>3, NobodyLetIn
  <1>5. NewRequest(l, "person", FALSE) \in Request
    BY NewRequestType DEF CapInv, Agents
  <1>6. [NewRequest(l, "person", FALSE) EXCEPT !.seen = Total(l)] \in Request
    BY <1>5, TotalType DEF Request, CapInv
  <1> QED  BY <1>3, <1>4, <1>5, <1>6 DEF AskPixel, LoadToDelete, Answers

LEMMA CapOtherAnswers ==
    ASSUME CapInv, NEW t \in Threads, LogOpen(t) \/ DeleteLink(t)
    PROVE  CapsKnown' /\ ClicksAndAdmitted'
  <1> DEFINE k == thread[t].link
  <1>1. k \in Links /\ visits \in [Links -> Visits] /\ link \in [Links -> Row]
    BY DEF CapInv, TypeOK, Request
  <1>2. UNCHANGED peak  BY DEF LogOpen, DeleteLink
  <1>3. PICK a \in Answers : Answered(t, a)  BY DEF LogOpen, DeleteLink, Answers
  <1>4. visits' \in {visits, [visits EXCEPT ![k] = [visits[k] EXCEPT !.open = visits[k].open + 1]],
                     [visits EXCEPT ![k] = NoVisits]}
    BY DEF LogOpen, DeleteLink
  <1>5. \A l \in Links : visits'[l].click \in Nat /\ visits'[l].click <= visits[l].click
    BY <1>1, <1>4 DEF Visits, NoVisits
  <1>6. link' \in {link, [link EXCEPT ![k] =
                             [link[k] EXCEPT !.live = FALSE, !.lastClick = None]]}
    BY <1>1 DEF LogOpen, DeleteLink
  <1>7. \A l \in Links : link'[l].cap = link[l].cap
    <2>1. [link[k] EXCEPT !.live = FALSE, !.lastClick = None].cap = link[k].cap
      BY <1>1 DEF Row
    <2> QED  BY <1>1, <1>6, <2>1
  <1> QED  BY <1>2, <1>3, <1>5, <1>7, AnsweredStep

LEMMA CapStep == CapInv /\ [Next]_vars => CapInv'
  <1> SUFFICES ASSUME CapInv, [Next]_vars PROVE CapsKnown' /\ ClicksAndAdmitted'
    BY TypeStep DEF CapInv
  <1>1. CASE Tick \/ UNCHANGED vars
    <2>1. UNCHANGED <<link, visits, thread, peak>>  BY <1>1 DEF Tick, vars
    <2>2. \A l \in Links : Admitted(l)' = Admitted(l)  BY <2>1 DEF Admitted
    <2> QED  BY <2>1, <2>2 DEF CapInv, CapsKnown, ClicksAndAdmitted
  <1> QED
    BY <1>1, CapUpdate, CapCountClicks, CapLogVisit, CapFollow, CapCheckWindow, CapOtherRequests,
       CapOtherAnswers DEF Next

\* However requests and edits interleave, a link has at most one click less than there are
\* worker threads above the highest cap it had (redirect_short_url, update_url).
THEOREM CapOvershootIsBounded == Spec => []CapOvershootBounded
  <1>1. CapInv => CapOvershootBounded
    <2> SUFFICES ASSUME CapInv, NEW l \in Links, peak[l] # None
                 PROVE  visits[l].click <= peak[l] + Cardinality(Threads) - 1
      BY DEF CapOvershootBounded
    <2>1. visits[l].click + Cardinality(Admitted(l)) <= peak[l] + Cardinality(Threads) - 1
      BY DEF CapInv, ClicksAndAdmitted
    <2>2. visits[l].click \in Nat /\ peak[l] \in Nat
      BY CapsAreNumbers DEF CapInv, TypeOK, Visits
    <2> QED  BY <2>1, <2>2, AdmittedBound
  <1>2. Init => CapInv  BY TypeInit, CapInit DEF CapInv
  <1> QED  BY <1>1, <1>2, CapStep, PTL DEF Spec

-----------------------------------------------------------------------------
(***************************************************************************)
(* The window.  A request takes its time while the link is open, and keeps *)
(* it up to the commit; the moments a link was open are never forgotten.   *)
(***************************************************************************)
LEMMA WindowInit == Init => WindowInv
  <1> SUFFICES ASSUME Init PROVE WindowInv  OBVIOUS
  <1>1. \A t \in Threads : thread[t].step = "idle"
    BY IdleIsARequest DEF Init, Answers
  <1>2. \A l \in Links : opened[l] = {m \in {now} : OpenAt(link[l], m)}  BY DEF Init
  <1>3. clickTimes = [l \in Links |-> {}]  BY DEF Init
  <1> QED  BY <1>1, <1>2, <1>3 DEF WindowInv, ClicksWithinWindow

\* The moments that an edit crossed are never forgotten either.
CrossedGrows == \A l \in Links : crossed[l] \subseteq crossed'[l]

\* A thread that is answered, or moves on with the time it took, changes nothing else.
LEMMA WindowThreadStep ==
    ASSUME TypeOK, WindowInv, NEW t \in Threads, NEW q \in Request,
           thread' = [thread EXCEPT ![t] = q], UNCHANGED <<now, opened, clickTimes>>,
           \A l \in Links : link'[l].window = link[l].window,
           CrossedGrows,
           q.step \in {"count", "log"} => q.at \in opened[q.link] \cup crossed'[q.link]
    PROVE  WindowInv'
  <1>1. \A l \in Links : OpenAt(link'[l], now) <=> OpenAt(link[l], now)
    BY DEF OpenAt, NotYetValid, Expired
  <1>2. \A l \in Links : OpenAt(link[l], now)' => now' \in opened'[l]
    BY <1>1 DEF WindowInv, OpenAt, NotYetValid, Expired
  <1>3. ASSUME NEW s \in Threads, thread'[s].step \in {"count", "log"}
        PROVE  thread'[s].at \in Stamps(thread[s].link)'
    <2>0. thread[s].link \in Links  BY DEF TypeOK, Request
    <2>1. CASE s = t  BY <1>3, <2>1 DEF TypeOK, Stamps
    <2>2. CASE s # t  BY <1>3, <2>0, <2>2 DEF TypeOK, WindowInv, Stamps, CrossedGrows
    <2> QED  BY <2>1, <2>2
  <1>4. ClicksWithinWindow'  BY DEF WindowInv, ClicksWithinWindow, CrossedGrows
  <1> QED  BY <1>2, <1>3, <1>4 DEF WindowInv

LEMMA WindowAnswered ==
    ASSUME TypeOK, WindowInv, NEW t \in Threads, NEW a \in Answers, Answered(t, a),
           UNCHANGED <<now, opened, clickTimes>>, CrossedGrows,
           \A l \in Links : link'[l].window = link[l].window
    PROVE  WindowInv'
  <1>1. Idle(a) \in Request /\ Idle(a).step = "idle"  BY IdleIsARequest
  <1>2. thread' = [thread EXCEPT ![t] = Idle(a)]  BY DEF Answered
  <1> QED  BY <1>1, <1>2, WindowThreadStep

LEMMA WindowMoves ==
    ASSUME TypeOK, WindowInv, NEW t \in Threads, NEW r \in Request,
           NEW s \in {"found", "count", "log", "open", "delete"}, Moves(t, r, s),
           UNCHANGED <<now, opened, clickTimes, link>>, CrossedGrows,
           s \in {"count", "log"} => r.at \in opened[r.link] \cup crossed'[r.link]
    PROVE  WindowInv'
  <1> DEFINE q == [r EXCEPT !.step = s]
  <1>1. q \in Request /\ q.step = s /\ q.at = r.at /\ q.link = r.link  BY DEF Request
  <1>2. thread' = [thread EXCEPT ![t] = q]  BY DEF Moves
  <1>3. \A l \in Links : link'[l].window = link[l].window  OBVIOUS
  <1> HIDE DEF q
  <1> QED  BY <1>1, <1>2, <1>3, WindowThreadStep

LEMMA WindowPastTheCap ==
    ASSUME TypeOK, WindowInv, NEW t \in Threads, NEW r \in Request, PastTheCap(t, r),
           UNCHANGED <<now, opened, clickTimes, link>>, CrossedGrows,
           r.at \in opened[r.link] \cup crossed'[r.link]
    PROVE  WindowInv'
  <1>1. CASE \E a \in Answers : Answered(t, a)  BY <1>1, WindowAnswered
  <1>2. CASE Moves(t, r, "log")  BY <1>2, WindowMoves
  <1> QED  BY <1>1, <1>2 DEF PastTheCap, Answers

LEMMA WindowLogVisit ==
    ASSUME TypeOK, WindowInv, NEW t \in Threads, LogVisit(t)
    PROVE  WindowInv'
  <1> DEFINE r == thread[t]
             k == r.link
  <1>1. r \in Request /\ k \in Links /\ r.at \in Stamps(k)
    BY DEF TypeOK, Request, WindowInv, LogVisit
  <1>2. link \in [Links -> Row] /\ UNCHANGED <<now, opened, crossed>>  BY DEF TypeOK, LogVisit
  <1>3. PICK a \in Answers : Answered(t, a)  BY DEF LogVisit, Answers
  <1>4. thread' = [thread EXCEPT ![t] = Idle(a)] /\ Idle(a).step = "idle"
    BY <1>3, IdleIsARequest DEF Answered
  <1>5. \A l \in Links : link'[l].window = link[l].window
    <2>1. [link[k] EXCEPT !.lastClick = LastClickAfter(r)].window = link[k].window
      BY <1>1, <1>2 DEF Row
    <2>2. link' \in {link, [link EXCEPT ![k] =
                               [link[k] EXCEPT !.lastClick = LastClickAfter(r)]]}
      BY DEF LogVisit
    <2> QED  BY <1>1, <1>2, <2>1, <2>2
  <1>6. \A l \in Links : OpenAt(link[l], now)' => now' \in opened'[l]
    BY <1>2, <1>5 DEF WindowInv, OpenAt, NotYetValid, Expired
  <1>7. \A s \in Threads : thread'[s].step \in {"count", "log"} =>
           thread'[s].at \in opened'[thread'[s].link] \cup crossed'[thread'[s].link]
    BY <1>2, <1>4 DEF TypeOK, WindowInv, Stamps
  <1>8. ClicksWithinWindow'
    BY <1>1, <1>2 DEF LogVisit, Stamp, TypeOK, WindowInv, ClicksWithinWindow, Stamps
  <1> QED  BY <1>6, <1>7, <1>8 DEF WindowInv, Stamps

LEMMA WindowDelete ==
    ASSUME TypeOK, WindowInv, NEW t \in Threads, DeleteLink(t)
    PROVE  WindowInv'
  <1> DEFINE k == thread[t].link
  <1>1. k \in Links /\ link \in [Links -> Row]  BY DEF TypeOK, Request
  <1>2. UNCHANGED <<now, opened, crossed>>  BY DEF DeleteLink
  <1>3. PICK a \in Answers : Answered(t, a)  BY DEF DeleteLink, Answers
  <1>4. thread' = [thread EXCEPT ![t] = Idle(a)] /\ Idle(a).step = "idle"
    BY <1>3, IdleIsARequest DEF Answered
  <1>5. \A l \in Links : link'[l].window = link[l].window
    <2>1. [link[k] EXCEPT !.live = FALSE, !.lastClick = None].window = link[k].window
      BY <1>1 DEF Row
    <2>2. link' \in {link, [link EXCEPT ![k] =
                               [link[k] EXCEPT !.live = FALSE, !.lastClick = None]]}
      BY <1>1 DEF DeleteLink
    <2> QED  BY <1>1, <2>1, <2>2
  <1>6. \A l \in Links : OpenAt(link[l], now)' => now' \in opened'[l]
    BY <1>2, <1>5 DEF WindowInv, OpenAt, NotYetValid, Expired
  <1>7. \A s \in Threads : thread'[s].step \in {"count", "log"} =>
           thread'[s].at \in opened'[thread'[s].link] \cup crossed'[thread'[s].link]
    BY <1>2, <1>4 DEF TypeOK, WindowInv, Stamps
  <1>8. ClicksWithinWindow'
    BY <1>1, <1>2 DEF DeleteLink, TypeOK, WindowInv, ClicksWithinWindow
  <1> QED  BY <1>6, <1>7, <1>8 DEF WindowInv, Stamps

\* Who reads the link hasn't taken the time yet.
LEMMA WindowFollow ==
    ASSUME TypeOK, WindowInv, NEW t \in Threads, NEW l \in Links, NEW agent \in Agents,
           NEW nostat \in BOOLEAN, Follow(t, l, agent, nostat)
    PROVE  WindowInv'
  <1> DEFINE r == [NewRequest(l, agent, nostat) EXCEPT !.window = link[l].window]
  <1>1. r \in Request  BY NewRequestType
  <1>2. UNCHANGED <<now, opened, clickTimes, link>> /\ CrossedGrows  BY DEF Follow, CrossedGrows
  <1>3. CASE \E a \in Answers : Answered(t, a)  BY <1>2, <1>3, WindowAnswered
  <1>4. CASE Moves(t, r, "found")
    <2> HIDE DEF r
    <2> QED  BY <1>1, <1>2, <1>4, WindowMoves
  <1> QED  BY <1>3, <1>4 DEF Follow, Answers

\* The window that was read is the link's, or an edit crossed the request.
LEMMA WindowCheck ==
    ASSUME TypeOK, WindowInv, NEW t \in Threads, CheckWindow(t)
    PROVE  WindowInv'
  <1> DEFINE r == [thread[t] EXCEPT !.at = now, !.window = None]
             l == thread[t].link
  <1>1. r \in Request /\ r.link = l /\ r.at = now /\ l \in Links
    BY CheckedType DEF TypeOK, Request
  <1>2. UNCHANGED <<now, opened, clickTimes, link>>  BY DEF CheckWindow
  <1>3. crossed' = IF thread[t].window = link[l].window THEN crossed
                   ELSE [crossed EXCEPT ![l] = crossed[l] \cup {now}]
    BY <1>1 DEF CheckWindow
  <1>4. CrossedGrows  BY <1>3 DEF CrossedGrows, TypeOK
  <1>5. \/ \E a \in Answers : Answered(t, a)
        \/ OpenAt(thread[t], now) /\ (PastTheCap(t, r) \/ Moves(t, r, "count"))
    BY DEF CheckWindow, Answers
  <1>6. CASE \E a \in Answers : Answered(t, a)  BY <1>2, <1>4, <1>6, WindowAnswered
  <1>7. CASE OpenAt(thread[t], now) /\ (PastTheCap(t, r) \/ Moves(t, r, "count"))
    <2>1. r.at \in opened[r.link] \cup crossed'[r.link]
      <3>1. now \in opened[l] \/ now \in crossed'[l]
        <4>1. CASE thread[t].window = link[l].window
          <5>1. OpenAt(link[l], now)  BY <1>7, <4>1 DEF OpenAt, NotYetValid, Expired
          <5> QED  BY <1>1, <5>1 DEF WindowInv
        <4>2. CASE thread[t].window # link[l].window
          BY <1>1, <1>3, <4>2 DEF TypeOK
        <4> QED  BY <4>1, <4>2
      <3> QED  BY <1>1, <3>1
    <2> HIDE DEF r
    <2> QED  BY <1>1, <1>2, <1>4, <1>7, <2>1, WindowPastTheCap, WindowMoves
  <1> QED  BY <1>5, <1>6, <1>7

\* An edit or a tick that leaves a link open adds the moment to those it was open at.
LEMMA WindowClock ==
    ASSUME TypeOK, WindowInv, Tick \/ \E l \in Links : UpdateLink(l)
    PROVE  WindowInv'
  <1>1. UNCHANGED <<thread, clickTimes, crossed>>  BY DEF Tick, UpdateLink
  <1>2. \A l \in Links : opened[l] \subseteq opened'[l]
    <2>1. CASE Tick  BY <2>1 DEF Tick
    <2>2. ASSUME NEW k \in Links, UpdateLink(k)
          PROVE  \A l \in Links : opened[l] \subseteq opened'[l]
      <3>1. PICK S : opened' = [opened EXCEPT ![k] = opened[k] \cup S]
        BY <2>2 DEF UpdateLink
      <3> QED  BY <3>1 DEF TypeOK
    <2> QED  BY <2>1, <2>2
  <1>3. ASSUME NEW l \in Links, OpenAt(link'[l], now') PROVE now' \in opened'[l]
    <2>1. CASE Tick  BY <1>3, <2>1 DEF Tick
    <2>2. ASSUME NEW k \in Links, UpdateLink(k) PROVE now' \in opened'[l]
      <3>1. now' = now /\ link \in [Links -> Row] /\ opened \in [Links -> SUBSET Time]
        BY <2>2 DEF UpdateLink, TypeOK
      <3>2. CASE l = k  BY <1>3, <2>2, <3>1, <3>2 DEF UpdateLink
      <3>3. CASE l # k
        <4>1. link'[l] = link[l] /\ opened'[l] = opened[l]
          BY <2>2, <3>1, <3>3 DEF UpdateLink
        <4> QED  BY <1>3, <3>1, <4>1 DEF WindowInv
      <3> QED  BY <3>2, <3>3
    <2> QED  BY <2>1, <2>2
  <1>4. \A t \in Threads : thread[t].link \in Links  BY DEF TypeOK, Request
  <1>5. \A l \in Links : OpenAt(link[l], now)' => now' \in opened'[l]
    BY <1>3 DEF OpenAt, NotYetValid, Expired
  <1> QED  BY <1>1, <1>2, <1>4, <1>5 DEF WindowInv, ClicksWithinWindow, Stamps

LEMMA WindowStep == TypeOK /\ WindowInv /\ [Next]_vars => WindowInv'
  <1> SUFFICES ASSUME TypeOK, WindowInv, [Next]_vars PROVE WindowInv'  OBVIOUS
  <1>1. CASE UNCHANGED vars
    <2>1. UNCHANGED <<link, now, opened, crossed, thread, clickTimes>>  BY <1>1 DEF vars
    <2>2. \A l \in Links : OpenAt(link[l], now)' <=> OpenAt(link[l], now)
      BY <2>1 DEF OpenAt, NotYetValid, Expired
    <2> QED  BY <2>1, <2>2 DEF WindowInv, ClicksWithinWindow, Stamps
  <1>2. ASSUME NEW t \in Threads, CountClicks(t) PROVE WindowInv'
    <2>1. UNCHANGED <<now, opened, clickTimes, link>> /\ CrossedGrows /\ thread[t] \in Request
      BY <1>2 DEF CountClicks, TypeOK, CrossedGrows
    <2>2. thread[t].at \in opened[thread[t].link] \cup crossed'[thread[t].link]
      BY <1>2 DEF CountClicks, WindowInv, Stamps
    <2> QED  BY <1>2, <2>1, <2>2, WindowAnswered, WindowPastTheCap DEF CountClicks, Answers
  <1>3. ASSUME NEW t \in Threads, LogOpen(t) PROVE WindowInv'
    <2>1. UNCHANGED <<now, opened, clickTimes, link>> /\ CrossedGrows  BY <1>3 DEF LogOpen, CrossedGrows
    <2> QED  BY <1>3, <2>1, WindowAnswered DEF LogOpen, Answers
  <1>4. ASSUME NEW t \in Threads, NEW l \in Links, AskPixel(t, l) PROVE WindowInv'
    <2>1. UNCHANGED <<now, opened, clickTimes, link>> /\ CrossedGrows  BY <1>4 DEF AskPixel, CrossedGrows
    <2>2. NewRequest(l, "person", FALSE) \in Request  BY NewRequestType DEF Agents
    <2> QED  BY <1>4, <2>1, <2>2, WindowAnswered, WindowMoves DEF AskPixel, Answers
  <1>5. ASSUME NEW t \in Threads, NEW l \in Links, LoadToDelete(t, l) PROVE WindowInv'
    <2>1. UNCHANGED <<now, opened, clickTimes, link>> /\ CrossedGrows  BY <1>5 DEF LoadToDelete, CrossedGrows
    <2>2. NewRequest(l, "person", FALSE) \in Request  BY NewRequestType DEF Agents
    <2>3. [NewRequest(l, "person", FALSE) EXCEPT !.seen = Total(l)] \in Request
      BY <2>2, TotalType DEF Request
    <2> QED  BY <1>5, <2>1, <2>3, WindowAnswered, WindowMoves DEF LoadToDelete, Answers
  <1> QED
    BY <1>1, <1>2, <1>3, <1>4, <1>5, WindowLogVisit, WindowDelete, WindowFollow, WindowCheck,
       WindowClock DEF Next

\* Every click bears a moment at which its link's window was open, or that its request took
\* after an edit of the window it had read (redirect_short_url keeps the `now` it checked the
\* window with).
THEOREM ClicksAreWithinWindow == Spec => []ClicksWithinWindow
  <1>1. WindowInv => ClicksWithinWindow  BY DEF WindowInv
  <1> QED  BY <1>1, TypeInit, TypeStep, WindowInit, WindowStep, PTL DEF Spec

-----------------------------------------------------------------------------
\* What a link's row says of its visits.
RowsInv == LastClickIsAClick /\ NoVisitOutlivesItsLink

LEMMA RowsInit == Init => RowsInv
  <1> SUFFICES ASSUME Init PROVE RowsInv  OBVIOUS
  <1>1. ASSUME NEW l \in Links
        PROVE  /\ link[l].lastClick = None /\ visits[l].click = 0
               /\ Total(l) = 0 /\ clickTimes[l] = {}
    <2>1. link[l] \in {row \in Row : row.lastClick = None}  BY DEF Init
    <2>2. visits[l] = NoVisits /\ clickTimes[l] = {}  BY DEF Init
    <2> QED  BY <2>1, <2>2 DEF NoVisits, Total
  <1> QED  BY <1>1 DEF RowsInv, LastClickIsAClick, NoVisitOutlivesItsLink

\* Most steps leave the rows and the visits alone.
LEMMA RowsLeftAlone ==
    ASSUME RowsInv, UNCHANGED <<link, visits, clickTimes>>
    PROVE  RowsInv'
  BY DEF RowsInv, LastClickIsAClick, NoVisitOutlivesItsLink, Total

\* A step that changes one link's row and visits keeps what every other link's says.
LEMMA RowsOfOne ==
    ASSUME RowsInv, NEW k \in Links,
           \A l \in Links \ {k} : /\ link'[l].live = link[l].live
                                  /\ link'[l].lastClick = link[l].lastClick
                                  /\ visits'[l] = visits[l]
                                  /\ clickTimes'[l] = clickTimes[l],
           link'[k].lastClick = None <=> visits'[k].click = 0,
           link'[k].lastClick # None => link'[k].lastClick \in clickTimes'[k],
           ~link'[k].live => Total(k)' = 0 /\ clickTimes'[k] = {}
    PROVE  RowsInv'
  BY DEF RowsInv, LastClickIsAClick, NoVisitOutlivesItsLink, Total

\* The commit of a visit finds the link's row there, and a click sets what it says of it.
LEMMA RowsLogVisit ==
    ASSUME TypeOK, RowsInv, NEW t \in Threads, LogVisit(t)
    PROVE  RowsInv'
  <1> DEFINE r == thread[t]
             k == r.link
  <1>1. r \in Request /\ k \in Links /\ r.at \in Time /\ r.at \in Nat
    BY LinkVisitsAssumption DEF TypeOK, Request, Time
  <1>2. CASE UNCHANGED <<link, visits, clickTimes>>  BY <1>2, RowsLeftAlone
  <1>3. CASE link[k].live /\ ~UNCHANGED <<link, visits, clickTimes>>
    <2>1. /\ visits' = [visits EXCEPT ![k] = WithVisit(visits[k], r)]
          /\ clickTimes' = [clickTimes EXCEPT ![k] =
                               IF IsClick(r) THEN clickTimes[k] \cup {r.at} ELSE clickTimes[k]]
          /\ link' = [link EXCEPT ![k] = [link[k] EXCEPT !.lastClick = LastClickAfter(r)]]
      BY <1>3 DEF LogVisit, Stamp
    <2>2. /\ link \in [Links -> Row] /\ visits \in [Links -> Visits]
          /\ clickTimes \in [Links -> SUBSET Time]
      BY DEF TypeOK
    <2>3. link'[k].live /\ link'[k].lastClick = LastClickAfter(r)
      BY <1>1, <1>3, <2>1, <2>2 DEF Row
    <2>4. visits'[k] = WithVisit(visits[k], r) /\ visits[k] \in Visits
      BY <1>1, <2>1, <2>2
    <2>5. CASE IsClick(r)
      <3>1. link'[k].lastClick = r.at /\ r.at # None
        BY <1>1, <2>3, <2>5, LinkVisitsAssumption DEF LastClickAfter, Stamp
      <3>2. visits'[k].click # 0  BY <2>4, <2>5 DEF WithVisit, Visits
      <3>3. r.at \in clickTimes'[k]  BY <1>1, <2>1, <2>2, <2>5
      <3> QED  BY <1>1, <2>1, <2>2, <2>3, <3>1, <3>2, <3>3, RowsOfOne
    <2>6. CASE ~IsClick(r)
      <3>1. link'[k].lastClick = link[k].lastClick
        BY <2>3, <2>6 DEF LastClickAfter
      <3>2. visits'[k].click = visits[k].click  BY <2>4, <2>6 DEF WithVisit, Visits
      <3>3. clickTimes'[k] = clickTimes[k]  BY <1>1, <2>1, <2>2, <2>6
      <3>4. /\ link[k].lastClick = None <=> visits[k].click = 0
            /\ link[k].lastClick # None => link[k].lastClick \in clickTimes[k]
        BY <1>1 DEF RowsInv, LastClickIsAClick
      <3> QED  BY <1>1, <2>1, <2>2, <2>3, <3>1, <3>2, <3>3, <3>4, RowsOfOne
    <2> QED  BY <2>5, <2>6
  <1> QED  BY <1>2, <1>3 DEF LogVisit

LEMMA RowsLogOpen ==
    ASSUME TypeOK, RowsInv, NEW t \in Threads, LogOpen(t)
    PROVE  RowsInv'
  <1> DEFINE k == thread[t].link
  <1>1. k \in Links  BY DEF TypeOK, Request
  <1>2. CASE ~link[k].live  BY <1>2, RowsLeftAlone DEF LogOpen
  <1>3. CASE link[k].live
    <2>1. visits' = [visits EXCEPT ![k] = [visits[k] EXCEPT !.open = visits[k].open + 1]]
      BY <1>3 DEF LogOpen
    <2>2. visits \in [Links -> Visits] /\ UNCHANGED <<link, clickTimes>>
      BY DEF TypeOK, LogOpen
    <2>3. visits'[k].click = visits[k].click  BY <1>1, <2>1, <2>2 DEF Visits
    <2>4. /\ link[k].lastClick = None <=> visits[k].click = 0
          /\ link[k].lastClick # None => link[k].lastClick \in clickTimes[k]
      BY <1>1 DEF RowsInv, LastClickIsAClick
    <2> QED  BY <1>1, <1>3, <2>1, <2>2, <2>3, <2>4, RowsOfOne
  <1> QED  BY <1>2, <1>3

\* A deletion leaves nothing behind, or all of it.
LEMMA RowsDelete ==
    ASSUME TypeOK, RowsInv, NEW t \in Threads, DeleteLink(t)
    PROVE  RowsInv'
  <1>1. PICK k \in Links : k = thread[t].link  BY DEF TypeOK, Request
  <1>2. CASE Total(k) > thread[t].seen  BY <1>1, <1>2, RowsLeftAlone DEF DeleteLink
  <1>3. CASE ~(Total(k) > thread[t].seen)
    <2>1. /\ link' = [link EXCEPT ![k] = [link[k] EXCEPT !.live = FALSE, !.lastClick = None]]
          /\ visits' = [visits EXCEPT ![k] = NoVisits]
          /\ clickTimes' = [clickTimes EXCEPT ![k] = {}]
      BY <1>1, <1>3 DEF DeleteLink
    <2>2. /\ link \in [Links -> Row] /\ visits \in [Links -> Visits]
          /\ clickTimes \in [Links -> SUBSET Time]
      BY DEF TypeOK
    <2>3. link'[k].lastClick = None  BY <1>1, <2>1, <2>2 DEF Row
    <2>4. visits'[k].click = 0 /\ Total(k)' = 0 /\ clickTimes'[k] = {}
      BY <1>1, <2>1, <2>2 DEF NoVisits, Total
    <2> QED  BY <1>1, <2>1, <2>2, <2>3, <2>4, RowsOfOne
  <1> QED  BY <1>2, <1>3

LEMMA RowsUpdate ==
    ASSUME TypeOK, RowsInv, NEW k \in Links, UpdateLink(k)
    PROVE  RowsInv'
  <1>1. PICK cap \in Caps \cup {None}, window \in Windows :
           link' = [link EXCEPT ![k].cap = cap, ![k].window = window]
    BY DEF UpdateLink
  <1>2. link \in [Links -> Row] /\ UNCHANGED <<visits, clickTimes>>  BY DEF TypeOK, UpdateLink
  <1>3. \A l \in Links : /\ link'[l].live = link[l].live
                         /\ link'[l].lastClick = link[l].lastClick
    BY <1>1, <1>2 DEF Row
  <1> QED  BY <1>2, <1>3 DEF RowsInv, LastClickIsAClick, NoVisitOutlivesItsLink, Total

LEMMA RowsStep == TypeOK /\ RowsInv /\ [Next]_vars => RowsInv'
  <1> SUFFICES ASSUME TypeOK, RowsInv, [Next]_vars PROVE RowsInv'  OBVIOUS
  <1>1. CASE UNCHANGED vars  BY <1>1, RowsLeftAlone DEF vars
  <1>2. CASE Tick  BY <1>2, RowsLeftAlone DEF Tick
  <1>3. ASSUME NEW t \in Threads,
               CheckWindow(t) \/ CountClicks(t) \/ \E l \in Links :
                  \/ AskPixel(t, l) \/ LoadToDelete(t, l)
                  \/ \E agent \in Agents, nostat \in BOOLEAN : Follow(t, l, agent, nostat)
        PROVE  RowsInv'
    BY <1>3, RowsLeftAlone DEF CheckWindow, CountClicks, AskPixel, LoadToDelete, Follow
  <1> QED
    BY <1>1, <1>2, <1>3, RowsLogVisit, RowsLogOpen, RowsDelete, RowsUpdate DEF Next

LEMMA RowsAlways == Spec => []RowsInv
  BY RowsInit, RowsStep, TypeInit, TypeStep, PTL DEF Spec

\* A link says when its last click was exactly when it has one, and it is the time of one of
\* its clicks: bots, opens, edits and deletions, in any order, leave that so
\* (redirect_short_url and delete_url each write the row and the visits in one commit).
THEOREM LastClicksAreClicks == Spec => []LastClickIsAClick
  <1>1. RowsInv => LastClickIsAClick  BY DEF RowsInv
  <1> QED  BY <1>1, RowsAlways, PTL

\* No visit stays behind a deleted link (the foreign key of `visits`, and the deletion that
\* fails when a visit it did not load refers to the link).
THEOREM VisitsGoWithTheirLink == Spec => []NoVisitOutlivesItsLink
  <1>1. RowsInv => NoVisitOutlivesItsLink  BY DEF RowsInv
  <1> QED  BY <1>1, RowsAlways, PTL

=============================================================================
