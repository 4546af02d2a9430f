------------------------------ MODULE RuleSync ------------------------------
(***************************************************************************)
(* The lambda that keeps the custom domains' rule of the load balancer     *)
(* with the weights of the one Express Mode moves while it deploys         *)
(* (infra/ecs-alb-rule-sync/alb-rule-sync.py).  ECS tells it when a        *)
(* deployment starts and ends; an invocation that follows one polls it,    *)
(* and when its time is up hands it over to another.                       *)
(*                                                                         *)
(* A pass reads both rules and writes one later: passes of two invocations *)
(* may cross.  External: ECS and its events, in any order; a deployment    *)
(* may be replaced by another.  One takes some 12 minutes: a pass, of two  *)
(* calls, that an invocation not following it began before its end is over *)
(* by then.                                                                *)
(*                                                                         *)
(* Abstracted: both rules forward (the others are left alone), and the     *)
(* weights are numbered by how often they have been shifted.               *)
(***************************************************************************)
EXTENDS Naturals, FiniteSets

CONSTANTS
    Deployments,
    Lambdas,      \* invocations at once
    MaxHops,      \* MAX_HOPS
    MaxShifts,    \* bound: times the weights are shifted
    None

\* What the constants are assumed to be, where the module is instantiated.
RuleSyncAssumption == MaxHops \in Nat /\ MaxShifts \in Nat /\ None \notin Deployments

VARIABLES
    source,       \* the weights of Express Mode's rule, and
    target,       \* of the custom domains'
    deployment,   \* deployment[d]: how far it is
    events,       \* events and hand-overs not yet delivered
    invocation,   \* invocation[i]: what it is doing
    gaveUp        \* has a chain given up?

syncVars == <<source, target, deployment, events, invocation, gaveUp>>

Weights == 0 .. MaxShifts
Event   == [name : {"in_progress", "over"}, of : Deployments, hop : 0 .. MaxHops]
Invocation ==
    [step : {"idle", "read", "modify", "loop", "check", "end"},
     pass : {"first", "poll", "final"}, follows : BOOLEAN, of : Deployments,
     hop : 0 .. MaxHops, running : BOOLEAN, weights : Weights]

SyncTypeOK ==
    /\ source \in Weights /\ target \in Weights
    /\ deployment \in [Deployments -> {"none", "running", "over"}]
    /\ events \subseteq Event
    /\ invocation \in [Lambdas -> Invocation]
    /\ gaveUp \in BOOLEAN

NotInvoked == [step |-> "idle", pass |-> "first", follows |-> FALSE,
               of |-> CHOOSE d \in Deployments : TRUE, hop |-> 0, running |-> TRUE, weights |-> 0]

Init ==
    /\ source = 0 /\ target = 0
    /\ deployment = [d \in Deployments |-> "none"]
    /\ events = {}
    /\ invocation = [i \in Lambdas |-> NotInvoked]
    /\ gaveUp = FALSE

Turns(i, to) == invocation' = [invocation EXCEPT ![i] = to]
At(i, step)  == invocation[i].step = step

-----------------------------------------------------------------------------
Running == {d \in Deployments : deployment[d] = "running"}
Told(name, D) == [name : {name}, of : D, hop : {0}]

\* ECS: a deployment starts, in the place of the one that runs; it shifts the weights as it
\* goes, and ends.
Deploy(d) ==
    /\ deployment[d] = "none"
    /\ deployment' = [e \in Deployments |-> IF e = d THEN "running"
                                            ELSE IF e \in Running THEN "over" ELSE deployment[e]]
    /\ events' = events \cup Told("in_progress", {d}) \cup Told("over", Running)
    /\ UNCHANGED <<source, target, invocation, gaveUp>>

Shift ==
    /\ Running # {}
    /\ source < MaxShifts
    /\ source' = source + 1
    /\ UNCHANGED <<target, deployment, events, invocation, gaveUp>>

Ends(d) ==
    /\ d \in Running
    /\ \A i \in Lambdas : At(i, "modify") => (invocation[i].follows /\ invocation[i].of = d)
    /\ deployment' = [deployment EXCEPT ![d] = "over"]
    /\ events' = events \cup Told("over", {d})
    /\ UNCHANGED <<source, target, invocation, gaveUp>>

\* lambda_handler: a first pass, whatever the event; only a deployment's start is followed.
Invoke(i, e) ==
    /\ At(i, "idle")
    /\ e \in events
    /\ events' = events \ {e}
    /\ Turns(i, [NotInvoked EXCEPT !.step = "read", !.follows = e.name = "in_progress",
                                   !.of = e.of, !.hop = e.hop])
    /\ UNCHANGED <<source, target, deployment, gaveUp>>

\* Where a pass leads to.
AfterPass(v) ==
    CASE v.pass = "first" -> IF v.follows THEN "loop" ELSE "end"
      [] v.pass = "poll"  -> "check"
      [] v.pass = "final" -> "end"

\* sync_once reads the two rules ...
ReadRules(i) ==
    /\ At(i, "read")
    /\ Turns(i, [invocation[i] EXCEPT !.weights = source,
                    !.step = IF source = target THEN AfterPass(invocation[i]) ELSE "modify"])
    /\ UNCHANGED <<source, target, deployment, events, gaveUp>>

\* ... and writes the weights it read.
ModifyRule(i) ==
    /\ At(i, "modify")
    /\ target' = invocation[i].weights
    /\ Turns(i, [invocation[i] EXCEPT !.step = AfterPass(invocation[i])])
    /\ UNCHANGED <<source, deployment, events, gaveUp>>

\* The loop: there is time left for another poll, or there is not.
Poll(i) ==
    /\ At(i, "loop")
    /\ \/ Turns(i, [invocation[i] EXCEPT !.step = "read", !.pass = "poll"])
       \/ Turns(i, [invocation[i] EXCEPT !.step = "read", !.pass = "final"])
    /\ UNCHANGED <<source, target, deployment, events, gaveUp>>

\* deployment_in_progress: over, or replaced, it needs a last pass.
StopsAtOnce(running) == IF running THEN [step |-> "loop", pass |-> "poll"]
                        ELSE [step |-> "end", pass |-> "final"]   \* a wrong version
NextPass(running) == IF running THEN [step |-> "loop", pass |-> "poll"]
                     ELSE [step |-> "read", pass |-> "final"]
StillRunning(i) ==
    /\ At(i, "check")
    /\ LET running == invocation[i].of \in Running
           next == NextPass(running)
       IN  Turns(i, [invocation[i] EXCEPT !.running = running, !.step = next.step,
                                          !.pass = next.pass])
    /\ UNCHANGED <<source, target, deployment, events, gaveUp>>

\* Its time was up while the deployment ran: another goes on, up to MaxHops times.
Return(i) ==
    /\ At(i, "end")
    /\ LET v == invocation[i]
           unfinished == v.follows /\ v.running
       IN  /\ events' = IF unfinished /\ v.hop < MaxHops
                        THEN events \cup {[name |-> "in_progress", of |-> v.of, hop |-> v.hop + 1]}
                        ELSE events
           /\ gaveUp' = (gaveUp \/ (unfinished /\ v.hop = MaxHops))
    /\ Turns(i, NotInvoked)
    /\ UNCHANGED <<source, target, deployment>>

LambdaStep(i) ==
    ReadRules(i) \/ ModifyRule(i) \/ Poll(i) \/ StillRunning(i) \/ Return(i)

Next ==
    \/ Shift
    \/ \E d \in Deployments : Deploy(d) \/ Ends(d)
    \/ \E i \in Lambdas : LambdaStep(i) \/ \E e \in events : Invoke(i, e)

Spec == Init /\ [][Next]_syncVars

\* Deployments end, events are delivered, and invocations run.
Fairness ==
    /\ \A d \in Deployments : WF_syncVars(Ends(d))
    /\ \A i \in Lambdas : WF_syncVars(LambdaStep(i))
    /\ WF_syncVars(\E i \in Lambdas, e \in events : Invoke(i, e))

FairSpec == Spec /\ Fairness

-----------------------------------------------------------------------------
\* In the end the custom domains have the weights of Express Mode's rule, whichever of two passes
\* that crossed wrote last, unless a chain of invocations gave up.
RulesConverge == <>[](target = source) \/ <>[]gaveUp
=============================================================================
