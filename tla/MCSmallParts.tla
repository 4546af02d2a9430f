---------------------------- MODULE MCSmallParts ----------------------------
(* Seven small parts that share nothing: a behaviour runs one of them, and  *)
(* the others stay as they start.                                           *)
EXTENDS Naturals, RateLimits, Addresses, Waitlist, Fetch, Tags, Orphans

CONSTANTS
    Deployments, Lambdas, MaxHops, MaxShifts

VARIABLES
    part,
    source, target, deployment, events, invocation, gaveUp

Rules == INSTANCE RuleSync

\* Codes of the letters a, whose upper case is A, and b; paths one slip or more from them, one with
\* a character no code has, and a scanners' word that a link's code may be.
MCLowerCase == {"a", "b"}
MCUpper     == [c \in {"a"} |-> "A"]
MCScanners  == {<<"b">>}
MCPaths     == {<<>>, <<"a">>, <<"b">>, <<"A", "b">>, <<"b", "a", "b">>, <<".">>}
MCCodes     == {<<"a">>, <<"b">>, <<"a", "b">>, <<"b", "a">>, <<"A", "b">>}

ASSUME PartsAssumption ==
    /\ RateLimitsAssumption /\ WaitlistAssumption /\ TagsAssumption /\ Rules!RuleSyncAssumption
    /\ FetchAssumption /\ AddressesAssumption /\ OrphansAssumption

rules == <<source, target, deployment, events, invocation, gaveUp>>
vars  == <<part, rateVars, waitlistVars, tagsVars, rules, fetchVars, orphanVars, addressVars>>

\* A part that does not run starts anyhow: in one way, where it has many.
Init ==
    /\ part \in {"rates", "waitlist", "tags", "rules", "fetching", "typos", "addresses"}
    /\ RateInit /\ WaitlistInit /\ TagsInit /\ Rules!Init
    /\ FetchInit /\ (part # "fetching" => names = [h \in Hosts |-> Public])
    /\ OrphansInit /\ (part # "typos" => loose)
    /\ AddressesInit
    /\ part # "addresses" => /\ adds /\ appends /\ request.way = "service"
                              /\ request.from = (CHOOSE c \in Clients : TRUE)
                              /\ request.forwarded = <<>> /\ request.viewer = NoAddress

RunsRates     == part = "rates"     /\ RateNext      /\ UNCHANGED <<part, waitlistVars, tagsVars, rules, fetchVars, orphanVars, addressVars>>
RunsWaitlist  == part = "waitlist"  /\ WaitlistNext /\ UNCHANGED <<part, rateVars, tagsVars, rules, fetchVars, orphanVars, addressVars>>
RunsTags      == part = "tags"      /\ TagsNext      /\ UNCHANGED <<part, rateVars, waitlistVars, rules, fetchVars, orphanVars, addressVars>>
RunsRules     == part = "rules"     /\ Rules!Next    /\ UNCHANGED <<part, rateVars, waitlistVars, tagsVars, fetchVars, orphanVars, addressVars>>
RunsFetching  == part = "fetching"  /\ FetchNext     /\ UNCHANGED <<part, rateVars, waitlistVars, tagsVars, rules, orphanVars, addressVars>>
RunsTypos     == part = "typos"     /\ OrphansNext    /\ UNCHANGED <<part, rateVars, waitlistVars, tagsVars, rules, fetchVars, addressVars>>
RunsAddresses == part = "addresses" /\ AddressesNext /\ UNCHANGED <<part, rateVars, waitlistVars, tagsVars, rules, fetchVars, orphanVars>>

Next ==
    \/ RunsRates \/ RunsWaitlist \/ RunsTags \/ RunsRules
    \/ RunsFetching \/ RunsTypos \/ RunsAddresses

Spec == Init /\ [][Next]_vars /\ Rules!Fairness

\* In the end the custom domains' rule is as Express Mode's (RuleSync).
RulesConverge == Rules!RulesConverge
=============================================================================
