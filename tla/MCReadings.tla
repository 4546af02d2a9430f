----------------------------- MODULE MCReadings -----------------------------
(* Six parts that share nothing: a behaviour runs one of them, and the      *)
(* others stay as they start.                                               *)
EXTENDS Integers, LinkAccess, Redirects, McpAccess, Analytics, Pages, Moving

CONSTANTS
    D1, D2

VARIABLES
    part

\* The visits that arrive: a click from the city, a pixel, and a bot.
Is(p, b, c) == [pixel |-> p, bot |-> b, city |-> c]
MCArriving  == {Is(FALSE, FALSE, c) : c \in Cities} \cup {Is(TRUE, FALSE, Null), Is(FALSE, TRUE, Null)}

\* Rules for those of whom a fact holds, until a moment, and from it on.
MCConditionSets == {{[type |-> "fact", value |-> f] : f \in Facts}, {[type |-> "before", value |-> 1]},
                    {[type |-> "after", value |-> 1]}}

\* Shlink's rows: two copies of one link, another destination for its code, and two other links,
\* the last on one of Shurly's own paths.
MCCodes     == <<1, 1, 1, 2, 3>>
MCDests     == <<D1, D1, D2, D1, D1>>
MCHeldFirst == {{1, 4}, {1, 2}, {1, 3}, {4, 5}}

\* A rule is not told from another by its row, nor an address by its name.
MCSymmetry == Permutations(RuleRows) \cup Permutations(Targets)

ASSUME PartsAssumption ==
    /\ AnalyticsAssumption /\ PagesAssumption /\ AccessAssumption
    /\ MovingAssumption /\ McpAssumption /\ RedirectsAssumption

vars == <<part, readVars, pageVars, accessVars, movingVars, mcpVars, redirectVars>>

Init ==
    /\ part \in {"reads", "pages", "accesses", "moves", "mcp", "leads"}
    /\ ReadInit /\ PagesInit /\ AccessInit /\ McpInit
    /\ MovingInit /\ (part # "moves" => held = {1, 4})
    /\ RedirectsInit

RunsReads    == part = "reads"    /\ ReadNext      /\ UNCHANGED <<part, pageVars, accessVars, movingVars, mcpVars, redirectVars>>
RunsPages    == part = "pages"    /\ PagesNext     /\ UNCHANGED <<part, readVars, accessVars, movingVars, mcpVars, redirectVars>>
RunsAccesses == part = "accesses" /\ AccessNext    /\ UNCHANGED <<part, readVars, pageVars, movingVars, mcpVars, redirectVars>>
RunsMoves    == part = "moves"    /\ MovingNext    /\ UNCHANGED <<part, readVars, pageVars, accessVars, mcpVars, redirectVars>>
RunsMcp      == part = "mcp"      /\ McpNext       /\ UNCHANGED <<part, readVars, pageVars, accessVars, movingVars, redirectVars>>
RunsLeads    == part = "leads"    /\ RedirectsNext /\ UNCHANGED <<part, readVars, pageVars, accessVars, movingVars, mcpVars>>

Next == RunsReads \/ RunsPages \/ RunsAccesses \/ RunsMoves \/ RunsMcp \/ RunsLeads

Spec == Init /\ [][Next]_vars

\* The properties are those of the modules above: each is about the part that runs, another's
\* variables are as they start.

=============================================================================
