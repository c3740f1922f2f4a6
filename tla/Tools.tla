------------------------------- MODULE Tools -------------------------------
(***************************************************************************)
(* The five tools of src/agentic_logistics/tools and the JSON-backed       *)
(* carrier repository they read, as constant-level operators named after   *)
(* the functions.                                                          *)
(*                                                                         *)
(* A carrier is its position in Network, the order of the fixture file, so *)
(* a route (whose cost, hours and carrier_id all come from one carrier) is *)
(* that position too.  NoCarrier is None, and any id the repository does   *)
(* not hold.  Units: cost in cents per mile, hours in hours, reliability   *)
(* in percent, risk in thousandths.                                        *)
(***************************************************************************)
EXTENDS Integers, Sequences

CONSTANTS
    Regions,    \* the region codes
    Network     \* the carriers of the fixture, in file order

Carrier ==
    [regions : SUBSET Regions, cost : Int, hours : Nat,
     reliability : 0..100, blocklisted : BOOLEAN]

ASSUME NetworkAssumption == Network \in Seq(Carrier)

NoCarrier == 0
Carriers  == 1..Len(Network)

\* The names build_graph.py registers.
ToolNames == {"risk_scorer", "carrier_lookup", "route_optimizer", "route_validator",
              "execution_simulator"}

-----------------------------------------------------------------------------
(* The repository, and the lookup tool that filters what it returns.       *)

find_by_region(origin, destination) ==
    {c \in Carriers : {origin, destination} \subseteq Network[c].regions}

\* Faulty variant: forgets the blocklist.
carrier_lookup_Blocklisted(origin, destination, excluded) ==
    {c \in find_by_region(origin, destination) : c # excluded}

\* The empty set stands for NoViableCarrierError.
carrier_lookup(origin, destination, excluded) ==
    {c \in find_by_region(origin, destination) :
        c # excluded /\ ~ Network[c].blocklisted}

-----------------------------------------------------------------------------
(* The optimizer.  Python's sort is stable and candidates keep the file    *)
(* order, so among equally cheap carriers the earliest one is chosen.      *)

\* The empty set stands for RouteInfeasibleError.
FeasibleCarriers(candidates, maxHours) ==
    {c \in candidates : Network[c].hours <= maxHours}

SortsBefore(a, b) ==
    \/ Network[a].cost < Network[b].cost
    \/ Network[a].cost = Network[b].cost /\ a <= b

\* The routes the tool may return as its first result: one, when any is feasible.
route_optimizer(candidates, maxHours) ==
    LET feasible == FeasibleCarriers(candidates, maxHours)
    IN  {c \in feasible : \A other \in feasible : SortsBefore(c, other)}

\* A route's estimated_cost is 500 times the carrier's cost per mile.
estimated_cost(c) == 500 * Network[c].cost

route_validator(c, maxHours) ==
    Network[c].hours <= maxHours /\ estimated_cost(c) > 0

-----------------------------------------------------------------------------
(* Risk.  A missing severity weighs as "medium".  In half thousandths the  *)
(* weighted sum is an integer; when it is odd the score is rounded to      *)
(* either side, as floating point decides, so the score is one of a set.   *)
(* The sum is at most 1865: the clamp to [0, 1] never changes it.          *)

SeverityWeight ==
    [none |-> 40, low |-> 15, medium |-> 40, high |-> 70, critical |-> 95]

AlertTypeWeight ==
    [port_congestion |-> 10, carrier_failure |-> 20, weather_delay |-> 5,
     customs_hold |-> 15, unknown |-> 25]

Severities == DOMAIN SeverityWeight
AlertTypes == DOMAIN AlertTypeWeight

Unreliability(affected) ==
    IF affected \in Carriers THEN 100 - Network[affected].reliability ELSE 0

\* Faulty variant: leaves the score in half thousandths.
risk_scorer_Unscaled(alertType, severity, affected) ==
    {12 * SeverityWeight[severity] + 5 * AlertTypeWeight[alertType]
         + 6 * Unreliability(affected)}

risk_scorer(alertType, severity, affected) ==
    LET halves == 12 * SeverityWeight[severity]
                  + 5 * AlertTypeWeight[alertType]
                  + 6 * Unreliability(affected)
    IN  {halves \div 2, (halves + 1) \div 2}

-----------------------------------------------------------------------------
(* Execution fails, transiently, on a first attempt told to fail; any      *)
(* other call is confirmed.                                                *)

FailsTransiently(force, attempt) == force /\ attempt = 1

=============================================================================
