----------------------------- MODULE ContextBudget -----------------------------
(***************************************************************************)
(* The budget of one request's context and the decision whether it must be   *)
(* compacted (compaction/accounting.rs, the thresholds of                    *)
(* compaction/config.rs). Requests of one conversation are measured one      *)
(* after another, and the provider may report what the last one cost.        *)
(* A limit or a report that is absent is 0, as a declared zero is read.      *)
(***************************************************************************)
EXTENDS Naturals

CONSTANTS
    Limits,        \* limits a model may declare: context, input, output, reasoning
    Policies,      \* compaction policies
    MaxTokens,     \* bound on the tokens of a request
    Assumed,       \* DEFAULT_ASSUMED_RESPONSE_RESERVE
    SlackBp        \* REPORT_SLACK_BP

ASSUME LimitsAssumption == Limits \subseteq [context : Nat, input : Nat, output : Nat, reasoning : Nat]
ASSUME PoliciesAssumption ==
    Policies \subseteq [enabled : BOOLEAN, reducePercent : Nat, compactPercent : Nat,
        absoluteCompact : Nat, responseReserve : Nat, reasoningReserve : Nat, safetyBuffer : Nat, assumedPercent : Nat]
ASSUME TokensAssumption == MaxTokens \in Nat /\ Assumed \in Nat /\ SlackBp \in 0..10000

VARIABLES
    limits, policy,
    measured,   \* the estimated tokens of the request
    reported,   \* the provider's count, 0 for none
    state       \* the decision's band

vars == <<limits, policy, measured, reported, state>>

\* validate_values.
Valid(p) == p.reducePercent < p.compactPercent /\ p.assumedPercent \in 1..100

Smaller(a, b) == IF a <= b THEN a ELSE b
Larger(a, b) == IF a <= b THEN b ELSE a
Minus(a, b) == IF a <= b THEN 0 ELSE a - b

\* prompt_ceiling: the smaller of the limits declared, 0 when none is.
Ceiling(l) ==
    IF l.context = 0 THEN l.input ELSE IF l.input = 0 THEN l.context ELSE Smaller(l.context, l.input)
Trusted(l) == Ceiling(l) > 0

\* is_consistent: an output limit over the context window counts as undeclared.
DeclaredOutput(l) == IF l.context > 0 /\ l.output > l.context THEN 0 ELSE l.output

Within(l, room, reserve) == IF Trusted(l) THEN Smaller(reserve, room) ELSE reserve

\* budget_for: the reserves, each within what the ones before it leave.
OutputReserve(l, p) ==
    Within(l, Ceiling(l),
        IF p.responseReserve > 0 THEN p.responseReserve
        ELSE IF DeclaredOutput(l) > 0 THEN DeclaredOutput(l) ELSE Assumed)

\* Mutant: within the whole window.
ReasoningReserveAlone(l, p) ==
    Within(l, Ceiling(l), IF l.reasoning > 0 THEN l.reasoning ELSE p.reasoningReserve)

ReasoningReserve(l, p) ==
    Within(l, Minus(Ceiling(l), OutputReserve(l, p)),
        IF l.reasoning > 0 THEN l.reasoning ELSE p.reasoningReserve)
SafetyBuffer(l, p) ==
    Within(l, Minus(Minus(Ceiling(l), OutputReserve(l, p)), ReasoningReserve(l, p)), p.safetyBuffer)

TotalReserve(l, p) == OutputReserve(l, p) + ReasoningReserve(l, p) + SafetyBuffer(l, p)
Available(l, p) == Minus(Ceiling(l), TotalReserve(l, p))

\* reported_disagrees: the report is under the measurement by more than the slack.
Disagrees(m, r) == r > 0 /\ m > 0 /\ r < Minus(m, (m * SlackBp) \div 10000)

\* Mutant: a report within the slack stands.
EffectiveReported(m, r) == IF r > 0 /\ ~Disagrees(m, r) THEN r ELSE m

\* effective_prompt_tokens.
Effective(m, r) == IF r > 0 /\ ~Disagrees(m, r) THEN Larger(r, m) ELSE m

\* utilization_bp against a percentage; without room there is no ratio.
Reaches(l, p, used, percent) ==
    Available(l, p) > 0 /\ (used * 10000) \div Available(l, p) >= percent * 100

AbsoluteCap(p, used) == p.absoluteCompact > 0 /\ used >= p.absoluteCompact

\* Mutant: overflow is judged by the ratio.
DecideByRatio(l, p, used) ==
    IF ~p.enabled THEN "disabled"
    ELSE IF ~Trusted(l) THEN IF AbsoluteCap(p, used) THEN "rollover_required" ELSE "unknown"
    ELSE IF AbsoluteCap(p, used) \/ Reaches(l, p, used, p.compactPercent) THEN "rollover_required"
    ELSE IF Reaches(l, p, used, p.reducePercent) THEN "approaching" ELSE "normal"

\* decide.
Decide(l, p, used) ==
    IF ~p.enabled THEN "disabled"
    ELSE IF ~Trusted(l) THEN IF AbsoluteCap(p, used) THEN "rollover_required" ELSE "unknown"
    ELSE IF AbsoluteCap(p, used) \/ used > Available(l, p) \/ Reaches(l, p, used, p.compactPercent)
    THEN "rollover_required"
    ELSE IF Reaches(l, p, used, p.reducePercent) THEN "approaching" ELSE "normal"

-----------------------------------------------------------------------------
Init ==
    /\ limits \in Limits /\ policy \in {p \in Policies : Valid(p)}
    /\ measured = 0 /\ reported = 0
    /\ state = Decide(limits, policy, 0)

\* evaluate for the next request: measured anew, with the report at hand.
Evaluate(m, r) ==
    /\ measured' = m /\ reported' = r
    /\ state' = Decide(limits, policy, Effective(m, r))
    /\ UNCHANGED <<limits, policy>>

Next == \E m, r \in 0..MaxTokens : Evaluate(m, r)

Spec == Init /\ [][Next]_vars

-----------------------------------------------------------------------------
\* The reserves never exceed the window they are taken from.
ReservesFit == Trusted(limits) => TotalReserve(limits, policy) <= Ceiling(limits)

\* A request that does not fit what the reserves leave is compacted, also when
\* they leave nothing.
OverflowCompacts ==
    policy.enabled /\ Trusted(limits) /\ measured + TotalReserve(limits, policy) > Ceiling(limits)
        => state = "rollover_required"

\* A request is built within its window, or it is compacted.
WindowIsRespected == ReservesFit /\ OverflowCompacts

Rank == [disabled |-> 0, unknown |-> 0, normal |-> 0, approaching |-> 1, rollover_required |-> 2]

\* A request no smaller than the last, and reported no smaller, is in no milder
\* band: no report reopens a budget the measurement has used up.
BandsAreMonotone ==
    [][measured' >= measured /\ reported' >= reported => Rank[state'] >= Rank[state]]_vars

\* A reserve nobody declared takes no more than its share of the window.
AssumedIsCapped ==
    Trusted(limits) /\ policy.responseReserve = 0 /\ limits.output = 0
        => OutputReserve(limits, policy) * 100 <= Ceiling(limits) * policy.assumedPercent
=============================================================================
