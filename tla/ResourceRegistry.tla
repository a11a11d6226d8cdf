--------------------------- MODULE ResourceRegistry ---------------------------
(***************************************************************************)
(* The descriptive registry of execution resources (resources.rs): what is *)
(* known of each resource, from which source and how fresh, merged from    *)
(* observations that arrive in any order, bounded, saved as one document   *)
(* and loaded from what is left of it. One fact stands for the six that    *)
(* are merged alike, and configured uses are kept beside the observations. *)
(***************************************************************************)
EXTENDS Integers, FiniteSets, Sequences, SequencesExt, FiniteSetsExt

CONSTANTS
    Resources,          \* 1..n, in the order of their ids
    Times,              \* when something is observed; 0 is never
    Uses,               \* configured uses: a selected Lead or a role
    MaxResources,       \* MAX_RESOURCES
    MaxConfiguredUses,  \* MAX_CONFIGURED_USES
    MaxSteps            \* bound on observations and faults

\* ResourceProvenance::rank
Rank == [StaticConfig |-> 5, ProviderReported |-> 4, Observed |-> 4, Estimated |-> 2]
UnknownFact == [source |-> "Unknown", at |-> 0]
UnknownHealth == [state |-> "Unknown", at |-> 0]
Facts == [source : DOMAIN Rank, at : Times]
\* No caller makes an unknown health with a time; "Degraded" is merged as these two are.
Healths == [state : {"Available", "Unavailable"}, at : Times]

VARIABLES
    observations,   \* resource -> what is known of it
    configured,     \* resource -> its configured uses, oldest first; never saved
    document,       \* the saved observations, or that it is missing or corrupt
    damaged,        \* records of the document that no longer parse or validate
    issues,         \* what the last load reported: records, or "document"
    seen,           \* evidence merged into each resource since it is known (observer)
    steps

vars == <<observations, configured, document, damaged, issues, seen, steps>>

Nothing == [r \in {} |-> 0]
Document(state, records, evidence) == [state |-> state, records |-> records, seen |-> evidence]

Init ==
    /\ observations = Nothing /\ configured = Nothing /\ seen = Nothing
    /\ document = Document("missing", Nothing, Nothing) /\ damaged = {} /\ issues = {} /\ steps = 0

Put(f, r, v) == [q \in DOMAIN f \cup {r} |-> IF q = r THEN v ELSE f[q]]
Only(f, keys) == [q \in DOMAIN f \cap keys |-> f[q]]

\* Mutant: a newer fact replaces a stronger one.
MergeFactNewest(known, incoming) ==
    IF incoming.source = "Unknown" \/ (known.source # "Unknown" /\ incoming.at < known.at)
    THEN known ELSE incoming

\* Fact::merge_preferred: a stronger source wins, equal sources defer to
\* recency, and an unknown fact never erases a known one.
MergeFact(known, incoming) ==
    IF \/ incoming.source = "Unknown"
       \/ known.source # "Unknown" /\ Rank[incoming.source] < Rank[known.source]
       \/ known.source # "Unknown" /\ Rank[incoming.source] = Rank[known.source] /\ incoming.at < known.at
    THEN known ELSE incoming

\* Mutant: the last observation to arrive wins.
MergeHealthLast(known, incoming) ==
    IF incoming.state = "Unknown" /\ known.state # "Unknown" THEN known ELSE incoming

\* merge_health: the newest observation wins, and unknown never erases known.
MergeHealth(known, incoming) ==
    IF \/ incoming.state = "Unknown" /\ known.state # "Unknown"
       \/ known.at # 0 /\ incoming.at # 0 /\ incoming.at < known.at
    THEN known ELSE incoming

\* ResourceObservation::merge, or the first observation of a resource.
Merged(r, fact, health, now) ==
    IF r \in DOMAIN observations
    THEN LET o == observations[r] IN
         [fact |-> MergeFact(o.fact, fact), health |-> MergeHealth(o.health, health),
          updated_at |-> Max({o.updated_at, now})]
    ELSE [fact |-> fact, health |-> health, updated_at |-> now]

\* Mutant: the order of a tie decides by the lower id and age is reversed.
RetainedOldest(obs) ==
    {r \in DOMAIN obs :
        Cardinality({q \in DOMAIN obs : obs[q].updated_at < obs[r].updated_at
                        \/ (obs[q].updated_at = obs[r].updated_at /\ q > r)}) < MaxResources}

\* enforce_bound: the most recently updated resources, ties by the greater id.
Retained(obs) ==
    {r \in DOMAIN obs :
        Cardinality({q \in DOMAIN obs : obs[q].updated_at > obs[r].updated_at
                        \/ (obs[q].updated_at = obs[r].updated_at /\ q > r)}) < MaxResources}

\* merge_observation, with the uses that are then configured.
Observe(r, fact, health, now, uses) ==
    LET obs == Put(observations, r, Merged(r, fact, health, now))
        kept == Retained(obs)
        evidence == [facts |-> {fact} \ {UnknownFact}, healths |-> {health} \ {UnknownHealth}]
    IN  /\ observations' = Only(obs, kept)
        /\ configured' = Only(uses, kept \cup (DOMAIN uses \ DOMAIN obs))
        /\ seen' = Only(Put(seen, r, IF r \in DOMAIN seen
                        THEN [facts |-> seen[r].facts \cup evidence.facts,
                              healths |-> seen[r].healths \cup evidence.healths]
                        ELSE evidence), kept)

Count == steps < MaxSteps /\ steps' = steps + 1

\* observe_resolved, observe_effective, observe_model_metadata
ObserveFact(r, fact) ==
    /\ Count /\ Observe(r, fact, UnknownHealth, fact.at, configured)
    /\ UNCHANGED <<document, damaged, issues>>
\* observe_health, observe_available
ObserveHealth(r, health) ==
    /\ Count /\ Observe(r, UnknownFact, health, health.at, configured)
    /\ UNCHANGED <<document, damaged, issues>>

\* register_configured: a new use is added and the oldest ones are dropped.
WithUse(r, use) ==
    LET uses == IF r \in DOMAIN configured THEN configured[r] ELSE <<>>
        more == Append(uses, use)
    IN  Put(configured, r, IF Contains(uses, use) THEN uses
                           ELSE SubSeq(more, 1 + Max({0, Len(more) - MaxConfiguredUses}), Len(more)))

RegisterConfigured(r, use, now) ==
    /\ Count /\ Observe(r, UnknownFact, UnknownHealth, now, WithUse(r, use))
    /\ UNCHANGED <<document, damaged, issues>>

Save ==
    /\ document' = Document("saved", observations, seen) /\ damaged' = {}
    /\ document' # document
    /\ UNCHANGED <<observations, configured, issues, seen, steps>>

\* The document is damaged on disk: one record, or all of it.
Damage(r) ==
    /\ document.state = "saved" /\ Count
    /\ r \in DOMAIN document.records /\ damaged' = damaged \cup {r}
    /\ UNCHANGED <<observations, configured, document, issues, seen>>
Corrupt ==
    /\ document.state = "saved" /\ Count
    /\ document' = Document("corrupt", Nothing, Nothing)
    /\ UNCHANGED <<observations, configured, damaged, issues, seen>>

\* load_raw, in a new process: a bad record is reported and skipped.
LoadWith(bad) ==
    /\ configured' = Nothing
    /\ IF document.state # "saved"
       THEN /\ observations' = Nothing /\ seen' = Nothing
            /\ issues' = IF document.state = "corrupt" THEN {"document"} ELSE {}
       ELSE LET obs == Only(document.records, DOMAIN document.records \ bad) IN
            /\ observations' = Only(obs, Retained(obs)) /\ seen' = Only(document.seen, Retained(obs))
            /\ issues' = {<<r>> : r \in damaged}
    /\ UNCHANGED <<document, damaged, steps>>

\* Mutant: one bad record makes the registry empty.
LoadAllOrNothing == LoadWith(IF damaged # {} THEN DOMAIN document.records ELSE {})
Load == LoadWith(damaged)

Next ==
    \/ \E r \in Resources :
        \/ \E fact \in Facts : ObserveFact(r, fact)
        \/ \E health \in Healths : ObserveHealth(r, health)
        \/ \E use \in Uses, now \in Times : RegisterConfigured(r, use, now)
        \/ Damage(r)
    \/ Save \/ Corrupt \/ Load

Spec == Init /\ [][Next]_vars

-----------------------------------------------------------------------------
\* However observations are ordered, a resource's fact is the newest of the
\* strongest evidence it has had, across saves and loads (merge_preferred).
StrongestEvidenceKept ==
    \A r \in DOMAIN observations :
        IF seen[r].facts = {} THEN observations[r].fact = UnknownFact
        ELSE /\ observations[r].fact \in seen[r].facts
             /\ \A f \in seen[r].facts :
                    \/ Rank[f.source] < Rank[observations[r].fact.source]
                    \/ Rank[f.source] = Rank[observations[r].fact.source] /\ f.at <= observations[r].fact.at

\* Its health is the newest known one, and unknown only if none was known.
NewestHealthKept ==
    \A r \in DOMAIN observations :
        seen[r].healths # {} =>
            /\ observations[r].health \in seen[r].healths
            /\ \A h \in seen[r].healths : h.at <= observations[r].health.at

\* At the bound the least recently updated resources are forgotten, with their uses.
LeastRecentIsEvicted ==
    [][\A r \in DOMAIN observations \ DOMAIN observations' :
        issues' = issues /\ steps' # steps =>
            /\ r \notin DOMAIN configured'
            /\ \A q \in DOMAIN observations \cap DOMAIN observations' :
                observations[r].updated_at <= observations'[q].updated_at]_vars

\* What was saved is loaded, or reported: a bad record hides no other, and is
\* never taken for a resource that is not known.
LoadIsHonest ==
    [][document.state = "saved" /\ configured' = Nothing /\ steps' = steps /\ document' = document =>
        \A r \in DOMAIN document.records :
            (r \in damaged /\ <<r>> \in issues') \/ (r \notin damaged /\ r \in DOMAIN observations')]_vars
=============================================================================
