---------------------------- MODULE ContextGovernor ----------------------------
(***************************************************************************)
(* The context governor (orchestration/context_governor.rs): what it decides *)
(* of each observation of a session, and the bounded store of observations  *)
(* it keeps. An observation may lack its token count, its limit or their    *)
(* provenance; an event may be delivered again; the clock that dates files  *)
(* may step back; a save may be cut off between its write and its pruning.  *)
(***************************************************************************)
EXTENDS Naturals, Sequences, FiniteSets

CONSTANTS
    Configs,      \* parsed policies: enabled, approaching and rollover (percent), cap, actions
    Usages,       \* usage of one message: input, read (Unset where not reported)
    ContextLimits,\* limits a model may report, Unset for none
    MaxWord,      \* u64::MAX
    MaxFiles,     \* MAX_CONTEXT_OBSERVATIONS
    Events,       \* event identities
    MaxClock      \* bound on the clock

Unset == 1000   \* no number

VARIABLES
    config,
    files,       \* event -> the stored observation and its modification time
    clock,
    saving,      \* the event whose file was written and not yet pruned after
    accepted,    \* history: event -> the observation a save returned Ok for last
    decisions    \* history: observation and decision

vars == <<config, files, clock, saving, accepted, decisions>>

\* ContextGovernorConfig::validate_values, which from_value ends with.
Valid(c) ==
    /\ c.approaching \in 1..100 /\ c.rollover \in 1..100 /\ c.rollover > c.approaching
    /\ c.actions["unknown"] # "rollover"

Init ==
    /\ config \in {c \in Configs : Valid(c)}
    /\ files = [e \in {} |-> Unset] /\ clock = 1 /\ saving = Unset
    /\ accepted = [e \in {} |-> Unset] /\ decisions = {}

-----------------------------------------------------------------------------
\* Mutant: the sum wraps.
UsedWrapped(u) ==
    IF u.input = Unset THEN u.read
    ELSE IF u.read = Unset THEN u.input
    ELSE (u.input + u.read) % (MaxWord + 1)

\* active_context_tokens: input and cache reads of one message, or nothing when
\* their sum does not fit.
Used(u) ==
    IF u.input = Unset THEN u.read
    ELSE IF u.read = Unset THEN u.input
    ELSE IF u.input + u.read > MaxWord THEN Unset ELSE u.input + u.read

Observed(u, limit, usable, boundary) ==
    [usage |-> u, used |-> Used(u), limit |-> limit, usable |-> usable, boundary |-> boundary]

Decided(state, action) == [state |-> state, action |-> action, allowed |-> FALSE, deferred |-> FALSE]

\* Mutant: without a limit a known usage is judged by the cap alone.
DecideUnlimited(c, o) ==
    IF ~c.enabled THEN Decided("disabled", "continue")
    ELSE IF o.used = Unset \/ ~o.usable THEN Decided("unknown", c.actions["unknown"])
    ELSE LET absolute == c.cap # Unset /\ o.used >= c.cap
             ratio == IF o.limit \in {0, Unset} THEN 0 ELSE (o.used * 10000) \div o.limit
             state == IF absolute \/ ratio >= c.rollover * 100 THEN "rollover_required"
                      ELSE IF ratio >= c.approaching * 100 THEN "approaching" ELSE "normal"
             action == c.actions[state]
         IN  [state |-> state, action |-> action, allowed |-> action = "rollover",
              deferred |-> action = "rollover" /\ ~o.boundary]

\* Mutant: where a count came from does not matter.
DecideUntrusted(c, o) ==
    LET limit == IF o.limit = 0 THEN Unset ELSE o.limit
        absolute == c.cap # Unset /\ o.used >= c.cap
        ratio == (o.used * 10000) \div limit
        state == IF absolute \/ (limit # Unset /\ ratio >= c.rollover * 100) THEN "rollover_required"
                 ELSE IF ratio >= c.approaching * 100 THEN "approaching" ELSE "normal"
        action == c.actions[state]
    IN  IF ~c.enabled THEN Decided("disabled", "continue")
        ELSE IF o.used = Unset \/ (limit = Unset /\ ~absolute) THEN Decided("unknown", c.actions["unknown"])
        ELSE [state |-> state, action |-> action, allowed |-> action = "rollover",
              deferred |-> action = "rollover" /\ ~o.boundary]

\* decide: a limit of zero is no limit, and a count without one is evidence of
\* nothing unless it reached the configured cap.
Decide(c, o) ==
    LET limit == IF o.limit = 0 THEN Unset ELSE o.limit
        absolute == c.cap # Unset /\ o.used >= c.cap
        ratio == (o.used * 10000) \div limit
        state == IF absolute \/ (limit # Unset /\ ratio >= c.rollover * 100) THEN "rollover_required"
                 ELSE IF ratio >= c.approaching * 100 THEN "approaching" ELSE "normal"
        action == c.actions[state]
    IN  IF ~c.enabled THEN Decided("disabled", "continue")
        ELSE IF o.used = Unset \/ ~o.usable \/ (limit = Unset /\ ~absolute) THEN Decided("unknown", c.actions["unknown"])
        ELSE [state |-> state, action |-> action, allowed |-> action = "rollover",
              deferred |-> action = "rollover" /\ ~o.boundary]

Judge(o) ==
    /\ decisions' = decisions \cup {[seen |-> o, decision |-> Decide(config, o)]}
    /\ Cardinality(decisions') <= 2
    /\ UNCHANGED <<config, files, clock, saving, accepted>>

-----------------------------------------------------------------------------
\* Mutant: what is delivered later replaces what is stored.
SaveOver(e, o) ==
    /\ saving = Unset
    /\ files' = [k \in DOMAIN files \cup {e} |-> IF k = e THEN [seen |-> o, at |-> clock] ELSE files[k]]
    /\ saving' = e
    /\ UNCHANGED <<config, clock, accepted, decisions>>

\* save_observation: an event that is stored is accepted when it is the same.
Save(e, o) ==
    /\ saving = Unset
    /\ IF e \in DOMAIN files
       THEN files[e].seen = o /\ accepted' = [k \in {e} |-> o] /\ UNCHANGED <<files, saving>>
       ELSE /\ files' = [k \in DOMAIN files \cup {e} |->
                            IF k = e THEN [seen |-> o, at |-> clock] ELSE files[k]]
            /\ saving' = e /\ UNCHANGED accepted
    /\ UNCHANGED <<config, clock, decisions>>

\* Mutant: the oldest files go, whichever they are.
PrunedOldest(keep) ==
    CHOOSE gone \in SUBSET DOMAIN files :
        /\ Cardinality(gone) = (IF Cardinality(DOMAIN files) > MaxFiles THEN Cardinality(DOMAIN files) - MaxFiles ELSE 0)
        /\ \A g \in gone, k \in DOMAIN files \ gone : files[g].at <= files[k].at

\* prune_observations: the oldest files but the one just written.
Pruned(keep) ==
    CHOOSE gone \in SUBSET (DOMAIN files \ {keep}) :
        /\ Cardinality(gone) = (IF Cardinality(DOMAIN files) > MaxFiles THEN Cardinality(DOMAIN files) - MaxFiles ELSE 0)
        /\ \A g \in gone, k \in DOMAIN files \ (gone \cup {keep}) : files[g].at <= files[k].at

Prune ==
    /\ saving # Unset
    /\ files' = [e \in DOMAIN files \ Pruned(saving) |-> files[e]]
    /\ accepted' = [e \in {saving} |-> files[e].seen]
    /\ saving' = Unset
    /\ UNCHANGED <<config, clock, decisions>>

\* The process ends between the write and the pruning.
Crash == saving # Unset /\ saving' = Unset /\ UNCHANGED <<config, files, clock, accepted, decisions>>

\* The clock moves, usually forward.
Tick == clock' \in 1..MaxClock /\ clock' # clock /\ UNCHANGED <<config, files, saving, accepted, decisions>>

Observations ==
    {Observed(u, limit, usable, boundary) :
        u \in Usages, limit \in ContextLimits, usable \in BOOLEAN, boundary \in BOOLEAN}
\* The store tells observations apart, no more.
Stored == {Observed(u, Unset, TRUE, TRUE) : u \in {CHOOSE v \in Usages : TRUE, CHOOSE v \in Usages : v.input = Unset}}

Deciding == Init /\ [][\E o \in Observations : Judge(o)]_vars
Storing == Init /\ [][(\E e \in Events, o \in Stored : Save(e, o)) \/ Prune \/ Crash \/ Tick]_vars

-----------------------------------------------------------------------------
Rank == [disabled |-> 0, unknown |-> 0, normal |-> 1, approaching |-> 2, rollover_required |-> 3]

\* More context in use never makes a band milder: of two judged observations
\* that differ in their counts alone, the larger is in the same band or above.
BandsAreMonotone ==
    \A one, other \in decisions :
        LET a == one.seen b == other.seen IN
        (/\ a.usable /\ b.usable /\ a.limit = b.limit
         /\ a.usage.input <= b.usage.input /\ a.usage.read = b.usage.read
         /\ b.usage.input # Unset /\ b.used # Unset)
        => Rank[one.decision.state] <= Rank[other.decision.state]

\* A session is replaced on evidence alone: a trusted count that really reached
\* the threshold of a reported limit, or the cap. An unknown count never does it.
RolloversHaveEvidence ==
    \A d \in decisions : d.decision.allowed /\ "rollover" \notin {config.actions["normal"], config.actions["approaching"]} =>
        LET o == d.seen
            total == (IF o.usage.input = Unset THEN 0 ELSE o.usage.input)
                     + (IF o.usage.read = Unset THEN 0 ELSE o.usage.read)
        IN  /\ o.usable /\ o.usage # [input |-> Unset, read |-> Unset] /\ total <= MaxWord
            /\ \/ config.cap # Unset /\ total >= config.cap
               \/ o.limit \notin {0, Unset} /\ total * 100 >= config.rollover * o.limit

\* A count without a limit is not evidence of a normal window.
NormalHasALimit ==
    \A d \in decisions : d.decision.state \in {"normal", "approaching"} => d.seen.limit \notin {0, Unset}

\* What a save reported as stored is there when it returns, even when the
\* clock stepped back and its file is the oldest one.
SavedIsStored == saving = Unset => \A e \in DOMAIN accepted : e \in DOMAIN files /\ files[e].seen = accepted[e]

\* An event's stored observation is never replaced by another.
EventsKeepTheirPayload ==
    [][\A e \in DOMAIN files \cap DOMAIN files' : files'[e].seen = files[e].seen]_vars
=============================================================================
