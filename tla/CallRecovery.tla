----------------------------- MODULE CallRecovery -----------------------------
(***************************************************************************)
(* Call recovery (call_recovery.rs): what becomes of a tool call before it *)
(* is admitted. Its name is resolved against the registry, its arguments   *)
(* are validated, and what the Runtime can settle from Calls the Attempt   *)
(* has completed is repaired; the rest is asked of the model again. A      *)
(* strict wire (openai_projection) carries every declared field, null for  *)
(* an absent one, and is undone first; only a tool that is not asked for   *)
(* under its wire name is held to it. Arguments are partial functions      *)
(* from field names to values; the schema validator is external, modelled  *)
(* by what the code takes from its errors.                                 *)
(***************************************************************************)
EXTENDS Naturals, Sequences

CONSTANTS
    Tools,      \* tool -> [wire, required, optional, target, aliases]: the registry, and
                \*   the name each tool is offered under on a strict wire
    NamesOf,    \* requested name -> [exact, alias, folded]: the tools it names so
    Texts,      \* well-typed values
    Wires,      \* "plain" and "strict"
    Sendable,   \* the arguments a model may send in this instance
    MaxCalls    \* bound on Calls

Null == "null"       \* JSON null
Bad == "bad"         \* a value of the wrong type, or against a constraint
NoField == "no field"
NoArguments == [f \in {} |-> Null]

Single(S) == \E x \in S : S = {x}

\* No two tools of the registry have one name.
RecoveryAssumption ==
    \A name \in DOMAIN NamesOf :
        /\ NamesOf[name].exact \cup NamesOf[name].alias \cup NamesOf[name].folded \subseteq DOMAIN Tools
        /\ NamesOf[name].exact = {} \/ Single(NamesOf[name].exact)

VARIABLES
    calls,   \* the Attempt's admitted Calls: tool, arguments, state
    last     \* the last tool call and what recovery made of it

vars == <<calls, last>>

Init == calls = <<>> /\ last = [kind |-> "none"]

Declared(t) == Tools[t].required \cup Tools[t].optional
Put(args, f, v) == [g \in DOMAIN args \cup {f} |-> IF g = f THEN v ELSE args[g]]
Drop(args, fields) == [g \in DOMAIN args \ fields |-> args[g]]

\* Mutant: a folded spelling resolves to a tool even when several fold to it.
ResolveToolAny(name) ==
    LET n == NamesOf[name] IN
    IF n.exact # {} THEN n.exact ELSE IF n.alias # {} THEN {CHOOSE t \in n.alias : TRUE}
    ELSE IF n.folded # {} THEN {CHOOSE t \in n.folded : TRUE} ELSE {}

\* NativeToolRegistry::get_by_alias and resolve_tool: exact, then alias, then
\* a folded spelling, and nothing that two tools have for an alias or a spelling.
ResolveTool(name) ==
    LET n == NamesOf[name] IN
    IF n.alias # {} /\ ~Single(n.alias) THEN {}
    ELSE IF n.exact # {} THEN n.exact
    ELSE IF n.alias # {} THEN n.alias
    ELSE IF Single(n.folded) THEN n.folded ELSE {}

\* classify: a field sent as null is reported missing, and of the undeclared
\* fields, which are one error of their object, the first is named.
Missing(t, args) ==
    (Tools[t].required \ DOMAIN args) \cup {f \in Declared(t) \cap DOMAIN args : args[f] = Null}
Invalid(t, args) == {f \in Declared(t) \cap DOMAIN args : args[f] = Bad}
Undeclared(t, args) == DOMAIN args \ Declared(t)
Preflight(t, args) == Missing(t, args) = {} /\ Invalid(t, args) = {} /\ Undeclared(t, args) = {}

\* TargetBindings::from_calls and unique_target: the resources that completed
\* Calls of this tool were about.
BoundTargets(t) ==
    {calls[i].args[Tools[t].target] : i \in {j \in DOMAIN calls :
        /\ calls[j].state = "completed" /\ calls[j].tool = t
        /\ Tools[t].target \in DOMAIN calls[j].args}}

\* Mutant: a Call that failed binds its target too.
RebindAny(t, args, repaired) ==
    LET bound == {calls[i].args[Tools[t].target] : i \in {j \in DOMAIN calls :
            calls[j].tool = t /\ Tools[t].target \in DOMAIN calls[j].args}}
    IN  IF Tools[t].target \in Missing(t, args) /\ Single(bound)
        THEN Put(repaired, Tools[t].target, CHOOSE v \in bound : TRUE)
        ELSE repaired

\* The target is filled when it was missing from the arguments as they were sent.
Rebind(t, args, repaired) ==
    IF Tools[t].target \in Missing(t, args) /\ Single(BoundTargets(t))
    THEN Put(repaired, Tools[t].target, CHOOSE v \in BoundTargets(t) : TRUE)
    ELSE repaired

\* The undeclared field that was named: renamed, if the registry has it for an
\* alias of a field that is not set, and otherwise dropped.
Rename(t, args, named) ==
    LET aliases == Tools[t].aliases IN
    IF named = NoField THEN args
    ELSE IF named \in DOMAIN aliases /\ aliases[named] \notin DOMAIN args
         THEN Put(Drop(args, {named}), aliases[named], args[named])
         ELSE Drop(args, {named})

\* recover, of a name that resolves and arguments that are an object.
Outcome(kind, args, fields) == [kind |-> kind, args |-> args, fields |-> fields]

\* Mutant: repaired arguments are dispatched without a second look.
RecoverOnce(t, args, named) ==
    IF Preflight(t, args) THEN Outcome("dispatch", args, {})
    ELSE LET repaired == Rebind(t, args, Rename(t, args, named)) IN
         IF repaired # args /\ Invalid(t, args) = {} THEN Outcome("dispatch", repaired, {})
         ELSE Outcome("repair", repaired, Missing(t, repaired) \cup Invalid(t, repaired))

Recover(t, args, named) ==
    IF Preflight(t, args) THEN Outcome("dispatch", args, {})
    ELSE LET repaired == Rebind(t, args, Rename(t, args, named)) IN
         IF Preflight(t, repaired) THEN Outcome("dispatch", repaired, {})
         ELSE Outcome("repair", repaired, Missing(t, repaired) \cup Invalid(t, repaired))

\* The strict schema of a tool: every declared field and no other, null where an
\* optional one is absent.
StrictlyValid(t, args) ==
    /\ DOMAIN args = Declared(t) /\ Invalid(t, args) = {}
    /\ \A f \in Tools[t].required : args[f] # Null

\* canonical_arguments: the nulls of optional fields go, whatever else was sent stays.
Canonical(t, args) == Drop(args, {f \in Tools[t].optional \cap DOMAIN args : args[f] = Null})

\* normalize_wire_arguments: the name a tool was offered under is taken at its word, and
\* every other spelling of it must satisfy the strict schema.
WireIsAccepted(name, wire, t, sent) ==
    wire = "plain" \/ name = Tools[t].wire \/ StrictlyValid(t, sent)

-----------------------------------------------------------------------------
\* resolve_call: what a provider's tool call becomes.
Send(name, wire, sent) ==
    /\ Len(calls) < MaxCalls
    /\ LET tools == ResolveTool(name) IN
       IF tools = {}
       THEN /\ last' = [kind |-> "reason", name |-> name, wire |-> wire, sent |-> sent]
            /\ UNCHANGED calls
       ELSE \E t \in tools :
            IF ~WireIsAccepted(name, wire, t, sent)
            THEN /\ last' = [kind |-> "reason", name |-> name, wire |-> wire, sent |-> sent]
                 /\ UNCHANGED calls
            ELSE LET args == IF wire = "strict" THEN Canonical(t, sent) ELSE sent IN
                 \E named \in IF Undeclared(t, args) = {} THEN {NoField} ELSE Undeclared(t, args) :
                    LET o == Recover(t, args, named) IN
                    /\ last' = [kind |-> o.kind, name |-> name, tool |-> t, wire |-> wire, sent |-> args,
                                args |-> o.args, fields |-> o.fields,
                                bound |-> BoundTargets(t)]
                    /\ calls' = IF o.kind = "dispatch"
                                THEN Append(calls, [tool |-> t, args |-> o.args, state |-> "claimed"])
                                ELSE calls

\* An admitted Call ends, whatever decides how.
End(i, state) ==
    /\ calls[i].state = "claimed"
    /\ calls' = [calls EXCEPT ![i].state = state]
    /\ UNCHANGED last

Next ==
    \/ \E name \in DOMAIN NamesOf, wire \in Wires, sent \in Sendable : Send(name, wire, sent)
    \/ \E i \in DOMAIN calls, state \in {"completed", "failed"} : End(i, state)

Spec == Init /\ [][Next]_vars

-----------------------------------------------------------------------------
\* What is dispatched satisfies the tool's schema, however it was repaired.
DispatchIsValid ==
    last.kind = "dispatch" => Preflight(last.tool, last.args)

\* A value the model did not send is the tool's target, from the one resource
\* that completed Calls of this tool in this Attempt were about.
NothingIsInvented ==
    last.kind = "dispatch" =>
        \A f \in DOMAIN last.args :
            \/ f \in DOMAIN last.sent /\ last.args[f] = last.sent[f]
            \/ \E alias \in DOMAIN last.sent \cap DOMAIN Tools[last.tool].aliases :
                Tools[last.tool].aliases[alias] = f /\ last.args[f] = last.sent[alias]
            \/ f = Tools[last.tool].target /\ last.bound = {last.args[f]}

\* A name is resolved only if no other tool answers to it in the same way.
NamesAreUnambiguous ==
    last.kind = "dispatch" =>
        LET n == NamesOf[last.name] IN
        {n.exact, n.alias, n.folded} \cap {{last.tool}} # {}

\* A substituted name is not a way around the strict schema: on a strict wire a tool that
\* is asked for under any name but the one it was offered under runs as it was asked, with
\* nothing dropped, renamed or filled in.
SubstitutesAreNotRepaired ==
    last.kind = "dispatch" /\ last.wire = "strict" /\ last.name # Tools[last.tool].wire
        => last.args = last.sent

\* What recovery lets a tool run is a valid call of the one tool that was named,
\* with nothing the model or its Attempt did not say, and a name that was substituted
\* is held to the schema of the tool it stands for.
RepairsInventNothing ==
    DispatchIsValid /\ NothingIsInvented /\ NamesAreUnambiguous /\ SubstitutesAreNotRepaired

\* Refuted: a strict wire means the plain call, also under the wire name: its schema is validated
\* before anything is repaired ("strict validation still runs first").
StrictValidationRunsFirst ==
    last.kind = "dispatch" /\ last.wire = "strict" => last.args = last.sent

\* A resource the model named is the one that is acted on: a target is filled
\* in only for a call that names none ("No inferred resources").
NamedTargetsAreKept ==
    last.kind = "dispatch" =>
        LET t == Tools[last.tool]
            spellings == {t.target} \cup {f \in DOMAIN t.aliases : t.aliases[f] = t.target}
            named == {last.sent[f] : f \in DOMAIN last.sent \cap spellings} \cap Texts
        IN  named # {} => last.args[t.target] \in named

\* A repair asks for at least one field ("Ask the model for only these fields").
RepairsNameAField == last.kind = "repair" => last.fields # {}

\* Only a required field that is absent is filled in ("A required field sent as null is absent").
OptionalTargetsStayAbsent ==
    /\ last.kind = "dispatch"
    /\ Tools[last.tool].target \in Tools[last.tool].optional \cap DOMAIN last.args
    => \E f \in DOMAIN last.sent : last.sent[f] = last.args[Tools[last.tool].target]
=============================================================================
