-------------------------- MODULE ExecutionAuthority --------------------------
(***************************************************************************)
(* The canonical execution authority of orchestration/domain.rs: Jobs, the *)
(* Attempts that execute them, the Executor of each Attempt, the Calls an  *)
(* Attempt makes with their durable dispatch intents, the dependency graph *)
(* between Jobs, the session bindings and the evidence kept of results that*)
(* arrive too late.                                                        *)
(*                                                                         *)
(* Every operation of the source runs in one IMMEDIATE SQLite transaction, *)
(* so each is one atomic action here; any number of processes and worker   *)
(* threads may call them in any order.  An operation the source refuses    *)
(* (it returns Err and rolls back) is an action that is not enabled.       *)
(*                                                                         *)
(* An Attempt is named by its Job and its generation: the table has        *)
(* UNIQUE(job_id, generation).  The same transactions also write the       *)
(* journal, the money and the chat columns; those belong to other modules. *)
(***************************************************************************)
EXTENDS Naturals

CONSTANTS Jobs,           \* identities new_id("job") may hand out
          Calls,          \* identities new_id("call") may hand out
          Keys,           \* session binding keys
          Responses,      \* results an Executor may deliver
          MaxGeneration,  \* bound on the generations one Job goes through
          NoAttempt,      \* SQL NULL where an Attempt id may stand
          NoResponse      \* SQL NULL, or a failure text, as a Call's response

Generations == 1..MaxGeneration
Attempts    == Jobs \X Generations

ASSUME ConstantsAssumption ==
    /\ MaxGeneration \in Nat
    /\ NoAttempt \notin Attempts
    /\ NoResponse \notin Responses

JobStates == {"absent", "pending", "eligible", "running", "cancelling", "completed",
              "failed", "cancelled", "unknown", "orphaned"}
Executable == {"queued", "running"}
Unfinished == {"queued", "running", "cancelling"}
Ended      == {"completed", "failed", "cancelled", "unknown", "orphaned"}
AttemptStates  == {"absent"} \cup Unfinished \cup Ended
ExecutorStates == {"absent", "ready", "fenced"} \cup Ended
\* A provider Call and a writing tool are side effects; a read-only tool is not, and may
\* name its Executor ("read") or none ("unattended").
SideEffects == {"provider", "tool"}
CallKinds  == SideEffects \cup {"read", "unattended"}
OpenCall   == {"created", "running"}
CallStates == {"absent", "completed", "failed", "unknown"} \cup OpenCall
OpenIntent == {"pending", "queued", "running"}
IntentStates == {"absent", "completed", "failed", "fenced"} \cup OpenIntent
EffectStates == {"not_started", "started", "settled", "unknown"}

VARIABLES
    job,       \* domain_jobs: state, generation, and the generation of the Attempt
               \*   authoritative_attempt_id names (0 when it is NULL)
    attempt,   \* domain_attempts: state and the authoritative flag
    executor,  \* domain_executors: the state of an Attempt's Executor
    call,      \* domain_calls: state, Attempt, kind, response
    intent,    \* domain_dispatch_intents: state and effect_state, one per Call
    deps,      \* domain_job_dependencies: <<job, prerequisite>> edges
    binding,   \* domain_job_bindings: the Attempt a session key is bound to
    evidence   \* domain_result_evidence: late results that were refused

vars == <<job, attempt, executor, call, intent, deps, binding, evidence>>

JobRecord == [state: JobStates, generation: 0..MaxGeneration, authority: 0..MaxGeneration]
AttemptRecord == [state: AttemptStates, authoritative: BOOLEAN]
CallRecord == [state: CallStates, attempt: Attempts \cup {NoAttempt}, kind: CallKinds,
               response: Responses \cup {NoResponse}]
IntentRecord == [state: IntentStates, effect: EffectStates]
\* attempt_id is NOT NULL and a foreign key: every Call row names an Attempt.
CallTable == {calls \in [Calls -> CallRecord] :
                 \A c \in Calls : calls[c].state # "absent" => calls[c].attempt \in Attempts}

TypeOK ==
    /\ job \in [Jobs -> JobRecord]
    /\ attempt \in [Attempts -> AttemptRecord]
    /\ executor \in [Attempts -> ExecutorStates]
    /\ call \in CallTable
    /\ intent \in [Calls -> IntentRecord]
    /\ deps \subseteq Jobs \X Jobs
    /\ binding \in [Keys -> Attempts \cup {NoAttempt}]
    /\ evidence \subseteq Calls \X Responses

Init ==
    /\ job = [j \in Jobs |-> [state |-> "absent", generation |-> 0, authority |-> 0]]
    /\ attempt = [a \in Attempts |-> [state |-> "absent", authoritative |-> FALSE]]
    /\ executor = [a \in Attempts |-> "absent"]
    /\ call = [c \in Calls |-> [state |-> "absent", attempt |-> NoAttempt,
                                kind |-> "provider", response |-> NoResponse]]
    /\ intent = [c \in Calls |-> [state |-> "absent", effect |-> "not_started"]]
    /\ deps = {}
    /\ binding = [k \in Keys |-> NoAttempt]
    /\ evidence = {}

------------------------------------------------------------------------------
(* What the SQL predicates of the source read. *)

Exists(j) == job[j].state # "absent"

\* "authoritative=1 AND authoritative_attempt_id=a.id": the flag and the Job agree.
HoldsAuthority(a) == attempt[a].authoritative /\ job[a[1]].authority = a[2]

\* The fence every mutation repeats: the Attempt may still act.
MayExecute(a) == HoldsAuthority(a) /\ attempt[a].state \in Executable

PrerequisitesOf(j) == {p \in Jobs : <<j, p>> \in deps}

DependenciesSatisfied(j) == \A p \in PrerequisitesOf(j) : job[p].state = "completed"

\* A set of Jobs closed under "is a prerequisite of", and the least such set that
\* holds p: what WITH RECURSIVE computes from p.
ClosedUnder(E, S)  == \A e \in E : e[1] \in S => e[2] \in S
ReachableFrom(E, p) == {q \in Jobs : \A S \in SUBSET Jobs :
                                        p \in S /\ ClosedUnder(E, S) => q \in S}

\* Plausible bug: the generation advances for the first Attempt only.
NextGenerationOnce(j) == IF job[j].generation = 0 THEN 1 ELSE job[j].generation

\* The generation a new Attempt of j gets; one more Attempt must be within the bound.
NextGeneration(j) == job[j].generation + 1

------------------------------------------------------------------------------
(* Publishing Jobs and Attempts. *)

\* INSERT a queued authoritative Attempt with a ready Executor and link the Job to it.
PublishAttempt(j) ==
    LET g == NextGeneration(j)
    IN  /\ g <= MaxGeneration
        /\ job' = [job EXCEPT ![j] = [state |-> "running", generation |-> g, authority |-> g]]
        /\ attempt' = [attempt EXCEPT ![<<j, g>>] = [state |-> "queued", authoritative |-> TRUE]]
        /\ executor' = [executor EXCEPT ![<<j, g>>] = "ready"]

PendingJob == [state |-> "pending", generation |-> 0, authority |-> 0]

CreateJob(j) ==
    /\ ~Exists(j)
    /\ job' = [job EXCEPT ![j] = PendingJob]
    /\ UNCHANGED <<attempt, executor, call, intent, deps, binding, evidence>>

\* A fresh Job cannot be reached from its own prerequisites, so the cycle check of the
\* source never refuses here.
CreateChildJob(parent, j, prerequisites) ==
    /\ MayExecute(parent)
    /\ ~Exists(j)
    /\ \A p \in prerequisites : Exists(p)
    /\ job' = [job EXCEPT ![j] = PendingJob]
    /\ deps' = deps \cup ({j} \X prerequisites)
    /\ UNCHANGED <<attempt, executor, call, intent, binding, evidence>>

AdmitChild(parent, j, prerequisites) ==
    /\ MayExecute(parent)
    /\ ~Exists(j)
    /\ \A p \in prerequisites : job[p].state = "completed"
    /\ PublishAttempt(j)
    /\ deps' = deps \cup ({j} \X prerequisites)
    /\ UNCHANGED <<call, intent, binding, evidence>>

\* Admission under a key that is already bound returns the bound Attempt and writes
\* nothing, so only the first admission is a step.
AdmitJob(k, j) ==
    /\ binding[k] = NoAttempt
    /\ ~Exists(j)
    /\ PublishAttempt(j)
    /\ binding' = [binding EXCEPT ![k] = <<j, 1>>]
    /\ UNCHANGED <<call, intent, deps, evidence>>

\* job_id is UNIQUE in the bindings, so a Job already bound under another key is refused.
BindAttempt(k, a) ==
    /\ MayExecute(a)
    /\ binding[k] = NoAttempt
    /\ \A other \in Keys : binding[other] # NoAttempt => binding[other][1] # a[1]
    /\ binding' = [binding EXCEPT ![k] = a]
    /\ UNCHANGED <<job, attempt, executor, call, intent, deps, evidence>>

\* Plausible bug: no check that the Job has not started.
SetDependencyAnyTime(j, p) ==
    /\ j # p /\ Exists(j) /\ Exists(p)
    /\ j \notin ReachableFrom(deps, p)
    /\ deps' = deps \cup {<<j, p>>}
    /\ UNCHANGED <<job, attempt, executor, call, intent, binding, evidence>>

\* Plausible bug: the cycle check looks one edge deep.
SetDependencyShallow(j, p) ==
    /\ j # p
    /\ job[j].state \in {"pending", "eligible"} /\ job[j].authority = 0
    /\ Exists(p)
    /\ <<p, j>> \notin deps
    /\ deps' = deps \cup {<<j, p>>}
    /\ UNCHANGED <<job, attempt, executor, call, intent, binding, evidence>>

SetDependency(j, p) ==
    /\ j # p
    /\ job[j].state \in {"pending", "eligible"} /\ job[j].authority = 0
    /\ Exists(p)
    /\ j \notin ReachableFrom(deps, p)
    /\ deps' = deps \cup {<<j, p>>}
    /\ UNCHANGED <<job, attempt, executor, call, intent, binding, evidence>>

RemoveDependency(j, p) ==
    /\ <<j, p>> \in deps
    /\ deps' = deps \ {<<j, p>>}
    /\ UNCHANGED <<job, attempt, executor, call, intent, binding, evidence>>

SetJobEligible(j) ==
    /\ job[j].state = "pending" /\ job[j].authority = 0
    /\ job' = [job EXCEPT ![j].state = "eligible"]
    /\ UNCHANGED <<attempt, executor, call, intent, deps, binding, evidence>>

\* A pending Job is first made eligible in the same transaction.
DispatchJob(j) ==
    /\ job[j].state \in {"pending", "eligible"} /\ job[j].authority = 0
    /\ DependenciesSatisfied(j)
    /\ PublishAttempt(j)
    /\ UNCHANGED <<call, intent, deps, binding, evidence>>

------------------------------------------------------------------------------
(* Ending the work of an Attempt: its open intents are fenced, an effect that *)
(* had started becomes unknown, and its open Calls become unknown.            *)

\* Plausible bug: the intent state is written in the effect column.
IndeterminateFenced(effect) == IF effect = "started" THEN "fenced" ELSE effect

Indeterminate(effect) == IF effect = "started" THEN "unknown" ELSE effect

FenceIntents(calls, intents, a) ==
    [c \in Calls |-> IF calls[c].attempt = a /\ intents[c].state \in OpenIntent
                     THEN [state |-> "fenced", effect |-> Indeterminate(intents[c].effect)]
                     ELSE intents[c]]

\* Plausible bug: a Call that no worker has claimed needs no end.
AbandonClaimedCalls(calls, a) ==
    [c \in Calls |-> IF calls[c].attempt = a /\ calls[c].state = "running"
                     THEN [calls[c] EXCEPT !.state = "unknown"]
                     ELSE calls[c]]

AbandonCalls(calls, a) ==
    [c \in Calls |-> IF calls[c].attempt = a /\ calls[c].state \in OpenCall
                     THEN [calls[c] EXCEPT !.state = "unknown"]
                     ELSE calls[c]]

\* Plausible bug: a finished Job may be replaced.
ReplaceableAlways(j) == Exists(j)

Replaceable(j) == Exists(j) /\ job[j].state \notin {"completed", "cancelled"}

\* Plausible bug: the replaced Attempt keeps its authoritative flag.
RevokeNothing(old) == attempt

\* An Attempt that is cancelling has lost the flag already and keeps its state.
Revoke(old) == [a \in Attempts |-> IF a = old /\ attempt[a].authoritative
                                   THEN [state |-> "failed", authoritative |-> FALSE]
                                   ELSE attempt[a]]

\* replace_attempt_checked: fence the Attempt the Job names, if any, and publish the
\* next generation.  A caller that expects another Attempt than the one named is refused.
ReplaceAttempt(j) ==
    LET g   == NextGeneration(j)
        old == <<j, job[j].authority>>
    IN  /\ Replaceable(j) /\ DependenciesSatisfied(j)
        /\ g <= MaxGeneration
        /\ job' = [job EXCEPT ![j] = [state |-> "running", generation |-> g, authority |-> g]]
        /\ attempt' = [Revoke(old) EXCEPT
                         ![<<j, g>>] = [state |-> "queued", authoritative |-> TRUE]]
        /\ executor' = [a \in Attempts |-> IF a = <<j, g>> THEN "ready"
                                            ELSE IF a = old THEN "fenced" ELSE executor[a]]
        /\ intent' = FenceIntents(call, intent, old)
        /\ call' = AbandonCalls(call, old)
        /\ UNCHANGED <<deps, binding, evidence>>

MarkAttemptRunning(a) ==
    /\ attempt[a].authoritative /\ attempt[a].state \in Executable
    /\ attempt' = [attempt EXCEPT ![a].state = "running"]
    /\ UNCHANGED <<job, executor, call, intent, deps, binding, evidence>>

\* A known failure of a native tool, which the provider may correct.
ObservedFailure(calls, intents, c) ==
    /\ calls[c].state = "failed" /\ calls[c].kind # "provider"
    /\ intents[c] = [state |-> "failed", effect |-> "settled"]

\* Plausible bug: any failed tool Call counts as an observed failure.
MayCompleteAfterAnyFailure(calls, intents, a) ==
    \A c \in Calls : calls[c].attempt = a =>
       calls[c].state = "completed" \/ (calls[c].state = "failed" /\ calls[c].kind # "provider")

\* What an Attempt needs to be completed: every Call settled.
MayComplete(calls, intents, a) ==
    LET mine == {c \in Calls : calls[c].attempt = a}
    IN  \A c \in mine :
           \/ calls[c].state = "completed"
           \/ /\ ObservedFailure(calls, intents, c)
              /\ \E p \in mine : calls[p].state = "completed" /\ calls[p].kind = "provider"

\* Plausible bug: the Job follows any Attempt that ends, also one it no longer names.
EndAttemptUnlinked(calls, intents, a, state) ==
    /\ state = "completed" => MayComplete(calls, intents, a)
    /\ intent' = FenceIntents(calls, intents, a)
    /\ call' = AbandonCalls(calls, a)
    /\ executor' = [executor EXCEPT ![a] = state]
    /\ attempt' = [attempt EXCEPT ![a] = [state |-> state, authoritative |-> FALSE]]
    /\ job' = [job EXCEPT ![a[1]].state = state, ![a[1]].authority = 0]

\* The terminal half of finish_attempt_in, over the calls and intents this transaction
\* has reached.  Only a Job that still names the Attempt follows it.
EndAttempt(calls, intents, a, state) ==
    /\ state = "completed" => MayComplete(calls, intents, a)
    /\ intent' = FenceIntents(calls, intents, a)
    /\ call' = AbandonCalls(calls, a)
    /\ executor' = [executor EXCEPT ![a] = state]
    /\ attempt' = [attempt EXCEPT ![a] = [state |-> state, authoritative |-> FALSE]]
    /\ job' = IF job[a[1]].authority = a[2]
              THEN [job EXCEPT ![a[1]].state = state, ![a[1]].authority = 0]
              ELSE job

FinishAttempt(a, succeeded) ==
    /\ HoldsAuthority(a) /\ attempt[a].state \in Unfinished
    /\ EndAttempt(call, intent, a, IF succeeded THEN "completed" ELSE "failed")
    /\ UNCHANGED <<deps, binding, evidence>>

\* Restart recovery ends an Attempt whose external effect it cannot know.
AbandonAttempt(a) ==
    /\ MayExecute(a)
    /\ EndAttempt(call, intent, a, "unknown")
    /\ UNCHANGED <<deps, binding, evidence>>

\* First phase of cancellation: revoke the authority, keep the Job's link.
RequestCancel(a) ==
    /\ MayExecute(a)
    /\ attempt' = [attempt EXCEPT ![a] = [state |-> "cancelling", authoritative |-> FALSE]]
    /\ job' = [job EXCEPT ![a[1]].state = "cancelling"]
    /\ UNCHANGED <<executor, call, intent, deps, binding, evidence>>

\* Second phase: confirm_cancel(stopped) or mark_orphaned.
SettleCancel(a, outcome) ==
    /\ attempt[a].state = "cancelling"
    /\ EndAttempt(call, intent, a, outcome)
    /\ UNCHANGED <<deps, binding, evidence>>

------------------------------------------------------------------------------
(* Calls and their dispatch intents. *)

\* Side effects are fenced, an Executor that is named must be ready, and a read-only Call
\* that names none needs nothing but an Attempt, which may have ended.  A side effect that
\* names none is created like one that does: who may execute has a ready Executor.
CreateCall(c, a, kind) ==
    /\ call[c].state = "absent"
    /\ attempt[a].state # "absent"
    /\ kind \in SideEffects => MayExecute(a)
    /\ kind # "unattended" => executor[a] = "ready"
    /\ call' = [call EXCEPT ![c] = [state |-> "created", attempt |-> a, kind |-> kind,
                                    response |-> NoResponse]]
    /\ intent' = [intent EXCEPT ![c] = [state |-> "pending", effect |-> "not_started"]]
    /\ UNCHANGED <<job, attempt, executor, deps, binding, evidence>>

MarkDispatchQueued(c) ==
    /\ intent[c].state \in {"pending", "queued"}
    /\ intent' = [intent EXCEPT ![c].state = "queued"]
    /\ UNCHANGED <<job, attempt, executor, call, deps, binding, evidence>>

\* finish_dispatch_intent as admit_call uses it: the bounded queue refused the envelope,
\* so no worker can have claimed the Call.  The Call row is not touched.
QueueHandoffFails(c) ==
    /\ intent[c].state = "queued"
    /\ intent' = [intent EXCEPT ![c] = [state |-> "failed", effect |-> "not_started"]]
    /\ UNCHANGED <<job, attempt, executor, call, deps, binding, evidence>>

\* Plausible bug: the claim moves only an intent that was queued.
ClaimCallIfQueued(c) ==
    /\ call[c].state = "created"
    /\ MayExecute(call[c].attempt)
    /\ call' = [call EXCEPT ![c].state = "running"]
    /\ intent' = IF intent[c].state = "queued"
                 THEN [intent EXCEPT ![c] = [state |-> "running", effect |-> "started"]]
                 ELSE intent
    /\ UNCHANGED <<job, attempt, executor, deps, binding, evidence>>

ClaimCall(c) ==
    /\ call[c].state = "created"
    /\ MayExecute(call[c].attempt)
    /\ call' = [call EXCEPT ![c].state = "running"]
    /\ intent' = IF intent[c].state \in {"pending", "queued"}
                 THEN [intent EXCEPT ![c] = [state |-> "running", effect |-> "started"]]
                 ELSE intent
    /\ UNCHANGED <<job, attempt, executor, deps, binding, evidence>>

CallCompleted(c, r)   == [call EXCEPT ![c].state = "completed", ![c].response = r]
IntentSettled(c, state) == IF intent[c].state \in OpenIntent
                           THEN [intent EXCEPT ![c] = [state |-> state, effect |-> "settled"]]
                           ELSE intent

FinishCall(c, r) ==
    /\ call[c].state = "running"
    /\ MayExecute(call[c].attempt)
    /\ call' = CallCompleted(c, r)
    /\ intent' = IntentSettled(c, "completed")
    /\ UNCHANGED <<job, attempt, executor, deps, binding, evidence>>

\* Plausible bug: a failure always means that the effect did not happen.
FailCallForgettingEffect(c) ==
    /\ call[c].state \in OpenCall
    /\ MayExecute(call[c].attempt)
    /\ call' = [call EXCEPT ![c].state = "failed"]
    /\ intent' = IF intent[c].state \in OpenIntent
                 THEN [intent EXCEPT ![c] = [state |-> "failed", effect |-> "not_started"]]
                 ELSE intent
    /\ UNCHANGED <<job, attempt, executor, deps, binding, evidence>>

\* fail_call and fail_unclaimed_call; the latter only when the Call is still created.
FailCall(c) ==
    /\ call[c].state \in OpenCall
    /\ MayExecute(call[c].attempt)
    /\ call' = [call EXCEPT ![c].state = "failed"]
    /\ intent' = IF intent[c].state \in OpenIntent
                 THEN [intent EXCEPT ![c] =
                         [state  |-> "failed",
                          effect |-> IF @.effect = "started" THEN "unknown" ELSE "not_started"]]
                 ELSE intent
    /\ UNCHANGED <<job, attempt, executor, deps, binding, evidence>>

FailNativeToolCall(c, r) ==
    /\ call[c].kind # "provider" /\ call[c].state = "running"
    /\ intent[c] = [state |-> "running", effect |-> "started"]
    /\ MayExecute(call[c].attempt)
    /\ call' = [call EXCEPT ![c].state = "failed", ![c].response = r]
    /\ intent' = IntentSettled(c, "failed")
    /\ UNCHANGED <<job, attempt, executor, deps, binding, evidence>>

\* Reconciliation of an intent whose Attempt lost its authority, recovery of one whose
\* effect is unknown, and the tool worker that cannot prove an outcome.
FenceDispatchIntent(c) ==
    /\ intent[c].state \in OpenIntent \/ call[c].state \in OpenCall
    /\ intent' = IF intent[c].state \in OpenIntent
                 THEN [intent EXCEPT ![c] = [state |-> "fenced", effect |-> "unknown"]]
                 ELSE intent
    /\ call' = IF call[c].state \in OpenCall
               THEN [call EXCEPT ![c].state = "unknown"]
               ELSE call
    /\ UNCHANGED <<job, attempt, executor, deps, binding, evidence>>

------------------------------------------------------------------------------
(* deliver_result: an Executor reports a result with a witness of its identity, which no *)
(* witness of a Call without an Executor matches.                                        *)

Witnessed(c) == call[c].state # "absent" /\ call[c].kind # "unattended"
DuplicateResult(c, r) == call[c].state = "completed" /\ call[c].response = r
\* Plausible bug: a result revives a Call whose outcome was unknown.
AcceptsResultAfterFence(c) ==
    call[c].state \in {"running", "unknown"} /\ MayExecute(call[c].attempt)

AcceptsResult(c) == call[c].state = "running" /\ MayExecute(call[c].attempt)

\* Refused, and kept as evidence.
DeliverLate(c, r) ==
    /\ Witnessed(c)
    /\ ~DuplicateResult(c, r) /\ ~AcceptsResult(c)
    /\ evidence' = evidence \cup {<<c, r>>}
    /\ UNCHANGED <<job, attempt, executor, call, intent, deps, binding>>

\* Accepted: the Call completes and its Attempt ends in the same transaction.  An
\* Attempt that may not complete refuses both.
DeliverAuthoritative(c, r, succeeded) ==
    /\ Witnessed(c) /\ AcceptsResult(c)
    /\ EndAttempt(CallCompleted(c, r), IntentSettled(c, "completed"), call[c].attempt,
                  IF succeeded THEN "completed" ELSE "failed")
    /\ UNCHANGED <<deps, binding, evidence>>

\* Redelivered while the Attempt may still act: only the Attempt ends.
DeliverDuplicate(c, r, succeeded) ==
    /\ Witnessed(c) /\ DuplicateResult(c, r)
    /\ MayExecute(call[c].attempt)
    /\ EndAttempt(call, intent, call[c].attempt, IF succeeded THEN "completed" ELSE "failed")
    /\ UNCHANGED <<deps, binding, evidence>>

------------------------------------------------------------------------------
JobStep ==
    \/ \E j \in Jobs : CreateJob(j) \/ SetJobEligible(j) \/ DispatchJob(j) \/ ReplaceAttempt(j)
    \/ \E j, p \in Jobs : SetDependency(j, p) \/ RemoveDependency(j, p)
    \/ \E a \in Attempts, j \in Jobs, P \in SUBSET Jobs :
          CreateChildJob(a, j, P) \/ AdmitChild(a, j, P)
    \/ \E k \in Keys, j \in Jobs : AdmitJob(k, j)
    \/ \E k \in Keys, a \in Attempts : BindAttempt(k, a)

AttemptStep ==
    \E a \in Attempts :
       \/ MarkAttemptRunning(a) \/ RequestCancel(a) \/ AbandonAttempt(a)
       \/ \E outcome \in {"cancelled", "unknown", "orphaned"} : SettleCancel(a, outcome)
       \/ \E succeeded \in BOOLEAN : FinishAttempt(a, succeeded)

CallStep ==
    \E c \in Calls :
       \/ MarkDispatchQueued(c) \/ QueueHandoffFails(c) \/ ClaimCall(c)
       \/ FailCall(c) \/ FenceDispatchIntent(c)
       \/ \E a \in Attempts, kind \in CallKinds : CreateCall(c, a, kind)
       \/ \E r \in Responses : FinishCall(c, r) \/ FailNativeToolCall(c, r) \/ DeliverLate(c, r)
       \/ \E r \in Responses, succeeded \in BOOLEAN :
             DeliverAuthoritative(c, r, succeeded) \/ DeliverDuplicate(c, r, succeeded)

Next == JobStep \/ AttemptStep \/ CallStep

Spec == Init /\ [][Next]_vars

------------------------------------------------------------------------------
(* Properties. *)

\* At most one Attempt of a Job may act, and exactly when the Job names it: the flag of
\* the Attempt, the link of the Job and both states agree across dispatch, admission,
\* replacement, cancellation and every way an Attempt ends.
SoleAuthority ==
    /\ \A a \in Attempts : attempt[a].authoritative =>
          /\ attempt[a].state \in Executable
          /\ job[a[1]].state = "running" /\ job[a[1]].authority = a[2]
    /\ \A j \in Jobs :
          /\ job[j].state = "running" => job[j].authority # 0
          /\ job[j].authority # 0 =>
                \/ job[j].state = "running" /\ attempt[<<j, job[j].authority>>].authoritative
                \/ /\ job[j].state = "cancelling"
                   /\ attempt[<<j, job[j].authority>>].state = "cancelling"

\* A Job tells the story of its latest generation and of no other: an Attempt that was
\* replaced, however late it is settled, never decides the Job, and an outcome of the
\* latest Attempt is never lost.
JobFollowsLatestAttempt ==
    \A j \in Jobs :
       LET g == job[j].generation
       IN  IF g = 0 THEN job[j].state \in {"absent", "pending", "eligible"}
           ELSE job[j].state = (IF attempt[<<j, g>>].state \in Executable THEN "running"
                                ELSE attempt[<<j, g>>].state)

\* A read-only Call that names no Executor and that nobody has claimed: nothing keeps one
\* from being created for an Attempt that has ended.
Unclaimed(c) ==
    call[c].kind = "unattended" /\ call[c].state = "created" /\ intent[c].effect = "not_started"

\* Nothing an ended Attempt left behind can still be requeued by recovery or run: its Calls
\* and intents are closed and its Executor takes no new Call.  What may be open is a
\* read-only Call without an Executor, and of that nothing has begun.
EndedAttemptsHoldNoWork ==
    /\ \A c \in Calls :
          call[c].state \in OpenCall \/ intent[c].state \in OpenIntent =>
             attempt[call[c].attempt].state \in Unfinished \/ Unclaimed(c)
    /\ \A a \in Attempts : executor[a] = "ready" => attempt[a].state \in Unfinished

\* The dispatch intent is what restart recovery reads: while it is open it must say
\* exactly whether the external effect of its Call may have begun.
OpenIntentMatchesCall ==
    \A c \in Calls : intent[c].state \in OpenIntent =>
       IF intent[c].state = "running"
       THEN call[c].state = "running" /\ intent[c].effect = "started"
       ELSE call[c].state = "created" /\ intent[c].effect = "not_started"

\* A read-only Call without an Executor, as it may come after its Attempt has ended: it
\* waits, or a fence has closed it.
Stray(c) == call[c].kind = "unattended" /\ call[c].state \in {"created", "unknown"}

\* No Call of a completed Attempt runs or has failed in the framework, and none but a stray
\* one is open or unknown; a failed tool is excused only by a provider Call that completed.
CompletedWorkIsSettled ==
    \A a \in Attempts : attempt[a].state = "completed" =>
       \A c \in Calls : call[c].attempt = a /\ call[c].state # "completed" =>
          \/ Stray(c)
          \/ /\ call[c].state = "failed" /\ call[c].kind # "provider"
             /\ intent[c].effect = "settled"
             /\ \E p \in Calls : /\ call[p].attempt = a /\ call[p].kind = "provider"
                                /\ call[p].state = "completed"

\* A Job that has ever had an Attempt has all its prerequisites completed, whatever was
\* added to or removed from the graph before and after it started.
PrerequisitesHeld ==
    \A e \in deps : job[e[1]].generation > 0 => job[e[2]].state = "completed"

\* No Job is, through any chain of prerequisites, its own prerequisite.
AcyclicDependencies ==
    \A e \in deps : e[1] \notin ReachableFrom(deps, e[2])

\* Authority that was revoked (replaced, cancelled, ended) is never held again by the
\* same Attempt: a stale worker stays stale.
AuthorityNeverReturns ==
    [][\A a \in Attempts : attempt[a].state # "absent" /\ ~attempt[a].authoritative
          => ~attempt'[a].authoritative]_vars

\* A completed or cancelled Job never changes again, also when an Attempt of it that
\* was replaced while cancelling is settled later.
FinishedJobsAreFinal ==
    [][\A j \in Jobs : job[j].state \in {"completed", "cancelled"} => job'[j] = job[j]]_vars

\* A Call that reached an outcome keeps it: no late, duplicated or reordered result,
\* fence or failure rewrites what was recorded.
SettledCallsAreFinal ==
    [][\A c \in Calls : call[c].state \in {"completed", "failed", "unknown"}
          => call'[c] = call[c]]_vars

\* Once the effect of a Call may have begun the intent never says again that it has
\* not, so recovery never starts the same effect twice; and a final effect stays.
EffectBeginsOnce ==
    [][\A c \in Calls :
          /\ intent[c].effect # "not_started" => intent'[c].effect # "not_started"
          /\ intent[c].effect \in {"settled", "unknown"} => intent'[c].effect = intent[c].effect]_vars

\* What is over stays as it ended: revoked authority, finished Jobs, settled Calls and
\* begun effects keep their recorded outcome through every restart, repeat and late result.
OutcomesAreFinal ==
    AuthorityNeverReturns /\ FinishedJobsAreFinal /\ SettledCallsAreFinal /\ EffectBeginsOnce
------------------------------------------------------------------------------
(* The inductive invariant the proofs of these properties rest on. *)

\* All that is known of one Job: its generations are issued in order, only the latest
\* may be alive, and the Job's state and link are functions of that Attempt's state.
JobSlot(j) ==
    LET g == job[j].generation
        latest == attempt[<<j, g>>]
    IN  /\ g = 0 => /\ job[j].state \in {"absent", "pending", "eligible"}
                   /\ job[j].authority = 0
        /\ g > 0 => /\ latest.state # "absent"
                   /\ latest.authoritative = (latest.state \in Executable)
                   /\ job[j].state = (IF latest.state \in Executable THEN "running"
                                      ELSE latest.state)
                   /\ job[j].authority = (IF latest.state \in Unfinished THEN g ELSE 0)
        /\ \A h \in Generations :
              /\ h > g => attempt[<<j, h>>] = [state |-> "absent", authoritative |-> FALSE]
              /\ h < g => /\ ~attempt[<<j, h>>].authoritative
                         /\ attempt[<<j, h>>].state \in Ended \cup {"cancelling"}

JobSlots == \A j \in Jobs : JobSlot(j)

\* Edges join Jobs that exist, so a Job that is created has none.
EdgesJoinJobs == \A e \in deps : Exists(e[1]) /\ Exists(e[2])

\* All that is known of one Call: without a row it has no intent, an open intent says how
\* far the Call is, and whatever is open belongs to an Attempt that has not ended, or is a
\* read-only Call without an Executor that has not begun.
CallSlot(c) ==
    /\ call[c].state = "absent" => intent[c] = [state |-> "absent", effect |-> "not_started"]
    /\ intent[c].state \in {"pending", "queued"} =>
          call[c].state = "created" /\ intent[c].effect = "not_started"
    /\ intent[c].state = "running" => call[c].state = "running" /\ intent[c].effect = "started"
    /\ call[c].state \in OpenCall =>
          attempt[call[c].attempt].state \in Unfinished \/ Unclaimed(c)

\* An Executor that takes Calls belongs to an Attempt that has not ended.
ReadyExecutors == \A a \in Attempts : executor[a] = "ready" => attempt[a].state \in Unfinished

WorkSlots == ReadyExecutors /\ \A c \in Calls : CallSlot(c)

Inv == /\ TypeOK /\ JobSlots /\ WorkSlots /\ CompletedWorkIsSettled
       /\ EdgesJoinJobs /\ PrerequisitesHeld /\ AcyclicDependencies

==============================================================================
