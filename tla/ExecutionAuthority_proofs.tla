---------------------- MODULE ExecutionAuthority_proofs ----------------------
(***************************************************************************)
(* Proofs about ExecutionAuthority, for any values of its constants: who   *)
(* may act for a Job; what becomes of Calls, dispatch intents and          *)
(* Executors; that what is over stays as it ended; and that no Job starts  *)
(* before its prerequisites or waits for itself.                           *)
(***************************************************************************)
EXTENDS ExecutionAuthority, TLAPS

------------------------------------------------------------------------------
(* Type correctness. *)

\* Publishing an Attempt keeps the Job, Attempt and Executor tables well formed.
LEMMA PublishAttemptType ==
    ASSUME TypeOK, NEW j \in Jobs, PublishAttempt(j)
    PROVE  /\ job' \in [Jobs -> JobRecord]
           /\ attempt' \in [Attempts -> AttemptRecord]
           /\ executor' \in [Attempts -> ExecutorStates]
<1> DEFINE g == NextGeneration(j)
<1>1. g \in 1..MaxGeneration /\ g \in 0..MaxGeneration
  BY ConstantsAssumption DEF TypeOK, PublishAttempt, NextGeneration, JobRecord
<1>2. <<j, g>> \in Attempts
  BY <1>1 DEF Attempts, Generations
<1>3. [state |-> "running", generation |-> g, authority |-> g] \in JobRecord
  BY <1>1 DEF JobRecord, JobStates
<1>4. [state |-> "queued", authoritative |-> TRUE] \in AttemptRecord
  BY DEF AttemptRecord, AttemptStates, Unfinished
<1>5. "ready" \in ExecutorStates
  BY DEF ExecutorStates
<1> QED
  BY <1>2, <1>3, <1>4, <1>5 DEF TypeOK, PublishAttempt

\* Fencing intents keeps the intent table well formed, whatever Calls they belong to.
LEMMA FenceIntentsType ==
    ASSUME NEW calls, NEW intents \in [Calls -> IntentRecord], NEW a
    PROVE  FenceIntents(calls, intents, a) \in [Calls -> IntentRecord]
BY DEF FenceIntents, Indeterminate, IntentRecord, IntentStates, EffectStates

\* Abandoning Calls keeps the Call table well formed.
LEMMA AbandonCallsType ==
    ASSUME NEW calls \in CallTable, NEW a
    PROVE  AbandonCalls(calls, a) \in CallTable
<1> DEFINE new == AbandonCalls(calls, a)
<1>1. ASSUME NEW c \in Calls
      PROVE  new[c] \in CallRecord /\ (new[c].state # "absent" => new[c].attempt \in Attempts)
  <2>1. [calls[c] EXCEPT !.state = "unknown"] \in CallRecord
    BY DEF CallTable, CallRecord, CallStates
  <2>2. [calls[c] EXCEPT !.state = "unknown"].attempt = calls[c].attempt
    BY DEF CallTable, CallRecord
  <2>3. calls[c].state \in OpenCall => calls[c].attempt \in Attempts
    BY DEF CallTable, OpenCall
  <2>4. CASE calls[c].attempt = a /\ calls[c].state \in OpenCall
    BY <2>1, <2>2, <2>3, <2>4 DEF AbandonCalls
  <2>5. CASE ~(calls[c].attempt = a /\ calls[c].state \in OpenCall)
    BY <2>5 DEF AbandonCalls, CallTable
  <2> QED
    BY <2>4, <2>5
<1>2. new \in [Calls -> CallRecord]
  BY <1>1 DEF AbandonCalls
<1>3. ASSUME NEW f \in [Calls -> CallRecord],
             \A c \in Calls : f[c].state # "absent" => f[c].attempt \in Attempts
      PROVE  f \in CallTable
  BY <1>3 DEF CallTable
<1> QED
  BY <1>1, <1>2, <1>3

\* A Call row that exists may move to any state and take any response.
LEMMA CallUpdateType ==
    ASSUME NEW calls \in CallTable, NEW c \in Calls, calls[c].state # "absent",
           NEW s \in CallStates, NEW r \in Responses \cup {NoResponse}
    PROVE  /\ [calls EXCEPT ![c].state = s] \in CallTable
           /\ [calls EXCEPT ![c].state = s, ![c].response = r] \in CallTable
<1> DEFINE one == [calls[c] EXCEPT !.state = s]
           two == [calls[c] EXCEPT !.state = s, !.response = r]
<1>1. calls[c] \in CallRecord /\ calls[c].attempt \in Attempts
  BY DEF CallTable
<1>2. one \in CallRecord /\ one.attempt \in Attempts
  BY <1>1 DEF CallRecord
<1>3. two \in CallRecord /\ two.attempt \in Attempts
  BY <1>1 DEF CallRecord
<1>4. /\ [calls EXCEPT ![c].state = s] = [calls EXCEPT ![c] = one]
      /\ [calls EXCEPT ![c].state = s, ![c].response = r] = [calls EXCEPT ![c] = two]
  BY DEF CallTable
<1>5. ASSUME NEW rec \in CallRecord, rec.attempt \in Attempts
      PROVE  [calls EXCEPT ![c] = rec] \in CallTable
  BY <1>5 DEF CallTable
<1> HIDE DEF one, two
<1> QED
  BY <1>2, <1>3, <1>4, <1>5

\* Ending an Attempt keeps every table well formed.
LEMMA EndAttemptType ==
    ASSUME TypeOK, NEW calls \in CallTable, NEW intents \in [Calls -> IntentRecord],
           NEW a \in Attempts, NEW state \in Ended, EndAttempt(calls, intents, a, state)
    PROVE  /\ job' \in [Jobs -> JobRecord]
           /\ attempt' \in [Attempts -> AttemptRecord]
           /\ executor' \in [Attempts -> ExecutorStates]
           /\ call' \in CallTable
           /\ intent' \in [Calls -> IntentRecord]
<1>1. call' \in CallTable /\ intent' \in [Calls -> IntentRecord]
  BY AbandonCallsType, FenceIntentsType DEF EndAttempt
<1>2. a[1] \in Jobs
  BY DEF Attempts
<1>3. state \in JobStates /\ state \in ExecutorStates /\ state \in AttemptStates
  BY DEF Ended, JobStates, ExecutorStates, AttemptStates
<1>4. job' \in [Jobs -> JobRecord]
  BY <1>2, <1>3, ConstantsAssumption DEF EndAttempt, TypeOK, JobRecord
<1>5. attempt' \in [Attempts -> AttemptRecord] /\ executor' \in [Attempts -> ExecutorStates]
  BY <1>3 DEF EndAttempt, TypeOK, AttemptRecord
<1> QED
  BY <1>1, <1>4, <1>5

\* The initial tables are well formed.
LEMMA InitType == Init => TypeOK
<1> SUFFICES ASSUME Init PROVE TypeOK
  OBVIOUS
<1>1. [state |-> "absent", generation |-> 0, authority |-> 0] \in JobRecord
  BY ConstantsAssumption DEF JobRecord, JobStates
<1>2. [state |-> "absent", authoritative |-> FALSE] \in AttemptRecord
  BY DEF AttemptRecord, AttemptStates
<1>3. "absent" \in ExecutorStates
  BY DEF ExecutorStates
<1>4. [state |-> "absent", attempt |-> NoAttempt, kind |-> "provider", response |-> NoResponse]
         \in CallRecord
  BY DEF CallTable, CallRecord, CallStates, CallKinds, SideEffects
<1>5. [state |-> "absent", effect |-> "not_started"] \in IntentRecord
  BY DEF IntentRecord, IntentStates, EffectStates
<1> QED
  BY <1>1, <1>2, <1>3, <1>4, <1>5 DEF Init, TypeOK, CallTable

\* Every operation on Jobs keeps the tables well formed.
LEMMA JobStepType == TypeOK /\ JobStep => TypeOK'
<1> SUFFICES ASSUME TypeOK, JobStep PROVE TypeOK'
  OBVIOUS
<1>0. PendingJob \in JobRecord
  BY ConstantsAssumption DEF PendingJob, JobRecord, JobStates
<1>1. ASSUME NEW j \in Jobs, CreateJob(j) PROVE TypeOK'
  BY <1>0, <1>1 DEF TypeOK, CreateJob
<1>2. ASSUME NEW j \in Jobs, SetJobEligible(j) PROVE TypeOK'
  BY <1>2 DEF TypeOK, SetJobEligible, JobRecord, JobStates
<1>3. ASSUME NEW j \in Jobs, DispatchJob(j) PROVE TypeOK'
  BY <1>3, PublishAttemptType DEF TypeOK, DispatchJob
<1>4. ASSUME NEW j \in Jobs, ReplaceAttempt(j) PROVE TypeOK'
  <2> DEFINE g   == NextGeneration(j)
             old == <<j, job[j].authority>>
  <2>1. g \in 1..MaxGeneration
    BY <1>4, ConstantsAssumption DEF TypeOK, ReplaceAttempt, NextGeneration, JobRecord
  <2>2. [state |-> "running", generation |-> g, authority |-> g] \in JobRecord
    BY <2>1 DEF JobRecord, JobStates
  <2>3. Revoke(old) \in [Attempts -> AttemptRecord]
    BY DEF Revoke, TypeOK, AttemptRecord, AttemptStates, Ended
  <2>4. [state |-> "queued", authoritative |-> TRUE] \in AttemptRecord
    BY DEF AttemptRecord, AttemptStates, Unfinished
  <2>5. "ready" \in ExecutorStates /\ "fenced" \in ExecutorStates
    BY DEF ExecutorStates
  <2>6. call' \in CallTable
    BY <1>4, AbandonCallsType DEF TypeOK, ReplaceAttempt
  <2>7. intent' \in [Calls -> IntentRecord]
    BY <1>4, FenceIntentsType DEF TypeOK, ReplaceAttempt
  <2>8. job' \in [Jobs -> JobRecord]
    BY <1>4, <2>2 DEF TypeOK, ReplaceAttempt
  <2>9. attempt' \in [Attempts -> AttemptRecord]
    BY <1>4, <2>3, <2>4 DEF ReplaceAttempt
  <2>10. executor' \in [Attempts -> ExecutorStates]
    BY <1>4, <2>5 DEF TypeOK, ReplaceAttempt
  <2> QED
    BY <1>4, <2>6, <2>7, <2>8, <2>9, <2>10 DEF TypeOK, ReplaceAttempt
<1>5. ASSUME NEW j \in Jobs, NEW p \in Jobs, SetDependency(j, p) PROVE TypeOK'
  BY <1>5 DEF TypeOK, SetDependency
<1>6. ASSUME NEW j \in Jobs, NEW p \in Jobs, RemoveDependency(j, p) PROVE TypeOK'
  BY <1>6 DEF TypeOK, RemoveDependency
<1>7. ASSUME NEW a \in Attempts, NEW j \in Jobs, NEW P \in SUBSET Jobs, CreateChildJob(a, j, P)
      PROVE  TypeOK'
  BY <1>0, <1>7 DEF TypeOK, CreateChildJob
<1>8. ASSUME NEW a \in Attempts, NEW j \in Jobs, NEW P \in SUBSET Jobs, AdmitChild(a, j, P)
      PROVE  TypeOK'
  BY <1>8, PublishAttemptType DEF TypeOK, AdmitChild
<1>9. ASSUME NEW k \in Keys, NEW j \in Jobs, AdmitJob(k, j) PROVE TypeOK'
  <2>1. NextGeneration(j) \in Nat /\ 1 <= NextGeneration(j)
    BY DEF TypeOK, NextGeneration, JobRecord
  <2>2. <<j, 1>> \in Attempts
    BY <1>9, <2>1, ConstantsAssumption DEF AdmitJob, PublishAttempt, Attempts, Generations
  <2> QED
    BY <1>9, <2>2, PublishAttemptType DEF TypeOK, AdmitJob
<1>10. ASSUME NEW k \in Keys, NEW a \in Attempts, BindAttempt(k, a) PROVE TypeOK'
  BY <1>10 DEF TypeOK, BindAttempt
<1> QED
  BY <1>1, <1>2, <1>3, <1>4, <1>5, <1>6, <1>7, <1>8, <1>9, <1>10 DEF JobStep

\* Every operation on Attempts keeps the tables well formed.
LEMMA AttemptStepType == TypeOK /\ AttemptStep => TypeOK'
<1> SUFFICES ASSUME TypeOK, NEW a \in Attempts,
                    \/ MarkAttemptRunning(a) \/ RequestCancel(a) \/ AbandonAttempt(a)
                    \/ \E outcome \in {"cancelled", "unknown", "orphaned"} :
                          SettleCancel(a, outcome)
                    \/ \E succeeded \in BOOLEAN : FinishAttempt(a, succeeded)
             PROVE  TypeOK'
  BY DEF AttemptStep
<1>0. {"completed", "failed", "cancelled", "unknown", "orphaned"} \subseteq Ended
  BY DEF Ended
<1>1. CASE MarkAttemptRunning(a)
  BY <1>1 DEF TypeOK, MarkAttemptRunning, AttemptRecord, AttemptStates, Unfinished
<1>2. CASE RequestCancel(a)
  <2>1. a[1] \in Jobs
    BY DEF Attempts
  <2> QED
    BY <1>2, <2>1 DEF TypeOK, RequestCancel, AttemptRecord, AttemptStates, Unfinished,
                      JobRecord, JobStates
<1>3. CASE AbandonAttempt(a)
  <2>1. EndAttempt(call, intent, a, "unknown") /\ "unknown" \in Ended
    BY <1>0, <1>3 DEF AbandonAttempt
  <2> QED
    BY <1>3, <2>1, EndAttemptType DEF TypeOK, AbandonAttempt
<1>4. ASSUME NEW outcome \in {"cancelled", "unknown", "orphaned"}, SettleCancel(a, outcome)
      PROVE  TypeOK'
  <2>1. EndAttempt(call, intent, a, outcome) /\ outcome \in Ended
    BY <1>0, <1>4 DEF SettleCancel
  <2> QED
    BY <1>4, <2>1, EndAttemptType DEF TypeOK, SettleCancel
<1>5. ASSUME NEW succeeded \in BOOLEAN, FinishAttempt(a, succeeded) PROVE TypeOK'
  <2> DEFINE s == IF succeeded THEN "completed" ELSE "failed"
  <2>1. EndAttempt(call, intent, a, s) /\ s \in Ended
    BY <1>0, <1>5 DEF FinishAttempt
  <2> HIDE DEF s
  <2> QED
    BY <1>5, <2>1, EndAttemptType DEF TypeOK, FinishAttempt
<1> QED
  BY <1>1, <1>2, <1>3, <1>4, <1>5

\* Completing a Call, and settling its intent, keep both tables well formed.
LEMMA CompletedCallType ==
    ASSUME TypeOK, NEW c \in Calls, NEW r \in Responses, call[c].state # "absent"
    PROVE  /\ CallCompleted(c, r) \in CallTable
           /\ IntentSettled(c, "completed") \in [Calls -> IntentRecord]
           /\ IntentSettled(c, "failed") \in [Calls -> IntentRecord]
<1>1. CallCompleted(c, r) \in CallTable
  BY CallUpdateType DEF TypeOK, CallCompleted, CallStates
<1>2. ASSUME NEW s \in {"completed", "failed"}
      PROVE  IntentSettled(c, s) \in [Calls -> IntentRecord]
  <2>1. [state |-> s, effect |-> "settled"] \in IntentRecord
    BY DEF IntentRecord, IntentStates, EffectStates
  <2> QED
    BY <2>1 DEF TypeOK, IntentSettled
<1> QED
  BY <1>1, <1>2

\* Every operation on Calls keeps the tables well formed.
LEMMA CallStepType == TypeOK /\ CallStep => TypeOK'
<1> SUFFICES ASSUME TypeOK, CallStep PROVE TypeOK'
  OBVIOUS
<1>0. {"pending", "queued", "running", "completed", "failed", "fenced"} \subseteq IntentStates
  BY DEF IntentStates, OpenIntent
<1>1. ASSUME NEW c \in Calls, MarkDispatchQueued(c) PROVE TypeOK'
  BY <1>0, <1>1 DEF TypeOK, MarkDispatchQueued, IntentRecord
<1>2. ASSUME NEW c \in Calls, QueueHandoffFails(c) PROVE TypeOK'
  BY <1>0, <1>2 DEF TypeOK, QueueHandoffFails, IntentRecord, EffectStates
<1>3. ASSUME NEW c \in Calls, ClaimCall(c) PROVE TypeOK'
  <2>1. call' \in CallTable
    BY <1>3, CallUpdateType DEF TypeOK, ClaimCall, CallStates, OpenCall
  <2>2. [state |-> "running", effect |-> "started"] \in IntentRecord
    BY <1>0 DEF IntentRecord, EffectStates
  <2>3. intent' \in [Calls -> IntentRecord]
    BY <1>3, <2>2 DEF TypeOK, ClaimCall
  <2> QED
    BY <1>3, <2>1, <2>3 DEF TypeOK, ClaimCall
<1>4. ASSUME NEW c \in Calls, FailCall(c) PROVE TypeOK'
  <2>1. call' \in CallTable
    BY <1>4, CallUpdateType DEF TypeOK, FailCall, CallStates, OpenCall
  <2>2. \A e \in EffectStates : [state |-> "failed", effect |-> e] \in IntentRecord
    BY <1>0 DEF IntentRecord
  <2>3. intent' \in [Calls -> IntentRecord]
    BY <1>4, <2>2 DEF TypeOK, FailCall, EffectStates
  <2> QED
    BY <1>4, <2>1, <2>3 DEF TypeOK, FailCall
<1>5. ASSUME NEW c \in Calls, FenceDispatchIntent(c) PROVE TypeOK'
  <2>1. call' \in CallTable
    BY <1>5, CallUpdateType DEF TypeOK, FenceDispatchIntent, CallStates, OpenCall
  <2>2. [state |-> "fenced", effect |-> "unknown"] \in IntentRecord
    BY <1>0 DEF IntentRecord, EffectStates
  <2>3. intent' \in [Calls -> IntentRecord]
    BY <1>5, <2>2 DEF TypeOK, FenceDispatchIntent
  <2> QED
    BY <1>5, <2>1, <2>3 DEF TypeOK, FenceDispatchIntent
<1>6. ASSUME NEW c \in Calls, NEW a \in Attempts, NEW kind \in CallKinds, CreateCall(c, a, kind)
      PROVE  TypeOK'
  <2>1. [state |-> "created", attempt |-> a, kind |-> kind, response |-> NoResponse] \in CallRecord
    BY DEF CallTable, CallRecord, CallStates, OpenCall
  <2>2. [state |-> "pending", effect |-> "not_started"] \in IntentRecord
    BY <1>0 DEF IntentRecord, EffectStates
  <2> QED
    BY <1>6, <2>1, <2>2 DEF TypeOK, CreateCall, CallTable
<1>7. ASSUME NEW c \in Calls, NEW r \in Responses, FinishCall(c, r) PROVE TypeOK'
  BY <1>7, CompletedCallType DEF TypeOK, FinishCall
<1>8. ASSUME NEW c \in Calls, NEW r \in Responses, FailNativeToolCall(c, r) PROVE TypeOK'
  <2>1. call' \in CallTable
    BY <1>8, CallUpdateType DEF TypeOK, FailNativeToolCall, CallStates
  <2> QED
    BY <1>8, <2>1, CompletedCallType DEF TypeOK, FailNativeToolCall
<1>9. ASSUME NEW c \in Calls, NEW r \in Responses, DeliverLate(c, r) PROVE TypeOK'
  BY <1>9 DEF TypeOK, DeliverLate
<1>10. ASSUME NEW c \in Calls, NEW r \in Responses, NEW succeeded \in BOOLEAN,
              DeliverAuthoritative(c, r, succeeded) \/ DeliverDuplicate(c, r, succeeded)
       PROVE  TypeOK'
  <2> DEFINE s == IF succeeded THEN "completed" ELSE "failed"
  <2>1. s \in Ended
    BY DEF Ended
  <2>2. call[c].attempt \in Attempts
    BY <1>10 DEF DeliverAuthoritative, DeliverDuplicate, AcceptsResult, DuplicateResult, TypeOK, CallTable
  <2> HIDE DEF s
  <2>3. CASE DeliverAuthoritative(c, r, succeeded)
    <3>1. EndAttempt(CallCompleted(c, r), IntentSettled(c, "completed"), call[c].attempt, s)
      BY <2>3 DEF DeliverAuthoritative, s
    <3>2. /\ CallCompleted(c, r) \in CallTable
          /\ IntentSettled(c, "completed") \in [Calls -> IntentRecord]
      BY <2>3, CompletedCallType DEF DeliverAuthoritative, AcceptsResult
    <3> QED
      BY <2>1, <2>2, <2>3, <3>1, <3>2, EndAttemptType DEF TypeOK, DeliverAuthoritative
  <2>4. CASE DeliverDuplicate(c, r, succeeded)
    <3>1. EndAttempt(call, intent, call[c].attempt, s)
      BY <2>4 DEF DeliverDuplicate, s
    <3> QED
      BY <2>1, <2>2, <2>4, <3>1, EndAttemptType DEF TypeOK, DeliverDuplicate
  <2> QED
    BY <1>10, <2>3, <2>4
<1> QED
  BY <1>1, <1>2, <1>3, <1>4, <1>5, <1>6, <1>7, <1>8, <1>9, <1>10 DEF CallStep
\* Every table of the domain stays well formed: states are known states, generations stay
\* in range, and every Call row names an Attempt.
THEOREM TypeCorrect == Spec => []TypeOK
<1>1. TypeOK /\ [Next]_vars => TypeOK'
  <2>1. TypeOK /\ Next => TypeOK'
    BY JobStepType, AttemptStepType, CallStepType DEF Next
  <2>2. TypeOK /\ UNCHANGED vars => TypeOK'
    BY DEF TypeOK, vars
  <2> QED
    BY <2>1, <2>2
<1> QED
  BY InitType, <1>1, PTL DEF Spec
------------------------------------------------------------------------------
(* Authority. *)

\* What the invariant says of one Attempt of a Job: of a generation to come, ...
LEMMA FutureAttempt ==
    ASSUME JobSlots, NEW j \in Jobs, NEW h \in Generations, h > job[j].generation
    PROVE  attempt[<<j, h>>] = [state |-> "absent", authoritative |-> FALSE]
<1>1. JobSlot(j)
  BY DEF JobSlots
<1> QED
  BY <1>1 DEF JobSlot

\* ... of one that was replaced, ...
LEMMA PastAttempt ==
    ASSUME JobSlots, NEW j \in Jobs, NEW h \in Generations, h < job[j].generation
    PROVE  /\ ~attempt[<<j, h>>].authoritative
           /\ attempt[<<j, h>>].state \in Ended \cup {"cancelling"}
<1>1. JobSlot(j)
  BY DEF JobSlots
<1> QED
  BY <1>1 DEF JobSlot

\* ... and of the latest one.
LEMMA LatestAttempt ==
    ASSUME JobSlots, NEW j \in Jobs, NEW h \in Generations, h = job[j].generation
    PROVE  /\ attempt[<<j, h>>].state # "absent"
           /\ attempt[<<j, h>>].authoritative = (attempt[<<j, h>>].state \in Executable)
           /\ job[j].state = (IF attempt[<<j, h>>].state \in Executable THEN "running"
                              ELSE attempt[<<j, h>>].state)
           /\ job[j].authority = (IF attempt[<<j, h>>].state \in Unfinished THEN h ELSE 0)
<1>1. JobSlot(j) /\ job[j].generation > 0
  BY DEF JobSlots, Generations
<1> QED
  BY <1>1 DEF JobSlot

\* What has to be known of a Job whose latest generation is n after a step.
LEMMA SlotAfter ==
    ASSUME NEW j \in Jobs, NEW n \in Generations, job'[j].generation = n,
           attempt'[<<j, n>>].state # "absent",
           attempt'[<<j, n>>].authoritative = (attempt'[<<j, n>>].state \in Executable),
           job'[j].state = (IF attempt'[<<j, n>>].state \in Executable THEN "running"
                            ELSE attempt'[<<j, n>>].state),
           job'[j].authority = (IF attempt'[<<j, n>>].state \in Unfinished THEN n ELSE 0),
           \A h \in Generations :
              /\ h > n => attempt'[<<j, h>>] = [state |-> "absent", authoritative |-> FALSE]
              /\ h < n => /\ ~attempt'[<<j, h>>].authoritative
                         /\ attempt'[<<j, h>>].state \in Ended \cup {"cancelling"}
    PROVE  JobSlot(j)'
<1>1. n > 0 /\ n # 0
  BY DEF Generations
<1> QED
  BY <1>1 DEF JobSlot

\* What is known of a Job depends on its own row and on its own Attempts only.
LEMMA SlotFrame ==
    ASSUME NEW j \in Jobs, JobSlot(j), job'[j] = job[j], job[j].generation \in 0..MaxGeneration,
           \A h \in Generations : attempt'[<<j, h>>] = attempt[<<j, h>>]
    PROVE  JobSlot(j)'
<1>1. job[j].generation > 0 => job[j].generation \in Generations
  BY ConstantsAssumption DEF Generations
<1> QED
  BY <1>1 DEF JobSlot

\* Publishing a new generation for a Job that names no Attempt.
LEMMA PublishAttemptSlots ==
    ASSUME TypeOK, JobSlots, NEW j \in Jobs, job[j].authority = 0, PublishAttempt(j)
    PROVE  JobSlots'
<1> DEFINE g == job[j].generation
<1>1. g \in 0..MaxGeneration /\ g + 1 \in Generations /\ NextGeneration(j) = g + 1
  BY ConstantsAssumption DEF TypeOK, JobRecord, PublishAttempt, NextGeneration, Generations
<1>2. /\ job'[j] = [state |-> "running", generation |-> g + 1, authority |-> g + 1]
      /\ \A i \in Jobs : i # j => job'[i] = job[i]
  BY <1>1 DEF TypeOK, PublishAttempt
<1>3. /\ attempt'[<<j, g + 1>>] = [state |-> "queued", authoritative |-> TRUE]
      /\ \A i \in Jobs, h \in Generations : <<i, h>> # <<j, g + 1>> =>
            attempt'[<<i, h>>] = attempt[<<i, h>>]
  BY <1>1 DEF TypeOK, PublishAttempt, Attempts
<1>4. ASSUME NEW i \in Jobs, i # j PROVE JobSlot(i)'
  <2>1. job[i].generation \in 0..MaxGeneration
    BY DEF TypeOK, JobRecord
  <2> QED
    BY <1>2, <1>3, <1>4, <2>1, SlotFrame DEF JobSlots
<1>5. JobSlot(j)'
  <2>1. \A h \in Generations : h > g + 1 =>
           attempt'[<<j, h>>] = [state |-> "absent", authoritative |-> FALSE]
    <3>1. ASSUME NEW h \in Generations, h > g + 1
          PROVE  attempt'[<<j, h>>] = attempt[<<j, h>>] /\ h > g
      BY <1>1, <1>3, <3>1 DEF Generations
    <3> QED
      BY <3>1, FutureAttempt
  <2>2. ASSUME NEW h \in Generations, h < g + 1
        PROVE  /\ ~attempt'[<<j, h>>].authoritative
               /\ attempt'[<<j, h>>].state \in Ended \cup {"cancelling"}
    <3>1. attempt'[<<j, h>>] = attempt[<<j, h>>]
      BY <1>1, <1>3, <2>2 DEF Generations
    <3>2. CASE h < g
      BY <3>1, <3>2 DEF JobSlots, JobSlot
    <3>3. CASE h = g
      <4>1. g > 0
        BY <3>3 DEF Generations
      <4>2. attempt[<<j, g>>].state \notin Unfinished /\ attempt[<<j, g>>].state # "absent"
        BY <4>1 DEF JobSlots, JobSlot
      <4>3. attempt[<<j, g>>].state \in Ended
        BY <3>3, <4>2 DEF TypeOK, AttemptRecord, AttemptStates, Attempts
      <4>4. ~attempt[<<j, g>>].authoritative
        BY <4>1, <4>2 DEF JobSlots, JobSlot, Unfinished, Executable
      <4> QED
        BY <3>1, <3>3, <4>3, <4>4
    <3> QED
      BY <1>1, <2>2, <3>2, <3>3 DEF Generations
  <2> QED
    <3> DEFINE n == g + 1
    <3>1. attempt'[<<j, n>>].state = "queued" /\ attempt'[<<j, n>>].authoritative = TRUE
      BY <1>3
    <3>2. job'[j].state = "running" /\ job'[j].generation = n /\ job'[j].authority = n
      BY <1>2
    <3>3. n \in Generations
      BY <1>1
    <3> HIDE DEF n
    <3> QED
      BY <2>1, <2>2, <3>1, <3>2, <3>3, SlotAfter DEF n, Executable, Unfinished
<1> QED
  BY <1>4, <1>5 DEF JobSlots

\* An unfinished Attempt ends: if it is the latest of its Job the Job follows it, and if
\* it was replaced while cancelling the Job is left alone.
LEMMA EndAttemptSlots ==
    ASSUME TypeOK, JobSlots, NEW calls, NEW intents, NEW a \in Attempts, NEW state \in Ended,
           attempt[a].state \in Unfinished, EndAttempt(calls, intents, a, state)
    PROVE  JobSlots'
<1> DEFINE j == a[1]
           g == job[j].generation
<1>1. j \in Jobs /\ a[2] \in Generations /\ a = <<j, a[2]>> /\ g \in 0..MaxGeneration
  BY DEF Attempts, TypeOK, JobRecord
<1>2. /\ attempt'[a] = [state |-> state, authoritative |-> FALSE]
      /\ \A i \in Jobs, h \in Generations : <<i, h>> # a =>
            attempt'[<<i, h>>] = attempt[<<i, h>>]
  BY DEF TypeOK, EndAttempt, Attempts
<1>3. \A i \in Jobs : i # j => job'[i] = job[i]
  BY <1>1 DEF TypeOK, EndAttempt
<1>4. a[2] <= g
  BY <1>1, FutureAttempt DEF Generations, Unfinished
<1>5. ASSUME NEW i \in Jobs, i # j PROVE JobSlot(i)'
  <2>1. job[i].generation \in 0..MaxGeneration
    BY DEF TypeOK, JobRecord
  <2>2. \A h \in Generations : attempt'[<<i, h>>] = attempt[<<i, h>>]
    BY <1>1, <1>2, <1>5
  <2> QED
    BY <1>3, <1>5, <2>1, <2>2, SlotFrame DEF JobSlots
<1>6. JobSlot(j)'
  <2>1. CASE a[2] = g
    <3>1. g > 0 /\ job[j].authority = g
      BY <1>1, <2>1 DEF JobSlots, JobSlot, Generations
    <3>2. job'[j] = [state |-> state, generation |-> g, authority |-> 0]
      BY <1>1, <2>1, <3>1 DEF EndAttempt, TypeOK, JobRecord
    <3>3. \A h \in Generations : h # g => attempt'[<<j, h>>] = attempt[<<j, h>>]
      BY <1>1, <1>2, <2>1
    <3>4. state \notin Executable /\ state \notin Unfinished /\ state # "absent"
      BY DEF Ended, Executable, Unfinished
    <3>5. \A h \in Generations :
             /\ h > g => attempt'[<<j, h>>] = [state |-> "absent", authoritative |-> FALSE]
             /\ h < g => /\ ~attempt'[<<j, h>>].authoritative
                         /\ attempt'[<<j, h>>].state \in Ended \cup {"cancelling"}
      BY <1>1, <3>3, FutureAttempt, PastAttempt DEF Generations
    <3>6. attempt'[<<j, g>>] = [state |-> state, authoritative |-> FALSE]
      BY <1>1, <1>2, <2>1
    <3>7. /\ attempt'[<<j, g>>].state = state
          /\ job'[j].state = state /\ job'[j].generation = g /\ job'[j].authority = 0
      BY <3>2, <3>6
    <3>8. attempt'[<<j, g>>].authoritative = (attempt'[<<j, g>>].state \in Executable)
      <4>1. attempt'[<<j, g>>].authoritative = FALSE
        BY <3>6
      <4>2. (attempt'[<<j, g>>].state \in Executable) = FALSE
        BY <3>4, <3>7
      <4> QED
        BY <4>1, <4>2
    <3>9. g \in Generations
      BY <1>1, <2>1
    <3> HIDE DEF g, j
    <3> QED
      BY <1>1, <3>4, <3>5, <3>7, <3>8, <3>9, SlotAfter
  <2>2. CASE a[2] < g
    <3>1. job[j].authority # a[2]
      <4>1. g > 0 /\ g \in Generations
        BY <1>1, <2>2, ConstantsAssumption DEF Generations
      <4>2. job[j].authority \in {0, g}
        BY <1>1, <4>1, LatestAttempt
      <4> QED
        BY <1>1, <2>2, <4>2 DEF Generations
    <3>2. job'[j] = job[j]
      BY <3>1 DEF EndAttempt
    <3>3. g > 0 /\ g \in Generations /\ attempt'[<<j, g>>] = attempt[<<j, g>>]
      BY <1>1, <1>2, <2>2, ConstantsAssumption DEF Generations
    <3>4. ASSUME NEW h \in Generations
          PROVE  /\ h > g => attempt'[<<j, h>>] = [state |-> "absent", authoritative |-> FALSE]
                 /\ h < g => /\ ~attempt'[<<j, h>>].authoritative
                             /\ attempt'[<<j, h>>].state \in Ended \cup {"cancelling"}
      <4>1. CASE h = a[2]
        BY <1>1, <1>2, <2>2, <4>1 DEF Generations
      <4>2. CASE h # a[2]
        BY <1>1, <1>2, <4>2, FutureAttempt, PastAttempt
      <4> QED
        BY <4>1, <4>2
    <3>5. JobSlot(j)
      BY <1>1 DEF JobSlots
    <3> HIDE DEF g, j
    <3> QED
      BY <1>1, <3>2, <3>3, <3>4, LatestAttempt, SlotAfter DEF g
  <2> QED
    BY <1>1, <1>4, <2>1, <2>2 DEF Generations
<1> QED
  BY <1>5, <1>6 DEF JobSlots

\* A step that touches one Job and its Attempts keeps what is known of the others.
LEMMA OtherSlots ==
    ASSUME TypeOK, JobSlots, NEW j \in Jobs, JobSlot(j)',
           \A i \in Jobs : i # j => job'[i] = job[i],
           \A i \in Jobs, h \in Generations : i # j => attempt'[<<i, h>>] = attempt[<<i, h>>]
    PROVE  JobSlots'
<1>1. ASSUME NEW i \in Jobs, i # j PROVE JobSlot(i)'
  <2>1. job[i].generation \in 0..MaxGeneration
    BY DEF TypeOK, JobRecord
  <2> QED
    BY <1>1, <2>1, SlotFrame DEF JobSlots
<1> QED
  BY <1>1 DEF JobSlots

\* A Job that has no Attempt yet moves between the states before its first one.
LEMMA UnstartedSlots ==
    ASSUME TypeOK, JobSlots, NEW j \in Jobs, NEW state \in {"pending", "eligible"},
           job[j].generation = 0, attempt' = attempt,
           job' = [job EXCEPT ![j] = [state |-> state, generation |-> 0, authority |-> 0]]
    PROVE  JobSlots'
<1>1. job'[j] = [state |-> state, generation |-> 0, authority |-> 0]
  BY DEF TypeOK
<1>2. \A h \in Generations : h > 0 /\ ~(h < 0)
  BY DEF Generations
<1>3. \A h \in Generations : attempt'[<<j, h>>] = [state |-> "absent", authoritative |-> FALSE]
  BY <1>2, FutureAttempt
<1>4. JobSlot(j)'
  BY <1>1, <1>2, <1>3 DEF JobSlot
<1>5. \A i \in Jobs : i # j => job'[i] = job[i]
  BY DEF TypeOK
<1> QED
  BY <1>4, <1>5, OtherSlots

\* A Job that names no Attempt and is in a state before its first one has none.
LEMMA NoGenerationYet ==
    ASSUME TypeOK, JobSlots, NEW j \in Jobs, job[j].state \in {"absent", "pending", "eligible"}
    PROVE  job[j].generation = 0 /\ job[j].authority = 0
<1>1. CASE job[j].generation = 0
  BY <1>1 DEF JobSlots, JobSlot
<1>2. CASE job[j].generation # 0
  <2>1. job[j].generation \in Generations
    BY <1>2, ConstantsAssumption DEF TypeOK, JobRecord, Generations
  <2> DEFINE latest == attempt[<<j, job[j].generation>>]
  <2>2. latest.state \in AttemptStates
    BY <2>1 DEF TypeOK, AttemptRecord, Attempts
  <2> QED
    BY <2>1, <2>2, LatestAttempt DEF AttemptStates, Executable, Unfinished, Ended
<1> QED
  BY <1>1, <1>2

\* The running mark moves the latest Attempt within the executable states.
LEMMA MarkAttemptRunningSlots ==
    ASSUME TypeOK, JobSlots, NEW a \in Attempts, MarkAttemptRunning(a)
    PROVE  JobSlots'
<1> DEFINE j == a[1]
           h == a[2]
<1>1. j \in Jobs /\ h \in Generations /\ a = <<j, h>> /\ job[j].generation \in 0..MaxGeneration
  BY DEF Attempts, TypeOK, JobRecord
<1>2. h = job[j].generation
  <2>1. attempt[<<j, h>>].authoritative /\ attempt[<<j, h>>].state # "absent"
    BY <1>1 DEF MarkAttemptRunning, Executable
  <2>2. ~(h < job[j].generation)
    BY <1>1, <2>1, PastAttempt
  <2>3. ~(h > job[j].generation)
    BY <1>1, <2>1, FutureAttempt
  <2> QED
    BY <1>1, <2>2, <2>3 DEF Generations
<1>3. /\ attempt'[a] = [attempt[a] EXCEPT !.state = "running"]
      /\ \A b \in Attempts : b # a => attempt'[b] = attempt[b]
  BY DEF TypeOK, MarkAttemptRunning
<1>4. /\ attempt'[<<j, h>>].state = "running"
      /\ attempt'[<<j, h>>].authoritative = attempt[<<j, h>>].authoritative
  BY <1>1, <1>3 DEF TypeOK, AttemptRecord
<1>5. job'[j] = job[j] /\ attempt[<<j, h>>].state \in Executable
  BY <1>1 DEF MarkAttemptRunning
<1>6. \A i \in Jobs, n \in Generations : <<i, n>> # a => attempt'[<<i, n>>] = attempt[<<i, n>>]
  BY <1>3 DEF Attempts
<1>7. ASSUME NEW n \in Generations
      PROVE  /\ n > h => attempt'[<<j, n>>] = [state |-> "absent", authoritative |-> FALSE]
             /\ n < h => /\ ~attempt'[<<j, n>>].authoritative
                         /\ attempt'[<<j, n>>].state \in Ended \cup {"cancelling"}
  <2>1. n # h => attempt'[<<j, n>>] = attempt[<<j, n>>]
    BY <1>1, <1>6
  <2> QED
    BY <1>1, <1>2, <2>1, FutureAttempt, PastAttempt DEF Generations
<1>8. JobSlot(j)'
  <2>1. attempt'[<<j, h>>].authoritative = (attempt'[<<j, h>>].state \in Executable)
    BY <1>1, <1>2, <1>4, <1>5, LatestAttempt DEF Executable
  <2>2. "running" \in Executable /\ "running" \in Unfinished /\ Executable \subseteq Unfinished
    BY DEF Executable, Unfinished
  <2>3. job[j].state = "running" /\ job[j].authority = h
    BY <1>1, <1>2, <1>5, <2>2, LatestAttempt
  <2> HIDE DEF j, h
  <2> QED
    BY <1>1, <1>2, <1>4, <1>5, <1>7, <2>1, <2>2, <2>3, SlotAfter
<1>9. \A i \in Jobs : job'[i] = job[i]
  BY DEF MarkAttemptRunning
<1> QED
  BY <1>1, <1>6, <1>8, <1>9, OtherSlots

\* Cancellation takes the flag of the latest Attempt and keeps the Job's link to it.
LEMMA RequestCancelSlots ==
    ASSUME TypeOK, JobSlots, NEW a \in Attempts, RequestCancel(a)
    PROVE  JobSlots'
<1> DEFINE j == a[1]
           h == a[2]
<1>1. j \in Jobs /\ h \in Generations /\ a = <<j, h>> /\ job[j].generation \in 0..MaxGeneration
  BY DEF Attempts, TypeOK, JobRecord
<1>2. attempt[<<j, h>>].authoritative /\ attempt[<<j, h>>].state \in Executable
  BY <1>1 DEF RequestCancel, MayExecute, HoldsAuthority
<1>3. h = job[j].generation
  <2>1. ~(h < job[j].generation)
    BY <1>1, <1>2, PastAttempt
  <2>2. ~(h > job[j].generation)
    BY <1>1, <1>2, FutureAttempt DEF Executable
  <2> QED
    BY <1>1, <2>1, <2>2 DEF Generations
<1>4. /\ attempt'[a] = [state |-> "cancelling", authoritative |-> FALSE]
      /\ \A i \in Jobs, n \in Generations : <<i, n>> # a => attempt'[<<i, n>>] = attempt[<<i, n>>]
  BY DEF TypeOK, RequestCancel, Attempts
<1>5. /\ job'[j] = [job[j] EXCEPT !.state = "cancelling"]
      /\ \A i \in Jobs : i # j => job'[i] = job[i]
  BY <1>1 DEF TypeOK, RequestCancel
<1>6. job[j].authority = h
  BY <1>1, <1>2, <1>3, LatestAttempt DEF Executable, Unfinished
<1>7. job'[j].state = "cancelling" /\ job'[j].generation = h /\ job'[j].authority = h
  BY <1>1, <1>3, <1>5, <1>6 DEF TypeOK, JobRecord
<1>8. ASSUME NEW n \in Generations
      PROVE  /\ n > h => attempt'[<<j, n>>] = [state |-> "absent", authoritative |-> FALSE]
             /\ n < h => /\ ~attempt'[<<j, n>>].authoritative
                         /\ attempt'[<<j, n>>].state \in Ended \cup {"cancelling"}
  <2>1. n # h => attempt'[<<j, n>>] = attempt[<<j, n>>]
    BY <1>1, <1>4
  <2> QED
    BY <1>1, <1>3, <2>1, FutureAttempt, PastAttempt DEF Generations
<1>9. JobSlot(j)'
  <2>1. attempt'[<<j, h>>].state = "cancelling"
    BY <1>1, <1>4
  <2>2. attempt'[<<j, h>>].authoritative = (attempt'[<<j, h>>].state \in Executable)
    <3>1. attempt'[<<j, h>>].authoritative = FALSE
      BY <1>1, <1>4
    <3>2. (attempt'[<<j, h>>].state \in Executable) = FALSE
      BY <2>1 DEF Executable
    <3> QED
      BY <3>1, <3>2
  <2>3. "cancelling" \notin Executable /\ "cancelling" \in Unfinished
    BY DEF Executable, Unfinished
  <2> HIDE DEF j, h
  <2> QED
    BY <1>1, <1>7, <1>8, <2>1, <2>2, <2>3, SlotAfter
<1> QED
  BY <1>1, <1>4, <1>5, <1>9, OtherSlots

\* Replacement closes whatever Attempt was latest and publishes the next generation.
LEMMA ReplaceAttemptSlots ==
    ASSUME TypeOK, JobSlots, NEW j \in Jobs, ReplaceAttempt(j)
    PROVE  JobSlots'
<1> DEFINE g == job[j].generation
           n == g + 1
           old == <<j, job[j].authority>>
<1>1. g \in 0..MaxGeneration /\ n \in Generations /\ NextGeneration(j) = n
  BY ConstantsAssumption DEF TypeOK, JobRecord, ReplaceAttempt, NextGeneration, Generations
<1>2. /\ job'[j] = [state |-> "running", generation |-> n, authority |-> n]
      /\ \A i \in Jobs : i # j => job'[i] = job[i]
  BY <1>1 DEF TypeOK, ReplaceAttempt
<1>3. attempt' = [Revoke(old) EXCEPT ![<<j, n>>] = [state |-> "queued", authoritative |-> TRUE]]
  BY <1>1 DEF ReplaceAttempt
<1>4. /\ attempt'[<<j, n>>] = [state |-> "queued", authoritative |-> TRUE]
      /\ \A i \in Jobs, h \in Generations : <<i, h>> # <<j, n>> =>
            attempt'[<<i, h>>] = IF <<i, h>> = old /\ attempt[<<i, h>>].authoritative
                                 THEN [state |-> "failed", authoritative |-> FALSE]
                                 ELSE attempt[<<i, h>>]
  BY <1>1, <1>3 DEF Revoke, Attempts
<1>5. \A i \in Jobs, h \in Generations : i # j => attempt'[<<i, h>>] = attempt[<<i, h>>]
  BY <1>4
<1>6. ASSUME NEW h \in Generations, h > n
      PROVE  attempt'[<<j, h>>] = [state |-> "absent", authoritative |-> FALSE]
  <2>1. attempt[<<j, h>>] = [state |-> "absent", authoritative |-> FALSE]
    BY <1>1, <1>6, FutureAttempt DEF Generations
  <2>2. h # n
    BY <1>1, <1>6 DEF Generations
  <2> QED
    BY <1>4, <2>1, <2>2
<1>7. ASSUME NEW h \in Generations, h < n
      PROVE  /\ ~attempt'[<<j, h>>].authoritative
             /\ attempt'[<<j, h>>].state \in Ended \cup {"cancelling"}
  <2>1. h # n
    BY <1>1, <1>7 DEF Generations
  <2>2. CASE h < g
    <3>1. attempt'[<<j, h>>] = attempt[<<j, h>>]
      BY <1>4, <2>1, <2>2, PastAttempt
    <3> QED
      BY <2>2, <3>1, PastAttempt
  <2>3. CASE h = g /\ attempt[<<j, h>>].authoritative
    <3>1. attempt[<<j, h>>].state \in Executable
      BY <2>3, LatestAttempt
    <3>2. job[j].authority = h
      BY <2>3, <3>1, LatestAttempt DEF Executable, Unfinished
    <3>3. attempt'[<<j, h>>] = [state |-> "failed", authoritative |-> FALSE]
      BY <1>4, <2>1, <2>3, <3>2
    <3> QED
      BY <3>3 DEF Ended
  <2>4. CASE h = g /\ ~attempt[<<j, h>>].authoritative
    <3>1. attempt'[<<j, h>>] = attempt[<<j, h>>]
      BY <1>4, <2>1, <2>4
    <3>2. attempt[<<j, h>>].state \notin Executable /\ attempt[<<j, h>>].state # "absent"
      BY <2>4, LatestAttempt
    <3>3. attempt[<<j, h>>].state \in AttemptStates
      BY DEF TypeOK, AttemptRecord, Attempts
    <3>4. attempt[<<j, h>>].state \in Ended \cup {"cancelling"}
      BY <3>2, <3>3 DEF AttemptStates, Executable, Unfinished
    <3> QED
      BY <2>4, <3>1, <3>4
  <2> QED
    BY <1>1, <1>7, <2>2, <2>3, <2>4 DEF Generations
<1>8. JobSlot(j)'
  <2>1. attempt'[<<j, n>>].state = "queued" /\ attempt'[<<j, n>>].authoritative = TRUE
    BY <1>4
  <2>2. job'[j].state = "running" /\ job'[j].generation = n /\ job'[j].authority = n
    BY <1>2
  <2> HIDE DEF n
  <2> QED
    BY <1>1, <1>6, <1>7, <2>1, <2>2, SlotAfter DEF Executable, Unfinished
<1> QED
  BY <1>2, <1>5, <1>8, OtherSlots

\* A step that leaves the Job and Attempt tables alone.
LEMMA UnchangedSlots ==
    ASSUME JobSlots, job' = job, attempt' = attempt
    PROVE  JobSlots'
<1>1. ASSUME NEW j \in Jobs PROVE JobSlot(j)'
  <2>1. JobSlot(j)
    BY DEF JobSlots
  <2> QED
    BY <2>1 DEF JobSlot
<1> QED
  BY <1>1 DEF JobSlots

\* Empty tables keep every slot: no Job exists and no generation of one.
LEMMA InitSlots == Init /\ TypeOK => JobSlots
<1> SUFFICES ASSUME Init, TypeOK, NEW j \in Jobs PROVE JobSlot(j)
  BY DEF JobSlots
<1>1. job[j].generation = 0 /\ job[j].authority = 0 /\ job[j].state = "absent"
  BY DEF Init
<1>2. \A h \in Generations : attempt[<<j, h>>] = [state |-> "absent", authoritative |-> FALSE]
  BY DEF Init, Attempts
<1>3. \A h \in Generations : ~(h < 0)
  BY DEF Generations
<1> QED
  BY <1>1, <1>2, <1>3 DEF JobSlot

\* The operations on Jobs.
LEMMA JobStepSlots ==
    ASSUME TypeOK, JobSlots, JobStep
    PROVE  JobSlots'
<1>1. ASSUME NEW j \in Jobs, CreateJob(j) PROVE JobSlots'
  BY <1>1, NoGenerationYet, UnstartedSlots DEF CreateJob, Exists, PendingJob
<1>2. ASSUME NEW j \in Jobs, SetJobEligible(j) PROVE JobSlots'
  <2>1. job[j].generation = 0 /\ job[j].authority = 0
    BY <1>2, NoGenerationYet DEF SetJobEligible
  <2>2. job' = [job EXCEPT ![j] = [state |-> "eligible", generation |-> 0, authority |-> 0]]
    <3>1. [job[j] EXCEPT !.state = "eligible"]
              = [state |-> "eligible", generation |-> 0, authority |-> 0]
      BY <2>1 DEF TypeOK, JobRecord
    <3> QED
      BY <1>2, <3>1 DEF SetJobEligible
  <2> QED
    BY <1>2, <2>1, <2>2, UnstartedSlots DEF SetJobEligible
<1>3. ASSUME NEW j \in Jobs, DispatchJob(j) PROVE JobSlots'
  BY <1>3, PublishAttemptSlots DEF DispatchJob
<1>4. ASSUME NEW j \in Jobs, ReplaceAttempt(j) PROVE JobSlots'
  BY <1>4, ReplaceAttemptSlots
<1>5. ASSUME NEW j \in Jobs, NEW p \in Jobs, SetDependency(j, p) \/ RemoveDependency(j, p)
      PROVE  JobSlots'
  BY <1>5, UnchangedSlots DEF SetDependency, RemoveDependency
<1>6. ASSUME NEW a \in Attempts, NEW j \in Jobs, NEW P \in SUBSET Jobs, CreateChildJob(a, j, P)
      PROVE  JobSlots'
  BY <1>6, NoGenerationYet, UnstartedSlots DEF CreateChildJob, Exists, PendingJob
<1>7. ASSUME NEW a \in Attempts, NEW j \in Jobs, NEW P \in SUBSET Jobs, AdmitChild(a, j, P)
      PROVE  JobSlots'
  BY <1>7, NoGenerationYet, PublishAttemptSlots DEF AdmitChild, Exists
<1>8. ASSUME NEW k \in Keys, NEW j \in Jobs, AdmitJob(k, j) PROVE JobSlots'
  BY <1>8, NoGenerationYet, PublishAttemptSlots DEF AdmitJob, Exists
<1>9. ASSUME NEW k \in Keys, NEW a \in Attempts, BindAttempt(k, a) PROVE JobSlots'
  BY <1>9, UnchangedSlots DEF BindAttempt
<1> QED
  BY <1>1, <1>2, <1>3, <1>4, <1>5, <1>6, <1>7, <1>8, <1>9 DEF JobStep

\* The operations on Attempts.
LEMMA AttemptStepSlots ==
    ASSUME TypeOK, JobSlots, AttemptStep
    PROVE  JobSlots'
<1> SUFFICES ASSUME NEW a \in Attempts,
                    \/ MarkAttemptRunning(a) \/ RequestCancel(a) \/ AbandonAttempt(a)
                    \/ \E outcome \in {"cancelled", "unknown", "orphaned"} :
                          SettleCancel(a, outcome)
                    \/ \E succeeded \in BOOLEAN : FinishAttempt(a, succeeded)
             PROVE  JobSlots'
  BY DEF AttemptStep
<1>1. CASE MarkAttemptRunning(a)
  BY <1>1, MarkAttemptRunningSlots
<1>2. CASE RequestCancel(a)
  BY <1>2, RequestCancelSlots
<1>3. CASE AbandonAttempt(a)
  BY <1>3, EndAttemptSlots DEF AbandonAttempt, MayExecute, Executable, Unfinished, Ended
<1>4. ASSUME NEW outcome \in {"cancelled", "unknown", "orphaned"}, SettleCancel(a, outcome)
      PROVE  JobSlots'
  BY <1>4, EndAttemptSlots DEF SettleCancel, Unfinished, Ended
<1>5. ASSUME NEW succeeded \in BOOLEAN, FinishAttempt(a, succeeded) PROVE JobSlots'
  BY <1>5, EndAttemptSlots DEF FinishAttempt, Ended
<1> QED
  BY <1>1, <1>2, <1>3, <1>4, <1>5

\* A Call that is in the table belongs to an Attempt.
LEMMA CallHasAttempt ==
    ASSUME TypeOK, NEW c \in Calls, call[c].state # "absent"
    PROVE  call[c].attempt \in Attempts
BY DEF TypeOK, CallTable

\* The operations on Calls: only an accepted or repeated result reaches the Job.
LEMMA CallStepSlots ==
    ASSUME TypeOK, JobSlots, CallStep
    PROVE  JobSlots'
<1>1. CASE job' = job /\ attempt' = attempt
  BY <1>1, UnchangedSlots
<1>2. ASSUME NEW c \in Calls, NEW r \in Responses, NEW succeeded \in BOOLEAN,
             DeliverAuthoritative(c, r, succeeded)
      PROVE  JobSlots'
  <2>1. call[c].attempt \in Attempts /\ attempt[call[c].attempt].state \in Unfinished
    BY <1>2, CallHasAttempt
       DEF DeliverAuthoritative, AcceptsResult, MayExecute, Executable, Unfinished
  <2> QED
    BY <1>2, <2>1, EndAttemptSlots DEF DeliverAuthoritative, Ended
<1>3. ASSUME NEW c \in Calls, NEW r \in Responses, NEW succeeded \in BOOLEAN,
             DeliverDuplicate(c, r, succeeded)
      PROVE  JobSlots'
  <2>1. call[c].attempt \in Attempts /\ attempt[call[c].attempt].state \in Unfinished
    BY <1>3, CallHasAttempt
       DEF DeliverDuplicate, DuplicateResult, MayExecute, Executable, Unfinished
  <2> QED
    BY <1>3, <2>1, EndAttemptSlots DEF DeliverDuplicate, Ended
<1>4. \/ job' = job /\ attempt' = attempt
      \/ \E c \in Calls, r \in Responses, succeeded \in BOOLEAN :
            DeliverAuthoritative(c, r, succeeded) \/ DeliverDuplicate(c, r, succeeded)
  BY DEF CallStep, MarkDispatchQueued, QueueHandoffFails, ClaimCall, FailCall,
         FenceDispatchIntent, CreateCall, FinishCall, FailNativeToolCall, DeliverLate
<1> QED
  BY <1>1, <1>2, <1>3, <1>4

\* What is known of every Job holds at every moment.
THEOREM SlotsHold == Spec => []JobSlots
<1>1. TypeOK /\ TypeOK' /\ JobSlots /\ [Next]_vars => JobSlots'
  <2>1. TypeOK /\ JobSlots /\ Next => JobSlots'
    BY JobStepSlots, AttemptStepSlots, CallStepSlots DEF Next
  <2>2. JobSlots /\ UNCHANGED vars => JobSlots'
    BY UnchangedSlots DEF vars
  <2> QED
    BY <2>1, <2>2
<1> QED
  BY InitType, InitSlots, TypeCorrect, <1>1, PTL DEF Spec

\* Of all Attempts of a Job only one may act, and exactly when the Job names it: no
\* worker of a replaced, cancelled or ended Attempt passes the fence of domain.rs.
THEOREM AuthorityIsSole == Spec => []SoleAuthority
<1>1. TypeOK /\ JobSlots => SoleAuthority
  <2> SUFFICES ASSUME TypeOK, JobSlots PROVE SoleAuthority
    OBVIOUS
  <2>1. ASSUME NEW a \in Attempts, attempt[a].authoritative
        PROVE  /\ attempt[a].state \in Executable
               /\ job[a[1]].state = "running" /\ job[a[1]].authority = a[2]
    <3> DEFINE j == a[1]
               h == a[2]
    <3>1. j \in Jobs /\ h \in Generations /\ a = <<j, h>> /\ job[j].generation \in 0..MaxGeneration
      BY DEF Attempts, TypeOK, JobRecord
    <3>2. ~(h < job[j].generation) /\ ~(h > job[j].generation)
      BY <2>1, <3>1, PastAttempt, FutureAttempt
    <3>3. h = job[j].generation
      BY <3>1, <3>2 DEF Generations
    <3>4. attempt[<<j, h>>].state \in Executable
      <4>1. attempt[<<j, h>>].authoritative
        BY <2>1, <3>1
      <4>2. attempt[<<j, h>>].authoritative = (attempt[<<j, h>>].state \in Executable)
        BY <3>1, <3>3, LatestAttempt
      <4> QED
        BY <4>1, <4>2
    <3>5. job[j].state = "running" /\ job[j].authority = h
      BY <3>1, <3>3, <3>4, LatestAttempt DEF Executable, Unfinished
    <3> QED
      BY <3>1, <3>4, <3>5
  <2>2. ASSUME NEW j \in Jobs
        PROVE  /\ job[j].state = "running" => job[j].authority # 0
               /\ job[j].authority # 0 =>
                     \/ /\ job[j].state = "running"
                        /\ attempt[<<j, job[j].authority>>].authoritative
                     \/ /\ job[j].state = "cancelling"
                        /\ attempt[<<j, job[j].authority>>].state = "cancelling"
    <3> DEFINE g == job[j].generation
    <3>1. CASE g = 0
      BY <3>1 DEF JobSlots, JobSlot
    <3>2. CASE g # 0
      <4>1. g \in Generations /\ g # 0
        BY <3>2, ConstantsAssumption DEF TypeOK, JobRecord, Generations
      <4>2. attempt[<<j, g>>].state \in AttemptStates
        BY <4>1 DEF TypeOK, AttemptRecord, Attempts
      <4>3. CASE attempt[<<j, g>>].state \in Executable
        <5>1. job[j].state = "running" /\ job[j].authority = g
          BY <4>1, <4>3, LatestAttempt DEF Executable, Unfinished
        <5>2. attempt[<<j, g>>].authoritative
          BY <4>1, <4>3, LatestAttempt
        <5> QED
          BY <4>1, <5>1, <5>2
      <4>4. CASE attempt[<<j, g>>].state = "cancelling"
        <5>1. job[j].state = "cancelling" /\ job[j].authority = g
          BY <4>1, <4>4, LatestAttempt DEF Executable, Unfinished
        <5> QED
          BY <4>4, <5>1
      <4>5. CASE attempt[<<j, g>>].state \in Ended
        BY <4>1, <4>5, LatestAttempt DEF Executable, Unfinished, Ended
      <4> QED
        BY <4>1, <4>2, <4>3, <4>4, <4>5, LatestAttempt DEF AttemptStates, Unfinished, Executable
    <3> QED
      BY <3>1, <3>2
  <2> QED
    BY <2>1, <2>2 DEF SoleAuthority
<1> QED
  BY TypeCorrect, SlotsHold, <1>1, PTL

\* A replaced Attempt never decides its Job, however late it is settled.
THEOREM JobFollowsLatest == Spec => []JobFollowsLatestAttempt
<1>1. TypeOK /\ JobSlots => JobFollowsLatestAttempt
  <2> SUFFICES ASSUME TypeOK, JobSlots, NEW j \in Jobs
               PROVE  IF job[j].generation = 0
                      THEN job[j].state \in {"absent", "pending", "eligible"}
                      ELSE job[j].state =
                             (IF attempt[<<j, job[j].generation>>].state \in Executable
                              THEN "running" ELSE attempt[<<j, job[j].generation>>].state)
    BY DEF JobFollowsLatestAttempt
  <2>1. CASE job[j].generation = 0
    BY <2>1 DEF JobSlots, JobSlot
  <2>2. CASE job[j].generation # 0
    <3>1. job[j].generation \in Generations
      BY <2>2, ConstantsAssumption DEF TypeOK, JobRecord, Generations
    <3> QED
      BY <2>2, <3>1, LatestAttempt
  <2> QED
    BY <2>1, <2>2
<1> QED
  BY TypeCorrect, SlotsHold, <1>1, PTL

------------------------------------------------------------------------------
(* What one step may do to the row of a Call and to its intent. *)

Untouched(c) == call'[c] = call[c] /\ intent'[c] = intent[c]

\* The row is new, for an Attempt whose Executor takes Calls, or it names no Executor.
RowCreated(c) ==
    /\ call[c].state = "absent" /\ call'[c].state = "created"
    /\ call'[c].attempt \in Attempts
    /\ executor[call'[c].attempt] = "ready" \/ call'[c].kind = "unattended"
    /\ intent'[c] = [state |-> "pending", effect |-> "not_started"]
    /\ attempt' = attempt /\ executor' = executor

\* An open Call moves, its intent with it: never back, and never towards an effect
\* that has not begun; for an Attempt that has ended it may only be queued or fenced.
RowMoves(c) ==
    /\ call[c].state \in OpenCall /\ call'[c].state # "absent"
    /\ call'[c].attempt = call[c].attempt /\ call'[c].kind = call[c].kind
    /\ attempt[call[c].attempt].state \in Unfinished \/ call'[c].state \in {"created", "unknown"}
    /\ intent[c].state \notin OpenIntent => intent'[c] = intent[c]
    /\ intent[c].effect = "started" => intent'[c].effect # "not_started"
    /\ call'[c].state \notin OpenCall => intent'[c].state \notin OpenIntent
    /\ call'[c].state = "created" =>
          /\ call[c].state = "created"
          /\ intent'[c].effect # "not_started" => intent'[c] = intent[c]
          /\ intent'[c].state \in {"pending", "queued"} \/ QueueHandoffFails(c)
    /\ intent'[c].state \in {"pending", "queued"} =>
          call'[c].state = "created" /\ intent'[c].effect = "not_started"
    /\ intent'[c].state = "running" => call'[c].state = "running" /\ intent'[c].effect = "started"

RowStep(c) == Untouched(c) \/ RowCreated(c) \/ RowMoves(c)

\* The row and its intent are settled by this step, if they were not before.
RowClosed(c) == call'[c].state \notin OpenCall /\ intent'[c].state \notin OpenIntent

\* Ending the work of an Attempt closes all its rows and touches no other.
LEMMA ClosingRows ==
    ASSUME TypeOK, NEW c \in Calls, CallSlot(c), NEW a,
           call'[c] = AbandonCalls(call, a)[c], intent'[c] = FenceIntents(call, intent, a)[c]
    PROVE  RowStep(c) /\ (call[c].attempt = a => RowClosed(c))
<1>1. call[c] \in CallRecord /\ intent[c] \in IntentRecord
  BY DEF TypeOK, CallTable
<1>2. CASE call[c].attempt # a
  BY <1>2 DEF AbandonCalls, FenceIntents, RowStep, Untouched
<1>3. CASE call[c].attempt = a
  <2>1. intent[c].state \in OpenIntent => call[c].state \in OpenCall
    BY DEF CallSlot, OpenIntent, OpenCall
  <2>2. CASE call[c].state \in OpenCall
    <3>1. call'[c] = [call[c] EXCEPT !.state = "unknown"]
      BY <1>3, <2>2 DEF AbandonCalls
    <3>2. /\ call'[c].state = "unknown" /\ call'[c].attempt = call[c].attempt
          /\ call'[c].kind = call[c].kind
      BY <1>1, <3>1 DEF CallRecord
    <3>3. CASE intent[c].state \in OpenIntent
      <4>1. intent'[c] = [state |-> "fenced", effect |-> Indeterminate(intent[c].effect)]
        BY <1>3, <3>3 DEF FenceIntents
      <4> QED
        BY <2>2, <3>2, <3>3, <4>1
           DEF RowStep, RowMoves, RowClosed, OpenCall, OpenIntent, Indeterminate
    <3>4. CASE intent[c].state \notin OpenIntent
      <4>1. intent'[c] = intent[c]
        BY <3>4 DEF FenceIntents
      <4> QED
        BY <2>2, <3>2, <3>4, <4>1 DEF RowStep, RowMoves, RowClosed, OpenCall, OpenIntent
    <3> QED
      BY <3>3, <3>4
  <2>3. CASE call[c].state \notin OpenCall
    BY <2>1, <2>3 DEF AbandonCalls, FenceIntents, RowStep, Untouched, RowClosed
  <2> QED
    BY <2>2, <2>3
<1> QED
  BY <1>2, <1>3

\* The operations on one Call move its row and no other.
LEMMA CallStepRows ==
    ASSUME TypeOK, WorkSlots, NEW c \in Calls, NEW d \in Calls,
           \/ MarkDispatchQueued(d) \/ QueueHandoffFails(d) \/ ClaimCall(d)
           \/ FailCall(d) \/ FenceDispatchIntent(d)
           \/ \E a \in Attempts, kind \in CallKinds : CreateCall(d, a, kind)
           \/ \E r \in Responses : FinishCall(d, r) \/ FailNativeToolCall(d, r) \/ DeliverLate(d, r)
    PROVE  RowStep(c)
<1>0. /\ call \in [Calls -> CallRecord] /\ intent \in [Calls -> IntentRecord]
      /\ CallSlot(c)
  BY DEF TypeOK, CallTable, WorkSlots
<1>1. CASE c # d
  BY <1>0, <1>1 DEF MarkDispatchQueued, QueueHandoffFails, ClaimCall, FailCall, FenceDispatchIntent,
     CreateCall, FinishCall, FailNativeToolCall, DeliverLate, CallCompleted, IntentSettled,
     RowStep, Untouched
<1>2. CASE c = d
  <2> USE <1>0, <1>2 DEF OpenCall, OpenIntent, CallRecord, IntentRecord, CallSlot, MayExecute,
                         Executable, Unfinished
  <2>1. CASE MarkDispatchQueued(d)
    BY <2>1 DEF MarkDispatchQueued, RowStep, RowMoves
  <2>2. CASE QueueHandoffFails(d)
    BY <2>2 DEF QueueHandoffFails, RowStep, RowMoves
  <2>3. CASE ClaimCall(d)
    BY <2>3 DEF ClaimCall, RowStep, RowMoves
  <2>4. CASE FailCall(d)
    BY <2>4 DEF FailCall, RowStep, RowMoves
  <2>5. CASE FenceDispatchIntent(d)
    BY <2>5 DEF FenceDispatchIntent, RowStep, RowMoves
  <2>6. ASSUME NEW a \in Attempts, NEW kind \in CallKinds, CreateCall(d, a, kind) PROVE RowStep(c)
    <3>1. /\ call[c].state = "absent"
          /\ executor[a] = "ready" \/ kind = "unattended"
          /\ call'[c] = [state |-> "created", attempt |-> a, kind |-> kind, response |-> NoResponse]
          /\ intent'[c] = [state |-> "pending", effect |-> "not_started"]
          /\ UNCHANGED <<attempt, executor>>
      BY <2>6 DEF CreateCall
    <3>2. call'[c].attempt = a /\ call'[c].kind = kind /\ call'[c].state = "created"
      BY <3>1
    <3> QED
      BY <3>1, <3>2 DEF RowStep, RowCreated
  <2>7. ASSUME NEW r \in Responses, FinishCall(d, r) PROVE RowStep(c)
    BY <2>7 DEF FinishCall, CallCompleted, IntentSettled, RowStep, RowMoves
  <2>8. ASSUME NEW r \in Responses, FailNativeToolCall(d, r) PROVE RowStep(c)
    BY <2>8 DEF FailNativeToolCall, IntentSettled, RowStep, RowMoves
  <2>9. ASSUME NEW r \in Responses, DeliverLate(d, r) PROVE RowStep(c)
    BY <2>9 DEF DeliverLate, RowStep, Untouched
  <2> QED
    BY <2>1, <2>2, <2>3, <2>4, <2>5, <2>6, <2>7, <2>8, <2>9
<1> QED
  BY <1>1, <1>2

\* An Attempt ends over its rows as they are, or over those an accepted result completed.
AttemptEnds(a, state) ==
    \/ EndAttempt(call, intent, a, state)
    \/ \E d \in Calls, r \in Responses :
          /\ AcceptsResult(d) /\ call[d].attempt = a
          /\ EndAttempt(CallCompleted(d, r), IntentSettled(d, "completed"), a, state)

\* Ending an Attempt closes its rows; those of other Attempts stay.
LEMMA EndedRows ==
    ASSUME TypeOK, WorkSlots, NEW a \in Attempts, NEW state \in Ended, AttemptEnds(a, state),
           NEW c \in Calls
    PROVE  RowStep(c) /\ (call[c].attempt = a => RowClosed(c))
<1>0. /\ call \in [Calls -> CallRecord] /\ intent \in [Calls -> IntentRecord]
      /\ CallSlot(c)
  BY DEF TypeOK, CallTable, WorkSlots
<1>1. CASE EndAttempt(call, intent, a, state)
  BY <1>0, <1>1, ClosingRows DEF EndAttempt
<1>2. ASSUME NEW d \in Calls, NEW r \in Responses, AcceptsResult(d), call[d].attempt = a,
             EndAttempt(CallCompleted(d, r), IntentSettled(d, "completed"), a, state)
      PROVE  RowStep(c) /\ (call[c].attempt = a => RowClosed(c))
  <2> DEFINE calls == CallCompleted(d, r)
             intents == IntentSettled(d, "completed")
  <2>1. call'[c] = AbandonCalls(calls, a)[c] /\ intent'[c] = FenceIntents(calls, intents, a)[c]
    BY <1>2 DEF EndAttempt
  <2>2. CASE c # d
    <3>1. calls[c] = call[c] /\ intents[c] = intent[c]
      BY <1>0, <2>2 DEF CallCompleted, IntentSettled
    <3>2. /\ AbandonCalls(calls, a)[c] = AbandonCalls(call, a)[c]
          /\ FenceIntents(calls, intents, a)[c] = FenceIntents(call, intent, a)[c]
      BY <3>1 DEF AbandonCalls, FenceIntents
    <3> QED
      BY <1>0, <2>1, <3>2, ClosingRows
  <2>3. CASE c = d
    <3>1. /\ calls[c].state = "completed" /\ calls[c].attempt = call[c].attempt
          /\ calls[c].kind = call[c].kind
      BY <1>0, <2>3 DEF CallCompleted, CallRecord
    <3>2. /\ intents[c].state \notin OpenIntent
          /\ intent[c].state \notin OpenIntent => intents[c] = intent[c]
          /\ intent[c].effect = "started" => intents[c].effect # "not_started"
      BY <1>0, <2>3 DEF IntentSettled, IntentRecord, OpenIntent
    <3>3. call'[c] = calls[c]
      BY <2>1, <3>1 DEF AbandonCalls, OpenCall
    <3>4. intent'[c] = intents[c]
      BY <2>1, <3>2 DEF FenceIntents
    <3>5. call[c].state = "running" /\ attempt[call[c].attempt].state \in Unfinished
      BY <1>2, <2>3 DEF AcceptsResult, MayExecute, Executable, Unfinished
    <3> HIDE DEF calls, intents
    <3> QED
      BY <3>1, <3>2, <3>3, <3>4, <3>5 DEF RowStep, RowMoves, RowClosed, OpenCall, OpenIntent
  <2> QED
    BY <2>2, <2>3
<1> QED
  BY <1>1, <1>2 DEF AttemptEnds

------------------------------------------------------------------------------
(* The kinds of step: what Next does to Attempts, Executors and rows. *)

CallOnly == /\ \E d \in Calls :
               \/ MarkDispatchQueued(d) \/ QueueHandoffFails(d) \/ ClaimCall(d)
               \/ FailCall(d) \/ FenceDispatchIntent(d)
               \/ \E a \in Attempts, kind \in CallKinds : CreateCall(d, a, kind)
               \/ \E r \in Responses : FinishCall(d, r) \/ FailNativeToolCall(d, r)
                                         \/ DeliverLate(d, r)
            /\ UNCHANGED <<job, attempt, executor, deps>>

WorkUntouched == UNCHANGED <<call, intent>>

\* The first Attempt of a Job: a new one, or one whose prerequisites are completed.
Publishes(j) ==
    /\ PublishAttempt(j) /\ WorkUntouched
    /\ Exists(j) => DependenciesSatisfied(j)
    /\ job[j].authority = 0 /\ job[j].state \in {"absent", "pending", "eligible"}

\* Only Jobs that have no Attempt yet may change, and they get none.
EarlyJobsOnly ==
    \A j \in Jobs : job'[j] # job[j] =>
       /\ job[j].state \in {"absent", "pending", "eligible"}
       /\ job'[j].state \in {"pending", "eligible"} /\ job'[j].generation = 0

Ends(a) == attempt[a].state \in Unfinished /\ \E state \in Ended : AttemptEnds(a, state)

\* Every step is of one of these kinds.
LEMMA StepKinds ==
    ASSUME TypeOK, JobSlots, Next
    PROVE  \/ CallOnly
           \/ \E a \in Attempts : Ends(a) /\ UNCHANGED deps
           \/ \E a \in Attempts : MarkAttemptRunning(a) \/ RequestCancel(a)
           \/ \E j \in Jobs : Publishes(j) \/ ReplaceAttempt(j)
           \/ WorkUntouched /\ EarlyJobsOnly /\ UNCHANGED <<attempt, executor>>
<1>1. CASE CallStep
  <2>1. ASSUME NEW d \in Calls, NEW r \in Responses, NEW succeeded \in BOOLEAN,
               DeliverAuthoritative(d, r, succeeded) \/ DeliverDuplicate(d, r, succeeded)
        PROVE  call[d].attempt \in Attempts /\ Ends(call[d].attempt) /\ UNCHANGED deps
    <3> DEFINE s == IF succeeded THEN "completed" ELSE "failed"
    <3>1. s \in Ended
      BY DEF Ended
    <3>2. call[d].attempt \in Attempts /\ attempt[call[d].attempt].state \in Unfinished
      BY <2>1, CallHasAttempt DEF DeliverAuthoritative, DeliverDuplicate, AcceptsResult,
         DuplicateResult, MayExecute, Executable, Unfinished
    <3> HIDE DEF s
    <3>3. CASE DeliverAuthoritative(d, r, succeeded)
      <4>1. AcceptsResult(d) /\ UNCHANGED deps
        BY <3>3 DEF DeliverAuthoritative
      <4>2. EndAttempt(CallCompleted(d, r), IntentSettled(d, "completed"), call[d].attempt, s)
        BY <3>3 DEF DeliverAuthoritative, s
      <4> QED
        BY <3>1, <3>2, <4>1, <4>2 DEF Ends, AttemptEnds
    <3>4. CASE DeliverDuplicate(d, r, succeeded)
      <4>1. EndAttempt(call, intent, call[d].attempt, s) /\ UNCHANGED deps
        BY <3>4 DEF DeliverDuplicate, s
      <4> QED
        BY <3>1, <3>2, <4>1 DEF Ends, AttemptEnds
    <3> QED
      BY <2>1, <3>3, <3>4
  <2>2. \/ CallOnly
        \/ \E d \in Calls, r \in Responses, succeeded \in BOOLEAN :
              DeliverAuthoritative(d, r, succeeded) \/ DeliverDuplicate(d, r, succeeded)
    BY <1>1 DEF CallStep, CallOnly, MarkDispatchQueued, QueueHandoffFails, ClaimCall, FailCall,
       FenceDispatchIntent, CreateCall, FinishCall, FailNativeToolCall, DeliverLate
  <2> QED
    BY <2>1, <2>2
<1>2. CASE AttemptStep
  <2> SUFFICES ASSUME NEW a \in Attempts,
                      \/ AbandonAttempt(a)
                      \/ \E outcome \in {"cancelled", "unknown", "orphaned"} :
                            SettleCancel(a, outcome)
                      \/ \E succeeded \in BOOLEAN : FinishAttempt(a, succeeded)
               PROVE  Ends(a) /\ UNCHANGED deps
    BY <1>2 DEF AttemptStep
  <2>1. CASE AbandonAttempt(a)
    BY <2>1 DEF AbandonAttempt, MayExecute, Executable, Unfinished, Ended, Ends, AttemptEnds
  <2>2. ASSUME NEW outcome \in {"cancelled", "unknown", "orphaned"}, SettleCancel(a, outcome)
        PROVE  Ends(a) /\ UNCHANGED deps
    BY <2>2 DEF SettleCancel, Unfinished, Ended, Ends, AttemptEnds
  <2>3. ASSUME NEW succeeded \in BOOLEAN, FinishAttempt(a, succeeded)
        PROVE  Ends(a) /\ UNCHANGED deps
    <3> DEFINE s == IF succeeded THEN "completed" ELSE "failed"
    <3>1. s \in Ended /\ EndAttempt(call, intent, a, s)
      BY <2>3 DEF FinishAttempt, Ended
    <3> HIDE DEF s
    <3> QED
      BY <2>3, <3>1 DEF FinishAttempt, Ends, AttemptEnds
  <2> QED
    BY <2>1, <2>2, <2>3
<1>3. CASE JobStep
  <2>1. ASSUME NEW j \in Jobs, DispatchJob(j) PROVE Publishes(j)
    BY <2>1 DEF DispatchJob, Publishes, WorkUntouched
  <2>2. ASSUME NEW a \in Attempts, NEW j \in Jobs, NEW P \in SUBSET Jobs, AdmitChild(a, j, P)
        PROVE  Publishes(j)
    BY <2>2, NoGenerationYet DEF AdmitChild, Exists, Publishes, WorkUntouched
  <2>3. ASSUME NEW k \in Keys, NEW j \in Jobs, AdmitJob(k, j) PROVE Publishes(j)
    BY <2>3, NoGenerationYet DEF AdmitJob, Exists, Publishes, WorkUntouched
  <2>4. ASSUME NEW j \in Jobs, CreateJob(j) \/ (\E a, P : CreateChildJob(a, j, P)) PROVE EarlyJobsOnly
    BY <2>4 DEF CreateJob, CreateChildJob, PendingJob, EarlyJobsOnly, Exists, TypeOK
  <2>5. ASSUME NEW j \in Jobs, SetJobEligible(j) PROVE EarlyJobsOnly
    <3>1. job[j].generation = 0
      BY <2>5, NoGenerationYet DEF SetJobEligible
    <3> QED
      BY <2>5, <3>1 DEF SetJobEligible, EarlyJobsOnly, TypeOK, JobRecord
  <2>6. \/ \E j \in Jobs : DispatchJob(j) \/ ReplaceAttempt(j)
        \/ \E a \in Attempts, j \in Jobs, P \in SUBSET Jobs : AdmitChild(a, j, P)
        \/ \E k \in Keys, j \in Jobs : AdmitJob(k, j)
        \/ WorkUntouched /\ EarlyJobsOnly /\ UNCHANGED <<attempt, executor>>
    <3>1. ASSUME job' = job PROVE EarlyJobsOnly
      BY <3>1 DEF EarlyJobsOnly
    <3> QED
      BY <1>3, <2>4, <2>5, <3>1 DEF JobStep, CreateJob, SetJobEligible, SetDependency,
         RemoveDependency, CreateChildJob, BindAttempt, WorkUntouched
  <2> QED
    BY <2>1, <2>2, <2>3, <2>6
<1> QED
  BY <1>1, <1>2, <1>3 DEF Next

------------------------------------------------------------------------------
(* Open work and the Attempts it belongs to. *)

\* What is known of a Call survives a step that keeps the Attempts of open Calls alive.
LEMMA SlotKept ==
    ASSUME TypeOK, NEW c \in Calls, CallSlot(c), RowStep(c),
           call'[c].state \in OpenCall =>
              attempt'[call'[c].attempt].state \in Unfinished \/ Unclaimed(c)'
    PROVE  CallSlot(c)'
<1> USE DEF CallSlot, OpenCall, OpenIntent
<1>1. CASE Untouched(c)
  BY <1>1 DEF Untouched
<1>2. CASE RowCreated(c)
  BY <1>2 DEF RowCreated
<1>3. CASE RowMoves(c)
  BY <1>3 DEF RowMoves
<1> QED
  BY <1>1, <1>2, <1>3 DEF RowStep

\* A new row belongs to an Attempt that has not ended, or nobody has claimed it.
LEMMA CreatedRowIsAlive ==
    ASSUME WorkSlots, NEW c \in Calls, RowCreated(c)
    PROVE  attempt'[call'[c].attempt].state \in Unfinished \/ Unclaimed(c)'
BY DEF WorkSlots, ReadyExecutors, RowCreated, Unclaimed

\* An open row that was there before belongs to the Attempt it belonged to, which had not
\* ended unless nobody has claimed the row.
LEMMA OldRowWasAlive ==
    ASSUME TypeOK, WorkSlots, NEW c \in Calls, RowStep(c), ~RowCreated(c),
           call'[c].state \in OpenCall
    PROVE  /\ call'[c].attempt = call[c].attempt /\ call[c].attempt \in Attempts
           /\ attempt[call[c].attempt].state \in Unfinished \/ Unclaimed(c)'
<1>1. call'[c].attempt = call[c].attempt /\ call[c].state \in OpenCall
  BY DEF RowStep, Untouched, RowMoves
<1>2. call[c].attempt \in Attempts
  BY <1>1, CallHasAttempt DEF OpenCall
<1>3. ASSUME Unclaimed(c), attempt[call[c].attempt].state \notin Unfinished
      PROVE  Unclaimed(c)'
  <2>1. CASE Untouched(c)
    BY <1>3, <2>1 DEF Unclaimed, Untouched
  <2>2. CASE RowMoves(c)
    BY <1>3, <2>2 DEF Unclaimed, RowMoves, OpenCall
  <2> QED
    BY <2>1, <2>2 DEF RowStep
<1> QED
  BY <1>1, <1>2, <1>3 DEF WorkSlots, CallSlot

\* A step that leaves the rows alone and ends no Attempt and readies no other Executor.
LEMMA RowsLeftAlone ==
    ASSUME TypeOK, WorkSlots, WorkUntouched,
           \A a \in Attempts : attempt[a].state \in Unfinished => attempt'[a].state \in Unfinished,
           \A a \in Attempts : executor'[a] = "ready" =>
              executor[a] = "ready" \/ attempt'[a].state \in Unfinished
    PROVE  WorkSlots'
<1>1. ReadyExecutors'
  BY DEF WorkSlots, ReadyExecutors
<1>2. ASSUME NEW c \in Calls PROVE CallSlot(c)'
  <2>1. RowStep(c) /\ ~RowCreated(c) /\ CallSlot(c)
    BY DEF WorkUntouched, RowStep, Untouched, RowCreated, WorkSlots
  <2> QED
    BY <2>1, OldRowWasAlive, SlotKept
<1> QED
  BY <1>1, <1>2 DEF WorkSlots

\* The end of an Attempt closes its rows and intents and leaves no ready Executor with it.
LEMMA EndsWork ==
    ASSUME TypeOK, WorkSlots, NEW a \in Attempts, Ends(a)
    PROVE  WorkSlots'
<1> PICK state \in Ended : AttemptEnds(a, state)
  BY DEF Ends
<1>1. /\ attempt' = [attempt EXCEPT ![a] = [state |-> state, authoritative |-> FALSE]]
      /\ executor' = [executor EXCEPT ![a] = state]
  BY DEF AttemptEnds, EndAttempt
<1>2. \A b \in Attempts : b # a => attempt'[b] = attempt[b] /\ executor'[b] = executor[b]
  BY <1>1 DEF TypeOK
<1>3. ReadyExecutors'
  <2>1. executor'[a] # "ready"
    BY <1>1 DEF TypeOK, Ended
  <2> QED
    BY <1>2, <2>1 DEF WorkSlots, ReadyExecutors
<1>4. ASSUME NEW c \in Calls PROVE CallSlot(c)'
  <2>1. RowStep(c) /\ (call[c].attempt = a => RowClosed(c)) /\ CallSlot(c)
    BY EndedRows DEF WorkSlots
  <2>2. ASSUME call'[c].state \in OpenCall
        PROVE  attempt'[call'[c].attempt].state \in Unfinished \/ Unclaimed(c)'
    <3>1. CASE RowCreated(c)
      BY <3>1, CreatedRowIsAlive
    <3>2. CASE ~RowCreated(c)
      BY <1>2, <2>1, <2>2, <3>2, OldRowWasAlive DEF RowClosed
    <3> QED
      BY <3>1, <3>2
  <2> QED
    BY <2>1, <2>2, SlotKept
<1> QED
  BY <1>3, <1>4 DEF WorkSlots

\* Replacement does the same to the Attempt it replaces; the next generation has no rows.
LEMMA ReplaceWork ==
    ASSUME TypeOK, WorkSlots, NEW j \in Jobs, ReplaceAttempt(j)
    PROVE  WorkSlots'
<1> DEFINE g   == NextGeneration(j)
           old == <<j, job[j].authority>>
<1>1. <<j, g>> \in Attempts
  BY ConstantsAssumption DEF TypeOK, JobRecord, ReplaceAttempt, NextGeneration, Attempts, Generations
<1>2. attempt' = [Revoke(old) EXCEPT ![<<j, g>>] = [state |-> "queued", authoritative |-> TRUE]]
  BY DEF ReplaceAttempt
<1>3. /\ attempt'[<<j, g>>].state = "queued"
      /\ \A b \in Attempts : b # <<j, g>> /\ b # old => attempt'[b] = attempt[b]
  BY <1>1, <1>2 DEF Revoke
<1>4. \A b \in Attempts : executor'[b] = "ready" =>
         b = <<j, g>> \/ (b # old /\ executor[b] = "ready")
  BY DEF ReplaceAttempt
<1>5. ReadyExecutors'
  BY <1>3, <1>4 DEF WorkSlots, ReadyExecutors, Unfinished
<1>6. ASSUME NEW c \in Calls PROVE CallSlot(c)'
  <2>1. call' = AbandonCalls(call, old) /\ intent' = FenceIntents(call, intent, old)
    BY DEF ReplaceAttempt
  <2>2. RowStep(c) /\ (call[c].attempt = old => RowClosed(c)) /\ CallSlot(c)
    BY <2>1, ClosingRows DEF WorkSlots
  <2>3. ASSUME call'[c].state \in OpenCall
        PROVE  attempt'[call'[c].attempt].state \in Unfinished \/ Unclaimed(c)'
    <3>1. CASE RowCreated(c)
      BY <3>1, CreatedRowIsAlive
    <3>2. CASE ~RowCreated(c)
      BY <1>3, <2>2, <2>3, <3>2, OldRowWasAlive DEF RowClosed, Unfinished
    <3> QED
      BY <3>1, <3>2
  <2> QED
    BY <2>2, <2>3, SlotKept
<1> QED
  BY <1>5, <1>6 DEF WorkSlots

\* Every step keeps what is known of open work.
LEMMA NextWork ==
    ASSUME TypeOK, JobSlots, WorkSlots, Next
    PROVE  WorkSlots'
<1>1. CASE CallOnly
  <2>1. ASSUME NEW c \in Calls PROVE CallSlot(c)'
    <3>1. RowStep(c) /\ CallSlot(c) /\ attempt' = attempt
      BY <1>1, CallStepRows DEF CallOnly, WorkSlots
    <3>2. call'[c].state \in OpenCall =>
             attempt'[call'[c].attempt].state \in Unfinished \/ Unclaimed(c)'
      BY <3>1, CreatedRowIsAlive, OldRowWasAlive
    <3> QED
      BY <3>1, <3>2, SlotKept
  <2>2. ReadyExecutors'
    BY <1>1 DEF CallOnly, WorkSlots, ReadyExecutors
  <2> QED
    BY <2>1, <2>2 DEF WorkSlots
<1>2. ASSUME NEW a \in Attempts, Ends(a) PROVE WorkSlots'
  BY <1>2, EndsWork
<1>3. ASSUME NEW a \in Attempts, MarkAttemptRunning(a) \/ RequestCancel(a) PROVE WorkSlots'
  BY <1>3, RowsLeftAlone DEF MarkAttemptRunning, RequestCancel, WorkUntouched, TypeOK, AttemptRecord,
     Unfinished
<1>4. ASSUME NEW j \in Jobs, Publishes(j) PROVE WorkSlots'
  <2>1. <<j, NextGeneration(j)>> \in Attempts
    BY <1>4, ConstantsAssumption
       DEF TypeOK, JobRecord, Publishes, PublishAttempt, NextGeneration, Attempts, Generations
  <2> QED
    BY <1>4, <2>1, RowsLeftAlone DEF Publishes, PublishAttempt, TypeOK, AttemptRecord, Unfinished
<1>5. ASSUME NEW j \in Jobs, ReplaceAttempt(j) PROVE WorkSlots'
  BY <1>5, ReplaceWork
<1>6. CASE WorkUntouched /\ UNCHANGED <<attempt, executor>>
  BY <1>6, RowsLeftAlone
<1> QED
  BY <1>1, <1>2, <1>3, <1>4, <1>5, <1>6, StepKinds

\* Empty tables hold no work.
LEMMA InitWork == Init => WorkSlots
BY DEF Init, WorkSlots, ReadyExecutors, CallSlot, OpenCall, Attempts

\* Whatever is open belongs to an Attempt that has not ended, or is a read-only Call
\* without an Executor (create_call_with_effect takes one for any Attempt) that has not
\* begun, at every moment.
THEOREM WorkHolds == Spec => []WorkSlots
<1>1. TypeOK /\ JobSlots /\ WorkSlots /\ [Next]_vars => WorkSlots'
  <2>1. TypeOK /\ WorkSlots /\ UNCHANGED vars => WorkSlots'
    BY RowsLeftAlone DEF vars, WorkUntouched
  <2> QED
    BY <2>1, NextWork
<1> QED
  BY InitWork, TypeCorrect, SlotsHold, <1>1, PTL DEF Spec

\* The intent restart recovery reads says whether the effect of its Call may have begun,
\* as long as it is open.
THEOREM IntentsMatchCalls == Spec => []OpenIntentMatchesCall
<1>1. WorkSlots => OpenIntentMatchesCall
  BY DEF WorkSlots, CallSlot, OpenIntentMatchesCall, OpenIntent
<1> QED
  BY WorkHolds, <1>1, PTL

\* An Attempt that ended has no ready Executor, and no open Call or intent but those of
\* read-only Calls without an Executor that have not begun.
THEOREM EndedAttemptsAreIdle == Spec => []EndedAttemptsHoldNoWork
<1>1. WorkSlots => EndedAttemptsHoldNoWork
  BY DEF WorkSlots, ReadyExecutors, CallSlot, EndedAttemptsHoldNoWork, OpenIntent, OpenCall, Unclaimed
<1> QED
  BY WorkHolds, <1>1, PTL

------------------------------------------------------------------------------
(* What is over stays as it ended. *)

\* Whatever the step, a row is left alone, created or moved on.
LEMMA NextRows ==
    ASSUME TypeOK, JobSlots, WorkSlots, Next, NEW c \in Calls
    PROVE  RowStep(c)
<1>1. CASE CallOnly
  BY <1>1, CallStepRows DEF CallOnly
<1>2. ASSUME NEW a \in Attempts, Ends(a) PROVE RowStep(c)
  BY <1>2, EndedRows DEF Ends
<1>3. ASSUME NEW j \in Jobs, ReplaceAttempt(j) PROVE RowStep(c)
  <2> DEFINE old == <<j, job[j].authority>>
  <2>1. call' = AbandonCalls(call, old) /\ intent' = FenceIntents(call, intent, old) /\ CallSlot(c)
    BY <1>3 DEF ReplaceAttempt, WorkSlots
  <2> QED
    BY <2>1, ClosingRows
<1>4. CASE call' = call /\ intent' = intent
  BY <1>4 DEF RowStep, Untouched
<1> QED
  BY <1>1, <1>2, <1>3, <1>4, StepKinds
     DEF MarkAttemptRunning, RequestCancel, Publishes, WorkUntouched

\* An Attempt that gets its flag did not exist before.
LEMMA FlagIsNew ==
    ASSUME TypeOK, JobSlots, NEW j \in Jobs, PublishAttempt(j) \/ ReplaceAttempt(j)
    PROVE  /\ <<j, NextGeneration(j)>> \in Attempts
           /\ attempt[<<j, NextGeneration(j)>>].state = "absent"
<1> DEFINE g == NextGeneration(j)
<1>1. g \in Generations /\ g > job[j].generation
  BY ConstantsAssumption
     DEF TypeOK, JobRecord, PublishAttempt, ReplaceAttempt, NextGeneration, Generations
<1> HIDE DEF g
<1>2. attempt[<<j, g>>] = [state |-> "absent", authoritative |-> FALSE]
  BY <1>1, FutureAttempt
<1> QED
  BY <1>1, <1>2 DEF Attempts, g

\* An Attempt that exists without the flag does not get it.
LEMMA FlagStep ==
    ASSUME TypeOK, JobSlots, Next, NEW a \in Attempts,
           attempt[a].state # "absent", ~attempt[a].authoritative
    PROVE  ~attempt'[a].authoritative
<1> USE DEF TypeOK, AttemptRecord
<1>1. CASE UNCHANGED attempt
  BY <1>1
<1>2. ASSUME NEW b \in Attempts, Ends(b) PROVE ~attempt'[a].authoritative
  <2> PICK state : attempt' = [attempt EXCEPT ![b] = [state |-> state, authoritative |-> FALSE]]
    BY <1>2 DEF Ends, AttemptEnds, EndAttempt
  <2> QED
    OBVIOUS
<1>3. ASSUME NEW b \in Attempts, MarkAttemptRunning(b) \/ RequestCancel(b)
      PROVE  ~attempt'[a].authoritative
  BY <1>3 DEF MarkAttemptRunning, RequestCancel
<1>4. ASSUME NEW j \in Jobs, Publishes(j) PROVE ~attempt'[a].authoritative
  <2>1. a # <<j, NextGeneration(j)>>
    BY <1>4, FlagIsNew DEF Publishes
  <2> QED
    BY <1>4, <2>1 DEF Publishes, PublishAttempt
<1>5. ASSUME NEW j \in Jobs, ReplaceAttempt(j) PROVE ~attempt'[a].authoritative
  <2>1. a # <<j, NextGeneration(j)>>
    BY <1>5, FlagIsNew
  <2>2. attempt' = [Revoke(<<j, job[j].authority>>) EXCEPT
                      ![<<j, NextGeneration(j)>>] = [state |-> "queued", authoritative |-> TRUE]]
    BY <1>5 DEF ReplaceAttempt
  <2>3. attempt'[a] = Revoke(<<j, job[j].authority>>)[a]
    BY <2>1, <2>2 DEF Revoke
  <2> QED
    BY <2>3 DEF Revoke
<1> QED
  BY <1>1, <1>2, <1>3, <1>4, <1>5, StepKinds DEF CallOnly

\* A Job that names an Attempt is running or cancelling.
LEMMA NamingJob ==
    ASSUME TypeOK, JobSlots, NEW j \in Jobs, job[j].authority # 0
    PROVE  job[j].state \in {"running", "cancelling"}
<1> DEFINE g == job[j].generation
<1>1. g \in Generations
  <2>1. g # 0
    BY DEF JobSlots, JobSlot
  <2> QED
    BY <2>1, ConstantsAssumption DEF TypeOK, JobRecord, Generations
<1>2. attempt[<<j, g>>].state \in Unfinished
  BY <1>1, LatestAttempt
<1>3. job[j].state = (IF attempt[<<j, g>>].state \in Executable THEN "running"
                      ELSE attempt[<<j, g>>].state)
  BY <1>1, LatestAttempt
<1> QED
  BY <1>2, <1>3 DEF Unfinished, Executable

\* A finished Job keeps its row.
LEMMA FinishedJobStays ==
    ASSUME TypeOK, JobSlots, Next, NEW j \in Jobs, job[j].state \in {"completed", "cancelled"}
    PROVE  job'[j] = job[j]
<1>0. job[j].authority = 0
  BY NamingJob
<1>1. CASE UNCHANGED job
  BY <1>1
<1>2. ASSUME NEW a \in Attempts, Ends(a) PROVE job'[j] = job[j]
  <2>1. /\ a[1] \in Jobs /\ a[2] # 0
        /\ \E state \in Ended : job' = IF job[a[1]].authority = a[2]
                                       THEN [job EXCEPT ![a[1]].state = state, ![a[1]].authority = 0]
                                       ELSE job
    BY <1>2 DEF Ends, AttemptEnds, EndAttempt, Attempts, Generations
  <2> QED
    BY <1>0, <2>1 DEF TypeOK
<1>3. ASSUME NEW a \in Attempts, MarkAttemptRunning(a) \/ RequestCancel(a) PROVE job'[j] = job[j]
  <2>1. a[1] \in Jobs /\ a[2] # 0
    BY DEF Attempts, Generations
  <2> QED
    BY <1>0, <1>3, <2>1 DEF MarkAttemptRunning, RequestCancel, MayExecute, HoldsAuthority, TypeOK
<1>4. ASSUME NEW i \in Jobs, Publishes(i) \/ ReplaceAttempt(i) PROVE job'[j] = job[j]
  <2>1. i # j
    BY <1>4 DEF Publishes, ReplaceAttempt, Replaceable
  <2> QED
    BY <1>4, <2>1 DEF Publishes, PublishAttempt, ReplaceAttempt, TypeOK
<1>5. CASE EarlyJobsOnly
  BY <1>5 DEF EarlyJobsOnly
<1> QED
  BY <1>1, <1>2, <1>3, <1>4, <1>5, StepKinds DEF CallOnly

\* An effect that may have begun is not forgotten, and a final one does not change.
LEMMA EffectStep ==
    ASSUME TypeOK, NEW c \in Calls, CallSlot(c), RowStep(c)
    PROVE  /\ intent[c].effect # "not_started" => intent'[c].effect # "not_started"
           /\ intent[c].effect \in {"settled", "unknown"} => intent'[c].effect = intent[c].effect
<1>1. intent[c].effect \in EffectStates
  BY DEF TypeOK, IntentRecord
<1> QED
  BY <1>1 DEF RowStep, Untouched, RowCreated, RowMoves, CallSlot, OpenCall, OpenIntent, EffectStates

\* Revoked authority does not return, finished Jobs and settled Calls do not change, and an
\* effect that may have begun is not forgotten, through every restart, repeat, replacement
\* and late result.
THEOREM OutcomesStay == Spec => OutcomesAreFinal
<1>1. TypeOK /\ JobSlots /\ WorkSlots /\ [Next]_vars =>
         /\ [\A a \in Attempts : attempt[a].state # "absent" /\ ~attempt[a].authoritative
                => ~attempt'[a].authoritative]_vars
         /\ [\A j \in Jobs : job[j].state \in {"completed", "cancelled"} => job'[j] = job[j]]_vars
  BY FlagStep, FinishedJobStays
<1>2. TypeOK /\ JobSlots /\ WorkSlots /\ [Next]_vars =>
         /\ [\A c \in Calls : call[c].state \in {"completed", "failed", "unknown"}
                => call'[c] = call[c]]_vars
         /\ [\A c \in Calls :
                /\ intent[c].effect # "not_started" => intent'[c].effect # "not_started"
                /\ intent[c].effect \in {"settled", "unknown"} =>
                      intent'[c].effect = intent[c].effect]_vars
  <2>1. ASSUME TypeOK, JobSlots, WorkSlots, Next, NEW c \in Calls
        PROVE  /\ call[c].state \in {"completed", "failed", "unknown"} => call'[c] = call[c]
               /\ intent[c].effect # "not_started" => intent'[c].effect # "not_started"
               /\ intent[c].effect \in {"settled", "unknown"} =>
                     intent'[c].effect = intent[c].effect
    <3>1. RowStep(c) /\ CallSlot(c)
      BY <2>1, NextRows DEF WorkSlots
    <3>2. call[c].state \in {"completed", "failed", "unknown"} => call'[c] = call[c]
      BY <3>1 DEF RowStep, Untouched, RowCreated, RowMoves, OpenCall
    <3> QED
      BY <2>1, <3>1, <3>2, EffectStep
  <2> QED
    BY <2>1
<1> QED
  BY TypeCorrect, SlotsHold, WorkHolds, <1>1, <1>2, PTL
     DEF Spec, OutcomesAreFinal, AuthorityNeverReturns, FinishedJobsAreFinal, SettledCallsAreFinal,
         EffectBeginsOnce

------------------------------------------------------------------------------
(* Completed work. *)

\* What CompletedWorkIsSettled says of one Attempt.
WorkSettled(a) ==
    \A c \in Calls : call[c].attempt = a /\ call[c].state # "completed" =>
       \/ Stray(c)
       \/ /\ call[c].state = "failed" /\ call[c].kind # "provider"
          /\ intent[c].effect = "settled"
          /\ \E p \in Calls : /\ call[p].attempt = a /\ call[p].kind = "provider"
                             /\ call[p].state = "completed"

\* The rows of an Attempt that has ended do not move, and it gets no new ones: all but the
\* stray ones.
LEMMA EndedRowsStay ==
    ASSUME TypeOK, JobSlots, WorkSlots, Next, NEW a \in Attempts, attempt[a].state \in Ended,
           NEW c \in Calls, call'[c].attempt = a \/ (call[c].attempt = a /\ call[c].state # "absent")
    PROVE  Untouched(c) \/ Stray(c)'
<1>1. attempt[a].state \notin Unfinished
  BY DEF Ended, Unfinished
<1>2. RowStep(c) /\ CallSlot(c) /\ ReadyExecutors
  BY NextRows DEF WorkSlots
<1>3. RowCreated(c) => Stray(c)'
  BY <1>1, <1>2 DEF RowCreated, ReadyExecutors, Stray
<1>4. ASSUME RowMoves(c) PROVE Stray(c)'
  <2>1. /\ call[c].attempt = a /\ call[c].state \in OpenCall
        /\ call'[c].kind = call[c].kind /\ call'[c].state \in {"created", "unknown"}
    BY <1>1, <1>4 DEF RowMoves, OpenCall
  <2> QED
    BY <1>1, <1>2, <2>1 DEF CallSlot, Unclaimed, Stray
<1> QED
  BY <1>2, <1>3, <1>4 DEF RowStep

\* An Attempt that is completed has settled its rows: those it may be completed with are
\* closed, so that ending it does not change them.
LEMMA CompletedNow ==
    ASSUME NEW calls, NEW intents, NEW a \in Attempts, EndAttempt(calls, intents, a, "completed"),
           \A c \in Calls : call'[c].attempt = calls[c].attempt
    PROVE  WorkSettled(a)'
<1>1. MayComplete(calls, intents, a)
  BY DEF EndAttempt
<1>2. ASSUME NEW c \in Calls, calls[c].attempt = a PROVE call'[c] = calls[c]
  BY <1>1, <1>2 DEF MayComplete, ObservedFailure, EndAttempt, AbandonCalls, OpenCall
<1>3. ASSUME NEW c \in Calls, calls[c].attempt = a, calls[c].state # "completed"
      PROVE  /\ ObservedFailure(calls, intents, c) /\ intent'[c] = intents[c]
             /\ \E p \in Calls : /\ calls[p].attempt = a /\ calls[p].state = "completed"
                                /\ calls[p].kind = "provider"
  BY <1>1, <1>3 DEF MayComplete, ObservedFailure, EndAttempt, FenceIntents, OpenIntent
<1> QED
  BY <1>2, <1>3 DEF WorkSettled, ObservedFailure

\* Ending over the rows an accepted result completed moves no row to another Attempt.
LEMMA EndKeepsOwners ==
    ASSUME TypeOK, NEW c \in Calls, NEW d \in Calls, NEW r, NEW a,
           call' = AbandonCalls(call, a) \/ call' = AbandonCalls(CallCompleted(d, r), a)
    PROVE  call'[c].attempt = call[c].attempt /\ CallCompleted(d, r)[c].attempt = call[c].attempt
<1>1. call \in [Calls -> CallRecord]
  BY DEF TypeOK, CallTable
<1>2. CallCompleted(d, r)[c].attempt = call[c].attempt
  BY <1>1 DEF CallCompleted, CallRecord
<1>3. CASE call' = AbandonCalls(call, a)
  BY <1>1, <1>2, <1>3 DEF AbandonCalls, CallRecord
<1>4. CASE call' = AbandonCalls(CallCompleted(d, r), a)
  <2> DEFINE row == CallCompleted(d, r)[c]
  <2>1. row \in [state: CallStates, attempt: Attempts \cup {NoAttempt}, kind: CallKinds,
                 response: Responses \cup {NoResponse, r}]
    BY <1>1 DEF CallCompleted, CallRecord, CallStates
  <2>2. call'[c] = row \/ call'[c] = [row EXCEPT !.state = "unknown"]
    BY <1>4 DEF AbandonCalls
  <2> HIDE DEF row
  <2>3. call'[c].attempt = row.attempt
    BY <2>1, <2>2
  <2> QED
    BY <1>2, <2>3 DEF row
<1> QED
  BY <1>3, <1>4

\* An Attempt that becomes completed in a step ends in it.
LEMMA CompletionIsAnEnd ==
    ASSUME TypeOK, JobSlots, Next, NEW a \in Attempts,
           attempt'[a].state = "completed", attempt[a].state # "completed"
    PROVE  AttemptEnds(a, "completed")
<1> USE DEF TypeOK, AttemptRecord
<1>1. attempt'[a] # attempt[a]
  OBVIOUS
<1>2. ASSUME NEW b \in Attempts, Ends(b) PROVE AttemptEnds(a, "completed")
  <2> PICK state \in Ended : AttemptEnds(b, state)
    BY <1>2 DEF Ends
  <2>1. attempt' = [attempt EXCEPT ![b] = [state |-> state, authoritative |-> FALSE]]
    BY DEF AttemptEnds, EndAttempt
  <2>2. a = b /\ state = "completed"
    BY <1>1, <2>1
  <2> QED
    BY <2>2
<1>3. ASSUME NEW b \in Attempts, MarkAttemptRunning(b) \/ RequestCancel(b) PROVE FALSE
  BY <1>1, <1>3 DEF MarkAttemptRunning, RequestCancel
<1>4. ASSUME NEW j \in Jobs, Publishes(j) PROVE FALSE
  BY <1>1, <1>4 DEF Publishes, PublishAttempt
<1>5. ASSUME NEW j \in Jobs, ReplaceAttempt(j) PROVE FALSE
  <2>1. attempt' = [Revoke(<<j, job[j].authority>>) EXCEPT
                      ![<<j, NextGeneration(j)>>] = [state |-> "queued", authoritative |-> TRUE]]
    BY <1>5 DEF ReplaceAttempt
  <2> QED
    BY <1>1, <2>1 DEF Revoke
<1> QED
  BY <1>1, <1>2, <1>3, <1>4, <1>5, StepKinds DEF CallOnly

\* A step completes an Attempt with its work settled and leaves settled work alone.
LEMMA NextCompleted ==
    ASSUME TypeOK, JobSlots, WorkSlots, CompletedWorkIsSettled, Next
    PROVE  CompletedWorkIsSettled'
<1> SUFFICES ASSUME NEW a \in Attempts, attempt'[a].state = "completed" PROVE WorkSettled(a)'
  BY DEF CompletedWorkIsSettled, WorkSettled, Stray
<1>1. CASE attempt[a].state = "completed"
  <2>1. WorkSettled(a) /\ attempt[a].state \in Ended
    BY <1>1 DEF CompletedWorkIsSettled, WorkSettled, Ended, Stray
  <2>2. ASSUME NEW c \in Calls, call'[c].attempt = a, call'[c].state # "completed", ~Stray(c)'
        PROVE  /\ call'[c].state = "failed" /\ call'[c].kind # "provider"
               /\ intent'[c].effect = "settled"
               /\ \E p \in Calls : /\ call'[p].attempt = a /\ call'[p].kind = "provider"
                                  /\ call'[p].state = "completed"
    <3>1. call'[c] = call[c] /\ intent'[c] = intent[c]
      BY <2>1, <2>2, EndedRowsStay DEF Untouched, Stray
    <3>2. PICK p \in Calls : /\ call[p].attempt = a /\ call[p].kind = "provider"
                             /\ call[p].state = "completed"
      BY <2>1, <2>2, <3>1 DEF WorkSettled, Stray
    <3>3. call'[p] = call[p]
      BY <3>2, NextRows DEF RowStep, Untouched, RowCreated, RowMoves, OpenCall
    <3> QED
      BY <2>1, <2>2, <3>1, <3>2, <3>3 DEF WorkSettled, Stray
  <2> QED
    BY <2>2 DEF WorkSettled
<1>2. CASE attempt[a].state # "completed"
  <2>1. CASE EndAttempt(call, intent, a, "completed")
    <3>1. ASSUME NEW c \in Calls PROVE call'[c].attempt = call[c].attempt
      BY <2>1, EndKeepsOwners DEF EndAttempt
    <3> QED
      BY <2>1, <3>1, CompletedNow
  <2>2. ASSUME NEW d \in Calls, NEW r \in Responses,
               EndAttempt(CallCompleted(d, r), IntentSettled(d, "completed"), a, "completed")
        PROVE  WorkSettled(a)'
    <3>1. ASSUME NEW c \in Calls PROVE call'[c].attempt = CallCompleted(d, r)[c].attempt
      BY <2>2, EndKeepsOwners DEF EndAttempt
    <3> QED
      BY <2>2, <3>1, CompletedNow
  <2> QED
    BY <1>2, <2>1, <2>2, CompletionIsAnEnd DEF AttemptEnds
<1> QED
  BY <1>1, <1>2

\* A completed Attempt has no Call that runs, whose outcome is unknown or that failed in the
\* framework, and the one kind that can be added to it afterwards, a read-only Call without
\* an Executor, waits or is fenced and never runs.
THEOREM CompletedWorkStaysSettled == Spec => []CompletedWorkIsSettled
<1>1. Init => CompletedWorkIsSettled
  BY DEF Init, CompletedWorkIsSettled
<1>2. TypeOK /\ JobSlots /\ WorkSlots /\ CompletedWorkIsSettled /\ [Next]_vars
         => CompletedWorkIsSettled'
  <2>1. CompletedWorkIsSettled /\ UNCHANGED vars => CompletedWorkIsSettled'
    BY DEF CompletedWorkIsSettled, Stray, vars
  <2> QED
    BY <2>1, NextCompleted
<1> QED
  BY TypeCorrect, SlotsHold, WorkHolds, <1>1, <1>2, PTL DEF Spec

------------------------------------------------------------------------------
(* Reachability: to show that q is not reached from p, exhibit a closed set. *)

\* What is reached from p is the least closed set that holds p.
LEMMA ReachIsClosed ==
    ASSUME NEW E \in SUBSET (Jobs \X Jobs), NEW p \in Jobs
    PROVE  /\ ReachableFrom(E, p) \in SUBSET Jobs
           /\ p \in ReachableFrom(E, p)
           /\ ClosedUnder(E, ReachableFrom(E, p))
<1>1. ReachableFrom(E, p) \in SUBSET Jobs /\ p \in ReachableFrom(E, p)
  BY DEF ReachableFrom
<1>2. ASSUME NEW e \in E, e[1] \in ReachableFrom(E, p) PROVE e[2] \in ReachableFrom(E, p)
  <2>1. e[2] \in Jobs
    OBVIOUS
  <2>2. ASSUME NEW S \in SUBSET Jobs, p \in S, ClosedUnder(E, S) PROVE e[2] \in S
    <3>1. e[1] \in S
      BY <1>2, <2>2 DEF ReachableFrom
    <3> QED
      BY <2>2, <3>1 DEF ClosedUnder
  <2> QED
    BY <2>1, <2>2 DEF ReachableFrom
<1> QED
  BY <1>1, <1>2 DEF ClosedUnder

\* A closed set that holds p holds all that is reached from p.
LEMMA ClosedSetsHoldTheReach ==
    ASSUME NEW E, NEW p, NEW S \in SUBSET Jobs, p \in S, ClosedUnder(E, S)
    PROVE  ReachableFrom(E, p) \subseteq S
BY DEF ReachableFrom

Acyclic(E) == \A e \in E : e[1] \notin ReachableFrom(E, e[2])

\* Removing edges closes more sets, so it makes no cycle.
LEMMA FewerEdgesStayAcyclic ==
    ASSUME NEW E \in SUBSET (Jobs \X Jobs), NEW F \in SUBSET E, Acyclic(E)
    PROVE  Acyclic(F)
<1> SUFFICES ASSUME NEW e \in F PROVE e[1] \notin ReachableFrom(F, e[2])
  BY DEF Acyclic
<1> DEFINE S == ReachableFrom(E, e[2])
<1>1. e \in E /\ e[2] \in Jobs
  OBVIOUS
<1>2. S \in SUBSET Jobs /\ e[2] \in S /\ ClosedUnder(E, S)
  BY <1>1, ReachIsClosed
<1>3. ClosedUnder(F, S)
  BY <1>2 DEF ClosedUnder
<1>4. e[1] \notin S
  BY <1>1 DEF Acyclic
<1> HIDE DEF S
<1> QED
  BY <1>2, <1>3, <1>4, ClosedSetsHoldTheReach

\* The check of the source is enough: an edge whose source is not reached from its target
\* closes no cycle, neither through itself nor through the edges that were there.
LEMMA CheckedEdgeStaysAcyclic ==
    ASSUME NEW E \in SUBSET (Jobs \X Jobs), Acyclic(E), NEW j \in Jobs, NEW p \in Jobs,
           j \notin ReachableFrom(E, p)
    PROVE  Acyclic(E \cup {<<j, p>>})
<1> DEFINE F == E \cup {<<j, p>>}
           R == ReachableFrom(E, p)
<1>1. R \in SUBSET Jobs /\ p \in R /\ ClosedUnder(E, R)
  BY ReachIsClosed
<1>2. ClosedUnder(F, R)
  BY <1>1 DEF ClosedUnder
<1>3. j \notin ReachableFrom(F, p)
  <2> HIDE DEF F
  <2>1. ReachableFrom(F, p) \subseteq R
    BY <1>1, <1>2, ClosedSetsHoldTheReach
  <2> QED
    BY <2>1
<1>4. ASSUME NEW e \in E PROVE e[1] \notin ReachableFrom(F, e[2])
  <2> DEFINE T == ReachableFrom(E, e[2])
  <2>1. e[1] \in Jobs /\ e[2] \in Jobs
    OBVIOUS
  <2>2. T \in SUBSET Jobs /\ e[2] \in T /\ ClosedUnder(E, T)
    BY <2>1, ReachIsClosed
  <2>3. e[1] \notin T
    BY DEF Acyclic
  <2>4. CASE j \notin T
    <3>1. ClosedUnder(F, T)
      BY <2>2, <2>4 DEF ClosedUnder
    <3> HIDE DEF F, T
    <3> QED
      BY <2>2, <2>3, <3>1, ClosedSetsHoldTheReach
  <2>5. CASE j \in T
    <3>1. e[1] \notin R
      <4> SUFFICES ASSUME e[1] \in R PROVE FALSE
        OBVIOUS
      <4>1. e[2] \in R
        BY <1>1 DEF ClosedUnder
      <4> HIDE DEF R
      <4>2. T \subseteq R
        BY <1>1, <4>1, ClosedSetsHoldTheReach
      <4> QED
        BY <2>5, <4>2 DEF R
    <3>2. T \cup R \in SUBSET Jobs /\ e[2] \in T \cup R /\ ClosedUnder(F, T \cup R)
      <4> HIDE DEF R, T
      <4> QED
        BY <1>1, <2>2 DEF ClosedUnder
    <3> HIDE DEF F, R, T
    <3>3. ReachableFrom(F, e[2]) \subseteq T \cup R
      BY <3>2, ClosedSetsHoldTheReach
    <3> QED
      BY <2>3, <3>1, <3>3
  <2> QED
    BY <2>4, <2>5
<1> QED
  BY <1>3, <1>4 DEF Acyclic

\* Edges out of a Job that no edge enters close no cycle: why the source need not search
\* when the Job is new.
LEMMA NewSourceStaysAcyclic ==
    ASSUME NEW E \in SUBSET (Jobs \X Jobs), Acyclic(E), NEW j \in Jobs, NEW P \in SUBSET Jobs,
           j \notin P, \A e \in E : e[1] # j /\ e[2] # j
    PROVE  Acyclic(E \cup ({j} \X P))
<1> DEFINE F == E \cup ({j} \X P)
<1>1. ASSUME NEW e \in E PROVE e[1] \notin ReachableFrom(F, e[2])
  <2> DEFINE T == ReachableFrom(E, e[2])
             S == T \ {j}
  <2>1. T \in SUBSET Jobs /\ e[2] \in T /\ ClosedUnder(E, T)
    BY ReachIsClosed
  <2>2. e[1] \notin T
    BY DEF Acyclic
  <2> HIDE DEF T
  <2>3. S \in SUBSET Jobs /\ e[2] \in S /\ ClosedUnder(F, S)
    BY <2>1 DEF ClosedUnder
  <2> HIDE DEF F
  <2>4. ReachableFrom(F, e[2]) \subseteq S
    BY <2>3, ClosedSetsHoldTheReach
  <2> QED
    BY <2>2, <2>4
<1>2. ASSUME NEW p \in P PROVE j \notin ReachableFrom(F, p)
  <2> DEFINE S == Jobs \ {j}
  <2>1. S \in SUBSET Jobs /\ p \in S /\ ClosedUnder(F, S)
    BY DEF ClosedUnder
  <2> HIDE DEF F, S
  <2>2. ReachableFrom(F, p) \subseteq S
    BY <2>1, ClosedSetsHoldTheReach
  <2> QED
    BY <2>2 DEF S
<1>3. \A e \in F : e \in E \/ (e[1] = j /\ e[2] \in P)
  OBVIOUS
<1> QED
  BY <1>1, <1>2, <1>3 DEF Acyclic

------------------------------------------------------------------------------
(* What one step may do to the graph and to generations. *)

\* A Job that has a row keeps one.
LEMMA JobsStay ==
    ASSUME TypeOK, JobSlots, Next, NEW j \in Jobs, Exists(j)
    PROVE  Exists(j)'
<1> USE DEF Exists
<1>0. job \in [Jobs -> JobRecord]
  BY DEF TypeOK
<1>1. CASE UNCHANGED job
  BY <1>1
<1>2. ASSUME NEW a \in Attempts, Ends(a) PROVE Exists(j)'
  <2>1. /\ a[1] \in Jobs
        /\ \E state \in Ended : job' = IF job[a[1]].authority = a[2]
                                       THEN [job EXCEPT ![a[1]].state = state, ![a[1]].authority = 0]
                                       ELSE job
    BY <1>2 DEF Ends, AttemptEnds, EndAttempt, Attempts
  <2> QED
    BY <1>0, <2>1 DEF Ended, JobRecord
<1>3. ASSUME NEW a \in Attempts, MarkAttemptRunning(a) \/ RequestCancel(a) PROVE Exists(j)'
  <2>1. a[1] \in Jobs
    BY DEF Attempts
  <2> QED
    BY <1>0, <1>3, <2>1 DEF MarkAttemptRunning, RequestCancel, JobRecord
<1>4. ASSUME NEW i \in Jobs, Publishes(i) \/ ReplaceAttempt(i) PROVE Exists(j)'
  BY <1>0, <1>4 DEF Publishes, PublishAttempt, ReplaceAttempt
<1>5. CASE EarlyJobsOnly
  BY <1>5 DEF EarlyJobsOnly
<1> QED
  BY <1>1, <1>2, <1>3, <1>4, <1>5, StepKinds DEF CallOnly

\* A Job gets a generation only where an Attempt is published for it.
LEMMA GenerationStep ==
    ASSUME TypeOK, JobSlots, Next, NEW j \in Jobs, job'[j].generation > 0,
           ~(job[j].generation > 0)
    PROVE  Publishes(j) \/ ReplaceAttempt(j)
<1>0. job \in [Jobs -> JobRecord]
  BY DEF TypeOK
<1>1. CASE UNCHANGED job
  BY <1>1
<1>2. ASSUME NEW a \in Attempts, Ends(a) PROVE FALSE
  <2>1. /\ a[1] \in Jobs
        /\ \E state \in Ended : job' = IF job[a[1]].authority = a[2]
                                       THEN [job EXCEPT ![a[1]].state = state, ![a[1]].authority = 0]
                                       ELSE job
    BY <1>2 DEF Ends, AttemptEnds, EndAttempt, Attempts
  <2> QED
    BY <1>0, <2>1 DEF JobRecord
<1>3. ASSUME NEW a \in Attempts, MarkAttemptRunning(a) \/ RequestCancel(a) PROVE FALSE
  <2>1. a[1] \in Jobs
    BY DEF Attempts
  <2> QED
    BY <1>0, <1>3, <2>1 DEF MarkAttemptRunning, RequestCancel, JobRecord
<1>4. ASSUME NEW i \in Jobs, Publishes(i) \/ ReplaceAttempt(i), i # j PROVE FALSE
  BY <1>0, <1>4 DEF Publishes, PublishAttempt, ReplaceAttempt
<1>5. CASE EarlyJobsOnly
  BY <1>5 DEF EarlyJobsOnly
<1> QED
  BY <1>1, <1>2, <1>3, <1>4, <1>5, StepKinds DEF CallOnly

\* The operations that write the graph.
LEMMA GraphWriters ==
    ASSUME TypeOK, JobSlots, Next
    PROVE  \/ UNCHANGED deps
           \/ \E j, p \in Jobs : SetDependency(j, p) \/ RemoveDependency(j, p)
           \/ \E a \in Attempts, j \in Jobs, P \in SUBSET Jobs :
                 CreateChildJob(a, j, P) \/ AdmitChild(a, j, P)
<1>1. CASE JobStep
  BY <1>1 DEF JobStep, CreateJob, SetJobEligible, DispatchJob, ReplaceAttempt, AdmitJob, BindAttempt
<1>2. CASE AttemptStep
  BY <1>2 DEF AttemptStep, MarkAttemptRunning, RequestCancel, AbandonAttempt, SettleCancel,
     FinishAttempt
<1>3. CASE CallStep
  BY <1>3 DEF CallStep, MarkDispatchQueued, QueueHandoffFails, ClaimCall, FailCall,
     FenceDispatchIntent, CreateCall, FinishCall, FailNativeToolCall, DeliverLate,
     DeliverAuthoritative, DeliverDuplicate
<1> QED
  BY <1>1, <1>2, <1>3 DEF Next

\* The Job that a child is created as has a row afterwards.
LEMMA ChildExists ==
    ASSUME TypeOK, NEW a, NEW j \in Jobs, NEW P, CreateChildJob(a, j, P) \/ AdmitChild(a, j, P)
    PROVE  Exists(j)' /\ ~Exists(j) /\ deps' = deps \cup ({j} \X P) /\ \A p \in P : Exists(p)
<1>1. CASE CreateChildJob(a, j, P)
  BY <1>1 DEF CreateChildJob, PendingJob, Exists, TypeOK
<1>2. CASE AdmitChild(a, j, P)
  BY <1>2 DEF AdmitChild, PublishAttempt, Exists, TypeOK
<1> QED
  BY <1>1, <1>2

\* An edge is old, or its Job has not started, or it was admitted with the edge.
LEMMA EdgeStep ==
    ASSUME TypeOK, JobSlots, Next, NEW e \in deps', e \notin deps
    PROVE  /\ e[1] \in Jobs /\ e[2] \in Jobs /\ Exists(e[1])' /\ Exists(e[2])
           /\ job'[e[1]].generation > 0 => job[e[2]].state = "completed"
<1>1. CASE UNCHANGED deps
  BY <1>1
<1>2. ASSUME NEW j \in Jobs, NEW p \in Jobs, SetDependency(j, p)
      PROVE  /\ e[1] \in Jobs /\ e[2] \in Jobs /\ Exists(e[1])' /\ Exists(e[2])
             /\ ~(job'[e[1]].generation > 0)
  <2>1. e = <<j, p>>
    BY <1>2 DEF SetDependency
  <2>2. job[j].generation = 0 /\ Exists(j) /\ Exists(p) /\ job' = job
    BY <1>2, NoGenerationYet DEF SetDependency, Exists
  <2> QED
    BY <2>1, <2>2 DEF Exists
<1>3. ASSUME NEW j \in Jobs, NEW p \in Jobs, RemoveDependency(j, p) PROVE FALSE
  BY <1>3 DEF RemoveDependency
<1>4. ASSUME NEW a \in Attempts, NEW j \in Jobs, NEW P \in SUBSET Jobs,
             CreateChildJob(a, j, P) \/ AdmitChild(a, j, P)
      PROVE  /\ e[1] \in Jobs /\ e[2] \in Jobs /\ Exists(e[1])' /\ Exists(e[2])
             /\ job'[e[1]].generation > 0 => job[e[2]].state = "completed"
  <2>0. Exists(j)' /\ deps' = deps \cup ({j} \X P) /\ \A p \in P : Exists(p)
    BY <1>4, ChildExists
  <2>1. e[1] = j /\ e[2] \in P /\ Exists(j)' /\ Exists(e[2])
    BY <2>0 DEF Exists
  <2>2. CreateChildJob(a, j, P) => ~(job'[j].generation > 0)
    BY DEF CreateChildJob, PendingJob, TypeOK
  <2> QED
    BY <1>4, <2>1, <2>2 DEF AdmitChild
<1> QED
  BY <1>1, <1>2, <1>3, <1>4, GraphWriters

------------------------------------------------------------------------------
(* No Job starts before its prerequisites. *)

\* Every edge joins Jobs that have a row.
LEMMA NextEdges ==
    ASSUME TypeOK, JobSlots, EdgesJoinJobs, Next
    PROVE  EdgesJoinJobs'
<1> SUFFICES ASSUME NEW e \in deps' PROVE Exists(e[1])' /\ Exists(e[2])'
  BY DEF EdgesJoinJobs
<1>1. CASE e \in deps
  <2>1. e[1] \in Jobs /\ e[2] \in Jobs /\ Exists(e[1]) /\ Exists(e[2])
    BY <1>1 DEF EdgesJoinJobs, TypeOK
  <2> QED
    BY <2>1, JobsStay
<1>2. CASE e \notin deps
  BY <1>2, EdgeStep, JobsStay
<1> QED
  BY <1>1, <1>2

\* A Job that starts has its prerequisites completed, and has no edges if it is new.
LEMMA StartedWithPrerequisites ==
    ASSUME TypeOK, JobSlots, EdgesJoinJobs, Next, NEW e \in deps,
           job'[e[1]].generation > 0, ~(job[e[1]].generation > 0)
    PROVE  job[e[2]].state = "completed"
<1> DEFINE j == e[1]
<1>1. j \in Jobs /\ e[2] \in Jobs /\ e = <<j, e[2]>> /\ Exists(j)
  BY DEF TypeOK, EdgesJoinJobs
<1>2. DependenciesSatisfied(j) => job[e[2]].state = "completed"
  BY <1>1 DEF DependenciesSatisfied, PrerequisitesOf
<1>3. CASE ReplaceAttempt(j)
  BY <1>2, <1>3 DEF ReplaceAttempt
<1>4. CASE Publishes(j)
  BY <1>1, <1>2, <1>4 DEF Publishes
<1> QED
  BY <1>1, <1>3, <1>4, GenerationStep

\* Every transaction keeps the prerequisites of the started Jobs completed.
LEMMA NextPrerequisites ==
    ASSUME TypeOK, JobSlots, EdgesJoinJobs, PrerequisitesHeld, Next
    PROVE  PrerequisitesHeld'
<1> SUFFICES ASSUME NEW e \in deps', job'[e[1]].generation > 0
             PROVE  job'[e[2]].state = "completed"
  BY DEF PrerequisitesHeld
<1>1. e[2] \in Jobs
  BY EdgeStep DEF TypeOK
<1>2. job[e[2]].state = "completed"
  BY EdgeStep, StartedWithPrerequisites DEF PrerequisitesHeld
<1> QED
  BY <1>1, <1>2, FinishedJobStays

\* The Jobs an edge joins have rows, from the beginning.
THEOREM EdgesStayJoined == Spec => []EdgesJoinJobs
<1>1. Init => EdgesJoinJobs
  BY DEF Init, EdgesJoinJobs
<1>2. TypeOK /\ JobSlots /\ EdgesJoinJobs /\ [Next]_vars => EdgesJoinJobs'
  <2>1. EdgesJoinJobs /\ UNCHANGED vars => EdgesJoinJobs'
    BY DEF EdgesJoinJobs, Exists, vars
  <2> QED
    BY <2>1, NextEdges
<1> QED
  BY TypeCorrect, SlotsHold, <1>1, <1>2, PTL DEF Spec

\* A Job that ever had an Attempt has all its prerequisites completed: dispatch and
\* replacement check them, edges are added only before the first Attempt, admission is of a
\* Job no edge enters, and what is completed stays so.
THEOREM PrerequisitesStayHeld == Spec => []PrerequisitesHeld
<1>1. Init => PrerequisitesHeld
  BY DEF Init, PrerequisitesHeld
<1>2. TypeOK /\ JobSlots /\ EdgesJoinJobs /\ PrerequisitesHeld /\ [Next]_vars
         => PrerequisitesHeld'
  <2>1. PrerequisitesHeld /\ UNCHANGED vars => PrerequisitesHeld'
    BY DEF PrerequisitesHeld, vars
  <2> QED
    BY <2>1, NextPrerequisites
<1> QED
  BY TypeCorrect, SlotsHold, EdgesStayJoined, <1>1, <1>2, PTL DEF Spec

------------------------------------------------------------------------------
(* No Job waits for itself. *)

\* Every transaction keeps the dependency graph acyclic.
LEMMA NextAcyclic ==
    ASSUME TypeOK, JobSlots, EdgesJoinJobs, Acyclic(deps), Next
    PROVE  Acyclic(deps')
<1>0. deps \in SUBSET (Jobs \X Jobs)
  BY DEF TypeOK
<1>1. CASE UNCHANGED deps
  BY <1>1
<1>2. ASSUME NEW j \in Jobs, NEW p \in Jobs, SetDependency(j, p) PROVE Acyclic(deps')
  BY <1>0, <1>2, CheckedEdgeStaysAcyclic DEF SetDependency
<1>3. ASSUME NEW j \in Jobs, NEW p \in Jobs, RemoveDependency(j, p) PROVE Acyclic(deps')
  <2>1. deps' \in SUBSET deps
    BY <1>3 DEF RemoveDependency
  <2> QED
    BY <1>0, <2>1, FewerEdgesStayAcyclic
<1>4. ASSUME NEW a \in Attempts, NEW j \in Jobs, NEW P \in SUBSET Jobs,
             CreateChildJob(a, j, P) \/ AdmitChild(a, j, P)
      PROVE  Acyclic(deps')
  <2>1. ~Exists(j) /\ deps' = deps \cup ({j} \X P) /\ \A p \in P : Exists(p)
    BY <1>4, ChildExists
  <2>2. j \notin P /\ \A e \in deps : e[1] # j /\ e[2] # j
    BY <2>1 DEF EdgesJoinJobs
  <2> QED
    BY <1>0, <2>1, <2>2, NewSourceStaysAcyclic
<1> QED
  BY <1>1, <1>2, <1>3, <1>4, GraphWriters

\* No Job is, through any chain of prerequisites, its own prerequisite: the reachability
\* check before an edge is added is enough, and Jobs created with their edges need none.
THEOREM DependenciesStayAcyclic == Spec => []AcyclicDependencies
<1>1. Init => AcyclicDependencies
  BY DEF Init, AcyclicDependencies
<1>2. TypeOK /\ JobSlots /\ EdgesJoinJobs /\ AcyclicDependencies /\ [Next]_vars
         => AcyclicDependencies'
  <2>1. AcyclicDependencies <=> Acyclic(deps)
    BY DEF AcyclicDependencies, Acyclic
  <2>2. AcyclicDependencies' <=> Acyclic(deps')
    BY DEF AcyclicDependencies, Acyclic
  <2>3. UNCHANGED vars => deps' = deps
    BY DEF vars
  <2> QED
    BY <2>1, <2>2, <2>3, NextAcyclic
<1> QED
  BY TypeCorrect, SlotsHold, EdgesStayJoined, <1>1, <1>2, PTL DEF Spec

\* The inductive invariant of the authority, all parts together.
THEOREM AuthorityInvariant == Spec => []Inv
BY TypeCorrect, SlotsHold, WorkHolds, CompletedWorkStaysSettled, EdgesStayJoined,
   PrerequisitesStayHeld, DependenciesStayAcyclic, PTL DEF Inv
==============================================================================
