------------------------ MODULE ProviderDispatch_proofs ------------------------
(***************************************************************************)
(* Proofs about the threads of ProviderDispatch, for any number of Jobs,   *)
(* Calls, rounds, exits and any lane capacity: that they touch the tables  *)
(* only through the operations of ExecutionAuthority, that the record of a *)
(* begun effect survives them, that they do not settle a turn twice, and   *)
(* that none is forgotten: whichever of launcher, worker, canceller, tool  *)
(* worker, recovery and another process acts, a turn that has not ended is *)
(* held by a thread or a queue that will end it.                           *)
(***************************************************************************)
EXTENDS ProviderDispatch, ExecutionAuthority_proofs

---------------------------------------------------------------------------------
(* Every step of a thread is an operation of the authority or leaves the      *)
(* tables alone.                                                              *)

\* The turn of a Job is one of its Attempts.
LEMMA TurnsAreAttempts == \A j \in Jobs : Turn(j) \in Attempts
BY DispatchAssumption DEF Turn, Attempts, Generations

\* A committed Call belongs to an Attempt.
LEMMA OwnersAreAttempts ==
    ASSUME TypeOK
    PROVE  \A c \in Present : c \in Calls /\ Owner(c) \in Attempts
BY CallHasAttempt DEF Present, Owner

\* The operations the threads use, by what they are about.  A handoff fails and a
\* cancellation is confirmed only where a thread does so.
JobOperation == \E j \in Jobs : CreateJob(j) \/ DispatchJob(j) \/ ReplaceAttempt(j)
AttemptOperation ==
    \E a \in Attempts : \/ RequestCancel(a) \/ AbandonAttempt(a)
                        \/ \E succeeded \in BOOLEAN : FinishAttempt(a, succeeded)
CallOperation ==
    \E c \in Calls :
       \/ MarkDispatchQueued(c) \/ ClaimCall(c) \/ FailCall(c) \/ FenceDispatchIntent(c)
       \/ \E a \in Attempts, kind \in CallKinds : CreateCall(c, a, kind)
       \/ \E r \in Responses : FinishCall(c, r) \/ FailNativeToolCall(c, r)
FailedHandoff == WorkerSendsTool /\ QueueHandoffFails(provider.tool)
Confirmation ==
    \/ \E j \in Jobs : (LaunchConfirms(j) \/ CancelConfirms(j)) /\ SettleCancel(Turn(j), "cancelled")
    \/ WorkerConfirms /\ SettleCancel(Owner(provider.call), "cancelled")

Operation == JobOperation \/ AttemptOperation \/ CallOperation \/ FailedHandoff \/ Confirmation
             \/ UNCHANGED vars

\* The launching thread, the chat that cancels, and another process.
LEMMA LaunchOperates ==
    ASSUME Hands, NEW j \in Jobs,
           RegisterTurn(j) \/ LaunchStep(j) \/ CancelChat(j) \/ CancelStep(j) \/ ForgetChat(j)
             \/ ReplacedElsewhere(j)
    PROVE  Operation
<1> USE TurnsAreAttempts DEF tables, vars, Operation
<1>1. CASE LaunchCreatesJob(j) \/ LaunchDispatchesJob(j)
  BY <1>1 DEF LaunchCreatesJob, LaunchDispatchesJob, JobOperation
<1>2. CASE LaunchCreatesCall(j)
  <2>1. (\E c \in TurnCalls : CreateCall(c, Turn(j), "provider")) => CallOperation
    BY DispatchAssumption DEF CallOperation, CallKinds, SideEffects
  <2> QED
    BY <1>2, <2>1 DEF LaunchCreatesCall
<1>3. CASE LaunchMarksQueued(j) \/ LaunchRefused(j)
  <2>1. launcher[j].call \in Calls
    BY <1>3 DEF LaunchMarksQueued, LaunchRefused, Launching, Hands, LauncherHands, ProviderCalls,
       Present
  <2> QED
    BY <1>3, <2>1 DEF LaunchMarksQueued, LaunchRefused, CallOperation
<1>4. CASE LaunchUndone(j)
  BY <1>4 DEF LaunchUndone, AttemptOperation
<1>5. CASE LaunchRevokes(j) \/ CancelRevokes(j)
  BY <1>5 DEF LaunchRevokes, CancelRevokes, AttemptOperation
<1>6. CASE LaunchConfirms(j) \/ CancelConfirms(j)
  BY <1>6 DEF LaunchConfirms, CancelConfirms, Confirmation
<1>7. CASE ReplacedElsewhere(j)
  BY <1>7 DEF ReplacedElsewhere, JobOperation
<1>8. CASE \/ RegisterTurn(j) \/ LaunchAdmits(j) \/ LaunchSends(j) \/ LaunchHandedOff(j)
           \/ PublishTurn(j) \/ CancelChat(j) \/ CancelSignals(j) \/ ForgetChat(j)
  BY <1>8 DEF RegisterTurn, LaunchAdmits, LaunchSends, LaunchHandedOff, PublishTurn, CancelChat,
     CancelSignals, ForgetChat
<1> QED
  BY <1>1, <1>2, <1>3, <1>4, <1>5, <1>6, <1>7, <1>8 DEF LaunchStep, CancelStep

\* The provider worker.
LEMMA WorkerOperates ==
    ASSUME TypeOK, Hands, WorkerStep \/ WorkerTimesOut
    PROVE  Operation
<1> USE DEF tables, vars, Operation
<1>0. provider.pc # "idle" => provider.call \in Calls /\ Owner(provider.call) \in Attempts
  BY OwnersAreAttempts DEF Hands, WorkerHands
<1>1. CASE WorkerClaims
  BY <1>0, <1>1 DEF WorkerClaims, CallOperation
<1>2. CASE WorkerCreatesTool
  <2>1. ASSUME NEW t \in ToolCalls, NEW kind \in {"tool", "read"}, provider.pc = "tool",
               CreateCall(t, Owner(provider.call), kind)
        PROVE  CallOperation
    BY <1>0, <2>1 DEF CallOperation, CallKinds, SideEffects, ToolCalls
  <2> QED
    BY <1>2, <2>1 DEF WorkerCreatesTool
<1>3. CASE WorkerQueuesTool
  <2>1. provider.tool \in Calls
    BY <1>3 DEF WorkerQueuesTool, Hands, WorkerHands, Present
  <2> QED
    BY <1>3, <2>1 DEF WorkerQueuesTool, CallOperation
<1>4. CASE WorkerSendsTool
  BY <1>4 DEF WorkerSendsTool, FailedHandoff
<1>5. CASE WorkerSettles \/ FailsCall
  BY <1>0, <1>5 DEF WorkerSettles, FailsCall, CallOperation
<1>6. CASE WorkerFinishes \/ FailsAttempt \/ WorkerRevokes
  BY <1>0, <1>6 DEF WorkerFinishes, FailsAttempt, WorkerRevokes, AttemptOperation
<1>7. CASE WorkerConfirms
  BY <1>7 DEF WorkerConfirms, Confirmation
<1>8. CASE \/ WorkerTakes \/ WorkerGates \/ WorkerRound \/ WorkerReply \/ WorkerHandedTool
           \/ WorkerPolls \/ WorkerErrs \/ FailReads \/ WorkerTimesOut
  BY <1>8 DEF WorkerTakes, WorkerGates, WorkerRound, WorkerReply, WorkerHandedTool, WorkerPolls,
     WorkerErrs, FailReads, WorkerTimesOut, WorkerOnly
<1> QED
  BY <1>1, <1>2, <1>3, <1>4, <1>5, <1>6, <1>7, <1>8 DEF WorkerStep

\* The tool worker.
LEMMA ToolOperates ==
    ASSUME Hands, ToolStep
    PROVE  Operation
<1> USE DEF tables, vars, Operation
<1>0. tool.pc # "idle" => tool.call \in Calls
  BY DEF Hands, ToolHands, Present
<1>1. CASE ToolClaims \/ ToolEnds \/ ToolFailsUnclaimed \/ ToolFences
  BY <1>0, <1>1 DEF ToolClaims, ToolEnds, ToolFailsUnclaimed, ToolFences, CallOperation
<1>2. CASE ToolTakes \/ ToolChecks \/ ToolGates \/ ToolVerifies
  BY <1>2 DEF ToolTakes, ToolChecks, ToolGates, ToolVerifies, ToolOnly
<1> QED
  BY <1>1, <1>2 DEF ToolStep

\* The runtime, its recovery and the process.
LEMMA RuntimeOperates ==
    ASSUME DispatchTypeOK, RuntimeStep \/ StopRuntime \/ ProcessExits \/ (\E c \in Calls : Deliver(c))
    PROVE  Operation
<1> USE DEF tables, vars, Operation
<1>1. ASSUME NEW c \in Calls, ScanIntent(c) PROVE Operation
  BY <1>1 DEF ScanIntent, CallOperation
<1>2. CASE ScanAbandons
  BY <1>2 DEF ScanAbandons, DispatchTypeOK, AttemptOperation
<1>3. CASE \/ StartRuntime \/ ScanEnds \/ Requeue \/ JoinWorkers \/ StopRuntime \/ ProcessExits
           \/ (\E l \in Lanes : CloseLane(l)) \/ (\E c \in Calls : Deliver(c))
  BY <1>3 DEF StartRuntime, ScanEnds, Requeue, JoinWorkers, StopRuntime, ProcessExits, CloseLane,
     Deliver
<1> QED
  BY <1>1, <1>2, <1>3 DEF RuntimeStep

\* Whatever a thread does to the tables is one operation of the authority.
LEMMA StepOperates ==
    ASSUME DispatchTypeOK, Hands, DispatchNext
    PROVE  Operation
BY LaunchOperates, WorkerOperates, ToolOperates, RuntimeOperates DEF DispatchNext, DispatchTypeOK

\* Every step of a thread is a transaction of the authority or leaves its tables alone.
LEMMA StepRefines ==
    ASSUME DispatchTypeOK, Hands, DispatchNext
    PROVE  Next \/ UNCHANGED vars
<1>1. JobOperation => Next
  BY DEF JobOperation, Next, JobStep
<1>2. AttemptOperation => Next
  BY DEF AttemptOperation, Next, AttemptStep
<1>3. CallOperation => Next
  BY DEF CallOperation, Next, CallStep
<1>4. FailedHandoff => Next
  BY DEF FailedHandoff, WorkerSendsTool, Hands, WorkerHands, Present, Next, CallStep
<1>5. Confirmation => Next
  <2>1. WorkerConfirms => Owner(provider.call) \in Attempts
    BY OwnersAreAttempts DEF WorkerConfirms, Hands, WorkerHands, DispatchTypeOK
  <2> QED
    BY <2>1, TurnsAreAttempts DEF Confirmation, Next, AttemptStep
<1> QED
  BY <1>1, <1>2, <1>3, <1>4, <1>5, StepOperates DEF Operation

---------------------------------------------------------------------------------
(* What a step leaves of the rows. *)

\* The invariants of the tables hold after any step of a thread, and every row is left
\* alone, created or moved on.
LEMMA TablesStep ==
    ASSUME TypeOK, JobSlots, WorkSlots, Next \/ UNCHANGED vars
    PROVE  /\ TypeOK' /\ JobSlots' /\ WorkSlots'
           /\ \A c \in Calls : RowStep(c)
<1>1. CASE Next
  <2>1. TypeOK'
    BY <1>1, JobStepType, AttemptStepType, CallStepType DEF Next
  <2>2. JobSlots'
    BY <1>1, JobStepSlots, AttemptStepSlots, CallStepSlots DEF Next
  <2> QED
    BY <1>1, <2>1, <2>2, NextWork, NextRows
<1>2. CASE UNCHANGED vars
  <2>1. TypeOK' /\ JobSlots'
    BY <1>2, UnchangedSlots DEF TypeOK, vars
  <2>2. WorkSlots'
    BY <1>2, RowsLeftAlone DEF vars, WorkUntouched
  <2> QED
    BY <1>2, <2>1, <2>2 DEF vars, RowStep, Untouched
<1> QED
  BY <1>1, <1>2

\* A row is never deleted and keeps its Attempt and kind.
LEMMA RowsPersist ==
    ASSUME \A c \in Calls : RowStep(c)
    PROVE  /\ Present \subseteq Present' /\ ProviderCalls \subseteq ProviderCalls'
           /\ \A c \in Present : call'[c].attempt = call[c].attempt /\ call'[c].kind = call[c].kind
<1>1. ASSUME NEW c \in Present
      PROVE  c \in Present' /\ call'[c].attempt = call[c].attempt /\ call'[c].kind = call[c].kind
  <2>1. c \in Calls /\ call[c].state # "absent" /\ RowStep(c)
    BY DEF Present
  <2>2. CASE Untouched(c)
    BY <2>1, <2>2 DEF Untouched, Present
  <2>3. CASE RowMoves(c)
    BY <2>1, <2>3 DEF RowMoves, Present
  <2> QED
    BY <2>1, <2>2, <2>3 DEF RowStep, RowCreated
<1> QED
  BY <1>1 DEF ProviderCalls

---------------------------------------------------------------------------------
(* Types. *)

\* A step of a launch or of a cancelling chat writes its own place, the registration, the
\* admission and what is inside send.
LEMMA LaunchFrameType ==
    ASSUME DispatchTypeOK, TypeOK',
           UNCHANGED <<provider, tool, runtime, lane, scan, ready, history>>,
           launcher' \in [Jobs -> LauncherRecord], canceller' \in [Jobs -> CancellerPcs],
           chat' \in [Jobs -> {"none", "launching", "live"}],
           blocked' \subseteq Calls, admitted' \subseteq Calls, token' \subseteq Attempts
    PROVE  DispatchTypeOK'
BY DEF DispatchTypeOK, history

\* The threads of a turn, launching or cancelling, keep the types.
LEMMA LaunchType ==
    ASSUME DispatchTypeOK, Hands, TypeOK', NEW j \in Jobs,
           RegisterTurn(j) \/ LaunchStep(j) \/ CancelChat(j) \/ CancelStep(j) \/ ForgetChat(j)
             \/ ReplacedElsewhere(j)
    PROVE  DispatchTypeOK'
<1>0. /\ launcher \in [Jobs -> LauncherRecord] /\ canceller \in [Jobs -> CancellerPcs]
      /\ chat \in [Jobs -> {"none", "launching", "live"}]
      /\ blocked \subseteq Calls /\ admitted \subseteq Calls /\ token \subseteq Attempts
  BY DEF DispatchTypeOK
<1>a. {"idle", "registered", "pending", "dispatched", "calling", "admitted", "queued", "sending",
       "refused", "undo", "sent", "revoke", "confirm", "done"} \subseteq LauncherPcs
  BY DEF LauncherPcs
<1>b. ASSUME NEW pc \in LauncherPcs, LaunchTo(j, pc) PROVE launcher' \in [Jobs -> LauncherRecord]
  BY <1>0, <1>b DEF LaunchTo, LauncherRecord
<1>c. ASSUME NEW pc \in CancellerPcs, CancelTo(j, pc) PROVE canceller' \in [Jobs -> CancellerPcs]
  BY <1>0, <1>c DEF CancelTo
<1> USE DEF LaunchFrame, CancelFrame
<1>1. CASE RegisterTurn(j)
  <2>1. chat' \in [Jobs -> {"none", "launching", "live"}] /\ launcher' \in [Jobs -> LauncherRecord]
    BY <1>0, <1>a, <1>b, <1>1 DEF RegisterTurn
  <2> QED
    BY <1>0, <1>1, <2>1, LaunchFrameType DEF RegisterTurn
<1>2. CASE LaunchCreatesJob(j) \/ LaunchDispatchesJob(j)
  <2>1. launcher' \in [Jobs -> LauncherRecord]
    BY <1>a, <1>b, <1>2 DEF LaunchCreatesJob, LaunchDispatchesJob
  <2> QED
    BY <1>0, <1>2, <2>1, LaunchFrameType DEF LaunchCreatesJob, LaunchDispatchesJob
<1>3. CASE LaunchCreatesCall(j)
  <2>1. launcher' \in [Jobs -> LauncherRecord]
    BY <1>0, <1>a, <1>b, <1>3, DispatchAssumption DEF LaunchCreatesCall, LauncherRecord, Hand
  <2> QED
    BY <1>0, <1>3, <2>1, LaunchFrameType DEF LaunchCreatesCall
<1>4. CASE LaunchAdmits(j) \/ LaunchSends(j)
  <2>1. launcher[j].call \in Calls
    BY <1>4 DEF LaunchAdmits, LaunchSends, Launching, Hands, LauncherHands, ProviderCalls, Present
  <2>2. launcher' \in [Jobs -> LauncherRecord]
    BY <1>a, <1>b, <1>4 DEF LaunchAdmits, LaunchSends
  <2>3. blocked' \subseteq Calls /\ admitted' \subseteq Calls
    BY <1>0, <1>4, <2>1 DEF LaunchAdmits, LaunchSends
  <2> QED
    BY <1>0, <1>4, <2>2, <2>3, LaunchFrameType DEF LaunchAdmits, LaunchSends
<1>5. CASE LaunchMarksQueued(j) \/ LaunchRefused(j) \/ LaunchHandedOff(j)
  <2>1. launcher' \in [Jobs -> LauncherRecord]
    BY <1>a, <1>b, <1>5 DEF LaunchMarksQueued, LaunchRefused, LaunchHandedOff
  <2> QED
    BY <1>0, <1>5, <2>1, LaunchFrameType DEF LaunchMarksQueued, LaunchRefused, LaunchHandedOff
<1>6. CASE LaunchUndone(j) \/ PublishTurn(j)
  <2>1. launcher' \in [Jobs -> LauncherRecord]
    BY <1>a, <1>b, <1>6 DEF LaunchUndone, PublishTurn
  <2>2. chat' \in [Jobs -> {"none", "launching", "live"}]
    BY <1>0, <1>6 DEF LaunchUndone, PublishTurn
  <2> QED
    BY <1>0, <1>6, <2>1, <2>2, LaunchFrameType DEF LaunchUndone, PublishTurn
<1>7. CASE LaunchRevokes(j) \/ LaunchConfirms(j)
  <2>1. launcher' \in [Jobs -> LauncherRecord]
    BY <1>a, <1>b, <1>7 DEF LaunchRevokes, LaunchConfirms
  <2> QED
    BY <1>0, <1>7, <2>1, LaunchFrameType DEF LaunchRevokes, LaunchConfirms
<1>8. CASE CancelChat(j) \/ CancelRevokes(j) \/ CancelSignals(j) \/ CancelConfirms(j) \/ ForgetChat(j)
  <2>1. canceller' \in [Jobs -> CancellerPcs]
    <3>1. {"idle", "revoke", "signal", "signalRevoked", "confirm"} \subseteq CancellerPcs
      BY DEF CancellerPcs
    <3> QED
      BY <1>0, <1>c, <1>8, <3>1
         DEF CancelChat, CancelRevokes, CancelSignals, CancelConfirms, ForgetChat
  <2>2. chat' \in [Jobs -> {"none", "launching", "live"}] /\ token' \subseteq Attempts
    BY <1>0, <1>8, TurnsAreAttempts
       DEF CancelChat, CancelRevokes, CancelSignals, CancelConfirms, ForgetChat
  <2>3. UNCHANGED <<launcher, blocked, admitted, provider, tool, runtime, lane, scan, ready, history>>
    BY <1>8 DEF CancelChat, CancelRevokes, CancelSignals, CancelConfirms, ForgetChat
  <2> QED
    BY <1>0, <2>1, <2>2, <2>3, LaunchFrameType
<1>9. CASE ReplacedElsewhere(j)
  BY <1>0, <1>9, LaunchFrameType DEF ReplacedElsewhere, threads, memory
<1> QED
  BY <1>1, <1>2, <1>3, <1>4, <1>5, <1>6, <1>7, <1>8, <1>9 DEF LaunchStep, CancelStep

\* What the head of a queue is and what its tail keeps.
LEMMA Taken ==
    ASSUME DispatchTypeOK, NEW l \in Lanes, Take(l)
    PROVE  /\ Head(lane[l].queue) \in Calls /\ lane' \in [Lanes -> LaneRecord]
           /\ lane'[l].queue = Tail(lane[l].queue)
           /\ \A k \in Lanes : k # l => lane'[k] = lane[k]
           /\ \A k \in Lanes : lane'[k].open = lane[k].open
<1> DEFINE q == lane[l].queue
<1>1. q \in Seq(Calls) /\ Len(q) <= Capacity /\ q # <<>> /\ lane[l].open \in BOOLEAN
  BY DEF DispatchTypeOK, LaneRecord, BoundedQueue, Take
<1>2. Head(q) \in Calls /\ Tail(q) \in Seq(Calls) /\ Len(Tail(q)) = Len(q) - 1 /\ Len(q) \in Nat
  BY <1>1
<1>3. Tail(q) \in BoundedQueue
  BY <1>1, <1>2, DispatchAssumption DEF BoundedQueue
<1>4. lane \in [Lanes -> LaneRecord] /\ lane' = [lane EXCEPT ![l].queue = Tail(q)]
  BY DEF DispatchTypeOK, Take
<1> HIDE DEF q
<1>5. lane[l] \in LaneRecord /\ [lane[l] EXCEPT !.queue = Tail(q)] \in LaneRecord
  BY <1>3, <1>4 DEF LaneRecord
<1>6. lane'[l] = [lane[l] EXCEPT !.queue = Tail(q)] /\ lane' \in [Lanes -> LaneRecord]
  BY <1>4, <1>5
<1>7. lane'[l].queue = Tail(q) /\ lane'[l].open = lane[l].open
  BY <1>5, <1>6 DEF LaneRecord
<1> QED
  BY <1>2, <1>4, <1>6, <1>7 DEF q

\* A step of the provider worker writes its own record, the lanes, what is inside send and
\* the history of effects.
LEMMA WorkerFrameType ==
    ASSUME DispatchTypeOK, TypeOK', WorkerFrame, provider' \in WorkerRecord,
           lane' = lane \/ lane' \in [Lanes -> LaneRecord],
           blocked' = blocked \/ blocked' \subseteq Calls, begun' = begun \/ begun' \subseteq Calls
    PROVE  DispatchTypeOK'
BY DEF DispatchTypeOK, WorkerFrame

\* The worker moves to a program counter it has.
LEMMA WorkerToType ==
    ASSUME provider \in WorkerRecord, NEW pc \in WorkerPcs, WorkerTo(pc)
    PROVE  provider' \in WorkerRecord
BY DEF WorkerTo, WorkerRecord

\* The provider worker keeps the types.
LEMMA WorkerType ==
    ASSUME DispatchTypeOK, Hands, TypeOK', WorkerStep \/ WorkerTimesOut
    PROVE  DispatchTypeOK'
<1>0. provider \in WorkerRecord /\ NoCall \in Hand /\ Calls \subseteq Hand /\ blocked \subseteq Calls
      /\ begun \subseteq Calls
  BY DEF DispatchTypeOK, Hand
<1>a. {"idle", "gate", "claim", "round", "wire", "tool", "toolQueue", "toolSend", "toolBlocked", "wait",
       "settle", "finish", "error", "fail", "failCall", "failAttempt", "revoke", "confirm"}
         \subseteq WorkerPcs
  BY DEF WorkerPcs
<1>1. CASE WorkerTakes
  <2>1. Head(lane["provider"].queue) \in Calls /\ lane' \in [Lanes -> LaneRecord]
    BY <1>1, Taken DEF WorkerTakes, Lanes
  <2>2. provider' \in WorkerRecord
    <3>1. provider' = [pc |-> "gate", call |-> Head(lane["provider"].queue), claimed |-> FALSE,
                       tool |-> NoCall, round |-> 0]
      BY <1>1 DEF WorkerTakes, IdleWorker
    <3>2. 0 \in 0..MaxRounds
      BY DispatchAssumption
    <3> QED
      BY <1>0, <1>a, <2>1, <3>1, <3>2 DEF WorkerRecord
  <2> QED
    BY <1>1, <2>1, <2>2, WorkerFrameType DEF WorkerTakes
<1>2. CASE WorkerGates \/ WorkerReply \/ WorkerPolls
  <2>1. WorkerOnly /\ \E pc \in WorkerPcs : WorkerTo(pc)
    BY <1>a, <1>2 DEF WorkerGates, WorkerReply, WorkerPolls, AfterTools
  <2> QED
    BY <1>0, <2>1, WorkerToType, WorkerFrameType DEF WorkerOnly
<1>3. CASE WorkerClaims
  <2>1. provider.call \in Calls
    BY <1>3 DEF WorkerClaims, Hands, WorkerHands, Present
  <2>2. provider' \in WorkerRecord
    BY <1>0, <1>a, <1>3, WorkerToType DEF WorkerClaims, WorkerRecord
  <2> QED
    BY <1>0, <1>3, <2>1, <2>2, WorkerFrameType DEF WorkerClaims
<1>4. CASE WorkerRound
  <2>1. provider' \in WorkerRecord
    <3>1. provider.round + 1 \in 0..MaxRounds \/ ~(provider.round < MaxRounds)
      BY <1>0, DispatchAssumption DEF WorkerRecord
    <3> QED
      BY <1>0, <1>a, <1>4, <3>1, WorkerToType DEF WorkerRound, WorkerRecord
  <2> QED
    BY <1>4, <2>1, WorkerFrameType DEF WorkerRound, WorkerOnly
<1>5. CASE WorkerCreatesTool
  <2>1. provider' \in WorkerRecord
    BY <1>0, <1>a, <1>5, WorkerToType DEF WorkerCreatesTool, ToolCalls, WorkerRecord
  <2> QED
    BY <1>5, <2>1, WorkerFrameType DEF WorkerCreatesTool
<1>6. CASE WorkerQueuesTool \/ WorkerSendsTool \/ WorkerHandedTool
  <2>1. provider.tool \in Calls
    BY <1>6 DEF WorkerQueuesTool, WorkerSendsTool, WorkerHandedTool, Hands, WorkerHands, Present
  <2>2. \E pc \in WorkerPcs : WorkerTo(pc)
    BY <1>a, <1>6 DEF WorkerQueuesTool, WorkerSendsTool, WorkerHandedTool
  <2>3. /\ WorkerFrame /\ lane' = lane /\ begun' = begun
        /\ blocked' = blocked \/ blocked' = blocked \cup {provider.tool}
    BY <1>6 DEF WorkerQueuesTool, WorkerSendsTool, WorkerHandedTool, WorkerOnly
  <2> QED
    BY <1>0, <2>1, <2>2, <2>3, WorkerToType, WorkerFrameType
<1>7. CASE WorkerErrs \/ FailReads \/ WorkerTimesOut
  <2>1. WorkerOnly /\ \E pc \in WorkerPcs : WorkerTo(pc)
    BY <1>a, <1>7 DEF WorkerErrs, FailReads, WorkerTimesOut
  <2> QED
    BY <1>0, <2>1, WorkerToType, WorkerFrameType DEF WorkerOnly
<1>8. CASE WorkerSettles \/ FailsCall
  <2>1. \E pc \in WorkerPcs : WorkerTo(pc)
    BY <1>a, <1>8 DEF WorkerSettles, FailsCall
  <2> QED
    BY <1>0, <1>8, <2>1, WorkerToType, WorkerFrameType DEF WorkerSettles, FailsCall
<1>9. CASE WorkerFinishes \/ FailsAttempt \/ WorkerRevokes \/ WorkerConfirms
  <2>1. \E pc \in WorkerPcs : WorkerTo(pc)
    BY <1>a, <1>9 DEF WorkerFinishes, FailsAttempt, WorkerRevokes, WorkerConfirms
  <2> QED
    BY <1>0, <1>9, <2>1, WorkerToType, WorkerFrameType
       DEF WorkerFinishes, FailsAttempt, WorkerRevokes, WorkerConfirms
<1> QED
  BY <1>1, <1>2, <1>3, <1>4, <1>5, <1>6, <1>7, <1>8, <1>9 DEF WorkerStep

\* The tool worker keeps the types.
LEMMA ToolType ==
    ASSUME DispatchTypeOK, Hands, TypeOK', ToolStep
    PROVE  DispatchTypeOK'
<1>0. tool \in ToolRecord /\ begun \subseteq Calls /\ lane \in [Lanes -> LaneRecord]
  BY DEF DispatchTypeOK
<1>a. {"idle", "check", "gate", "claim", "effect", "error", "fence", "verify", "dead"} \subseteq ToolPcs
  BY DEF ToolPcs
<1>b. ASSUME NEW pc \in ToolPcs, ToolTo(pc) PROVE tool' \in ToolRecord
  BY <1>0, <1>b DEF ToolTo, ToolRecord
<1>c. ASSUME ToolFrame, tool' \in ToolRecord, lane' = lane \/ lane' \in [Lanes -> LaneRecord],
             begun' = begun \/ begun' \subseteq Calls
      PROVE  DispatchTypeOK'
  BY <1>c DEF DispatchTypeOK, ToolFrame
<1>1. CASE ToolTakes
  <2>1. Head(lane["tool"].queue) \in Calls /\ lane' \in [Lanes -> LaneRecord]
    BY <1>1, Taken DEF ToolTakes, Lanes
  <2>2. tool' \in ToolRecord
    BY <1>0, <1>a, <1>1, <2>1 DEF ToolTakes, IdleTool, ToolRecord, Hand
  <2> QED
    BY <1>1, <1>c, <2>1, <2>2 DEF ToolTakes
<1>2. CASE ToolChecks \/ ToolGates \/ ToolEnds
  <2>1. (\E pc \in ToolPcs : ToolTo(pc)) /\ ToolFrame /\ lane' = lane /\ begun' = begun
    BY <1>a, <1>2 DEF ToolChecks, ToolGates, ToolEnds, ToolOnly
  <2> QED
    BY <1>b, <1>c, <2>1
<1>3. CASE ToolClaims
  <2>1. tool.call \in Calls
    BY <1>3 DEF ToolClaims, Hands, ToolHands, Present
  <2>2. tool' \in ToolRecord
    BY <1>0, <1>a, <1>b, <1>3 DEF ToolClaims, ToolRecord
  <2> QED
    BY <1>0, <1>3, <1>c, <2>1, <2>2 DEF ToolClaims
<1>4. CASE ToolFailsUnclaimed \/ ToolFences
  <2>1. \E pc \in ToolPcs : ToolTo(pc)
    BY <1>a, <1>4 DEF ToolFailsUnclaimed, ToolFences
  <2> QED
    BY <1>4, <1>b, <1>c, <2>1 DEF ToolFailsUnclaimed, ToolFences
<1>5. CASE ToolVerifies
  <2>1. \E pc \in ToolPcs : ToolTo(pc)
    BY <1>a, <1>5 DEF ToolVerifies
  <2>2. lane' \in [Lanes -> LaneRecord]
    BY <1>0, <1>5 DEF ToolVerifies, Lanes, LaneRecord
  <2> QED
    BY <1>5, <1>b, <1>c, <2>1, <2>2 DEF ToolVerifies
<1> QED
  BY <1>1, <1>2, <1>3, <1>4, <1>5 DEF ToolStep

\* Where an envelope is delivered, and what the channel holds then.
LaneOf(c) == IF call[c].kind = "provider" THEN "provider" ELSE "tool"

\* Delivering appends the Call to its lane and may take the first off the ready list.
LEMMA Delivered ==
    ASSUME DispatchTypeOK, NEW c \in Calls, Deliver(c)
    PROVE  /\ LaneOf(c) \in Lanes /\ lane' \in [Lanes -> LaneRecord]
           /\ lane'[LaneOf(c)].queue = Append(lane[LaneOf(c)].queue, c)
           /\ \A k \in Lanes : k # LaneOf(c) => lane'[k] = lane[k]
           /\ ready' = ready \/ (ready # <<>> /\ ready' = Tail(ready))
<1> DEFINE l == LaneOf(c)
           q == lane[l].queue
<1>1. l \in Lanes /\ lane \in [Lanes -> LaneRecord] /\ Len(q) < Capacity
      /\ lane' = [lane EXCEPT ![l].queue = Append(q, c)]
  BY DEF DispatchTypeOK, Deliver, LaneOf, Lanes
<1>2. q \in Seq(Calls)
  BY <1>1 DEF LaneRecord, BoundedQueue
<1> HIDE DEF q, l
<1>3. Append(q, c) \in Seq(Calls) /\ Len(Append(q, c)) = Len(q) + 1 /\ Len(q) \in Nat
  BY <1>2
<1>4. Append(q, c) \in BoundedQueue
  BY <1>1, <1>3, DispatchAssumption DEF BoundedQueue
<1>5. lane[l] \in LaneRecord /\ [lane[l] EXCEPT !.queue = Append(q, c)] \in LaneRecord
  BY <1>1, <1>4 DEF LaneRecord
<1>6. lane'[l] = [lane[l] EXCEPT !.queue = Append(q, c)] /\ lane' \in [Lanes -> LaneRecord]
  BY <1>1, <1>5
<1>7. lane'[l].queue = Append(q, c)
  BY <1>5, <1>6 DEF LaneRecord
<1>8. ready' = ready \/ (ready # <<>> /\ ready' = Tail(ready))
  BY DEF Deliver
<1> QED
  BY <1>1, <1>6, <1>7, <1>8 DEF q, l

\* A step of the runtime leaves the threads alone and no admission, registration or begun
\* effect changes.
LEMMA RuntimeFrameType ==
    ASSUME DispatchTypeOK, TypeOK', UNCHANGED <<threads, admitted, chat, exits, begun>>,
           runtime' \in {"off", "scanning", "up", "stopping", "joined"},
           lane' \in [Lanes -> LaneRecord], blocked' \subseteq Calls,
           token' \subseteq Attempts, stranded' \subseteq Attempts,
           scan' \in [todo : SUBSET Calls, abandon : Attempts \cup {NoAttempt}],
           ready' \in Seq(Calls)
    PROVE  DispatchTypeOK'
BY DEF DispatchTypeOK, threads

\* The runtime, its recovery scan and the exits keep the types.
LEMMA RuntimeType ==
    ASSUME DispatchTypeOK, Hands, TypeOK',
           RuntimeStep \/ StopRuntime \/ ProcessExits \/ (\E c \in Calls : Deliver(c))
    PROVE  DispatchTypeOK'
<1>0. /\ runtime \in {"off", "scanning", "up", "stopping", "joined"}
      /\ lane \in [Lanes -> LaneRecord] /\ blocked \subseteq Calls
      /\ token \subseteq Attempts /\ stranded \subseteq Attempts
      /\ scan \in [todo : SUBSET Calls, abandon : Attempts \cup {NoAttempt}]
      /\ ready \in Seq(Calls) /\ <<>> \in Seq(Calls)
  BY DEF DispatchTypeOK
<1>a. [l \in Lanes |-> OpenLane] \in [Lanes -> LaneRecord] /\ [l \in Lanes |-> ClosedLane] \in [Lanes -> LaneRecord]
  <2>1. <<>> \in BoundedQueue
    BY DispatchAssumption DEF BoundedQueue
  <2> QED
    BY <2>1 DEF OpenLane, ClosedLane, LaneRecord
<1>b. scan.abandon \in Attempts \cup {NoAttempt} /\ scan.todo \in SUBSET Calls
  BY <1>0
<1> USE DEF RuntimeFrame
<1>1. CASE StartRuntime
  <2>1. scan' \in [todo : SUBSET Calls, abandon : Attempts \cup {NoAttempt}]
    BY <1>1 DEF StartRuntime
  <2> QED
    BY <1>0, <1>a, <1>1, <2>1, RuntimeFrameType DEF StartRuntime
<1>2. ASSUME NEW c \in Calls, ScanIntent(c) PROVE DispatchTypeOK'
  <2>1. Owner(c) \in Attempts
    BY <1>2, OwnersAreAttempts DEF ScanIntent, Hands, QueueHands, DispatchTypeOK
  <2>2. scan' \in [todo : SUBSET Calls, abandon : Attempts \cup {NoAttempt}]
    BY <1>b, <1>2, <2>1 DEF ScanIntent
  <2>3. Append(ready, c) \in Seq(Calls)
    BY <1>0
  <2>4. stranded' \subseteq Attempts /\ ready' \in Seq(Calls)
    BY <1>0, <1>2, <2>1, <2>3 DEF ScanIntent
  <2> QED
    BY <1>0, <1>2, <2>2, <2>4, RuntimeFrameType DEF ScanIntent
<1>3. CASE ScanAbandons
  <2>1. scan' \in [todo : SUBSET Calls, abandon : Attempts \cup {NoAttempt}]
    BY <1>0, <1>3 DEF ScanAbandons
  <2> QED
    BY <1>0, <1>3, <2>1, RuntimeFrameType DEF ScanAbandons
<1>4. CASE ScanEnds \/ JoinWorkers \/ StopRuntime
  BY <1>0, <1>4, RuntimeFrameType DEF ScanEnds, JoinWorkers, StopRuntime
<1>5. CASE Requeue
  <2>1. ready # <<>> /\ Head(ready) \in Calls
    BY <1>0, <1>5 DEF Requeue
  <2>2. \A i \in 1..Len(ready) : Owner(ready[i]) \in Attempts
    BY OwnersAreAttempts DEF Hands, QueueHands, ProviderCalls, DispatchTypeOK
  <2>a. /\ blocked' = blocked \/ blocked' = blocked \cup {Head(ready)}
        /\ \/ stranded' = stranded
           \/ stranded' = stranded \cup {Owner(ready[i]) : i \in 1..Len(ready)}
        /\ ready' = ready \/ ready' = <<>>
    BY <1>5 DEF Requeue
  <2>3. blocked' \subseteq Calls /\ stranded' \subseteq Attempts /\ ready' \in Seq(Calls)
    BY <1>0, <2>1, <2>2, <2>a
  <2> QED
    BY <1>0, <1>5, <2>3, RuntimeFrameType DEF Requeue
<1>6. ASSUME NEW l \in Lanes, CloseLane(l) PROVE DispatchTypeOK'
  <2>1. lane' \in [Lanes -> LaneRecord]
    BY <1>0, <1>6 DEF CloseLane, LaneRecord
  <2> QED
    BY <1>0, <1>6, <2>1, RuntimeFrameType DEF CloseLane
<1>7. CASE ProcessExits
  <2>1. launcher' \in [Jobs -> LauncherRecord] /\ canceller' \in [Jobs -> CancellerPcs]
    BY <1>7 DEF ProcessExits, IdleLauncher, LauncherRecord, LauncherPcs, CancellerPcs, Hand
  <2>2. provider' \in WorkerRecord /\ tool' \in ToolRecord
    <3>1. 0 \in 0..MaxRounds
      BY DispatchAssumption
    <3> QED
      BY <1>7, <3>1
         DEF ProcessExits, IdleWorker, IdleTool, WorkerRecord, ToolRecord, WorkerPcs, ToolPcs, Hand
  <2>3. scan' \in [todo : SUBSET Calls, abandon : Attempts \cup {NoAttempt}]
    BY <1>7 DEF ProcessExits
  <2>4. stranded' \subseteq Attempts
    BY <1>0, <1>7, TurnsAreAttempts DEF ProcessExits, Turns
  <2>5. exits' \in 0..MaxExits
    BY <1>7, DispatchAssumption DEF ProcessExits, DispatchTypeOK
  <2>6. lane' \in [Lanes -> LaneRecord] /\ chat' \in [Jobs -> {"none", "launching", "live"}]
    BY <1>a, <1>7 DEF ProcessExits
  <2>7. /\ runtime' = "off" /\ blocked' = {} /\ token' = {} /\ ready' = <<>>
        /\ admitted' = admitted /\ begun' = begun
    BY <1>7 DEF ProcessExits
  <2> HIDE DEF ProcessExits
  <2> QED
    BY <1>0, <2>1, <2>2, <2>3, <2>4, <2>5, <2>6, <2>7 DEF DispatchTypeOK
<1>8. ASSUME NEW c \in Calls, Deliver(c) PROVE DispatchTypeOK'
  <2>1. lane' \in [Lanes -> LaneRecord]
    BY <1>8, Delivered
  <2>2. ready' \in Seq(Calls)
    BY <1>0, <1>8, Delivered
  <2>3. blocked' \subseteq Calls /\ UNCHANGED <<threads, runtime, admitted, token, chat, scan, exits, begun, stranded>>
    BY <1>0, <1>8 DEF Deliver, history
  <2> QED
    BY <1>0, <2>1, <2>2, <2>3, RuntimeFrameType
<1> QED
  BY <1>1, <1>2, <1>3, <1>4, <1>5, <1>6, <1>7, <1>8 DEF RuntimeStep

\* Every step keeps the types.
LEMMA StepType ==
    ASSUME DispatchTypeOK, Hands, TypeOK', DispatchNext
    PROVE  DispatchTypeOK'
BY LaunchType, WorkerType, ToolType, RuntimeType DEF DispatchNext

---------------------------------------------------------------------------------
(* Footprints: who may write what. *)

ChatStep(j) == CancelChat(j) \/ CancelStep(j) \/ ForgetChat(j)

\* A launch step leaves the state of the other threads alone.
LEMMA LaunchFootprint ==
    ASSUME NEW j \in Jobs, RegisterTurn(j) \/ LaunchStep(j)
    PROVE  /\ UNCHANGED <<canceller, provider, tool, runtime, lane, scan, ready, exits, begun, stranded>>
           /\ LaunchSends(j) \/ blocked' = blocked
BY DEF RegisterTurn, LaunchStep, LaunchCreatesJob, LaunchDispatchesJob, LaunchCreatesCall,
   LaunchAdmits, LaunchMarksQueued, LaunchSends, LaunchHandedOff, LaunchRefused, LaunchUndone,
   PublishTurn, LaunchRevokes, LaunchConfirms, LaunchFrame, history

\* A chat step leaves workers, lanes and recovery alone.
LEMMA ChatFootprint ==
    ASSUME NEW j \in Jobs, ChatStep(j) \/ ReplacedElsewhere(j)
    PROVE  /\ UNCHANGED <<launcher, provider, tool, runtime, lane, blocked, admitted, scan, ready,
                          exits, begun, stranded>>
           /\ ReplacedElsewhere(j) => UNCHANGED canceller
BY DEF ChatStep, CancelChat, CancelStep, CancelRevokes, CancelSignals, CancelConfirms, ForgetChat,
   CancelFrame, ReplacedElsewhere, threads, memory, history

\* A step of the provider worker leaves launches, recovery and the tool worker alone.
LEMMA WorkerFootprint ==
    ASSUME WorkerStep \/ WorkerTimesOut
    PROVE  /\ UNCHANGED <<launcher, canceller, tool, runtime, scan, ready>>
           /\ WorkerSendsTool \/ blocked' = blocked
           /\ WorkerTakes \/ lane' = lane
           /\ WorkerClaims \/ begun' = begun
BY DEF WorkerStep, WorkerTakes, WorkerGates, WorkerClaims, WorkerRound, WorkerReply,
   WorkerCreatesTool, WorkerQueuesTool, WorkerSendsTool, WorkerHandedTool, WorkerPolls,
   WorkerTimesOut, WorkerErrs, WorkerSettles, WorkerFinishes, FailReads, FailsCall, FailsAttempt,
   WorkerRevokes, WorkerConfirms, WorkerFrame, WorkerOnly

\* A step of the tool worker leaves launches, recovery and the provider worker alone.
LEMMA ToolFootprint ==
    ASSUME ToolStep
    PROVE  /\ UNCHANGED <<launcher, canceller, provider, runtime, blocked, scan, ready>>
           /\ ToolTakes \/ ToolVerifies \/ lane' = lane
           /\ ToolClaims \/ begun' = begun
BY DEF ToolStep, ToolTakes, ToolChecks, ToolGates, ToolClaims, ToolEnds, ToolFailsUnclaimed,
   ToolFences, ToolVerifies, ToolFrame, ToolOnly

\* The runtime leaves launches and workers alone, and each of its variables has few writers.
LEMMA RuntimeFootprint ==
    ASSUME RuntimeStep \/ StopRuntime \/ (\E c \in Calls : Deliver(c))
    PROVE  /\ UNCHANGED <<launcher, canceller, provider, tool, begun>>
           /\ Requeue \/ (\E c \in Calls : Deliver(c)) \/ blocked' = blocked
           /\ StartRuntime \/ (\E l \in Lanes : CloseLane(l)) \/ (\E c \in Calls : Deliver(c))
                \/ lane' = lane
           /\ Requeue \/ (\E c \in Calls : ScanIntent(c) \/ Deliver(c)) \/ ready' = ready
           /\ StartRuntime \/ ScanAbandons \/ (\E c \in Calls : ScanIntent(c)) \/ scan' = scan
BY DEF RuntimeStep, StartRuntime, ScanAbandons, ScanEnds, Requeue, JoinWorkers, ScanIntent,
   CloseLane, StopRuntime, Deliver, RuntimeFrame, threads, history

---------------------------------------------------------------------------------
(* What threads and queues hold has a row. *)

HoldingPcs == {"calling", "admitted", "queued", "sending", "refused"}
ToolPhase  == {"toolQueue", "toolSend", "toolBlocked", "wait"}

\* A Call is in a launcher's hand from the transaction that creates it.
LEMMA LauncherHandsStep ==
    ASSUME DispatchTypeOK, LauncherHands, \A c \in Calls : RowStep(c), DispatchNext
    PROVE  LauncherHands'
<1>0. ProviderCalls \subseteq ProviderCalls' /\ launcher \in [Jobs -> LauncherRecord]
  BY RowsPersist DEF DispatchTypeOK
<1>1. CASE launcher' = launcher
  BY <1>0, <1>1 DEF LauncherHands
<1>2. CASE ProcessExits
  BY <1>2 DEF ProcessExits, IdleLauncher, LauncherHands
<1>3. ASSUME NEW j \in Jobs, RegisterTurn(j) \/ LaunchStep(j) PROVE LauncherHands'
  <2>1. ASSUME NEW pc, LaunchTo(j, pc), pc \in HoldingPcs => launcher[j].pc \in HoldingPcs
        PROVE  LauncherHands'
    <3>1. /\ \A i \in Jobs : i # j => launcher'[i] = launcher[i]
          /\ launcher'[j].pc = pc /\ launcher'[j].call = launcher[j].call
      BY <1>0, <2>1 DEF LaunchTo, LauncherRecord
    <3> QED
      BY <1>0, <2>1, <3>1 DEF LauncherHands, HoldingPcs
  <2>2. ASSUME NEW c \in TurnCalls, CreateCall(c, Turn(j), "provider"),
               launcher' = [launcher EXCEPT ![j] = [pc |-> "calling", call |-> c]]
        PROVE  LauncherHands'
    <3>1. c \in ProviderCalls'
      BY <2>2, DispatchAssumption DEF CreateCall, ProviderCalls, Present, DispatchTypeOK, TypeOK,
         CallTable
    <3>2. /\ \A i \in Jobs : i # j => launcher'[i] = launcher[i]
          /\ launcher'[j].call = c
      BY <1>0, <2>2
    <3> QED
      BY <1>0, <3>1, <3>2 DEF LauncherHands
  <2>3. CASE LaunchAdmits(j) \/ LaunchMarksQueued(j) \/ LaunchSends(j)
    BY <2>1, <2>3 DEF LaunchAdmits, LaunchMarksQueued, LaunchSends, Launching, HoldingPcs
  <2>4. CASE LaunchCreatesCall(j)
    BY <2>1, <2>2, <2>4 DEF LaunchCreatesCall, HoldingPcs
  <2>5. CASE \/ RegisterTurn(j) \/ LaunchCreatesJob(j) \/ LaunchDispatchesJob(j)
             \/ LaunchHandedOff(j) \/ LaunchRefused(j) \/ LaunchUndone(j) \/ PublishTurn(j)
             \/ LaunchRevokes(j) \/ LaunchConfirms(j)
    <3>1. \E pc \in {"registered", "pending", "dispatched", "sent", "undo", "done", "revoke", "confirm"} :
             LaunchTo(j, pc)
      BY <2>5 DEF RegisterTurn, LaunchCreatesJob, LaunchDispatchesJob, LaunchHandedOff,
         LaunchRefused, LaunchUndone, PublishTurn, LaunchRevokes, LaunchConfirms
    <3> QED
      BY <2>1, <3>1 DEF HoldingPcs
  <2> QED
    BY <1>3, <2>3, <2>4, <2>5 DEF LaunchStep
<1> QED
  BY <1>1, <1>2, <1>3, ChatFootprint, WorkerFootprint, ToolFootprint, RuntimeFootprint
     DEF DispatchNext, ChatStep

\* Only Take puts a Call in a worker's hand, and only WorkerCreatesTool a tool Call.
WorkerKeeps == /\ provider'.call = provider.call /\ provider'.tool = provider.tool
               /\ provider'.pc # "idle" => provider.pc # "idle"
               /\ provider'.pc \in ToolPhase => provider.pc \in ToolPhase

\* A step of the provider worker takes a Call, creates a tool Call or keeps both.
LEMMA WorkerStepKinds ==
    ASSUME DispatchTypeOK, WorkerStep \/ WorkerTimesOut
    PROVE  WorkerTakes \/ WorkerKeeps \/ (WorkerCreatesTool /\ provider'.pc = "toolQueue")
<1>0. provider \in WorkerRecord
  BY DEF DispatchTypeOK
<1>1. ASSUME NEW pc, WorkerTo(pc), provider.pc # "idle", pc \in ToolPhase => provider.pc \in ToolPhase
      PROVE  WorkerKeeps
  BY <1>0, <1>1 DEF WorkerTo, WorkerKeeps, WorkerRecord
<1>2. CASE WorkerClaims
  <2>1. provider' = [provider EXCEPT !.pc = "round", !.claimed = TRUE] \/ WorkerTo("fail")
    BY <1>2 DEF WorkerClaims
  <2> QED
    BY <1>0, <1>1, <1>2, <2>1 DEF WorkerClaims, WorkerKeeps, WorkerRecord, ToolPhase
<1>3. CASE WorkerRound
  BY <1>0, <1>1, <1>3 DEF WorkerRound, WorkerKeeps, WorkerRecord, ToolPhase
<1>4. CASE WorkerCreatesTool
  BY <1>0, <1>1, <1>4 DEF WorkerCreatesTool, WorkerRecord, ToolPhase
<1>5. CASE WorkerQueuesTool \/ WorkerSendsTool \/ WorkerHandedTool
  BY <1>1, <1>5 DEF WorkerQueuesTool, WorkerSendsTool, WorkerHandedTool, ToolPhase
<1>6. CASE WorkerReply \/ WorkerPolls
  <2>1. provider.pc # "idle" /\ \E pc \in {"round", "tool", "settle", "error"} : WorkerTo(pc)
    BY <1>6 DEF WorkerReply, WorkerPolls, AfterTools
  <2> QED
    BY <1>1, <2>1 DEF ToolPhase
<1>7. CASE \/ WorkerGates \/ WorkerErrs \/ WorkerSettles \/ WorkerFinishes \/ WorkerTimesOut
           \/ WorkerRevokes \/ WorkerConfirms
  <2>1. /\ provider.pc # "idle"
        /\ \E pc \in {"idle", "claim", "fail", "finish", "error", "confirm"} : WorkerTo(pc)
    BY <1>7 DEF WorkerGates, WorkerErrs, WorkerSettles, WorkerFinishes, WorkerTimesOut,
       WorkerRevokes, WorkerConfirms
  <2> QED
    BY <1>1, <2>1 DEF ToolPhase
<1>8. CASE FailReads \/ FailsCall \/ FailsAttempt
  <2>1. /\ provider.pc # "idle"
        /\ \E pc \in {"idle", "revoke", "failCall", "failAttempt"} : WorkerTo(pc)
    BY <1>8 DEF FailReads, FailsCall, FailsAttempt
  <2> QED
    BY <1>1, <2>1 DEF ToolPhase
<1> QED
  BY <1>2, <1>3, <1>4, <1>5, <1>6, <1>7, <1>8 DEF WorkerStep

\* The provider worker goes on holding committed Calls.
LEMMA WorkerHandsStep ==
    ASSUME DispatchTypeOK, Hands, \A c \in Calls : RowStep(c), DispatchNext
    PROVE  WorkerHands'
<1>0. /\ Present \subseteq Present' /\ WorkerHands /\ provider \in WorkerRecord
      /\ \A c \in Present : call'[c].kind = call[c].kind
  BY RowsPersist DEF DispatchTypeOK, Hands
<1>1. CASE WorkerKeeps
  BY <1>0, <1>1 DEF WorkerKeeps, WorkerHands, ToolPhase
<1>2. CASE ProcessExits
  BY <1>2 DEF ProcessExits, IdleWorker, WorkerHands
<1>3. CASE WorkerTakes
  <2> DEFINE q == lane["provider"].queue
  <2>1. q \in Seq(Calls) /\ q # <<>>
    BY <1>3 DEF WorkerTakes, Take, DispatchTypeOK, LaneRecord, BoundedQueue, Lanes
  <2>2. Head(q) \in Present
    BY <2>1 DEF Hands, QueueHands, Lanes
  <2>3. provider'.pc = "gate" /\ provider'.call = Head(q)
    BY <1>3 DEF WorkerTakes, IdleWorker
  <2> QED
    BY <1>0, <2>2, <2>3 DEF WorkerHands
<1>4. CASE WorkerCreatesTool /\ provider'.pc = "toolQueue"
  <2> PICK t \in ToolCalls, kind \in {"tool", "read"} :
             /\ CreateCall(t, Owner(provider.call), kind)
             /\ provider' = [provider EXCEPT !.pc = "toolQueue", !.tool = t]
    BY <1>0, <1>4 DEF WorkerCreatesTool, WorkerTo, WorkerRecord
  <2>1. t \in Present' /\ call'[t].kind # "provider"
    BY DEF CreateCall, Present, ToolCalls, DispatchTypeOK, TypeOK, CallTable
  <2>2. provider'.tool = t /\ provider'.call = provider.call
    BY <1>0 DEF WorkerRecord
  <2>3. provider.pc # "idle"
    BY <1>4 DEF WorkerCreatesTool
  <2> QED
    BY <1>0, <2>1, <2>2, <2>3 DEF WorkerHands
<1>5. CASE provider' = provider
  BY <1>1, <1>5 DEF WorkerKeeps
<1> QED
  BY <1>1, <1>2, <1>3, <1>4, <1>5, WorkerStepKinds, LaunchFootprint, ChatFootprint, ToolFootprint,
     RuntimeFootprint DEF DispatchNext, ChatStep

\* The tool worker keeps its Call until it takes the next.
ToolKeeps == tool'.call = tool.call /\ (tool'.pc # "idle" => tool.pc # "idle")

\* A step of the tool worker takes a Call or keeps the one it holds.
LEMMA ToolStepKinds ==
    ASSUME DispatchTypeOK, ToolStep
    PROVE  ToolTakes \/ ToolKeeps
<1>0. tool \in ToolRecord
  BY DEF DispatchTypeOK
<1>1. ASSUME NEW pc, ToolTo(pc), tool.pc # "idle" PROVE ToolKeeps
  BY <1>0, <1>1 DEF ToolTo, ToolKeeps, ToolRecord
<1>2. CASE ToolClaims
  <2>1. tool' = [tool EXCEPT !.pc = "effect", !.claimed = TRUE] \/ ToolTo("error")
    BY <1>2 DEF ToolClaims
  <2> QED
    BY <1>0, <1>1, <1>2, <2>1 DEF ToolClaims, ToolKeeps, ToolRecord
<1>3. CASE ToolChecks \/ ToolGates \/ ToolEnds \/ ToolFailsUnclaimed \/ ToolFences \/ ToolVerifies
  <2>1. tool.pc # "idle" /\ \E pc : ToolTo(pc)
    BY <1>3 DEF ToolChecks, ToolGates, ToolEnds, ToolFailsUnclaimed, ToolFences, ToolVerifies
  <2> QED
    BY <1>1, <2>1
<1> QED
  BY <1>2, <1>3 DEF ToolStep

\* The tool worker goes on holding a committed Call.
LEMMA ToolHandsStep ==
    ASSUME DispatchTypeOK, Hands, \A c \in Calls : RowStep(c), DispatchNext
    PROVE  ToolHands'
<1>0. Present \subseteq Present' /\ ToolHands
  BY RowsPersist DEF Hands
<1>1. CASE ToolKeeps
  BY <1>0, <1>1 DEF ToolKeeps, ToolHands
<1>2. CASE ProcessExits
  BY <1>2 DEF ProcessExits, IdleTool, ToolHands
<1>3. CASE ToolTakes
  <2> DEFINE q == lane["tool"].queue
  <2>1. q \in Seq(Calls) /\ q # <<>>
    BY <1>3 DEF ToolTakes, Take, DispatchTypeOK, LaneRecord, BoundedQueue, Lanes
  <2>2. Head(q) \in Present
    BY <2>1 DEF Hands, QueueHands, Lanes
  <2>3. tool'.call = Head(q)
    BY <1>3 DEF ToolTakes, IdleTool
  <2> QED
    BY <1>0, <2>2, <2>3 DEF ToolHands
<1>4. CASE tool' = tool
  BY <1>1, <1>4 DEF ToolKeeps
<1> QED
  BY <1>1, <1>2, <1>3, <1>4, ToolStepKinds, LaunchFootprint, ChatFootprint, WorkerFootprint,
     RuntimeFootprint DEF DispatchNext, ChatStep

\* Elements of what is left of a sequence, and of one with an element more.
LEMMA TailElements ==
    ASSUME NEW S, NEW q \in Seq(S), q # <<>>
    PROVE  \A i \in 1..Len(Tail(q)) : i + 1 \in 1..Len(q) /\ Tail(q)[i] = q[i + 1]
OBVIOUS

\* The elements of an appended sequence are the old ones and the new one.
LEMMA AppendElements ==
    ASSUME NEW S, NEW q \in Seq(S), NEW x \in S
    PROVE  \A i \in 1..Len(Append(q, x)) : (i \in 1..Len(q) /\ Append(q, x)[i] = q[i]) \/ Append(q, x)[i] = x
OBVIOUS

\* What a step may put inside send: the launcher's Call, the worker's tool or the next
\* intent to requeue.
LEMMA BlockedStep ==
    ASSUME DispatchTypeOK, Hands, DispatchNext, NEW c \in blocked', c \notin blocked
    PROVE  /\ c \in Present
           /\ c \in ProviderCalls \/ (WorkerSendsTool /\ c = provider.tool)
<1>1. ASSUME NEW j \in Jobs, LaunchSends(j) PROVE c \in ProviderCalls
  BY <1>1 DEF LaunchSends, Launching, Hands, LauncherHands
<1>2. CASE WorkerSendsTool
  BY <1>2 DEF WorkerSendsTool, Hands, WorkerHands
<1>3. CASE Requeue
  <2>0. ready # <<>> /\ (blocked' = blocked \/ blocked' = blocked \cup {Head(ready)})
    BY <1>3 DEF Requeue
  <2>1. ready # <<>> /\ ready \in Seq(Calls) /\ c = Head(ready)
    BY <2>0 DEF DispatchTypeOK
  <2> QED
    BY <2>1 DEF Hands, QueueHands, ProviderCalls
<1>4. (\E d \in Calls : Deliver(d)) \/ ProcessExits \/ blocked' = blocked => FALSE
  BY DEF Deliver, ProcessExits
<1> QED
  BY <1>1, <1>2, <1>3, <1>4, LaunchFootprint, ChatFootprint, WorkerFootprint, ToolFootprint,
     RuntimeFootprint DEF DispatchNext, ChatStep, ProviderCalls

\* What a step may put in a lane was inside send, and belongs to that lane.
LEMMA LaneStep ==
    ASSUME DispatchTypeOK, DispatchNext, NEW l \in Lanes, NEW i \in 1..Len(lane'[l].queue)
    PROVE  \/ \E k \in 1..Len(lane[l].queue) : lane'[l].queue[i] = lane[l].queue[k]
           \/ lane'[l].queue[i] \in blocked /\ LaneOf(lane'[l].queue[i]) = l
<1>0. \A k \in Lanes : lane[k].queue \in Seq(Calls)
  BY DEF DispatchTypeOK, LaneRecord, BoundedQueue
<1>1. CASE lane'[l].queue = lane[l].queue
  BY <1>1
<1>2. ASSUME NEW c \in Calls, Deliver(c)
      PROVE  \/ \E k \in 1..Len(lane[l].queue) : lane'[l].queue[i] = lane[l].queue[k]
             \/ lane'[l].queue[i] \in blocked /\ LaneOf(lane'[l].queue[i]) = l
  <2>1. CASE l = LaneOf(c)
    <3>1. lane'[l].queue = Append(lane[l].queue, c) /\ c \in blocked
      BY <1>2, <2>1, Delivered DEF Deliver
    <3> QED
      BY <1>0, <2>1, <3>1, AppendElements
  <2>2. CASE l # LaneOf(c)
    BY <1>1, <1>2, <2>2, Delivered
  <2> QED
    BY <2>1, <2>2
<1>3. ASSUME NEW t \in Lanes, Take(t)
      PROVE  \E k \in 1..Len(lane[l].queue) : lane'[l].queue[i] = lane[l].queue[k]
  <2>1. CASE l = t
    <3>1. lane'[l].queue = Tail(lane[l].queue) /\ lane[l].queue # <<>>
      BY <1>3, <2>1, Taken DEF Take
    <3> QED
      BY <1>0, <3>1, TailElements
  <2>2. CASE l # t
    BY <1>1, <1>3, <2>2, Taken
  <2> QED
    BY <2>1, <2>2
<1>4. CASE StartRuntime \/ ProcessExits
  <2>1. lane'[l].queue = <<>>
    BY <1>4 DEF StartRuntime, ProcessExits, OpenLane, ClosedLane
  <2> QED
    BY <2>1
<1>5. CASE ToolVerifies \/ \E k \in Lanes : CloseLane(k)
  <2>1. lane \in [Lanes -> LaneRecord]
    BY DEF DispatchTypeOK
  <2>2. PICK k \in Lanes, open \in BOOLEAN : lane' = [lane EXCEPT ![k].open = open]
    BY <1>5 DEF ToolVerifies, CloseLane, Lanes
  <2>3. lane'[l] = lane[l] \/ lane'[l] = [lane[l] EXCEPT !.open = open]
    BY <2>1, <2>2
  <2>4. lane'[l].queue = lane[l].queue
    BY <2>1, <2>3 DEF LaneRecord
  <2> QED
    BY <1>1, <2>4
<1> QED
  BY <1>1, <1>2, <1>3, <1>4, <1>5, LaunchFootprint, ChatFootprint, WorkerFootprint, ToolFootprint,
     RuntimeFootprint DEF DispatchNext, ChatStep, WorkerTakes, ToolTakes, Lanes

\* Lanes, blocked producers, scan and ready list go on holding committed Calls.
LEMMA QueueHandsStep ==
    ASSUME DispatchTypeOK, WorkSlots, Hands, \A c \in Calls : RowStep(c), DispatchNext
    PROVE  QueueHands'
<1>0. Present \subseteq Present' /\ ProviderCalls \subseteq ProviderCalls' /\ QueueHands
  BY RowsPersist DEF Hands
<1>1. blocked' \subseteq Present'
  BY <1>0, BlockedStep DEF QueueHands
<1>2. ASSUME NEW l \in Lanes, NEW i \in 1..Len(lane'[l].queue) PROVE lane'[l].queue[i] \in Present'
  BY <1>0, LaneStep DEF QueueHands
<1>3. ASSUME NEW i \in 1..Len(ready') PROVE ready'[i] \in ProviderCalls'
  <2>0. ready \in Seq(Calls)
    BY DEF DispatchTypeOK
  <2>1. CASE ready' = ready
    BY <1>0, <1>3, <2>1 DEF QueueHands
  <2>2. CASE ready # <<>> /\ ready' = Tail(ready)
    BY <1>0, <1>3, <2>0, <2>2, TailElements DEF QueueHands
  <2>3. CASE ready' = <<>>
    BY <1>3, <2>3
  <2>4. ASSUME NEW c \in Calls, ScanIntent(c), ready' # ready PROVE ready'[i] \in ProviderCalls'
    <3>1. ready' = Append(ready, c) /\ c \in ProviderCalls
      BY <1>0, <2>4 DEF ScanIntent, QueueHands, ProviderCalls
    <3> QED
      BY <1>0, <1>3, <2>0, <3>1, AppendElements DEF QueueHands
  <2> QED
    BY <2>1, <2>2, <2>3, <2>4, Delivered, LaunchFootprint, ChatFootprint, WorkerFootprint,
       ToolFootprint, RuntimeFootprint DEF DispatchNext, ChatStep, Requeue, ProcessExits
<1>4. scan'.todo \subseteq Present'
  <2>0. scan \in [todo : SUBSET Calls, abandon : Attempts \cup {NoAttempt}]
    BY DEF DispatchTypeOK
  <2>1. CASE scan'.todo \subseteq scan.todo
    BY <1>0, <2>1 DEF QueueHands
  <2>2. CASE StartRuntime
    <3>1. \A c \in Calls : intent[c].state \in OpenIntent => c \in Present
      BY DEF WorkSlots, CallSlot, Present, OpenIntent
    <3> QED
      BY <1>0, <2>2, <3>1 DEF StartRuntime
  <2>3. (\E c \in Calls : ScanIntent(c)) \/ ScanAbandons \/ ProcessExits => scan'.todo \subseteq scan.todo
    BY <2>0 DEF ScanIntent, ScanAbandons, ProcessExits
  <2> QED
    BY <2>1, <2>2, <2>3, LaunchFootprint, ChatFootprint, WorkerFootprint, ToolFootprint,
       RuntimeFootprint DEF DispatchNext, ChatStep
<1> QED
  BY <1>1, <1>2, <1>3, <1>4 DEF QueueHands

\* Every step keeps what threads and queues hold committed.
LEMMA HandsStep ==
    ASSUME DispatchTypeOK, WorkSlots, Hands, \A c \in Calls : RowStep(c), DispatchNext
    PROVE  Hands'
BY LauncherHandsStep, WorkerHandsStep, ToolHandsStep, QueueHandsStep DEF Hands

---------------------------------------------------------------------------------
(* A tool Call that was not sent is nowhere else. *)

Unsent == {"toolQueue", "toolSend"}

\* The places of the provider worker that the invariants speak of have one entrance each.
LEMMA WorkerEnters ==
    ASSUME DispatchTypeOK, WorkerStep \/ WorkerTimesOut
    PROVE  /\ provider'.pc = "claim" => WorkerGates
           /\ provider'.pc = "confirm" => WorkerRevokes
           /\ provider'.pc \in Unsent => WorkerCreatesTool \/ WorkerQueuesTool
<1>0. provider \in WorkerRecord
  BY DEF DispatchTypeOK
<1>1. ASSUME NEW pc, WorkerTo(pc) PROVE provider'.pc = pc
  BY <1>0, <1>1 DEF WorkerTo, WorkerRecord
<1>2. CASE WorkerTakes \/ WorkerClaims \/ WorkerRound
  BY <1>0, <1>1, <1>2 DEF WorkerTakes, WorkerClaims, WorkerRound, IdleWorker, WorkerRecord, Unsent
<1>3. CASE WorkerReply \/ WorkerPolls
  <2>1. \E pc \in {"round", "tool", "settle", "error"} : WorkerTo(pc)
    BY <1>3 DEF WorkerReply, WorkerPolls, AfterTools
  <2> QED
    BY <1>1, <2>1 DEF Unsent
<1>4. CASE WorkerSendsTool \/ WorkerHandedTool \/ WorkerErrs \/ WorkerSettles \/ WorkerFinishes
           \/ WorkerTimesOut \/ WorkerConfirms
  <2>1. \E pc \in {"idle", "toolBlocked", "wait", "fail", "finish", "error"} : WorkerTo(pc)
    BY <1>4 DEF WorkerSendsTool, WorkerHandedTool, WorkerErrs, WorkerSettles, WorkerFinishes,
       WorkerTimesOut, WorkerConfirms
  <2> QED
    BY <1>1, <2>1 DEF Unsent
<1>5. CASE FailReads \/ FailsCall \/ FailsAttempt
  <2>1. \E pc \in {"idle", "revoke", "failCall", "failAttempt"} : WorkerTo(pc)
    BY <1>5 DEF FailReads, FailsCall, FailsAttempt
  <2> QED
    BY <1>1, <2>1 DEF Unsent
<1>6. CASE WorkerGates
  <2>1. \E pc \in {"idle", "claim", "fail"} : WorkerTo(pc)
    BY <1>6 DEF WorkerGates
  <2> QED
    BY <1>1, <1>6, <2>1 DEF Unsent
<1>7. CASE WorkerRevokes
  <2>1. \E pc \in {"idle", "confirm"} : WorkerTo(pc)
    BY <1>7 DEF WorkerRevokes
  <2> QED
    BY <1>1, <1>7, <2>1 DEF Unsent
<1>8. CASE WorkerCreatesTool
  <2>1. provider'.pc \in {"toolQueue", "error"}
    BY <1>0, <1>1, <1>8 DEF WorkerCreatesTool, WorkerRecord
  <2> QED
    BY <1>8, <2>1
<1>9. CASE WorkerQueuesTool
  <2>1. \E pc \in {"toolSend", "error"} : WorkerTo(pc)
    BY <1>9 DEF WorkerQueuesTool
  <2> QED
    BY <1>1, <1>9, <2>1
<1> QED
  BY <1>2, <1>3, <1>4, <1>5, <1>6, <1>7, <1>8, <1>9 DEF WorkerStep

\* A tool Call that stays unsent stays where it was.
LEMMA UnsentStays ==
    ASSUME DispatchTypeOK, Hands, UnsentTool, DispatchNext, ~WorkerSendsTool,
           provider.pc \in Unsent, provider'.pc \in Unsent, provider'.tool = provider.tool
    PROVE  UnsentTool'
<1> DEFINE t == provider.tool
<1>1. t \notin ProviderCalls /\ t \notin blocked /\ ~InLane(t) /\ (tool.pc # "idle" => tool.call # t)
  BY DEF Hands, WorkerHands, UnsentTool, Unsent, ProviderCalls
<1>2. t \notin blocked'
  BY <1>1, BlockedStep
<1>3. ~InLane(t)'
  BY <1>1, LaneStep DEF InLane
<1>4. tool'.pc # "idle" => tool'.call # t
  <2>1. CASE tool' = tool \/ ToolKeeps
    BY <1>1, <2>1 DEF ToolKeeps
  <2>2. CASE ToolTakes
    <3> DEFINE q == lane["tool"].queue
    <3>1. q \in Seq(Calls) /\ q # <<>> /\ tool'.call = Head(q)
      BY <2>2 DEF ToolTakes, IdleTool, Take, DispatchTypeOK, LaneRecord, BoundedQueue, Lanes
    <3>2. 1 \in 1..Len(q) /\ q[1] = Head(q)
      BY <3>1
    <3> QED
      BY <1>1, <3>1, <3>2 DEF InLane, Lanes
  <2>3. ~ProcessExits
    BY DEF ProcessExits, IdleWorker, Unsent
  <2> QED
    BY <2>1, <2>2, <2>3, ToolStepKinds, LaunchFootprint, ChatFootprint, WorkerFootprint,
       RuntimeFootprint DEF DispatchNext, ChatStep
<1> QED
  BY <1>2, <1>3, <1>4 DEF UnsentTool

\* Nobody but the worker puts the tool Call it has not sent anywhere.
LEMMA UnsentToolStep ==
    ASSUME DispatchTypeOK, Hands, UnsentTool, DispatchNext
    PROVE  UnsentTool'
<1> SUFFICES ASSUME provider'.pc \in Unsent PROVE UnsentTool'
  BY DEF UnsentTool, Unsent
<1>0. provider \in WorkerRecord
  BY DEF DispatchTypeOK
<1>1. CASE provider' = provider
  <2>1. ~WorkerSendsTool
    BY <1>0, <1>1 DEF WorkerSendsTool, WorkerTo, WorkerRecord
  <2> QED
    BY <1>1, <2>1, UnsentStays
<1>2. CASE WorkerQueuesTool
  <2>1. provider.pc = "toolQueue" /\ \E pc : provider' = [provider EXCEPT !.pc = pc]
    BY <1>2 DEF WorkerQueuesTool, WorkerTo
  <2>2. provider'.tool = provider.tool
    BY <1>0, <2>1 DEF WorkerRecord
  <2> QED
    BY <2>1, <2>2, UnsentStays DEF Unsent, WorkerSendsTool
<1>3. CASE WorkerCreatesTool
  <2>1. PICK t \in ToolCalls, kind \in {"tool", "read"} :
               /\ CreateCall(t, Owner(provider.call), kind)
               /\ provider' = [provider EXCEPT !.pc = "toolQueue", !.tool = t]
    BY <1>0, <1>3 DEF WorkerCreatesTool, WorkerTo, WorkerRecord, Unsent
  <2>2. t \notin Present
    BY <2>1 DEF CreateCall, Present
  <2>3. t \notin blocked /\ ~InLane(t) /\ (tool.pc # "idle" => tool.call # t)
    BY <2>2 DEF Hands, QueueHands, ToolHands, InLane
  <2>4. provider'.tool = t
    BY <1>0, <2>1 DEF WorkerRecord
  <2>5. blocked' = blocked /\ lane' = lane /\ tool' = tool
    BY <1>3 DEF WorkerCreatesTool, WorkerFrame
  <2> QED
    BY <2>3, <2>4, <2>5 DEF UnsentTool, InLane
<1>4. ~ProcessExits
  BY DEF ProcessExits, IdleWorker, Unsent
<1> QED
  BY <1>1, <1>2, <1>3, <1>4, WorkerEnters, LaunchFootprint, ChatFootprint, ToolFootprint,
     RuntimeFootprint DEF DispatchNext, ChatStep

---------------------------------------------------------------------------------
(* What was begun is on record. *)

\* An intent fails while its Call stays created only where the worker's handoff fails.
LEMMA HandoffsFailAtTheWorker ==
    ASSUME DispatchTypeOK, Hands, DispatchNext, NEW c \in Calls, QueueHandoffFails(c)
    PROVE  WorkerSendsTool /\ c = provider.tool
<1>0. /\ intent \in [Calls -> IntentRecord] /\ call \in [Calls -> CallRecord]
      /\ intent[c].state = "queued" /\ intent'[c].state = "failed" /\ call' = call
  BY DEF QueueHandoffFails, DispatchTypeOK, TypeOK, CallTable
<1>f. ASSUME NEW a, intent' = FenceIntents(call, intent, a) PROVE FALSE
  <2>1. intent'[c].state \in {"fenced", "queued"}
    BY <1>0, <1>f DEF FenceIntents
  <2> QED
    BY <1>0, <2>1
<1>1. ~JobOperation
  <2>1. ASSUME NEW j \in Jobs, CreateJob(j) \/ DispatchJob(j) PROVE intent' = intent
    BY <2>1 DEF CreateJob, DispatchJob
  <2>2. ASSUME NEW j \in Jobs, ReplaceAttempt(j) PROVE FALSE
    BY <1>f, <2>2 DEF ReplaceAttempt
  <2> QED
    BY <1>0, <2>1, <2>2 DEF JobOperation
<1>2. ~AttemptOperation
  <2>1. ASSUME NEW a \in Attempts, NEW state, EndAttempt(call, intent, a, state) PROVE FALSE
    BY <1>f, <2>1 DEF EndAttempt
  <2>2. ASSUME NEW a \in Attempts, RequestCancel(a) PROVE FALSE
    BY <1>0, <2>2 DEF RequestCancel
  <2> QED
    BY <2>1, <2>2 DEF AttemptOperation, AbandonAttempt, FinishAttempt
<1>3. ~CallOperation
  <2>1. ASSUME NEW d \in Calls, MarkDispatchQueued(d) PROVE FALSE
    BY <1>0, <2>1 DEF MarkDispatchQueued, IntentRecord
  <2>2. ASSUME NEW d \in Calls, FenceDispatchIntent(d) PROVE FALSE
    BY <1>0, <2>2 DEF FenceDispatchIntent, IntentRecord
  <2>3. ASSUME NEW d \in Calls, ClaimCall(d) \/ FailCall(d) PROVE FALSE
    <3>1. call'[d].state # call[d].state
      BY <1>0, <2>3 DEF ClaimCall, FailCall, OpenCall, CallRecord
    <3> QED
      BY <1>0, <3>1
  <2>4. ASSUME NEW d \in Calls, NEW r \in Responses, FinishCall(d, r) \/ FailNativeToolCall(d, r)
        PROVE  FALSE
    <3>1. call'[d].state # call[d].state
      BY <1>0, <2>4 DEF FinishCall, CallCompleted, FailNativeToolCall, CallRecord
    <3> QED
      BY <1>0, <3>1
  <2>5. ASSUME NEW d \in Calls, NEW a, NEW kind, CreateCall(d, a, kind) PROVE FALSE
    <3>1. call'[d].state # call[d].state
      BY <1>0, <2>5 DEF CreateCall, CallRecord
    <3> QED
      BY <1>0, <3>1
  <2> QED
    BY <2>1, <2>2, <2>3, <2>4, <2>5 DEF CallOperation
<1>4. ~Confirmation
  BY <1>f DEF Confirmation, SettleCancel, EndAttempt
<1>5. FailedHandoff => c = provider.tool
  BY <1>0 DEF FailedHandoff, QueueHandoffFails
<1> QED
  BY <1>0, <1>1, <1>2, <1>3, <1>4, <1>5, StepOperates DEF Operation, FailedHandoff, vars

\* What passed a gate stays claimable as long as it is not closed.
LEMMA ClaimableStays ==
    ASSUME DispatchTypeOK, Hands, DispatchNext, NEW c \in Present, RowStep(c), Claimable(c),
           ~(WorkerSendsTool /\ c = provider.tool)
    PROVE  Claimable(c)'
<1>1. ~QueueHandoffFails(c) /\ ~RowCreated(c)
  BY HandoffsFailAtTheWorker DEF Present, RowCreated
<1> QED
  BY <1>1 DEF Claimable, RowStep, Untouched, RowMoves

\* A Call that passed a gate stays claimable until it is claimed or closed.
LEMMA GatesHoldStep ==
    ASSUME DispatchTypeOK, Hands, UnsentTool, GatesHold, \A c \in Calls : RowStep(c), DispatchNext
    PROVE  GatesHold'
<1>0. /\ provider \in WorkerRecord /\ tool \in ToolRecord
      /\ \A c \in Present : c \in Calls
  BY DEF DispatchTypeOK, Present
<1>1. ASSUME provider'.pc = "claim" PROVE Claimable(provider.call)'
  <2>1. CASE provider' = provider
    <3> DEFINE c == provider.call
    <3>1. c \in Present /\ Claimable(c) /\ ~WorkerSendsTool
      BY <1>1, <2>1 DEF Hands, WorkerHands, GatesHold, WorkerSendsTool
    <3>2. call'[c].state = "created" => intent'[c].state \in {"pending", "queued"}
      BY <1>0, <3>1, ClaimableStays DEF Claimable
    <3> QED
      BY <2>1, <3>2 DEF Claimable
  <2>2. CASE WorkerGates
    <3>1. /\ WorkerTo("claim") \/ WorkerTo("fail") \/ WorkerTo("idle")
          /\ WorkerTo("claim") => intent[provider.call].state \in {"pending", "queued"}
          /\ UNCHANGED tables
      BY <1>0, <2>2 DEF WorkerGates, WorkerOnly, WorkerTo, WorkerRecord
    <3>2. WorkerTo("claim") /\ provider'.call = provider.call
      BY <1>0, <1>1, <3>1 DEF WorkerTo, WorkerRecord
    <3> QED
      BY <3>1, <3>2 DEF Claimable, tables
  <2>3. ~ProcessExits
    BY <1>1 DEF ProcessExits, IdleWorker
  <2> QED
    BY <1>1, <2>1, <2>2, <2>3, WorkerEnters, LaunchFootprint, ChatFootprint, ToolFootprint,
       RuntimeFootprint DEF DispatchNext, ChatStep
<1>2. ASSUME tool'.pc = "claim" PROVE Claimable(tool.call)'
  <2>1. CASE tool' = tool
    <3> DEFINE c == tool.call
    <3>1. c \in Present /\ Claimable(c)
      BY <1>2, <2>1 DEF Hands, ToolHands, GatesHold
    <3>2. ~(WorkerSendsTool /\ c = provider.tool)
      BY <1>2, <2>1 DEF WorkerSendsTool, UnsentTool
    <3>3. call'[c].state = "created" => intent'[c].state \in {"pending", "queued"}
      BY <1>0, <3>1, <3>2, ClaimableStays DEF Claimable
    <3> QED
      BY <2>1, <3>3 DEF Claimable
  <2>2. CASE ToolStep
    <3>1. ToolGates
      BY <1>0, <1>2, <2>2 DEF ToolStep, ToolTakes, ToolChecks, ToolClaims, ToolEnds,
         ToolFailsUnclaimed, ToolFences, ToolVerifies, ToolTo, IdleTool, ToolRecord
    <3>2. intent[tool.call].state \in {"pending", "queued"} /\ UNCHANGED tables
          /\ tool'.call = tool.call
      BY <1>0, <1>2, <3>1 DEF ToolGates, ToolTo, ToolOnly, ToolRecord
    <3> QED
      BY <3>2 DEF Claimable, tables
  <2>3. ~ProcessExits
    BY <1>2 DEF ProcessExits, IdleTool
  <2> QED
    BY <2>1, <2>2, <2>3, LaunchFootprint, ChatFootprint, WorkerFootprint, RuntimeFootprint
       DEF DispatchNext, ChatStep
<1> QED
  BY <1>1, <1>2 DEF GatesHold, Claimable

---------------------------------------------------------------------------------
(* What the tool worker verifies has been closed. *)

\* So have the places of the tool worker.
LEMMA ToolEnters ==
    ASSUME DispatchTypeOK, ToolStep
    PROVE  /\ tool'.pc = "verify" => ToolFailsUnclaimed \/ ToolFences
           /\ tool'.pc = "dead" => ToolVerifies
           /\ ~ToolTakes /\ ~ToolClaims => tool'.call = tool.call
<1>0. tool \in ToolRecord
  BY DEF DispatchTypeOK
<1>1. ASSUME NEW pc, ToolTo(pc) PROVE tool'.pc = pc /\ tool'.call = tool.call
  BY <1>0, <1>1 DEF ToolTo, ToolRecord
<1>2. CASE ToolTakes
  BY <1>2 DEF ToolTakes, IdleTool
<1>3. CASE ToolClaims
  <2>1. tool' = [tool EXCEPT !.pc = "effect", !.claimed = TRUE] \/ ToolTo("error")
    BY <1>3 DEF ToolClaims
  <2>2. tool' = [tool EXCEPT !.pc = "effect", !.claimed = TRUE] => tool'.pc = "effect"
    BY <1>0 DEF ToolRecord
  <2> QED
    BY <1>1, <1>3, <2>1, <2>2
<1>4. CASE ToolChecks \/ ToolGates \/ ToolEnds
  <2>1. ToolTo("gate") \/ ToolTo("idle") \/ ToolTo("claim") \/ ToolTo("error")
    BY <1>4 DEF ToolChecks, ToolGates, ToolEnds
  <2>2. tool'.pc \in {"gate", "idle", "claim", "error"} /\ tool'.call = tool.call
    BY <1>1, <2>1
  <2> QED
    BY <2>2
<1>5. CASE ToolFailsUnclaimed \/ ToolFences
  <2>1. \E pc \in {"verify", "fence"} : ToolTo(pc)
    BY <1>5 DEF ToolFailsUnclaimed, ToolFences
  <2> QED
    BY <1>1, <1>5, <2>1
<1>6. CASE ToolVerifies
  <2>1. \E pc \in {"dead", "idle"} : ToolTo(pc)
    BY <1>6 DEF ToolVerifies
  <2> QED
    BY <1>1, <1>6, <2>1
<1> QED
  BY <1>2, <1>3, <1>4, <1>5, <1>6 DEF ToolStep

\* A failure or a fence closes the row; a closed row is never opened again.
LEMMA VerifiedIsClosedStep ==
    ASSUME DispatchTypeOK, WorkSlots, Hands, VerifiedIsClosed, \A c \in Calls : RowStep(c),
           DispatchNext
    PROVE  VerifiedIsClosed'
<1> DEFINE c == tool.call
<1> SUFFICES ASSUME tool'.pc = "verify"
             PROVE  /\ call'[tool'.call].state \notin OpenCall
                    /\ intent'[tool'.call].state \notin OpenIntent
  BY DEF VerifiedIsClosed
<1>0. /\ tool.pc # "idle" => c \in Calls /\ RowStep(c) /\ CallSlot(c) /\ call[c].state # "absent"
      /\ call \in [Calls -> CallRecord] /\ intent \in [Calls -> IntentRecord]
  BY DEF Hands, ToolHands, Present, WorkSlots, DispatchTypeOK, TypeOK, CallTable
<1>1. CASE tool' = tool
  BY <1>0, <1>1 DEF VerifiedIsClosed, RowStep, Untouched, RowMoves, RowCreated
<1>2. CASE ToolStep
  <2>1. (ToolFailsUnclaimed \/ ToolFences) /\ tool'.call = c /\ tool.pc # "idle"
    <3>1. ToolFailsUnclaimed \/ ToolFences
      BY <1>2, ToolEnters
    <3>2. ~ToolTakes /\ ~ToolClaims
      BY <3>1 DEF ToolFailsUnclaimed, ToolFences, ToolTakes, ToolClaims
    <3> QED
      BY <1>2, <3>1, <3>2, ToolEnters DEF ToolFailsUnclaimed, ToolFences
  <2>2. CASE FailCall(c)
    <3>1. call'[c].state = "failed"
      BY <1>0, <2>1, <2>2 DEF FailCall, CallRecord
    <3>2. intent'[c].state \notin OpenIntent
      BY <1>0, <2>1, <2>2 DEF FailCall, IntentRecord, OpenIntent
    <3> QED
      BY <2>1, <3>1, <3>2 DEF OpenCall
  <2>3. CASE FenceDispatchIntent(c)
    <3>1. call'[c].state \notin OpenCall
      BY <1>0, <2>1, <2>3 DEF FenceDispatchIntent, CallRecord, OpenCall
    <3>2. intent'[c].state \notin OpenIntent
      BY <1>0, <2>1, <2>3 DEF FenceDispatchIntent, IntentRecord, OpenIntent
    <3> QED
      BY <2>1, <3>1, <3>2
  <2>4. CASE call[c].state \notin OpenCall /\ UNCHANGED tables
    BY <1>0, <2>1, <2>4 DEF CallSlot, OpenCall, OpenIntent, tables
  <2>5. ToolFailsUnclaimed => FailCall(c) \/ (call[c].state \notin OpenCall /\ UNCHANGED tables)
    <3> SUFFICES ASSUME ToolFailsUnclaimed, ~FailCall(c), call[c].state \in OpenCall PROVE FALSE
      BY DEF ToolFailsUnclaimed
    <3>1. ToolTo("fence")
      BY DEF ToolFailsUnclaimed
    <3> QED
      BY <1>0, <3>1 DEF ToolTo, DispatchTypeOK, ToolRecord
  <2> QED
    BY <2>1, <2>2, <2>3, <2>4, <2>5 DEF ToolFences
<1>3. ~ProcessExits
  BY DEF ProcessExits, IdleTool
<1> QED
  BY <1>1, <1>2, <1>3, LaunchFootprint, ChatFootprint, WorkerFootprint, RuntimeFootprint
     DEF DispatchNext, ChatStep

---------------------------------------------------------------------------------
(* What began is recorded. *)

\* A claim that passed its gate records the start of the effect, and no step forgets it.
LEMMA BegunStep ==
    ASSUME DispatchTypeOK, WorkSlots, Hands, GatesHold, BegunEffectsAreRecorded,
           \A c \in Calls : RowStep(c), DispatchNext
    PROVE  BegunEffectsAreRecorded'
<1>0. intent \in [Calls -> IntentRecord] /\ begun \subseteq Calls
  BY DEF DispatchTypeOK, TypeOK
<1>1. \A c \in begun : intent'[c].effect # "not_started"
  BY <1>0, EffectStep DEF BegunEffectsAreRecorded, WorkSlots, DispatchTypeOK
<1>2. ASSUME NEW c \in Calls, Claimable(c), ClaimCall(c) PROVE intent'[c].effect # "not_started"
  BY <1>0, <1>2 DEF ClaimCall, Claimable, IntentRecord
<1>3. CASE begun' = begun
  BY <1>1, <1>3 DEF BegunEffectsAreRecorded
<1>4. CASE WorkerClaims
  <2>1. provider.call \in Calls /\ Claimable(provider.call)
    BY <1>4 DEF WorkerClaims, Hands, WorkerHands, GatesHold, Present
  <2> QED
    BY <1>1, <1>2, <1>4, <2>1 DEF WorkerClaims, BegunEffectsAreRecorded
<1>5. CASE ToolClaims
  <2>1. tool.call \in Calls /\ Claimable(tool.call)
    BY <1>5 DEF ToolClaims, Hands, ToolHands, GatesHold, Present
  <2> QED
    BY <1>1, <1>2, <1>5, <2>1 DEF ToolClaims, BegunEffectsAreRecorded
<1> QED
  BY <1>3, <1>4, <1>5, LaunchFootprint, ChatFootprint, WorkerFootprint, ToolFootprint,
     RuntimeFootprint DEF DispatchNext, ChatStep, ProcessExits

---------------------------------------------------------------------------------
(* One owner of each cancellation, and of the tool lane. *)

\* The tool worker dies of a Call left open, and what it verifies is closed.
LEMMA ToolLaneStep ==
    ASSUME DispatchTypeOK, VerifiedIsClosed, ToolLaneSurvives, DispatchNext
    PROVE  ToolLaneSurvives'
<1>1. CASE ToolVerifies
  <2>1. ToolTo("idle")
    BY <1>1 DEF ToolVerifies, VerifiedIsClosed
  <2> QED
    BY <2>1 DEF ToolTo, ToolLaneSurvives, DispatchTypeOK, ToolRecord
<1>2. CASE tool' = tool
  BY <1>2 DEF ToolLaneSurvives
<1>3. CASE ToolStep /\ ~ToolVerifies
  BY <1>3, ToolEnters DEF ToolLaneSurvives
<1>4. CASE ProcessExits
  BY <1>4 DEF ProcessExits, IdleTool, ToolLaneSurvives
<1> QED
  BY <1>1, <1>2, <1>3, <1>4, LaunchFootprint, ChatFootprint, WorkerFootprint, RuntimeFootprint
     DEF DispatchNext, ChatStep

\* An Attempt that is cancelling is left alone until it is confirmed: it has no authority to
\* finish with, and a replacement finds nothing to revoke.
LEMMA CancellingStays ==
    ASSUME DispatchTypeOK, JobSlots, Hands, DispatchNext,
           NEW a \in Attempts, attempt[a].state = "cancelling"
    PROVE  \/ attempt'[a].state = "cancelling"
           \/ \E j \in Jobs : (LaunchConfirms(j) \/ CancelConfirms(j)) /\ a = Turn(j)
           \/ WorkerConfirms /\ a = Owner(provider.call)
<1>0. attempt \in [Attempts -> AttemptRecord]
  BY DEF DispatchTypeOK, TypeOK
<1>1. ~attempt[a].authoritative
  <2>1. PICK j \in Jobs, h \in Generations : a = <<j, h>>
    BY DEF Attempts
  <2>2. JobSlot(j) /\ job[j].generation \in 0..MaxGeneration
    BY DEF JobSlots, DispatchTypeOK, TypeOK, JobRecord
  <2>3. h \in Nat /\ h > 0 /\ job[j].generation \in Nat
    BY <2>2, ConstantsAssumption DEF Generations
  <2>4. CASE h > job[j].generation \/ h < job[j].generation
    BY <2>1, <2>2, <2>4 DEF JobSlot
  <2>5. CASE h = job[j].generation
    BY <2>1, <2>2, <2>3, <2>5 DEF JobSlot, Executable
  <2> QED
    BY <2>3, <2>4, <2>5
<1>2. CASE JobOperation
  <2>1. ASSUME NEW j \in Jobs, DispatchJob(j) \/ ReplaceAttempt(j) PROVE a # <<j, NextGeneration(j)>>
    <3>1. /\ NextGeneration(j) \in Generations /\ NextGeneration(j) > job[j].generation
          /\ JobSlot(j)
      BY <2>1, ConstantsAssumption DEF DispatchJob, ReplaceAttempt, PublishAttempt, NextGeneration,
         Generations, JobSlots, DispatchTypeOK, TypeOK, JobRecord
    <3> QED
      BY <3>1 DEF JobSlot
  <2>2. ASSUME NEW j \in Jobs, DispatchJob(j) PROVE attempt'[a] = attempt[a]
    BY <1>0, <2>1, <2>2 DEF DispatchJob, PublishAttempt
  <2>3. ASSUME NEW j \in Jobs, ReplaceAttempt(j) PROVE attempt'[a] = attempt[a]
    <3> DEFINE old == <<j, job[j].authority>>
    <3>1. Revoke(old)[a] = attempt[a]
      BY <1>1 DEF Revoke
    <3> QED
      BY <2>1, <2>3, <3>1 DEF ReplaceAttempt, Revoke
  <2> QED
    BY <1>2, <2>2, <2>3 DEF JobOperation, CreateJob
<1>3. CASE AttemptOperation
  <2>1. ASSUME NEW b \in Attempts, HoldsAuthority(b), NEW r \in AttemptRecord,
               attempt' = [attempt EXCEPT ![b] = r]
        PROVE  attempt'[a] = attempt[a]
    BY <1>0, <1>1, <2>1 DEF HoldsAuthority
  <2>2. \A state \in {"cancelling", "completed", "failed", "unknown"} :
          [state |-> state, authoritative |-> FALSE] \in AttemptRecord
    BY DEF AttemptRecord, AttemptStates, Unfinished, Executable, Ended
  <2>3. ASSUME NEW b \in Attempts, RequestCancel(b) PROVE attempt'[a] = attempt[a]
    BY <2>1, <2>2, <2>3 DEF RequestCancel, MayExecute
  <2>4. ASSUME NEW b \in Attempts, AbandonAttempt(b) PROVE attempt'[a] = attempt[a]
    BY <2>1, <2>2, <2>4 DEF AbandonAttempt, EndAttempt, MayExecute
  <2>5. ASSUME NEW b \in Attempts, NEW succeeded \in BOOLEAN, FinishAttempt(b, succeeded)
        PROVE  attempt'[a] = attempt[a]
    BY <2>1, <2>2, <2>5 DEF FinishAttempt, EndAttempt
  <2> QED
    BY <1>3, <2>3, <2>4, <2>5 DEF AttemptOperation
<1>4. CASE CallOperation \/ FailedHandoff \/ UNCHANGED vars
  BY <1>4 DEF CallOperation, FailedHandoff, vars, MarkDispatchQueued, ClaimCall, FailCall,
     FenceDispatchIntent, CreateCall, FinishCall, FailNativeToolCall, QueueHandoffFails
<1>5. CASE Confirmation
  <2>1. ASSUME NEW b, b # a, SettleCancel(b, "cancelled") PROVE attempt'[a] = attempt[a]
    BY <1>0, <2>1 DEF SettleCancel, EndAttempt
  <2> QED
    BY <1>5, <2>1 DEF Confirmation
<1> QED
  BY <1>2, <1>3, <1>4, <1>5, StepOperates DEF Operation

\* Who is between the two phases of the cancellation of j's turn.
LauncherConfirming(j) == launcher[j].pc = "confirm"
ChatConfirming(j)     == canceller[j] \in {"signalRevoked", "confirm"}
WorkerConfirming(j)   == provider.pc = "confirm" /\ Owner(provider.call) = Turn(j)
Confirming(j) == LauncherConfirming(j) \/ ChatConfirming(j) \/ WorkerConfirming(j)

OneCanceller(j) ==
    /\ ~(LauncherConfirming(j) /\ ChatConfirming(j))
    /\ ~(LauncherConfirming(j) /\ WorkerConfirming(j))
    /\ ~(ChatConfirming(j) /\ WorkerConfirming(j))
    /\ Confirming(j) => attempt[Turn(j)].state = "cancelling"

\* The set of confirmers in SingleCanceller, taken apart.
LEMMA CancellersApart == SingleCanceller <=> \A j \in Jobs : OneCanceller(j)
<1> SUFFICES ASSUME NEW j \in Jobs
             PROVE  LET confirming == {who \in {"launcher", "chat", "worker"} :
                           \/ who = "launcher" /\ launcher[j].pc = "confirm"
                           \/ who = "chat" /\ canceller[j] \in {"signalRevoked", "confirm"}
                           \/ who = "worker" /\ provider.pc = "confirm" /\ Owner(provider.call) = Turn(j)}
                    IN  (/\ \A x, y \in confirming : x = y
                         /\ confirming # {} => attempt[Turn(j)].state = "cancelling")
                        <=> OneCanceller(j)
  BY DEF SingleCanceller
<1> DEFINE S == {who \in {"launcher", "chat", "worker"} :
                    \/ who = "launcher" /\ LauncherConfirming(j)
                    \/ who = "chat" /\ ChatConfirming(j)
                    \/ who = "worker" /\ WorkerConfirming(j)}
<1>1. /\ "launcher" \in S <=> LauncherConfirming(j)
      /\ "chat" \in S <=> ChatConfirming(j)
      /\ "worker" \in S <=> WorkerConfirming(j)
      /\ \A who \in S : who \in {"launcher", "chat", "worker"}
  OBVIOUS
<1>2. (/\ \A x, y \in S : x = y
       /\ S # {} => attempt[Turn(j)].state = "cancelling") <=> OneCanceller(j)
  <2> HIDE DEF S
  <2>1. S # {} <=> Confirming(j)
    BY <1>1 DEF Confirming
  <2>2. (\A x, y \in S : x = y) <=> /\ ~(LauncherConfirming(j) /\ ChatConfirming(j))
                                   /\ ~(LauncherConfirming(j) /\ WorkerConfirming(j))
                                   /\ ~(ChatConfirming(j) /\ WorkerConfirming(j))
    BY <1>1
  <2> QED
    BY <2>1, <2>2 DEF OneCanceller
<1> QED
  BY <1>2 DEF LauncherConfirming, ChatConfirming, WorkerConfirming

\* Each of the three enters the cancellation of j by revoking the authority of j's turn, and
\* leaves it when it confirms.
LEMMA ConfirmersEnter ==
    ASSUME DispatchTypeOK, Hands, \A c \in Calls : RowStep(c), DispatchNext, NEW j \in Jobs
    PROVE  /\ LauncherConfirming(j)' =>
                LauncherConfirming(j) \/ (LaunchRevokes(j) /\ RequestCancel(Turn(j)))
           /\ ChatConfirming(j)' =>
                ChatConfirming(j) \/ (CancelRevokes(j) /\ RequestCancel(Turn(j)))
           /\ WorkerConfirming(j)' =>
                WorkerConfirming(j) \/ (WorkerRevokes /\ RequestCancel(Turn(j)))
           /\ LaunchConfirms(j) => LauncherConfirming(j) /\ ~LauncherConfirming(j)'
           /\ CancelConfirms(j) => ChatConfirming(j) /\ ~ChatConfirming(j)'
           /\ WorkerConfirms => provider.pc = "confirm" /\ ~WorkerConfirming(j)'
<1>0. /\ launcher \in [Jobs -> LauncherRecord] /\ canceller \in [Jobs -> CancellerPcs]
      /\ provider \in WorkerRecord
  BY DEF DispatchTypeOK
<1>1. LauncherConfirming(j)' =>
         LauncherConfirming(j) \/ (LaunchRevokes(j) /\ RequestCancel(Turn(j)))
  <2>1. ASSUME NEW i \in Jobs, RegisterTurn(i) \/ LaunchStep(i), LauncherConfirming(j)'
        PROVE  LauncherConfirming(j) \/ (LaunchRevokes(j) /\ RequestCancel(Turn(j)))
    <3>1. ASSUME NEW pc, LaunchTo(i, pc), pc # "confirm" PROVE LauncherConfirming(j)
      BY <1>0, <2>1, <3>1 DEF LaunchTo, LauncherConfirming, LauncherRecord
    <3>2. CASE LaunchRevokes(i)
      <4>1. LaunchTo(i, "done") \/ (LaunchTo(i, "confirm") /\ RequestCancel(Turn(i)))
        BY <3>2 DEF LaunchRevokes
      <4>2. LaunchTo(i, "confirm") => i = j \/ LauncherConfirming(j)
        BY <1>0, <2>1 DEF LaunchTo, LauncherConfirming
      <4> QED
        BY <3>1, <3>2, <4>1, <4>2
    <3>3. CASE LaunchCreatesCall(i)
      <4>1. ASSUME NEW c, launcher' = [launcher EXCEPT ![i] = [pc |-> "calling", call |-> c]]
            PROVE  LauncherConfirming(j)
        BY <1>0, <2>1, <4>1 DEF LauncherConfirming
      <4> QED
        BY <3>1, <3>3, <4>1 DEF LaunchCreatesCall
    <3>4. CASE \/ RegisterTurn(i) \/ LaunchCreatesJob(i) \/ LaunchDispatchesJob(i) \/ LaunchAdmits(i)
               \/ LaunchMarksQueued(i) \/ LaunchSends(i)
      <4>1. \E pc \in {"registered", "pending", "dispatched", "admitted", "refused", "queued",
                       "undo", "sending"} : LaunchTo(i, pc)
        BY <3>4 DEF RegisterTurn, LaunchCreatesJob, LaunchDispatchesJob, LaunchAdmits,
           LaunchMarksQueued, LaunchSends
      <4> QED
        BY <3>1, <4>1
    <3>5. CASE LaunchHandedOff(i) \/ LaunchRefused(i) \/ LaunchUndone(i) \/ PublishTurn(i)
               \/ LaunchConfirms(i)
      <4>1. \E pc \in {"sent", "undo", "done", "revoke"} : LaunchTo(i, pc)
        BY <3>5 DEF LaunchHandedOff, LaunchRefused, LaunchUndone, PublishTurn, LaunchConfirms
      <4> QED
        BY <3>1, <4>1
    <3> QED
      BY <2>1, <3>2, <3>3, <3>4, <3>5 DEF LaunchStep
  <2>2. launcher' = launcher => (LauncherConfirming(j)' => LauncherConfirming(j))
    BY DEF LauncherConfirming
  <2>3. ProcessExits => ~LauncherConfirming(j)'
    BY DEF ProcessExits, IdleLauncher, LauncherConfirming
  <2> QED
    BY <2>1, <2>2, <2>3, ChatFootprint, WorkerFootprint, ToolFootprint, RuntimeFootprint
       DEF DispatchNext, ChatStep
<1>2. ChatConfirming(j)' => ChatConfirming(j) \/ (CancelRevokes(j) /\ RequestCancel(Turn(j)))
  <2>1. ASSUME NEW i \in Jobs, ChatStep(i), ChatConfirming(j)'
        PROVE  ChatConfirming(j) \/ (CancelRevokes(j) /\ RequestCancel(Turn(j)))
    <3>1. ASSUME NEW pc, CancelTo(i, pc), pc \notin {"signalRevoked", "confirm"}
          PROVE  ChatConfirming(j)
      BY <1>0, <2>1, <3>1 DEF CancelTo, ChatConfirming
    <3>2. CASE CancelRevokes(i)
      <4>1. CancelTo(i, "signal") \/ (CancelTo(i, "signalRevoked") /\ RequestCancel(Turn(i)))
        BY <3>2 DEF CancelRevokes
      <4>2. CancelTo(i, "signalRevoked") => i = j \/ ChatConfirming(j)
        BY <1>0, <2>1 DEF CancelTo, ChatConfirming
      <4> QED
        BY <3>1, <3>2, <4>1, <4>2
    <3>3. CASE CancelSignals(i)
      <4>1. CancelTo(i, "idle") \/ (CancelTo(i, "confirm") /\ canceller[i] = "signalRevoked")
        BY <3>3 DEF CancelSignals
      <4>2. CancelTo(i, "confirm") => i = j \/ ChatConfirming(j)
        BY <1>0, <2>1 DEF CancelTo, ChatConfirming
      <4> QED
        BY <3>1, <4>1, <4>2 DEF ChatConfirming
    <3>4. CASE CancelChat(i) \/ CancelConfirms(i)
      <4>1. \E pc \in {"revoke", "signal", "idle"} : CancelTo(i, pc)
        BY <3>4 DEF CancelChat, CancelConfirms
      <4> QED
        BY <3>1, <4>1
    <3>5. CASE ForgetChat(i)
      BY <2>1, <3>5 DEF ForgetChat, ChatConfirming
    <3> QED
      BY <2>1, <3>2, <3>3, <3>4, <3>5 DEF ChatStep, CancelStep
  <2>2. canceller' = canceller => (ChatConfirming(j)' => ChatConfirming(j))
    BY DEF ChatConfirming
  <2>3. ProcessExits => ~ChatConfirming(j)'
    BY DEF ProcessExits, ChatConfirming
  <2> QED
    BY <2>1, <2>2, <2>3, LaunchFootprint, ChatFootprint, WorkerFootprint, ToolFootprint,
       RuntimeFootprint DEF DispatchNext, ChatStep
<1>3. WorkerConfirming(j)' =>
         WorkerConfirming(j) \/ (WorkerRevokes /\ RequestCancel(Turn(j)))
  <2> SUFFICES ASSUME provider'.pc = "confirm", call'[provider'.call].attempt = Turn(j)
               PROVE  WorkerConfirming(j) \/ (WorkerRevokes /\ RequestCancel(Turn(j)))
    BY DEF WorkerConfirming, Owner
  <2>1. CASE provider' = provider
    <3>1. provider.call \in Present
      BY <2>1 DEF Hands, WorkerHands
    <3> QED
      BY <2>1, <3>1, RowsPersist DEF WorkerConfirming, Owner
  <2>2. CASE WorkerRevokes
    <3>1. WorkerTo("idle") \/ WorkerTo("confirm")
      BY <2>2 DEF WorkerRevokes
    <3>2. provider'.call = provider.call /\ ~WorkerTo("idle")
      BY <1>0, <3>1 DEF WorkerTo, WorkerRecord
    <3>3. RequestCancel(Owner(provider.call))
      BY <2>2, <3>2 DEF WorkerRevokes
    <3>4. call' = call
      BY <3>3 DEF RequestCancel
    <3> QED
      BY <2>2, <3>2, <3>3, <3>4 DEF Owner
  <2>3. ~ProcessExits
    BY DEF ProcessExits, IdleWorker
  <2> QED
    BY <2>1, <2>2, <2>3, WorkerEnters, LaunchFootprint, ChatFootprint, ToolFootprint,
       RuntimeFootprint DEF DispatchNext, ChatStep
<1>4. LaunchConfirms(j) => LauncherConfirming(j) /\ ~LauncherConfirming(j)'
  BY <1>0 DEF LaunchConfirms, Launching, LaunchTo, LauncherConfirming, LauncherRecord
<1>5. CancelConfirms(j) => ChatConfirming(j) /\ ~ChatConfirming(j)'
  BY <1>0 DEF CancelConfirms, CancelTo, ChatConfirming
<1>6. WorkerConfirms => provider.pc = "confirm" /\ ~WorkerConfirming(j)'
  BY <1>0 DEF WorkerConfirms, WorkerTo, WorkerConfirming, WorkerRecord
<1> QED
  BY <1>1, <1>2, <1>3, <1>4, <1>5, <1>6

\* Revoking needs the authority that a turn being cancelled has lost, so the second to come
\* is refused; and nothing but a confirmation ends the cancelling state.
LEMMA SingleCancellerStep ==
    ASSUME DispatchTypeOK, JobSlots, Hands, SingleCanceller, \A c \in Calls : RowStep(c),
           DispatchNext
    PROVE  SingleCanceller'
<1>0. \A j \in Jobs : OneCanceller(j)
  BY CancellersApart, Zenon
<1> SUFFICES ASSUME NEW j \in Jobs PROVE OneCanceller(j)'
  <2>1. (SingleCanceller <=> \A j \in Jobs : OneCanceller(j))'
    BY CancellersApart, PTL
  <2> QED
    BY <2>1
<1> DEFINE a == Turn(j)
<1>1. OneCanceller(j) /\ a \in Attempts /\ attempt \in [Attempts -> AttemptRecord]
  BY <1>0, TurnsAreAttempts DEF DispatchTypeOK, TypeOK
<1>2. CASE RequestCancel(a)
  <2>1. ~Confirming(j) /\ attempt'[Turn(j)].state = "cancelling"
    BY <1>1, <1>2 DEF OneCanceller, RequestCancel, MayExecute, Executable
  <2>2. LaunchRevokes(j) => canceller' = canceller /\ provider' = provider
    BY DEF LaunchRevokes, LaunchFrame
  <2>3. CancelRevokes(j) => launcher' = launcher /\ provider' = provider
    BY DEF CancelRevokes, CancelFrame
  <2>4. WorkerRevokes => launcher' = launcher /\ canceller' = canceller
    BY DEF WorkerRevokes, WorkerFrame
  <2>5. call' = call
    BY <1>2 DEF RequestCancel
  <2>6. /\ launcher' = launcher => ~LauncherConfirming(j)'
        /\ canceller' = canceller => ~ChatConfirming(j)'
        /\ provider' = provider => ~WorkerConfirming(j)'
    BY <2>1, <2>5 DEF Confirming, LauncherConfirming, ChatConfirming, WorkerConfirming, Owner
  <2> QED
    BY <2>1, <2>2, <2>3, <2>4, <2>6, ConfirmersEnter DEF OneCanceller, Confirming
<1>3. CASE ~RequestCancel(a)
  <2>1. /\ LauncherConfirming(j)' => LauncherConfirming(j)
        /\ ChatConfirming(j)' => ChatConfirming(j)
        /\ WorkerConfirming(j)' => WorkerConfirming(j)
    BY <1>3, ConfirmersEnter
  <2>2. ASSUME Confirming(j)' PROVE attempt'[Turn(j)].state = "cancelling"
    <3>1. Confirming(j) /\ attempt[a].state = "cancelling"
      BY <1>1, <2>1, <2>2 DEF Confirming, OneCanceller
    <3>2. \A i \in Jobs : a = Turn(i) => i = j
      BY DEF Turn
    <3>3. ~LaunchConfirms(j) /\ ~CancelConfirms(j)
      BY <1>1, <2>1, <2>2, ConfirmersEnter DEF Confirming, OneCanceller
    <3>4. ~(WorkerConfirms /\ a = Owner(provider.call))
      BY <1>1, <2>1, <2>2, ConfirmersEnter DEF Confirming, OneCanceller, WorkerConfirming
    <3> QED
      BY <1>1, <3>1, <3>2, <3>3, <3>4, CancellingStays
  <2> QED
    BY <1>1, <2>1, <2>2 DEF OneCanceller
<1> QED
  BY <1>2, <1>3

---------------------------------------------------------------------------------
(* The invariant, and the theorems. *)

\* The invariant of the threads holds before the first launch.
LEMMA InitDispatch ==
    ASSUME DispatchInit
    PROVE  DispatchInv
<1>1. Init /\ TypeOK /\ JobSlots /\ WorkSlots
  BY InitType, InitSlots, InitWork DEF DispatchInit
<1>2. DispatchTypeOK
  <2>1. <<>> \in BoundedQueue /\ IdleLauncher \in LauncherRecord /\ IdleWorker \in WorkerRecord
        /\ IdleTool \in ToolRecord
    BY DispatchAssumption DEF BoundedQueue, IdleLauncher, LauncherRecord, LauncherPcs, IdleWorker,
       WorkerRecord, WorkerPcs, IdleTool, ToolRecord, ToolPcs, Hand
  <2>2. ClosedLane \in LaneRecord /\ 0 \in 0..MaxExits
    BY <2>1, DispatchAssumption DEF ClosedLane, LaneRecord
  <2> QED
    BY <1>1, <2>1, <2>2 DEF DispatchInit, DispatchTypeOK, CancellerPcs
<1>3. Hands /\ UnsentTool /\ GatesHold /\ VerifiedIsClosed /\ BegunEffectsAreRecorded /\ OneOwner
  <2>1. Hands
    BY DEF DispatchInit, Hands, LauncherHands, WorkerHands, ToolHands, QueueHands, IdleLauncher,
       IdleWorker, IdleTool, ClosedLane
  <2>2. UnsentTool /\ GatesHold /\ VerifiedIsClosed /\ BegunEffectsAreRecorded /\ ToolLaneSurvives
    BY DEF DispatchInit, UnsentTool, GatesHold, VerifiedIsClosed, BegunEffectsAreRecorded,
       ToolLaneSurvives, IdleWorker, IdleTool
  <2>3. ASSUME NEW j \in Jobs PROVE OneCanceller(j)
    BY DEF DispatchInit, OneCanceller, Confirming, LauncherConfirming, ChatConfirming,
       WorkerConfirming, IdleLauncher, IdleWorker
  <2>4. SingleCanceller
    BY <2>3, CancellersApart, Zenon
  <2> QED
    BY <2>1, <2>2, <2>4, Zenon DEF OneOwner
<1> QED
  BY <1>1, <1>2, <1>3 DEF DispatchInv

\* Every step of a thread keeps the invariant of the threads.
LEMMA NextDispatch ==
    ASSUME DispatchInv, DispatchNext
    PROVE  DispatchInv'
<1> USE DEF DispatchInv
<1>1. Next \/ UNCHANGED vars
  BY StepRefines
<1>2. TypeOK' /\ JobSlots' /\ WorkSlots' /\ \A c \in Calls : RowStep(c)
  BY <1>1, TablesStep DEF DispatchTypeOK
<1>3. DispatchTypeOK' /\ Hands' /\ UnsentTool'
  BY <1>2, StepType, HandsStep, UnsentToolStep
<1>4. GatesHold' /\ VerifiedIsClosed' /\ BegunEffectsAreRecorded'
  BY <1>2, GatesHoldStep, VerifiedIsClosedStep, BegunStep
<1>5. OneOwner'
  BY <1>2, ToolLaneStep, SingleCancellerStep DEF OneOwner
<1> QED
  BY <1>2, <1>3, <1>4, <1>5

\* A step that changes nothing.
LEMMA UnchangedDispatch ==
    ASSUME DispatchInv, UNCHANGED allVars
    PROVE  DispatchInv'
<1> USE DEF allVars, tables, threads, memory, history
<1>1. UNCHANGED vars /\ TypeOK /\ JobSlots /\ WorkSlots
  BY DEF vars, DispatchInv, DispatchTypeOK
<1>2. TypeOK' /\ JobSlots' /\ WorkSlots'
  BY <1>1, TablesStep
<1>3. DispatchTypeOK'
  BY <1>2 DEF DispatchInv, DispatchTypeOK
<1>4. Hands' /\ UnsentTool'
  BY DEF DispatchInv, Hands, LauncherHands, WorkerHands, ToolHands, QueueHands, UnsentTool,
     Present, ProviderCalls, InLane
<1>5. GatesHold' /\ VerifiedIsClosed' /\ BegunEffectsAreRecorded'
  BY DEF DispatchInv, GatesHold, Claimable, VerifiedIsClosed, BegunEffectsAreRecorded
<1>6. OneOwner'
  BY DEF DispatchInv, OneOwner, SingleCanceller, ToolLaneSurvives, Owner
<1> QED
  BY <1>2, <1>3, <1>4, <1>5, <1>6 DEF DispatchInv

\* The invariant the other theorems of this module rest on: the tables are coherent, what
\* threads and queues hold has a row, what passed a gate is still claimable or closed, what
\* began is on record, and each cancellation has one owner.
THEOREM DispatchInvariant == DispatchSpec => []DispatchInv
<1>1. DispatchInit => DispatchInv
  BY InitDispatch
<1>2. DispatchInv /\ [DispatchNext]_allVars => DispatchInv'
  BY NextDispatch, UnchangedDispatch
<1> QED
  BY <1>1, <1>2, PTL DEF DispatchSpec

\* The threads of a process, its recovery, its exits and other processes touch the tables
\* only as the transactions of the authority do: whatever is proved of ExecutionAuthority's
\* Spec holds of the running system.
THEOREM DispatchImplementsAuthority == DispatchSpec => Spec
<1>1. DispatchInit => Init
  BY DEF DispatchInit
<1>2. DispatchInv /\ [DispatchNext]_allVars => [Next]_vars
  <2>1. UNCHANGED allVars => UNCHANGED vars
    BY DEF allVars, tables, vars
  <2> QED
    BY <2>1, StepRefines DEF DispatchInv
<1> QED
  BY <1>1, <1>2, DispatchInvariant, PTL DEF DispatchSpec, Spec

\* What ever reached the provider or a tool is never recorded as not started, across
\* failures, fences, crashes and recovery.
THEOREM BegunIsRecorded == DispatchSpec => []BegunEffectsAreRecorded
<1>1. DispatchInv => BegunEffectsAreRecorded
  BY DEF DispatchInv
<1> QED
  BY <1>1, DispatchInvariant, PTL

\* However a launcher, a chat and the worker race to cancel one turn, at most one of them is
\* between the two phases, and the tool worker never gives its lane up.
THEOREM OneOwnerHolds == DispatchSpec => []OneOwner
<1>1. DispatchInv => OneOwner
  BY DEF DispatchInv
<1> QED
  BY <1>1, DispatchInvariant, PTL

\* Queues stay within the capacity of their lane, rounds within their limit, and every
\* thread at a place it has, through any interleaving and any number of exits within bound.
THEOREM DispatchTypes == DispatchSpec => []DispatchTypeOK
<1>1. DispatchInv => DispatchTypeOK
  BY DEF DispatchInv
<1> QED
  BY <1>1, DispatchInvariant, PTL

---------------------------------------------------------------------------------
(* Turns and rows: what each operation leaves alone. *)

\* A turn is live exactly when its Attempt passes the fence of domain.rs.
LEMMA LiveIsAuthority ==
    ASSUME DispatchInv, NEW j \in Jobs
    PROVE  /\ MayExecute(Turn(j)) <=> Live(j)
           /\ Live(j) => attempt[Turn(j)].authoritative /\ job[j].authority = 1
<1>1. JobSlot(j) /\ job[j].generation \in Nat /\ 1 \in Generations
  BY DispatchAssumption DEF DispatchInv, JobSlots, DispatchTypeOK, TypeOK, JobRecord, Generations
<1>2. CASE job[j].generation = 0 \/ job[j].generation > 1
  BY <1>1, <1>2 DEF JobSlot, Live, Turn, MayExecute, HoldsAuthority, Executable, Ended
<1>3. CASE job[j].generation = 1
  <2> DEFINE a == <<j, 1>>
  <2>1. /\ attempt[a].authoritative = (attempt[a].state \in Executable)
        /\ job[j].authority = (IF attempt[a].state \in Unfinished THEN 1 ELSE 0)
    BY <1>1, <1>3 DEF JobSlot
  <2>2. attempt[a].state \in Executable => attempt[a].authoritative /\ job[j].authority = 1
    BY <2>1, Zenon DEF Executable, Unfinished
  <2> QED
    BY <2>2 DEF Live, Turn, MayExecute, HoldsAuthority
<1> QED
  BY <1>1, <1>2, <1>3

\* An Attempt that ends takes its own Calls and intents with it, and nobody else's.
LEMMA EndLeaves ==
    ASSUME TypeOK, NEW a \in Attempts, NEW s, EndAttempt(call, intent, a, s)
    PROVE  /\ attempt'[a].state = s
           /\ \A b \in Attempts : b # a => attempt'[b] = attempt[b]
           /\ \A c \in Calls : Owner(c) # a => Untouched(c)
<1>1. attempt' = [attempt EXCEPT ![a] = [state |-> s, authoritative |-> FALSE]]
      /\ attempt \in [Attempts -> AttemptRecord]
  BY DEF EndAttempt, TypeOK
<1>2. call' = AbandonCalls(call, a) /\ intent' = FenceIntents(call, intent, a)
  BY DEF EndAttempt
<1>3. \A c \in Calls : Owner(c) # a => Untouched(c)
  BY <1>2 DEF AbandonCalls, FenceIntents, Untouched, Owner
<1> QED
  BY <1>1, <1>3

\* The first phase of a cancellation touches one Attempt and no row.
LEMMA CancelLeaves ==
    ASSUME TypeOK, NEW a \in Attempts, RequestCancel(a)
    PROVE  /\ attempt'[a].state = "cancelling"
           /\ \A b \in Attempts : b # a => attempt'[b] = attempt[b]
           /\ call' = call /\ intent' = intent
BY DEF RequestCancel, TypeOK

\* A replacement ends the turn it replaces or finds it over, and leaves the others alone.
LEMMA ReplaceLeaves ==
    ASSUME DispatchInv, NEW i \in Jobs, ReplacedElsewhere(i), NEW j \in Jobs
    PROVE  \/ attempt'[Turn(j)].state \in Ended
           \/ /\ attempt'[Turn(j)] = attempt[Turn(j)]
              /\ Live(j) => \A c \in CallsOf(j) : Untouched(c)
<1> DEFINE old == <<i, job[i].authority>>
           g == NextGeneration(i)
<1>1. /\ attempt' = [Revoke(old) EXCEPT ![<<i, g>>] = [state |-> "queued", authoritative |-> TRUE]]
      /\ call' = AbandonCalls(call, old) /\ intent' = FenceIntents(call, intent, old)
      /\ job[i].authority # 0
  BY DEF ReplacedElsewhere, ReplaceAttempt
<1>2. g # 1
  <2>1. JobSlot(i) /\ job[i].generation \in Nat
    BY DEF DispatchInv, JobSlots, DispatchTypeOK, TypeOK, JobRecord
  <2> QED
    BY <1>1, <2>1 DEF JobSlot, NextGeneration
<1>3. Turn(j) \in Attempts /\ <<i, g>> # Turn(j)
  BY <1>2, TurnsAreAttempts DEF Turn
<1>4. attempt'[Turn(j)] = Revoke(old)[Turn(j)]
  BY <1>1, <1>3 DEF Revoke
<1>5. CASE Turn(j) = old /\ attempt[Turn(j)].authoritative
  BY <1>3, <1>4, <1>5 DEF Revoke, Ended
<1>6. CASE Turn(j) = old /\ ~attempt[Turn(j)].authoritative
  <2>1. ~Live(j)
    BY <1>6, LiveIsAuthority
  <2> QED
    BY <1>3, <1>4, <1>6, <2>1 DEF Revoke
<1>7. CASE Turn(j) # old
  <2>1. \A c \in CallsOf(j) : c \in Calls /\ call[c].attempt # old
    BY <1>7 DEF CallsOf, ProviderCalls, Present, Owner
  <2>2. \A c \in CallsOf(j) : Untouched(c)
    BY <1>1, <2>1 DEF AbandonCalls, FenceIntents, Untouched
  <2> QED
    BY <1>3, <1>4, <1>7, <2>2 DEF Revoke
<1> QED
  BY <1>5, <1>6, <1>7


---------------------------------------------------------------------------------
(* Who changes a turn and the provider Calls it has. *)

\* A step that leaves every Attempt and every provider Call alone.
Spares == /\ attempt' = attempt /\ ProviderCalls' \subseteq ProviderCalls
          /\ \A c \in ProviderCalls : Untouched(c)

\* The steps that do not, by what they do to the tables.
LaunchActs(i) ==
    \/ LaunchDispatchesJob(i)
    \/ LaunchCreatesCall(i) /\ \E c \in TurnCalls :
          /\ CreateCall(c, Turn(i), "provider")
          /\ launcher' = [launcher EXCEPT ![i] = [pc |-> "calling", call |-> c]]
    \/ LaunchMarksQueued(i) /\ MarkDispatchQueued(launcher[i].call)
    \/ LaunchRefused(i) /\ FailCall(launcher[i].call)
WorkerActs ==
    \/ WorkerClaims /\ ClaimCall(provider.call)
    \/ WorkerSettles /\ \E r \in Responses : FinishCall(provider.call, r)
    \/ FailsCall /\ FailCall(provider.call)
Revokes(a) == /\ RequestCancel(a)
              /\ \/ \E i \in Jobs : (LaunchRevokes(i) \/ CancelRevokes(i)) /\ a = Turn(i)
                 \/ WorkerRevokes /\ a = Owner(provider.call)
EndsTurn == \E a \in Attempts, s \in Ended : EndAttempt(call, intent, a, s)

Acts ==
    \/ Spares \/ EndsTurn \/ WorkerActs
    \/ \E i \in Jobs : LaunchActs(i) \/ ReplacedElsewhere(i)
    \/ \E a \in Attempts : Revokes(a)
    \/ \E c \in Calls : ScanIntent(c) /\ FenceDispatchIntent(c)

\* Tables left alone spare everything.
LEMMA TablesSpared == UNCHANGED <<attempt, call, intent>> => Spares
BY DEF Spares, Untouched, ProviderCalls, Present

\* So does a step that changes the row of a tool Call only.
LEMMA ToolRowSpared ==
    ASSUME attempt' = attempt, NEW t, t \notin ProviderCalls, t \notin ProviderCalls',
           \A c \in Calls : c # t => Untouched(c)
    PROVE  Spares
<1>1. ASSUME NEW c \in ProviderCalls PROVE Untouched(c)
  BY <1>1 DEF ProviderCalls, Present
<1>2. ASSUME NEW c \in ProviderCalls' PROVE c \in ProviderCalls
  <2>1. c \in Calls /\ c # t /\ call'[c].state # "absent" /\ call'[c].kind = "provider"
    BY <1>2 DEF ProviderCalls, Present
  <2> QED
    BY <2>1 DEF Untouched, ProviderCalls, Present
<1> QED
  BY <1>1, <1>2 DEF Spares

\* An operation on one row of a tool Call that has one.
LEMMA ToolCallSpared ==
    ASSUME TypeOK, NEW t \in Present, call[t].kind # "provider", RowStep(t),
           \/ MarkDispatchQueued(t) \/ ClaimCall(t) \/ FailCall(t) \/ FenceDispatchIntent(t)
           \/ QueueHandoffFails(t)
           \/ \E r \in Responses : FinishCall(t, r) \/ FailNativeToolCall(t, r)
    PROVE  Spares
<1>1. t \in Calls /\ call[t].state # "absent" /\ t \notin ProviderCalls
  BY DEF Present, ProviderCalls
<1>2. call'[t].kind = call[t].kind
  BY <1>1 DEF RowStep, Untouched, RowMoves, RowCreated
<1>3. attempt' = attempt
  BY DEF MarkDispatchQueued, ClaimCall, FailCall, FenceDispatchIntent, QueueHandoffFails,
     FinishCall, FailNativeToolCall
<1>4. call \in [Calls -> CallRecord] /\ intent \in [Calls -> IntentRecord]
  BY DEF TypeOK, CallTable
<1>5. \A c \in Calls : c # t => call'[c] = call[c]
  BY <1>4 DEF MarkDispatchQueued, ClaimCall, FailCall, FenceDispatchIntent, QueueHandoffFails,
     FinishCall, CallCompleted, FailNativeToolCall
<1>6. \A c \in Calls : c # t => intent'[c] = intent[c]
  BY <1>4 DEF MarkDispatchQueued, ClaimCall, FailCall, FenceDispatchIntent, QueueHandoffFails,
     FinishCall, IntentSettled, FailNativeToolCall
<1> QED
  BY <1>1, <1>2, <1>3, <1>5, <1>6, ToolRowSpared DEF Untouched, ProviderCalls


\* The launching thread.
LEMMA LaunchStepActs ==
    ASSUME NEW i \in Jobs, RegisterTurn(i) \/ LaunchStep(i)
    PROVE  Acts
<1> USE DEF tables
<1>1. CASE LaunchCreatesJob(i)
  BY <1>1, TablesSpared DEF LaunchCreatesJob, CreateJob, Acts
<1>2. CASE LaunchDispatchesJob(i)
  BY <1>2 DEF Acts, LaunchActs
<1>3. CASE LaunchCreatesCall(i)
  <2>1. CASE UNCHANGED tables
    BY <2>1, TablesSpared DEF Acts
  <2>2. CASE ~UNCHANGED tables
    <3>1. LaunchActs(i)
      BY <1>3, <2>2 DEF LaunchCreatesCall, LaunchActs
    <3> QED
      BY <3>1 DEF Acts
  <2> QED
    BY <2>1, <2>2
<1>4. CASE LaunchMarksQueued(i) \/ LaunchRefused(i)
  <2>1. LaunchActs(i) \/ UNCHANGED tables
    BY <1>4 DEF LaunchMarksQueued, LaunchRefused, LaunchActs
  <2> QED
    BY <2>1, TablesSpared DEF Acts
<1>5. CASE LaunchUndone(i) \/ LaunchConfirms(i)
  <2>1. EndAttempt(call, intent, Turn(i), "failed") \/ EndAttempt(call, intent, Turn(i), "cancelled")
        \/ UNCHANGED tables
    BY <1>5 DEF LaunchUndone, LaunchConfirms, FinishAttempt, SettleCancel
  <2>2. EndsTurn \/ UNCHANGED tables
    BY <2>1, TurnsAreAttempts DEF EndsTurn, Ended
  <2> QED
    BY <2>2, TablesSpared DEF Acts
<1>6. CASE LaunchRevokes(i)
  <2>1. Revokes(Turn(i)) \/ UNCHANGED tables
    BY <1>6 DEF LaunchRevokes, Revokes
  <2> QED
    BY <2>1, TurnsAreAttempts, TablesSpared DEF Acts
<1>7. CASE \/ RegisterTurn(i) \/ LaunchAdmits(i) \/ LaunchSends(i) \/ LaunchHandedOff(i)
           \/ PublishTurn(i)
  BY <1>7, TablesSpared DEF RegisterTurn, LaunchAdmits, LaunchSends, LaunchHandedOff, PublishTurn,
     Acts
<1> QED
  BY <1>1, <1>2, <1>3, <1>4, <1>5, <1>6, <1>7 DEF LaunchStep

\* The chat that cancels.
LEMMA ChatStepActs ==
    ASSUME NEW i \in Jobs, ChatStep(i)
    PROVE  Acts
<1> USE DEF tables
<1>1. CASE CancelRevokes(i)
  <2>1. Revokes(Turn(i)) \/ UNCHANGED tables
    BY <1>1 DEF CancelRevokes, Revokes
  <2> QED
    BY <2>1, TurnsAreAttempts, TablesSpared DEF Acts
<1>2. CASE CancelConfirms(i)
  <2>1. EndsTurn
    BY <1>2, TurnsAreAttempts DEF CancelConfirms, SettleCancel, EndsTurn, Ended
  <2> QED
    BY <2>1 DEF Acts
<1>3. CASE CancelChat(i) \/ CancelSignals(i) \/ ForgetChat(i)
  BY <1>3, TablesSpared DEF CancelChat, CancelSignals, ForgetChat, Acts
<1> QED
  BY <1>1, <1>2, <1>3 DEF ChatStep, CancelStep

\* The provider worker.
LEMMA WorkerStepActs ==
    ASSUME DispatchInv, \A c \in Calls : RowStep(c), WorkerStep \/ WorkerTimesOut
    PROVE  Acts
<1> USE DEF tables
<1> DEFINE a == Owner(provider.call)
<1>0. /\ TypeOK /\ provider \in WorkerRecord
      /\ provider.pc # "idle" => provider.call \in Calls /\ a \in Attempts
      /\ provider.pc \in {"toolQueue", "toolSend"} =>
            provider.tool \in Present /\ provider.tool \in Calls /\ call[provider.tool].kind # "provider"
  BY OwnersAreAttempts DEF DispatchInv, DispatchTypeOK, Hands, WorkerHands, Present
<1>1. CASE WorkerClaims \/ WorkerSettles \/ FailsCall
  <2>1. WorkerActs \/ UNCHANGED tables
    BY <1>1 DEF WorkerClaims, WorkerSettles, FailsCall, WorkerActs
  <2> QED
    BY <2>1, TablesSpared DEF Acts
<1>2. CASE WorkerCreatesTool
  <2>1. CASE UNCHANGED tables
    BY <2>1, TablesSpared DEF Acts
  <2>2. ASSUME NEW t \in ToolCalls, NEW kind \in {"tool", "read"}, CreateCall(t, a, kind)
        PROVE  Spares
    <3>1. t \notin ProviderCalls /\ t \notin ProviderCalls'
      BY <1>0, <2>2 DEF CreateCall, ProviderCalls, Present, ToolCalls, TypeOK, CallTable
    <3>2. attempt' = attempt /\ \A c \in Calls : c # t => Untouched(c)
      BY <1>0, <2>2 DEF CreateCall, TypeOK, CallTable, Untouched
    <3> QED
      BY <3>1, <3>2, ToolRowSpared
  <2> QED
    BY <1>2, <2>1, <2>2 DEF WorkerCreatesTool, Acts
<1>3. CASE WorkerQueuesTool \/ WorkerSendsTool
  <2>1. \/ MarkDispatchQueued(provider.tool) \/ QueueHandoffFails(provider.tool)
        \/ UNCHANGED tables
    BY <1>3 DEF WorkerQueuesTool, WorkerSendsTool
  <2>2. provider.tool \in Present /\ call[provider.tool].kind # "provider" /\ RowStep(provider.tool)
    BY <1>0, <1>3 DEF WorkerQueuesTool, WorkerSendsTool
  <2> QED
    BY <1>0, <2>1, <2>2, TablesSpared, ToolCallSpared DEF Acts
<1>4. CASE WorkerFinishes \/ FailsAttempt \/ WorkerConfirms
  <2>1. \/ EndAttempt(call, intent, a, "completed") \/ EndAttempt(call, intent, a, "failed")
        \/ EndAttempt(call, intent, a, "cancelled") \/ UNCHANGED tables
    BY <1>4 DEF WorkerFinishes, FailsAttempt, WorkerConfirms, FinishAttempt, SettleCancel
  <2>2. EndsTurn \/ UNCHANGED tables
    BY <1>0, <1>4, <2>1 DEF EndsTurn, Ended, WorkerFinishes, FailsAttempt, WorkerConfirms
  <2> QED
    BY <2>2, TablesSpared DEF Acts
<1>5. CASE WorkerRevokes
  <2>1. Revokes(a) \/ UNCHANGED tables
    BY <1>5 DEF WorkerRevokes, Revokes
  <2> QED
    BY <1>0, <1>5, <2>1, TablesSpared DEF Acts, WorkerRevokes
<1>6. CASE \/ WorkerTakes \/ WorkerGates \/ WorkerRound \/ WorkerReply \/ WorkerHandedTool
           \/ WorkerPolls \/ WorkerErrs \/ FailReads \/ WorkerTimesOut
  BY <1>6, TablesSpared DEF WorkerTakes, WorkerGates, WorkerRound, WorkerReply, WorkerHandedTool,
     WorkerPolls, WorkerErrs, FailReads, WorkerTimesOut, WorkerOnly, Acts
<1> QED
  BY <1>1, <1>2, <1>3, <1>4, <1>5, <1>6 DEF WorkerStep

\* The tool worker has tool Calls only.
LEMMA ToolStepActs ==
    ASSUME DispatchInv, LanesSort, \A c \in Calls : RowStep(c), ToolStep
    PROVE  Acts
<1>1. tool.pc # "idle" => tool.call \in Present /\ call[tool.call].kind # "provider"
                          /\ RowStep(tool.call)
  BY DEF DispatchInv, Hands, ToolHands, LanesSort, Present
<1>2. CASE ToolClaims \/ ToolEnds \/ ToolFailsUnclaimed \/ ToolFences
  <2>1. \/ ClaimCall(tool.call) \/ FailCall(tool.call) \/ FenceDispatchIntent(tool.call)
        \/ \E r \in Responses : FinishCall(tool.call, r) \/ FailNativeToolCall(tool.call, r)
        \/ UNCHANGED tables
    BY <1>2 DEF ToolClaims, ToolEnds, ToolFailsUnclaimed, ToolFences
  <2>2. tool.pc # "idle" /\ TypeOK
    BY <1>2 DEF ToolClaims, ToolEnds, ToolFailsUnclaimed, ToolFences, DispatchInv, DispatchTypeOK
  <2> QED
    BY <1>1, <2>1, <2>2, TablesSpared, ToolCallSpared DEF Acts, tables
<1>3. CASE ToolTakes \/ ToolChecks \/ ToolGates \/ ToolVerifies
  BY <1>3, TablesSpared DEF ToolTakes, ToolChecks, ToolGates, ToolVerifies, ToolOnly, tables, Acts
<1> QED
  BY <1>2, <1>3 DEF ToolStep

\* The runtime, its recovery and the process.
LEMMA RuntimeStepActs ==
    ASSUME DispatchInv, RuntimeStep \/ StopRuntime \/ ProcessExits \/ (\E c \in Calls : Deliver(c))
    PROVE  Acts
<1>1. ASSUME NEW c \in Calls, ScanIntent(c) PROVE Acts
  <2>1. FenceDispatchIntent(c) \/ UNCHANGED tables
    BY <1>1 DEF ScanIntent
  <2> QED
    BY <1>1, <2>1, TablesSpared DEF Acts, tables
<1>2. CASE ScanAbandons
  <2>1. scan.abandon \in Attempts /\ (EndAttempt(call, intent, scan.abandon, "unknown") \/ UNCHANGED tables)
    BY <1>2 DEF ScanAbandons, AbandonAttempt, DispatchInv, DispatchTypeOK
  <2>2. EndsTurn \/ UNCHANGED tables
    BY <2>1 DEF EndsTurn, Ended
  <2> QED
    BY <2>2, TablesSpared DEF Acts, tables
<1>3. CASE \/ StartRuntime \/ ScanEnds \/ Requeue \/ JoinWorkers \/ StopRuntime \/ ProcessExits
           \/ (\E l \in Lanes : CloseLane(l)) \/ (\E c \in Calls : Deliver(c))
  BY <1>3, TablesSpared DEF StartRuntime, ScanEnds, Requeue, JoinWorkers, StopRuntime, ProcessExits,
     CloseLane, Deliver, tables, Acts
<1> QED
  BY <1>1, <1>2, <1>3 DEF RuntimeStep

\* Together.
LEMMA StepActs ==
    ASSUME DispatchInv, LanesSort, \A c \in Calls : RowStep(c), DispatchNext
    PROVE  Acts
<1>1. ASSUME NEW i \in Jobs, ReplacedElsewhere(i) PROVE Acts
  BY <1>1 DEF Acts
<1> QED
  BY <1>1, LaunchStepActs, ChatStepActs, WorkerStepActs, ToolStepActs, RuntimeStepActs
     DEF DispatchNext, ChatStep


\* How the Attempt of a turn moves: it is published by its launch, revoked by who will
\* confirm its end, or ends.
LEMMA TurnStep ==
    ASSUME DispatchInv, Acts, NEW j \in Jobs
    PROVE  \/ attempt'[Turn(j)] = attempt[Turn(j)]
           \/ attempt'[Turn(j)].state \in Ended
           \/ LaunchDispatchesJob(j) /\ attempt'[Turn(j)].state = "queued"
           \/ Revokes(Turn(j)) /\ attempt'[Turn(j)].state = "cancelling"
<1>0. TypeOK /\ Turn(j) \in Attempts /\ attempt \in [Attempts -> AttemptRecord]
  BY TurnsAreAttempts DEF DispatchInv, DispatchTypeOK, TypeOK
<1>1. CASE Spares
  BY <1>1 DEF Spares
<1>2. CASE EndsTurn
  <2> PICK a \in Attempts, s \in Ended : EndAttempt(call, intent, a, s)
    BY <1>2 DEF EndsTurn
  <2>1. attempt'[a].state = s /\ \A b \in Attempts : b # a => attempt'[b] = attempt[b]
    BY <1>0, EndLeaves
  <2> QED
    BY <1>0, <2>1
<1>3. CASE WorkerActs
  BY <1>3 DEF WorkerActs, ClaimCall, FinishCall, FailCall
<1>4. ASSUME NEW i \in Jobs, LaunchActs(i)
      PROVE  \/ attempt'[Turn(j)] = attempt[Turn(j)]
             \/ LaunchDispatchesJob(j) /\ attempt'[Turn(j)].state = "queued"
  <2>1. CASE LaunchDispatchesJob(i)
    <3>1. attempt' = [attempt EXCEPT ![<<i, NextGeneration(i)>>] =
                         [state |-> "queued", authoritative |-> TRUE]]
      BY <2>1 DEF LaunchDispatchesJob, DispatchJob, PublishAttempt
    <3>2. CASE <<i, NextGeneration(i)>> = Turn(j)
      BY <1>0, <2>1, <3>1, <3>2 DEF Turn
    <3> QED
      BY <1>0, <3>1, <3>2
  <2> QED
    BY <1>4, <2>1 DEF LaunchActs, CreateCall, MarkDispatchQueued, FailCall
<1>5. ASSUME NEW i \in Jobs, ReplacedElsewhere(i)
      PROVE  attempt'[Turn(j)] = attempt[Turn(j)] \/ attempt'[Turn(j)].state \in Ended
  BY <1>5, ReplaceLeaves
<1>6. ASSUME NEW a \in Attempts, Revokes(a)
      PROVE  \/ attempt'[Turn(j)] = attempt[Turn(j)]
             \/ Revokes(Turn(j)) /\ attempt'[Turn(j)].state = "cancelling"
  <2>1. /\ attempt'[a].state = "cancelling"
        /\ \A b \in Attempts : b # a => attempt'[b] = attempt[b]
    BY <1>0, <1>6, CancelLeaves DEF Revokes
  <2>2. CASE a = Turn(j)
    BY <1>6, <2>1, <2>2
  <2> QED
    BY <1>0, <2>1, <2>2
<1>7. ASSUME NEW c \in Calls, FenceDispatchIntent(c) PROVE attempt'[Turn(j)] = attempt[Turn(j)]
  BY <1>7 DEF FenceDispatchIntent
<1> QED
  BY <1>1, <1>2, <1>3, <1>4, <1>5, <1>6, <1>7 DEF Acts

\* An operation on one row.
LEMMA OneRow ==
    ASSUME TypeOK, NEW d \in Calls,
           \/ MarkDispatchQueued(d) \/ ClaimCall(d) \/ FailCall(d) \/ FenceDispatchIntent(d)
           \/ \E r \in Responses : FinishCall(d, r)
           \/ \E a, kind : CreateCall(d, a, kind)
    PROVE  \A c \in Calls : c # d => Untouched(c)
<1>1. call \in [Calls -> CallRecord] /\ intent \in [Calls -> IntentRecord]
  BY DEF TypeOK, CallTable
<1>2. \A c \in Calls : c # d => call'[c] = call[c]
  BY <1>1 DEF MarkDispatchQueued, ClaimCall, FailCall, FenceDispatchIntent, FinishCall, CallCompleted,
     CreateCall
<1>3. \A c \in Calls : c # d => intent'[c] = intent[c]
  BY <1>1 DEF MarkDispatchQueued, ClaimCall, FailCall, FenceDispatchIntent, FinishCall, IntentSettled,
     CreateCall
<1> QED
  BY <1>2, <1>3 DEF Untouched

\* Who may act on a provider Call c of a turn j: the worker that holds it, the launch of
\* its turn, or the recovery scan.
RowActs(j, c) ==
    \/ WorkerClaims /\ provider.call = c /\ ClaimCall(c)
    \/ WorkerSettles /\ provider.call = c /\ \E r \in Responses : FinishCall(c, r)
    \/ FailsCall /\ provider.call = c /\ FailCall(c)
    \/ LaunchMarksQueued(j) /\ launcher[j].call = c /\ MarkDispatchQueued(c)
    \/ LaunchRefused(j) /\ launcher[j].call = c /\ FailCall(c)
    \/ ScanIntent(c) /\ FenceDispatchIntent(c)

\* While a turn stays live nobody else touches its provider Calls.
LEMMA RowStays ==
    ASSUME DispatchInv, OneCallPerTurn, Acts, NEW j \in Jobs, NEW c \in CallsOf(j), Live(j)'
    PROVE  Untouched(c) \/ RowActs(j, c)
<1>0. /\ TypeOK /\ c \in Calls /\ c \in ProviderCalls /\ c \in Present /\ Owner(c) = Turn(j)
      /\ call[c].state # "absent"
  BY DEF DispatchInv, DispatchTypeOK, CallsOf, ProviderCalls, Present
<1>t. attempt'[Turn(j)].state \in Executable
  BY DEF Live, Turn
<1>1. CASE Spares
  BY <1>0, <1>1 DEF Spares
<1>2. CASE EndsTurn
  <2> PICK a \in Attempts, s \in Ended : EndAttempt(call, intent, a, s)
    BY <1>2 DEF EndsTurn
  <2>1. attempt'[a].state = s /\ (Owner(c) # a => Untouched(c))
    BY <1>0, EndLeaves
  <2> QED
    BY <1>0, <1>t, <2>1 DEF Executable, Ended
<1>3. CASE WorkerActs
  <2>1. provider.call \in Calls
    BY <1>3 DEF WorkerActs, WorkerClaims, WorkerSettles, FailsCall, DispatchInv, Hands, WorkerHands,
       Present
  <2>2. CASE provider.call = c
    BY <1>3, <2>2 DEF WorkerActs, RowActs
  <2>3. CASE provider.call # c
    BY <1>0, <1>3, <2>1, <2>3, OneRow DEF WorkerActs
  <2> QED
    BY <2>2, <2>3
<1>4. ASSUME NEW i \in Jobs, LaunchActs(i) PROVE Untouched(c) \/ RowActs(j, c)
  <2>1. CASE LaunchDispatchesJob(i)
    BY <2>1 DEF LaunchDispatchesJob, DispatchJob, Untouched
  <2>2. ASSUME NEW d \in TurnCalls, CreateCall(d, Turn(i), "provider") PROVE Untouched(c)
    <3>1. d \in Calls /\ d # c
      BY <1>0, <2>2, DispatchAssumption DEF CreateCall
    <3> QED
      BY <1>0, <2>2, <3>1, OneRow
  <2>3. CASE \/ LaunchMarksQueued(i) /\ MarkDispatchQueued(launcher[i].call)
             \/ LaunchRefused(i) /\ FailCall(launcher[i].call)
    <3>1. launcher[i].call \in Calls /\ Owner(launcher[i].call) = Turn(i)
      BY <2>3 DEF LaunchMarksQueued, LaunchRefused, Launching, DispatchInv, Hands, LauncherHands,
         ProviderCalls, Present, OneCallPerTurn
    <3>2. CASE launcher[i].call = c
      <4>1. i = j
        BY <1>0, <3>1, <3>2 DEF Turn
      <4> QED
        BY <2>3, <3>2, <4>1 DEF RowActs
    <3>3. CASE launcher[i].call # c
      BY <1>0, <2>3, <3>1, <3>3, OneRow
    <3> QED
      BY <3>2, <3>3
  <2> QED
    BY <1>4, <2>1, <2>2, <2>3 DEF LaunchActs
<1>5. ASSUME NEW i \in Jobs, ReplacedElsewhere(i) PROVE Untouched(c)
  <2>1. attempt'[Turn(j)].state \notin Ended
    BY <1>t DEF Executable, Ended
  <2>2. attempt'[Turn(j)] = attempt[Turn(j)] /\ (Live(j) => \A d \in CallsOf(j) : Untouched(d))
    BY <1>5, <2>1, ReplaceLeaves
  <2>3. Live(j)
    BY <1>t, <2>2 DEF Live
  <2> QED
    BY <2>2, <2>3
<1>6. ASSUME NEW a \in Attempts, Revokes(a) PROVE Untouched(c)
  BY <1>0, <1>6, CancelLeaves DEF Revokes, Untouched
<1>7. ASSUME NEW d \in Calls, ScanIntent(d), FenceDispatchIntent(d) PROVE Untouched(c) \/ RowActs(j, c)
  <2>1. CASE d = c
    BY <1>7, <2>1 DEF RowActs
  <2>2. CASE d # c
    BY <1>0, <1>7, <2>2, OneRow
  <2> QED
    BY <2>1, <2>2
<1> QED
  BY <1>1, <1>2, <1>3, <1>4, <1>5, <1>6, <1>7 DEF Acts


\* A step of the system from a state in which turns are held, with what the earlier
\* lemmas say of every such step.
HeldStep == /\ DispatchInv /\ DispatchInv' /\ OwnershipInv /\ DispatchNext /\ Acts
            /\ \A c \in Calls : RowStep(c)

\* A turn gets its provider Call from its launch, and keeps it.
LEMMA NewCalls ==
    ASSUME DispatchInv, Acts, \A c \in Calls : RowStep(c), NEW j \in Jobs
    PROVE  /\ CallsOf(j) \subseteq CallsOf(j)'
           /\ \A c \in CallsOf(j)' : c \notin CallsOf(j) =>
                 /\ LaunchCreatesCall(j) /\ launcher'[j] = [pc |-> "calling", call |-> c]
                 /\ call'[c].state = "created" /\ call'[c].attempt = Turn(j)
<1>0. TypeOK /\ call \in [Calls -> CallRecord]
  BY DEF DispatchInv, DispatchTypeOK, TypeOK, CallTable
<1>1. CallsOf(j) \subseteq CallsOf(j)'
  <2>1. ASSUME NEW c \in CallsOf(j) PROVE c \in CallsOf(j)'
    <3>1. c \in ProviderCalls /\ c \in Present /\ Owner(c) = Turn(j)
      BY DEF CallsOf, ProviderCalls
    <3>2. c \in ProviderCalls' /\ call'[c].attempt = call[c].attempt
      BY <3>1, RowsPersist
    <3> QED
      BY <3>1, <3>2 DEF CallsOf, Owner, Turn
  <2> QED
    BY <2>1
<1>2. ASSUME NEW c \in CallsOf(j)', c \notin CallsOf(j)
      PROVE  /\ LaunchCreatesCall(j) /\ launcher'[j] = [pc |-> "calling", call |-> c]
             /\ call'[c].state = "created" /\ call'[c].attempt = Turn(j)
  <2>1. /\ c \in Calls /\ call'[c].state # "absent" /\ call'[c].kind = "provider"
        /\ call'[c].attempt = Turn(j)
    BY <1>2 DEF CallsOf, ProviderCalls, Present, Owner, Turn
  <2>2. c \notin Present
    <3>1. CASE c \in Present
      <4>1. call'[c].attempt = call[c].attempt /\ call'[c].kind = call[c].kind
        BY <3>1, RowsPersist
      <4> QED
        BY <1>2, <2>1, <3>1, <4>1 DEF CallsOf, ProviderCalls, Owner
    <3> QED
      BY <3>1
  <2>3. call[c].state = "absent" /\ ~Untouched(c) /\ c \notin ProviderCalls
    BY <2>1, <2>2 DEF Present, Untouched, ProviderCalls
  <2>4. ~Spares
    BY <2>1, <2>3 DEF Spares, ProviderCalls, Present
  <2>5. ASSUME NEW d \in Calls, RowStep(d),
               \/ MarkDispatchQueued(d) \/ ClaimCall(d) \/ FailCall(d) \/ FenceDispatchIntent(d)
               \/ \E r \in Responses : FinishCall(d, r)
        PROVE  FALSE
    <3>1. c = d
      <4>1. \A x \in Calls : x # d => Untouched(x)
        BY <1>0, <2>5, OneRow, Zenon
      <4> QED
        BY <2>1, <2>3, <4>1
    <3>2. call'[c].state # "created"
      BY <1>0, <2>3, <2>5, <3>1 DEF MarkDispatchQueued, ClaimCall, FailCall, FenceDispatchIntent,
         FinishCall, CallCompleted, OpenCall
    <3> QED
      BY <2>3, <3>1, <3>2, <2>5, <2>1 DEF RowStep, RowCreated, RowMoves, OpenCall
  <2>6. ASSUME NEW a, call' = AbandonCalls(call, a) PROVE FALSE
    <3>1. call'[c] = call[c]
      BY <2>1, <2>3, <2>6 DEF AbandonCalls, OpenCall
    <3> QED
      BY <2>1, <2>3, <3>1
  <2>7. ~EndsTurn
    BY <2>6 DEF EndsTurn, EndAttempt
  <2>8. ~WorkerActs
    <3>1. CASE WorkerActs
      <4>1. provider.call \in Calls
        BY <3>1 DEF WorkerActs, WorkerClaims, WorkerSettles, FailsCall, DispatchInv, Hands, WorkerHands,
           Present
      <4> QED
        BY <2>5, <3>1, <4>1 DEF WorkerActs
    <3> QED
      BY <3>1
  <2>9. \A i \in Jobs : ~ReplacedElsewhere(i)
    BY <2>6 DEF ReplacedElsewhere, ReplaceAttempt
  <2>10. \A a \in Attempts : ~Revokes(a)
    BY <2>1, <2>3 DEF Revokes, RequestCancel
  <2>11. ~\E d \in Calls : ScanIntent(d) /\ FenceDispatchIntent(d)
    BY <2>5
  <2> PICK i \in Jobs : LaunchActs(i)
    BY <2>4, <2>7, <2>8, <2>9, <2>10, <2>11 DEF Acts
  <2>12. ~LaunchDispatchesJob(i)
    BY <2>1, <2>3 DEF LaunchDispatchesJob, DispatchJob
  <2>13. ~(\/ LaunchMarksQueued(i) /\ MarkDispatchQueued(launcher[i].call)
           \/ LaunchRefused(i) /\ FailCall(launcher[i].call))
    <3>1. LaunchMarksQueued(i) \/ LaunchRefused(i) => launcher[i].call \in Calls
      BY DEF LaunchMarksQueued, LaunchRefused, Launching, DispatchInv, Hands, LauncherHands,
         ProviderCalls, Present
    <3> QED
      BY <2>5, <3>1
  <2> PICK d \in TurnCalls : /\ CreateCall(d, Turn(i), "provider")
                             /\ launcher' = [launcher EXCEPT ![i] = [pc |-> "calling", call |-> d]]
    BY <2>12, <2>13 DEF LaunchActs
  <2>14. LaunchCreatesCall(i)
    BY <2>12, <2>13 DEF LaunchActs
  <2>15. d \in Calls /\ c = d
    <3>1. d \in Calls /\ \E a, kind : CreateCall(d, a, kind)
      BY DispatchAssumption, Zenon
    <3>2. \A x \in Calls : x # d => Untouched(x)
      BY <1>0, <3>1, OneRow, Zenon
    <3> QED
      BY <2>1, <2>3, <3>1, <3>2
  <2>16. call'[c].state = "created" /\ call'[c].attempt = Turn(i)
    BY <1>0, <2>15 DEF CreateCall
  <2>17. i = j
    BY <2>1, <2>16 DEF Turn
  <2>18. launcher'[j] = [pc |-> "calling", call |-> c]
    BY <2>15, <2>17 DEF DispatchInv, DispatchTypeOK
  <2> QED
    BY <2>1, <2>14, <2>16, <2>17, <2>18
<1> QED
  BY <1>1, <1>2


---------------------------------------------------------------------------------
(* Who moves what: a turn's own threads, the runtime, the worker. *)

\* Where a launch may go from where it is.
LaunchEdges ==
    {<<"idle", "registered">>, <<"registered", "pending">>, <<"pending", "dispatched">>,
     <<"dispatched", "calling">>, <<"dispatched", "undo">>, <<"calling", "admitted">>,
     <<"calling", "refused">>, <<"admitted", "queued">>, <<"admitted", "undo">>,
     <<"queued", "sending">>, <<"queued", "refused">>, <<"sending", "sent">>,
     <<"refused", "undo">>, <<"undo", "done">>, <<"sent", "done">>, <<"sent", "revoke">>,
     <<"revoke", "confirm">>, <<"revoke", "done">>, <<"confirm", "done">>}

\* A step of a launch moves that launch, and the registration of its chat at both ends.
LEMMA LaunchMoves ==
    ASSUME DispatchTypeOK, NEW j \in Jobs, RegisterTurn(j) \/ LaunchStep(j)
    PROVE  /\ <<launcher[j].pc, launcher'[j].pc>> \in LaunchEdges
           /\ LaunchCreatesCall(j) \/ launcher'[j].call = launcher[j].call
           /\ \A i \in Jobs : i # j => launcher'[i] = launcher[i] /\ chat'[i] = chat[i]
           /\ token' = token /\ canceller' = canceller
           /\ \/ chat'[j] = chat[j]
              \/ RegisterTurn(j) /\ chat'[j] \in {"none", "launching"}
              \/ LaunchUndone(j) /\ chat'[j] = "none"
              \/ PublishTurn(j) /\ chat[j] = "launching" /\ chat'[j] = "live"
                   /\ launcher'[j].pc = "done"
<1>0. /\ launcher \in [Jobs -> LauncherRecord]
      /\ chat \in [Jobs -> {"none", "launching", "live"}]
  BY DEF DispatchTypeOK
<1>1. ASSUME NEW pc, LaunchTo(j, pc), <<launcher[j].pc, pc>> \in LaunchEdges
      PROVE  /\ <<launcher[j].pc, launcher'[j].pc>> \in LaunchEdges
             /\ launcher'[j].pc = pc /\ launcher'[j].call = launcher[j].call
             /\ \A i \in Jobs : i # j => launcher'[i] = launcher[i]
  BY <1>0, <1>1 DEF LaunchTo, LauncherRecord
<1>2. canceller' = canceller
  BY LaunchFootprint
<1>3. CASE RegisterTurn(j)
  <2>1. <<"idle", "registered">> \in LaunchEdges /\ token' = token
    BY <1>3 DEF LaunchEdges, RegisterTurn
  <2>2. chat' = [chat EXCEPT ![j] = IF j \in ChatJobs THEN "launching" ELSE "none"]
    BY <1>3 DEF RegisterTurn
  <2> QED
    BY <1>0, <1>1, <1>2, <1>3, <2>1, <2>2 DEF RegisterTurn, Launching
<1>4. CASE LaunchCreatesCall(j)
  <2>1. CASE LaunchTo(j, "undo")
    BY <1>1, <1>2, <1>4, <2>1 DEF LaunchCreatesCall, Launching, LaunchEdges
  <2>2. ASSUME NEW c, launcher' = [launcher EXCEPT ![j] = [pc |-> "calling", call |-> c]]
        PROVE  /\ launcher'[j].pc = "calling"
               /\ \A i \in Jobs : i # j => launcher'[i] = launcher[i]
    BY <1>0, <2>2
  <2>3. <<"dispatched", "calling">> \in LaunchEdges
    BY DEF LaunchEdges
  <2> QED
    BY <1>2, <1>4, <2>1, <2>2, <2>3 DEF LaunchCreatesCall, Launching
<1>5. CASE LaunchUndone(j)
  <2>1. <<"undo", "done">> \in LaunchEdges /\ token' = token
    BY <1>5 DEF LaunchEdges, LaunchUndone
  <2>2. chat' = [chat EXCEPT ![j] = IF @ = "launching" THEN "none" ELSE @]
    BY <1>5 DEF LaunchUndone
  <2> QED
    BY <1>0, <1>1, <1>2, <1>5, <2>1, <2>2 DEF LaunchUndone, Launching
<1>6. CASE PublishTurn(j)
  <2>1. /\ <<"sent", "done">> \in LaunchEdges /\ <<"sent", "revoke">> \in LaunchEdges
        /\ token' = token
    BY <1>6 DEF LaunchEdges, PublishTurn
  <2>2. CASE chat[j] = "launching"
    <3>1. chat' = [chat EXCEPT ![j] = "live"] /\ LaunchTo(j, "done") /\ launcher[j].pc = "sent"
      BY <1>6, <2>2 DEF PublishTurn, Launching
    <3> QED
      BY <1>0, <1>1, <1>2, <1>6, <2>1, <2>2, <3>1
  <2>3. CASE chat[j] # "launching"
    <3>1. chat' = chat /\ (LaunchTo(j, "done") \/ LaunchTo(j, "revoke")) /\ launcher[j].pc = "sent"
      BY <1>6, <2>3 DEF PublishTurn, Launching
    <3> QED
      BY <1>1, <1>2, <2>1, <3>1
  <2> QED
    BY <2>2, <2>3
<1>7. ASSUME \/ LaunchCreatesJob(j) \/ LaunchDispatchesJob(j) \/ LaunchAdmits(j)
             \/ LaunchMarksQueued(j) \/ LaunchSends(j) \/ LaunchHandedOff(j) \/ LaunchRefused(j)
             \/ LaunchRevokes(j) \/ LaunchConfirms(j)
      PROVE  \E pc : /\ LaunchTo(j, pc) /\ <<launcher[j].pc, pc>> \in LaunchEdges
                     /\ chat' = chat /\ token' = token
  <2>1. CASE LaunchCreatesJob(j)
    BY <2>1 DEF LaunchCreatesJob, Launching, LaunchEdges
  <2>2. CASE LaunchDispatchesJob(j)
    BY <2>2 DEF LaunchDispatchesJob, Launching, LaunchEdges
  <2>3. CASE LaunchAdmits(j)
    BY <2>3 DEF LaunchAdmits, Launching, LaunchEdges
  <2>4. CASE LaunchMarksQueued(j)
    BY <2>4 DEF LaunchMarksQueued, Launching, LaunchEdges
  <2>5. CASE LaunchSends(j)
    BY <2>5 DEF LaunchSends, Launching, LaunchEdges
  <2>6. CASE LaunchHandedOff(j)
    BY <2>6 DEF LaunchHandedOff, Launching, LaunchEdges
  <2>7. CASE LaunchRefused(j)
    BY <2>7 DEF LaunchRefused, Launching, LaunchEdges
  <2>8. CASE LaunchRevokes(j)
    BY <2>8 DEF LaunchRevokes, Launching, LaunchEdges
  <2>9. CASE LaunchConfirms(j)
    BY <2>9 DEF LaunchConfirms, Launching, LaunchEdges
  <2> QED
    BY <1>7, <2>1, <2>2, <2>3, <2>4, <2>5, <2>6, <2>7, <2>8, <2>9
<1> QED
  BY <1>1, <1>2, <1>3, <1>4, <1>5, <1>6, <1>7 DEF LaunchStep

\* Where a chat step may lead: the registration is removed before the turn is signalled.
LEMMA ChatMoves ==
    ASSUME DispatchTypeOK, NEW j \in Jobs, ChatStep(j)
    PROVE  /\ \A i \in Jobs : i # j => /\ canceller'[i] = canceller[i] /\ chat'[i] = chat[i]
                                       /\ Turn(i) \in token' <=> Turn(i) \in token
           /\ \/ /\ CancelChat(j) /\ token' = token /\ chat'[j] = "none"
                 /\ canceller'[j] = (IF chat[j] = "live" THEN "revoke" ELSE "signal")
              \/ /\ CancelRevokes(j) /\ token' = token /\ chat' = chat
                 /\ \/ canceller'[j] = "signalRevoked" /\ RequestCancel(Turn(j))
                    \/ canceller'[j] = "signal" /\ ~MayExecute(Turn(j)) /\ UNCHANGED tables
              \/ /\ CancelSignals(j) /\ token' = token \cup {Turn(j)} /\ chat' = chat
                 /\ canceller'[j] = (IF canceller[j] = "signal" THEN "idle" ELSE "confirm")
              \/ CancelConfirms(j) /\ token' = token /\ chat' = chat /\ canceller'[j] = "idle"
              \/ ForgetChat(j) /\ token' = token /\ chat'[j] = "none" /\ canceller' = canceller
<1>0. /\ canceller \in [Jobs -> CancellerPcs] /\ chat \in [Jobs -> {"none", "launching", "live"}]
      /\ \A i \in Jobs : i # j => Turn(i) # Turn(j)
  BY DEF DispatchTypeOK, Turn
<1>1. ASSUME NEW pc, CancelTo(j, pc)
      PROVE  canceller'[j] = pc /\ \A i \in Jobs : i # j => canceller'[i] = canceller[i]
  BY <1>0, <1>1 DEF CancelTo
<1>2. CASE CancelChat(j)
  <2>1. chat' = [chat EXCEPT ![j] = "none"] /\ token' = token
        /\ CancelTo(j, IF chat[j] = "live" THEN "revoke" ELSE "signal")
    BY <1>2 DEF CancelChat
  <2> QED
    BY <1>0, <1>1, <1>2, <2>1
<1>3. CASE CancelRevokes(j)
  BY <1>1, <1>3 DEF CancelRevokes
<1>4. CASE CancelSignals(j)
  <2>1. /\ token' = token \cup {Turn(j)} /\ chat' = chat
        /\ CancelTo(j, IF canceller[j] = "signal" THEN "idle" ELSE "confirm")
    BY <1>4 DEF CancelSignals
  <2> QED
    BY <1>0, <1>1, <1>4, <2>1
<1>5. CASE CancelConfirms(j)
  BY <1>1, <1>5 DEF CancelConfirms
<1>6. CASE ForgetChat(j)
  <2>1. chat' = [chat EXCEPT ![j] = "none"] /\ token' = token /\ canceller' = canceller
    BY <1>6 DEF ForgetChat
  <2> QED
    BY <1>0, <1>6, <2>1
<1> QED
  BY <1>2, <1>3, <1>4, <1>5, <1>6 DEF ChatStep, CancelStep


\* A turn's launch, cancellation and registration move by its own threads or with the
\* process.
LEMMA TurnFrame ==
    ASSUME DispatchTypeOK, DispatchNext, NEW j \in Jobs
    PROVE  \/ RegisterTurn(j) \/ LaunchStep(j)
           \/ ChatStep(j)
           \/ ProcessExits
           \/ /\ launcher'[j] = launcher[j] /\ canceller'[j] = canceller[j] /\ chat'[j] = chat[j]
              /\ Turn(j) \in token' <=> Turn(j) \in token
<1>1. ASSUME NEW i \in Jobs, i # j, RegisterTurn(i) \/ LaunchStep(i)
      PROVE  /\ launcher'[j] = launcher[j] /\ canceller'[j] = canceller[j] /\ chat'[j] = chat[j]
             /\ token' = token
  BY <1>1, LaunchMoves
<1>2. ASSUME NEW i \in Jobs, i # j, ChatStep(i)
      PROVE  /\ launcher'[j] = launcher[j] /\ canceller'[j] = canceller[j] /\ chat'[j] = chat[j]
             /\ Turn(j) \in token' <=> Turn(j) \in token
  <2>1. launcher' = launcher
    BY <1>2, ChatFootprint
  <2> QED
    BY <1>2, <2>1, ChatMoves
<1>3. ASSUME NEW i \in Jobs, ReplacedElsewhere(i)
      PROVE  UNCHANGED <<launcher, canceller, chat, token>>
  BY <1>3 DEF ReplacedElsewhere, threads, memory
<1>4. CASE WorkerStep \/ WorkerTimesOut
  BY <1>4 DEF WorkerStep, WorkerTakes, WorkerGates, WorkerClaims, WorkerRound, WorkerReply,
     WorkerCreatesTool, WorkerQueuesTool, WorkerSendsTool, WorkerHandedTool, WorkerPolls,
     WorkerTimesOut, WorkerErrs, WorkerSettles, WorkerFinishes, FailReads, FailsCall, FailsAttempt,
     WorkerRevokes, WorkerConfirms, WorkerFrame, WorkerOnly
<1>5. CASE ToolStep
  BY <1>5 DEF ToolStep, ToolTakes, ToolChecks, ToolGates, ToolClaims, ToolEnds, ToolFailsUnclaimed,
     ToolFences, ToolVerifies, ToolFrame, ToolOnly
<1>6. CASE RuntimeStep \/ StopRuntime \/ (\E c \in Calls : Deliver(c))
  BY <1>6 DEF RuntimeStep, StartRuntime, ScanAbandons, ScanEnds, Requeue, JoinWorkers, ScanIntent,
     CloseLane, StopRuntime, Deliver, RuntimeFrame, threads
<1> QED
  BY <1>1, <1>2, <1>3, <1>4, <1>5, <1>6 DEF DispatchNext, ChatStep

\* The runtime is started, exposed, stopped and joined by itself.
LEMMA RuntimeMoves ==
    ASSUME DispatchNext
    PROVE  \/ runtime' = runtime
           \/ StartRuntime \/ ScanEnds \/ StopRuntime \/ JoinWorkers \/ ProcessExits
<1>1. CASE RuntimeStep \/ \E c \in Calls : Deliver(c)
  BY <1>1 DEF RuntimeStep, ScanAbandons, Requeue, ScanIntent, CloseLane, Deliver
<1> QED
  BY <1>1, LaunchFootprint, ChatFootprint, WorkerFootprint, ToolFootprint DEF DispatchNext, ChatStep

\* What was stranded stays so, and admissions are never taken back.
LEMMA HistoryGrows ==
    ASSUME DispatchNext
    PROVE  stranded \subseteq stranded' /\ admitted \subseteq admitted'
<1>1. ASSUME NEW j \in Jobs, RegisterTurn(j) \/ LaunchStep(j)
      PROVE  stranded' = stranded /\ admitted \subseteq admitted'
  <2>1. stranded' = stranded
    BY <1>1, LaunchFootprint
  <2>2. admitted \subseteq admitted'
    BY <1>1 DEF RegisterTurn, LaunchStep, LaunchCreatesJob, LaunchDispatchesJob, LaunchCreatesCall,
       LaunchAdmits, LaunchMarksQueued, LaunchSends, LaunchHandedOff, LaunchRefused, LaunchUndone,
       PublishTurn, LaunchRevokes, LaunchConfirms
  <2> QED
    BY <2>1, <2>2
<1>2. CASE WorkerStep \/ WorkerTimesOut
  BY <1>2 DEF WorkerStep, WorkerTakes, WorkerGates, WorkerClaims, WorkerRound, WorkerReply,
     WorkerCreatesTool, WorkerQueuesTool, WorkerSendsTool, WorkerHandedTool, WorkerPolls,
     WorkerTimesOut, WorkerErrs, WorkerSettles, WorkerFinishes, FailReads, FailsCall, FailsAttempt,
     WorkerRevokes, WorkerConfirms, WorkerFrame, WorkerOnly
<1>3. CASE ToolStep
  BY <1>3 DEF ToolStep, ToolTakes, ToolChecks, ToolGates, ToolClaims, ToolEnds, ToolFailsUnclaimed,
     ToolFences, ToolVerifies, ToolFrame, ToolOnly
<1>4. CASE RuntimeStep \/ StopRuntime \/ ProcessExits \/ (\E c \in Calls : Deliver(c))
  BY <1>4 DEF RuntimeStep, StartRuntime, ScanAbandons, ScanEnds, Requeue, JoinWorkers, ScanIntent,
     CloseLane, StopRuntime, Deliver, RuntimeFrame, history, ProcessExits
<1> QED
  BY <1>1, <1>2, <1>3, <1>4, ChatFootprint DEF DispatchNext, ChatStep

\* While the process is down only another process, the start and the recovery scan act.
LEMMA DownSteps ==
    ASSUME DispatchNext, DownIsQuiet, Down
    PROVE  \/ \E j \in Jobs : ReplacedElsewhere(j)
           \/ StartRuntime \/ ScanAbandons \/ ScanEnds \/ ProcessExits
           \/ \E c \in Calls : ScanIntent(c)
<1>1. /\ runtime \notin {"up", "stopping"}
      /\ \A j \in Jobs : launcher[j].pc \in {"idle", "done"} /\ canceller[j] = "idle" /\ chat[j] = "none"
      /\ provider.pc = "idle" /\ tool.pc = "idle" /\ blocked = {}
      /\ \A l \in Lanes : lane[l].queue = <<>>
  BY DEF DownIsQuiet, Down, UnderWay
<1>2. ~\E j \in Jobs : RegisterTurn(j) \/ LaunchStep(j)
  BY <1>1 DEF RegisterTurn, LaunchStep, LaunchCreatesJob, LaunchDispatchesJob, LaunchCreatesCall,
     LaunchAdmits, LaunchMarksQueued, LaunchSends, LaunchHandedOff, LaunchRefused, LaunchUndone,
     PublishTurn, LaunchRevokes, LaunchConfirms, Launching
<1>3. ~\E j \in Jobs : CancelChat(j) \/ CancelStep(j) \/ ForgetChat(j)
  BY <1>1 DEF CancelChat, CancelStep, CancelRevokes, CancelSignals, CancelConfirms, ForgetChat
<1>4. ~(WorkerStep \/ WorkerTimesOut)
  BY <1>1 DEF WorkerStep, WorkerTakes, WorkerGates, WorkerClaims, WorkerRound, WorkerReply,
     WorkerCreatesTool, WorkerQueuesTool, WorkerSendsTool, WorkerHandedTool, WorkerPolls,
     WorkerTimesOut, WorkerErrs, WorkerSettles, WorkerFinishes, FailReads, FailsCall, FailsAttempt,
     WorkerRevokes, WorkerConfirms, Take, Lanes
<1>5. ~ToolStep
  BY <1>1 DEF ToolStep, ToolTakes, ToolChecks, ToolGates, ToolClaims, ToolEnds, ToolFailsUnclaimed,
     ToolFences, ToolVerifies, Take, Lanes
<1>6. /\ ~StopRuntime /\ ~Requeue /\ ~JoinWorkers /\ ~\E l \in Lanes : CloseLane(l)
      /\ ~\E c \in Calls : Deliver(c)
  BY <1>1 DEF StopRuntime, Requeue, JoinWorkers, CloseLane, Deliver
<1> QED
  BY <1>2, <1>3, <1>4, <1>5, <1>6 DEF DispatchNext, RuntimeStep


\* The worker takes its Call from its lane, keeps it, and remembers that it claimed it.
LEMMA WorkerMoves ==
    ASSUME DispatchTypeOK, WorkerStep \/ WorkerTimesOut
    PROVE  \/ /\ WorkerTakes /\ provider.pc = "idle" /\ provider'.pc = "gate"
              /\ lane["provider"].queue # <<>> /\ provider'.call = Head(lane["provider"].queue)
              /\ ~provider'.claimed
           \/ /\ ~WorkerTakes /\ provider.pc # "idle" /\ provider'.pc # "gate"
              /\ provider'.call = provider.call
              /\ \/ provider'.claimed = provider.claimed
                 \/ WorkerClaims /\ ClaimCall(provider.call) /\ provider'.claimed
              /\ provider'.pc = "failCall" =>
                    /\ FailReads /\ call[provider.call].state \in OpenCall /\ UNCHANGED tables
<1>0. provider \in WorkerRecord
  BY DEF DispatchTypeOK
<1>1. ASSUME NEW pc, WorkerTo(pc), provider.pc # "idle", pc \notin {"gate", "failCall"}, ~WorkerTakes
      PROVE  /\ ~WorkerTakes /\ provider.pc # "idle" /\ provider'.pc \notin {"gate", "failCall"}
             /\ provider'.call = provider.call /\ provider'.claimed = provider.claimed
  BY <1>0, <1>1 DEF WorkerTo, WorkerRecord
<1>2. CASE WorkerTakes
  BY <1>2 DEF WorkerTakes, IdleWorker, Take
<1>3. CASE WorkerClaims
  <2>1. \/ /\ ClaimCall(provider.call)
           /\ provider' = [provider EXCEPT !.pc = "round", !.claimed = TRUE]
        \/ WorkerTo("fail")
    BY <1>3 DEF WorkerClaims
  <2>2. ~WorkerTakes /\ provider.pc = "claim"
    BY <1>3 DEF WorkerClaims, WorkerTakes
  <2> QED
    BY <1>0, <1>1, <1>3, <2>1, <2>2 DEF WorkerRecord
<1>4. CASE WorkerRound
  <2>1. \/ provider' = [provider EXCEPT !.pc = "wire", !.round = @ + 1]
        \/ WorkerTo("error")
    BY <1>4 DEF WorkerRound
  <2>2. ~WorkerTakes /\ provider.pc = "round"
    BY <1>4 DEF WorkerRound, WorkerTakes
  <2> QED
    BY <1>0, <1>1, <1>4, <2>1, <2>2 DEF WorkerRecord
<1>5. CASE WorkerCreatesTool
  <2>1. \/ \E t : provider' = [provider EXCEPT !.pc = "toolQueue", !.tool = t]
        \/ WorkerTo("error")
    BY <1>5 DEF WorkerCreatesTool
  <2>2. ~WorkerTakes /\ provider.pc = "tool"
    BY <1>5 DEF WorkerCreatesTool, WorkerTakes
  <2> QED
    BY <1>0, <1>1, <1>5, <2>1, <2>2 DEF WorkerRecord
<1>6. CASE \/ WorkerGates \/ WorkerQueuesTool \/ WorkerSendsTool \/ WorkerHandedTool \/ WorkerTimesOut
           \/ WorkerErrs \/ WorkerSettles \/ WorkerFinishes \/ WorkerRevokes \/ WorkerConfirms
           \/ FailsCall \/ FailsAttempt
  <2>1. /\ provider.pc # "idle"
        /\ \E pc \in {"idle", "claim", "fail", "finish", "error", "confirm", "toolSend",
                      "toolBlocked", "wait", "failAttempt"} : WorkerTo(pc)
    BY <1>6 DEF WorkerGates, WorkerQueuesTool, WorkerSendsTool, WorkerHandedTool, WorkerTimesOut,
       WorkerErrs, WorkerSettles, WorkerFinishes, WorkerRevokes, WorkerConfirms, FailsCall,
       FailsAttempt
  <2>2. ~WorkerTakes
    BY <2>1 DEF WorkerTakes
  <2> QED
    BY <1>1, <2>1, <2>2
<1>7. CASE WorkerReply \/ WorkerPolls
  <2>1. provider.pc # "idle" /\ \E pc \in {"round", "tool", "settle", "error"} : WorkerTo(pc)
    BY <1>7 DEF WorkerReply, WorkerPolls, AfterTools
  <2>2. ~WorkerTakes
    BY <2>1 DEF WorkerTakes
  <2> QED
    BY <1>1, <2>1, <2>2
<1>8. CASE FailReads
  <2>1. /\ provider.pc # "idle" /\ UNCHANGED tables
        /\ \/ \E pc \in {"idle", "revoke", "failAttempt"} : WorkerTo(pc)
           \/ WorkerTo("failCall") /\ call[provider.call].state \in OpenCall
    BY <1>8 DEF FailReads, WorkerOnly
  <2>2. ~WorkerTakes
    BY <2>1 DEF WorkerTakes
  <2>3. ASSUME WorkerTo("failCall")
        PROVE  provider'.pc = "failCall" /\ provider'.call = provider.call
               /\ provider'.claimed = provider.claimed
    BY <1>0, <2>3 DEF WorkerTo, WorkerRecord
  <2> QED
    BY <1>1, <1>8, <2>1, <2>2, <2>3
<1> QED
  BY <1>2, <1>3, <1>4, <1>5, <1>6, <1>7, <1>8 DEF WorkerStep

\* The worker moves by its own steps or with the process.
LEMMA WorkerFrameStep ==
    ASSUME DispatchNext
    PROVE  provider' = provider \/ WorkerStep \/ WorkerTimesOut \/ ProcessExits
BY LaunchFootprint, ChatFootprint, ToolFootprint, RuntimeFootprint DEF DispatchNext, ChatStep

---------------------------------------------------------------------------------
(* The conjuncts of OwnershipInv, one by one. *)

\* Lanes go on carrying the Calls of their worker, and the workers holding them.
LEMMA LanesSortStep ==
    ASSUME HeldStep
    PROVE  LanesSort'
<1> USE DEF HeldStep
<1>0. /\ DispatchTypeOK /\ LanesSort
      /\ \A c \in Present : call'[c].kind = call[c].kind /\ c \in Calls
      /\ \A l \in Lanes : \A i \in 1..Len(lane[l].queue) : lane[l].queue[i] \in Present
      /\ blocked \subseteq Present
      /\ provider.pc # "idle" => provider.call \in Present
      /\ tool.pc # "idle" => tool.call \in Present
  BY RowsPersist DEF DispatchInv, OwnershipInv, Hands, QueueHands, WorkerHands, ToolHands, Present
<1>1. ASSUME NEW l \in Lanes, NEW i \in 1..Len(lane'[l].queue)
      PROVE  (call'[lane'[l].queue[i]].kind = "provider") = (l = "provider")
  <2>1. CASE \E k \in 1..Len(lane[l].queue) : lane'[l].queue[i] = lane[l].queue[k]
    <3> PICK k \in 1..Len(lane[l].queue) : lane'[l].queue[i] = lane[l].queue[k]
      BY <2>1
    <3>1. (call[lane[l].queue[k]].kind = "provider") = (l = "provider")
      BY <1>0 DEF LanesSort
    <3>2. call'[lane[l].queue[k]].kind = call[lane[l].queue[k]].kind
      BY <1>0
    <3> QED
      BY <3>1, <3>2
  <2>2. CASE lane'[l].queue[i] \in blocked /\ LaneOf(lane'[l].queue[i]) = l
    BY <1>0, <2>2 DEF LaneOf
  <2> QED
    BY <1>0, <2>1, <2>2, LaneStep
<1>2. ASSUME NEW l \in Lanes, lane[l].queue # <<>>
      PROVE  /\ Head(lane[l].queue) \in Present
             /\ (call[Head(lane[l].queue)].kind = "provider") = (l = "provider")
  <2>1. lane[l].queue \in Seq(Calls)
    BY <1>0 DEF DispatchTypeOK, LaneRecord, BoundedQueue
  <2>2. 1 \in 1..Len(lane[l].queue) /\ Head(lane[l].queue) = lane[l].queue[1]
    BY <1>2, <2>1
  <2> QED
    BY <1>0, <2>2 DEF LanesSort
<1>3. ASSUME provider'.pc # "idle" PROVE call'[provider'.call].kind = "provider"
  <2>1. CASE provider' = provider
    BY <1>0, <1>3, <2>1 DEF LanesSort
  <2>2. CASE WorkerStep \/ WorkerTimesOut
    <3>1. CASE WorkerTakes
      <4>1. provider'.call = Head(lane["provider"].queue) /\ lane["provider"].queue # <<>>
        BY <1>0, <2>2, <3>1, WorkerMoves
      <4> QED
        BY <1>0, <1>2, <4>1 DEF Lanes
    <3>2. CASE ~WorkerTakes
      <4>1. provider'.call = provider.call /\ provider.pc # "idle"
        BY <1>0, <2>2, <3>2, WorkerMoves
      <4> QED
        BY <1>0, <4>1 DEF LanesSort
    <3> QED
      BY <3>1, <3>2
  <2>3. CASE ProcessExits
    BY <1>3, <2>3 DEF ProcessExits, IdleWorker
  <2> QED
    BY <2>1, <2>2, <2>3, WorkerFrameStep
<1>4. ASSUME tool'.pc # "idle" PROVE call'[tool'.call].kind # "provider"
  <2>1. CASE tool' = tool
    BY <1>0, <1>4, <2>1 DEF LanesSort
  <2>2. CASE ToolStep
    <3>1. CASE ToolTakes
      <4>1. tool'.call = Head(lane["tool"].queue) /\ lane["tool"].queue # <<>>
        BY <3>1 DEF ToolTakes, Take, IdleTool
      <4> QED
        BY <1>0, <1>2, <4>1 DEF Lanes
    <3>2. CASE ToolKeeps
      BY <1>0, <1>4, <3>2 DEF LanesSort, ToolKeeps
    <3> QED
      BY <1>0, <2>2, <3>1, <3>2, ToolStepKinds
  <2>3. CASE ProcessExits
    BY <1>4, <2>3 DEF ProcessExits, IdleTool
  <2> QED
    BY <2>1, <2>2, <2>3, LaunchFootprint, ChatFootprint, WorkerFootprint, RuntimeFootprint
       DEF DispatchNext, ChatStep
<1> QED
  BY <1>1, <1>3, <1>4 DEF LanesSort

\* Nothing of a process is left while it is down.
LEMMA DownIsQuietStep ==
    ASSUME HeldStep
    PROVE  DownIsQuiet'
<1> USE DEF HeldStep
<1>0. DownIsQuiet /\ DispatchTypeOK
  BY DEF OwnershipInv, DispatchInv
<1>1. CASE ProcessExits
  <2>1. /\ runtime' = "off" /\ ready' = <<>> /\ scan'.abandon = NoAttempt
        /\ blocked' = {} /\ token' = {} /\ provider'.pc = "idle" /\ tool'.pc = "idle"
        /\ \A l \in Lanes : lane'[l].queue = <<>>
        /\ \A j \in Jobs : launcher'[j].pc \in {"idle", "done"} /\ canceller'[j] = "idle"
                           /\ chat'[j] = "none"
    BY <1>1 DEF ProcessExits, IdleWorker, IdleTool, ClosedLane, IdleLauncher
  <2> QED
    BY <2>1 DEF DownIsQuiet, Down, UnderWay
<1>2. CASE Down /\ ~ProcessExits
  <2>1. CASE StartRuntime
    <3>1. /\ runtime' = "scanning" /\ \A l \in Lanes : lane'[l].queue = <<>>
          /\ UNCHANGED <<launcher, canceller, chat, provider, tool, blocked, token>>
      BY <2>1 DEF StartRuntime, OpenLane, RuntimeFrame, threads
    <3> QED
      BY <1>0, <1>2, <3>1 DEF DownIsQuiet, Down, UnderWay
  <2>2. ASSUME NEW c \in Calls, ScanIntent(c) PROVE DownIsQuiet'
    <3>1. /\ runtime = "scanning"
          /\ UNCHANGED <<launcher, canceller, chat, provider, tool, blocked, token, runtime, lane>>
      BY <2>2 DEF ScanIntent, RuntimeFrame, threads
    <3> QED
      BY <1>0, <1>2, <3>1 DEF DownIsQuiet, Down, UnderWay
  <2>3. CASE ScanAbandons
    <3>1. /\ scan'.abandon = NoAttempt
          /\ UNCHANGED <<launcher, canceller, chat, provider, tool, blocked, token, runtime, lane, ready>>
      BY <1>0, <2>3 DEF ScanAbandons, RuntimeFrame, threads, DispatchTypeOK
    <3> QED
      BY <1>0, <1>2, <3>1 DEF DownIsQuiet, Down, UnderWay
  <2>4. CASE ScanEnds
    <3>1. runtime' = "up" /\ scan'.abandon = NoAttempt
      BY <2>4 DEF ScanEnds
    <3> QED
      BY <3>1 DEF DownIsQuiet, Down
  <2>5. ASSUME NEW i \in Jobs, ReplacedElsewhere(i) PROVE DownIsQuiet'
    <3>1. UNCHANGED <<launcher, canceller, chat, provider, tool, blocked, token, runtime, lane, ready, scan>>
      BY <2>5 DEF ReplacedElsewhere, threads, memory
    <3> QED
      BY <1>0, <3>1 DEF DownIsQuiet, Down, UnderWay
  <2> QED
    BY <1>0, <1>2, <2>1, <2>2, <2>3, <2>4, <2>5, DownSteps
<1>3. CASE ~Down /\ ~ProcessExits
  <2>1. runtime' \notin {"off", "scanning"}
    BY <1>3, RuntimeMoves DEF Down, StartRuntime, ScanEnds, StopRuntime, JoinWorkers
  <2>2. scan' = scan
    <3>1. runtime \notin {"off", "scanning"}
      BY <1>3 DEF Down
    <3>2. scan.abandon = NoAttempt
      BY <1>0, <3>1 DEF DownIsQuiet
    <3>3. ~StartRuntime /\ ~ScanAbandons /\ ~\E c \in Calls : ScanIntent(c)
      BY <3>1, <3>2 DEF StartRuntime, ScanAbandons, ScanIntent
    <3> QED
      BY <1>3, <3>3, LaunchFootprint, ChatFootprint, WorkerFootprint, ToolFootprint, RuntimeFootprint
         DEF DispatchNext, ChatStep
  <2> QED
    BY <1>0, <1>3, <2>1, <2>2 DEF DownIsQuiet, Down
<1> QED
  BY <1>1, <1>2, <1>3


\* A Job that exists goes on existing.
LEMMA ExistsStays ==
    ASSUME HeldStep, NEW j \in Jobs, Exists(j)
    PROVE  Exists(j)'
<1>1. Next \/ UNCHANGED vars
  BY StepRefines DEF HeldStep, DispatchInv
<1>2. CASE UNCHANGED vars
  BY <1>2 DEF vars, Exists
<1> QED
  BY <1>1, <1>2, JobsStay DEF HeldStep, DispatchInv, DispatchTypeOK

\* A launch creates one provider Call, of its turn.
LEMMA OneCallPerTurnStep ==
    ASSUME HeldStep
    PROVE  OneCallPerTurn'
<1> USE DEF HeldStep
<1>0. DispatchTypeOK /\ OneCallPerTurn /\ Hands /\ \A c \in Present : call'[c].attempt = call[c].attempt
  BY RowsPersist DEF OwnershipInv, DispatchInv
<1> SUFFICES ASSUME NEW j \in Jobs
             PROVE  /\ launcher'[j].pc \notin {"idle", "registered"} => Exists(j)'
                    /\ launcher'[j].pc \in {"idle", "registered", "pending", "dispatched"} => CallsOf(j)' = {}
                    /\ launcher'[j].pc \in {"calling", "admitted", "queued", "sending", "refused"} =>
                          Owner(launcher[j].call)' = Turn(j)
                    /\ \A c, d \in CallsOf(j)' : c = d
  BY DEF OneCallPerTurn, Turn
<1>1. \/ (RegisterTurn(j) \/ LaunchStep(j)) /\ <<launcher[j].pc, launcher'[j].pc>> \in LaunchEdges
              /\ (LaunchCreatesCall(j) \/ launcher'[j].call = launcher[j].call)
      \/ ProcessExits
      \/ launcher'[j] = launcher[j]
  BY <1>0, TurnFrame, LaunchMoves, ChatFootprint
<1>2. ProcessExits => /\ launcher'[j].pc = (IF Exists(j) THEN "done" ELSE "idle")
  BY DEF ProcessExits, IdleLauncher
<1>3. ASSUME launcher'[j].pc \notin {"idle", "registered"} PROVE Exists(j)'
  <2>1. CASE launcher[j].pc = "registered" /\ ~ProcessExits
    <3>1. LaunchCreatesJob(j)
      BY <1>1, <1>3, <2>1 DEF RegisterTurn, LaunchStep, LaunchDispatchesJob, LaunchCreatesCall,
         LaunchAdmits, LaunchMarksQueued, LaunchSends, LaunchHandedOff, LaunchRefused, LaunchUndone,
         PublishTurn, LaunchRevokes, LaunchConfirms, Launching
    <3> QED
      BY <1>0, <3>1 DEF LaunchCreatesJob, CreateJob, PendingJob, Exists, DispatchTypeOK, TypeOK
  <2>2. CASE launcher[j].pc # "registered" /\ ~ProcessExits
    <3>1. launcher[j].pc \notin {"idle", "registered"}
      BY <1>1, <1>3, <2>2 DEF LaunchEdges
    <3> QED
      BY <1>0, <3>1, ExistsStays DEF OneCallPerTurn
  <2>3. CASE ProcessExits
    BY <1>2, <1>3, <2>3, ExistsStays
  <2> QED
    BY <2>1, <2>2, <2>3
<1>4. ASSUME launcher'[j].pc \in {"idle", "registered", "pending", "dispatched"}
      PROVE  CallsOf(j)' = {}
  <2>1. launcher[j].pc \in {"idle", "registered", "pending", "dispatched"}
    <3>1. CASE ProcessExits
      BY <1>0, <1>2, <1>4, <3>1 DEF OneCallPerTurn
    <3>2. CASE ~ProcessExits
      BY <1>1, <1>4, <3>2 DEF LaunchEdges
    <3> QED
      BY <3>1, <3>2
  <2>2. CallsOf(j) = {}
    BY <1>0, <2>1 DEF OneCallPerTurn
  <2>3. ASSUME NEW c \in CallsOf(j)' PROVE FALSE
    <3>1. launcher'[j] = [pc |-> "calling", call |-> c]
      BY <2>2, NewCalls
    <3> QED
      BY <1>4, <3>1
  <2> QED
    BY <2>3
<1>5. ASSUME launcher'[j].pc \in {"calling", "admitted", "queued", "sending", "refused"}
      PROVE  Owner(launcher[j].call)' = Turn(j)
  <2>1. CASE LaunchCreatesCall(j)
    <3>1. launcher'[j].pc # "undo"
      BY <1>5
    <3>2. ~LaunchTo(j, "undo")
      BY <1>0, <3>1 DEF LaunchTo, DispatchTypeOK, LauncherRecord
    <3>3. PICK c \in TurnCalls : /\ CreateCall(c, Turn(j), "provider")
                                 /\ launcher' = [launcher EXCEPT ![j] = [pc |-> "calling", call |-> c]]
      BY <2>1, <3>2 DEF LaunchCreatesCall
    <3>4. call'[c].attempt = Turn(j) /\ launcher'[j].call = c
      BY <1>0, <3>3, DispatchAssumption DEF CreateCall, DispatchTypeOK, TypeOK, CallTable
    <3> QED
      BY <3>4 DEF Owner
  <2>2. CASE ~LaunchCreatesCall(j)
    <3>1. launcher[j].pc \in {"calling", "admitted", "queued", "sending", "refused"}
          /\ launcher'[j].call = launcher[j].call
      <4>1. CASE ProcessExits
        BY <1>2, <1>5, <4>1
      <4>2. CASE launcher'[j] = launcher[j]
        BY <1>5, <4>2
      <4>3. CASE (RegisterTurn(j) \/ LaunchStep(j)) /\ ~ProcessExits
        <5>1. ~(launcher[j].pc = "dispatched" /\ launcher'[j].pc = "calling")
          BY <1>5, <2>2, <4>3 DEF RegisterTurn, LaunchStep, LaunchCreatesJob, LaunchDispatchesJob,
             LaunchAdmits, LaunchMarksQueued, LaunchSends, LaunchHandedOff, LaunchRefused, LaunchUndone,
             PublishTurn, LaunchRevokes, LaunchConfirms, Launching
        <5> QED
          BY <1>1, <1>5, <2>2, <4>3, <5>1 DEF LaunchEdges
      <4> QED
        BY <1>1, <4>1, <4>2, <4>3
    <3>2. launcher[j].call \in Present /\ Owner(launcher[j].call) = Turn(j)
      BY <1>0, <3>1 DEF OneCallPerTurn, Hands, LauncherHands, ProviderCalls
    <3> QED
      BY <1>0, <3>1, <3>2 DEF Owner
  <2> QED
    BY <2>1, <2>2
<1>6. ASSUME NEW c \in CallsOf(j)', NEW d \in CallsOf(j)' PROVE c = d
  <2>1. CASE LaunchCreatesCall(j)
    <3>1. CallsOf(j) = {}
      BY <1>0, <2>1 DEF LaunchCreatesCall, Launching, OneCallPerTurn
    <3>2. launcher'[j] = [pc |-> "calling", call |-> c] /\ launcher'[j] = [pc |-> "calling", call |-> d]
      BY <3>1, NewCalls
    <3> QED
      BY <3>2
  <2>2. CASE ~LaunchCreatesCall(j)
    BY <1>0, <2>2, NewCalls DEF OneCallPerTurn
  <2> QED
    BY <2>1, <2>2
<1> QED
  BY <1>3, <1>4, <1>5, <1>6


\* A turn that is live was live before, unless its launch just published it.
LEMMA LiveBefore ==
    ASSUME DispatchInv, Acts, NEW j \in Jobs, Live(j)'
    PROVE  Live(j) \/ LaunchDispatchesJob(j)
<1>1. attempt'[Turn(j)].state \in Executable
  BY DEF Live, Turn
<1>2. attempt'[Turn(j)].state \notin Ended /\ attempt'[Turn(j)].state # "cancelling"
  BY <1>1 DEF Executable, Ended
<1> QED
  BY <1>1, <1>2, TurnStep DEF Live

\* A launch that gives up, or that was cancelled, leaves no live turn behind.
LEMMA LaunchLeaves ==
    ASSUME HeldStep, NEW j \in Jobs, RegisterTurn(j) \/ LaunchStep(j), launcher'[j].pc = "done",
           launcher[j].pc # "sent"
    PROVE  ~Live(j)'
<1>0. DispatchTypeOK /\ TypeOK /\ Turn(j) \in Attempts
  BY TurnsAreAttempts DEF HeldStep, DispatchInv, DispatchTypeOK
<1>1. <<launcher[j].pc, launcher'[j].pc>> \in LaunchEdges
  BY <1>0, LaunchMoves
<1>2. LaunchUndone(j) \/ LaunchRevokes(j) \/ LaunchConfirms(j)
  BY <1>1 DEF LaunchEdges, RegisterTurn, LaunchStep, LaunchCreatesJob, LaunchDispatchesJob,
     LaunchCreatesCall, LaunchAdmits, LaunchMarksQueued, LaunchSends, LaunchHandedOff, LaunchRefused,
     PublishTurn, Launching
<1>3. ~LaunchTo(j, "confirm")
  BY <1>0 DEF LaunchTo, DispatchTypeOK, LauncherRecord
<1>4. \/ EndAttempt(call, intent, Turn(j), "failed")
      \/ EndAttempt(call, intent, Turn(j), "cancelled")
      \/ ~MayExecute(Turn(j)) /\ UNCHANGED tables
  BY <1>2, <1>3 DEF LaunchUndone, LaunchRevokes, LaunchConfirms, FinishAttempt, SettleCancel
<1>5. CASE EndAttempt(call, intent, Turn(j), "failed") \/ EndAttempt(call, intent, Turn(j), "cancelled")
  <2>1. attempt'[Turn(j)].state = "failed" \/ attempt'[Turn(j)].state = "cancelled"
    BY <1>0, <1>5, EndLeaves
  <2> QED
    BY <2>1 DEF Live, Turn, Executable
<1>6. CASE ~MayExecute(Turn(j)) /\ UNCHANGED tables
  <2>1. ~Live(j) /\ attempt' = attempt
    BY <1>6, LiveIsAuthority DEF HeldStep, tables
  <2> QED
    BY <2>1 DEF Live, Turn
<1> QED
  BY <1>4, <1>5, <1>6

\* A launch step at the last places of a launch is the one of that place.
LEMMA LaunchEnds ==
    ASSUME NEW j \in Jobs, RegisterTurn(j) \/ LaunchStep(j)
    PROVE  /\ launcher[j].pc = "undo" => LaunchUndone(j)
           /\ launcher[j].pc = "sent" => PublishTurn(j)
           /\ launcher[j].pc = "idle" => RegisterTurn(j)
BY DEF RegisterTurn, LaunchStep, LaunchCreatesJob, LaunchDispatchesJob,
   LaunchCreatesCall, LaunchAdmits, LaunchMarksQueued, LaunchSends, LaunchHandedOff, LaunchRefused,
   LaunchUndone, PublishTurn, LaunchRevokes, LaunchConfirms, Launching

\* The launch of a turn looks at its registration last: what was removed before it is seen.
LEMMA PublishSees ==
    ASSUME HeldStep, NEW j \in Jobs, PublishTurn(j)
    PROVE  /\ chat'[j] # "launching"
           /\ launcher'[j].pc = "done" => canceller[j] = "idle" /\ Turn(j) \notin token
<1>0. /\ chat \in [Jobs -> {"none", "launching", "live"}] /\ launcher \in [Jobs -> LauncherRecord]
      /\ canceller[j] # "idle" \/ Turn(j) \in token => chat[j] # "launching"
  BY DEF HeldStep, DispatchInv, DispatchTypeOK, OwnershipInv, SignalsAreSeen
<1>1. CASE chat[j] = "launching"
  <2>1. chat' = [chat EXCEPT ![j] = "live"]
    BY <1>1 DEF PublishTurn
  <2> QED
    BY <1>0, <1>1, <2>1
<1>2. CASE chat[j] # "launching"
  <2>1. /\ LaunchTo(j, IF canceller[j] # "idle" \/ Turn(j) \in token THEN "revoke" ELSE "done")
        /\ chat' = chat
    BY <1>2 DEF PublishTurn
  <2>2. launcher'[j].pc = (IF canceller[j] # "idle" \/ Turn(j) \in token THEN "revoke" ELSE "done")
    BY <1>0, <2>1 DEF LaunchTo, LauncherRecord
  <2> QED
    BY <1>2, <2>1, <2>2
<1> QED
  BY <1>1, <1>2

\* A cancellation that leaves a turn signalled finds its launch under way or the turn over.
LEMMA SignalsAreSeenStep ==
    ASSUME HeldStep
    PROVE  SignalsAreSeen'
<1> USE DEF HeldStep
<1> SUFFICES ASSUME NEW j \in Jobs
             PROVE  /\ launcher'[j].pc = "idle" => /\ chat'[j] = "none" /\ canceller'[j] = "idle"
                                                   /\ Turn(j) \notin token'
                    /\ chat'[j] = "launching" => launcher'[j].pc \notin {"done", "revoke", "confirm"}
                    /\ canceller'[j] # "idle" \/ Turn(j) \in token' => chat'[j] # "launching"
                    /\ Live(j)' /\ (canceller'[j] = "signal" \/ Turn(j) \in token') => UnderWay(j)'
  BY DEF SignalsAreSeen, Turn
<1>0. DispatchTypeOK /\ TypeOK /\ Turn(j) \in Attempts
  BY TurnsAreAttempts DEF DispatchInv, DispatchTypeOK
<1>s. /\ launcher[j].pc = "idle" => /\ chat[j] = "none" /\ canceller[j] = "idle"
                                    /\ Turn(j) \notin token
      /\ chat[j] = "launching" => launcher[j].pc \notin {"done", "revoke", "confirm"}
      /\ canceller[j] # "idle" \/ Turn(j) \in token => chat[j] # "launching"
      /\ Live(j) /\ (canceller[j] = "signal" \/ Turn(j) \in token) => UnderWay(j)
  BY DEF OwnershipInv, SignalsAreSeen
<1>l. Live(j)' => Live(j) \/ LaunchDispatchesJob(j)
  BY LiveBefore
<1>d. LaunchDispatchesJob(j) => UnderWay(j)'
  BY <1>0 DEF LaunchDispatchesJob, LaunchTo, UnderWay, DispatchTypeOK, LauncherRecord
<1>1. CASE RegisterTurn(j) \/ LaunchStep(j)
  <2>1. /\ <<launcher[j].pc, launcher'[j].pc>> \in LaunchEdges
        /\ token' = token /\ canceller' = canceller
        /\ \/ chat'[j] = chat[j]
           \/ RegisterTurn(j) /\ chat'[j] \in {"none", "launching"}
           \/ chat'[j] = "none"
           \/ chat'[j] = "live"
    BY <1>0, <1>1, LaunchMoves
  <2>2. launcher'[j].pc # "idle" /\ (RegisterTurn(j) => launcher[j].pc = "idle")
    BY <2>1 DEF LaunchEdges, RegisterTurn, Launching
  <2>3. ASSUME chat'[j] = "launching" PROVE launcher'[j].pc \notin {"done", "revoke", "confirm"}
    <3>1. launcher[j].pc # "undo"
      <4>1. LaunchUndone(j) => chat'[j] # "launching"
        BY <1>0 DEF LaunchUndone, DispatchTypeOK
      <4> QED
        BY <1>1, <2>3, <4>1, LaunchEnds
    <3>2. launcher[j].pc # "sent"
      BY <1>1, <2>3, LaunchEnds, PublishSees
    <3>3. launcher[j].pc \notin {"revoke", "confirm"}
      BY <1>s, <2>1, <2>2, <2>3
    <3> QED
      BY <2>1, <3>1, <3>2, <3>3 DEF LaunchEdges
  <2>4. canceller'[j] # "idle" \/ Turn(j) \in token' => chat'[j] # "launching"
    BY <1>s, <2>1, <2>2
  <2>5. ASSUME Live(j)', canceller'[j] = "signal" \/ Turn(j) \in token' PROVE UnderWay(j)'
    <3>1. CASE LaunchDispatchesJob(j)
      BY <1>d, <3>1
    <3>2. CASE ~LaunchDispatchesJob(j)
      <4>1. Live(j) /\ UnderWay(j)
        BY <1>l, <1>s, <2>1, <2>5, <3>2
      <4>2. launcher'[j].pc # "done"
        <5>1. CASE launcher[j].pc = "sent"
          BY <1>1, <2>1, <2>5, <5>1, LaunchEnds, PublishSees
        <5>2. CASE launcher[j].pc # "sent"
          BY <1>1, <2>5, <5>2, LaunchLeaves
        <5> QED
          BY <5>1, <5>2
      <4> QED
        BY <2>2, <4>2 DEF UnderWay
    <3> QED
      BY <3>1, <3>2
  <2> QED
    BY <2>2, <2>3, <2>4, <2>5
<1>2. CASE ChatStep(j)
  <2>1. launcher' = launcher
    BY <1>2, ChatFootprint
  <2>u. UnderWay(j)' <=> UnderWay(j)
    BY <2>1 DEF UnderWay
  <2>2. CASE CancelChat(j)
    <3>1. /\ token' = token /\ chat'[j] = "none" /\ attempt' = attempt /\ chat[j] # "none"
          /\ canceller'[j] = (IF chat[j] = "live" THEN "revoke" ELSE "signal")
      <4>2. canceller' = [canceller EXCEPT ![j] = IF chat[j] = "live" THEN "revoke" ELSE "signal"]
            /\ chat' = [chat EXCEPT ![j] = "none"] /\ token' = token /\ attempt' = attempt
            /\ chat[j] # "none"
        BY <2>2 DEF CancelChat, CancelTo, tables
      <4> QED
        BY <1>0, <4>2 DEF DispatchTypeOK
    <3>2. Live(j)' <=> Live(j)
      BY <3>1 DEF Live, Turn
    <3>3. chat[j] # "live" => UnderWay(j)
      BY <1>0, <1>s, <3>1 DEF UnderWay, DispatchTypeOK
    <3> QED
      BY <1>s, <2>1, <2>u, <3>1, <3>2, <3>3
  <2>3. CASE CancelRevokes(j)
    <3>1. /\ token' = token /\ chat' = chat /\ canceller[j] = "revoke"
          /\ ~Live(j)' \/ canceller'[j] # "signal"
      <4>1. /\ token' = token /\ chat' = chat /\ canceller[j] = "revoke"
            /\ \/ CancelTo(j, "signalRevoked")
               \/ ~MayExecute(Turn(j)) /\ UNCHANGED tables
        BY <2>3 DEF CancelRevokes
      <4>2. CASE CancelTo(j, "signalRevoked")
        <5>1. canceller'[j] = "signalRevoked"
          BY <1>0, <4>2 DEF CancelTo, DispatchTypeOK
        <5> QED
          BY <4>1, <5>1
      <4>3. CASE ~MayExecute(Turn(j)) /\ UNCHANGED tables
        <5>1. ~Live(j) /\ attempt' = attempt
          BY <4>3, LiveIsAuthority DEF tables
        <5>2. ~Live(j)'
          BY <5>1 DEF Live, Turn
        <5> QED
          BY <4>1, <5>2
      <4> QED
        BY <4>1, <4>2, <4>3
    <3> QED
      BY <1>d, <1>l, <1>s, <2>1, <2>u, <3>1
  <2>4. CASE CancelSignals(j)
    <3>1. /\ token' = token \cup {Turn(j)} /\ chat' = chat /\ attempt' = attempt
          /\ canceller[j] \in {"signal", "signalRevoked"}
          /\ canceller'[j] = (IF canceller[j] = "signal" THEN "idle" ELSE "confirm")
      <4>1. canceller' = [canceller EXCEPT ![j] = IF canceller[j] = "signal" THEN "idle" ELSE "confirm"]
            /\ token' = token \cup {Turn(j)} /\ chat' = chat /\ attempt' = attempt
            /\ canceller[j] \in {"signal", "signalRevoked"}
        BY <2>4 DEF CancelSignals, CancelTo, tables
      <4> QED
        BY <1>0, <4>1 DEF DispatchTypeOK
    <3>2. canceller[j] = "signalRevoked" => ~Live(j)
      <4>1. OneCanceller(j)
        BY CancellersApart, Zenon DEF DispatchInv, OneOwner
      <4> QED
        BY <4>1 DEF OneCanceller, Confirming, ChatConfirming, Live, Executable
    <3>3. Live(j)' <=> Live(j)
      BY <3>1 DEF Live, Turn
    <3> QED
      BY <1>s, <2>1, <2>u, <3>1, <3>2, <3>3
  <2>5. CASE CancelConfirms(j)
    <3>1. token' = token /\ chat' = chat /\ canceller[j] = "confirm" /\ canceller'[j] = "idle"
      <4>1. canceller' = [canceller EXCEPT ![j] = "idle"]
            /\ token' = token /\ chat' = chat /\ canceller[j] = "confirm"
        BY <2>5 DEF CancelConfirms, CancelTo
      <4> QED
        BY <1>0, <4>1 DEF DispatchTypeOK
    <3> QED
      BY <1>d, <1>l, <1>s, <2>1, <2>u, <3>1
  <2>6. CASE ForgetChat(j)
    <3>1. token' = token /\ chat'[j] = "none" /\ canceller' = canceller
      BY <1>0, <2>6 DEF ForgetChat, DispatchTypeOK
    <3> QED
      BY <1>d, <1>l, <1>s, <2>1, <2>u, <3>1
  <2> QED
    BY <1>2, <2>2, <2>3, <2>4, <2>5, <2>6 DEF ChatStep, CancelStep
<1>3. CASE ProcessExits
  BY <1>3 DEF ProcessExits
<1>4. CASE /\ launcher'[j] = launcher[j] /\ canceller'[j] = canceller[j] /\ chat'[j] = chat[j]
           /\ Turn(j) \in token' <=> Turn(j) \in token
  <2>1. UnderWay(j)' <=> UnderWay(j)
    BY <1>4 DEF UnderWay
  <2> QED
    BY <1>4, <1>d, <1>l, <1>s, <2>1
<1> QED
  BY <1>0, <1>1, <1>2, <1>3, <1>4, TurnFrame


\* An exit strands what no recovery scan will find.
LEMMA ExitStrands ==
    ASSUME ProcessExits, NEW j \in Jobs, BeyondRecovery(Turn(j))
    PROVE  Turn(j) \in stranded'
BY DEF ProcessExits, Turns

\* Whoever revokes the authority of a turn is then the one to confirm its end.
LEMMA RevokerConfirms ==
    ASSUME HeldStep, NEW j \in Jobs, Revokes(Turn(j))
    PROVE  LauncherConfirming(j)' \/ ChatConfirming(j)' \/ WorkerConfirming(j)'
<1>0. DispatchTypeOK /\ Hands /\ MayExecute(Turn(j)) /\ RequestCancel(Turn(j))
  BY DEF HeldStep, DispatchInv, Revokes, RequestCancel
<1>1. ASSUME NEW i \in Jobs, LaunchRevokes(i) \/ CancelRevokes(i), Turn(j) = Turn(i)
      PROVE  LauncherConfirming(j)' \/ ChatConfirming(j)'
  <2>1. i = j
    BY <1>1 DEF Turn
  <2>2. LaunchTo(j, "confirm") \/ CancelTo(j, "signalRevoked")
    BY <1>0, <1>1, <2>1 DEF LaunchRevokes, CancelRevokes
  <2> QED
    BY <1>0, <2>2 DEF LaunchTo, CancelTo, DispatchTypeOK, LauncherRecord, LauncherConfirming,
       ChatConfirming
<1>2. ASSUME WorkerRevokes, Turn(j) = Owner(provider.call) PROVE WorkerConfirming(j)'
  <2>1. WorkerTo("confirm") /\ provider.pc = "revoke"
    BY <1>0, <1>2 DEF WorkerRevokes
  <2>2. provider'.pc = "confirm" /\ provider'.call = provider.call
    BY <1>0, <2>1 DEF WorkerTo, DispatchTypeOK, WorkerRecord
  <2>3. call' = call
    BY <1>0 DEF RequestCancel
  <2> QED
    BY <1>2, <2>2, <2>3 DEF WorkerConfirming, Owner, Turn
<1> QED
  BY <1>1, <1>2 DEF Revokes

\* A turn whose authority was revoked goes on having someone to confirm it.
LEMMA CancellingIsConfirmedStep ==
    ASSUME HeldStep
    PROVE  CancellingIsConfirmed'
<1> USE DEF HeldStep
<1> SUFFICES ASSUME NEW j \in Jobs, attempt'[Turn(j)].state = "cancelling"
             PROVE  \/ Turn(j) \in stranded'
                    \/ LauncherConfirming(j)' \/ ChatConfirming(j)' \/ WorkerConfirming(j)'
  BY DEF CancellingIsConfirmed, LauncherConfirming, ChatConfirming, WorkerConfirming, Turn
<1>0. DispatchTypeOK /\ TypeOK /\ Hands /\ Turn(j) \in Attempts
  BY TurnsAreAttempts DEF DispatchInv, DispatchTypeOK
<1>n. \A s \in Ended : ~EndAttempt(call, intent, Turn(j), s)
  <2>1. ASSUME NEW s \in Ended, EndAttempt(call, intent, Turn(j), s) PROVE FALSE
    BY <1>0, <2>1, EndLeaves DEF Ended
  <2> QED
    BY <2>1
<1>e. ~LaunchConfirms(j) /\ ~CancelConfirms(j)
      /\ (WorkerConfirms => Owner(provider.call) # Turn(j))
  BY <1>n DEF LaunchConfirms, CancelConfirms, WorkerConfirms, SettleCancel, Ended
<1>1. CASE attempt[Turn(j)].state # "cancelling"
  <2>1. Revokes(Turn(j))
    BY <1>1, TurnStep DEF Ended
  <2> QED
    BY <2>1, RevokerConfirms
<1>2. CASE attempt[Turn(j)].state = "cancelling"
  <2>1. \/ Turn(j) \in stranded
        \/ LauncherConfirming(j) \/ ChatConfirming(j) \/ WorkerConfirming(j)
    BY <1>2 DEF OwnershipInv, CancellingIsConfirmed, LauncherConfirming, ChatConfirming, WorkerConfirming
  <2>2. CASE Turn(j) \in stranded
    BY <2>2, HistoryGrows
  <2>3. CASE ProcessExits
    <3>1. BeyondRecovery(Turn(j))
      BY <1>2 DEF BeyondRecovery, Executable, Unfinished
    <3> QED
      BY <2>3, <3>1, ExitStrands
  <2>4. CASE LauncherConfirming(j) /\ ~ProcessExits
    <3>1. ~(RegisterTurn(j) \/ LaunchStep(j))
      BY <1>e, <2>4 DEF LauncherConfirming, RegisterTurn, LaunchStep, LaunchCreatesJob,
         LaunchDispatchesJob, LaunchCreatesCall, LaunchAdmits, LaunchMarksQueued, LaunchSends,
         LaunchHandedOff, LaunchRefused, LaunchUndone, PublishTurn, LaunchRevokes, Launching
    <3>2. launcher'[j] = launcher[j]
      BY <1>0, <2>4, <3>1, TurnFrame, ChatFootprint
    <3> QED
      BY <2>4, <3>2 DEF LauncherConfirming
  <2>5. CASE ChatConfirming(j) /\ ~ProcessExits
    <3>1. CASE ChatStep(j)
      <4>1. CASE CancelSignals(j)
        <5>1. canceller' = [canceller EXCEPT ![j] = IF canceller[j] = "signal" THEN "idle" ELSE "confirm"]
          BY <4>1 DEF CancelSignals, CancelTo
        <5> QED
          BY <1>0, <2>5, <5>1 DEF ChatConfirming, DispatchTypeOK
      <4>2. CASE ForgetChat(j)
        BY <2>5, <4>2 DEF ForgetChat, ChatConfirming
      <4> QED
        BY <1>e, <2>5, <3>1, <4>1, <4>2 DEF ChatStep, CancelStep, CancelChat, CancelRevokes, ChatConfirming
    <3>2. CASE ~ChatStep(j)
      <4>1. canceller'[j] = canceller[j]
        BY <1>0, <2>5, <3>2, TurnFrame, LaunchFootprint
      <4> QED
        BY <2>5, <4>1 DEF ChatConfirming
    <3> QED
      BY <3>1, <3>2
  <2>6. CASE WorkerConfirming(j) /\ ~ProcessExits
    <3>1. ~(WorkerStep \/ WorkerTimesOut)
      BY <1>e, <2>6 DEF WorkerConfirming, WorkerStep, WorkerTakes, WorkerGates, WorkerClaims,
         WorkerRound, WorkerReply, WorkerCreatesTool, WorkerQueuesTool, WorkerSendsTool,
         WorkerHandedTool, WorkerPolls, WorkerTimesOut, WorkerErrs, WorkerSettles, WorkerFinishes,
         FailReads, FailsCall, FailsAttempt, WorkerRevokes
    <3>2. provider' = provider
      BY <2>6, <3>1, WorkerFrameStep
    <3>3. provider.call \in Present
      BY <1>0, <2>6 DEF Hands, WorkerHands, WorkerConfirming
    <3>4. call'[provider.call].attempt = call[provider.call].attempt
      BY <3>3, RowsPersist
    <3> QED
      BY <2>6, <3>2, <3>4 DEF WorkerConfirming, Owner, Turn
  <2> QED
    BY <2>1, <2>2, <2>3, <2>4, <2>5, <2>6
<1> QED
  BY <1>1, <1>2


\* A signal is forgotten with the process only.
LEMMA TokenStays ==
    ASSUME DispatchTypeOK, DispatchNext, ~ProcessExits, NEW j \in Jobs, Turn(j) \in token
    PROVE  Turn(j) \in token'
<1>1. RegisterTurn(j) \/ LaunchStep(j) => token' = token
  BY LaunchMoves
<1>2. ChatStep(j) => token \subseteq token'
  BY ChatMoves
<1> QED
  BY <1>1, <1>2, TurnFrame

\* A live turn with a provider Call is not one its launch is about to publish.
LEMMA LiveWithCall ==
    ASSUME HeldStep, NEW j \in Jobs, NEW c \in CallsOf(j), Live(j)'
    PROVE  /\ Live(j) /\ MayExecute(Turn(j)) /\ Owner(c) = Turn(j) /\ c \in Calls
           /\ call[c].state # "absent"
<1>1. ~LaunchDispatchesJob(j)
  BY DEF HeldStep, OwnershipInv, OneCallPerTurn, LaunchDispatchesJob, Launching
<1>2. Live(j)
  BY <1>1, LiveBefore DEF HeldStep
<1> QED
  BY <1>2, LiveIsAuthority DEF HeldStep, CallsOf, ProviderCalls, Present

\* The worker lets go of the Call of a live turn only when somebody else was told to end it:
\* who signalled the turn, or the launch that failed the Call.
LEMMA GiveUp ==
    ASSUME HeldStep, NEW j \in Jobs, NEW c \in CallsOf(j), Live(j)', Turn(j) \notin stranded, ~Down,
           WorkerStep \/ WorkerTimesOut, provider.pc # "idle", provider.call = c, provider'.pc = "idle"
    PROVE  Turn(j) \in token \/ (launcher[j].pc = "undo" /\ call[c].state = "failed")
<1> USE DEF HeldStep
<1>0. DispatchTypeOK /\ TypeOK /\ Turn(j) \in Attempts /\ provider \in WorkerRecord
  BY TurnsAreAttempts DEF DispatchInv, DispatchTypeOK
<1>1. Live(j) /\ MayExecute(Turn(j)) /\ Owner(c) = Turn(j) /\ call[c].state # "absent"
  BY LiveWithCall
<1>2. call[c].state \in {"running", "completed"} =>
         \/ provider.pc \notin {"idle", "gate", "claim"} /\ provider.claimed
         \/ Turn(j) \in token
  BY <1>1 DEF OwnershipInv, BegunIsInHand
<1>3. \A s \in Ended : ~EndAttempt(call, intent, Turn(j), s)
  <2>1. ASSUME NEW s \in Ended, EndAttempt(call, intent, Turn(j), s) PROVE FALSE
    <3>1. attempt'[Turn(j)].state = s
      BY <1>0, <2>1, EndLeaves
    <3> QED
      BY <2>1, <3>1 DEF Live, Turn, Executable, Ended
  <2> QED
    BY <2>1
<1>4. ASSUME NEW pc, pc # "idle" PROVE ~WorkerTo(pc)
  BY <1>0, <1>4 DEF WorkerTo, WorkerRecord
<1>5. CASE WorkerGates
  BY <1>1, <1>2, <1>4, <1>5 DEF WorkerGates
<1>6. CASE WorkerErrs
  BY <1>1, <1>4, <1>6 DEF WorkerErrs
<1>7. CASE WorkerFinishes \/ FailsAttempt \/ WorkerConfirms \/ WorkerRevokes
  BY <1>1, <1>3, <1>4, <1>7 DEF WorkerFinishes, FailsAttempt, WorkerConfirms, WorkerRevokes,
     FinishAttempt, SettleCancel, Ended
<1>8. CASE FailReads
  BY <1>1, <1>2, <1>4, <1>8 DEF FailReads
<1>9. CASE FailsCall
  <2>1. provider.pc = "failCall" /\ ~WorkerTo("failAttempt")
    BY <1>4, <1>9 DEF FailsCall
  <2>2. call[c].state \notin OpenCall /\ (provider.claimed \/ call[c].state \notin {"failed", "unknown"})
    BY <1>1, <1>9, <2>1 DEF FailsCall
  <2>3. CASE provider.claimed
    BY <1>1, <2>1, <2>2, <2>3 DEF OwnershipInv, FailedByWorker
  <2>4. CASE ~provider.claimed
    <3>1. call[c] \in CallRecord /\ c \in Calls
      BY <1>0, LiveWithCall DEF TypeOK, CallTable
    <3>2. call[c].state \in CallStates
      BY <3>1 DEF CallRecord
    <3>3. call[c].state = "completed"
      BY <1>1, <2>2, <2>4, <3>2 DEF CallStates, OpenCall
    <3> QED
      BY <1>2, <2>4, <3>3
  <2> QED
    BY <2>3, <2>4
<1>10. CASE WorkerCreatesTool \/ WorkerRound \/ WorkerClaims
  <2>1. ~(provider'.pc = "idle")
    <3>1. \/ \E pc \in {"error", "fail"} : WorkerTo(pc)
          \/ \E t : provider' = [provider EXCEPT !.pc = "toolQueue", !.tool = t]
          \/ provider' = [provider EXCEPT !.pc = "wire", !.round = @ + 1]
          \/ provider' = [provider EXCEPT !.pc = "round", !.claimed = TRUE]
      BY <1>10 DEF WorkerCreatesTool, WorkerRound, WorkerClaims
    <3> QED
      BY <1>0, <1>4, <3>1 DEF WorkerRecord
  <2> QED
    BY <2>1
<1>11. CASE \/ WorkerReply \/ WorkerQueuesTool \/ WorkerSendsTool \/ WorkerHandedTool \/ WorkerPolls
            \/ WorkerTimesOut \/ WorkerSettles
  <2>1. \E pc \in {"round", "tool", "settle", "error", "toolSend", "toolBlocked", "wait", "finish",
                   "fail"} : WorkerTo(pc)
    BY <1>11 DEF WorkerReply, WorkerQueuesTool, WorkerSendsTool, WorkerHandedTool, WorkerPolls,
       WorkerTimesOut, WorkerSettles, AfterTools
  <2> QED
    BY <1>4, <2>1
<1>12. ~WorkerTakes
  BY DEF WorkerTakes
<1> QED
  BY <1>5, <1>6, <1>7, <1>8, <1>9, <1>10, <1>11, <1>12 DEF WorkerStep

\* A live turn in the runtime that is exposed now was in it before, with its Calls in the
\* hands of recovery if it was not.
LEMMA ScanEndsKept ==
    ASSUME HeldStep, ScanEnds, NEW j \in Jobs, Live(j), Turn(j) \notin stranded
    PROVE  \E c \in CallsOf(j) : Awaited(c) /\ call[c].state = "created"
<1>1. /\ runtime = "scanning" /\ scan.todo = {} /\ scan.abandon = NoAttempt
  BY DEF ScanEnds
<1>2. Turn(j) # NoAttempt
  BY TurnsAreAttempts, ConstantsAssumption
<1>3. Recovering(j)
  BY <1>1 DEF HeldStep, OwnershipInv, LiveTurnIsKept
<1> QED
  BY <1>1, <1>2, <1>3 DEF Recovering

\* A Call that was begun stays in the hands of the worker that claimed it.
LEMMA BegunIsInHandStep ==
    ASSUME HeldStep
    PROVE  BegunIsInHand'
<1> USE DEF HeldStep
<1> SUFFICES ASSUME NEW j \in Jobs, NEW c \in CallsOf(j)', Live(j)', Turn(j) \notin stranded', ~Down',
                    call'[c].state \in {"running", "completed"}
             PROVE  \/ /\ provider'.pc \notin {"idle", "gate", "claim"} /\ provider'.call = c
                       /\ provider'.claimed
                    \/ Turn(j) \in token'
  BY DEF BegunIsInHand, Turn
<1>0. DispatchTypeOK /\ TypeOK /\ OneCallPerTurn /\ provider \in WorkerRecord
  BY DEF DispatchInv, DispatchTypeOK, OwnershipInv
<1>1. c \in CallsOf(j)
  BY NewCalls
<1>2. Live(j) /\ MayExecute(Turn(j)) /\ Owner(c) = Turn(j) /\ c \in Calls
  BY <1>1, LiveWithCall
<1>3. Turn(j) \notin stranded
  BY HistoryGrows
<1>4. ~ProcessExits /\ ~StartRuntime
  BY DEF ProcessExits, StartRuntime, Down
<1>5. ~Down
  <2>1. ASSUME Down PROVE FALSE
    <3>1. ScanEnds
      BY <1>4, <2>1, RuntimeMoves DEF Down, StopRuntime, JoinWorkers
    <3>2. PICK d \in CallsOf(j) : Awaited(d) /\ call[d].state = "created"
      BY <1>2, <1>3, <3>1, ScanEndsKept
    <3>3. d = c
      BY <1>0, <1>1 DEF OneCallPerTurn
    <3>4. call' = call
      BY <3>1 DEF ScanEnds, tables
    <3> QED
      BY <3>2, <3>3, <3>4
  <2> QED
    BY <2>1
<1>6. Untouched(c) \/ RowActs(j, c)
  BY <1>0, <1>1, RowStays
<1>7. CASE call[c].state \notin {"running", "completed"}
  <2>1. ~Untouched(c)
    BY <1>7 DEF Untouched
  <2>2. call[c] \in CallRecord
    BY <1>0, <1>2 DEF TypeOK, CallTable
  <2>3. ~(FailCall(c) \/ FenceDispatchIntent(c) \/ MarkDispatchQueued(c))
    BY <1>0, <1>2, <1>7, <2>2 DEF FailCall, FenceDispatchIntent, MarkDispatchQueued, CallRecord,
       TypeOK, CallTable
  <2>4. ~\E r \in Responses : FinishCall(c, r)
    BY <1>7 DEF FinishCall
  <2>5. WorkerClaims /\ provider.call = c /\ ClaimCall(c)
    BY <1>6, <2>1, <2>3, <2>4 DEF RowActs
  <2>6. provider' = [provider EXCEPT !.pc = "round", !.claimed = TRUE]
    BY <1>2, <2>5 DEF WorkerClaims, ClaimCall, Owner
  <2> QED
    BY <1>0, <2>5, <2>6 DEF WorkerRecord
<1>8. CASE call[c].state \in {"running", "completed"}
  <2>1. \/ /\ provider.pc \notin {"idle", "gate", "claim"} /\ provider.call = c
           /\ provider.claimed
        \/ Turn(j) \in token
    BY <1>1, <1>2, <1>3, <1>5, <1>8 DEF OwnershipInv, BegunIsInHand
  <2>2. CASE Turn(j) \in token
    BY <1>0, <1>4, <2>2, TokenStays
  <2>3. CASE provider' = provider
    BY <1>0, <1>4, <2>1, <2>3, TokenStays
  <2>4. CASE /\ provider.pc \notin {"idle", "gate", "claim"} /\ provider.call = c
             /\ provider.claimed /\ (WorkerStep \/ WorkerTimesOut)
    <3>1. provider'.pc # "gate" /\ provider'.call = c /\ provider'.claimed
      BY <1>0, <2>4, WorkerMoves
    <3>2. provider'.pc # "claim"
      BY <1>0, <2>4, WorkerEnters DEF WorkerGates
    <3>3. provider'.pc = "idle" => Turn(j) \in token
      BY <1>1, <1>3, <1>5, <1>8, <2>4, GiveUp
    <3> QED
      BY <1>0, <1>4, <3>1, <3>2, <3>3, TokenStays
  <2> QED
    BY <1>4, <2>1, <2>2, <2>3, <2>4, WorkerFrameStep
<1> QED
  BY <1>7, <1>8


\* Nobody but a launch that gives up closes the Call the worker is about to fail.
LEMMA FailedByWorkerStep ==
    ASSUME HeldStep
    PROVE  FailedByWorker'
<1> USE DEF HeldStep
<1> SUFFICES ASSUME NEW j \in Jobs, NEW c \in CallsOf(j)', Live(j)',
                    provider'.pc = "failCall", provider'.call = c, provider'.claimed
             PROVE  \/ call'[c].state \in OpenCall
                    \/ call'[c].state = "failed" /\ launcher'[j].pc = "undo"
  BY DEF FailedByWorker
<1>0. DispatchTypeOK /\ TypeOK /\ OneCallPerTurn
  BY DEF DispatchInv, DispatchTypeOK, OwnershipInv
<1>1. CASE c \notin CallsOf(j)
  <2>1. call'[c].state = "created"
    BY <1>1, NewCalls
  <2> QED
    BY <2>1 DEF OpenCall
<1>2. CASE c \in CallsOf(j) /\ (WorkerStep \/ WorkerTimesOut)
  <2>1. call[provider.call].state \in OpenCall /\ call' = call /\ provider'.call = provider.call
    BY <1>0, <1>2, WorkerMoves DEF tables
  <2> QED
    BY <2>1
<1>3. CASE c \in CallsOf(j) /\ provider' = provider /\ ~WorkerStep
  <2>1. Live(j) /\ MayExecute(Turn(j))
    BY <1>3, LiveWithCall
  <2>2. \/ call[c].state \in OpenCall
        \/ call[c].state = "failed" /\ launcher[j].pc = "undo"
    BY <1>3, <2>1 DEF OwnershipInv, FailedByWorker
  <2>3. ~ScanIntent(c)
    BY <1>3 DEF OwnershipInv, DownIsQuiet, Down, ScanIntent
  <2>4. Untouched(c) \/ RowActs(j, c)
    BY <1>0, <1>3, RowStays
  <2>5. CASE LaunchRefused(j) /\ FailCall(c)
    BY <1>0, <2>5 DEF LaunchRefused, FailCall, LaunchTo, DispatchTypeOK, LauncherRecord, TypeOK, CallTable
  <2>6. CASE ~(LaunchRefused(j) /\ FailCall(c))
    <3>1. call'[c] = call[c]
      BY <1>3, <2>3, <2>4, <2>6 DEF RowActs, WorkerStep, MarkDispatchQueued, Untouched
    <3>2. ASSUME call[c].state = "failed", launcher[j].pc = "undo" PROVE launcher'[j].pc = "undo"
      <4>1. ~(RegisterTurn(j) \/ LaunchStep(j))
        <5>1. ASSUME RegisterTurn(j) \/ LaunchStep(j) PROVE FALSE
          <6>1. launcher'[j].pc = "done"
            BY <1>0, <3>2, <5>1, LaunchMoves DEF LaunchEdges
          <6> QED
            BY <3>2, <5>1, <6>1, LaunchLeaves
        <5> QED
          BY <5>1
      <4>2. ~ProcessExits
        BY DEF ProcessExits, IdleWorker
      <4> QED
        BY <1>0, <3>2, <4>1, <4>2, TurnFrame, ChatFootprint
    <3> QED
      BY <2>2, <3>1, <3>2
  <2> QED
    BY <2>5, <2>6
<1>4. ~ProcessExits
  BY DEF ProcessExits, IdleWorker
<1> QED
  BY <1>1, <1>2, <1>3, <1>4, WorkerFrameStep

---------------------------------------------------------------------------------
(* A live turn is passed from hand to hand. *)

\* Appending keeps the elements of a sequence and adds one.
LEMMA AppendKeeps ==
    ASSUME NEW S, NEW q \in Seq(S), NEW x \in S
    PROVE  /\ \A i \in 1..Len(q) : i \in 1..Len(Append(q, x)) /\ Append(q, x)[i] = q[i]
           /\ Len(q) + 1 \in 1..Len(Append(q, x)) /\ Append(q, x)[Len(q) + 1] = x
OBVIOUS

\* What is not the head of a sequence is in its tail.
LEMMA TailKeeps ==
    ASSUME NEW S, NEW q \in Seq(S), q # <<>>, NEW i \in 1..Len(q)
    PROVE  q[i] = Head(q) \/ \E k \in 1..Len(Tail(q)) : Tail(q)[k] = q[i]
<1>1. CASE i = 1
  BY <1>1
<1>2. CASE i # 1
  <2>1. i - 1 \in 1..Len(Tail(q)) /\ Tail(q)[i - 1] = q[i]
    BY <1>2
  <2> QED
    BY <2>1
<1> QED
  BY <1>1, <1>2

\* An envelope in the provider's lane stays there until the worker takes it.
LEMMA InLaneStays ==
    ASSUME HeldStep, ~Down, ~ProcessExits, NEW c \in ProviderCalls, InLane(c)
    PROVE  InLane(c)' \/ (WorkerTakes /\ provider'.pc = "gate" /\ provider'.call = c)
<1> USE DEF HeldStep
<1>0. DispatchTypeOK /\ LanesSort /\ call[c].kind = "provider" /\ lane \in [Lanes -> LaneRecord]
  BY DEF DispatchInv, OwnershipInv, DispatchTypeOK, ProviderCalls
<1> PICK l \in Lanes : \E i \in 1..Len(lane[l].queue) : lane[l].queue[i] = c
  BY DEF InLane
<1>1. PICK i \in 1..Len(lane[l].queue) : lane[l].queue[i] = c
  OBVIOUS
<1>2. l = "provider"
  BY <1>0, <1>1 DEF LanesSort
<1>3. lane[l].queue \in Seq(Calls)
  BY <1>0 DEF LaneRecord, BoundedQueue
<1>4. ASSUME lane'[l].queue = lane[l].queue PROVE InLane(c)'
  BY <1>1, <1>4 DEF InLane
<1>5. ASSUME NEW d \in Calls, Deliver(d) PROVE InLane(c)'
  <2>1. /\ lane'[LaneOf(d)].queue = Append(lane[LaneOf(d)].queue, d)
        /\ \A k \in Lanes : k # LaneOf(d) => lane'[k] = lane[k]
    BY <1>0, <1>5, Delivered
  <2>2. CASE l = LaneOf(d)
    <3>1. lane'[l].queue = Append(lane[l].queue, d)
      BY <2>1, <2>2
    <3>2. i \in 1..Len(lane'[l].queue) /\ lane'[l].queue[i] = c
      BY <1>1, <1>3, <1>5, <3>1, AppendKeeps
    <3> QED
      BY <3>2 DEF InLane
  <2>3. CASE l # LaneOf(d)
    BY <1>4, <2>1, <2>3
  <2> QED
    BY <2>2, <2>3
<1>6. CASE WorkerTakes
  <2>1. Take("provider") /\ lane[l].queue # <<>>
    BY <1>2, <1>6 DEF WorkerTakes, Take
  <2>2. lane'[l].queue = Tail(lane[l].queue)
    BY <1>0, <1>2, <2>1, Taken
  <2>3. CASE c = Head(lane[l].queue)
    BY <1>0, <1>2, <1>6, <2>3, WorkerMoves DEF WorkerStep
  <2>4. CASE c # Head(lane[l].queue)
    <3>1. \/ lane[l].queue[i] = Head(lane[l].queue)
          \/ \E k \in 1..Len(Tail(lane[l].queue)) : Tail(lane[l].queue)[k] = lane[l].queue[i]
      BY <1>3, <2>1, TailKeeps, Zenon
    <3>2. PICK k \in 1..Len(Tail(lane[l].queue)) : Tail(lane[l].queue)[k] = c
      BY <1>1, <2>4, <3>1
    <3> QED
      BY <2>2, <3>2 DEF InLane
  <2> QED
    BY <2>3, <2>4
<1>7. CASE ToolTakes
  <2>1. Take("tool") /\ "tool" \in Lanes /\ l # "tool"
    BY <1>2, <1>7 DEF ToolTakes, Lanes
  <2>2. lane'[l] = lane[l]
    BY <1>0, <2>1, Taken
  <2> QED
    BY <1>4, <2>2
<1>8. CASE ToolVerifies \/ \E k \in Lanes : CloseLane(k)
  <2>2. PICK k \in Lanes, open \in BOOLEAN : lane' = [lane EXCEPT ![k].open = open]
    BY <1>0, <1>8 DEF ToolVerifies, CloseLane, Lanes, LaneRecord
  <2>3. lane'[l] = lane[l] \/ lane'[l] = [lane[l] EXCEPT !.open = open]
    BY <1>0, <2>2
  <2>4. lane'[l].queue = lane[l].queue
    BY <1>0, <2>3 DEF LaneRecord
  <2> QED
    BY <1>4, <2>4
<1>9. ~StartRuntime
  BY DEF StartRuntime, Down
<1>10. CASE lane' = lane
  BY <1>4, <1>10
<1> QED
  BY <1>5, <1>6, <1>7, <1>8, <1>9, <1>10, LaunchFootprint, ChatFootprint, WorkerFootprint,
     ToolFootprint, RuntimeFootprint DEF DispatchNext, ChatStep

\* What is inside send stays there until the channel takes it.
LEMMA BlockedStays ==
    ASSUME HeldStep, ~ProcessExits, NEW c \in Calls, c \in blocked
    PROVE  c \in blocked' \/ InLane(c)'
<1> USE DEF HeldStep
<1>0. DispatchTypeOK /\ lane \in [Lanes -> LaneRecord]
  BY DEF DispatchInv, DispatchTypeOK
<1>1. ASSUME NEW d \in Calls, Deliver(d) PROVE c \in blocked' \/ InLane(c)'
  <2>1. CASE d = c
    <3>1. LaneOf(c) \in Lanes /\ lane'[LaneOf(c)].queue = Append(lane[LaneOf(c)].queue, c)
      BY <1>0, <1>1, <2>1, Delivered
    <3>2. lane[LaneOf(c)].queue \in Seq(Calls)
      BY <1>0, <3>1 DEF LaneRecord, BoundedQueue
    <3>3. \E i \in 1..Len(lane'[LaneOf(c)].queue) : lane'[LaneOf(c)].queue[i] = c
      BY <3>1, <3>2, AppendKeeps
    <3> QED
      BY <3>1, <3>3 DEF InLane
  <2>2. CASE d # c
    BY <1>1, <2>2 DEF Deliver
  <2> QED
    BY <2>1, <2>2
<1>2. WorkerSendsTool \/ Requeue => blocked \subseteq blocked'
  BY DEF WorkerSendsTool, Requeue
<1>3. \A j \in Jobs : LaunchSends(j) => blocked \subseteq blocked'
  BY DEF LaunchSends
<1> QED
  BY <1>1, <1>2, <1>3, LaunchFootprint, ChatFootprint, WorkerFootprint, ToolFootprint, RuntimeFootprint
     DEF DispatchNext, ChatStep


\* An intent to requeue waits for its turn, unless the recovery producer gives up and
\* strands what is left.
LEMMA AwaitedStays ==
    ASSUME HeldStep, ~Down, ~ProcessExits, NEW c \in Calls, Awaited(c), Owner(c) \notin stranded'
    PROVE  Awaited(c)' \/ InLane(c)'
<1> USE DEF HeldStep
<1>0. DispatchTypeOK /\ ready \in Seq(Calls) /\ lane \in [Lanes -> LaneRecord]
  BY DEF DispatchInv, DispatchTypeOK
<1>1. PICK i \in 1..Len(ready) : ready[i] = c
  BY DEF Awaited
<1>2. ready # <<>>
  BY <1>0, <1>1
<1>3. CASE ready' = ready
  BY <1>1, <1>3 DEF Awaited
<1>4. ASSUME NEW d \in Calls, Deliver(d) PROVE Awaited(c)' \/ InLane(c)'
  <2>1. CASE ready' = Tail(ready) /\ Head(ready) = d
    <3>1. CASE c = d
      <4>1. c \in blocked
        BY <1>4, <3>1 DEF Deliver
      <4>2. LaneOf(c) \in Lanes /\ lane'[LaneOf(c)].queue = Append(lane[LaneOf(c)].queue, c)
        BY <1>0, <1>4, <3>1, Delivered
      <4>3. lane[LaneOf(c)].queue \in Seq(Calls)
        BY <1>0, <4>2 DEF LaneRecord, BoundedQueue
      <4>4. \E k \in 1..Len(lane'[LaneOf(c)].queue) : lane'[LaneOf(c)].queue[k] = c
        BY <4>2, <4>3, AppendKeeps
      <4> QED
        BY <4>2, <4>4 DEF InLane
    <3>2. CASE c # d
      <4>1. ready[i] = Head(ready) \/ \E k \in 1..Len(Tail(ready)) : Tail(ready)[k] = ready[i]
        BY <1>0, <1>2, TailKeeps, Zenon
      <4> QED
        BY <1>1, <2>1, <3>2, <4>1 DEF Awaited
    <3> QED
      BY <3>1, <3>2
  <2>2. CASE ~(ready' = Tail(ready) /\ Head(ready) = d)
    BY <1>3, <1>4, <2>2 DEF Deliver
  <2> QED
    BY <2>1, <2>2
<1>5. CASE Requeue
  <2>1. CASE stranded' = stranded \cup {Owner(ready[k]) : k \in 1..Len(ready)}
    BY <1>1, <2>1
  <2>2. CASE ready' = ready
    BY <1>3, <2>2
  <2> QED
    BY <1>5, <2>1, <2>2 DEF Requeue
<1>6. ~\E d \in Calls : ScanIntent(d)
  BY DEF ScanIntent, Down
<1> QED
  BY <1>3, <1>4, <1>5, <1>6, LaunchFootprint, ChatFootprint, WorkerFootprint, ToolFootprint,
     RuntimeFootprint DEF DispatchNext, ChatStep

\* While the process is up the provider Call of a live turn goes from queue to worker and is
\* not dropped on the way, until the worker leaves the turn to whom it was told of.
LEMMA HandStays ==
    ASSUME HeldStep, ~Down, ~ProcessExits, NEW j \in Jobs, NEW c \in CallsOf(j), Live(j)',
           Turn(j) \notin stranded', InHand(c)
    PROVE  \/ InHand(c)'
           \/ Turn(j) \in token
           \/ launcher[j].pc = "undo"
<1> USE DEF HeldStep
<1>0. /\ DispatchTypeOK /\ c \in Calls /\ c \in ProviderCalls /\ Owner(c) = Turn(j)
      /\ Turn(j) \notin stranded
  BY HistoryGrows DEF DispatchInv, CallsOf, ProviderCalls, Present
<1>1. CASE c \in blocked
  BY <1>0, <1>1, BlockedStays DEF InHand
<1>2. CASE InLane(c)
  BY <1>0, <1>2, InLaneStays DEF InHand
<1>3. CASE Awaited(c)
  BY <1>0, <1>3, AwaitedStays DEF InHand
<1>4. CASE provider.pc # "idle" /\ provider.call = c
  <2>1. CASE provider' = provider
    BY <1>4, <2>1 DEF InHand
  <2>2. CASE (WorkerStep \/ WorkerTimesOut) /\ provider'.pc # "idle"
    <3>1. provider'.call = c
      BY <1>0, <1>4, <2>2, WorkerMoves
    <3> QED
      BY <2>2, <3>1 DEF InHand
  <2>3. CASE (WorkerStep \/ WorkerTimesOut) /\ provider'.pc = "idle"
    BY <1>0, <1>4, <2>3, GiveUp
  <2> QED
    BY <2>1, <2>2, <2>3, WorkerFrameStep
<1> QED
  BY <1>1, <1>2, <1>3, <1>4 DEF InHand

\* So a held turn stays held.
LEMMA HeldStays ==
    ASSUME HeldStep, ~Down, ~ProcessExits, NEW j \in Jobs, Live(j), Live(j)',
           Turn(j) \notin stranded', Held(j)
    PROVE  \/ Held(j)'
           \/ Turn(j) \in token
           \/ launcher[j].pc = "undo"
<1> USE DEF HeldStep
<1>0. DispatchTypeOK /\ TypeOK /\ Turn(j) \in Attempts
  BY TurnsAreAttempts DEF DispatchInv, DispatchTypeOK
<1>1. CASE \E c \in CallsOf(j) : InHand(c)
  <2> PICK c \in CallsOf(j) : InHand(c)
    BY <1>1
  <2>1. c \in CallsOf(j)'
    BY NewCalls
  <2>2. InHand(c)' => Held(j)'
    BY <2>1 DEF Held
  <2> QED
    BY <2>2, HandStays
<1>2. CASE canceller[j] \in {"revoke", "signalRevoked", "confirm"}
  <2>1. OneCanceller(j)
    BY CancellersApart, Zenon DEF DispatchInv, OneOwner
  <2>2. canceller[j] = "revoke"
    BY <1>2, <2>1 DEF OneCanceller, Confirming, ChatConfirming, Live, Executable
  <2>3. ~CancelRevokes(j) \/ canceller'[j] = "signalRevoked"
    <3>1. ASSUME CancelRevokes(j), ~MayExecute(Turn(j)) PROVE FALSE
      BY <3>1, LiveIsAuthority
    <3>2. CancelTo(j, "signalRevoked") => canceller'[j] = "signalRevoked"
      BY <1>0 DEF CancelTo, DispatchTypeOK
    <3> QED
      BY <3>1, <3>2 DEF CancelRevokes
  <2>4. ChatStep(j) => canceller' = canceller \/ CancelRevokes(j)
    BY <2>2 DEF ChatStep, CancelStep, CancelChat, CancelSignals, CancelConfirms, ForgetChat
  <2>5. canceller'[j] \in {"revoke", "signalRevoked"}
    BY <1>0, <2>2, <2>3, <2>4, TurnFrame, LaunchFootprint
  <2> QED
    BY <2>5 DEF Held
<1> QED
  BY <1>1, <1>2 DEF Held


\* What an exit does not strand, the next recovery scan will find.
LEMMA RecoverableStep ==
    ASSUME HeldStep, NEW j \in Jobs, Live(j)', Turn(j) \notin stranded', runtime' = "off"
    PROVE  Recoverable(j)'
<1> USE DEF HeldStep
<1>0. DispatchTypeOK /\ TypeOK /\ DownIsQuiet
  BY DEF DispatchInv, DispatchTypeOK, OwnershipInv
<1>1. CASE ProcessExits
  <2>1. UNCHANGED tables /\ admitted' = admitted
    BY <1>1 DEF ProcessExits
  <2>2. Live(j)
    BY <2>1 DEF Live, Turn, tables
  <2>3. ~BeyondRecovery(Turn(j))
    BY <1>1, ExitStrands
  <2>4. PICK c \in Calls : /\ Owner(c) = Turn(j) /\ call[c].kind = "provider" /\ c \in admitted
                           /\ intent[c].state \in OpenIntent
    BY <2>2, <2>3 DEF BeyondRecovery, Live, Executable, Unfinished
  <2>5. call[c].state # "absent"
    BY <2>4 DEF DispatchInv, WorkSlots, CallSlot, OpenIntent
  <2>6. c \in CallsOf(j)
    BY <2>4, <2>5 DEF CallsOf, ProviderCalls, Present
  <2>7. c \in CallsOf(j)' /\ c \in admitted' /\ intent'[c].state \in OpenIntent
    BY <2>1, <2>4, <2>6, NewCalls DEF tables
  <2> QED
    BY <2>7 DEF Recoverable
<1>2. CASE ~ProcessExits
  <2>1. runtime = "off"
    BY <1>2, RuntimeMoves DEF StartRuntime, ScanEnds, StopRuntime, JoinWorkers
  <2>2. PICK i \in Jobs : ReplacedElsewhere(i)
    BY <1>0, <1>2, <2>1, DownSteps DEF Down, StartRuntime, ScanAbandons, ScanEnds, ScanIntent,
       DownIsQuiet
  <2>3. Live(j) /\ \A c \in CallsOf(j) : Untouched(c)
    <3>1. attempt'[Turn(j)].state \notin Ended
      BY DEF Live, Turn, Executable, Ended
    <3>2. attempt'[Turn(j)] = attempt[Turn(j)] /\ (Live(j) => \A c \in CallsOf(j) : Untouched(c))
      BY <2>2, <3>1, ReplaceLeaves
    <3>3. Live(j)
      BY <3>2 DEF Live, Turn
    <3> QED
      BY <3>2, <3>3
  <2>4. Turn(j) \notin stranded /\ admitted \subseteq admitted'
    BY HistoryGrows
  <2>5. PICK c \in CallsOf(j) : c \in admitted /\ intent[c].state \in OpenIntent
    BY <2>1, <2>3, <2>4 DEF OwnershipInv, LiveTurnIsKept, Recoverable
  <2>6. c \in CallsOf(j)' /\ c \in admitted' /\ intent'[c].state \in OpenIntent
    BY <2>3, <2>4, <2>5, NewCalls DEF Untouched
  <2> QED
    BY <2>6 DEF Recoverable
<1> QED
  BY <1>1, <1>2

\* A turn the scan still has to decide on stays so when its rows and the scan's lists do.
LEMMA RecoveringStays ==
    ASSUME HeldStep, NEW j \in Jobs, scan.abandon # Turn(j), Recovering(j),
           \A c \in CallsOf(j) : Untouched(c),
           \A c \in CallsOf(j) : c \in scan.todo => c \in scan'.todo,
           \A c \in CallsOf(j) : Awaited(c) => Awaited(c)'
    PROVE  Recovering(j)'
<1>1. PICK c \in CallsOf(j) :
          /\ c \in admitted /\ intent[c].state \in OpenIntent
          /\ c \in scan.todo \/ (Awaited(c) /\ call[c].state = "created")
  BY DEF Recovering
<1>2. c \in CallsOf(j)' /\ c \in admitted'
  BY <1>1, NewCalls, HistoryGrows DEF HeldStep
<1>3. intent'[c].state \in OpenIntent /\ (c \in scan'.todo \/ (Awaited(c)' /\ call'[c].state = "created"))
  BY <1>1 DEF Untouched
<1> QED
  BY <1>2, <1>3 DEF Recovering

\* The recovery scan decides on each admitted intent of a live turn: requeued, abandoned, or
\* still to visit.
LEMMA RecoveringStep ==
    ASSUME HeldStep, NEW j \in Jobs, Live(j)', Turn(j) \notin stranded', runtime' = "scanning"
    PROVE  Recovering(j)'
<1> USE DEF HeldStep
<1>0. /\ DispatchTypeOK /\ TypeOK /\ DownIsQuiet /\ OneCallPerTurn /\ LiveTurnIsKept
      /\ Turn(j) \in Attempts /\ Turn(j) # NoAttempt
  BY TurnsAreAttempts, ConstantsAssumption DEF DispatchInv, DispatchTypeOK, OwnershipInv
<1>1. Turn(j) \notin stranded /\ admitted \subseteq admitted' /\ CallsOf(j) \subseteq CallsOf(j)'
  BY HistoryGrows, NewCalls
<1>2. Down /\ ~ProcessExits /\ ~ScanEnds
  BY RuntimeMoves DEF StartRuntime, ScanEnds, StopRuntime, JoinWorkers, ProcessExits, Down
<1>l. Live(j)
  <2>1. ~LaunchDispatchesJob(j)
    BY <1>0, <1>2 DEF DownIsQuiet, UnderWay, LaunchDispatchesJob, Launching
  <2> QED
    BY <2>1, LiveBefore
<1>3. CASE StartRuntime
  <2>1. runtime = "off" /\ UNCHANGED tables
        /\ scan'.todo = {c \in Calls : intent[c].state \in OpenIntent}
    BY <1>3 DEF StartRuntime
  <2>2. PICK c \in CallsOf(j) : c \in admitted /\ intent[c].state \in OpenIntent
    BY <1>0, <1>1, <1>l, <2>1 DEF LiveTurnIsKept, Recoverable
  <2>3. c \in Calls /\ intent'[c].state \in OpenIntent /\ c \in scan'.todo
    BY <2>1, <2>2 DEF CallsOf, ProviderCalls, Present, tables
  <2> QED
    BY <1>1, <2>2, <2>3 DEF Recovering
<1>r. ASSUME runtime = "scanning" PROVE Recovering(j)
  BY <1>0, <1>1, <1>l, <1>r DEF LiveTurnIsKept
<1>4. CASE ScanAbandons
  <2>1. /\ runtime = "scanning" /\ scan'.todo = scan.todo /\ ready' = ready
        /\ AbandonAttempt(scan.abandon) \/ UNCHANGED tables
        /\ ~MayExecute(scan.abandon) \/ EndAttempt(call, intent, scan.abandon, "unknown")
        /\ scan.abandon \in Attempts
    <3>1. scan \in [todo : SUBSET Calls, abandon : Attempts \cup {NoAttempt}]
      BY <1>0 DEF DispatchTypeOK
    <3> QED
      BY <1>0, <1>4, <3>1 DEF ScanAbandons, AbandonAttempt, DownIsQuiet
  <2>2. scan.abandon # Turn(j)
    <3>1. ASSUME scan.abandon = Turn(j) PROVE FALSE
      <4>1. MayExecute(scan.abandon)
        BY <1>l, <3>1, LiveIsAuthority
      <4>2. attempt'[Turn(j)].state = "unknown"
        BY <1>0, <2>1, <3>1, <4>1, EndLeaves
      <4> QED
        BY <4>2 DEF Live, Turn, Executable
    <3> QED
      BY <3>1
  <2>3. \A c \in CallsOf(j) : Untouched(c)
    <3>1. CASE UNCHANGED tables
      BY <3>1 DEF Untouched, tables
    <3>2. CASE EndAttempt(call, intent, scan.abandon, "unknown")
      <4>1. \A c \in Calls : Owner(c) # scan.abandon => Untouched(c)
        BY <1>0, <2>1, <3>2, EndLeaves
      <4> QED
        BY <2>2, <4>1 DEF CallsOf, ProviderCalls, Present
    <3> QED
      BY <2>1, <3>1, <3>2 DEF AbandonAttempt
  <2> QED
    BY <1>r, <2>1, <2>2, <2>3, RecoveringStays DEF Awaited
<1>5. ASSUME NEW i \in Jobs, ReplacedElsewhere(i) PROVE Recovering(j)'
  <2>1. runtime = "scanning" /\ scan' = scan /\ ready' = ready
    BY <1>5 DEF ReplacedElsewhere, memory
  <2>2. \A c \in CallsOf(j) : Untouched(c)
    <3>1. attempt'[Turn(j)].state \notin Ended
      BY DEF Live, Turn, Executable, Ended
    <3> QED
      BY <1>5, <1>l, <3>1, ReplaceLeaves
  <2>3. CASE scan.abandon = Turn(j)
    BY <2>1, <2>3 DEF Recovering, Turn
  <2> QED
    BY <1>r, <2>1, <2>2, <2>3, RecoveringStays DEF Awaited
<1>6. ASSUME NEW d \in Calls, ScanIntent(d) PROVE Recovering(j)'
  <2>1. /\ runtime = "scanning" /\ scan.abandon = NoAttempt /\ scan'.todo = scan.todo \ {d}
        /\ FenceDispatchIntent(d) \/ UNCHANGED tables
        /\ ready' = ready \/ ready' = Append(ready, d)
    BY <1>6 DEF ScanIntent
  <2>2. ready \in Seq(Calls)
    BY <1>0 DEF DispatchTypeOK
  <2>3. \A c \in Calls : Awaited(c) => Awaited(c)'
    <3>1. ASSUME NEW c \in Calls, NEW i \in 1..Len(ready), ready[i] = c PROVE Awaited(c)'
      <4>1. i \in 1..Len(ready') /\ ready'[i] = c
        BY <2>1, <2>2, <3>1, AppendKeeps
      <4> QED
        BY <4>1 DEF Awaited
    <3> QED
      BY <3>1 DEF Awaited
  <2>4. CASE d \notin CallsOf(j)
    <3>1. \A c \in CallsOf(j) : c \in Calls /\ Untouched(c)
      <4>1. \A c \in Calls : c # d => Untouched(c)
        BY <1>0, <2>1, OneRow DEF Untouched, tables
      <4> QED
        BY <2>4, <4>1 DEF CallsOf, ProviderCalls, Present
    <3>2. \A c \in CallsOf(j) : c \in scan.todo => c \in scan'.todo
      BY <2>1, <2>4
    <3> QED
      BY <1>0, <1>r, <2>1, <2>3, <3>1, <3>2, RecoveringStays
  <2>5. CASE d \in CallsOf(j)
    <3>1. /\ d \in admitted /\ intent[d].state \in OpenIntent
      BY <1>0, <1>r, <2>1, <2>5 DEF Recovering, OneCallPerTurn
    <3>2. Owner(d) = Turn(j) /\ call[d].kind = "provider" /\ MayExecute(Owner(d))
      BY <1>l, <2>5, LiveIsAuthority DEF CallsOf, ProviderCalls
    <3>3. CASE intent[d].state = "running" \/ intent[d].effect # "not_started"
      <4>1. scan'.abandon = Turn(j)
        BY <1>6, <3>1, <3>2, <3>3 DEF ScanIntent
      <4> QED
        BY <4>1 DEF Recovering, Turn
    <3>4. CASE ~(intent[d].state = "running" \/ intent[d].effect # "not_started")
      <4>1. UNCHANGED tables /\ ready' = Append(ready, d)
        BY <1>6, <3>1, <3>2, <3>4 DEF ScanIntent
      <4>2. call[d].state = "created"
        BY <3>1, <3>4 DEF DispatchInv, WorkSlots, CallSlot, OpenIntent
      <4>3. \E i \in 1..Len(ready') : ready'[i] = d
        BY <2>2, <4>1, AppendKeeps
      <4>4. Awaited(d)' /\ call'[d].state = "created" /\ intent'[d].state \in OpenIntent
        BY <3>1, <4>1, <4>2, <4>3 DEF Awaited, tables
      <4> QED
        BY <1>1, <2>5, <3>1, <4>4 DEF Recovering
    <3> QED
      BY <3>3, <3>4
  <2> QED
    BY <2>4, <2>5
<1> QED
  BY <1>0, <1>2, <1>3, <1>4, <1>5, <1>6, DownSteps


\* While the process is up a live turn whose launch is over is held, and one whose launch is
\* about to be is held or signalled.
LEMMA UpTurnIsKept ==
    ASSUME HeldStep, NEW j \in Jobs, Live(j)', Turn(j) \notin stranded', ~Down'
    PROVE  /\ ~UnderWay(j)' => Held(j)'
           /\ launcher'[j].pc \in {"sending", "sent"} => Held(j)' \/ Turn(j) \in token'
<1> USE DEF HeldStep
<1>0. /\ DispatchTypeOK /\ OneCallPerTurn /\ Turn(j) \notin stranded
      /\ CallsOf(j) \subseteq CallsOf(j)' /\ ~ProcessExits /\ ~StartRuntime
  BY HistoryGrows, NewCalls DEF DispatchInv, OwnershipInv, ProcessExits, StartRuntime, Down
<1>1. CASE LaunchDispatchesJob(j)
  <2>1. launcher'[j].pc = "dispatched"
    BY <1>0, <1>1 DEF LaunchDispatchesJob, LaunchTo, DispatchTypeOK, LauncherRecord
  <2> QED
    BY <2>1 DEF UnderWay
<1>2. CASE Down /\ ~LaunchDispatchesJob(j)
  <2>1. Live(j) /\ ScanEnds
    BY <1>0, <1>2, LiveBefore, RuntimeMoves DEF Down, StopRuntime, JoinWorkers
  <2>2. PICK c \in CallsOf(j) : Awaited(c)
    BY <1>0, <2>1, ScanEndsKept
  <2>3. Awaited(c)' /\ c \in CallsOf(j)'
    BY <1>0, <2>1, <2>2 DEF ScanEnds, Awaited
  <2> QED
    BY <2>3 DEF Held, InHand
<1>3. CASE ~Down /\ ~LaunchDispatchesJob(j)
  <2>1. Live(j)
    BY <1>3, LiveBefore
  <2>2. /\ ~UnderWay(j) => Held(j)
        /\ launcher[j].pc \in {"sending", "sent"} => Held(j) \/ Turn(j) \in token
        /\ Turn(j) \in token => UnderWay(j)
    BY <1>0, <1>3, <2>1 DEF OwnershipInv, LiveTurnIsKept, SignalsAreSeen
  <2>3. Held(j) => Held(j)' \/ Turn(j) \in token \/ launcher[j].pc = "undo"
    BY <1>0, <1>3, <2>1, HeldStays
  <2>4. \/ /\ RegisterTurn(j) \/ LaunchStep(j)
           /\ <<launcher[j].pc, launcher'[j].pc>> \in LaunchEdges
        \/ launcher'[j] = launcher[j]
    BY <1>0, LaunchMoves, TurnFrame, ChatFootprint
  <2>5. ASSUME ~UnderWay(j)' PROVE Held(j)'
    <3>1. CASE ~UnderWay(j)
      BY <2>2, <2>3, <3>1 DEF UnderWay
    <3>2. CASE UnderWay(j)
      <4>1. /\ RegisterTurn(j) \/ LaunchStep(j)
            /\ <<launcher[j].pc, launcher'[j].pc>> \in LaunchEdges
            /\ launcher'[j].pc = "done"
        BY <2>4, <2>5, <3>2 DEF UnderWay, LaunchEdges
      <4>2. launcher[j].pc = "sent"
        BY <4>1, LaunchLeaves
      <4>3. Turn(j) \notin token
        BY <4>1, <4>2, LaunchEnds, PublishSees
      <4> QED
        BY <2>2, <2>3, <4>2, <4>3
    <3> QED
      BY <3>1, <3>2
  <2>6. ASSUME launcher'[j].pc \in {"sending", "sent"} PROVE Held(j)' \/ Turn(j) \in token'
    <3>1. CASE launcher[j].pc \in {"sending", "sent"}
      <4>1. Turn(j) \in token => Turn(j) \in token'
        BY <1>0, TokenStays
      <4> QED
        BY <2>2, <2>3, <3>1, <4>1
    <3>2. CASE launcher[j].pc \notin {"sending", "sent"}
      <4>1. launcher[j].pc = "queued" /\ (RegisterTurn(j) \/ LaunchStep(j))
        BY <2>4, <2>6, <3>2 DEF LaunchEdges
      <4>2. LaunchSends(j)
        BY <4>1 DEF RegisterTurn, LaunchStep, LaunchCreatesJob, LaunchDispatchesJob,
           LaunchCreatesCall, LaunchAdmits, LaunchMarksQueued, LaunchHandedOff, LaunchRefused,
           LaunchUndone, PublishTurn, LaunchRevokes, LaunchConfirms, Launching
      <4>3. ~LaunchTo(j, "refused")
        BY <1>0, <2>6 DEF LaunchTo, DispatchTypeOK, LauncherRecord
      <4>4. launcher[j].call \in blocked'
        BY <4>2, <4>3 DEF LaunchSends
      <4>5. launcher[j].call \in CallsOf(j)
        BY <1>0, <4>1 DEF DispatchInv, Hands, LauncherHands, OneCallPerTurn, CallsOf
      <4>6. \A c \in CallsOf(j)' : c \in blocked' => Held(j)'
        BY DEF Held, InHand
      <4> QED
        BY <1>0, <4>4, <4>5, <4>6
    <3> QED
      BY <3>1, <3>2
  <2> QED
    BY <2>5, <2>6
<1> QED
  BY <1>1, <1>2, <1>3

\* So a live turn is always within reach of recovery, or of a thread or a queue.
LEMMA LiveTurnIsKeptStep ==
    ASSUME HeldStep
    PROVE  LiveTurnIsKept'
<1> SUFFICES ASSUME NEW j \in Jobs, Live(j)', Turn(j) \notin stranded'
             PROVE  /\ runtime' = "off" => Recoverable(j)'
                    /\ runtime' = "scanning" => Recovering(j)'
                    /\ ~Down' /\ ~UnderWay(j)' => Held(j)'
                    /\ ~Down' /\ launcher'[j].pc \in {"sending", "sent"} =>
                          Held(j)' \/ Turn(j) \in token'
  BY DEF LiveTurnIsKept, Turn
<1> QED
  BY RecoverableStep, RecoveringStep, UpTurnIsKept

---------------------------------------------------------------------------------
(* The invariant and the theorem. *)

\* Nothing exists and nobody acts at first.
LEMMA InitOwned ==
    ASSUME DispatchInit
    PROVE  OwnershipInv
<1>1. /\ \A c \in Calls : call[c].state = "absent"
      /\ \A a \in Attempts : attempt[a].state = "absent"
  BY DEF DispatchInit, Init
<1>2. \A j \in Jobs : CallsOf(j) = {} /\ attempt[Turn(j)].state = "absent"
  BY <1>1, TurnsAreAttempts DEF CallsOf, ProviderCalls, Present
<1>3. /\ runtime = "off" /\ blocked = {} /\ token = {} /\ ready = <<>> /\ scan.abandon = NoAttempt
      /\ \A l \in Lanes : lane[l].queue = <<>>
      /\ \A j \in Jobs : launcher[j].pc = "idle" /\ chat[j] = "none" /\ canceller[j] = "idle"
      /\ provider.pc = "idle" /\ tool.pc = "idle"
  BY DEF DispatchInit, ClosedLane, IdleLauncher, IdleWorker, IdleTool
<1>4. LanesSort /\ DownIsQuiet
  BY <1>3 DEF LanesSort, DownIsQuiet, UnderWay
<1>5. OneCallPerTurn /\ SignalsAreSeen /\ CancellingIsConfirmed
  BY <1>2, <1>3 DEF OneCallPerTurn, SignalsAreSeen, CancellingIsConfirmed, UnderWay
<1>6. BegunIsInHand /\ FailedByWorker /\ LiveTurnIsKept
  BY <1>2 DEF BegunIsInHand, FailedByWorker, LiveTurnIsKept, Live, Executable
<1> QED
  BY <1>4, <1>5, <1>6 DEF OwnershipInv

\* Every step of a thread keeps who holds a turn.
LEMMA NextOwned ==
    ASSUME DispatchInv, OwnershipInv, DispatchNext
    PROVE  OwnershipInv'
<1>1. DispatchInv'
  BY NextDispatch
<1>2. Next \/ UNCHANGED vars
  BY StepRefines DEF DispatchInv
<1>3. \A c \in Calls : RowStep(c)
  BY <1>2, TablesStep DEF DispatchInv, DispatchTypeOK
<1>4. Acts
  BY <1>3, StepActs DEF OwnershipInv
<1>5. HeldStep
  BY <1>1, <1>3, <1>4 DEF HeldStep
<1> QED
  BY <1>5, LanesSortStep, DownIsQuietStep, OneCallPerTurnStep, SignalsAreSeenStep,
     CancellingIsConfirmedStep, BegunIsInHandStep, FailedByWorkerStep, LiveTurnIsKeptStep
     DEF OwnershipInv

\* A step that changes nothing.
LEMMA UnchangedOwned ==
    ASSUME OwnershipInv, UNCHANGED allVars
    PROVE  OwnershipInv'
<1> USE DEF allVars, tables, threads, memory, history
<1>1. \A j \in Jobs : CallsOf(j)' = CallsOf(j)
  BY DEF CallsOf, ProviderCalls, Present, Owner, Turn
<1>2. LanesSort' /\ DownIsQuiet'
  BY DEF OwnershipInv, LanesSort, DownIsQuiet, Down, UnderWay
<1>3. OneCallPerTurn' /\ SignalsAreSeen' /\ CancellingIsConfirmed'
  BY <1>1 DEF OwnershipInv, OneCallPerTurn, SignalsAreSeen, CancellingIsConfirmed, UnderWay, Live, Turn,
     Owner, Exists
<1>4. BegunIsInHand' /\ FailedByWorker'
  BY <1>1 DEF OwnershipInv, BegunIsInHand, FailedByWorker, Live, Turn, Down
<1>5. \A c : (InHand(c)' <=> InHand(c)) /\ (Awaited(c)' <=> Awaited(c))
  BY DEF InHand, Awaited, InLane
<1>6. \A j \in Jobs : /\ Recoverable(j) => Recoverable(j)'
                      /\ Recovering(j) => Recovering(j)'
                      /\ Held(j) => Held(j)'
  BY <1>1, <1>5 DEF Recoverable, Recovering, Held, Turn
<1>7. LiveTurnIsKept'
  BY <1>6 DEF OwnershipInv, LiveTurnIsKept, Live, Turn, Down, UnderWay
<1> QED
  BY <1>2, <1>3, <1>4, <1>7 DEF OwnershipInv

\* Who holds a turn: the invariant that no turn is forgotten rests on.
THEOREM OwnershipInvariant == DispatchSpec => []OwnershipInv
<1>1. DispatchInit => OwnershipInv
  BY InitOwned
<1>2. DispatchInv /\ OwnershipInv /\ [DispatchNext]_allVars => OwnershipInv'
  BY NextOwned, UnchangedOwned
<1> QED
  BY <1>1, <1>2, DispatchInvariant, PTL DEF DispatchSpec

\* While the runtime is up nobody's turn is left running with no one to end it, whichever
\* of launcher, worker, canceller, tool and recovery fails at whichever transaction, but for
\* the turns an exit or the recovery producer is known to strand.
THEOREM TurnsAreKept == DispatchSpec => []NoTurnForgotten
<1>1. DispatchInv /\ OwnershipInv => NoTurnForgotten
  <2> SUFFICES ASSUME DispatchInv, OwnershipInv, runtime \in {"up", "stopping"}, NEW j \in Jobs,
                      attempt[Turn(j)].state \in Unfinished, Turn(j) \notin stranded
               PROVE  Owned(j)
    BY DEF NoTurnForgotten
  <2>1. CASE attempt[Turn(j)].state = "cancelling"
    <3>1. \/ launcher[j].pc = "confirm" \/ canceller[j] \in {"signalRevoked", "confirm"}
          \/ provider.pc = "confirm" /\ Owner(provider.call) = Turn(j)
      BY <2>1 DEF OwnershipInv, CancellingIsConfirmed
    <3>2. ASSUME provider.pc = "confirm", Owner(provider.call) = Turn(j) PROVE Owned(j)
      <4>1. provider.call \in Calls /\ call[provider.call].kind = "provider"
        BY <3>2 DEF DispatchInv, Hands, WorkerHands, Present, OwnershipInv, LanesSort
      <4> QED
        BY <3>2, <4>1 DEF Owned
    <3> QED
      BY <3>1, <3>2 DEF Owned
  <2>2. CASE attempt[Turn(j)].state # "cancelling"
    <3>1. Live(j) /\ ~Down
      BY <2>2 DEF Live, Unfinished, Executable, Down
    <3>2. UnderWay(j) \/ Held(j)
      BY <3>1 DEF OwnershipInv, LiveTurnIsKept
    <3> QED
      BY <3>2 DEF UnderWay, Held, InHand, CallsOf, ProviderCalls, Present, Owned
  <2> QED
    BY <2>1, <2>2
<1> QED
  BY <1>1, DispatchInvariant, OwnershipInvariant, PTL
=================================================================================
