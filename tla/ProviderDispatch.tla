--------------------------- MODULE ProviderDispatch ---------------------------
(***************************************************************************)
(* How a launched turn is executed: the launching thread, the two bounded  *)
(* lanes of a Project's ExecutionRuntime, the provider worker, the native  *)
(* tool worker, the chat that may cancel the turn, restart recovery, and   *)
(* the process that may stop or crash between any two transactions.        *)
(*                                                                         *)
(* Sources: provider_loop.rs (execute_validated, execute_provider_loop and *)
(* the workers), execution_dispatch.rs, execution_runtime.rs, the handler  *)
(* of native_tools.rs, recover_provider_dispatches of domain.rs, and the   *)
(* launch and cancel paths of canonical_control.rs.  The tables and their  *)
(* transactions are those of ExecutionAuthority: each step below is one of *)
(* its actions together with the thread that takes it, or a step of a      *)
(* thread's memory alone.                                                  *)
(***************************************************************************)
EXTENDS ExecutionAuthority, Sequences

CONSTANTS Capacity,    \* capacity of a bounded lane
          MaxRounds,   \* MAX_PROVIDER_ROUNDS
          MaxExits,    \* bound on the number of process exits and crashes
          TurnCalls,   \* the Calls launches use, one per Job; the other Calls are tools
          ChatJobs,    \* the Jobs that are chat turns; the others are plain launches
          NoCall       \* no Call in a thread's hand

\* A turn is the first generation of its Job, so one generation is within the bound.
ASSUME DispatchAssumption ==
    /\ MaxGeneration \in Nat \ {0}
    /\ Capacity \in Nat \ {0} /\ MaxRounds \in Nat /\ MaxExits \in Nat /\ NoCall \notin Calls
    /\ TurnCalls \subseteq Calls /\ ChatJobs \subseteq Jobs

ToolCalls == Calls \ TurnCalls

Lanes == {"provider", "tool"}

VARIABLES
    runtime,    \* "off", "scanning", "up", "stopping" (flag set), "joined"
    lane,       \* BoundedDispatcher: whether its sender is there, and the channel
    blocked,    \* Calls whose envelope is inside send, holding a clone of the sender
    admitted,   \* domain_dispatch_intents.budget_admitted
    token,      \* Attempts whose CallCancellation is signalled
    chat,       \* active_chats: "none", "launching" (no Attempt id yet), "live"
    launcher,   \* the thread in launch_chat_selected for a Job
    canceller,  \* the thread in end_active_chat for a Job
    provider,   \* the provider worker
    tool,       \* the native tool worker
    scan,       \* recover_provider_dispatches: intents to visit, Attempt to abandon
    ready,      \* intents the recovery producer still has to requeue
    exits,      \* process exits so far
    begun,      \* history: Calls whose external effect was ever started
    stranded    \* history: Attempts a process exit or the recovery producer left ownerless

tables  == <<job, attempt, executor, call, intent, deps, binding, evidence>>
threads == <<launcher, canceller, provider, tool>>
memory  == <<runtime, lane, blocked, token, chat, scan, ready>>
history == <<exits, begun, stranded>>
allVars == <<tables, threads, memory, admitted, history>>

\* A launched Job is executed by its first Attempt; a later generation belongs to
\* whoever replaced it.
Turn(j) == <<j, 1>>
Turns   == {Turn(j) : j \in Jobs}
Owner(c) == call[c].attempt

IdleLauncher == [pc |-> "idle", call |-> NoCall]
IdleWorker   == [pc |-> "idle", call |-> NoCall, claimed |-> FALSE, tool |-> NoCall, round |-> 0]
IdleTool     == [pc |-> "idle", call |-> NoCall, claimed |-> FALSE]
OpenLane     == [open |-> TRUE, queue |-> <<>>]
ClosedLane   == [open |-> FALSE, queue |-> <<>>]

LauncherPcs == {"idle", "registered", "pending", "dispatched", "calling", "admitted", "queued",
                "sending", "refused", "undo", "sent", "revoke", "confirm", "done"}
WorkerPcs   == {"idle", "gate", "claim", "round", "wire", "tool", "toolQueue", "toolSend",
                "toolBlocked", "wait", "settle", "finish", "error", "fail", "failCall",
                "failAttempt", "revoke", "confirm"}
ToolPcs     == {"idle", "check", "gate", "claim", "effect", "error", "fence", "verify", "dead"}

CancellerPcs == {"idle", "revoke", "signal", "signalRevoked", "confirm"}

Hand == Calls \cup {NoCall}
BoundedQueue == {q \in Seq(Calls) : Len(q) <= Capacity}
LaneRecord     == [open : BOOLEAN, queue : BoundedQueue]
LauncherRecord == [pc : LauncherPcs, call : Hand]
WorkerRecord   == [pc : WorkerPcs, call : Hand, claimed : BOOLEAN, tool : Hand, round : 0..MaxRounds]
ToolRecord     == [pc : ToolPcs, call : Hand, claimed : BOOLEAN]

DispatchTypeOK ==
    /\ TypeOK
    /\ runtime \in {"off", "scanning", "up", "stopping", "joined"}
    /\ lane \in [Lanes -> LaneRecord]
    /\ blocked \subseteq Calls /\ admitted \subseteq Calls /\ begun \subseteq Calls
    /\ token \subseteq Attempts /\ stranded \subseteq Attempts
    /\ chat \in [Jobs -> {"none", "launching", "live"}]
    /\ launcher \in [Jobs -> LauncherRecord]
    /\ canceller \in [Jobs -> CancellerPcs]
    /\ provider \in WorkerRecord /\ tool \in ToolRecord
    /\ scan \in [todo : SUBSET Calls, abandon : Attempts \cup {NoAttempt}]
    /\ ready \in Seq(Calls)
    /\ exits \in 0..MaxExits

DispatchInit ==
    /\ Init
    /\ runtime = "off" /\ lane = [l \in Lanes |-> ClosedLane] /\ blocked = {}
    /\ admitted = {} /\ token = {}
    /\ chat = [j \in Jobs |-> "none"]
    /\ launcher = [j \in Jobs |-> IdleLauncher] /\ canceller = [j \in Jobs |-> "idle"]
    /\ provider = IdleWorker /\ tool = IdleTool
    /\ scan = [todo |-> {}, abandon |-> NoAttempt] /\ ready = <<>>
    /\ exits = 0 /\ begun = {} /\ stranded = {}

------------------------------------------------------------------------------
(* The launching thread: launch_chat_selected, launch_job_inner and           *)
(* admit_provider_call_with_events.                                           *)

Launching(j, pc) == launcher[j].pc = pc
LaunchTo(j, pc)  == launcher' = [launcher EXCEPT ![j].pc = pc]
LaunchFrame == UNCHANGED <<canceller, provider, tool, runtime, lane, scan, ready, history>>

\* A chat turn is registered before its launch; a plain Job has no registration.  The
\* launch lock is held from here to the end of the launch, also while send blocks.
RegisterTurn(j) ==
    /\ Launching(j, "idle") /\ runtime = "up" /\ ~Exists(j)
    /\ \A other \in Jobs : launcher[other].pc \in {"idle", "done"}
    /\ LaunchTo(j, "registered")
    /\ chat' = [chat EXCEPT ![j] = IF j \in ChatJobs THEN "launching" ELSE "none"]
    /\ UNCHANGED <<tables, blocked, token, admitted>> /\ LaunchFrame

LaunchCreatesJob(j) ==
    /\ Launching(j, "registered")
    /\ CreateJob(j)
    /\ LaunchTo(j, "pending")
    /\ UNCHANGED <<blocked, token, chat, admitted>> /\ LaunchFrame

LaunchDispatchesJob(j) ==
    /\ Launching(j, "pending")
    /\ DispatchJob(j)
    /\ LaunchTo(j, "dispatched")
    /\ UNCHANGED <<blocked, token, chat, admitted>> /\ LaunchFrame

\* Another process may have replaced the Attempt: the Call is then refused.
LaunchCreatesCall(j) ==
    /\ Launching(j, "dispatched")
    /\ \/ \E c \in TurnCalls : /\ CreateCall(c, Turn(j), "provider")
                               /\ launcher' = [launcher EXCEPT ![j] = [pc |-> "calling", call |-> c]]
       \/ /\ ~(MayExecute(Turn(j)) /\ executor[Turn(j)] = "ready")
          /\ LaunchTo(j, "undo") /\ UNCHANGED tables
    /\ UNCHANGED <<blocked, token, chat, admitted>> /\ LaunchFrame

\* admit_dispatch: allowed, or denied by the budget, or refused for a stale Attempt.
LaunchAdmits(j) ==
    LET c == launcher[j].call
    IN  /\ Launching(j, "calling")
        /\ \/ /\ MayExecute(Turn(j))
              /\ admitted' = admitted \cup {c} /\ LaunchTo(j, "admitted")
           \/ UNCHANGED admitted /\ LaunchTo(j, "refused")
        /\ UNCHANGED <<tables, blocked, token, chat>> /\ LaunchFrame

LaunchMarksQueued(j) ==
    LET c == launcher[j].call
    IN  /\ Launching(j, "admitted")
        /\ \/ MarkDispatchQueued(c) /\ LaunchTo(j, "queued")
           \/ intent[c].state \notin {"pending", "queued"} /\ LaunchTo(j, "undo") /\ UNCHANGED tables
        /\ UNCHANGED <<blocked, token, chat, admitted>> /\ LaunchFrame

\* send clones the sender under the lock and blocks outside it.
LaunchSends(j) ==
    /\ Launching(j, "queued")
    /\ \/ /\ lane["provider"].open
          /\ blocked' = blocked \cup {launcher[j].call} /\ LaunchTo(j, "sending")
       \/ ~lane["provider"].open /\ LaunchTo(j, "refused") /\ UNCHANGED blocked
    /\ UNCHANGED <<tables, token, chat, admitted>> /\ LaunchFrame

LaunchHandedOff(j) ==
    /\ Launching(j, "sending") /\ launcher[j].call \notin blocked
    /\ LaunchTo(j, "sent")
    /\ UNCHANGED <<tables, blocked, token, chat, admitted>> /\ LaunchFrame

\* A denied admission or a closed lane fails the Call, if the Attempt is still current.
LaunchRefused(j) ==
    LET c == launcher[j].call
    IN  /\ Launching(j, "refused")
        /\ FailCall(c) \/ (~(call[c].state \in OpenCall /\ MayExecute(Turn(j))) /\ UNCHANGED tables)
        /\ LaunchTo(j, "undo")
        /\ UNCHANGED <<blocked, token, chat, admitted>> /\ LaunchFrame

\* Plausible bug: the Attempt is failed without a look at its authority.
LaunchUndoneAnyway(j) ==
    /\ Launching(j, "undo")
    /\ EndAttempt(call, intent, Turn(j), "failed") /\ UNCHANGED <<deps, binding, evidence>>
    /\ chat' = [chat EXCEPT ![j] = IF @ = "launching" THEN "none" ELSE @]
    /\ LaunchTo(j, "done")
    /\ UNCHANGED <<blocked, token, admitted>> /\ LaunchFrame

\* finish_attempt(false), then discard_active_turn.
LaunchUndone(j) ==
    /\ Launching(j, "undo")
    /\ FinishAttempt(Turn(j), FALSE) \/ (~MayExecute(Turn(j)) /\ UNCHANGED tables)
    /\ chat' = [chat EXCEPT ![j] = IF @ = "launching" THEN "none" ELSE @]
    /\ LaunchTo(j, "done")
    /\ UNCHANGED <<blocked, token, admitted>> /\ LaunchFrame

\* Plausible bug: the launch does not look at its registration again.
PublishTurnBlindly(j) ==
    /\ Launching(j, "sent")
    /\ chat' = [chat EXCEPT ![j] = IF @ = "launching" THEN "live" ELSE @]
    /\ LaunchTo(j, "done")
    /\ UNCHANGED <<tables, blocked, token, admitted>> /\ LaunchFrame

\* Publish the Attempt on the registration, or settle it here when the registration was
\* cancelled while it had no identity.  A plain Job is done.
PublishTurn(j) ==
    /\ Launching(j, "sent")
    /\ IF chat[j] = "launching"
       THEN chat' = [chat EXCEPT ![j] = "live"] /\ LaunchTo(j, "done")
       ELSE /\ LaunchTo(j, IF canceller[j] # "idle" \/ Turn(j) \in token THEN "revoke" ELSE "done")
            /\ UNCHANGED chat
    /\ UNCHANGED <<tables, blocked, token, admitted>> /\ LaunchFrame

LaunchRevokes(j) ==
    /\ Launching(j, "revoke")
    /\ \/ RequestCancel(Turn(j)) /\ LaunchTo(j, "confirm")
       \/ ~MayExecute(Turn(j)) /\ LaunchTo(j, "done") /\ UNCHANGED tables
    /\ UNCHANGED <<blocked, token, chat, admitted>> /\ LaunchFrame

LaunchConfirms(j) ==
    /\ Launching(j, "confirm")
    /\ SettleCancel(Turn(j), "cancelled")
    /\ LaunchTo(j, "done")
    /\ UNCHANGED <<blocked, token, chat, admitted>> /\ LaunchFrame

LaunchStep(j) ==
    \/ LaunchCreatesJob(j) \/ LaunchDispatchesJob(j) \/ LaunchCreatesCall(j) \/ LaunchAdmits(j)
    \/ LaunchMarksQueued(j) \/ LaunchSends(j) \/ LaunchHandedOff(j) \/ LaunchRefused(j)
    \/ LaunchUndone(j) \/ PublishTurn(j) \/ LaunchRevokes(j) \/ LaunchConfirms(j)

------------------------------------------------------------------------------
(* Cancelling a chat: end_active_chat after the registration was removed.     *)

CancelTo(j, pc) == canceller' = [canceller EXCEPT ![j] = pc]
CancelFrame == UNCHANGED <<launcher, provider, tool, runtime, lane, blocked, admitted, scan, ready,
                           history>>

\* The registration is removed under its lock.  Without an Attempt id there is nothing
\* to revoke.
CancelChat(j) ==
    /\ canceller[j] = "idle" /\ chat[j] # "none"
    /\ CancelTo(j, IF chat[j] = "live" THEN "revoke" ELSE "signal")
    /\ chat' = [chat EXCEPT ![j] = "none"]
    /\ UNCHANGED <<tables, token>> /\ CancelFrame

\* Plausible bug: the result of request_cancel is not looked at.
CancelRevokesAnyway(j) ==
    /\ canceller[j] = "revoke"
    /\ RequestCancel(Turn(j)) \/ (~MayExecute(Turn(j)) /\ UNCHANGED tables)
    /\ CancelTo(j, "signalRevoked")
    /\ UNCHANGED <<chat, token>> /\ CancelFrame

CancelRevokes(j) ==
    /\ canceller[j] = "revoke"
    /\ \/ RequestCancel(Turn(j)) /\ CancelTo(j, "signalRevoked")
       \/ ~MayExecute(Turn(j)) /\ CancelTo(j, "signal") /\ UNCHANGED tables
    /\ UNCHANGED <<chat, token>> /\ CancelFrame

CancelSignals(j) ==
    /\ canceller[j] \in {"signal", "signalRevoked"}
    /\ token' = token \cup {Turn(j)}
    /\ CancelTo(j, IF canceller[j] = "signal" THEN "idle" ELSE "confirm")
    /\ UNCHANGED <<tables, chat>> /\ CancelFrame

CancelConfirms(j) ==
    /\ canceller[j] = "confirm"
    /\ SettleCancel(Turn(j), "cancelled")
    /\ CancelTo(j, "idle")
    /\ UNCHANGED <<chat, token>> /\ CancelFrame

\* finish_chat and reap_expired_chats: a tail that ended is dropped.
ForgetChat(j) ==
    /\ chat[j] = "live" /\ attempt[Turn(j)].state \in Ended
    /\ chat' = [chat EXCEPT ![j] = "none"]
    /\ UNCHANGED <<tables, token, canceller>> /\ CancelFrame

CancelStep(j) == CancelRevokes(j) \/ CancelSignals(j) \/ CancelConfirms(j)

------------------------------------------------------------------------------
(* Lanes. *)

\* Plausible bug: the channel is not bounded.
DeliverUnbounded(c) ==
    LET l == IF call[c].kind = "provider" THEN "provider" ELSE "tool"
    IN  /\ c \in blocked
        /\ lane' = [lane EXCEPT ![l].queue = Append(@, c)]
        /\ blocked' = blocked \ {c}
        /\ ready' = IF ready # <<>> /\ Head(ready) = c THEN Tail(ready) ELSE ready
        /\ UNCHANGED <<tables, threads, runtime, admitted, token, chat, scan, history>>

\* The channel takes an envelope when it has room.  The recovery producer then goes on
\* with the next intent.
Deliver(c) ==
    LET l == IF call[c].kind = "provider" THEN "provider" ELSE "tool"
    IN  /\ c \in blocked /\ Len(lane[l].queue) < Capacity
        /\ lane' = [lane EXCEPT ![l].queue = Append(@, c)]
        /\ blocked' = blocked \ {c}
        /\ ready' = IF ready # <<>> /\ Head(ready) = c THEN Tail(ready) ELSE ready
        /\ UNCHANGED <<tables, threads, runtime, admitted, token, chat, scan, history>>

\* recv
Take(l) == /\ lane[l].queue # <<>>
           /\ lane' = [lane EXCEPT ![l].queue = Tail(@)]

------------------------------------------------------------------------------
(* The provider worker: run_provider_worker and execute_validated.            *)

Stopped == runtime # "up"   \* the flag ProviderHandlerConfig.cancelled
WorkerTo(pc) == provider' = [provider EXCEPT !.pc = pc]
WorkerFrame == UNCHANGED <<launcher, canceller, tool, runtime, admitted, token, chat, scan, ready,
                           exits, stranded>>
WorkerOnly  == UNCHANGED <<tables, lane, blocked, begun>> /\ WorkerFrame

WorkerTakes ==
    /\ provider.pc = "idle" /\ Take("provider")
    /\ provider' = [IdleWorker EXCEPT !.pc = "gate", !.call = Head(lane["provider"].queue)]
    /\ UNCHANGED <<tables, blocked, begun>> /\ WorkerFrame

\* The gates before the claim.  A stale or redelivered envelope is dropped; a stopped,
\* cancelled, unadmitted or unusable one goes to fail_authoritative_provider_call.
WorkerGates ==
    LET c == provider.call
    IN  /\ provider.pc = "gate"
        /\ \/ /\ Stopped \/ Owner(c) \in token
              /\ WorkerTo("fail")
           \/ /\ ~Stopped /\ Owner(c) \notin token
              /\ ~MayExecute(Owner(c)) \/ call[c].state \in {"running", "completed"}
              /\ WorkerTo("idle")
           \/ /\ ~Stopped /\ Owner(c) \notin token /\ MayExecute(Owner(c))
              /\ call[c].state = "created" /\ c \in admitted
              /\ intent[c].state \in {"pending", "queued"} /\ intent[c].effect = "not_started"
              /\ WorkerTo("claim")
           \* a payload, protocol, Executor, configuration or credential that does not hold
           \/ /\ ~Stopped /\ Owner(c) \notin token /\ MayExecute(Owner(c))
              /\ call[c].state \notin {"running", "completed"}
              /\ WorkerTo("fail")
        /\ WorkerOnly

\* Plausible bug: the request is sent before the claim is durable.
WorkerSendsUnclaimed ==
    /\ provider.pc = "claim"
    /\ provider' = [provider EXCEPT !.pc = "round", !.claimed = TRUE]
    /\ begun' = begun \cup {provider.call}
    /\ UNCHANGED <<tables, lane, blocked>> /\ WorkerFrame

\* start_call; the external effect begins with the claim.
WorkerClaims ==
    LET c == provider.call
    IN  /\ provider.pc = "claim"
        /\ \/ /\ ClaimCall(c)
              /\ provider' = [provider EXCEPT !.pc = "round", !.claimed = TRUE]
              /\ begun' = begun \cup {c}
           \/ /\ ~(call[c].state = "created" /\ MayExecute(Owner(c)))
              /\ WorkerTo("fail") /\ UNCHANGED <<tables, begun>>
        /\ UNCHANGED <<lane, blocked>> /\ WorkerFrame

\* ensure_provider_active
Active == /\ ~Stopped /\ Owner(provider.call) \notin token
          /\ MayExecute(Owner(provider.call)) /\ call[provider.call].state = "running"

\* What may follow a round that called tools; a tool Call needs an identity (a bound).
AfterTools == {"round"} \cup IF \E t \in ToolCalls : call[t].state = "absent" THEN {"tool"} ELSE {}

\* One pass of the loop in execute_provider_loop; the loop is bounded by MaxRounds.
WorkerRound ==
    /\ provider.pc = "round"
    /\ IF Active /\ provider.round < MaxRounds
       THEN provider' = [provider EXCEPT !.pc = "wire", !.round = @ + 1]
       ELSE WorkerTo("error")
    /\ WorkerOnly

\* The round ends: with an answer, with tool Calls, with only rejected tool Calls (a new
\* round), or with a failure of the transport, the protocol or the answer.
WorkerReply ==
    /\ provider.pc = "wire"
    /\ \/ Active /\ \E pc \in {"settle"} \cup AfterTools : WorkerTo(pc)
       \/ WorkerTo("error")
    /\ WorkerOnly

WorkerCreatesTool ==
    /\ provider.pc = "tool"
    /\ \/ /\ Active
          /\ \E t \in ToolCalls, kind \in {"tool", "read"} :
                /\ CreateCall(t, Owner(provider.call), kind)
                /\ provider' = [provider EXCEPT !.pc = "toolQueue", !.tool = t]
       \/ ~Active /\ WorkerTo("error") /\ UNCHANGED tables
    /\ UNCHANGED <<lane, blocked, begun>> /\ WorkerFrame

WorkerQueuesTool ==
    /\ provider.pc = "toolQueue"
    /\ \/ MarkDispatchQueued(provider.tool) /\ WorkerTo("toolSend")
       \/ /\ intent[provider.tool].state \notin {"pending", "queued"}
          /\ WorkerTo("error") /\ UNCHANGED tables
    /\ UNCHANGED <<lane, blocked, begun>> /\ WorkerFrame

WorkerSendsTool ==
    LET t == provider.tool
    IN  /\ provider.pc = "toolSend"
        /\ \/ /\ lane["tool"].open
              /\ blocked' = blocked \cup {t} /\ WorkerTo("toolBlocked") /\ UNCHANGED tables
           \/ /\ ~lane["tool"].open
              /\ QueueHandoffFails(t) \/ (intent[t].state # "queued" /\ UNCHANGED tables)
              /\ WorkerTo("error") /\ UNCHANGED blocked
        /\ UNCHANGED <<lane, begun>> /\ WorkerFrame

WorkerHandedTool ==
    /\ provider.pc = "toolBlocked" /\ provider.tool \notin blocked
    /\ WorkerTo("wait")
    /\ WorkerOnly

\* wait_for_call_completion: a poll that ends the wait.  It may also time out.
ToolAnswered == LET t == provider.tool
                IN  \/ call[t].state = "completed"
                    \/ call[t].state = "failed" /\ intent[t] = [state |-> "failed", effect |-> "settled"]

WorkerPolls ==
    /\ provider.pc = "wait"
    /\ \/ Active /\ ToolAnswered /\ \E pc \in AfterTools : WorkerTo(pc)
       \/ ~Active /\ WorkerTo("error")
       \/ /\ ~ToolAnswered
          /\ \/ call[provider.tool].state \notin OpenCall
             \/ intent[provider.tool].state \notin OpenIntent
             \/ ~lane["tool"].open
          /\ WorkerTo("error")
    /\ WorkerOnly

WorkerTimesOut ==
    /\ provider.pc = "wait" /\ ~ToolAnswered
    /\ WorkerTo("error")
    /\ WorkerOnly

\* A failed round is settled here, unless the turn was cancelled: whoever signalled the
\* token settles it.
WorkerErrs ==
    /\ provider.pc = "error"
    /\ WorkerTo(IF Owner(provider.call) \in token THEN "idle" ELSE "fail")
    /\ WorkerOnly

\* finish_call and finish_attempt(true) are two transactions.
WorkerSettles ==
    /\ provider.pc = "settle"
    /\ \/ \E r \in Responses : FinishCall(provider.call, r) /\ WorkerTo("finish")
       \/ /\ ~(call[provider.call].state = "running" /\ MayExecute(Owner(provider.call)))
          /\ WorkerTo("fail") /\ UNCHANGED tables
    /\ UNCHANGED <<lane, blocked, begun>> /\ WorkerFrame

WorkerFinishes ==
    LET a == Owner(provider.call)
    IN  /\ provider.pc = "finish"
        /\ \/ FinishAttempt(a, TRUE) /\ WorkerTo("idle")
           \/ /\ ~(MayExecute(a) /\ MayComplete(call, intent, a))
              /\ WorkerTo("fail") /\ UNCHANGED tables
        /\ UNCHANGED <<lane, blocked, begun>> /\ WorkerFrame

------------------------------------------------------------------------------
(* fail_authoritative_provider_call: settle an Attempt this worker still owns. *)

FailReads ==
    LET c == provider.call
        a == Owner(c)
    IN  /\ provider.pc = "fail"
        /\ WorkerTo(CASE ~MayExecute(a) -> "idle"
                      [] ~provider.claimed /\ call[c].state \in {"running", "completed"} -> "idle"
                      [] a \in token -> "revoke"
                      [] call[c].state \in OpenCall -> "failCall"
                      [] OTHER -> "failAttempt")
        /\ WorkerOnly

\* fail_provider_envelope: fail_call for a claimed Call, fail_unclaimed_call otherwise.
FailsCall ==
    LET c == provider.call
    IN  /\ provider.pc = "failCall"
        /\ \/ /\ provider.claimed \/ call[c].state = "created"
              /\ FailCall(c) /\ WorkerTo("failAttempt")
           \/ /\ ~MayExecute(Owner(c)) /\ WorkerTo("idle") /\ UNCHANGED tables
           \/ /\ MayExecute(Owner(c)) /\ call[c].state \notin OpenCall
              /\ WorkerTo(IF ~provider.claimed /\ call[c].state \in {"failed", "unknown"}
                          THEN "failAttempt" ELSE "idle")
              /\ UNCHANGED tables
        /\ UNCHANGED <<lane, blocked, begun>> /\ WorkerFrame

FailsAttempt ==
    LET a == Owner(provider.call)
    IN  /\ provider.pc = "failAttempt"
        /\ FinishAttempt(a, FALSE) \/ (~MayExecute(a) /\ UNCHANGED tables)
        /\ WorkerTo("idle")
        /\ UNCHANGED <<lane, blocked, begun>> /\ WorkerFrame

WorkerRevokes ==
    LET a == Owner(provider.call)
    IN  /\ provider.pc = "revoke"
        /\ \/ RequestCancel(a) /\ WorkerTo("confirm")
           \/ ~MayExecute(a) /\ WorkerTo("idle") /\ UNCHANGED tables
        /\ UNCHANGED <<lane, blocked, begun>> /\ WorkerFrame

WorkerConfirms ==
    /\ provider.pc = "confirm"
    /\ SettleCancel(Owner(provider.call), "cancelled")
    /\ WorkerTo("idle")
    /\ UNCHANGED <<lane, blocked, begun>> /\ WorkerFrame

WorkerStep ==
    \/ WorkerTakes \/ WorkerGates \/ WorkerClaims \/ WorkerRound \/ WorkerReply
    \/ WorkerCreatesTool \/ WorkerQueuesTool \/ WorkerSendsTool \/ WorkerHandedTool \/ WorkerPolls
    \/ WorkerErrs \/ WorkerSettles \/ WorkerFinishes
    \/ FailReads \/ FailsCall \/ FailsAttempt \/ WorkerRevokes \/ WorkerConfirms

------------------------------------------------------------------------------
(* The native tool worker: run_native_tool_worker and NativeToolCallHandler.  *)

ToolTo(pc) == tool' = [tool EXCEPT !.pc = pc]
ToolFrame == UNCHANGED <<launcher, canceller, provider, runtime, blocked, admitted, token, chat,
                         scan, ready, exits, stranded>>
ToolOnly  == UNCHANGED <<tables, lane, begun>> /\ ToolFrame

\* Plausible bug: a closed lane is not drained.
ToolTakesWhileOpen ==
    /\ tool.pc = "idle" /\ lane["tool"].open /\ Take("tool")
    /\ tool' = [IdleTool EXCEPT !.pc = "check", !.call = Head(lane["tool"].queue)]
    /\ UNCHANGED <<tables, begun>> /\ ToolFrame

ToolTakes ==
    /\ tool.pc = "idle" /\ Take("tool")
    /\ tool' = [IdleTool EXCEPT !.pc = "check", !.call = Head(lane["tool"].queue)]
    /\ UNCHANGED <<tables, begun>> /\ ToolFrame

\* An envelope whose Call is under way or over was already delivered.
ToolChecks ==
    /\ tool.pc = "check"
    /\ ToolTo(IF call[tool.call].state = "created" THEN "gate" ELSE "idle")
    /\ ToolOnly

ToolGates ==
    LET c == tool.call
    IN  /\ tool.pc = "gate"
        /\ ToolTo(IF /\ ~Stopped /\ Owner(c) \notin token /\ MayExecute(Owner(c))
                     /\ intent[c].state \in {"pending", "queued"}
                     /\ intent[c].effect = "not_started"
                  THEN "claim" ELSE "error")
        /\ ToolOnly

ToolClaims ==
    LET c == tool.call
    IN  /\ tool.pc = "claim"
        /\ \/ /\ ~Stopped /\ Owner(c) \notin token
              /\ ClaimCall(c)
              /\ tool' = [tool EXCEPT !.pc = "effect", !.claimed = TRUE]
              /\ begun' = begun \cup {c}
           \/ /\ Stopped \/ Owner(c) \in token
                 \/ ~(call[c].state = "created" /\ MayExecute(Owner(c)))
              /\ ToolTo("error") /\ UNCHANGED <<tables, begun>>
        /\ UNCHANGED lane /\ ToolFrame

\* The tool has run: success, a failure the provider may correct, or no outcome that can
\* be proved.
ToolEnds ==
    LET c == tool.call
    IN  /\ tool.pc = "effect"
        /\ \/ /\ ~Stopped /\ Owner(c) \notin token
              /\ \E r \in Responses : FinishCall(c, r) \/ FailNativeToolCall(c, r)
              /\ ToolTo("idle")
           \/ ToolTo("error") /\ UNCHANGED tables
        /\ UNCHANGED <<lane, begun>> /\ ToolFrame

\* terminalize_error: fail a Call nobody claimed; otherwise fence it.
ToolFailsUnclaimed ==
    LET c == tool.call
    IN  /\ tool.pc = "error"
        /\ \/ /\ ~tool.claimed /\ call[c].state = "created"
              /\ FailCall(c) /\ ToolTo("verify")
           \/ /\ tool.claimed \/ call[c].state # "created" \/ ~MayExecute(Owner(c))
              /\ ToolTo(IF call[c].state \notin OpenCall THEN "verify" ELSE "fence")
              /\ UNCHANGED tables
        /\ UNCHANGED <<lane, begun>> /\ ToolFrame

\* Plausible bug: only a Call this worker claimed is fenced.
ToolFencesClaimed ==
    LET c == tool.call
    IN  /\ tool.pc = "fence"
        /\ \/ tool.claimed /\ call[c].state \in OpenCall /\ FenceDispatchIntent(c)
           \/ ~(tool.claimed /\ call[c].state \in OpenCall) /\ UNCHANGED tables
        /\ ToolTo("verify")
        /\ UNCHANGED <<lane, begun>> /\ ToolFrame

ToolFences ==
    LET c == tool.call
    IN  /\ tool.pc = "fence"
        /\ \/ call[c].state \in OpenCall /\ FenceDispatchIntent(c)
           \/ call[c].state \notin OpenCall /\ UNCHANGED tables
        /\ ToolTo("verify")
        /\ UNCHANGED <<lane, begun>> /\ ToolFrame

\* A Call that could not be terminalized closes the lane and ends the worker.
ToolVerifies ==
    LET open == call[tool.call].state \in OpenCall \/ intent[tool.call].state \in OpenIntent
    IN  /\ tool.pc = "verify"
        /\ ToolTo(IF open THEN "dead" ELSE "idle")
        /\ lane' = [lane EXCEPT !["tool"].open = @ /\ ~open]
        /\ UNCHANGED <<tables, begun>> /\ ToolFrame

ToolStep ==
    \/ ToolTakes \/ ToolChecks \/ ToolGates \/ ToolClaims \/ ToolEnds
    \/ ToolFailsUnclaimed \/ ToolFences \/ ToolVerifies

------------------------------------------------------------------------------
(* The runtime: start with its recovery scan, requeueing, stop, exit.         *)

RuntimeFrame == UNCHANGED <<threads, admitted, chat, exits, begun>>

StartRuntime ==
    /\ runtime = "off"
    /\ runtime' = "scanning"
    /\ lane' = [l \in Lanes |-> OpenLane]
    /\ scan' = [todo |-> {c \in Calls : intent[c].state \in OpenIntent}, abandon |-> NoAttempt]
    /\ UNCHANGED <<tables, blocked, token, ready, stranded>> /\ RuntimeFrame

\* Plausible bug: an intent whose effect had started is requeued.
ScanRequeuesStarted(c) ==
    /\ runtime = "scanning" /\ scan.abandon = NoAttempt /\ c \in scan.todo
    /\ \/ /\ ~MayExecute(Owner(c)) \/ (call[c].kind = "provider" /\ c \notin admitted)
          /\ FenceDispatchIntent(c) \/ (intent[c].state \notin OpenIntent /\ UNCHANGED tables)
          /\ UNCHANGED ready
       \/ /\ MayExecute(Owner(c)) /\ (call[c].kind # "provider" \/ c \in admitted)
          /\ ready' = IF call[c].kind = "provider" THEN Append(ready, c) ELSE ready
          /\ UNCHANGED tables
    /\ scan' = [scan EXCEPT !.todo = @ \ {c}]
    /\ UNCHANGED <<runtime, lane, blocked, token, stranded>> /\ RuntimeFrame

\* recover_provider_dispatches with the reconciliation before it: a stale intent is
\* fenced; of the provider's, one that was never admitted is fenced, one whose effect may
\* have begun is fenced and its Attempt abandoned, and the others are to be requeued.
ScanIntent(c) ==
    LET stale     == ~MayExecute(Owner(c))
        unknown   == intent[c].state = "running" \/ intent[c].effect # "not_started"
        isProvider == call[c].kind = "provider"
        fenced    == stale \/ (isProvider /\ (c \notin admitted \/ unknown))
    IN  /\ runtime = "scanning" /\ scan.abandon = NoAttempt /\ c \in scan.todo
        /\ \/ /\ fenced
              /\ FenceDispatchIntent(c) \/ (intent[c].state \notin OpenIntent /\ UNCHANGED tables)
              /\ UNCHANGED ready
           \/ /\ ~fenced
              /\ ready' = IF isProvider THEN Append(ready, c) ELSE ready
              /\ UNCHANGED tables
        /\ scan' = [todo    |-> scan.todo \ {c},
                    abandon |-> IF ~stale /\ isProvider /\ c \in admitted /\ unknown
                                THEN Owner(c) ELSE NoAttempt]
        /\ stranded' = IF ~stale /\ isProvider /\ c \notin admitted
                       THEN stranded \cup {Owner(c)} ELSE stranded
        /\ UNCHANGED <<runtime, lane, blocked, token>> /\ RuntimeFrame

ScanAbandons ==
    /\ scan.abandon # NoAttempt
    /\ AbandonAttempt(scan.abandon) \/ (~MayExecute(scan.abandon) /\ UNCHANGED tables)
    /\ scan' = [scan EXCEPT !.abandon = NoAttempt]
    /\ UNCHANGED <<runtime, lane, blocked, token, ready, stranded>> /\ RuntimeFrame

\* Only now is a handle exposed and are the workers spawned.
ScanEnds ==
    /\ runtime = "scanning" /\ scan = [todo |-> {}, abandon |-> NoAttempt]
    /\ runtime' = "up"
    /\ UNCHANGED <<tables, lane, blocked, token, scan, ready, stranded>> /\ RuntimeFrame

\* The recovery producer.  An intent whose Attempt was replaced since the scan, or a
\* closed lane, is an error that ends it: what is left is not requeued.
Requeue ==
    LET c == Head(ready)
    IN  /\ runtime \in {"up", "stopping"} /\ ready # <<>> /\ c \notin blocked
        /\ IF MayExecute(Owner(c)) /\ lane["provider"].open
           THEN /\ blocked' = blocked \cup {c}
                /\ UNCHANGED <<ready, stranded>>
           ELSE /\ stranded' = stranded \cup {Owner(ready[i]) : i \in 1..Len(ready)}
                /\ ready' = <<>>
                /\ UNCHANGED blocked
        /\ UNCHANGED <<tables, runtime, lane, token, scan>> /\ RuntimeFrame

\* stop: the flag first, then both lanes.
StopRuntime ==
    /\ runtime = "up"
    /\ runtime' = "stopping"
    /\ UNCHANGED <<tables, lane, blocked, token, scan, ready, stranded>> /\ RuntimeFrame

CloseLane(l) ==
    /\ runtime = "stopping" /\ lane[l].open
    /\ l = "tool" => ~lane["provider"].open
    /\ lane' = [lane EXCEPT ![l].open = FALSE]
    /\ UNCHANGED <<tables, runtime, blocked, token, scan, ready, stranded>> /\ RuntimeFrame

\* recv answers None only when the channel is empty and no clone of the sender is left.
JoinWorkers ==
    /\ runtime = "stopping"
    /\ \A l \in Lanes : ~lane[l].open /\ lane[l].queue = <<>>
    /\ blocked = {} /\ ready = <<>>
    /\ provider.pc = "idle" /\ tool.pc \in {"idle", "dead"}
    /\ runtime' = "joined"
    /\ UNCHANGED <<tables, lane, blocked, token, scan, ready, stranded>> /\ RuntimeFrame

\* What no recovery scan will find: an unfinished Attempt without an open admitted
\* provider intent.
BeyondRecovery(a) ==
    /\ attempt[a].state \in Unfinished
    /\ ~\E c \in Calls : /\ Owner(c) = a /\ call[c].kind = "provider" /\ c \in admitted
                        /\ intent[c].state \in OpenIntent
                        /\ attempt[a].state \in Executable

\* The process ends, after a join or by a crash, and takes every thread with it.
ProcessExits ==
    /\ runtime # "off" /\ exits < MaxExits
    /\ exits' = exits + 1
    /\ runtime' = "off"
    /\ lane' = [l \in Lanes |-> ClosedLane] /\ blocked' = {} /\ token' = {} /\ ready' = <<>>
    /\ chat' = [j \in Jobs |-> "none"]
    /\ launcher' = [j \in Jobs |-> [IdleLauncher EXCEPT !.pc = IF Exists(j) THEN "done" ELSE "idle"]]
    /\ canceller' = [j \in Jobs |-> "idle"]
    /\ provider' = IdleWorker /\ tool' = IdleTool
    /\ scan' = [todo |-> {}, abandon |-> NoAttempt]
    /\ stranded' = stranded \cup {a \in Turns : BeyondRecovery(a)}
    /\ UNCHANGED <<tables, admitted, begun>>

\* Another process, through the command line, replaces an Attempt it names.
ReplacedElsewhere(j) ==
    /\ job[j].authority # 0
    /\ ReplaceAttempt(j)
    /\ UNCHANGED <<threads, memory, admitted, history>>

RuntimeStep ==
    \/ StartRuntime \/ ScanAbandons \/ ScanEnds \/ Requeue \/ JoinWorkers
    \/ \E c \in Calls : ScanIntent(c)
    \/ \E l \in Lanes : CloseLane(l)

DispatchNext ==
    \/ \E j \in Jobs : RegisterTurn(j) \/ LaunchStep(j) \/ CancelChat(j) \/ CancelStep(j)
                       \/ ForgetChat(j) \/ ReplacedElsewhere(j)
    \/ \E c \in Calls : Deliver(c)
    \/ WorkerStep \/ WorkerTimesOut \/ ToolStep \/ RuntimeStep \/ StopRuntime \/ ProcessExits

\* Threads are scheduled by the operating system, a transport round ends (its client has a
\* timeout) and a tool ends (process.rs bounds its run): each thread takes the steps it
\* can.  Nobody is obliged to launch, cancel, replace, stop or crash; a process that ended
\* is started again, as the next launch of the Project does.
DispatchSpec ==
    /\ DispatchInit /\ [][DispatchNext]_allVars
    /\ \A j \in Jobs : WF_allVars(LaunchStep(j)) /\ WF_allVars(CancelStep(j))
    /\ \A c \in Calls : WF_allVars(Deliver(c))
    /\ WF_allVars(WorkerStep) /\ WF_allVars(ToolStep) /\ WF_allVars(RuntimeStep)

------------------------------------------------------------------------------
(* Properties. *)

InLane(c) == \E l \in Lanes : \E i \in 1..Len(lane[l].queue) : lane[l].queue[i] = c
Awaited(c) == \E i \in 1..Len(ready) : ready[i] = c

\* A thread or a queue that will still end the turn of j.
Owned(j) ==
    \/ launcher[j].pc \notin {"idle", "done"}
    \/ canceller[j] \in {"revoke", "signalRevoked", "confirm"}
    \/ \E c \in Calls : /\ Owner(c) = Turn(j) /\ call[c].kind = "provider"
                        /\ \/ c \in blocked \/ InLane(c) \/ Awaited(c)
                           \/ provider.pc # "idle" /\ provider.call = c

\* While the runtime is up nobody's turn is left running with no one to end it, whichever
\* of launcher, worker, canceller, tool and recovery fails at whichever transaction; the
\* exceptions are the turns an exit or the recovery producer is known to strand.
NoTurnForgotten ==
    runtime \in {"up", "stopping"} =>
       \A j \in Jobs : /\ attempt[Turn(j)].state \in Unfinished
                       /\ Turn(j) \notin stranded
                       => Owned(j)

\* Launcher, worker and chat may all want to cancel one turn; only one of them is ever
\* between the two phases, and the turn is still cancelling when it confirms.
SingleCanceller ==
    \A j \in Jobs :
       LET confirming == {who \in {"launcher", "chat", "worker"} :
              \/ who = "launcher" /\ launcher[j].pc = "confirm"
              \/ who = "chat" /\ canceller[j] \in {"signalRevoked", "confirm"}
              \/ who = "worker" /\ provider.pc = "confirm" /\ Owner(provider.call) = Turn(j)}
       IN  /\ \A x, y \in confirming : x = y
           /\ confirming # {} => attempt[Turn(j)].state = "cancelling"

\* What ever reached the provider or a tool is never recorded as not started, across
\* failures, fences, crashes and recovery.
BegunEffectsAreRecorded == \A c \in begun : intent[c].effect # "not_started"

\* The tool worker gives its lane up only for a Call it could not settle, and with a
\* working database there is none: cancelling or replacing a turn at any moment does not
\* take the tools away from later turns.
ToolLaneSurvives == tool.pc # "dead"

\* Each turn has one canceller and the tools one worker, whoever cancels, replaces or stops.
OneOwner == SingleCanceller /\ ToolLaneSurvives

\* Recovery requeues what is safe to run again: once the producer is done, a turn whose
\* Call was admitted and never started is in somebody's hand, as run_provider_dispatcher
\* says of itself.
SafeIntentsAreRequeued ==
    runtime = "up" /\ ready = <<>> =>
       \A j \in Jobs : \A c \in admitted :
          /\ Owner(c) = Turn(j) /\ MayExecute(Turn(j))
          /\ call[c].state = "created" /\ intent[c].state = "queued"
          => Owned(j)

\* Every turn that was started ends, with every interleaving of cancellation, tool Calls,
\* replacement, shutdown and restart, unless it is one an exit or the recovery producer is
\* known to strand: what becomes of those is not promised.
TurnsEnd ==
    \A j \in Jobs : attempt[Turn(j)].state \in Unfinished
                    ~> (attempt[Turn(j)].state \in Ended \/ Turn(j) \in stranded)

\* Stopping always ends in a join: no producer blocked on a full lane, no envelope left in
\* the provider or the tool lane and no worker waiting for the answer of a tool holds it up
\* for ever.
StopJoins == runtime = "stopping" ~> runtime \in {"joined", "off"}

------------------------------------------------------------------------------
(* The inductive invariants the proofs of these properties rest on. *)

\* The Calls that have a row, and those of them that go to the provider.
Present       == {c \in Calls : call[c].state # "absent"}
ProviderCalls == {c \in Present : call[c].kind = "provider"}

\* What a thread or a queue holds is the identity of a Call whose row is committed.
LauncherHands ==
    \A j \in Jobs : launcher[j].pc \in {"calling", "admitted", "queued", "sending", "refused"}
                       => launcher[j].call \in ProviderCalls
WorkerHands ==
    /\ provider.pc # "idle" => provider.call \in Present
    /\ provider.pc \in {"toolQueue", "toolSend", "toolBlocked", "wait"} =>
          provider.tool \in Present /\ call[provider.tool].kind # "provider"
ToolHands == tool.pc # "idle" => tool.call \in Present
QueueHands ==
    /\ blocked \subseteq Present /\ scan.todo \subseteq Present
    /\ \A l \in Lanes : \A i \in 1..Len(lane[l].queue) : lane[l].queue[i] \in Present
    /\ \A i \in 1..Len(ready) : ready[i] \in ProviderCalls

Hands == LauncherHands /\ WorkerHands /\ ToolHands /\ QueueHands

\* A tool Call that the worker has not sent is nowhere else, so its handoff can fail safely.
UnsentTool ==
    provider.pc \in {"toolQueue", "toolSend"} =>
       /\ provider.tool \notin blocked /\ ~InLane(provider.tool)
       /\ tool.pc # "idle" => tool.call # provider.tool

\* What passed a gate can be claimed, unless somebody closed it since.
Claimable(c) == call[c].state = "created" => intent[c].state \in {"pending", "queued"}
GatesHold == /\ provider.pc = "claim" => Claimable(provider.call)
             /\ tool.pc = "claim" => Claimable(tool.call)

\* What the tool worker verifies has been closed.
VerifiedIsClosed ==
    tool.pc = "verify" => /\ call[tool.call].state \notin OpenCall
                          /\ intent[tool.call].state \notin OpenIntent

DispatchInv == /\ DispatchTypeOK /\ JobSlots /\ WorkSlots /\ Hands /\ UnsentTool
               /\ GatesHold /\ VerifiedIsClosed /\ BegunEffectsAreRecorded /\ OneOwner

------------------------------------------------------------------------------
(* Who ends a turn: the invariant NoTurnForgotten rests on. *)

\* The turn of j may still act; its launch is under way; the process is down or has not
\* exposed its runtime yet; the provider Calls of the turn.
Live(j)     == attempt[Turn(j)].state \in Executable
UnderWay(j) == launcher[j].pc \notin {"idle", "done"}
Down        == runtime \in {"off", "scanning"}
CallsOf(j)  == {c \in ProviderCalls : Owner(c) = Turn(j)}

\* A lane carries the Calls of its kind to the worker of that kind.
LanesSort ==
    /\ \A l \in Lanes : \A i \in 1..Len(lane[l].queue) :
          (call[lane[l].queue[i]].kind = "provider") = (l = "provider")
    /\ provider.pc # "idle" => call[provider.call].kind = "provider"
    /\ tool.pc # "idle" => call[tool.call].kind # "provider"

\* While the runtime is down no thread of the process and nothing of its memory is left.
DownIsQuiet ==
    /\ Down => /\ \A j \in Jobs : ~UnderWay(j) /\ canceller[j] = "idle" /\ chat[j] = "none"
               /\ provider.pc = "idle" /\ tool.pc = "idle" /\ blocked = {} /\ token = {}
               /\ \A l \in Lanes : lane[l].queue = <<>>
    /\ runtime = "off" => ready = <<>>
    /\ runtime # "scanning" => scan.abandon = NoAttempt

\* A launch creates one provider Call, of its turn, and not before the Job.
OneCallPerTurn ==
    \A j \in Jobs :
       /\ launcher[j].pc \notin {"idle", "registered"} => Exists(j)
       /\ launcher[j].pc \in {"idle", "registered", "pending", "dispatched"} => CallsOf(j) = {}
       /\ launcher[j].pc \in {"calling", "admitted", "queued", "sending", "refused"} =>
             Owner(launcher[j].call) = Turn(j)
       /\ \A c, d \in CallsOf(j) : c = d

\* A registration without an identity belongs to a launch under way, and a turn is
\* signalled without being revoked only while its launch will see it.
SignalsAreSeen ==
    \A j \in Jobs :
       /\ launcher[j].pc = "idle" => /\ chat[j] = "none" /\ canceller[j] = "idle"
                                     /\ Turn(j) \notin token
       /\ chat[j] = "launching" => launcher[j].pc \notin {"done", "revoke", "confirm"}
       /\ canceller[j] # "idle" \/ Turn(j) \in token => chat[j] # "launching"
       /\ Live(j) /\ (canceller[j] = "signal" \/ Turn(j) \in token) => UnderWay(j)

\* A turn whose authority was revoked has someone to confirm it.
CancellingIsConfirmed ==
    \A j \in Jobs : attempt[Turn(j)].state = "cancelling" =>
       \/ Turn(j) \in stranded
       \/ launcher[j].pc = "confirm" \/ canceller[j] \in {"signalRevoked", "confirm"}
       \/ provider.pc = "confirm" /\ Owner(provider.call) = Turn(j)

\* A provider Call that was begun is in the hands of the worker that claimed it, unless
\* the worker left its turn to who signalled it.
BegunIsInHand ==
    \A j \in Jobs : \A c \in CallsOf(j) :
       Live(j) /\ Turn(j) \notin stranded /\ ~Down /\ call[c].state \in {"running", "completed"} =>
          \/ /\ provider.pc \notin {"idle", "gate", "claim"} /\ provider.call = c
             /\ provider.claimed
          \/ Turn(j) \in token

\* Nobody but a launch that gives up closes the Call the worker is about to fail.
FailedByWorker ==
    \A j \in Jobs : \A c \in CallsOf(j) :
       provider.pc = "failCall" /\ provider.call = c /\ provider.claimed /\ Live(j)
          => \/ call[c].state \in OpenCall
             \/ call[c].state = "failed" /\ launcher[j].pc = "undo"

InHand(c) == \/ c \in blocked \/ InLane(c) \/ Awaited(c)
             \/ provider.pc # "idle" /\ provider.call = c

\* A live turn is within reach of recovery, or of a thread or a queue of the process.
Recoverable(j) == \E c \in CallsOf(j) : c \in admitted /\ intent[c].state \in OpenIntent
Recovering(j) ==
    \/ scan.abandon = Turn(j)
    \/ \E c \in CallsOf(j) :
          /\ c \in admitted /\ intent[c].state \in OpenIntent
          /\ c \in scan.todo \/ (Awaited(c) /\ call[c].state = "created")
Held(j) == \/ \E c \in CallsOf(j) : InHand(c)
           \/ canceller[j] \in {"revoke", "signalRevoked", "confirm"}
LiveTurnIsKept ==
    \A j \in Jobs : Live(j) /\ Turn(j) \notin stranded =>
       /\ runtime = "off" => Recoverable(j)
       /\ runtime = "scanning" => Recovering(j)
       /\ ~Down /\ ~UnderWay(j) => Held(j)
       /\ ~Down /\ launcher[j].pc \in {"sending", "sent"} => Held(j) \/ Turn(j) \in token

\* Who holds a turn, and who will confirm its end.
OwnershipInv ==
    /\ LanesSort /\ DownIsQuiet /\ OneCallPerTurn /\ SignalsAreSeen
    /\ CancellingIsConfirmed /\ BegunIsInHand /\ FailedByWorker /\ LiveTurnIsKept
==============================================================================
