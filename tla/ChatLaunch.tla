------------------------------ MODULE ChatLaunch ------------------------------
(***************************************************************************)
(* Launch commands and chat turns (canonical_control.rs, the chat and      *)
(* launch-command transactions of domain.rs): one launcher at a time       *)
(* (launch_lock) turns a command into a Job, its Attempt, a turn of the    *)
(* session's Conversation and a queued Call, one transaction after the     *)
(* other, while clients cancel, workers answer, the process crashes and a  *)
(* restart requeues what was queued.                                       *)
(*                                                                         *)
(* All commands are of one session. The Attempt is live or ended, and its  *)
(* cancellation is one step: ExecutionAuthority and ProviderDispatch have  *)
(* their detail. A Job is a number, in the order Jobs are created.         *)
(***************************************************************************)
EXTENDS Integers

CONSTANTS
    Commands,      \* launch command ids
    ChatCommands,  \* those launched as a chat turn; the others are plain Jobs
    Contents,      \* request contents a command id may be used with
    MaxJobs,       \* bound: Jobs ever created
    MaxCrashes,    \* bound: crashes
    NoLaunch, NoTurn, NoRow

Jobs == 1..MaxJobs
NoJob == 0

\* What is recorded of a command, of a staged turn and in the session's registration.
Outcomes == {"accepted", "failed", "rejected"}
Rows == [hash : Contents, outcome : Outcomes, job : Jobs \cup {NoJob}]
TurnRows == [hash : Contents, job : Jobs]
Registrations == [job : Jobs \cup {NoJob}]

\* A launch: its command and request, the transaction it is before, and what it has so far.
Steps == {"lookup", "runtime", "configure", "dispatch", "prepare", "admit", "economy", "accept",
          "send", "discard", "fail", "record", "record_failed", "reply", "publish"}
Launches == [cmd : Commands, hash : Contents, step : Steps, job : Jobs \cup {NoJob},
             outcome : Outcomes \cup {"none", "error"}, dup : BOOLEAN, cancelled : BOOLEAN,
             previous : Registrations \cup {NoTurn}]

LaunchAssumption ==
    /\ ChatCommands \subseteq Commands /\ MaxJobs \in Nat /\ MaxCrashes \in Nat
    /\ NoLaunch \notin Launches /\ NoTurn \notin Registrations
    /\ NoRow \notin Rows \cup TurnRows \cup Commands

VARIABLES
    made,          \* Jobs created so far
    job,           \* per Job: its command, Attempt and DispatchIntent
    command,       \* domain_launch_commands
    turn,          \* domain_chat_turns
    user,          \* per Job: lifecycle of the user's Message
    assistant,     \* per Job: lifecycle of the assistant's Message
    context,       \* per Job: the messages its Call was given
    launch,        \* the launch that holds launch_lock
    active,        \* active_chats: the session's registration
    signalled,     \* Jobs whose cancellation token is set
    lane,          \* Jobs whose envelope a lane or a worker holds
    recovering,    \* Jobs the recovery producer has still to requeue
    runtime,       \* the Project's runtime is up
    crashes,
    answers,       \* what clients were told of each command
    survivors      \* history: turns that were live when the process crashed

chatVars == <<user, assistant, context, turn>>
procVars == <<active, signalled, lane, recovering, runtime>>
vars == <<made, job, command, chatVars, launch, procVars, crashes, answers, survivors>>

Chat == launch.cmd \in ChatCommands
At(step) == launch # NoLaunch /\ launch.step = step
Goto(step) == launch' = [launch EXCEPT !.step = step]
GotoWith(step, j) == launch' = [launch EXCEPT !.step = step, !.job = j]
Reply(outcome, j, duplicate) ==
    launch' = [launch EXCEPT !.step = "reply", !.job = j, !.outcome = outcome, !.dup = duplicate]

Live(j) == job[j].attempt = "live"

-----------------------------------------------------------------------------
\* Messages.

\* MessageLifecycle::transition
Transitions == {<<"pending", "complete">>, <<"pending", "failed">>, <<"pending", "deleted">>,
                <<"complete", "deleted">>, <<"failed", "deleted">>}

\* update_chat_message, for a state the Message is not in and may move to.
Becomes(state, next) ==
    IF state = "none" \/ state = next THEN state
    ELSE IF next = "failed" /\ state \in {"complete", "deleted"} THEN state
    ELSE IF <<state, next>> \in Transitions THEN next ELSE state

\* read_conversation_messages; those of a turn by its Job and role. Their order is left out.
Conversation == (1..made) \X {"user", "assistant"}
State(m) == IF m[2] = "user" THEN user[m[1]] ELSE assistant[m[1]]

\* Mutation: staged messages enter the history too.
HistoryWithStaged(j) ==
    {m \in Conversation : State(m) \in {"complete", "pending"}} \cup {<<j, "user">>}

\* The history a Call is given: complete Messages and the staged user's own.
History(j) == {m \in Conversation : State(m) = "complete"} \cup {<<j, "user">>}

\* settle_chat_turn, in the transaction that ends the Attempt.
SettleTurn(j, completed) ==
    /\ assistant' = [assistant EXCEPT ![j] = Becomes(@, IF completed THEN "complete" ELSE "failed")]
    /\ user' = IF completed THEN user ELSE [user EXCEPT ![j] = Becomes(@, "failed")]

\* finish_attempt, or a cancellation confirmed: the Attempt's intent, if it has one, ends
\* with it.
IntentEnds(intent, completed) ==
    IF intent = "none" THEN "none" ELSE IF completed THEN "done" ELSE "failed"
EndAttempt(j, completed) ==
    /\ job' = [job EXCEPT ![j].attempt = "ended", ![j].intent = IntentEnds(@, completed)]
    /\ SettleTurn(j, completed)

Revoke(j) == IF j # NoJob /\ Live(j)
             THEN EndAttempt(j, FALSE)
             ELSE UNCHANGED <<job, user, assistant>>

\* chat_messages offers a reader the live tail of a pending answer while the
\* session's registration still names its Job.
Replayable(j) == assistant[j] = "pending" /\ active = [job |-> j]

-----------------------------------------------------------------------------
\* Launch commands.

Row(hash, outcome, j) == [hash |-> hash, outcome |-> outcome, job |-> j]

\* Mutation: only a recorded outcome is looked up.
LookupRecorded(c) == command[c]

\* Mutation: only an interrupted staging is looked up.
LookupStaged(c) ==
    IF turn[c] # NoRow THEN Row(turn[c].hash, "failed", turn[c].job) ELSE NoRow

\* lookup_launch_command: a recorded outcome, else a turn whose staging was interrupted.
Lookup(c) ==
    IF command[c] # NoRow THEN command[c]
    ELSE IF turn[c] # NoRow THEN Row(turn[c].hash, "failed", turn[c].job)
    ELSE NoRow

\* record_launch_command: an upsert that refuses another request or another Job.
Conflicts(c, row) ==
    command[c] # NoRow /\ (command[c].hash # row.hash \/ command[c].job # row.job)
Recorded(c, row) == IF Conflicts(c, row) THEN command ELSE [command EXCEPT ![c] = row]

\* accept_chat_turn: the user's Message becomes a fact and the command is accepted.
AcceptTurn(j) ==
    LET c == job[j].cmd
    IN  IF c \in ChatCommands /\ turn[c] # NoRow /\ turn[c].job = j
        THEN /\ user' = [user EXCEPT ![j] = Becomes(@, "complete")]
             /\ command' = IF command[c] = NoRow
                           THEN [command EXCEPT ![c] = Row(turn[c].hash, "accepted", j)]
                           ELSE command
        ELSE UNCHANGED <<user, command>>

-----------------------------------------------------------------------------
Init ==
    /\ made = 0
    /\ job = [j \in Jobs |-> [cmd |-> NoRow, attempt |-> "none", intent |-> "none"]]
    /\ command = [c \in Commands |-> NoRow]
    /\ turn = [c \in Commands |-> NoRow]
    /\ user = [j \in Jobs |-> "none"] /\ assistant = [j \in Jobs |-> "none"]
    /\ context = [j \in Jobs |-> {}]
    /\ launch = NoLaunch /\ active = NoTurn
    /\ signalled = {} /\ lane = {} /\ recovering = {}
    /\ runtime = FALSE /\ crashes = 0
    /\ answers = [c \in Commands |-> {}]
    /\ survivors = {}

\* launch_job takes the lock; launch_chat_selected also detaches the session's
\* turn and registers itself, before there is a Job to name.
Register(c, hash) ==
    /\ launch = NoLaunch
    /\ launch' = [cmd |-> c, hash |-> hash, step |-> "lookup", job |-> NoJob, outcome |-> "none",
                  dup |-> FALSE, cancelled |-> FALSE,
                  previous |-> IF c \in ChatCommands THEN active ELSE NoTurn]
    /\ active' = IF c \in ChatCommands THEN [job |-> NoJob] ELSE active
    /\ UNCHANGED <<made, job, command, chatVars, signalled, lane, recovering, runtime, crashes, answers, survivors>>

LookupCommand ==
    /\ At("lookup")
    /\ LET row == Lookup(launch.cmd)
       IN  IF row = NoRow THEN Goto("runtime")
           ELSE IF row.hash # launch.hash THEN Reply("rejected", NoJob, FALSE)
           ELSE Reply(row.outcome, row.job, TRUE)
    /\ UNCHANGED <<made, job, command, chatVars, procVars, crashes, answers, survivors>>

\* get_or_start: a new runtime scans the intents, ends those it cannot requeue
\* and leaves the queued ones to its recovery producer.
StartRuntime ==
    /\ At("runtime")
    /\ runtime' = TRUE
    /\ IF runtime THEN UNCHANGED <<job, recovering>>
       ELSE /\ recovering' = {j \in Jobs : job[j].intent = "queued"}
            /\ job' = [j \in Jobs |-> IF job[j].intent = "planned"
                                      THEN [job[j] EXCEPT !.intent = "failed"] ELSE job[j]]
    /\ Goto("configure")
    /\ UNCHANGED <<made, command, chatVars, active, signalled, lane, crashes, answers, survivors>>

\* No runtime, or no runnable profile, provider, model, endpoint or credential:
\* the refusal is recorded and no Job is created.
RefuseLaunch(outcome) ==
    /\ \/ At("runtime") /\ ~runtime /\ outcome = "failed"
       \/ At("configure") /\ outcome = "rejected"
    /\ command' = Recorded(launch.cmd, Row(launch.hash, outcome, NoJob))
    /\ Reply(outcome, NoJob, FALSE)
    /\ UNCHANGED <<made, job, chatVars, procVars, crashes, answers, survivors>>

\* A selected effort, a vault or a profile that cannot be read is an error: nothing is recorded.
LaunchErrs ==
    /\ At("configure")
    /\ Reply("error", NoJob, FALSE)
    /\ UNCHANGED <<made, job, command, chatVars, procVars, crashes, answers, survivors>>

CreateJob ==
    /\ At("configure") /\ made < MaxJobs
    /\ made' = made + 1
    /\ job' = [job EXCEPT ![made + 1].cmd = launch.cmd]
    /\ GotoWith("dispatch", made + 1)
    /\ UNCHANGED <<command, chatVars, procVars, crashes, answers, survivors>>

DispatchJob ==
    /\ At("dispatch")
    /\ job' = [job EXCEPT ![launch.job].attempt = "live"]
    /\ Goto(IF Chat THEN "prepare" ELSE "admit")
    /\ UNCHANGED <<made, command, chatVars, procVars, crashes, answers, survivors>>

\* prepare_chat_turn stages both Messages and reads the history.  Or it fails with the
\* Attempt, and nothing is recorded: a command is staged once, and a session id that no
\* identifier may be is only found out here.
PrepareTurn ==
    /\ At("prepare")
    /\ \/ /\ turn[launch.cmd] = NoRow
          /\ turn' = [turn EXCEPT ![launch.cmd] = [hash |-> launch.hash, job |-> launch.job]]
          /\ user' = [user EXCEPT ![launch.job] = "pending"]
          /\ assistant' = [assistant EXCEPT ![launch.job] = "pending"]
          /\ context' = [context EXCEPT ![launch.job] = History(launch.job)]
          /\ Goto("admit")
          /\ UNCHANGED job
       \/ /\ job' = [job EXCEPT ![launch.job].attempt = "ended"]
          /\ Reply("error", launch.job, FALSE)
          /\ UNCHANGED chatVars
    /\ UNCHANGED <<made, command, procVars, crashes, answers, survivors>>

\* The Call and its intent exist before the economic admission decides.
CreateCall ==
    /\ At("admit")
    /\ \/ job' = [job EXCEPT ![launch.job].intent = "planned"] /\ Goto("economy")
       \/ UNCHANGED job /\ Goto("discard")
    /\ UNCHANGED <<made, command, chatVars, procVars, crashes, answers, survivors>>

AdmitCall ==
    /\ At("economy")
    /\ \/ job' = [job EXCEPT ![launch.job].intent = "queued"] /\ Goto("accept")
       \/ job' = [job EXCEPT ![launch.job].intent = "failed"] /\ Goto("discard")
    /\ UNCHANGED <<made, command, chatVars, procVars, crashes, answers, survivors>>

Accept ==
    /\ At("accept")
    /\ AcceptTurn(launch.job)
    /\ Goto("send")
    /\ UNCHANGED <<made, job, assistant, context, turn, procVars, crashes, answers, survivors>>

Send ==
    /\ At("send")
    /\ \/ /\ lane' = lane \cup {launch.job}
          /\ signalled' = IF launch.cancelled THEN signalled \cup {launch.job} ELSE signalled
          /\ Goto("record")
          /\ UNCHANGED job
       \/ /\ job' = [job EXCEPT ![launch.job].intent = "failed"]
          /\ Goto("discard")
          /\ UNCHANGED <<lane, signalled>>
    /\ UNCHANGED <<made, command, chatVars, active, recovering, runtime, crashes, answers, survivors>>

\* discard_unaccepted_chat_turn
DiscardTurn ==
    /\ At("discard")
    /\ user' = IF user[launch.job] = "complete" THEN [user EXCEPT ![launch.job] = "deleted"] ELSE user
    /\ Goto("fail")
    /\ UNCHANGED <<made, job, command, assistant, context, turn, procVars, crashes, answers, survivors>>

FailAttempt ==
    /\ At("fail")
    /\ EndAttempt(launch.job, FALSE)
    /\ Goto("record_failed")
    /\ UNCHANGED <<made, command, context, turn, procVars, crashes, answers, survivors>>

RecordOutcome ==
    /\ At("record") \/ At("record_failed")
    /\ LET outcome == IF launch.step = "record" THEN "accepted" ELSE "failed"
           row == Row(launch.hash, outcome, launch.job)
       IN  /\ command' = Recorded(launch.cmd, row)
           /\ Reply(IF Conflicts(launch.cmd, row) THEN "error" ELSE outcome, launch.job, FALSE)
    /\ UNCHANGED <<made, job, chatVars, procVars, crashes, answers, survivors>>

Answer ==
    answers' = IF launch.outcome = "error" THEN answers
               ELSE [answers EXCEPT ![launch.cmd] =
                        @ \cup {[hash |-> launch.hash, outcome |-> launch.outcome, job |-> launch.job]}]

\* Mutation: the detached turn is dropped with the launch that failed.
NotLaunchedForgets ==
    /\ At("reply")
    /\ ~Chat \/ launch.outcome # "accepted" \/ launch.dup
    /\ active' = IF Chat /\ active # NoTurn /\ active.job = NoJob THEN NoTurn ELSE active
    /\ Answer
    /\ launch' = NoLaunch
    /\ UNCHANGED <<made, job, command, chatVars, signalled, lane, recovering, runtime, crashes, survivors>>

\* A plain launch returns; a chat that was not newly accepted gives its
\* registration up (discard_active_turn) and the detached turn its place back
\* (restore_active_turn).
NotLaunched ==
    /\ At("reply")
    /\ ~Chat \/ launch.outcome # "accepted" \/ launch.dup
    /\ LET left == IF Chat /\ active # NoTurn /\ active.job = NoJob THEN NoTurn ELSE active
       IN  active' = IF left = NoTurn THEN launch.previous ELSE left
    /\ Answer
    /\ launch' = NoLaunch
    /\ UNCHANGED <<made, job, command, chatVars, signalled, lane, recovering, runtime, crashes, survivors>>

\* The superseded turn is ended only once this launch is accepted.
Supersede ==
    /\ At("reply") /\ Chat /\ launch.outcome = "accepted" /\ ~launch.dup
    /\ Goto("publish")
    /\ IF launch.previous = NoTurn THEN UNCHANGED <<job, user, assistant, signalled>>
       ELSE /\ Revoke(launch.previous.job)
            /\ signalled' = signalled \cup ({launch.previous.job} \ {NoJob})
    /\ UNCHANGED <<made, command, context, turn, active, lane, recovering, runtime, crashes, answers, survivors>>

\* The Attempt is published on the registration, or ended if that is gone.
PublishTurn ==
    /\ At("publish")
    /\ IF launch.cancelled \/ active = NoTurn
       THEN Revoke(launch.job) /\ UNCHANGED active
       ELSE active' = [job |-> launch.job] /\ UNCHANGED <<job, user, assistant>>
    /\ Answer
    /\ launch' = NoLaunch
    /\ UNCHANGED <<made, command, context, turn, signalled, lane, recovering, runtime, crashes, survivors>>

-----------------------------------------------------------------------------
\* The session's clients, the workers, the recovery and the process.

\* cancel_chat_in_project takes the registration; cancel_chat_turn only if it
\* names the turn. A registration without an Attempt only has its token signalled.
CancelChat ==
    /\ active # NoTurn
    /\ active' = NoTurn
    /\ IF active.job = NoJob
       THEN /\ launch' = [launch EXCEPT !.cancelled = TRUE]
            /\ signalled' = IF launch.job \in lane THEN signalled \cup {launch.job} ELSE signalled
       ELSE UNCHANGED launch /\ signalled' = signalled \cup {active.job}
    /\ Revoke(active.job)
    /\ UNCHANGED <<made, command, context, turn, lane, recovering, runtime, crashes, answers, survivors>>

\* finish_chat and the reaping of expired tails: only a turn whose stream has ended.
ForgetChat ==
    /\ active # NoTurn /\ active.job # NoJob
    /\ ~Live(active.job)
    /\ active' = NoTurn
    /\ UNCHANGED <<made, job, command, chatVars, launch, signalled, lane, recovering, runtime, crashes, answers, survivors>>

\* A worker settles an envelope of a live Attempt, or drops one that was fenced.
Work(j, completed) ==
    /\ j \in lane
    /\ lane' = lane \ {j}
    /\ IF ~Live(j) THEN UNCHANGED <<job, user, assistant>>
       ELSE /\ completed => j \notin signalled
            /\ EndAttempt(j, completed)
    /\ UNCHANGED <<made, command, context, turn, launch, active, signalled, recovering, runtime, crashes, answers, survivors>>

\* Mutation: a recovered Call is handed off without accepting its turn.
RequeueUnaccepted(j) ==
    /\ j \in recovering /\ Live(j)
    /\ lane' = lane \cup {j}
    /\ recovering' = recovering \ {j}
    /\ UNCHANGED <<made, job, command, chatVars, launch, active, signalled, runtime, crashes, answers, survivors>>

\* requeue_recovered_provider_call; the producer gives up at the first Attempt that has ended.
Requeue(j) ==
    /\ j \in recovering
    /\ IF Live(j)
       THEN /\ AcceptTurn(j)
            /\ lane' = lane \cup {j}
            /\ recovering' = recovering \ {j}
       ELSE /\ recovering' = {}
            /\ UNCHANGED <<user, command, lane>>
    /\ UNCHANGED <<made, job, assistant, context, turn, launch, active, signalled, runtime, crashes, answers, survivors>>

Crash ==
    /\ crashes < MaxCrashes
    /\ crashes' = crashes + 1
    /\ launch' = NoLaunch /\ active' = NoTurn
    /\ signalled' = {} /\ lane' = {} /\ recovering' = {} /\ runtime' = FALSE
    /\ survivors' = survivors \cup {j \in Jobs : Live(j)}
    /\ UNCHANGED <<made, job, command, chatVars, answers>>

Next ==
    \/ \E c \in Commands, hash \in Contents : Register(c, hash)
    \/ LookupCommand \/ StartRuntime \/ \E o \in {"failed", "rejected"} : RefuseLaunch(o)
    \/ LaunchErrs \/ CreateJob \/ DispatchJob \/ PrepareTurn \/ CreateCall \/ AdmitCall
    \/ Accept \/ Send \/ DiscardTurn \/ FailAttempt \/ RecordOutcome
    \/ NotLaunched \/ Supersede \/ PublishTurn
    \/ CancelChat \/ ForgetChat
    \/ \E j \in Jobs : Requeue(j) \/ \E completed \in BOOLEAN : Work(j, completed)
    \/ Crash

Spec == Init /\ [][Next]_vars

-----------------------------------------------------------------------------
\* Properties.

\* Whether a Call was made for the Job.
Called(j) == job[j].intent # "none"

\* However often a chat command is sent, and wherever a crash or an error cut it off, a Call
\* is made for one Job of it: a retry may leave Jobs behind, but none that costs anything.
ChatsAreCalledOnce ==
    \A j, k \in Jobs : /\ Called(j) /\ Called(k)
                      /\ job[j].cmd = job[k].cmd /\ job[j].cmd \in ChatCommands
                      => j = k

\* A chat command whose staging was committed makes no further Job, however often it is
\* retried and wherever a crash interrupted it.
RetryMakesNoJob ==
    \A c \in ChatCommands :
        turn[c] # NoRow => \A j \in Jobs : job[j].cmd = c => j <= turn[c].job

\* No Message a provider was given as history is withdrawn afterwards, and no
\* turn that never became a fact is part of another's.
ContextIsNeverWithdrawn ==
    \A j \in Jobs : \A m \in context[j] : m[1] # j => State(m) = "complete"

\* An answer is kept only to a question that is: recovered turns included.
AnswersHaveTheirQuestion ==
    \A j \in Jobs : assistant[j] = "complete" => user[j] = "complete"

\* A turn that is live while nobody launches can be followed and cancelled
\* through its session, unless it outlived a crash: a launch that fails gives the session
\* back, and one that is cancelled halfway ends what it made.
LiveTurnsAreReachable ==
    launch = NoLaunch =>
        \A j \in Jobs : Live(j) /\ job[j].cmd \in ChatCommands /\ j \notin survivors
                            => Replayable(j)

\* A client told that its command was accepted may repeat it forever: no further
\* Job is made for it, in this process or after a crash.
AcceptedCommandsAreDone ==
    \A c \in Commands : \A a \in answers[c] :
        a.outcome = "accepted" => \A j \in Jobs : job[j].cmd = c => j <= a.job

\* What is promised of a command that is sent again, and of a session.
CommandsRunOnce == ChatsAreCalledOnce /\ RetryMakesNoJob /\ AcceptedCommandsAreDone
SessionsStayCoherent == ContextIsNeverWithdrawn /\ AnswersHaveTheirQuestion /\ LiveTurnsAreReachable

\* Refuted: try_claim_command_and_create_job's comment, exactly one Job per command and Project.
OneJobPerCommand ==
    \A j, k \in Jobs : job[j].cmd = job[k].cmd /\ job[j].cmd \in Commands => j = k

\* Refuted: also of a plain command no second Call is made.
CommandsAreCalledOnce ==
    \A j, k \in Jobs : /\ Called(j) /\ Called(k)
                      /\ job[j].cmd = job[k].cmd /\ job[j].cmd \in Commands
                      => j = k

\* lookup_launch_command's comment: staged messages of a turn answered as
\* interrupted remain non-complete and cannot enter context.
InterruptedTurnsStayOut ==
    \A c \in ChatCommands : \A a \in answers[c] :
        a.outcome = "failed" /\ a.job # NoJob => user[a.job] # "complete"
=============================================================================
