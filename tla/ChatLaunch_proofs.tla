--------------------------- MODULE ChatLaunch_proofs ---------------------------
(***************************************************************************)
(* Launch commands and chat turns, for any commands, requests, crashes and *)
(* number of Jobs: a chat command is called once, what a provider was told *)
(* is never withdrawn, answers have their questions and a live turn is     *)
(* followed through its session.                                           *)
(*                                                                         *)
(* The invariant comes in layers, each proved with the ones before it:     *)
(* types and the launcher's hold on the last Job, the records of commands, *)
(* the Messages of turns, and who holds a live turn.                       *)
(***************************************************************************)
EXTENDS ChatLaunch, TLAPS

Lifecycles == {"none", "pending", "complete", "failed", "deleted"}
JobRecords == [cmd : Commands \cup {NoRow}, attempt : {"none", "live", "ended"},
               intent : {"none", "planned", "queued", "failed", "done"}]

LaunchTypeOK ==
    /\ made \in Jobs \cup {NoJob}
    /\ job \in [Jobs -> JobRecords]
    /\ command \in [Commands -> Rows \cup {NoRow}]
    /\ turn \in [Commands -> TurnRows \cup {NoRow}]
    /\ user \in [Jobs -> Lifecycles] /\ assistant \in [Jobs -> Lifecycles]
    /\ context \in [Jobs -> SUBSET (Jobs \X {"user", "assistant"})]
    /\ launch \in Launches \cup {NoLaunch}
    /\ active \in Registrations \cup {NoTurn}
    /\ signalled \subseteq Jobs /\ lane \subseteq Jobs /\ recovering \subseteq Jobs
    /\ runtime \in BOOLEAN /\ crashes \in Nat
    /\ answers \in [Commands -> SUBSET Rows]
    /\ survivors \subseteq Jobs

---------------------------------------------------------------------------------
(* The launch: what it holds at each of its steps. *)

\* The steps with a Job of the launch's own: it is the last one made.
Making == {"dispatch", "prepare", "admit", "economy", "accept", "send", "discard", "fail",
           "record", "record_failed", "publish"}
\* Those before its Call is handed to a lane.
Unsent == Making \ {"record", "publish"}

LaunchStep(steps) == launch # NoLaunch /\ launch.step \in steps
NewlyAccepted == launch.outcome = "accepted" /\ ~launch.dup

\* A launch has a Job in hand from its creation until it is published or given up.
Holding == LaunchStep(Making) \/ (LaunchStep({"reply"}) /\ NewlyAccepted)
LaunchesJob(j) == Holding /\ launch.job = j /\ j # NoJob

\* The lock makes the launch's Job the last one, and it is a Job of its command.
LaunchHoldsLast ==
    /\ Holding => launch.job = made /\ made # NoJob
    /\ LaunchStep({"lookup", "runtime", "configure"}) => launch.job = NoJob
    /\ LaunchStep({"publish"}) => Chat /\ NewlyAccepted
    /\ LaunchStep({"prepare"}) => Chat
    /\ LaunchStep({"reply"}) => launch.outcome # "none"
    /\ \A j \in Jobs : LaunchesJob(j) => j = made /\ job[j].cmd = launch.cmd

\* A registration without a Job is a chat launch's under way, and goes when it is cancelled.
RegistrationFollows ==
    /\ active = [job |-> NoJob] => launch # NoLaunch /\ Chat
    /\ launch # NoLaunch /\ Chat => active = IF launch.cancelled THEN NoTurn ELSE [job |-> NoJob]
    /\ launch # NoLaunch /\ ~Chat => launch.previous = NoTurn /\ ~launch.cancelled
    /\ launch # NoLaunch => launch.previous # [job |-> NoJob]

\* Jobs are made in order; one not yet made has no state, and one not yet sent is in no queue.
JobsInOrder ==
    /\ \A j \in Jobs : job[j].cmd # NoRow <=> j <= made
    /\ \A j \in Jobs : j > made \/ (LaunchesJob(j) /\ launch.step = "dispatch") =>
            job[j].attempt = "none" /\ job[j].intent = "none"
    /\ \A j \in Jobs : j > made \/ (LaunchesJob(j) /\ launch.step \in {"dispatch", "prepare"}) =>
            user[j] = "none" /\ assistant[j] = "none"
    /\ \A j \in lane \cup recovering : j <= made /\ ~(LaunchesJob(j) /\ launch.step \in Unsent)

LaunchInv == LaunchHoldsLast /\ RegistrationFollows /\ JobsInOrder

---------------------------------------------------------------------------------
(* The records of commands. *)

\* Every Job of the command is at most the one named.
LastOf(c, k) == \A j \in Jobs : job[j].cmd = c => j <= k

\* A launch that got as far as its Job found no record, and no turn.
LaunchFindsNothing ==
    LaunchStep({"runtime", "configure", "dispatch", "prepare"}) =>
        command[launch.cmd] = NoRow /\ turn[launch.cmd] = NoRow

\* It writes its own.
LaunchWritesItsOwn ==
    Holding /\ command[launch.cmd] # NoRow =>
        command[launch.cmd].hash = launch.hash /\ command[launch.cmd].job = launch.job

\* A chat's turn is staged under its request and its Job.
LaunchStagesItsTurn ==
    Holding /\ ~LaunchStep({"dispatch", "prepare"}) /\ Chat =>
        turn[launch.cmd] = [hash |-> launch.hash, job |-> launch.job]

\* What is staged, recorded, answered or told as accepted is the command's last Job, for good.
TurnsAreLast ==
    \A c \in Commands : turn[c] # NoRow =>
        c \in ChatCommands /\ job[turn[c].job].cmd = c /\ LastOf(c, turn[c].job)

RecordsAreLast ==
    \A c \in Commands : command[c] # NoRow /\ command[c].outcome = "accepted" =>
        LastOf(c, command[c].job)

RepliesAreLast ==
    LaunchStep({"reply", "publish"}) /\ launch.outcome = "accepted" =>
        command[launch.cmd] # NoRow /\ LastOf(launch.cmd, launch.job)

AnswersAreLast ==
    \A c \in Commands : \A a \in answers[c] :
        a.outcome = "accepted" => command[c] # NoRow /\ LastOf(c, a.job)

CommandInv ==
    /\ LaunchFindsNothing /\ LaunchWritesItsOwn /\ LaunchStagesItsTurn
    /\ TurnsAreLast /\ RecordsAreLast /\ RepliesAreLast /\ AnswersAreLast

---------------------------------------------------------------------------------
(* Messages. *)

\* Both Messages of a turn are staged together, under the turn's row.
StagedTogether ==
    \A j \in Jobs :
        /\ assistant[j] = "none" <=> user[j] = "none"
        /\ assistant[j] # "none" => turn[job[j].cmd] # NoRow /\ turn[job[j].cmd].job = j

\* A live turn's answer is open, and its question did not fail.
LiveIsOpen ==
    \A j \in Jobs : Live(j) => assistant[j] \in {"none", "pending"} /\ user[j] # "failed"

\* A question is withdrawn only before its Call is queued, and by the launch that fails.
WithdrawnIsUnqueued ==
    /\ \A j \in Jobs : Live(j) /\ user[j] = "deleted" => job[j].intent # "queued"
    /\ LaunchStep({"dispatch", "prepare", "admit", "economy", "discard"}) => job[made].intent # "queued"
    /\ LaunchStep(Unsent \ {"fail", "record_failed"}) => user[made] # "deleted"

\* An answer comes after the handoff, and a question is a fact before it.
UnsentIsUnanswered ==
    /\ LaunchStep(Unsent) => assistant[made] # "complete"
    /\ LaunchStep({"send"}) /\ Live(made) /\ assistant[made] # "none" => user[made] = "complete"

\* What a lane holds is a question that is a fact; what the recovery holds is queued.
QueuesAreFacts ==
    /\ \A j \in lane : Live(j) /\ assistant[j] # "none" => user[j] = "complete"
    /\ \A j \in recovering : Live(j) => job[j].intent = "queued"

\* A Call is given Messages of earlier turns and its own question.
ContextIsEarlier ==
    /\ \A j \in Jobs : \A m \in context[j] : m[1] <= j /\ j <= made
    /\ LaunchStep({"dispatch", "prepare"}) => context[made] = {}

MessageInv ==
    /\ StagedTogether /\ LiveIsOpen /\ WithdrawnIsUnqueued /\ UnsentIsUnanswered
    /\ QueuesAreFacts /\ AnswersHaveTheirQuestion
    /\ ContextIsEarlier /\ ContextIsNeverWithdrawn

---------------------------------------------------------------------------------
(* Who holds a live turn. *)

\* A live turn of this process is the registration's, or is being launched, or was
\* detached by the launch under way.
Held(j) ==
    \/ active = [job |-> j]
    \/ LaunchesJob(j) /\ Chat
    \/ launch # NoLaunch /\ Chat /\ launch.step # "publish" /\ launch.previous = [job |-> j]

\* A live turn of this process.
LiveTurn(j) == Live(j) /\ job[j].cmd \in ChatCommands /\ j \notin survivors

HoldInv ==
    /\ \A j \in Jobs : LiveTurn(j) => Held(j)
    \* It is staged, once the launch is past staging it.
    /\ \A j \in Jobs : LiveTurn(j) =>
            assistant[j] = "pending" \/ (LaunchesJob(j) /\ launch.step = "prepare")
    \* A launch that gave its Job up has ended it.
    /\ LaunchStep({"record_failed"}) => ~Live(made)

---------------------------------------------------------------------------------
(* What ending an Attempt does, Job by Job. *)

\* The turn of Job k after it has ended, its Message open or already closed.
Ended(k, completed) ==
    /\ job'[k].cmd = job[k].cmd /\ job'[k].attempt = "ended"
    /\ job'[k].intent = IntentEnds(job[k].intent, completed)
    /\ assistant'[k] = Becomes(assistant[k], IF completed THEN "complete" ELSE "failed")
    /\ user'[k] = IF completed THEN user[k] ELSE Becomes(user[k], "failed")

Untouched(k) == job'[k] = job[k] /\ assistant'[k] = assistant[k] /\ user'[k] = user[k]

JobsTypeOK ==
    /\ job \in [Jobs -> JobRecords]
    /\ user \in [Jobs -> Lifecycles] /\ assistant \in [Jobs -> Lifecycles]

\* A Message's next state is one of its states.
LEMMA BecomesTyped ==
    ASSUME NEW state \in Lifecycles, NEW next \in Lifecycles
    PROVE  Becomes(state, next) \in Lifecycles
BY DEF Becomes

\* Ending an Attempt ends its Job's turn and touches no other.
LEMMA EndAttemptEnds ==
    ASSUME JobsTypeOK, NEW j \in Jobs, NEW completed \in BOOLEAN, EndAttempt(j, completed)
    PROVE  JobsTypeOK' /\ Ended(j, completed) /\ \A k \in Jobs \ {j} : Untouched(k)
<1> DEFINE next == IF completed THEN "complete" ELSE "failed"
<1>1. job' = [job EXCEPT ![j] = [@ EXCEPT !.attempt = "ended",
                                          !.intent = IntentEnds(job[j].intent, completed)]]
  BY DEF EndAttempt
<1>2. /\ assistant' = [assistant EXCEPT ![j] = Becomes(assistant[j], next)]
      /\ user' = IF completed THEN user ELSE [user EXCEPT ![j] = Becomes(user[j], "failed")]
  BY DEF EndAttempt, SettleTurn
<1>3. next \in Lifecycles /\ "failed" \in Lifecycles
  BY DEF Lifecycles
<1>4. Becomes(assistant[j], next) \in Lifecycles /\ Becomes(user[j], "failed") \in Lifecycles
  BY <1>3, BecomesTyped DEF JobsTypeOK
<1> HIDE DEF next
<1>5. job' \in [Jobs -> JobRecords]
  BY <1>1 DEF JobsTypeOK, JobRecords, IntentEnds
<1>6. user' \in [Jobs -> Lifecycles] /\ assistant' \in [Jobs -> Lifecycles]
  BY <1>2, <1>4 DEF JobsTypeOK
<1>7. Ended(j, completed)
  <2>1. /\ job'[j].cmd = job[j].cmd /\ job'[j].attempt = "ended"
        /\ job'[j].intent = IntentEnds(job[j].intent, completed)
    BY <1>1 DEF JobsTypeOK, JobRecords
  <2>2. /\ assistant'[j] = Becomes(assistant[j], next)
        /\ user'[j] = IF completed THEN user[j] ELSE Becomes(user[j], "failed")
    BY <1>2 DEF JobsTypeOK
  <2> QED
    BY <2>1, <2>2 DEF Ended, next
<1>8. \A k \in Jobs \ {j} : Untouched(k)
  BY <1>1, <1>2 DEF JobsTypeOK, Untouched
<1> QED
  BY <1>5, <1>6, <1>7, <1>8 DEF JobsTypeOK

\* Revoking ends what is live.
LEMMA RevokeEnds ==
    ASSUME JobsTypeOK, NEW j \in Jobs \cup {NoJob}, Revoke(j)
    PROVE  /\ JobsTypeOK'
           /\ \A k \in Jobs : IF k = j /\ Live(k) THEN Ended(k, FALSE) ELSE Untouched(k)
<1>1. CASE j # NoJob /\ Live(j)
  <2>1. EndAttempt(j, FALSE)
    BY <1>1 DEF Revoke
  <2> QED
    BY <1>1, <2>1, EndAttemptEnds
<1>2. CASE ~(j # NoJob /\ Live(j))
  <2>1. UNCHANGED <<job, user, assistant>>
    BY <1>2 DEF Revoke
  <2>2. \A k \in Jobs : ~(k = j /\ Live(k))
    BY <1>2 DEF Jobs, NoJob
  <2> QED
    BY <2>1, <2>2 DEF Untouched, JobsTypeOK
<1> QED
  BY <1>1, <1>2

\* The question of Job j is a fact and its command accepted, if it is the command's turn.
TurnAccepted(j) ==
    /\ user' \in [Jobs -> Lifecycles] /\ command' \in [Commands -> Rows \cup {NoRow}]
    /\ \A k \in Jobs \ {j} : user'[k] = user[k]
    /\ \A c \in Commands :
         \/ command'[c] = command[c]
         \/ /\ c = job[j].cmd /\ c \in ChatCommands /\ command[c] = NoRow
            /\ turn[c] # NoRow /\ turn[c].job = j
            /\ command'[c] = Row(turn[c].hash, "accepted", j)
    /\ IF job[j].cmd \in ChatCommands /\ turn[job[j].cmd] # NoRow /\ turn[job[j].cmd].job = j
       THEN user'[j] = Becomes(user[j], "complete") ELSE user'[j] = user[j]

\* Accepting a turn does no more.
LEMMA AcceptTurnAccepts ==
    ASSUME LaunchAssumption, LaunchTypeOK, NEW j \in Jobs, AcceptTurn(j)
    PROVE  TurnAccepted(j)
<1> DEFINE c == job[j].cmd
<1>1. CASE c \in ChatCommands /\ turn[c] # NoRow /\ turn[c].job = j
  <2>1. /\ user' = [user EXCEPT ![j] = Becomes(user[j], "complete")]
        /\ command' = IF command[c] = NoRow
                      THEN [command EXCEPT ![c] = Row(turn[c].hash, "accepted", j)] ELSE command
    BY <1>1 DEF AcceptTurn
  <2>2. Becomes(user[j], "complete") \in Lifecycles
    BY BecomesTyped DEF LaunchTypeOK, Lifecycles
  <2>3. c \in Commands /\ turn[c] \in TurnRows
    BY <1>1 DEF LaunchAssumption, LaunchTypeOK
  <2>4. Row(turn[c].hash, "accepted", j) \in Rows
    BY <2>3 DEF Row, Rows, TurnRows, Outcomes
  <2> HIDE DEF c
  <2>5. /\ user' \in [Jobs -> Lifecycles] /\ \A k \in Jobs \ {j} : user'[k] = user[k]
        /\ user'[j] = Becomes(user[j], "complete")
    BY <2>1, <2>2 DEF LaunchTypeOK
  <2>6. /\ command' \in [Commands -> Rows \cup {NoRow}]
        /\ \A d \in Commands : command'[d] = command[d] \/
              (d = c /\ command[c] = NoRow /\ command'[d] = Row(turn[d].hash, "accepted", j))
    BY <2>1, <2>3, <2>4 DEF LaunchTypeOK
  <2> QED
    BY <1>1, <2>5, <2>6 DEF c, TurnAccepted
<1>2. CASE ~(c \in ChatCommands /\ turn[c] # NoRow /\ turn[c].job = j)
  <2>1. UNCHANGED <<user, command>>
    BY <1>2 DEF AcceptTurn
  <2> QED
    BY <1>2, <2>1 DEF LaunchTypeOK, TurnAccepted
<1> QED
  BY <1>1, <1>2

---------------------------------------------------------------------------------
(* How a launch moves. *)

\* The launch goes on at step, with Job j, an outcome and whether it repeats a command.
Moves(step, j, outcome, dup) ==
    /\ launch' \in Launches /\ launch' # NoLaunch
    /\ launch'.cmd = launch.cmd /\ launch'.hash = launch.hash
    /\ launch'.cancelled = launch.cancelled /\ launch'.previous = launch.previous
    /\ launch'.step = step /\ launch'.job = j /\ launch'.outcome = outcome /\ launch'.dup = dup

\* A launch at a step is a launch.
LEMMA LaunchIsTyped ==
    ASSUME LaunchTypeOK, launch # NoLaunch
    PROVE  /\ launch \in Launches /\ launch.cmd \in Commands /\ launch.hash \in Contents
           /\ launch.step \in Steps /\ launch.job \in Jobs \cup {NoJob}
           /\ launch.outcome \in Outcomes \cup {"none", "error"} /\ launch.dup \in BOOLEAN
           /\ launch.cancelled \in BOOLEAN /\ launch.previous \in Registrations \cup {NoTurn}
BY DEF LaunchTypeOK, Launches

\* The next transaction.
LEMMA GotoMoves ==
    ASSUME LaunchAssumption, LaunchTypeOK, launch # NoLaunch, NEW step \in Steps, Goto(step)
    PROVE  Moves(step, launch.job, launch.outcome, launch.dup)
<1>1. launch \in Launches
  BY LaunchIsTyped
<1>2. launch' = [launch EXCEPT !.step = step]
  BY DEF Goto
<1>3. launch' \in Launches
  BY <1>1, <1>2 DEF Launches
<1>4. launch' # NoLaunch
  BY <1>3 DEF LaunchAssumption
<1> QED
  BY <1>1, <1>2, <1>3, <1>4 DEF Moves, Launches

\* The next transaction, with the Job just made.
LEMMA GotoWithMoves ==
    ASSUME LaunchAssumption, LaunchTypeOK, launch # NoLaunch, NEW step \in Steps, NEW j \in Jobs,
           GotoWith(step, j)
    PROVE  Moves(step, j, launch.outcome, launch.dup)
<1>1. launch \in Launches
  BY LaunchIsTyped
<1>2. launch' = [launch EXCEPT !.step = step, !.job = j]
  BY DEF GotoWith
<1>3. launch' \in Launches
  BY <1>1, <1>2 DEF Launches
<1>4. launch' # NoLaunch
  BY <1>3 DEF LaunchAssumption
<1> QED
  BY <1>1, <1>2, <1>3, <1>4 DEF Moves, Launches

\* The reply.
LEMMA ReplyMoves ==
    ASSUME LaunchAssumption, LaunchTypeOK, launch # NoLaunch,
           NEW outcome \in Outcomes \cup {"error"}, NEW j \in Jobs \cup {NoJob}, NEW dup \in BOOLEAN,
           Reply(outcome, j, dup)
    PROVE  Moves("reply", j, outcome, dup)
<1>1. launch \in Launches
  BY LaunchIsTyped
<1>2. launch' = [launch EXCEPT !.step = "reply", !.job = j, !.outcome = outcome, !.dup = dup]
  BY DEF Reply
<1>3. launch' \in Launches
  BY <1>1, <1>2 DEF Launches, Steps
<1>4. launch' # NoLaunch
  BY <1>3 DEF LaunchAssumption
<1> QED
  BY <1>1, <1>2, <1>3, <1>4 DEF Moves, Launches

---------------------------------------------------------------------------------
(* What each action does, variable by variable. *)

\* Taking the lock; a chat launch takes the session's registration too.
RegisterEffect(c, hash) ==
    /\ launch = NoLaunch /\ launch' \in Launches /\ launch' # NoLaunch
    /\ launch'.cmd = c /\ launch'.hash = hash /\ launch'.step = "lookup"
    /\ launch'.job = NoJob /\ launch'.outcome = "none"
    /\ launch'.dup = FALSE /\ launch'.cancelled = FALSE
    /\ launch'.previous = IF c \in ChatCommands THEN active ELSE NoTurn
    /\ active' = IF c \in ChatCommands THEN [job |-> NoJob] ELSE active
    /\ active' \in Registrations \cup {NoTurn}
    /\ UNCHANGED <<made, job, command, user, assistant, context, turn, signalled, lane,
                   recovering, runtime, crashes, answers, survivors>>

\* The effect of Register.
LEMMA RegisterDoes ==
    ASSUME LaunchAssumption, LaunchTypeOK, NEW c \in Commands, NEW hash \in Contents, Register(c, hash)
    PROVE  RegisterEffect(c, hash)
<1> USE DEF RegisterEffect
<1> DEFINE previous == IF c \in ChatCommands THEN active ELSE NoTurn
<1>1. /\ launch = NoLaunch
      /\ launch' = [cmd |-> c, hash |-> hash, step |-> "lookup", job |-> NoJob, outcome |-> "none",
                    dup |-> FALSE, cancelled |-> FALSE, previous |-> previous]
  BY DEF Register
<1>2. previous \in Registrations \cup {NoTurn}
  BY DEF LaunchTypeOK
<1> HIDE DEF previous
<1>3. launch' \in Launches
  BY <1>1, <1>2 DEF Launches, Steps, Outcomes
<1>4. launch' # NoLaunch
  BY <1>3 DEF LaunchAssumption
<1>5. active' \in Registrations \cup {NoTurn}
  BY DEF Register, LaunchTypeOK, Registrations
<1> QED
  BY <1>1, <1>3, <1>4, <1>5 DEF Register, chatVars, previous

\* The lookup finds nothing, a record of another request, or what to answer.
LookupEffect ==
    /\ launch # NoLaunch /\ launch.step = "lookup"
    /\ \/ /\ command[launch.cmd] = NoRow /\ turn[launch.cmd] = NoRow
          /\ Moves("runtime", launch.job, launch.outcome, launch.dup)
       \/ Moves("reply", NoJob, "rejected", FALSE)
       \/ /\ command[launch.cmd] # NoRow
          /\ Moves("reply", command[launch.cmd].job, command[launch.cmd].outcome, TRUE)
       \/ \E j \in Jobs : Moves("reply", j, "failed", TRUE)
    /\ UNCHANGED <<made, job, command, user, assistant, context, turn, active, signalled, lane,
                   recovering, runtime, crashes, answers, survivors>>

\* The effect of Lookup.
LEMMA LookupDoes ==
    ASSUME LaunchAssumption, LaunchTypeOK, LookupCommand
    PROVE  LookupEffect
<1> USE DEF LookupEffect
<1> DEFINE c == launch.cmd
           row == Lookup(c)
<1>1. launch # NoLaunch /\ launch.step = "lookup" /\ c \in Commands
  BY LaunchIsTyped DEF LookupCommand, At
<1>2. command[c] \in Rows \cup {NoRow} /\ turn[c] \in TurnRows \cup {NoRow}
  BY <1>1 DEF LaunchTypeOK
<1>3. /\ command[c] # NoRow => row = command[c] /\ row \in Rows
      /\ command[c] = NoRow /\ turn[c] # NoRow =>
            row = Row(turn[c].hash, "failed", turn[c].job) /\ turn[c].job \in Jobs
      /\ command[c] = NoRow /\ turn[c] = NoRow => row = NoRow
  BY <1>2 DEF Lookup, TurnRows
<1>4. UNCHANGED <<made, job, command, user, assistant, context, turn, active, signalled, lane,
                  recovering, runtime, crashes, answers, survivors>>
  BY DEF LookupCommand, chatVars, procVars
<1>5. IF row = NoRow THEN Goto("runtime")
      ELSE IF row.hash # launch.hash THEN Reply("rejected", NoJob, FALSE)
      ELSE Reply(row.outcome, row.job, TRUE)
  BY DEF LookupCommand
<1> HIDE DEF row
<1>6. CASE row = NoRow
  <2>1. "runtime" \in Steps /\ Goto("runtime")
    BY <1>5, <1>6 DEF Steps
  <2>2. Moves("runtime", launch.job, launch.outcome, launch.dup)
    BY <1>1, <2>1, GotoMoves
  <2>3. command[c] = NoRow /\ turn[c] = NoRow
    BY <1>2, <1>3, <1>6 DEF LaunchAssumption, Row, TurnRows, Rows, Outcomes
  <2> QED
    BY <1>1, <1>4, <2>2, <2>3
<1>7. CASE row # NoRow /\ row.hash # launch.hash
  <2>1. Reply("rejected", NoJob, FALSE) /\ "rejected" \in Outcomes \cup {"error"} /\ NoJob \in Jobs \cup {NoJob}
    BY <1>5, <1>7 DEF Outcomes
  <2> QED
    BY <1>1, <1>4, <2>1, ReplyMoves
<1>8. CASE row # NoRow /\ row.hash = launch.hash
  <2>1. Reply(row.outcome, row.job, TRUE)
    BY <1>5, <1>8
  <2>2. CASE command[c] # NoRow
    <3>1. row.outcome \in Outcomes \cup {"error"} /\ row.job \in Jobs \cup {NoJob} /\ row = command[c]
      BY <1>3, <2>2 DEF Rows
    <3> QED
      BY <1>1, <1>4, <2>1, <2>2, <3>1, ReplyMoves
  <2>3. CASE command[c] = NoRow
    <3>1. turn[c] # NoRow /\ row = Row(turn[c].hash, "failed", turn[c].job) /\ turn[c].job \in Jobs
      BY <1>3, <1>8, <2>3
    <3>2. row.outcome = "failed" /\ row.job = turn[c].job
      BY <3>1 DEF Row
    <3>3. Reply("failed", turn[c].job, TRUE) /\ "failed" \in Outcomes \cup {"error"} /\ turn[c].job \in Jobs
      BY <2>1, <3>1, <3>2 DEF Outcomes
    <3> HIDE DEF c
    <3>4. Moves("reply", turn[c].job, "failed", TRUE)
      BY <1>1, <3>3, ReplyMoves DEF c
    <3> QED
      BY <1>1, <1>4, <3>3, <3>4
  <2> QED
    BY <2>2, <2>3
<1> QED
  BY <1>6, <1>7, <1>8

\* The Attempt or intent of Job j moves, and nothing else of the Jobs.
JobMoves(j, attempt, intent) ==
    /\ job' \in [Jobs -> JobRecords]
    /\ job'[j].cmd = job[j].cmd /\ job'[j].attempt = attempt /\ job'[j].intent = intent
    /\ \A k \in Jobs \ {j} : job'[k] = job[k]

\* An Attempt that starts or ends.
LEMMA AttemptMoves ==
    ASSUME LaunchTypeOK, NEW j \in Jobs, NEW attempt \in {"live", "ended"},
           job' = [job EXCEPT ![j].attempt = attempt]
    PROVE  JobMoves(j, attempt, job[j].intent)
<1>1. job' = [job EXCEPT ![j] = [job[j] EXCEPT !.attempt = attempt]]
  OBVIOUS
<1> QED
  BY <1>1 DEF LaunchTypeOK, JobRecords, JobMoves

\* An intent that is planned, queued or given up.
LEMMA IntentMoves ==
    ASSUME LaunchTypeOK, NEW j \in Jobs, NEW intent \in {"planned", "queued", "failed"},
           job' = [job EXCEPT ![j].intent = intent]
    PROVE  JobMoves(j, job[j].attempt, intent)
<1>1. job' = [job EXCEPT ![j] = [job[j] EXCEPT !.intent = intent]]
  OBVIOUS
<1> QED
  BY <1>1 DEF LaunchTypeOK, JobRecords, JobMoves

\* The runtime is up; a new one ends what was planned and takes over what was queued.
StartRuntimeEffect ==
    /\ launch # NoLaunch /\ launch.step = "runtime"
    /\ Moves("configure", launch.job, launch.outcome, launch.dup)
    /\ job' \in [Jobs -> JobRecords] /\ recovering' \subseteq Jobs /\ runtime' = TRUE
    /\ \A k \in Jobs : \/ job'[k] = job[k]
                       \/ /\ job[k].intent = "planned" /\ job'[k].intent = "failed"
                          /\ job'[k].cmd = job[k].cmd /\ job'[k].attempt = job[k].attempt
    /\ \/ recovering' = recovering /\ job' = job
       \/ recovering' = {k \in Jobs : job[k].intent = "queued"}
    /\ UNCHANGED <<made, command, user, assistant, context, turn, active, signalled, lane,
                   crashes, answers, survivors>>

\* The effect of StartRuntime.
LEMMA StartRuntimeDoes ==
    ASSUME LaunchAssumption, LaunchTypeOK, StartRuntime
    PROVE  StartRuntimeEffect
<1> USE DEF StartRuntimeEffect
<1>1. launch # NoLaunch /\ launch.step = "runtime" /\ Goto("configure") /\ "configure" \in Steps
  BY DEF StartRuntime, At, Steps
<1>2. Moves("configure", launch.job, launch.outcome, launch.dup)
  BY <1>1, GotoMoves
<1>3. UNCHANGED <<made, command, user, assistant, context, turn, active, signalled, lane,
                  crashes, answers, survivors>> /\ runtime' = TRUE
  BY DEF StartRuntime, chatVars
<1>4. CASE runtime
  <2>1. UNCHANGED <<job, recovering>>
    BY <1>4 DEF StartRuntime
  <2> QED
    BY <1>1, <1>2, <1>3, <2>1 DEF LaunchTypeOK
<1>5. CASE ~runtime
  <2>1. /\ recovering' = {k \in Jobs : job[k].intent = "queued"}
        /\ job' = [k \in Jobs |-> IF job[k].intent = "planned"
                                  THEN [job[k] EXCEPT !.intent = "failed"] ELSE job[k]]
    BY <1>5 DEF StartRuntime
  <2>2. ASSUME NEW k \in Jobs
        PROVE  /\ job'[k] \in JobRecords
               /\ \/ job'[k] = job[k]
                  \/ /\ job[k].intent = "planned" /\ job'[k].intent = "failed"
                     /\ job'[k].cmd = job[k].cmd /\ job'[k].attempt = job[k].attempt
    <3>1. job'[k] = IF job[k].intent = "planned" THEN [job[k] EXCEPT !.intent = "failed"] ELSE job[k]
      BY <2>1
    <3>2. job[k] \in JobRecords
      BY DEF LaunchTypeOK
    <3> QED
      BY <3>1, <3>2 DEF JobRecords
  <2>3. job' = [k \in Jobs |-> job'[k]]
    BY <2>1
  <2>4. job' \in [Jobs -> JobRecords]
    BY <2>2, <2>3
  <2> QED
    BY <1>1, <1>2, <1>3, <2>1, <2>2, <2>4
<1> QED
  BY <1>4, <1>5

\* A refusal is recorded with no Job, unless a record says otherwise.
RefuseLaunchEffect(outcome) ==
    /\ launch # NoLaunch /\ launch.step \in {"runtime", "configure"}
    /\ Moves("reply", NoJob, outcome, FALSE)
    /\ command' \in [Commands -> Rows \cup {NoRow}]
    /\ \A c \in Commands : \/ command'[c] = command[c]
                           \/ c = launch.cmd /\ command'[c] = Row(launch.hash, outcome, NoJob)
    /\ UNCHANGED <<made, job, user, assistant, context, turn, active, signalled, lane,
                   recovering, runtime, crashes, answers, survivors>>

\* The effect of RefuseLaunch.
LEMMA RefuseLaunchDoes ==
    ASSUME LaunchAssumption, LaunchTypeOK, NEW outcome \in {"failed", "rejected"}, RefuseLaunch(outcome)
    PROVE  RefuseLaunchEffect(outcome)
<1> USE DEF RefuseLaunchEffect
<1> DEFINE row == Row(launch.hash, outcome, NoJob)
<1>1. launch # NoLaunch /\ launch.step \in {"runtime", "configure"}
  BY DEF RefuseLaunch, At
<1>2. Reply(outcome, NoJob, FALSE) /\ outcome \in Outcomes \cup {"error"} /\ NoJob \in Jobs \cup {NoJob}
  BY DEF RefuseLaunch, Outcomes
<1>3. Moves("reply", NoJob, outcome, FALSE)
  BY <1>1, <1>2, ReplyMoves
<1>4. row \in Rows
  BY <1>1, LaunchIsTyped DEF Row, Rows, Outcomes
<1>5. command' = command \/ command' = [command EXCEPT ![launch.cmd] = row]
  BY DEF RefuseLaunch, Recorded
<1> HIDE DEF row
<1>6. /\ command' \in [Commands -> Rows \cup {NoRow}]
      /\ \A c \in Commands : command'[c] = command[c] \/ (c = launch.cmd /\ command'[c] = row)
  BY <1>4, <1>5 DEF LaunchTypeOK
<1> QED
  BY <1>1, <1>3, <1>6 DEF RefuseLaunch, chatVars, procVars, row

\* An error is answered and nothing recorded.
LaunchErrsEffect ==
    /\ launch # NoLaunch /\ launch.step = "configure"
    /\ Moves("reply", NoJob, "error", FALSE)
    /\ UNCHANGED <<made, job, command, user, assistant, context, turn, active, signalled, lane,
                   recovering, runtime, crashes, answers, survivors>>

\* The effect of LaunchErrs.
LEMMA LaunchErrsDoes ==
    ASSUME LaunchAssumption, LaunchTypeOK, LaunchErrs
    PROVE  LaunchErrsEffect
<1> USE DEF LaunchErrsEffect
<1>1. launch # NoLaunch /\ launch.step = "configure" /\ Reply("error", NoJob, FALSE)
  BY DEF LaunchErrs, At
<1>2. Moves("reply", NoJob, "error", FALSE)
  BY <1>1, ReplyMoves
<1> QED
  BY <1>1, <1>2 DEF LaunchErrs, chatVars, procVars

\* The next Job is the launch's.
CreateJobEffect ==
    /\ launch # NoLaunch /\ launch.step = "configure"
    /\ made' = made + 1 /\ made \in 0..MaxJobs /\ made' \in Jobs
    /\ Moves("dispatch", made', launch.outcome, launch.dup)
    /\ job' \in [Jobs -> JobRecords]
    /\ job'[made'].cmd = launch.cmd /\ job'[made'].attempt = job[made'].attempt
    /\ job'[made'].intent = job[made'].intent
    /\ \A k \in Jobs \ {made'} : job'[k] = job[k]
    /\ UNCHANGED <<command, user, assistant, context, turn, active, signalled, lane,
                   recovering, runtime, crashes, answers, survivors>>

\* The effect of CreateJob.
LEMMA CreateJobDoes ==
    ASSUME LaunchAssumption, LaunchTypeOK, CreateJob
    PROVE  CreateJobEffect
<1> USE DEF CreateJobEffect
<1>1. launch # NoLaunch /\ launch.step = "configure" /\ made < MaxJobs /\ made' = made + 1
  BY DEF CreateJob, At
<1>2. made \in 0..MaxJobs /\ made' \in Jobs /\ MaxJobs \in Nat
  BY <1>1 DEF LaunchAssumption, LaunchTypeOK, Jobs, NoJob
<1>3. GotoWith("dispatch", made') /\ "dispatch" \in Steps
  BY <1>1 DEF CreateJob, Steps
<1>4. Moves("dispatch", made', launch.outcome, launch.dup)
  BY <1>1, <1>2, <1>3, GotoWithMoves
<1>5. job' = [job EXCEPT ![made'] = [job[made'] EXCEPT !.cmd = launch.cmd]]
  BY <1>1 DEF CreateJob
<1>6. launch.cmd \in Commands
  BY <1>1, LaunchIsTyped
<1>7. /\ job' \in [Jobs -> JobRecords]
      /\ job'[made'].cmd = launch.cmd /\ job'[made'].attempt = job[made'].attempt
      /\ job'[made'].intent = job[made'].intent
      /\ \A k \in Jobs \ {made'} : job'[k] = job[k]
  BY <1>2, <1>5, <1>6 DEF LaunchTypeOK, JobRecords
<1> QED
  BY <1>1, <1>2, <1>4, <1>7 DEF CreateJob, chatVars, procVars

\* A launch that has made its Job has it in hand.
LEMMA HasItsJob ==
    ASSUME LaunchAssumption, LaunchTypeOK, LaunchHoldsLast, LaunchStep(Making)
    PROVE  launch # NoLaunch /\ launch.job = made /\ made \in Jobs /\ launch.job \in Jobs
BY DEF LaunchHoldsLast, Holding, LaunchTypeOK, LaunchStep

\* The Job has an Attempt.
DispatchJobEffect ==
    /\ launch # NoLaunch /\ launch.step = "dispatch" /\ launch.job = made /\ made \in Jobs
    /\ Moves(IF Chat THEN "prepare" ELSE "admit", made, launch.outcome, launch.dup)
    /\ JobMoves(made, "live", job[made].intent)
    /\ UNCHANGED <<made, command, user, assistant, context, turn, active, signalled, lane,
                   recovering, runtime, crashes, answers, survivors>>

\* The effect of DispatchJob.
LEMMA DispatchJobDoes ==
    ASSUME LaunchAssumption, LaunchTypeOK, LaunchHoldsLast, DispatchJob
    PROVE  DispatchJobEffect
<1> USE DEF DispatchJobEffect
<1>1. launch # NoLaunch /\ launch.step = "dispatch"
  BY DEF DispatchJob, At
<1>2. launch.job = made /\ made \in Jobs
  BY <1>1, HasItsJob DEF LaunchStep, Making
<1>3. Goto(IF Chat THEN "prepare" ELSE "admit") /\ (IF Chat THEN "prepare" ELSE "admit") \in Steps
  BY DEF DispatchJob, Steps
<1>4. Moves(IF Chat THEN "prepare" ELSE "admit", made, launch.outcome, launch.dup)
  BY <1>1, <1>2, <1>3, GotoMoves
<1>5. JobMoves(made, "live", job[made].intent)
  BY <1>2, AttemptMoves DEF DispatchJob
<1> QED
  BY <1>1, <1>2, <1>4, <1>5 DEF DispatchJob, chatVars, procVars

\* Both Messages are staged and the history is read, or the Attempt ends.
PrepareTurnEffect ==
    /\ launch # NoLaunch /\ launch.step = "prepare" /\ launch.job = made /\ made \in Jobs
    /\ UNCHANGED <<made, command, active, signalled, lane, recovering, runtime, crashes, answers, survivors>>
    /\ \/ /\ turn[launch.cmd] = NoRow
          /\ Moves("admit", made, launch.outcome, launch.dup)
          /\ turn' \in [Commands -> TurnRows \cup {NoRow}]
          /\ turn'[launch.cmd] = [hash |-> launch.hash, job |-> made]
          /\ \A c \in Commands \ {launch.cmd} : turn'[c] = turn[c]
          /\ user' \in [Jobs -> Lifecycles] /\ assistant' \in [Jobs -> Lifecycles]
          /\ user'[made] = "pending" /\ assistant'[made] = "pending"
          /\ \A k \in Jobs \ {made} : user'[k] = user[k] /\ assistant'[k] = assistant[k]
          /\ context' \in [Jobs -> SUBSET (Jobs \X {"user", "assistant"})]
          /\ context'[made] = History(made)
          /\ \A k \in Jobs \ {made} : context'[k] = context[k]
          /\ UNCHANGED job
       \/ /\ Moves("reply", made, "error", FALSE)
          /\ JobMoves(made, "ended", job[made].intent)
          /\ UNCHANGED <<user, assistant, context, turn>>

\* The effect of PrepareTurn.
LEMMA PrepareTurnDoes ==
    ASSUME LaunchAssumption, LaunchTypeOK, LaunchHoldsLast, PrepareTurn
    PROVE  PrepareTurnEffect
<1> USE DEF PrepareTurnEffect
<1>1. launch # NoLaunch /\ launch.step = "prepare" /\ launch.cmd \in Commands /\ launch.hash \in Contents
  BY LaunchIsTyped DEF PrepareTurn, At
<1>2. launch.job = made /\ made \in Jobs
  BY <1>1, HasItsJob DEF LaunchStep, Making
<1>3. UNCHANGED <<made, command, active, signalled, lane, recovering, runtime, crashes, answers, survivors>>
  BY DEF PrepareTurn, procVars
<1>4. CASE /\ turn[launch.cmd] = NoRow
           /\ turn' = [turn EXCEPT ![launch.cmd] = [hash |-> launch.hash, job |-> launch.job]]
           /\ user' = [user EXCEPT ![launch.job] = "pending"]
           /\ assistant' = [assistant EXCEPT ![launch.job] = "pending"]
           /\ context' = [context EXCEPT ![launch.job] = History(launch.job)]
           /\ Goto("admit") /\ UNCHANGED job
  <2>1. /\ turn' = [turn EXCEPT ![launch.cmd] = [hash |-> launch.hash, job |-> made]]
        /\ user' = [user EXCEPT ![made] = "pending"]
        /\ assistant' = [assistant EXCEPT ![made] = "pending"]
        /\ context' = [context EXCEPT ![made] = History(made)]
        /\ Goto("admit") /\ "admit" \in Steps /\ UNCHANGED job
    BY <1>2, <1>4 DEF Steps
  <2>2. Moves("admit", made, launch.outcome, launch.dup)
    BY <1>1, <1>2, <2>1, GotoMoves
  <2>3. [hash |-> launch.hash, job |-> made] \in TurnRows
    BY <1>1, <1>2 DEF TurnRows
  <2>4. /\ turn' \in [Commands -> TurnRows \cup {NoRow}]
        /\ turn'[launch.cmd] = [hash |-> launch.hash, job |-> made]
        /\ \A c \in Commands \ {launch.cmd} : turn'[c] = turn[c]
    BY <1>1, <2>1, <2>3 DEF LaunchTypeOK
  <2>5. /\ user' \in [Jobs -> Lifecycles] /\ assistant' \in [Jobs -> Lifecycles]
        /\ user'[made] = "pending" /\ assistant'[made] = "pending"
        /\ \A k \in Jobs \ {made} : user'[k] = user[k] /\ assistant'[k] = assistant[k]
    BY <1>2, <2>1 DEF LaunchTypeOK, Lifecycles
  <2>6. History(made) \in SUBSET (Jobs \X {"user", "assistant"})
    <3>1. 1..made \subseteq Jobs
      BY <1>2 DEF Jobs, LaunchAssumption
    <3> QED
      BY <1>2, <3>1 DEF History, Conversation
  <2>7. /\ context' \in [Jobs -> SUBSET (Jobs \X {"user", "assistant"})]
        /\ context'[made] = History(made)
        /\ \A k \in Jobs \ {made} : context'[k] = context[k]
    <3> DEFINE H == History(made)
               M == SUBSET (Jobs \X {"user", "assistant"})
    <3>1. context' = [context EXCEPT ![made] = H] /\ H \in M /\ context \in [Jobs -> M]
      BY <2>1, <2>6 DEF LaunchTypeOK
    <3> HIDE DEF H, M
    <3>2. context' \in [Jobs -> M] /\ context'[made] = H /\ \A k \in Jobs \ {made} : context'[k] = context[k]
      BY <1>2, <3>1
    <3> QED
      BY <3>2 DEF H, M
  <2> QED
    BY <1>1, <1>2, <1>3, <1>4, <2>1, <2>2, <2>4, <2>5, <2>7
<1>5. CASE /\ job' = [job EXCEPT ![launch.job].attempt = "ended"]
           /\ Reply("error", launch.job, FALSE) /\ UNCHANGED chatVars
  <2>1. /\ job' = [job EXCEPT ![made].attempt = "ended"] /\ Reply("error", made, FALSE)
        /\ UNCHANGED <<user, assistant, context, turn>>
    BY <1>2, <1>5 DEF chatVars
  <2>2. Moves("reply", made, "error", FALSE)
    BY <1>1, <1>2, <2>1, ReplyMoves
  <2>3. JobMoves(made, "ended", job[made].intent)
    BY <1>2, <2>1, AttemptMoves
  <2> QED
    BY <1>1, <1>2, <1>3, <1>5, <2>1, <2>2, <2>3
<1> QED
  BY <1>4, <1>5 DEF PrepareTurn

\* The Call has an intent, or it could not be made.
CreateCallEffect ==
    /\ launch # NoLaunch /\ launch.step = "admit" /\ launch.job = made /\ made \in Jobs
    /\ \/ /\ JobMoves(made, job[made].attempt, "planned")
          /\ Moves("economy", made, launch.outcome, launch.dup)
       \/ job' = job /\ Moves("discard", made, launch.outcome, launch.dup)
    /\ UNCHANGED <<made, command, user, assistant, context, turn, active, signalled, lane,
                   recovering, runtime, crashes, answers, survivors>>

\* The effect of CreateCall.
LEMMA CreateCallDoes ==
    ASSUME LaunchAssumption, LaunchTypeOK, LaunchHoldsLast, CreateCall
    PROVE  CreateCallEffect
<1> USE DEF CreateCallEffect
<1>1. launch # NoLaunch /\ launch.step = "admit" /\ {"economy", "discard"} \subseteq Steps
  BY DEF CreateCall, At, Steps
<1>2. launch.job = made /\ made \in Jobs
  BY <1>1, HasItsJob DEF LaunchStep, Making
<1>3. \/ job' = [job EXCEPT ![made].intent = "planned"] /\ Goto("economy")
      \/ job' = job /\ Goto("discard")
  BY <1>2 DEF CreateCall
<1>4. \/ JobMoves(made, job[made].attempt, "planned") /\ Moves("economy", made, launch.outcome, launch.dup)
      \/ job' = job /\ Moves("discard", made, launch.outcome, launch.dup)
  BY <1>1, <1>2, <1>3, GotoMoves, IntentMoves
<1> QED
  BY <1>1, <1>2, <1>4 DEF CreateCall, chatVars, procVars

\* The admission queues the Call, or refuses it.
AdmitCallEffect ==
    /\ launch # NoLaunch /\ launch.step = "economy" /\ launch.job = made /\ made \in Jobs
    /\ \/ /\ JobMoves(made, job[made].attempt, "queued")
          /\ Moves("accept", made, launch.outcome, launch.dup)
       \/ /\ JobMoves(made, job[made].attempt, "failed")
          /\ Moves("discard", made, launch.outcome, launch.dup)
    /\ UNCHANGED <<made, command, user, assistant, context, turn, active, signalled, lane,
                   recovering, runtime, crashes, answers, survivors>>

\* The effect of AdmitCall.
LEMMA AdmitCallDoes ==
    ASSUME LaunchAssumption, LaunchTypeOK, LaunchHoldsLast, AdmitCall
    PROVE  AdmitCallEffect
<1> USE DEF AdmitCallEffect
<1>1. launch # NoLaunch /\ launch.step = "economy" /\ {"accept", "discard"} \subseteq Steps
  BY DEF AdmitCall, At, Steps
<1>2. launch.job = made /\ made \in Jobs
  BY <1>1, HasItsJob DEF LaunchStep, Making
<1>3. \/ job' = [job EXCEPT ![made].intent = "queued"] /\ Goto("accept")
      \/ job' = [job EXCEPT ![made].intent = "failed"] /\ Goto("discard")
  BY <1>2 DEF AdmitCall
<1>4. \/ JobMoves(made, job[made].attempt, "queued") /\ Moves("accept", made, launch.outcome, launch.dup)
      \/ JobMoves(made, job[made].attempt, "failed") /\ Moves("discard", made, launch.outcome, launch.dup)
  BY <1>1, <1>2, <1>3, GotoMoves, IntentMoves
<1> QED
  BY <1>1, <1>2, <1>4 DEF AdmitCall, chatVars, procVars

\* The launch's turn is accepted.
AcceptEffect ==
    /\ launch # NoLaunch /\ launch.step = "accept" /\ launch.job = made /\ made \in Jobs
    /\ TurnAccepted(made)
    /\ Moves("send", made, launch.outcome, launch.dup)
    /\ UNCHANGED <<made, job, assistant, context, turn, active, signalled, lane,
                   recovering, runtime, crashes, answers, survivors>>

\* The effect of Accept.
LEMMA AcceptDoes ==
    ASSUME LaunchAssumption, LaunchTypeOK, LaunchHoldsLast, Accept
    PROVE  AcceptEffect
<1> USE DEF AcceptEffect
<1>1. launch # NoLaunch /\ launch.step = "accept" /\ Goto("send") /\ "send" \in Steps
  BY DEF Accept, At, Steps
<1>2. launch.job = made /\ made \in Jobs
  BY <1>1, HasItsJob DEF LaunchStep, Making
<1>3. Moves("send", made, launch.outcome, launch.dup)
  BY <1>1, <1>2, GotoMoves
<1>4. TurnAccepted(made)
  BY <1>2, AcceptTurnAccepts DEF Accept
<1> QED
  BY <1>1, <1>2, <1>3, <1>4 DEF Accept, procVars

\* A lane has the Call, or its intent is given up.
SendEffect ==
    /\ launch # NoLaunch /\ launch.step = "send" /\ launch.job = made /\ made \in Jobs
    /\ \/ /\ lane' = lane \cup {made} /\ signalled' \subseteq Jobs /\ job' = job
          /\ Moves("record", made, launch.outcome, launch.dup)
       \/ /\ JobMoves(made, job[made].attempt, "failed") /\ UNCHANGED <<lane, signalled>>
          /\ Moves("discard", made, launch.outcome, launch.dup)
    /\ UNCHANGED <<made, command, user, assistant, context, turn, active,
                   recovering, runtime, crashes, answers, survivors>>

\* The effect of Send.
LEMMA SendDoes ==
    ASSUME LaunchAssumption, LaunchTypeOK, LaunchHoldsLast, Send
    PROVE  SendEffect
<1> USE DEF SendEffect
<1>1. launch # NoLaunch /\ launch.step = "send" /\ {"record", "discard"} \subseteq Steps
  BY DEF Send, At, Steps
<1>2. launch.job = made /\ made \in Jobs
  BY <1>1, HasItsJob DEF LaunchStep, Making
<1>3. UNCHANGED <<made, command, user, assistant, context, turn, active,
                  recovering, runtime, crashes, answers, survivors>>
  BY DEF Send, chatVars
<1>4. CASE /\ lane' = lane \cup {launch.job} /\ Goto("record") /\ UNCHANGED job
           /\ signalled' = IF launch.cancelled THEN signalled \cup {launch.job} ELSE signalled
  <2>1. signalled' \subseteq Jobs
    BY <1>2, <1>4 DEF LaunchTypeOK
  <2>2. Moves("record", made, launch.outcome, launch.dup)
    BY <1>1, <1>2, <1>4, GotoMoves
  <2> QED
    BY <1>1, <1>2, <1>3, <1>4, <2>1, <2>2
<1>5. CASE /\ job' = [job EXCEPT ![launch.job].intent = "failed"] /\ Goto("discard")
           /\ UNCHANGED <<lane, signalled>>
  <2>1. JobMoves(made, job[made].attempt, "failed")
    BY <1>2, <1>5, IntentMoves
  <2>2. Moves("discard", made, launch.outcome, launch.dup)
    BY <1>1, <1>2, <1>5, GotoMoves
  <2> QED
    BY <1>1, <1>2, <1>3, <1>5, <2>1, <2>2
<1> QED
  BY <1>4, <1>5 DEF Send

\* The question is withdrawn.
DiscardTurnEffect ==
    /\ launch # NoLaunch /\ launch.step = "discard" /\ launch.job = made /\ made \in Jobs
    /\ Moves("fail", made, launch.outcome, launch.dup)
    /\ user' \in [Jobs -> Lifecycles]
    /\ user'[made] = IF user[made] = "complete" THEN "deleted" ELSE user[made]
    /\ \A k \in Jobs \ {made} : user'[k] = user[k]
    /\ UNCHANGED <<made, job, command, assistant, context, turn, active, signalled, lane,
                   recovering, runtime, crashes, answers, survivors>>

\* The effect of DiscardTurn.
LEMMA DiscardTurnDoes ==
    ASSUME LaunchAssumption, LaunchTypeOK, LaunchHoldsLast, DiscardTurn
    PROVE  DiscardTurnEffect
<1> USE DEF DiscardTurnEffect
<1>1. launch # NoLaunch /\ launch.step = "discard" /\ Goto("fail") /\ "fail" \in Steps
  BY DEF DiscardTurn, At, Steps
<1>2. launch.job = made /\ made \in Jobs
  BY <1>1, HasItsJob DEF LaunchStep, Making
<1>3. Moves("fail", made, launch.outcome, launch.dup)
  BY <1>1, <1>2, GotoMoves
<1>4. user' = IF user[made] = "complete" THEN [user EXCEPT ![made] = "deleted"] ELSE user
  BY <1>2 DEF DiscardTurn
<1>5. /\ user' \in [Jobs -> Lifecycles]
      /\ user'[made] = IF user[made] = "complete" THEN "deleted" ELSE user[made]
      /\ \A k \in Jobs \ {made} : user'[k] = user[k]
  BY <1>2, <1>4 DEF LaunchTypeOK, Lifecycles
<1> QED
  BY <1>1, <1>2, <1>3, <1>5 DEF DiscardTurn, procVars

\* The Attempt of a launch that failed ends.
FailAttemptEffect ==
    /\ launch # NoLaunch /\ launch.step = "fail" /\ launch.job = made /\ made \in Jobs
    /\ Moves("record_failed", made, launch.outcome, launch.dup)
    /\ JobsTypeOK' /\ Ended(made, FALSE) /\ \A k \in Jobs \ {made} : Untouched(k)
    /\ UNCHANGED <<made, command, context, turn, active, signalled, lane,
                   recovering, runtime, crashes, answers, survivors>>

\* The effect of FailAttempt.
LEMMA FailAttemptDoes ==
    ASSUME LaunchAssumption, LaunchTypeOK, LaunchHoldsLast, FailAttempt
    PROVE  FailAttemptEffect
<1> USE DEF FailAttemptEffect
<1>1. launch # NoLaunch /\ launch.step = "fail" /\ Goto("record_failed") /\ "record_failed" \in Steps
  BY DEF FailAttempt, At, Steps
<1>2. launch.job = made /\ made \in Jobs
  BY <1>1, HasItsJob DEF LaunchStep, Making
<1>3. Moves("record_failed", made, launch.outcome, launch.dup)
  BY <1>1, <1>2, GotoMoves
<1>4. EndAttempt(made, FALSE) /\ JobsTypeOK
  BY <1>2 DEF FailAttempt, LaunchTypeOK, JobsTypeOK
<1>5. JobsTypeOK' /\ Ended(made, FALSE) /\ \A k \in Jobs \ {made} : Untouched(k)
  BY <1>2, <1>4, EndAttemptEnds
<1> QED
  BY <1>1, <1>2, <1>3, <1>5 DEF FailAttempt, procVars

\* The outcome is recorded and answered, unless another record is in its way.
RecordOutcomeEffect ==
    /\ launch # NoLaunch /\ launch.job = made /\ made \in Jobs
    /\ \E outcome \in {"accepted", "failed"} :
         /\ launch.step = IF outcome = "accepted" THEN "record" ELSE "record_failed"
         /\ \/ /\ command[launch.cmd] # NoRow
               /\ \/ command[launch.cmd].hash # launch.hash
                  \/ command[launch.cmd].job # made
               /\ command' = command /\ Moves("reply", made, "error", FALSE)
            \/ /\ command' \in [Commands -> Rows \cup {NoRow}]
               /\ command'[launch.cmd] = Row(launch.hash, outcome, made)
               /\ \A c \in Commands \ {launch.cmd} : command'[c] = command[c]
               /\ Moves("reply", made, outcome, FALSE)
    /\ UNCHANGED <<made, job, user, assistant, context, turn, active, signalled, lane,
                   recovering, runtime, crashes, answers, survivors>>

\* The effect of RecordOutcome.
LEMMA RecordOutcomeDoes ==
    ASSUME LaunchAssumption, LaunchTypeOK, LaunchHoldsLast, RecordOutcome
    PROVE  RecordOutcomeEffect
<1> USE DEF RecordOutcomeEffect
<1> DEFINE outcome == IF launch.step = "record" THEN "accepted" ELSE "failed"
           row == Row(launch.hash, outcome, launch.job)
<1>1. launch # NoLaunch /\ launch.step \in {"record", "record_failed"} /\ launch.cmd \in Commands
      /\ launch.hash \in Contents
  BY LaunchIsTyped DEF RecordOutcome, At
<1>2. launch.job = made /\ made \in Jobs
  BY <1>1, HasItsJob DEF LaunchStep, Making
<1>3. /\ command' = Recorded(launch.cmd, row)
      /\ Reply(IF Conflicts(launch.cmd, row) THEN "error" ELSE outcome, made, FALSE)
  BY <1>2 DEF RecordOutcome
<1>4. /\ outcome \in {"accepted", "failed"} /\ outcome \in Outcomes \cup {"error"}
      /\ "error" \in Outcomes \cup {"error"}
      /\ launch.step = IF outcome = "accepted" THEN "record" ELSE "record_failed"
  BY <1>1 DEF Outcomes
<1>5. row \in Rows /\ row.hash = launch.hash /\ row.job = made
  BY <1>1, <1>2, <1>4 DEF Row, Rows, Outcomes
<1>6. row = Row(launch.hash, outcome, made)
  BY <1>2
<1>7. UNCHANGED <<made, job, user, assistant, context, turn, active, signalled, lane,
                  recovering, runtime, crashes, answers, survivors>>
  BY DEF RecordOutcome, chatVars, procVars
<1> HIDE DEF outcome, row
<1>8. CASE Conflicts(launch.cmd, row)
  <2>1. command' = command /\ Reply("error", made, FALSE)
    BY <1>3, <1>8 DEF Recorded
  <2>2. Moves("reply", made, "error", FALSE)
    BY <1>1, <1>2, <1>4, <2>1, ReplyMoves
  <2>3. command[launch.cmd] # NoRow
        /\ (command[launch.cmd].hash # launch.hash \/ command[launch.cmd].job # made)
    BY <1>5, <1>8 DEF Conflicts
  <2> QED
    BY <1>1, <1>2, <1>4, <1>7, <2>1, <2>2, <2>3
<1>9. CASE ~Conflicts(launch.cmd, row)
  <2>1. command' = [command EXCEPT ![launch.cmd] = row] /\ Reply(outcome, made, FALSE)
    BY <1>3, <1>9 DEF Recorded
  <2>2. Moves("reply", made, outcome, FALSE)
    BY <1>1, <1>2, <1>4, <2>1, ReplyMoves
  <2>3. /\ command' \in [Commands -> Rows \cup {NoRow}] /\ command'[launch.cmd] = row
        /\ \A c \in Commands \ {launch.cmd} : command'[c] = command[c]
    BY <1>1, <1>5, <2>1 DEF LaunchTypeOK
  <2> QED
    BY <1>1, <1>2, <1>4, <1>6, <1>7, <2>2, <2>3
<1> QED
  BY <1>8, <1>9

\* What a client is told of the launch's command.
Told == Row(launch.hash, launch.outcome, launch.job)
Tells ==
    /\ answers' \in [Commands -> SUBSET Rows]
    /\ \A c \in Commands : \/ answers'[c] = answers[c]
                           \/ c = launch.cmd /\ answers'[c] = answers[c] \cup {Told}

\* An answer adds itself.
LEMMA AnswerTells ==
    ASSUME LaunchTypeOK, launch # NoLaunch, launch.outcome # "none", Answer
    PROVE  Tells
<1>1. CASE launch.outcome = "error"
  BY <1>1 DEF Answer, Tells, LaunchTypeOK
<1>2. CASE launch.outcome # "error"
  <2> DEFINE R == SUBSET Rows
             new == answers[launch.cmd] \cup {Told}
  <2>1. Told \in Rows
    BY <1>2, LaunchIsTyped DEF Told, Row, Rows
  <2>2. answers' = [answers EXCEPT ![launch.cmd] = new]
    BY <1>2 DEF Answer, Told, Row
  <2>3. launch.cmd \in Commands /\ answers \in [Commands -> R] /\ new \in R
    BY <2>1, LaunchIsTyped DEF LaunchTypeOK
  <2> HIDE DEF R, new
  <2>4. answers' \in [Commands -> R] /\ \A c \in Commands : answers'[c] = IF c = launch.cmd THEN new ELSE answers[c]
    BY <2>2, <2>3
  <2> QED
    BY <2>4 DEF Tells, R, new
<1> QED
  BY <1>1, <1>2

\* The lock is free, and what was detached is back.
NotLaunchedEffect ==
    /\ launch # NoLaunch /\ launch.step = "reply" /\ (Chat => ~NewlyAccepted)
    /\ launch' = NoLaunch /\ Tells
    /\ active' = IF active = NoTurn \/ (Chat /\ active.job = NoJob) THEN launch.previous ELSE active
    /\ active' \in Registrations \cup {NoTurn}
    /\ UNCHANGED <<made, job, command, user, assistant, context, turn, signalled, lane,
                   recovering, runtime, crashes, survivors>>

\* The effect of NotLaunched.
LEMMA NotLaunchedDoes ==
    ASSUME LaunchAssumption, LaunchTypeOK, LaunchHoldsLast, NotLaunched
    PROVE  NotLaunchedEffect
<1> USE DEF NotLaunchedEffect
<1>1. launch # NoLaunch /\ launch.step = "reply" /\ launch' = NoLaunch /\ (Chat => ~NewlyAccepted) /\ Answer
  BY DEF NotLaunched, At, NewlyAccepted
<1>2. Tells
  BY <1>1, AnswerTells DEF LaunchHoldsLast, Holding, LaunchStep
<1>3. active' = IF active = NoTurn \/ (Chat /\ active.job = NoJob) THEN launch.previous ELSE active
  BY DEF NotLaunched
<1>4. active' \in Registrations \cup {NoTurn}
  BY <1>1, <1>3, LaunchIsTyped DEF LaunchTypeOK
<1> QED
  BY <1>1, <1>2, <1>3, <1>4 DEF NotLaunched, chatVars

\* The detached turn is ended.
SupersedeEffect ==
    /\ launch # NoLaunch /\ launch.step = "reply" /\ Chat /\ NewlyAccepted
    /\ Moves("publish", launch.job, launch.outcome, launch.dup)
    /\ JobsTypeOK' /\ signalled' \subseteq Jobs
    /\ \A k \in Jobs : IF launch.previous = [job |-> k] /\ Live(k) THEN Ended(k, FALSE) ELSE Untouched(k)
    /\ UNCHANGED <<made, command, context, turn, active, lane, recovering, runtime, crashes,
                   answers, survivors>>

\* The effect of Supersede.
LEMMA SupersedeDoes ==
    ASSUME LaunchAssumption, LaunchTypeOK, LaunchHoldsLast, Supersede
    PROVE  SupersedeEffect
<1> USE DEF SupersedeEffect
<1>1. /\ launch # NoLaunch /\ launch.step = "reply" /\ Chat /\ NewlyAccepted
      /\ Goto("publish") /\ "publish" \in Steps
  BY DEF Supersede, At, NewlyAccepted, Steps
<1>2. Moves("publish", launch.job, launch.outcome, launch.dup)
  BY <1>1, GotoMoves
<1>3. JobsTypeOK /\ launch.previous \in Registrations \cup {NoTurn}
  BY <1>1, LaunchIsTyped DEF LaunchTypeOK, JobsTypeOK
<1>4. UNCHANGED <<made, command, context, turn, active, lane, recovering, runtime, crashes, answers, survivors>>
  BY DEF Supersede
<1>5. CASE launch.previous = NoTurn
  <2>1. UNCHANGED <<job, user, assistant, signalled>>
    BY <1>5 DEF Supersede
  <2>2. \A k \in Jobs : launch.previous # [job |-> k]
    BY <1>5 DEF LaunchAssumption, Registrations
  <2> QED
    BY <1>1, <1>2, <1>3, <1>4, <2>1, <2>2 DEF LaunchTypeOK, JobsTypeOK, Untouched
<1>6. CASE launch.previous # NoTurn
  <2>1. /\ Revoke(launch.previous.job)
        /\ signalled' = signalled \cup ({launch.previous.job} \ {NoJob})
    BY <1>6 DEF Supersede
  <2>2. launch.previous.job \in Jobs \cup {NoJob} /\ launch.previous = [job |-> launch.previous.job]
    BY <1>3, <1>6 DEF Registrations
  <2>3. /\ JobsTypeOK'
        /\ \A k \in Jobs : IF k = launch.previous.job /\ Live(k) THEN Ended(k, FALSE) ELSE Untouched(k)
    BY <1>3, <2>1, <2>2, RevokeEnds
  <2>4. \A k \in Jobs : (launch.previous = [job |-> k]) <=> (k = launch.previous.job)
    BY <2>2
  <2>5. signalled' \subseteq Jobs
    BY <2>1, <2>2 DEF LaunchTypeOK
  <2> QED
    BY <1>1, <1>2, <1>4, <2>3, <2>4, <2>5
<1> QED
  BY <1>5, <1>6

\* The Attempt is the session's, or is ended.
PublishTurnEffect ==
    /\ launch # NoLaunch /\ launch.step = "publish" /\ launch.job = made /\ made \in Jobs
    /\ launch' = NoLaunch /\ Tells /\ JobsTypeOK' /\ active' \in Registrations \cup {NoTurn}
    /\ \/ /\ launch.cancelled \/ active = NoTurn
          /\ \A k \in Jobs : IF k = made /\ Live(k) THEN Ended(k, FALSE) ELSE Untouched(k)
          /\ active' = active
       \/ /\ ~launch.cancelled /\ active # NoTurn
          /\ active' = [job |-> made] /\ UNCHANGED <<job, user, assistant>>
    /\ UNCHANGED <<made, command, context, turn, signalled, lane, recovering, runtime, crashes, survivors>>

\* The effect of PublishTurn.
LEMMA PublishTurnDoes ==
    ASSUME LaunchAssumption, LaunchTypeOK, LaunchHoldsLast, PublishTurn
    PROVE  PublishTurnEffect
<1> USE DEF PublishTurnEffect
<1>1. launch # NoLaunch /\ launch.step = "publish" /\ launch' = NoLaunch /\ Answer
  BY DEF PublishTurn, At
<1>2. launch.job = made /\ made \in Jobs /\ JobsTypeOK
  BY <1>1, HasItsJob DEF LaunchStep, Making, LaunchTypeOK, JobsTypeOK
<1>3. Tells
  BY <1>1, AnswerTells DEF LaunchHoldsLast, Holding, LaunchStep, NewlyAccepted
<1>4. UNCHANGED <<made, command, context, turn, signalled, lane, recovering, runtime, crashes, survivors>>
  BY DEF PublishTurn
<1>5. CASE launch.cancelled \/ active = NoTurn
  <2>1. Revoke(made) /\ active' = active
    BY <1>2, <1>5 DEF PublishTurn
  <2>2. JobsTypeOK' /\ \A k \in Jobs : IF k = made /\ Live(k) THEN Ended(k, FALSE) ELSE Untouched(k)
    BY <1>2, <2>1, RevokeEnds
  <2> QED
    BY <1>1, <1>2, <1>3, <1>4, <1>5, <2>1, <2>2 DEF LaunchTypeOK
<1>6. CASE ~(launch.cancelled \/ active = NoTurn)
  <2>1. active' = [job |-> made] /\ UNCHANGED <<job, user, assistant>>
    BY <1>2, <1>6 DEF PublishTurn
  <2>2. active' \in Registrations /\ JobsTypeOK'
    BY <1>2, <2>1 DEF Registrations, JobsTypeOK
  <2> QED
    BY <1>1, <1>2, <1>3, <1>4, <1>6, <2>1, <2>2
<1> QED
  BY <1>5, <1>6

\* A client takes the registration: the launch under way learns of it, a turn is ended.
CancelChatEffect ==
    /\ active # NoTurn /\ active' = NoTurn
    /\ JobsTypeOK' /\ signalled' \subseteq Jobs
    /\ \/ /\ active = [job |-> NoJob] /\ launch # NoLaunch /\ Chat
          /\ launch' \in Launches /\ launch' # NoLaunch
          /\ launch'.cmd = launch.cmd /\ launch'.hash = launch.hash
          /\ launch'.cancelled = TRUE /\ launch'.previous = launch.previous
          /\ launch'.step = launch.step /\ launch'.job = launch.job
          /\ launch'.outcome = launch.outcome /\ launch'.dup = launch.dup
          /\ UNCHANGED <<job, user, assistant>>
       \/ /\ active # [job |-> NoJob] /\ launch' = launch
          /\ \A k \in Jobs : IF active = [job |-> k] /\ Live(k) THEN Ended(k, FALSE) ELSE Untouched(k)
    /\ UNCHANGED <<made, command, context, turn, lane, recovering, runtime, crashes, answers, survivors>>

\* The effect of CancelChat.
LEMMA CancelChatDoes ==
    ASSUME LaunchAssumption, LaunchTypeOK, LaunchHoldsLast, RegistrationFollows, CancelChat
    PROVE  CancelChatEffect
<1> USE DEF CancelChatEffect
<1>1. active # NoTurn /\ active' = NoTurn /\ Revoke(active.job)
  BY DEF CancelChat
<1>2. UNCHANGED <<made, command, context, turn, lane, recovering, runtime, crashes, answers, survivors>>
  BY DEF CancelChat
<1>3. active \in Registrations /\ active = [job |-> active.job] /\ active.job \in Jobs \cup {NoJob} /\ JobsTypeOK
  BY <1>1 DEF LaunchTypeOK, Registrations, JobsTypeOK
<1>4. CASE active.job = NoJob
  <2>1. active = [job |-> NoJob] /\ launch # NoLaunch /\ Chat
    BY <1>3, <1>4 DEF RegistrationFollows
  <2>2. /\ launch' = [launch EXCEPT !.cancelled = TRUE]
        /\ signalled' = IF launch.job \in lane THEN signalled \cup {launch.job} ELSE signalled
    BY <1>4 DEF CancelChat
  <2>3. launch \in Launches
    BY <2>1, LaunchIsTyped
  <2>4. launch' \in Launches
    BY <2>2, <2>3 DEF Launches
  <2>5. launch' # NoLaunch
    BY <2>4 DEF LaunchAssumption
  <2>6. /\ launch'.cmd = launch.cmd /\ launch'.hash = launch.hash
        /\ launch'.cancelled = TRUE /\ launch'.previous = launch.previous
        /\ launch'.step = launch.step /\ launch'.job = launch.job
        /\ launch'.outcome = launch.outcome /\ launch'.dup = launch.dup
    BY <2>2, <2>3 DEF Launches
  <2>7. UNCHANGED <<job, user, assistant>>
    BY <1>1, <1>4 DEF Revoke
  <2>8. signalled' \subseteq Jobs
    BY <2>2 DEF LaunchTypeOK
  <2> QED
    BY <1>1, <1>2, <1>3, <2>1, <2>4, <2>5, <2>6, <2>7, <2>8 DEF JobsTypeOK
<1>5. CASE active.job # NoJob
  <2>1. launch' = launch /\ signalled' = signalled \cup {active.job}
    BY <1>5 DEF CancelChat
  <2>2. /\ JobsTypeOK'
        /\ \A k \in Jobs : IF k = active.job /\ Live(k) THEN Ended(k, FALSE) ELSE Untouched(k)
    BY <1>1, <1>3, RevokeEnds
  <2>3. (\A k \in Jobs : (active = [job |-> k]) <=> (k = active.job)) /\ active # [job |-> NoJob]
    BY <1>3, <1>5
  <2>4. signalled' \subseteq Jobs
    BY <1>3, <1>5, <2>1 DEF LaunchTypeOK
  <2> QED
    BY <1>1, <1>2, <2>1, <2>2, <2>3, <2>4
<1> QED
  BY <1>4, <1>5

\* A worker settles or drops an envelope.
WorkEffect(j, completed) ==
    /\ j \in lane /\ lane' = lane \ {j} /\ JobsTypeOK'
    /\ IF Live(j) THEN Ended(j, completed) ELSE Untouched(j)
    /\ \A k \in Jobs \ {j} : Untouched(k)
    /\ UNCHANGED <<made, command, context, turn, launch, active, signalled, recovering, runtime,
                   crashes, answers, survivors>>

\* The effect of Work.
LEMMA WorkDoes ==
    ASSUME LaunchAssumption, LaunchTypeOK, NEW j \in Jobs, NEW completed \in BOOLEAN, Work(j, completed)
    PROVE  WorkEffect(j, completed)
<1> USE DEF WorkEffect
<1>1. j \in lane /\ lane' = lane \ {j} /\ JobsTypeOK
  BY DEF Work, LaunchTypeOK, JobsTypeOK
<1>2. UNCHANGED <<made, command, context, turn, launch, active, signalled, recovering, runtime,
                  crashes, answers, survivors>>
  BY DEF Work
<1>3. CASE Live(j)
  <2>1. EndAttempt(j, completed)
    BY <1>3 DEF Work
  <2> QED
    BY <1>1, <1>2, <1>3, <2>1, EndAttemptEnds
<1>4. CASE ~Live(j)
  <2>1. UNCHANGED <<job, user, assistant>>
    BY <1>4 DEF Work
  <2> QED
    BY <1>1, <1>2, <1>4, <2>1 DEF Untouched, JobsTypeOK
<1> QED
  BY <1>3, <1>4

\* The recovery hands a queued Call to its lane, or gives all of them up.
RequeueEffect(j) ==
    /\ j \in recovering
    /\ \/ /\ Live(j) /\ TurnAccepted(j) /\ lane' = lane \cup {j} /\ recovering' = recovering \ {j}
       \/ /\ ~Live(j) /\ recovering' = {} /\ UNCHANGED <<user, command, lane>>
    /\ UNCHANGED <<made, job, assistant, context, turn, launch, active, signalled, runtime,
                   crashes, answers, survivors>>

\* The effect of Requeue.
LEMMA RequeueDoes ==
    ASSUME LaunchAssumption, LaunchTypeOK, NEW j \in Jobs, Requeue(j)
    PROVE  RequeueEffect(j)
<1> USE DEF RequeueEffect
<1>1. /\ j \in recovering
      /\ UNCHANGED <<made, job, assistant, context, turn, launch, active, signalled, runtime,
                     crashes, answers, survivors>>
  BY DEF Requeue
<1>2. CASE Live(j)
  BY <1>1, <1>2, AcceptTurnAccepts DEF Requeue
<1>3. CASE ~Live(j)
  BY <1>1, <1>3 DEF Requeue
<1> QED
  BY <1>2, <1>3

---------------------------------------------------------------------------------
(* The launch's hold on the last Job. *)

\* Turns only end: what is live may, completed if a lane has it, and everything else is left alone.
OnlyEnds ==
    \A k \in Jobs :
        \/ Untouched(k)
        \/ Live(k) /\ \E completed \in BOOLEAN : (completed => k \in lane) /\ Ended(k, completed)

\* Ending turns keeps the order of Jobs.
LEMMA EndsKeepOrder ==
    ASSUME JobsInOrder, OnlyEnds, made' = made, lane' \cup recovering' \subseteq lane \cup recovering,
           lane \cup recovering \subseteq Jobs,
           \A j \in Jobs : LaunchesJob(j)' /\ launch'.step \in Unsent =>
                              LaunchesJob(j) /\ launch'.step = launch.step
    PROVE  JobsInOrder'
<1>1. ASSUME NEW j \in Jobs
      PROVE  /\ job'[j].cmd = job[j].cmd
             /\ ~Live(j) => Untouched(j)
             /\ user[j] = "none" => user'[j] = "none"
             /\ assistant[j] = "none" => assistant'[j] = "none"
  BY DEF OnlyEnds, Untouched, Ended, Becomes, Live
<1>2. \A j \in Jobs : job'[j].cmd # NoRow <=> j <= made'
  BY <1>1 DEF JobsInOrder
<1>3. ASSUME NEW j \in Jobs, j > made' \/ (LaunchesJob(j)' /\ launch'.step = "dispatch")
      PROVE  job'[j].attempt = "none" /\ job'[j].intent = "none"
  <2>1. job[j].attempt = "none" /\ job[j].intent = "none"
    BY <1>3 DEF JobsInOrder, Unsent, Making
  <2> QED
    BY <1>1, <2>1 DEF Untouched, Live
<1>4. ASSUME NEW j \in Jobs, j > made' \/ (LaunchesJob(j)' /\ launch'.step \in {"dispatch", "prepare"})
      PROVE  user'[j] = "none" /\ assistant'[j] = "none"
  <2>1. user[j] = "none" /\ assistant[j] = "none"
    BY <1>4 DEF JobsInOrder, Unsent, Making
  <2> QED
    BY <1>1, <2>1
<1>5. ASSUME NEW j \in lane' \cup recovering'
      PROVE  j <= made' /\ ~(LaunchesJob(j)' /\ launch'.step \in Unsent)
  BY <1>5 DEF JobsInOrder
<1>6. \A j \in (lane \cup recovering)' : j <= made' /\ ~(LaunchesJob(j) /\ launch.step \in Unsent)'
  BY <1>5
<1> QED
  BY <1>2, <1>3, <1>4, <1>6 DEF JobsInOrder

\* Taking the lock keeps the types and the launch's hold.
LEMMA RegisterKeepsLaunch ==
    ASSUME LaunchAssumption, LaunchTypeOK, LaunchInv, NEW c \in Commands, NEW hash \in Contents,
           RegisterEffect(c, hash)
    PROVE  LaunchTypeOK' /\ LaunchInv'
<1>1. LaunchTypeOK'
  BY DEF RegisterEffect, LaunchTypeOK, JobsTypeOK
<1>2. LaunchHoldsLast'
  BY DEF RegisterEffect, LaunchInv, LaunchHoldsLast, LaunchStep, Making, LaunchesJob, Holding,
       NewlyAccepted, Chat
<1>3. RegistrationFollows'
  BY LaunchIsTyped DEF RegisterEffect, LaunchAssumption, LaunchInv, RegistrationFollows,
       Registrations, Chat, NewlyAccepted
<1>4. JobsInOrder'
  BY DEF RegisterEffect, LaunchInv, JobsInOrder, LaunchesJob, Holding, LaunchStep, NewlyAccepted, Making, Unsent, Jobs,
       NoJob
<1> QED
  BY <1>1, <1>2, <1>3, <1>4 DEF LaunchInv

\* The lookup keeps the types and the launch's hold.
LEMMA LookupKeepsLaunch ==
    ASSUME LaunchAssumption, LaunchTypeOK, LaunchInv, LookupEffect
    PROVE  LaunchTypeOK' /\ LaunchInv'
<1>1. LaunchTypeOK'
  BY DEF LookupEffect, Moves, LaunchTypeOK, JobsTypeOK
<1>2. LaunchHoldsLast'
  <2>1. launch # NoLaunch /\ launch.step = "lookup" /\ launch.cmd \in Commands
        /\ made' = made /\ job' = job /\ launch.job = NoJob
    BY LaunchIsTyped DEF LookupEffect, LaunchInv, LaunchHoldsLast, Holding, LaunchStep
  <2>2. CASE Moves("runtime", launch.job, launch.outcome, launch.dup)
    BY <2>1, <2>2 DEF LaunchHoldsLast, Moves, LaunchStep, Making, LaunchesJob, Holding, NewlyAccepted
  <2>3. CASE \E j \in Jobs \cup {NoJob}, outcome \in Outcomes, dup \in BOOLEAN :
                Moves("reply", j, outcome, dup) /\ (outcome # "accepted" \/ dup)
    BY <2>1, <2>3 DEF LaunchHoldsLast, Moves, LaunchStep, Making, LaunchesJob, Holding, NewlyAccepted, Outcomes
  <2>4. command[launch.cmd] # NoRow =>
            command[launch.cmd].outcome \in Outcomes /\ command[launch.cmd].job \in Jobs \cup {NoJob}
    BY <2>1 DEF LaunchTypeOK, Rows
  <2> QED
    BY <2>2, <2>3, <2>4 DEF LookupEffect, Outcomes
<1>3. RegistrationFollows'
  BY LaunchIsTyped DEF LookupEffect, Moves, LaunchAssumption, LaunchInv, RegistrationFollows,
       Registrations, Chat, NewlyAccepted
<1>4. JobsInOrder'
  BY DEF LookupEffect, Moves, LaunchInv, JobsInOrder, LaunchesJob, Holding, LaunchStep, NewlyAccepted, Making, Unsent,
       Jobs, NoJob
<1> QED
  BY <1>1, <1>2, <1>3, <1>4 DEF LaunchInv

\* A new runtime keeps the types and the launch's hold.
LEMMA StartRuntimeKeepsLaunch ==
    ASSUME LaunchAssumption, LaunchTypeOK, LaunchInv, StartRuntimeEffect
    PROVE  LaunchTypeOK' /\ LaunchInv'
<1>1. LaunchTypeOK'
  BY DEF StartRuntimeEffect, Moves, LaunchTypeOK, JobsTypeOK
<1>2. LaunchHoldsLast'
  BY DEF StartRuntimeEffect, Moves, LaunchInv, LaunchHoldsLast, LaunchStep, Making, LaunchesJob, Holding,
       NewlyAccepted, Chat
<1>3. RegistrationFollows'
  BY LaunchIsTyped DEF StartRuntimeEffect, Moves, LaunchAssumption, LaunchInv,
       RegistrationFollows, Registrations, Chat, NewlyAccepted
<1>4. JobsInOrder'
  <2>1. /\ launch # NoLaunch /\ launch.step = "runtime"
        /\ launch' # NoLaunch /\ launch'.step = "configure"
        /\ user' = user /\ assistant' = assistant /\ lane' = lane /\ made' = made
        /\ made \in Nat /\ Jobs \subseteq Nat
    BY DEF StartRuntimeEffect, Moves, LaunchTypeOK, Jobs, NoJob
  <2>2. \A j \in Jobs : ~LaunchesJob(j) /\ ~LaunchesJob(j)'
    BY <2>1 DEF LaunchesJob, Holding, LaunchStep, Making
  <2>3. \A j \in Jobs : /\ job'[j].cmd = job[j].cmd /\ job'[j].attempt = job[j].attempt
                        /\ job[j].intent = "none" => job'[j].intent = "none"
    BY DEF StartRuntimeEffect
  <2>4. ASSUME NEW j \in Jobs, job[j].intent = "queued"
        PROVE  j <= made
    <3>1. ~(j > made)
      BY <2>4 DEF LaunchInv, JobsInOrder
    <3>2. j \in Nat
      BY <2>1
    <3> QED
      BY <2>1, <3>1, <3>2
  <2>5. \A j \in lane' \cup recovering' : j <= made /\ j \in Jobs
    BY <2>1, <2>4 DEF StartRuntimeEffect, LaunchInv, JobsInOrder, LaunchTypeOK
  <2>6. /\ \A j \in Jobs : job'[j].cmd # NoRow <=> j <= made'
        /\ \A j \in Jobs : j > made' => /\ job'[j].attempt = "none" /\ job'[j].intent = "none"
                                        /\ user'[j] = "none" /\ assistant'[j] = "none"
    BY <2>1, <2>3 DEF LaunchInv, JobsInOrder
  <2> QED
    BY <2>1, <2>2, <2>5, <2>6 DEF JobsInOrder
<1> QED
  BY <1>1, <1>2, <1>3, <1>4 DEF LaunchInv

\* A refusal keeps the types and the launch's hold.
LEMMA RefuseLaunchKeepsLaunch ==
    ASSUME LaunchAssumption, LaunchTypeOK, LaunchInv, NEW outcome \in {"failed", "rejected"},
           RefuseLaunchEffect(outcome)
    PROVE  LaunchTypeOK' /\ LaunchInv'
<1>1. LaunchTypeOK'
  BY DEF RefuseLaunchEffect, Moves, LaunchTypeOK, JobsTypeOK
<1>2. LaunchHoldsLast'
  BY DEF RefuseLaunchEffect, Moves, LaunchInv, LaunchHoldsLast, LaunchStep, Making, LaunchesJob, Holding,
       NewlyAccepted, Chat
<1>3. RegistrationFollows'
  BY LaunchIsTyped DEF RefuseLaunchEffect, Moves, LaunchAssumption, LaunchInv,
       RegistrationFollows, Registrations, Chat, NewlyAccepted
<1>4. JobsInOrder'
  BY DEF RefuseLaunchEffect, Moves, LaunchInv, JobsInOrder, LaunchesJob, Holding, LaunchStep, NewlyAccepted, Making,
       Unsent, Jobs, NoJob
<1> QED
  BY <1>1, <1>2, <1>3, <1>4 DEF LaunchInv

\* An error keeps the types and the launch's hold.
LEMMA LaunchErrsKeepsLaunch ==
    ASSUME LaunchAssumption, LaunchTypeOK, LaunchInv, LaunchErrsEffect
    PROVE  LaunchTypeOK' /\ LaunchInv'
<1>1. LaunchTypeOK'
  BY DEF LaunchErrsEffect, Moves, LaunchTypeOK, JobsTypeOK
<1>2. LaunchHoldsLast'
  BY DEF LaunchErrsEffect, Moves, LaunchInv, LaunchHoldsLast, LaunchStep, Making, LaunchesJob, Holding,
       NewlyAccepted, Chat
<1>3. RegistrationFollows'
  BY LaunchIsTyped DEF LaunchErrsEffect, Moves, LaunchAssumption, LaunchInv, RegistrationFollows,
       Registrations, Chat, NewlyAccepted
<1>4. JobsInOrder'
  BY DEF LaunchErrsEffect, Moves, LaunchInv, JobsInOrder, LaunchesJob, Holding, LaunchStep, NewlyAccepted, Making,
       Unsent, Jobs, NoJob
<1> QED
  BY <1>1, <1>2, <1>3, <1>4 DEF LaunchInv

\* The Job made keeps the types and the launch's hold.
LEMMA CreateJobKeepsLaunch ==
    ASSUME LaunchAssumption, LaunchTypeOK, LaunchInv, CreateJobEffect
    PROVE  LaunchTypeOK' /\ LaunchInv'
<1>1. LaunchTypeOK'
  BY DEF CreateJobEffect, Moves, LaunchTypeOK, JobsTypeOK
<1>2. LaunchHoldsLast'
  <2>1. made' # NoJob
    BY DEF CreateJobEffect, Jobs, NoJob
  <2> QED
    BY <2>1 DEF CreateJobEffect, Moves, LaunchInv, LaunchHoldsLast, LaunchStep, Making, LaunchesJob, Holding,
                NewlyAccepted, Chat
<1>3. RegistrationFollows'
  BY LaunchIsTyped DEF CreateJobEffect, Moves, LaunchAssumption, LaunchInv, RegistrationFollows,
       Registrations, Chat, NewlyAccepted
<1>4. JobsInOrder'
  <2>1. /\ launch # NoLaunch /\ launch.step = "configure" /\ launch.job = NoJob
        /\ launch.cmd \in Commands /\ launch.cmd # NoRow
        /\ made' = made + 1 /\ made \in Nat /\ made' \in Jobs /\ Jobs \subseteq Nat
    BY LaunchIsTyped DEF CreateJobEffect, LaunchInv, LaunchHoldsLast, Holding, LaunchStep, LaunchAssumption, Jobs
  <2>2. \A j \in Jobs : LaunchesJob(j)' => j = made'
    BY DEF CreateJobEffect, Moves, LaunchesJob, Holding, LaunchStep
  <2>3. \A j \in Jobs \ {made'} : job'[j] = job[j]
    BY DEF CreateJobEffect
  <2>4. /\ job'[made'].cmd = launch.cmd /\ job'[made'].attempt = job[made'].attempt
        /\ job'[made'].intent = job[made'].intent
        /\ user' = user /\ assistant' = assistant /\ lane' = lane /\ recovering' = recovering
    BY DEF CreateJobEffect
  <2>5. \A j \in Jobs : job'[j].cmd # NoRow <=> j <= made'
    BY <2>1, <2>3, <2>4 DEF LaunchInv, JobsInOrder
  <2>6. \A j \in Jobs : j >= made' =>
            /\ job'[j].attempt = "none" /\ job'[j].intent = "none"
            /\ user'[j] = "none" /\ assistant'[j] = "none"
    BY <2>1, <2>3, <2>4 DEF LaunchInv, JobsInOrder
  <2>7. \A j \in lane' \cup recovering' : j <= made /\ j \in Jobs
    BY <2>4 DEF LaunchInv, JobsInOrder, LaunchTypeOK
  <2>8. \A j \in lane' \cup recovering' : j <= made' /\ ~LaunchesJob(j)'
    <3>1. ASSUME NEW j \in lane' \cup recovering'
          PROVE  j <= made' /\ ~LaunchesJob(j)'
      <4>1. j <= made /\ j \in Nat /\ j \in Jobs
        BY <2>1, <2>7
      <4> QED
        BY <2>1, <2>2, <4>1
    <3> QED
      BY <3>1
  <2>9. \A j \in Jobs : j > made' \/ LaunchesJob(j)' => j >= made'
    BY <2>1, <2>2
  <2> QED
    BY <2>5, <2>6, <2>8, <2>9 DEF JobsInOrder
<1> QED
  BY <1>1, <1>2, <1>3, <1>4 DEF LaunchInv

\* The Attempt keeps the types and the launch's hold.
LEMMA DispatchJobKeepsLaunch ==
    ASSUME LaunchAssumption, LaunchTypeOK, LaunchInv, DispatchJobEffect
    PROVE  LaunchTypeOK' /\ LaunchInv'
<1>1. LaunchTypeOK'
  BY DEF DispatchJobEffect, Moves, JobMoves, LaunchTypeOK, JobsTypeOK
<1>2. LaunchHoldsLast'
  BY DEF DispatchJobEffect, Moves, JobMoves, LaunchInv, LaunchHoldsLast, LaunchStep, Making,
       LaunchesJob, Holding, NewlyAccepted, Chat
<1>3. RegistrationFollows'
  BY LaunchIsTyped DEF DispatchJobEffect, Moves, JobMoves, LaunchAssumption, LaunchInv,
       RegistrationFollows, Registrations, Chat, NewlyAccepted
<1>4. JobsInOrder'
  BY DEF DispatchJobEffect, Moves, JobMoves, LaunchInv, JobsInOrder, LaunchesJob, Holding, LaunchStep, NewlyAccepted,
       Making, Unsent, Jobs, NoJob
<1> QED
  BY <1>1, <1>2, <1>3, <1>4 DEF LaunchInv

\* Staging keeps the types and the launch's hold.
LEMMA PrepareTurnKeepsLaunch ==
    ASSUME LaunchAssumption, LaunchTypeOK, LaunchInv, PrepareTurnEffect
    PROVE  LaunchTypeOK' /\ LaunchInv'
<1>1. LaunchTypeOK'
  BY DEF PrepareTurnEffect, Moves, JobMoves, LaunchTypeOK, JobsTypeOK
<1>2. LaunchHoldsLast'
  BY DEF PrepareTurnEffect, Moves, JobMoves, LaunchInv, LaunchHoldsLast, LaunchStep, Making,
       LaunchesJob, Holding, NewlyAccepted, Chat
<1>3. RegistrationFollows'
  BY LaunchIsTyped DEF PrepareTurnEffect, Moves, JobMoves, LaunchAssumption, LaunchInv,
       RegistrationFollows, Registrations, Chat, NewlyAccepted
<1>4. JobsInOrder'
  BY DEF PrepareTurnEffect, Moves, JobMoves, LaunchInv, JobsInOrder, LaunchesJob, Holding, LaunchStep, NewlyAccepted,
       Making, Unsent, Jobs, NoJob
<1> QED
  BY <1>1, <1>2, <1>3, <1>4 DEF LaunchInv

\* The Call keeps the types and the launch's hold.
LEMMA CreateCallKeepsLaunch ==
    ASSUME LaunchAssumption, LaunchTypeOK, LaunchInv, CreateCallEffect
    PROVE  LaunchTypeOK' /\ LaunchInv'
<1>1. LaunchTypeOK'
  BY DEF CreateCallEffect, Moves, JobMoves, LaunchTypeOK, JobsTypeOK
<1>2. LaunchHoldsLast'
  BY DEF CreateCallEffect, Moves, JobMoves, LaunchInv, LaunchHoldsLast, LaunchStep, Making,
       LaunchesJob, Holding, NewlyAccepted, Chat
<1>3. RegistrationFollows'
  BY LaunchIsTyped DEF CreateCallEffect, Moves, JobMoves, LaunchAssumption, LaunchInv,
       RegistrationFollows, Registrations, Chat, NewlyAccepted
<1>4. JobsInOrder'
  BY DEF CreateCallEffect, Moves, JobMoves, LaunchInv, JobsInOrder, LaunchesJob, Holding, LaunchStep, NewlyAccepted,
       Making, Unsent, Jobs, NoJob
<1> QED
  BY <1>1, <1>2, <1>3, <1>4 DEF LaunchInv

\* The admission keeps the types and the launch's hold.
LEMMA AdmitCallKeepsLaunch ==
    ASSUME LaunchAssumption, LaunchTypeOK, LaunchInv, AdmitCallEffect
    PROVE  LaunchTypeOK' /\ LaunchInv'
<1>1. LaunchTypeOK'
  BY DEF AdmitCallEffect, Moves, JobMoves, LaunchTypeOK, JobsTypeOK
<1>2. LaunchHoldsLast'
  BY DEF AdmitCallEffect, Moves, JobMoves, LaunchInv, LaunchHoldsLast, LaunchStep, Making,
       LaunchesJob, Holding, NewlyAccepted, Chat
<1>3. RegistrationFollows'
  BY LaunchIsTyped DEF AdmitCallEffect, Moves, JobMoves, LaunchAssumption, LaunchInv,
       RegistrationFollows, Registrations, Chat, NewlyAccepted
<1>4. JobsInOrder'
  BY DEF AdmitCallEffect, Moves, JobMoves, LaunchInv, JobsInOrder, LaunchesJob, Holding, LaunchStep, NewlyAccepted,
       Making, Unsent, Jobs, NoJob
<1> QED
  BY <1>1, <1>2, <1>3, <1>4 DEF LaunchInv

\* Accepting the turn keeps the types and the launch's hold.
LEMMA AcceptKeepsLaunch ==
    ASSUME LaunchAssumption, LaunchTypeOK, LaunchInv, AcceptEffect
    PROVE  LaunchTypeOK' /\ LaunchInv'
<1>1. LaunchTypeOK'
  BY DEF AcceptEffect, Moves, TurnAccepted, LaunchTypeOK, JobsTypeOK
<1>2. LaunchHoldsLast'
  BY DEF AcceptEffect, Moves, TurnAccepted, LaunchInv, LaunchHoldsLast, LaunchStep, Making,
       LaunchesJob, Holding, NewlyAccepted, Chat
<1>3. RegistrationFollows'
  BY LaunchIsTyped DEF AcceptEffect, Moves, TurnAccepted, LaunchAssumption, LaunchInv,
       RegistrationFollows, Registrations, Chat, NewlyAccepted
<1>4. JobsInOrder'
  BY DEF AcceptEffect, Moves, TurnAccepted, LaunchInv, JobsInOrder, LaunchesJob, Holding, LaunchStep, NewlyAccepted,
       Making, Unsent, Jobs, NoJob
<1> QED
  BY <1>1, <1>2, <1>3, <1>4 DEF LaunchInv

\* The handoff keeps the types and the launch's hold.
LEMMA SendKeepsLaunch ==
    ASSUME LaunchAssumption, LaunchTypeOK, LaunchInv, SendEffect
    PROVE  LaunchTypeOK' /\ LaunchInv'
<1>1. LaunchTypeOK'
  BY DEF SendEffect, Moves, JobMoves, LaunchTypeOK, JobsTypeOK
<1>2. LaunchHoldsLast'
  BY DEF SendEffect, Moves, JobMoves, LaunchInv, LaunchHoldsLast, LaunchStep, Making, LaunchesJob, Holding,
       NewlyAccepted, Chat
<1>3. RegistrationFollows'
  BY LaunchIsTyped DEF SendEffect, Moves, JobMoves, LaunchAssumption, LaunchInv,
       RegistrationFollows, Registrations, Chat, NewlyAccepted
<1>4. JobsInOrder'
  BY DEF SendEffect, Moves, JobMoves, LaunchInv, JobsInOrder, LaunchesJob, Holding, LaunchStep, NewlyAccepted, Making,
       Unsent, Jobs, NoJob
<1> QED
  BY <1>1, <1>2, <1>3, <1>4 DEF LaunchInv

\* Discarding the question keeps the types and the launch's hold.
LEMMA DiscardTurnKeepsLaunch ==
    ASSUME LaunchAssumption, LaunchTypeOK, LaunchInv, DiscardTurnEffect
    PROVE  LaunchTypeOK' /\ LaunchInv'
<1>1. LaunchTypeOK'
  BY DEF DiscardTurnEffect, Moves, LaunchTypeOK, JobsTypeOK
<1>2. LaunchHoldsLast'
  BY DEF DiscardTurnEffect, Moves, LaunchInv, LaunchHoldsLast, LaunchStep, Making, LaunchesJob, Holding,
       NewlyAccepted, Chat
<1>3. RegistrationFollows'
  BY LaunchIsTyped DEF DiscardTurnEffect, Moves, LaunchAssumption, LaunchInv, RegistrationFollows,
       Registrations, Chat, NewlyAccepted
<1>4. JobsInOrder'
  BY DEF DiscardTurnEffect, Moves, LaunchInv, JobsInOrder, LaunchesJob, Holding, LaunchStep, NewlyAccepted, Making,
       Unsent, Jobs, NoJob
<1> QED
  BY <1>1, <1>2, <1>3, <1>4 DEF LaunchInv

\* Failing the Attempt keeps the types and the launch's hold.
LEMMA FailAttemptKeepsLaunch ==
    ASSUME LaunchAssumption, LaunchTypeOK, LaunchInv, FailAttemptEffect
    PROVE  LaunchTypeOK' /\ LaunchInv'
<1>1. LaunchTypeOK'
  BY DEF FailAttemptEffect, Moves, JobsTypeOK, Ended, Untouched, LaunchTypeOK
<1>2. LaunchHoldsLast'
  BY DEF FailAttemptEffect, Moves, JobsTypeOK, Ended, Untouched, LaunchInv, LaunchHoldsLast,
       LaunchStep, Making, LaunchesJob, Holding, NewlyAccepted, Chat
<1>3. RegistrationFollows'
  BY LaunchIsTyped DEF FailAttemptEffect, Moves, JobsTypeOK, Ended, Untouched, LaunchAssumption,
       LaunchInv, RegistrationFollows, Registrations, Chat, NewlyAccepted
<1>4. JobsInOrder'
  BY DEF FailAttemptEffect, Moves, JobsTypeOK, Ended, Untouched, LaunchInv, JobsInOrder,
       LaunchesJob, Holding, LaunchStep, NewlyAccepted, Making, Unsent, Jobs, NoJob
<1> QED
  BY <1>1, <1>2, <1>3, <1>4 DEF LaunchInv

\* The record keeps the types and the launch's hold.
LEMMA RecordOutcomeKeepsLaunch ==
    ASSUME LaunchAssumption, LaunchTypeOK, LaunchInv, RecordOutcomeEffect
    PROVE  LaunchTypeOK' /\ LaunchInv'
<1>1. LaunchTypeOK'
  BY DEF RecordOutcomeEffect, Moves, LaunchTypeOK, JobsTypeOK
<1>2. LaunchHoldsLast'
  BY DEF RecordOutcomeEffect, Moves, LaunchInv, LaunchHoldsLast, LaunchStep, Making, LaunchesJob, Holding,
       NewlyAccepted, Chat
<1>3. RegistrationFollows'
  BY LaunchIsTyped DEF RecordOutcomeEffect, Moves, LaunchAssumption, LaunchInv,
       RegistrationFollows, Registrations, Chat, NewlyAccepted
<1>4. JobsInOrder'
  BY DEF RecordOutcomeEffect, Moves, LaunchInv, JobsInOrder, LaunchesJob, Holding, LaunchStep, NewlyAccepted, Making,
       Unsent, Jobs, NoJob
<1> QED
  BY <1>1, <1>2, <1>3, <1>4 DEF LaunchInv

\* Giving the lock back keeps the types and the launch's hold.
LEMMA NotLaunchedKeepsLaunch ==
    ASSUME LaunchAssumption, LaunchTypeOK, LaunchInv, NotLaunchedEffect
    PROVE  LaunchTypeOK' /\ LaunchInv'
<1>1. LaunchTypeOK'
  BY DEF NotLaunchedEffect, Tells, LaunchTypeOK, JobsTypeOK
<1>2. LaunchHoldsLast'
  BY DEF NotLaunchedEffect, Tells, LaunchInv, LaunchHoldsLast, LaunchStep, Making, LaunchesJob, Holding,
       NewlyAccepted, Chat
<1>3. RegistrationFollows'
  BY LaunchIsTyped DEF NotLaunchedEffect, Tells, LaunchAssumption, LaunchInv, RegistrationFollows,
       Registrations, Chat, NewlyAccepted
<1>4. JobsInOrder'
  BY DEF NotLaunchedEffect, Tells, LaunchInv, JobsInOrder, LaunchesJob, Holding, LaunchStep, NewlyAccepted, Making,
       Unsent, Jobs, NoJob
<1> QED
  BY <1>1, <1>2, <1>3, <1>4 DEF LaunchInv

\* Ending the detached turn keeps the types and the launch's hold.
LEMMA SupersedeKeepsLaunch ==
    ASSUME LaunchAssumption, LaunchTypeOK, LaunchInv, SupersedeEffect
    PROVE  LaunchTypeOK' /\ LaunchInv'
<1>1. LaunchTypeOK'
  BY DEF SupersedeEffect, Moves, JobsTypeOK, Ended, Untouched, LaunchTypeOK
<1>2. LaunchHoldsLast'
  <2>1. launch.job = made /\ made # NoJob
    BY DEF SupersedeEffect, LaunchInv, LaunchHoldsLast, Holding, LaunchStep
  <2>2. \A j \in Jobs : job'[j].cmd = job[j].cmd
    BY DEF SupersedeEffect, Untouched, Ended
  <2> QED
    BY <2>1, <2>2 DEF SupersedeEffect, Moves, LaunchInv, LaunchHoldsLast, LaunchStep, LaunchesJob, Holding,
                      NewlyAccepted, Chat, Making
<1>3. RegistrationFollows'
  BY LaunchIsTyped DEF SupersedeEffect, Moves, JobsTypeOK, Ended, Untouched, LaunchAssumption,
       LaunchInv, RegistrationFollows, Registrations, Chat, NewlyAccepted
<1>4. JobsInOrder'
  <2>1. OnlyEnds
    BY DEF SupersedeEffect, OnlyEnds, Untouched
  <2> QED
    BY <2>1, EndsKeepOrder DEF SupersedeEffect, Moves, LaunchInv, LaunchTypeOK, LaunchesJob, Holding, LaunchStep, Unsent, Making
<1> QED
  BY <1>1, <1>2, <1>3, <1>4 DEF LaunchInv

\* Publishing keeps the types and the launch's hold.
LEMMA PublishTurnKeepsLaunch ==
    ASSUME LaunchAssumption, LaunchTypeOK, LaunchInv, PublishTurnEffect
    PROVE  LaunchTypeOK' /\ LaunchInv'
<1>1. LaunchTypeOK'
  BY DEF PublishTurnEffect, JobsTypeOK, Tells, Ended, Untouched, LaunchTypeOK
<1>2. LaunchHoldsLast'
  BY DEF PublishTurnEffect, JobsTypeOK, Tells, Ended, Untouched, LaunchInv, LaunchHoldsLast,
       LaunchStep, Making, LaunchesJob, Holding, NewlyAccepted, Chat
<1>3. RegistrationFollows'
  <2>1. \A j \in Jobs : [job |-> j] # [job |-> NoJob]
    BY DEF Jobs, NoJob
  <2>2. active' # [job |-> NoJob]
    <3>1. NoTurn # [job |-> NoJob]
      BY DEF LaunchAssumption, Registrations
    <3>2. launch # NoLaunch /\ Chat
      BY DEF PublishTurnEffect, LaunchInv, LaunchHoldsLast, Holding, LaunchStep
    <3>3. active = IF launch.cancelled THEN NoTurn ELSE [job |-> NoJob]
      BY <3>2 DEF LaunchInv, RegistrationFollows
    <3> QED
      BY <2>1, <3>1, <3>3 DEF PublishTurnEffect
  <2> QED
    BY <2>2 DEF PublishTurnEffect, RegistrationFollows
<1>4. JobsInOrder'
  <2>1. OnlyEnds
    BY DEF PublishTurnEffect, OnlyEnds, Untouched
  <2> QED
    BY <2>1, EndsKeepOrder DEF PublishTurnEffect, LaunchInv, LaunchTypeOK, LaunchesJob, Holding, LaunchStep, Unsent, Making
<1> QED
  BY <1>1, <1>2, <1>3, <1>4 DEF LaunchInv

\* A cancellation keeps the types and the launch's hold.
LEMMA CancelChatKeepsLaunch ==
    ASSUME LaunchAssumption, LaunchTypeOK, LaunchInv, CancelChatEffect
    PROVE  LaunchTypeOK' /\ LaunchInv'
<1>1. LaunchTypeOK'
  <2>1. CASE launch' = launch
    BY <2>1 DEF CancelChatEffect, LaunchTypeOK, JobsTypeOK
  <2>2. CASE launch' \in Launches
    BY <2>2 DEF CancelChatEffect, LaunchTypeOK, JobsTypeOK
  <2> QED
    BY <2>1, <2>2 DEF CancelChatEffect
<1>2. LaunchHoldsLast'
  <2>1. \A j \in Jobs : job'[j].cmd = job[j].cmd
    BY DEF CancelChatEffect, Untouched, Ended
  <2> QED
    BY <2>1 DEF CancelChatEffect, LaunchInv, LaunchHoldsLast, LaunchStep, LaunchesJob, Holding,
                NewlyAccepted, Chat, Making
<1>3. RegistrationFollows'
  <2>1. /\ active # NoTurn /\ active' = NoTurn
        /\ \/ /\ launch # NoLaunch /\ Chat /\ launch' # NoLaunch
              /\ launch'.cmd = launch.cmd /\ launch'.cancelled = TRUE
              /\ launch'.previous = launch.previous
           \/ active # [job |-> NoJob] /\ launch' = launch
    BY DEF CancelChatEffect
  <2> QED
    BY <2>1 DEF LaunchAssumption, LaunchInv, RegistrationFollows, Registrations, Chat
<1>4. JobsInOrder'
  <2>1. OnlyEnds
    BY DEF CancelChatEffect, OnlyEnds, Untouched
  <2> QED
    BY <2>1, EndsKeepOrder DEF CancelChatEffect, NewlyAccepted, LaunchInv, LaunchTypeOK, LaunchesJob, Holding, LaunchStep, Unsent, Making
<1> QED
  BY <1>1, <1>2, <1>3, <1>4 DEF LaunchInv

\* Forgetting a turn keeps the types and the launch's hold.
LEMMA ForgetChatKeepsLaunch ==
    ASSUME LaunchAssumption, LaunchTypeOK, LaunchInv, ForgetChat
    PROVE  LaunchTypeOK' /\ LaunchInv'
<1>1. LaunchTypeOK'
  BY DEF ForgetChat, chatVars, LaunchTypeOK, JobsTypeOK
<1>2. LaunchHoldsLast'
  BY DEF ForgetChat, chatVars, LaunchInv, LaunchHoldsLast, LaunchStep, Making, LaunchesJob, Holding,
       NewlyAccepted, Chat
<1>3. RegistrationFollows'
  BY LaunchIsTyped DEF ForgetChat, chatVars, LaunchAssumption, LaunchInv, RegistrationFollows,
       Registrations, Chat, NewlyAccepted
<1>4. JobsInOrder'
  BY DEF ForgetChat, chatVars, LaunchInv, JobsInOrder, LaunchesJob, Holding, LaunchStep, NewlyAccepted,
       Making, Unsent,
       Jobs, NoJob
<1> QED
  BY <1>1, <1>2, <1>3, <1>4 DEF LaunchInv

\* The worker keeps the types and the launch's hold.
LEMMA WorkKeepsLaunch ==
    ASSUME LaunchAssumption, LaunchTypeOK, LaunchInv, NEW i \in Jobs, NEW completed \in BOOLEAN,
           WorkEffect(i, completed)
    PROVE  LaunchTypeOK' /\ LaunchInv'
<1>1. LaunchTypeOK'
  BY DEF WorkEffect, JobsTypeOK, Ended, Untouched, LaunchTypeOK
<1>2. LaunchHoldsLast'
  BY DEF WorkEffect, JobsTypeOK, Ended, Untouched, LaunchInv, LaunchHoldsLast, LaunchStep, Making,
       LaunchesJob, Holding, NewlyAccepted, Chat
<1>3. RegistrationFollows'
  BY LaunchIsTyped DEF WorkEffect, JobsTypeOK, Ended, Untouched, LaunchAssumption, LaunchInv,
       RegistrationFollows, Registrations, Chat, NewlyAccepted
<1>4. JobsInOrder'
  <2>1. OnlyEnds
    BY DEF WorkEffect, OnlyEnds, Untouched
  <2> QED
    BY <2>1, EndsKeepOrder DEF WorkEffect, NewlyAccepted, LaunchInv, LaunchTypeOK, LaunchesJob, Holding, LaunchStep, Unsent, Making
<1> QED
  BY <1>1, <1>2, <1>3, <1>4 DEF LaunchInv

\* The recovery keeps the types and the launch's hold.
LEMMA RequeueKeepsLaunch ==
    ASSUME LaunchAssumption, LaunchTypeOK, LaunchInv, NEW i \in Jobs, RequeueEffect(i)
    PROVE  LaunchTypeOK' /\ LaunchInv'
<1>1. LaunchTypeOK'
  BY DEF RequeueEffect, TurnAccepted, LaunchTypeOK, JobsTypeOK
<1>2. LaunchHoldsLast'
  BY DEF RequeueEffect, TurnAccepted, LaunchInv, LaunchHoldsLast, LaunchStep, Making, LaunchesJob, Holding,
       NewlyAccepted, Chat
<1>3. RegistrationFollows'
  BY LaunchIsTyped DEF RequeueEffect, TurnAccepted, LaunchAssumption, LaunchInv,
       RegistrationFollows, Registrations, Chat, NewlyAccepted
<1>4. JobsInOrder'
  <2>1. \A k \in Jobs : user[k] = "none" => user'[k] = "none"
    BY DEF RequeueEffect, TurnAccepted, Becomes
  <2>2. lane' \cup recovering' \subseteq lane \cup recovering
    BY DEF RequeueEffect
  <2> QED
    BY <2>1, <2>2 DEF RequeueEffect, LaunchInv, JobsInOrder, LaunchesJob, Holding, LaunchStep, NewlyAccepted, Making, Unsent
<1> QED
  BY <1>1, <1>2, <1>3, <1>4 DEF LaunchInv

\* A crash keeps the types and the launch's hold.
LEMMA CrashKeepsLaunch ==
    ASSUME LaunchAssumption, LaunchTypeOK, LaunchInv, Crash
    PROVE  LaunchTypeOK' /\ LaunchInv'
<1>1. LaunchTypeOK'
  <2>1. crashes' \in Nat /\ survivors' \subseteq Jobs
    BY DEF Crash, LaunchTypeOK
  <2> QED
    BY <2>1 DEF Crash, chatVars, LaunchTypeOK
<1>2. LaunchHoldsLast'
  BY DEF Crash, chatVars, LaunchInv, LaunchHoldsLast, LaunchStep, Making, LaunchesJob, Holding,
       NewlyAccepted, Chat
<1>3. RegistrationFollows'
  BY LaunchIsTyped DEF Crash, chatVars, LaunchAssumption, LaunchInv, RegistrationFollows,
       Registrations, Chat, NewlyAccepted
<1>4. JobsInOrder'
  BY DEF Crash, chatVars, LaunchInv, JobsInOrder, LaunchesJob, Holding, LaunchStep, NewlyAccepted,
       Making, Unsent,
       Jobs, NoJob
<1> QED
  BY <1>1, <1>2, <1>3, <1>4 DEF LaunchInv

---------------------------------------------------------------------------------
(* The records of commands. *)

\* A row has its columns.
LEMMA RowHas ==
    \A hash, outcome, j : /\ Row(hash, outcome, j).hash = hash /\ Row(hash, outcome, j).job = j
                          /\ Row(hash, outcome, j).outcome = outcome
BY DEF Row

\* A row is not the absence of one.
LEMMA RowIsNotNoRow ==
    ASSUME LaunchAssumption, LaunchTypeOK, launch # NoLaunch,
           NEW outcome \in Outcomes, NEW j \in Jobs \cup {NoJob}
    PROVE  Row(launch.hash, outcome, j) # NoRow
<1>1. launch.hash \in Contents
  BY LaunchIsTyped
<1>2. Row(launch.hash, outcome, j) \in Rows
  BY <1>1 DEF Row, Rows
<1> QED
  BY <1>2 DEF LaunchAssumption

\* Taking the lock keeps the records of commands.
LEMMA RegisterKeepsCommands ==
    ASSUME LaunchAssumption, LaunchTypeOK, LaunchInv, CommandInv,
           NEW c \in Commands, NEW hash \in Contents, RegisterEffect(c, hash)
    PROVE  CommandInv'
<1>1. \A j \in Jobs : job'[j].cmd = job[j].cmd
  BY DEF RegisterEffect
<1>2. LaunchFindsNothing'
  BY DEF RegisterEffect, CommandInv, LaunchFindsNothing, LaunchStep, Making
<1>3. LaunchWritesItsOwn'
  BY DEF RegisterEffect, CommandInv, LaunchFindsNothing, LaunchWritesItsOwn, Holding, LaunchStep,
       Making, NewlyAccepted, Row
<1>4. LaunchStagesItsTurn'
  BY DEF RegisterEffect, CommandInv, LaunchStagesItsTurn, Holding, LaunchStep, Making,
       NewlyAccepted, Chat
<1>5. TurnsAreLast'
  BY <1>1 DEF RegisterEffect, CommandInv, TurnsAreLast, LaunchTypeOK, TurnRows, LastOf
<1>6. RecordsAreLast'
  BY <1>1 DEF RegisterEffect, CommandInv, RecordsAreLast, LastOf, Row
<1>7. RepliesAreLast'
  BY <1>1 DEF RegisterEffect, CommandInv, RecordsAreLast, RepliesAreLast, LaunchStep, LastOf
<1>8. AnswersAreLast'
  BY <1>1 DEF RegisterEffect, CommandInv, AnswersAreLast, LastOf
<1> QED
  BY <1>2, <1>3, <1>4, <1>5, <1>6, <1>7, <1>8 DEF CommandInv

\* The lookup keeps the records of commands.
LEMMA LookupKeepsCommands ==
    ASSUME LaunchAssumption, LaunchTypeOK, LaunchInv, CommandInv, LookupEffect
    PROVE  CommandInv'
<1>1. \A j \in Jobs : job'[j].cmd = job[j].cmd
  BY DEF LookupEffect, Moves
<1>2. LaunchFindsNothing'
  BY DEF LookupEffect, Moves, CommandInv, LaunchFindsNothing, LaunchStep, Making
<1>3. LaunchWritesItsOwn'
  BY DEF LookupEffect, Moves, CommandInv, LaunchFindsNothing, LaunchWritesItsOwn, Holding,
       LaunchStep, Making, NewlyAccepted, Row
<1>4. LaunchStagesItsTurn'
  BY DEF LookupEffect, Moves, CommandInv, LaunchStagesItsTurn, Holding, LaunchStep, Making,
       NewlyAccepted, Chat
<1>5. TurnsAreLast'
  BY <1>1 DEF LookupEffect, Moves, CommandInv, TurnsAreLast, LaunchTypeOK, TurnRows, LastOf
<1>6. RecordsAreLast'
  BY <1>1 DEF LookupEffect, Moves, CommandInv, RecordsAreLast, LastOf, Row
<1>7. RepliesAreLast'
  <2>1. launch.cmd \in Commands
    BY LaunchIsTyped DEF LookupEffect
  <2> QED
    BY <1>1, <2>1 DEF LookupEffect, Moves, CommandInv, RecordsAreLast, RepliesAreLast, LaunchStep, LastOf
<1>8. AnswersAreLast'
  BY <1>1 DEF LookupEffect, Moves, CommandInv, AnswersAreLast, LastOf
<1> QED
  BY <1>2, <1>3, <1>4, <1>5, <1>6, <1>7, <1>8 DEF CommandInv

\* A new runtime keeps the records of commands.
LEMMA StartRuntimeKeepsCommands ==
    ASSUME LaunchAssumption, LaunchTypeOK, LaunchInv, CommandInv, StartRuntimeEffect
    PROVE  CommandInv'
<1>1. \A j \in Jobs : job'[j].cmd = job[j].cmd
  BY DEF StartRuntimeEffect, Moves
<1>2. LaunchFindsNothing'
  BY DEF StartRuntimeEffect, Moves, CommandInv, LaunchFindsNothing, LaunchStep, Making
<1>3. LaunchWritesItsOwn'
  BY DEF StartRuntimeEffect, Moves, CommandInv, LaunchFindsNothing, LaunchWritesItsOwn, Holding,
       LaunchStep, Making, NewlyAccepted, Row
<1>4. LaunchStagesItsTurn'
  BY DEF StartRuntimeEffect, Moves, CommandInv, LaunchStagesItsTurn, Holding, LaunchStep, Making,
       NewlyAccepted, Chat
<1>5. TurnsAreLast'
  BY <1>1 DEF StartRuntimeEffect, Moves, CommandInv, TurnsAreLast, LaunchTypeOK, TurnRows, LastOf
<1>6. RecordsAreLast'
  BY <1>1 DEF StartRuntimeEffect, Moves, CommandInv, RecordsAreLast, LastOf, Row
<1>7. RepliesAreLast'
  BY <1>1 DEF StartRuntimeEffect, Moves, CommandInv, RecordsAreLast, RepliesAreLast, LaunchStep,
       LastOf
<1>8. AnswersAreLast'
  BY <1>1 DEF StartRuntimeEffect, Moves, CommandInv, AnswersAreLast, LastOf
<1> QED
  BY <1>2, <1>3, <1>4, <1>5, <1>6, <1>7, <1>8 DEF CommandInv

\* A refusal keeps the records of commands.
LEMMA RefuseLaunchKeepsCommands ==
    ASSUME LaunchAssumption, LaunchTypeOK, LaunchInv, CommandInv,
           NEW outcome \in {"failed", "rejected"}, RefuseLaunchEffect(outcome)
    PROVE  CommandInv'
<1>1. \A j \in Jobs : job'[j].cmd = job[j].cmd
  BY DEF RefuseLaunchEffect, Moves
<1>2. LaunchFindsNothing'
  BY DEF RefuseLaunchEffect, Moves, CommandInv, LaunchFindsNothing, LaunchStep, Making
<1>3. LaunchWritesItsOwn'
  BY DEF RefuseLaunchEffect, Moves, CommandInv, LaunchFindsNothing, LaunchWritesItsOwn, Holding,
       LaunchStep, Making, NewlyAccepted, Row
<1>4. LaunchStagesItsTurn'
  BY DEF RefuseLaunchEffect, Moves, CommandInv, LaunchStagesItsTurn, Holding, LaunchStep, Making,
       NewlyAccepted, Chat
<1>5. TurnsAreLast'
  BY <1>1 DEF RefuseLaunchEffect, Moves, CommandInv, TurnsAreLast, LaunchTypeOK, TurnRows, LastOf
<1>6. RecordsAreLast'
  BY <1>1 DEF RefuseLaunchEffect, Moves, CommandInv, RecordsAreLast, LastOf, Row
<1>7. RepliesAreLast'
  BY <1>1 DEF RefuseLaunchEffect, Moves, CommandInv, RecordsAreLast, RepliesAreLast, LaunchStep,
       LastOf
<1>8. AnswersAreLast'
  <2>1. Row(launch.hash, outcome, NoJob) # NoRow
    BY RowIsNotNoRow DEF RefuseLaunchEffect, Outcomes
  <2> QED
    BY <1>1, <2>1 DEF RefuseLaunchEffect, CommandInv, AnswersAreLast, LastOf
<1> QED
  BY <1>2, <1>3, <1>4, <1>5, <1>6, <1>7, <1>8 DEF CommandInv

\* An error keeps the records of commands.
LEMMA LaunchErrsKeepsCommands ==
    ASSUME LaunchAssumption, LaunchTypeOK, LaunchInv, CommandInv, LaunchErrsEffect
    PROVE  CommandInv'
<1>1. \A j \in Jobs : job'[j].cmd = job[j].cmd
  BY DEF LaunchErrsEffect, Moves
<1>2. LaunchFindsNothing'
  BY DEF LaunchErrsEffect, Moves, CommandInv, LaunchFindsNothing, LaunchStep, Making
<1>3. LaunchWritesItsOwn'
  BY DEF LaunchErrsEffect, Moves, CommandInv, LaunchFindsNothing, LaunchWritesItsOwn, Holding,
       LaunchStep, Making, NewlyAccepted, Row
<1>4. LaunchStagesItsTurn'
  BY DEF LaunchErrsEffect, Moves, CommandInv, LaunchStagesItsTurn, Holding, LaunchStep, Making,
       NewlyAccepted, Chat
<1>5. TurnsAreLast'
  BY <1>1 DEF LaunchErrsEffect, Moves, CommandInv, TurnsAreLast, LaunchTypeOK, TurnRows, LastOf
<1>6. RecordsAreLast'
  BY <1>1 DEF LaunchErrsEffect, Moves, CommandInv, RecordsAreLast, LastOf, Row
<1>7. RepliesAreLast'
  BY <1>1 DEF LaunchErrsEffect, Moves, CommandInv, RecordsAreLast, RepliesAreLast, LaunchStep,
       LastOf
<1>8. AnswersAreLast'
  BY <1>1 DEF LaunchErrsEffect, Moves, CommandInv, AnswersAreLast, LastOf
<1> QED
  BY <1>2, <1>3, <1>4, <1>5, <1>6, <1>7, <1>8 DEF CommandInv

\* The Job made keeps the records of commands.
LEMMA CreateJobKeepsCommands ==
    ASSUME LaunchAssumption, LaunchTypeOK, LaunchInv, CommandInv, CreateJobEffect
    PROVE  CommandInv'
<1>1. \A j \in Jobs : job'[j].cmd = job[j].cmd \/ job'[j].cmd = launch.cmd
  BY DEF CreateJobEffect
<1>2. /\ launch # NoLaunch /\ launch.step = "configure" /\ launch.cmd \in Commands
      /\ command[launch.cmd] = NoRow /\ turn[launch.cmd] = NoRow
  BY LaunchIsTyped DEF CreateJobEffect, CommandInv, LaunchFindsNothing, LaunchStep
<1>3. \A c \in Commands \ {launch.cmd} : \A j \in Jobs : job[j].cmd = c => job'[j] = job[j]
  <2>1. job[made'].cmd = NoRow
    BY DEF CreateJobEffect, LaunchInv, JobsInOrder, Jobs
  <2> QED
    BY <2>1 DEF CreateJobEffect, LaunchAssumption
<1>4. \A c \in Commands \ {launch.cmd} : \A k : LastOf(c, k) => LastOf(c, k)'
  BY <1>1 DEF LastOf
<1>5. LaunchFindsNothing'
  BY DEF CreateJobEffect, Moves, CommandInv, LaunchFindsNothing, LaunchStep, Making
<1>6. LaunchWritesItsOwn'
  BY DEF CreateJobEffect, Moves, CommandInv, LaunchFindsNothing, LaunchWritesItsOwn, Holding,
       LaunchStep, Making, NewlyAccepted, Row
<1>7. LaunchStagesItsTurn'
  BY DEF CreateJobEffect, Moves, CommandInv, LaunchStagesItsTurn, Holding, LaunchStep, Making,
       NewlyAccepted, Chat
<1>8. TurnsAreLast'
  <2>1. ASSUME NEW c \in Commands, turn'[c] # NoRow
        PROVE  c \in ChatCommands /\ job'[turn'[c].job].cmd = c /\ LastOf(c, turn[c].job)'
    <3>1. turn' = turn /\ turn[c] # NoRow /\ c # launch.cmd
      BY <2>1, <1>2 DEF CreateJobEffect
    <3>2. turn[c].job \in Jobs
      BY <3>1 DEF LaunchTypeOK, TurnRows
    <3>3. c \in ChatCommands /\ job[turn[c].job].cmd = c /\ LastOf(c, turn[c].job)
      BY <3>1 DEF CommandInv, TurnsAreLast
    <3> QED
      BY <1>3, <1>4, <3>1, <3>2, <3>3
  <2> QED
    BY <2>1 DEF CreateJobEffect, TurnsAreLast, LastOf
<1>9. RecordsAreLast'
  BY <1>2, <1>4 DEF CreateJobEffect, CommandInv, RecordsAreLast, LaunchTypeOK, Rows
<1>10. RepliesAreLast'
  BY <1>1 DEF CreateJobEffect, Moves, CommandInv, RecordsAreLast, RepliesAreLast, LaunchStep,
       LastOf
<1>11. AnswersAreLast'
  BY <1>2, <1>4 DEF CreateJobEffect, CommandInv, AnswersAreLast, LaunchTypeOK, Rows
<1> QED
  BY <1>5, <1>6, <1>7, <1>8, <1>9, <1>10, <1>11 DEF CommandInv

\* The Attempt keeps the records of commands.
LEMMA DispatchJobKeepsCommands ==
    ASSUME LaunchAssumption, LaunchTypeOK, LaunchInv, CommandInv, DispatchJobEffect
    PROVE  CommandInv'
<1>1. \A j \in Jobs : job'[j].cmd = job[j].cmd
  BY DEF DispatchJobEffect, Moves, JobMoves
<1>2. LaunchFindsNothing'
  BY DEF DispatchJobEffect, Moves, JobMoves, CommandInv, LaunchFindsNothing, LaunchStep, Making
<1>3. LaunchWritesItsOwn'
  BY DEF DispatchJobEffect, Moves, JobMoves, CommandInv, LaunchFindsNothing, LaunchWritesItsOwn,
       Holding, LaunchStep, Making, NewlyAccepted, Row
<1>4. LaunchStagesItsTurn'
  BY DEF DispatchJobEffect, Moves, JobMoves, CommandInv, LaunchStagesItsTurn, Holding, LaunchStep,
       Making, NewlyAccepted, Chat
<1>5. TurnsAreLast'
  BY <1>1 DEF DispatchJobEffect, Moves, JobMoves, CommandInv, TurnsAreLast, LaunchTypeOK,
       TurnRows, LastOf
<1>6. RecordsAreLast'
  BY <1>1 DEF DispatchJobEffect, Moves, JobMoves, CommandInv, RecordsAreLast, LastOf, Row
<1>7. RepliesAreLast'
  BY <1>1 DEF DispatchJobEffect, Moves, JobMoves, CommandInv, RecordsAreLast, RepliesAreLast,
       LaunchStep, LastOf
<1>8. AnswersAreLast'
  BY <1>1 DEF DispatchJobEffect, Moves, JobMoves, CommandInv, AnswersAreLast, LastOf
<1> QED
  BY <1>2, <1>3, <1>4, <1>5, <1>6, <1>7, <1>8 DEF CommandInv

\* Staging keeps the records of commands.
LEMMA PrepareTurnKeepsCommands ==
    ASSUME LaunchAssumption, LaunchTypeOK, LaunchInv, CommandInv, PrepareTurnEffect
    PROVE  CommandInv'
<1>1. \A j \in Jobs : job'[j].cmd = job[j].cmd
  BY DEF PrepareTurnEffect, Moves, JobMoves
<1>2. LaunchFindsNothing'
  BY DEF PrepareTurnEffect, Moves, JobMoves, CommandInv, LaunchFindsNothing, LaunchStep, Making
<1>3. LaunchWritesItsOwn'
  BY DEF PrepareTurnEffect, Moves, JobMoves, CommandInv, LaunchFindsNothing, LaunchWritesItsOwn,
       Holding, LaunchStep, Making, NewlyAccepted, Row
<1>4. LaunchStagesItsTurn'
  BY DEF PrepareTurnEffect, Moves, JobMoves, CommandInv, LaunchStagesItsTurn, Holding, LaunchStep,
       Making, NewlyAccepted, Chat
<1>5. TurnsAreLast'
  <2>1. /\ launch.cmd \in ChatCommands /\ job[made].cmd = launch.cmd /\ launch.cmd # NoRow
        /\ made \in Jobs
    BY LaunchIsTyped DEF PrepareTurnEffect, LaunchInv, LaunchHoldsLast, LaunchStep, Holding,
                         LaunchesJob, Making, Chat, LaunchAssumption
  <2>2. LastOf(launch.cmd, made)
    BY <2>1 DEF LaunchInv, JobsInOrder, LastOf
  <2>3. \A c \in Commands : turn'[c] = turn[c] \/ (c = launch.cmd /\ turn'[c].job = made)
    <3>1. CASE turn' = turn
      BY <3>1
    <3>2. CASE /\ turn'[launch.cmd] = [hash |-> launch.hash, job |-> made]
               /\ \A c \in Commands \ {launch.cmd} : turn'[c] = turn[c]
      BY <3>2
    <3> QED
      BY <3>1, <3>2 DEF PrepareTurnEffect
  <2> QED
    BY <1>1, <2>1, <2>2, <2>3 DEF CommandInv, TurnsAreLast, LaunchTypeOK, TurnRows, LastOf
<1>6. RecordsAreLast'
  BY <1>1 DEF PrepareTurnEffect, Moves, JobMoves, CommandInv, RecordsAreLast, LastOf, Row
<1>7. RepliesAreLast'
  BY <1>1 DEF PrepareTurnEffect, Moves, JobMoves, CommandInv, RecordsAreLast, RepliesAreLast,
       LaunchStep, LastOf
<1>8. AnswersAreLast'
  BY <1>1 DEF PrepareTurnEffect, Moves, JobMoves, CommandInv, AnswersAreLast, LastOf
<1> QED
  BY <1>2, <1>3, <1>4, <1>5, <1>6, <1>7, <1>8 DEF CommandInv

\* The Call keeps the records of commands.
LEMMA CreateCallKeepsCommands ==
    ASSUME LaunchAssumption, LaunchTypeOK, LaunchInv, CommandInv, CreateCallEffect
    PROVE  CommandInv'
<1>1. \A j \in Jobs : job'[j].cmd = job[j].cmd
  BY DEF CreateCallEffect, Moves, JobMoves
<1>2. LaunchFindsNothing'
  BY DEF CreateCallEffect, Moves, JobMoves, CommandInv, LaunchFindsNothing, LaunchStep, Making
<1>3. LaunchWritesItsOwn'
  BY DEF CreateCallEffect, Moves, JobMoves, CommandInv, LaunchFindsNothing, LaunchWritesItsOwn,
       Holding, LaunchStep, Making, NewlyAccepted, Row
<1>4. LaunchStagesItsTurn'
  BY DEF CreateCallEffect, Moves, JobMoves, CommandInv, LaunchStagesItsTurn, Holding, LaunchStep,
       Making, NewlyAccepted, Chat
<1>5. TurnsAreLast'
  BY <1>1 DEF CreateCallEffect, Moves, JobMoves, CommandInv, TurnsAreLast, LaunchTypeOK, TurnRows,
       LastOf
<1>6. RecordsAreLast'
  BY <1>1 DEF CreateCallEffect, Moves, JobMoves, CommandInv, RecordsAreLast, LastOf, Row
<1>7. RepliesAreLast'
  BY <1>1 DEF CreateCallEffect, Moves, JobMoves, CommandInv, RecordsAreLast, RepliesAreLast,
       LaunchStep, LastOf
<1>8. AnswersAreLast'
  BY <1>1 DEF CreateCallEffect, Moves, JobMoves, CommandInv, AnswersAreLast, LastOf
<1> QED
  BY <1>2, <1>3, <1>4, <1>5, <1>6, <1>7, <1>8 DEF CommandInv

\* The admission keeps the records of commands.
LEMMA AdmitCallKeepsCommands ==
    ASSUME LaunchAssumption, LaunchTypeOK, LaunchInv, CommandInv, AdmitCallEffect
    PROVE  CommandInv'
<1>1. \A j \in Jobs : job'[j].cmd = job[j].cmd
  BY DEF AdmitCallEffect, Moves, JobMoves
<1>2. LaunchFindsNothing'
  BY DEF AdmitCallEffect, Moves, JobMoves, CommandInv, LaunchFindsNothing, LaunchStep, Making
<1>3. LaunchWritesItsOwn'
  BY DEF AdmitCallEffect, Moves, JobMoves, CommandInv, LaunchFindsNothing, LaunchWritesItsOwn,
       Holding, LaunchStep, Making, NewlyAccepted, Row
<1>4. LaunchStagesItsTurn'
  BY DEF AdmitCallEffect, Moves, JobMoves, CommandInv, LaunchStagesItsTurn, Holding, LaunchStep,
       Making, NewlyAccepted, Chat
<1>5. TurnsAreLast'
  BY <1>1 DEF AdmitCallEffect, Moves, JobMoves, CommandInv, TurnsAreLast, LaunchTypeOK, TurnRows,
       LastOf
<1>6. RecordsAreLast'
  BY <1>1 DEF AdmitCallEffect, Moves, JobMoves, CommandInv, RecordsAreLast, LastOf, Row
<1>7. RepliesAreLast'
  BY <1>1 DEF AdmitCallEffect, Moves, JobMoves, CommandInv, RecordsAreLast, RepliesAreLast,
       LaunchStep, LastOf
<1>8. AnswersAreLast'
  BY <1>1 DEF AdmitCallEffect, Moves, JobMoves, CommandInv, AnswersAreLast, LastOf
<1> QED
  BY <1>2, <1>3, <1>4, <1>5, <1>6, <1>7, <1>8 DEF CommandInv

\* Accepting the turn keeps the records of commands.
LEMMA AcceptKeepsCommands ==
    ASSUME LaunchAssumption, LaunchTypeOK, LaunchInv, CommandInv, AcceptEffect
    PROVE  CommandInv'
<1>1. \A j \in Jobs : job'[j].cmd = job[j].cmd
  BY DEF AcceptEffect, Moves, TurnAccepted
<1>2. LaunchFindsNothing'
  BY DEF AcceptEffect, Moves, TurnAccepted, CommandInv, LaunchFindsNothing, LaunchStep, Making
<1>3. LaunchWritesItsOwn'
  <2>1. launch # NoLaunch /\ launch.step = "accept" /\ Holding /\ job[made].cmd = launch.cmd
        /\ launch.job = made /\ launch.cmd \in Commands
    BY LaunchIsTyped DEF AcceptEffect, LaunchInv, LaunchHoldsLast, LaunchesJob, Holding, LaunchStep, Making
  <2>2. command'[launch.cmd] # NoRow =>
            command'[launch.cmd].hash = launch.hash /\ command'[launch.cmd].job = made
    BY <2>1 DEF AcceptEffect, TurnAccepted, CommandInv, LaunchWritesItsOwn, LaunchStagesItsTurn,
                Holding, LaunchStep, Chat, Row
  <2> QED
    BY <2>2 DEF AcceptEffect, Moves, LaunchWritesItsOwn
<1>4. LaunchStagesItsTurn'
  BY DEF AcceptEffect, Moves, TurnAccepted, CommandInv, LaunchStagesItsTurn, Holding, LaunchStep,
       Making, NewlyAccepted, Chat
<1>5. TurnsAreLast'
  BY <1>1 DEF AcceptEffect, Moves, TurnAccepted, CommandInv, TurnsAreLast, LaunchTypeOK, TurnRows,
       LastOf
<1>6. RecordsAreLast'
  BY <1>1 DEF AcceptEffect, TurnAccepted, CommandInv, TurnsAreLast, RecordsAreLast, LastOf, Row
<1>7. RepliesAreLast'
  BY <1>1 DEF AcceptEffect, Moves, TurnAccepted, CommandInv, RecordsAreLast, RepliesAreLast,
       LaunchStep, LastOf
<1>8. AnswersAreLast'
  BY <1>1 DEF AcceptEffect, Moves, TurnAccepted, CommandInv, AnswersAreLast, LastOf
<1> QED
  BY <1>2, <1>3, <1>4, <1>5, <1>6, <1>7, <1>8 DEF CommandInv

\* The handoff keeps the records of commands.
LEMMA SendKeepsCommands ==
    ASSUME LaunchAssumption, LaunchTypeOK, LaunchInv, CommandInv, SendEffect
    PROVE  CommandInv'
<1>1. \A j \in Jobs : job'[j].cmd = job[j].cmd
  BY DEF SendEffect, Moves, JobMoves
<1>2. LaunchFindsNothing'
  BY DEF SendEffect, Moves, JobMoves, CommandInv, LaunchFindsNothing, LaunchStep, Making
<1>3. LaunchWritesItsOwn'
  BY DEF SendEffect, Moves, JobMoves, CommandInv, LaunchFindsNothing, LaunchWritesItsOwn, Holding,
       LaunchStep, Making, NewlyAccepted, Row
<1>4. LaunchStagesItsTurn'
  BY DEF SendEffect, Moves, JobMoves, CommandInv, LaunchStagesItsTurn, Holding, LaunchStep,
       Making, NewlyAccepted, Chat
<1>5. TurnsAreLast'
  BY <1>1 DEF SendEffect, Moves, JobMoves, CommandInv, TurnsAreLast, LaunchTypeOK, TurnRows,
       LastOf
<1>6. RecordsAreLast'
  BY <1>1 DEF SendEffect, Moves, JobMoves, CommandInv, RecordsAreLast, LastOf, Row
<1>7. RepliesAreLast'
  BY <1>1 DEF SendEffect, Moves, JobMoves, CommandInv, RecordsAreLast, RepliesAreLast, LaunchStep,
       LastOf
<1>8. AnswersAreLast'
  BY <1>1 DEF SendEffect, Moves, JobMoves, CommandInv, AnswersAreLast, LastOf
<1> QED
  BY <1>2, <1>3, <1>4, <1>5, <1>6, <1>7, <1>8 DEF CommandInv

\* Discarding the question keeps the records of commands.
LEMMA DiscardTurnKeepsCommands ==
    ASSUME LaunchAssumption, LaunchTypeOK, LaunchInv, CommandInv, DiscardTurnEffect
    PROVE  CommandInv'
<1>1. \A j \in Jobs : job'[j].cmd = job[j].cmd
  BY DEF DiscardTurnEffect, Moves
<1>2. LaunchFindsNothing'
  BY DEF DiscardTurnEffect, Moves, CommandInv, LaunchFindsNothing, LaunchStep, Making
<1>3. LaunchWritesItsOwn'
  BY DEF DiscardTurnEffect, Moves, CommandInv, LaunchFindsNothing, LaunchWritesItsOwn, Holding,
       LaunchStep, Making, NewlyAccepted, Row
<1>4. LaunchStagesItsTurn'
  BY DEF DiscardTurnEffect, Moves, CommandInv, LaunchStagesItsTurn, Holding, LaunchStep, Making,
       NewlyAccepted, Chat
<1>5. TurnsAreLast'
  BY <1>1 DEF DiscardTurnEffect, Moves, CommandInv, TurnsAreLast, LaunchTypeOK, TurnRows, LastOf
<1>6. RecordsAreLast'
  BY <1>1 DEF DiscardTurnEffect, Moves, CommandInv, RecordsAreLast, LastOf, Row
<1>7. RepliesAreLast'
  BY <1>1 DEF DiscardTurnEffect, Moves, CommandInv, RecordsAreLast, RepliesAreLast, LaunchStep,
       LastOf
<1>8. AnswersAreLast'
  BY <1>1 DEF DiscardTurnEffect, Moves, CommandInv, AnswersAreLast, LastOf
<1> QED
  BY <1>2, <1>3, <1>4, <1>5, <1>6, <1>7, <1>8 DEF CommandInv

\* Failing the Attempt keeps the records of commands.
LEMMA FailAttemptKeepsCommands ==
    ASSUME LaunchAssumption, LaunchTypeOK, LaunchInv, CommandInv, FailAttemptEffect
    PROVE  CommandInv'
<1>1. \A j \in Jobs : job'[j].cmd = job[j].cmd
  BY DEF FailAttemptEffect, Moves, JobsTypeOK, Ended, Untouched
<1>2. LaunchFindsNothing'
  BY DEF FailAttemptEffect, Moves, JobsTypeOK, Ended, Untouched, CommandInv, LaunchFindsNothing,
       LaunchStep, Making
<1>3. LaunchWritesItsOwn'
  BY DEF FailAttemptEffect, Moves, JobsTypeOK, Ended, Untouched, CommandInv, LaunchFindsNothing,
       LaunchWritesItsOwn, Holding, LaunchStep, Making, NewlyAccepted, Row
<1>4. LaunchStagesItsTurn'
  BY DEF FailAttemptEffect, Moves, JobsTypeOK, Ended, Untouched, CommandInv, LaunchStagesItsTurn,
       Holding, LaunchStep, Making, NewlyAccepted, Chat
<1>5. TurnsAreLast'
  BY <1>1 DEF FailAttemptEffect, Moves, JobsTypeOK, Ended, Untouched, CommandInv, TurnsAreLast,
       LaunchTypeOK, TurnRows, LastOf
<1>6. RecordsAreLast'
  BY <1>1 DEF FailAttemptEffect, Moves, JobsTypeOK, Ended, Untouched, CommandInv, RecordsAreLast,
       LastOf, Row
<1>7. RepliesAreLast'
  BY <1>1 DEF FailAttemptEffect, Moves, JobsTypeOK, Ended, Untouched, CommandInv, RecordsAreLast,
       RepliesAreLast, LaunchStep, LastOf
<1>8. AnswersAreLast'
  BY <1>1 DEF FailAttemptEffect, Moves, JobsTypeOK, Ended, Untouched, CommandInv, AnswersAreLast,
       LastOf
<1> QED
  BY <1>2, <1>3, <1>4, <1>5, <1>6, <1>7, <1>8 DEF CommandInv

\* The record keeps the records of commands.
LEMMA RecordOutcomeKeepsCommands ==
    ASSUME LaunchAssumption, LaunchTypeOK, LaunchInv, CommandInv, RecordOutcomeEffect
    PROVE  CommandInv'
<1>1. \A j \in Jobs : job'[j].cmd = job[j].cmd
  BY DEF RecordOutcomeEffect, Moves
<1>2. LaunchFindsNothing'
  BY DEF RecordOutcomeEffect, Moves, CommandInv, LaunchFindsNothing, LaunchStep, Making
<1>3. LaunchWritesItsOwn'
  BY DEF RecordOutcomeEffect, Moves, CommandInv, LaunchFindsNothing, LaunchWritesItsOwn, Holding,
       LaunchStep, Making, NewlyAccepted, Row
<1>4. LaunchStagesItsTurn'
  BY DEF RecordOutcomeEffect, Moves, CommandInv, LaunchStagesItsTurn, Holding, LaunchStep, Making,
       NewlyAccepted, Chat
<1>5. TurnsAreLast'
  BY <1>1 DEF RecordOutcomeEffect, Moves, CommandInv, TurnsAreLast, LaunchTypeOK, TurnRows, LastOf
<1>6. RecordsAreLast'
  <2>1. /\ launch.cmd \in Commands /\ launch.cmd # NoRow
    BY LaunchIsTyped DEF RecordOutcomeEffect, LaunchAssumption
  <2>2. LastOf(launch.cmd, made)
    BY <2>1 DEF LaunchInv, JobsInOrder, LastOf
  <2>3. \A c \in Commands : command'[c] = command[c] \/ (c = launch.cmd /\ command'[c].job = made)
    <3>1. PICK outcome \in {"accepted", "failed"} :
              \/ command' = command
              \/ /\ command'[launch.cmd] = Row(launch.hash, outcome, made)
                 /\ \A c \in Commands \ {launch.cmd} : command'[c] = command[c]
      BY DEF RecordOutcomeEffect
    <3> QED
      BY <3>1, RowHas
  <2> QED
    BY <1>1, <2>2, <2>3 DEF CommandInv, RecordsAreLast, LastOf
<1>7. RepliesAreLast'
  <2>1. /\ launch.cmd \in Commands /\ launch.cmd # NoRow
        /\ \A outcome \in {"accepted", "failed"} : Row(launch.hash, outcome, made) # NoRow
    BY LaunchIsTyped, RowIsNotNoRow DEF RecordOutcomeEffect, LaunchAssumption, Outcomes
  <2>2. LastOf(launch.cmd, made)
    BY <2>1 DEF LaunchInv, JobsInOrder, LastOf
  <2> QED
    BY <1>1, <2>1, <2>2 DEF RecordOutcomeEffect, Moves, RepliesAreLast, LaunchStep, LastOf
<1>8. AnswersAreLast'
  <2>1. \A outcome \in {"accepted", "failed"} : Row(launch.hash, outcome, made) # NoRow
    BY RowIsNotNoRow DEF RecordOutcomeEffect, Outcomes
  <2>2. \A c \in Commands : command[c] # NoRow => command'[c] # NoRow
    BY <2>1 DEF RecordOutcomeEffect
  <2> QED
    BY <1>1, <2>2 DEF RecordOutcomeEffect, CommandInv, AnswersAreLast, LastOf
<1> QED
  BY <1>2, <1>3, <1>4, <1>5, <1>6, <1>7, <1>8 DEF CommandInv

\* Giving the lock back keeps the records of commands.
LEMMA NotLaunchedKeepsCommands ==
    ASSUME LaunchAssumption, LaunchTypeOK, LaunchInv, CommandInv, NotLaunchedEffect
    PROVE  CommandInv'
<1>1. \A j \in Jobs : job'[j].cmd = job[j].cmd
  BY DEF NotLaunchedEffect, Tells
<1>2. LaunchFindsNothing'
  BY DEF NotLaunchedEffect, Tells, CommandInv, LaunchFindsNothing, LaunchStep, Making
<1>3. LaunchWritesItsOwn'
  BY DEF NotLaunchedEffect, Tells, CommandInv, LaunchFindsNothing, LaunchWritesItsOwn, Holding,
       LaunchStep, Making, NewlyAccepted, Row
<1>4. LaunchStagesItsTurn'
  BY DEF NotLaunchedEffect, Tells, CommandInv, LaunchStagesItsTurn, Holding, LaunchStep, Making,
       NewlyAccepted, Chat
<1>5. TurnsAreLast'
  BY <1>1 DEF NotLaunchedEffect, Tells, CommandInv, TurnsAreLast, LaunchTypeOK, TurnRows, LastOf
<1>6. RecordsAreLast'
  BY <1>1 DEF NotLaunchedEffect, Tells, CommandInv, RecordsAreLast, LastOf, Row
<1>7. RepliesAreLast'
  BY <1>1 DEF NotLaunchedEffect, Tells, CommandInv, RecordsAreLast, RepliesAreLast, LaunchStep,
       LastOf
<1>8. AnswersAreLast'
  <2>1. Told.outcome = "accepted" => command[launch.cmd] # NoRow /\ LastOf(launch.cmd, Told.job)
    BY DEF NotLaunchedEffect, CommandInv, RepliesAreLast, LaunchStep, Told, Row
  <2>2. ASSUME NEW c \in Commands, NEW a \in answers'[c], a.outcome = "accepted"
        PROVE  command[c] # NoRow /\ LastOf(c, a.job)
    <3>1. a \in answers[c] \/ (c = launch.cmd /\ a = Told)
      BY <2>2 DEF NotLaunchedEffect, Tells
    <3> QED
      BY <2>1, <2>2, <3>1 DEF CommandInv, AnswersAreLast
  <2> QED
    BY <1>1, <2>2 DEF NotLaunchedEffect, AnswersAreLast, LastOf
<1> QED
  BY <1>2, <1>3, <1>4, <1>5, <1>6, <1>7, <1>8 DEF CommandInv

\* Ending the detached turn keeps the records of commands.
LEMMA SupersedeKeepsCommands ==
    ASSUME LaunchAssumption, LaunchTypeOK, LaunchInv, CommandInv, SupersedeEffect
    PROVE  CommandInv'
<1>1. \A j \in Jobs : job'[j].cmd = job[j].cmd
  BY DEF SupersedeEffect, Moves, JobsTypeOK, Ended, Untouched
<1>2. LaunchFindsNothing'
  BY DEF SupersedeEffect, Moves, JobsTypeOK, Ended, Untouched, CommandInv, LaunchFindsNothing,
       LaunchStep, Making
<1>3. LaunchWritesItsOwn'
  BY DEF SupersedeEffect, Moves, JobsTypeOK, Ended, Untouched, CommandInv, LaunchFindsNothing,
       LaunchWritesItsOwn, Holding, LaunchStep, Making, NewlyAccepted, Row
<1>4. LaunchStagesItsTurn'
  BY DEF SupersedeEffect, Moves, JobsTypeOK, Ended, Untouched, CommandInv, LaunchStagesItsTurn,
       Holding, LaunchStep, Making, NewlyAccepted, Chat
<1>5. TurnsAreLast'
  BY <1>1 DEF SupersedeEffect, Moves, JobsTypeOK, Ended, Untouched, CommandInv, TurnsAreLast,
       LaunchTypeOK, TurnRows, LastOf
<1>6. RecordsAreLast'
  BY <1>1 DEF SupersedeEffect, Moves, JobsTypeOK, Ended, Untouched, CommandInv, RecordsAreLast,
       LastOf, Row
<1>7. RepliesAreLast'
  BY <1>1 DEF SupersedeEffect, Moves, JobsTypeOK, Ended, Untouched, CommandInv, RecordsAreLast,
       RepliesAreLast, LaunchStep, LastOf
<1>8. AnswersAreLast'
  BY <1>1 DEF SupersedeEffect, Moves, JobsTypeOK, Ended, Untouched, CommandInv, AnswersAreLast,
       LastOf
<1> QED
  BY <1>2, <1>3, <1>4, <1>5, <1>6, <1>7, <1>8 DEF CommandInv

\* Publishing keeps the records of commands.
LEMMA PublishTurnKeepsCommands ==
    ASSUME LaunchAssumption, LaunchTypeOK, LaunchInv, CommandInv, PublishTurnEffect
    PROVE  CommandInv'
<1>1. \A j \in Jobs : job'[j].cmd = job[j].cmd
  BY DEF PublishTurnEffect, JobsTypeOK, Tells, Ended, Untouched
<1>2. LaunchFindsNothing'
  BY DEF PublishTurnEffect, JobsTypeOK, Tells, Ended, Untouched, CommandInv, LaunchFindsNothing,
       LaunchStep, Making
<1>3. LaunchWritesItsOwn'
  BY DEF PublishTurnEffect, JobsTypeOK, Tells, Ended, Untouched, CommandInv, LaunchFindsNothing,
       LaunchWritesItsOwn, Holding, LaunchStep, Making, NewlyAccepted, Row
<1>4. LaunchStagesItsTurn'
  BY DEF PublishTurnEffect, JobsTypeOK, Tells, Ended, Untouched, CommandInv, LaunchStagesItsTurn,
       Holding, LaunchStep, Making, NewlyAccepted, Chat
<1>5. TurnsAreLast'
  BY <1>1 DEF PublishTurnEffect, JobsTypeOK, Tells, Ended, Untouched, CommandInv, TurnsAreLast,
       LaunchTypeOK, TurnRows, LastOf
<1>6. RecordsAreLast'
  BY <1>1 DEF PublishTurnEffect, JobsTypeOK, Tells, Ended, Untouched, CommandInv, RecordsAreLast,
       LastOf, Row
<1>7. RepliesAreLast'
  BY <1>1 DEF PublishTurnEffect, JobsTypeOK, Tells, Ended, Untouched, CommandInv, RecordsAreLast,
       RepliesAreLast, LaunchStep, LastOf
<1>8. AnswersAreLast'
  <2>1. Told.outcome = "accepted" => command[launch.cmd] # NoRow /\ LastOf(launch.cmd, Told.job)
    BY DEF PublishTurnEffect, CommandInv, RepliesAreLast, LaunchStep, Told, Row
  <2>2. ASSUME NEW c \in Commands, NEW a \in answers'[c], a.outcome = "accepted"
        PROVE  command[c] # NoRow /\ LastOf(c, a.job)
    <3>1. a \in answers[c] \/ (c = launch.cmd /\ a = Told)
      BY <2>2 DEF PublishTurnEffect, Tells
    <3> QED
      BY <2>1, <2>2, <3>1 DEF CommandInv, AnswersAreLast
  <2> QED
    BY <1>1, <2>2 DEF PublishTurnEffect, AnswersAreLast, LastOf
<1> QED
  BY <1>2, <1>3, <1>4, <1>5, <1>6, <1>7, <1>8 DEF CommandInv

\* A cancellation keeps the records of commands.
LEMMA CancelChatKeepsCommands ==
    ASSUME LaunchAssumption, LaunchTypeOK, LaunchInv, CommandInv, CancelChatEffect
    PROVE  CommandInv'
<1>1. \A j \in Jobs : job'[j].cmd = job[j].cmd
  BY DEF CancelChatEffect, JobsTypeOK, Ended, Untouched
<1>2. LaunchFindsNothing'
  BY DEF CancelChatEffect, JobsTypeOK, Ended, Untouched, CommandInv, LaunchFindsNothing,
       LaunchStep, Making
<1>3. LaunchWritesItsOwn'
  BY DEF CancelChatEffect, JobsTypeOK, Ended, Untouched, CommandInv, LaunchFindsNothing,
       LaunchWritesItsOwn, Holding, LaunchStep, Making, NewlyAccepted, Row
<1>4. LaunchStagesItsTurn'
  BY DEF CancelChatEffect, JobsTypeOK, Ended, Untouched, CommandInv, LaunchStagesItsTurn, Holding,
       LaunchStep, Making, NewlyAccepted, Chat
<1>5. TurnsAreLast'
  BY <1>1 DEF CancelChatEffect, JobsTypeOK, Ended, Untouched, CommandInv, TurnsAreLast,
       LaunchTypeOK, TurnRows, LastOf
<1>6. RecordsAreLast'
  BY <1>1 DEF CancelChatEffect, JobsTypeOK, Ended, Untouched, CommandInv, RecordsAreLast, LastOf,
       Row
<1>7. RepliesAreLast'
  BY <1>1 DEF CancelChatEffect, JobsTypeOK, Ended, Untouched, CommandInv, RecordsAreLast,
       RepliesAreLast, LaunchStep, LastOf
<1>8. AnswersAreLast'
  BY <1>1 DEF CancelChatEffect, JobsTypeOK, Ended, Untouched, CommandInv, AnswersAreLast, LastOf
<1> QED
  BY <1>2, <1>3, <1>4, <1>5, <1>6, <1>7, <1>8 DEF CommandInv

\* Forgetting a turn keeps the records of commands.
LEMMA ForgetChatKeepsCommands ==
    ASSUME LaunchAssumption, LaunchTypeOK, LaunchInv, CommandInv, ForgetChat
    PROVE  CommandInv'
<1>1. \A j \in Jobs : job'[j].cmd = job[j].cmd
  BY DEF ForgetChat, chatVars
<1>2. LaunchFindsNothing'
  BY DEF ForgetChat, chatVars, CommandInv, LaunchFindsNothing, LaunchStep, Making
<1>3. LaunchWritesItsOwn'
  BY DEF ForgetChat, chatVars, CommandInv, LaunchFindsNothing, LaunchWritesItsOwn, Holding,
       LaunchStep, Making, NewlyAccepted, Row
<1>4. LaunchStagesItsTurn'
  BY DEF ForgetChat, chatVars, CommandInv, LaunchStagesItsTurn, Holding, LaunchStep, Making,
       NewlyAccepted, Chat
<1>5. TurnsAreLast'
  BY <1>1 DEF ForgetChat, chatVars, CommandInv, TurnsAreLast, LaunchTypeOK, TurnRows, LastOf
<1>6. RecordsAreLast'
  BY <1>1 DEF ForgetChat, chatVars, CommandInv, RecordsAreLast, LastOf, Row
<1>7. RepliesAreLast'
  BY <1>1 DEF ForgetChat, chatVars, CommandInv, RecordsAreLast, RepliesAreLast, LaunchStep, LastOf
<1>8. AnswersAreLast'
  BY <1>1 DEF ForgetChat, chatVars, CommandInv, AnswersAreLast, LastOf
<1> QED
  BY <1>2, <1>3, <1>4, <1>5, <1>6, <1>7, <1>8 DEF CommandInv

\* The worker keeps the records of commands.
LEMMA WorkKeepsCommands ==
    ASSUME LaunchAssumption, LaunchTypeOK, LaunchInv, CommandInv,
           NEW i \in Jobs, NEW completed \in BOOLEAN, WorkEffect(i, completed)
    PROVE  CommandInv'
<1>1. \A j \in Jobs : job'[j].cmd = job[j].cmd
  BY DEF WorkEffect, JobsTypeOK, Ended, Untouched
<1>2. LaunchFindsNothing'
  BY DEF WorkEffect, JobsTypeOK, Ended, Untouched, CommandInv, LaunchFindsNothing, LaunchStep,
       Making
<1>3. LaunchWritesItsOwn'
  BY DEF WorkEffect, JobsTypeOK, Ended, Untouched, CommandInv, LaunchFindsNothing,
       LaunchWritesItsOwn, Holding, LaunchStep, Making, NewlyAccepted, Row
<1>4. LaunchStagesItsTurn'
  BY DEF WorkEffect, JobsTypeOK, Ended, Untouched, CommandInv, LaunchStagesItsTurn, Holding,
       LaunchStep, Making, NewlyAccepted, Chat
<1>5. TurnsAreLast'
  BY <1>1 DEF WorkEffect, JobsTypeOK, Ended, Untouched, CommandInv, TurnsAreLast, LaunchTypeOK,
       TurnRows, LastOf
<1>6. RecordsAreLast'
  BY <1>1 DEF WorkEffect, JobsTypeOK, Ended, Untouched, CommandInv, RecordsAreLast, LastOf, Row
<1>7. RepliesAreLast'
  BY <1>1 DEF WorkEffect, JobsTypeOK, Ended, Untouched, CommandInv, RecordsAreLast,
       RepliesAreLast, LaunchStep, LastOf
<1>8. AnswersAreLast'
  BY <1>1 DEF WorkEffect, JobsTypeOK, Ended, Untouched, CommandInv, AnswersAreLast, LastOf
<1> QED
  BY <1>2, <1>3, <1>4, <1>5, <1>6, <1>7, <1>8 DEF CommandInv

\* The recovery keeps the records of commands.
LEMMA RequeueKeepsCommands ==
    ASSUME LaunchAssumption, LaunchTypeOK, LaunchInv, CommandInv, NEW i \in Jobs, RequeueEffect(i)
    PROVE  CommandInv'
<1>1. \A j \in Jobs : job'[j].cmd = job[j].cmd
  BY DEF RequeueEffect, TurnAccepted
<1>2. LaunchFindsNothing'
  <2>1. \A c \in Commands : command'[c] = command[c] \/ turn[c] # NoRow
    BY DEF RequeueEffect, TurnAccepted
  <2>2. launch # NoLaunch => launch.cmd \in Commands
    BY LaunchIsTyped
  <2> QED
    BY <2>1, <2>2 DEF RequeueEffect, CommandInv, LaunchFindsNothing, LaunchStep
<1>3. LaunchWritesItsOwn'
  <2>1. launch # NoLaunch => launch.cmd \in Commands
    BY LaunchIsTyped
  <2>2. \A c \in Commands :
            \/ command'[c] = command[c]
            \/ c \in ChatCommands /\ turn[c] # NoRow /\ command'[c].hash = turn[c].hash
               /\ command'[c].job = turn[c].job
    BY RowHas DEF RequeueEffect, TurnAccepted
  <2>3. Holding /\ command'[launch.cmd] # NoRow =>
            command'[launch.cmd].hash = launch.hash /\ command'[launch.cmd].job = launch.job
    BY <2>1, <2>2 DEF CommandInv, LaunchFindsNothing, LaunchWritesItsOwn, LaunchStagesItsTurn,
                      Holding, LaunchStep, Chat
  <2> QED
    BY <2>3 DEF RequeueEffect, LaunchWritesItsOwn, Holding, LaunchStep, NewlyAccepted
<1>4. LaunchStagesItsTurn'
  BY DEF RequeueEffect, TurnAccepted, CommandInv, LaunchStagesItsTurn, Holding, LaunchStep,
       Making, NewlyAccepted, Chat
<1>5. TurnsAreLast'
  BY <1>1 DEF RequeueEffect, TurnAccepted, CommandInv, TurnsAreLast, LaunchTypeOK, TurnRows,
       LastOf
<1>6. RecordsAreLast'
  <2>1. \A c \in Commands :
            \/ command'[c] = command[c]
            \/ c \in ChatCommands /\ turn[c] # NoRow /\ command'[c].hash = turn[c].hash
               /\ command'[c].job = turn[c].job
    BY RowHas DEF RequeueEffect, TurnAccepted
  <2> QED
    BY <1>1, <2>1 DEF CommandInv, TurnsAreLast, RecordsAreLast, LastOf
<1>7. RepliesAreLast'
  <2>1. launch # NoLaunch => launch.cmd \in Commands
    BY LaunchIsTyped
  <2>2. \A c \in Commands : command[c] # NoRow => command'[c] = command[c]
    BY DEF RequeueEffect, TurnAccepted
  <2> QED
    BY <1>1, <2>1, <2>2 DEF RequeueEffect, CommandInv, RepliesAreLast, LaunchStep, LastOf
<1>8. AnswersAreLast'
  <2>1. \A c \in Commands : command[c] # NoRow => command'[c] = command[c]
    BY DEF RequeueEffect, TurnAccepted
  <2> QED
    BY <1>1, <2>1 DEF RequeueEffect, CommandInv, AnswersAreLast, LastOf
<1> QED
  BY <1>2, <1>3, <1>4, <1>5, <1>6, <1>7, <1>8 DEF CommandInv

\* A crash keeps the records of commands.
LEMMA CrashKeepsCommands ==
    ASSUME LaunchAssumption, LaunchTypeOK, LaunchInv, CommandInv, Crash
    PROVE  CommandInv'
<1>1. \A j \in Jobs : job'[j].cmd = job[j].cmd
  BY DEF Crash, chatVars
<1>2. LaunchFindsNothing'
  BY DEF Crash, chatVars, CommandInv, LaunchFindsNothing, LaunchStep, Making
<1>3. LaunchWritesItsOwn'
  BY DEF Crash, chatVars, CommandInv, LaunchFindsNothing, LaunchWritesItsOwn, Holding, LaunchStep,
       Making, NewlyAccepted, Row
<1>4. LaunchStagesItsTurn'
  BY DEF Crash, chatVars, CommandInv, LaunchStagesItsTurn, Holding, LaunchStep, Making,
       NewlyAccepted, Chat
<1>5. TurnsAreLast'
  BY <1>1 DEF Crash, chatVars, CommandInv, TurnsAreLast, LaunchTypeOK, TurnRows, LastOf
<1>6. RecordsAreLast'
  BY <1>1 DEF Crash, chatVars, CommandInv, RecordsAreLast, LastOf, Row
<1>7. RepliesAreLast'
  BY <1>1 DEF Crash, chatVars, CommandInv, RecordsAreLast, RepliesAreLast, LaunchStep, LastOf
<1>8. AnswersAreLast'
  BY <1>1 DEF Crash, chatVars, CommandInv, AnswersAreLast, LastOf
<1> QED
  BY <1>2, <1>3, <1>4, <1>5, <1>6, <1>7, <1>8 DEF CommandInv

---------------------------------------------------------------------------------
(* The Messages of turns. *)

\* Until it is handed to a lane, the launch's Job is in no queue.
LEMMA UnsentIsInNoQueue ==
    ASSUME LaunchInv, LaunchTypeOK, LaunchStep(Unsent)
    PROVE  made \notin lane \cup recovering
<1>1. LaunchesJob(made) /\ launch.step \in Unsent
  BY DEF LaunchesJob, Holding, LaunchInv, LaunchHoldsLast, LaunchStep, Unsent
<1> QED
  BY <1>1 DEF LaunchInv, JobsInOrder

\* The launch holds the Job it made, a Job of its command.
LEMMA HoldsItsJob ==
    ASSUME LaunchInv, LaunchTypeOK, LaunchStep(Making)
    PROVE  /\ launch.job = made /\ made \in Jobs /\ LaunchesJob(made)
           /\ job[made].cmd = launch.cmd
BY DEF LaunchesJob, Holding, LaunchInv, LaunchHoldsLast, LaunchStep, LaunchTypeOK

\* A turn that is staged is one of a command.
LEMMA StagedHasACommand ==
    ASSUME LaunchInv, LaunchTypeOK, NEW j \in Jobs, assistant[j] # "none"
    PROVE  job[j].cmd \in Commands /\ j <= made
<1>1. j <= made
  <2>1. ~(j > made)
    BY DEF LaunchInv, JobsInOrder
  <2>2. j \in Int /\ made \in Int
    BY DEF LaunchTypeOK, Jobs, NoJob
  <2> QED
    BY <2>1, <2>2
<1>2. job[j].cmd # NoRow
  BY <1>1 DEF LaunchInv, JobsInOrder
<1> QED
  BY <1>1, <1>2 DEF LaunchTypeOK, JobRecords

\* Accepting a live turn that is not withdrawn makes its question a fact.
LEMMA TurnBecomesFact ==
    ASSUME LaunchTypeOK, LaunchInv, CommandInv, MessageInv, NEW j \in Jobs,
           TurnAccepted(j), Live(j), assistant[j] # "none", user[j] # "deleted"
    PROVE  user'[j] = "complete"
<1>1. job[j].cmd \in Commands
  BY StagedHasACommand
<1>2. turn[job[j].cmd] # NoRow /\ turn[job[j].cmd].job = j
  BY DEF MessageInv, StagedTogether
<1>3. job[j].cmd \in ChatCommands
  BY <1>1, <1>2 DEF CommandInv, TurnsAreLast
<1>4. user'[j] = Becomes(user[j], "complete")
  BY <1>2, <1>3 DEF TurnAccepted
<1>5. user[j] \in {"pending", "complete"}
  BY DEF LaunchTypeOK, Lifecycles, MessageInv, StagedTogether, LiveIsOpen
<1> QED
  BY <1>4, <1>5 DEF Becomes, Transitions

\* Turns that end leave the Messages consistent.
LEMMA EndsKeepMessages ==
    ASSUME LaunchTypeOK, LaunchInv, MessageInv, OnlyEnds,
           made' = made, context' = context, turn' = turn, lane' \subseteq lane, recovering' \subseteq recovering,
           \A step \in Unsent : LaunchStep({step})' => LaunchStep({step})
    PROVE  MessageInv'
<1>1. ASSUME NEW j \in Jobs
      PROVE  /\ job'[j].cmd = job[j].cmd /\ (Live(j)' => Live(j) /\ Untouched(j))
             /\ user'[j] = user[j] \/ user'[j] = Becomes(user[j], "failed")
             /\ \/ assistant'[j] = assistant[j] \/ assistant'[j] = Becomes(assistant[j], "failed")
                \/ Live(j) /\ j \in lane /\ user'[j] = user[j] /\ assistant'[j] = Becomes(assistant[j], "complete")
             /\ job'[j].intent = "queued" => job[j].intent = "queued"
  BY DEF OnlyEnds, Untouched, Ended, IntentEnds, Live
<1>2. ASSUME NEW j \in Jobs
      PROVE  /\ user'[j] = "none" <=> user[j] = "none"
             /\ user'[j] = "deleted" <=> user[j] = "deleted"
             /\ user'[j] = "complete" <=> user[j] = "complete"
             /\ assistant'[j] = "none" <=> assistant[j] = "none"
             /\ assistant[j] = "complete" => assistant'[j] = "complete"
             /\ assistant'[j] = "complete" => assistant[j] = "complete" \/ (Live(j) /\ j \in lane /\ assistant[j] # "none")
  BY <1>1 DEF Becomes, Transitions
<1>3. \A steps \in SUBSET Unsent : LaunchStep(steps)' => LaunchStep(steps)
  <2>1. ASSUME NEW steps \in SUBSET Unsent, LaunchStep(steps)'
        PROVE  LaunchStep(steps)
    <3>1. PICK step \in Unsent : step \in steps /\ LaunchStep({step})'
      BY <2>1 DEF LaunchStep
    <3>2. LaunchStep({step})
      BY <3>1
    <3> QED
      BY <3>1, <3>2 DEF LaunchStep
  <2> QED
    BY <2>1
<1>4. LaunchStep(Unsent) => made \in Jobs /\ made \notin lane
  BY UnsentIsInNoQueue, HoldsItsJob DEF LaunchStep, Unsent
<1>5. StagedTogether'
  BY <1>1, <1>2 DEF MessageInv, StagedTogether
<1>6. LiveIsOpen'
  BY <1>1 DEF MessageInv, LiveIsOpen, Untouched
<1>7. WithdrawnIsUnqueued'
  <2>1. \A j \in Jobs : (Live(j) /\ user[j] = "deleted")' => job'[j].intent # "queued"
    BY <1>1, <1>2 DEF MessageInv, WithdrawnIsUnqueued
  <2>2. LaunchStep({"dispatch", "prepare", "admit", "economy", "discard"})' => job'[made].intent # "queued"
    <3>1. {"dispatch", "prepare", "admit", "economy", "discard"} \in SUBSET Unsent
      BY DEF Unsent, Making
    <3> QED
      BY <1>1, <1>3, <1>4, <3>1 DEF MessageInv, WithdrawnIsUnqueued, LaunchStep
  <2>3. LaunchStep(Unsent \ {"fail", "record_failed"})' => user'[made] # "deleted"
    BY <1>2, <1>3, <1>4 DEF MessageInv, WithdrawnIsUnqueued, LaunchStep
  <2> QED
    BY <2>1, <2>2, <2>3 DEF WithdrawnIsUnqueued
<1>8. UnsentIsUnanswered'
  <2>1. LaunchStep(Unsent)' => assistant'[made] # "complete"
    BY <1>2, <1>3, <1>4 DEF MessageInv, UnsentIsUnanswered
  <2>2. LaunchStep({"send"})' /\ Live(made)' /\ assistant'[made] # "none" => user'[made] = "complete"
    <3>1. {"send"} \in SUBSET Unsent
      BY DEF Unsent, Making
    <3> QED
      BY <1>1, <1>2, <1>3, <1>4, <3>1 DEF MessageInv, UnsentIsUnanswered, LaunchStep
  <2> QED
    BY <2>1, <2>2 DEF UnsentIsUnanswered
<1>9. QueuesAreFacts'
  BY <1>1, <1>2 DEF MessageInv, QueuesAreFacts, Untouched, LaunchTypeOK
<1>10. AnswersHaveTheirQuestion'
  BY <1>2 DEF MessageInv, AnswersHaveTheirQuestion, QueuesAreFacts
<1>11. ContextIsEarlier'
  <2>1. LaunchStep({"dispatch", "prepare"})' => LaunchStep({"dispatch", "prepare"})
    BY <1>3 DEF Unsent, Making
  <2> QED
    BY <2>1 DEF MessageInv, ContextIsEarlier
<1>12. ContextIsNeverWithdrawn'
  BY <1>2 DEF MessageInv, ContextIsNeverWithdrawn, State, LaunchTypeOK
<1> QED
  BY <1>5, <1>6, <1>7, <1>8, <1>9, <1>10, <1>11, <1>12 DEF MessageInv

\* Taking the lock keeps the Messages of turns.
LEMMA RegisterKeepsMessages ==
    ASSUME LaunchAssumption, LaunchTypeOK, LaunchInv, CommandInv, MessageInv,
           NEW c \in Commands, NEW hash \in Contents, RegisterEffect(c, hash)
    PROVE  MessageInv'
<1>1. \A j \in Jobs : /\ user[j] = "complete" => user'[j] = "complete"
                      /\ assistant[j] = "complete" => assistant'[j] = "complete"
  BY DEF RegisterEffect, Becomes
<1>2. StagedTogether'
  BY DEF RegisterEffect, MessageInv, StagedTogether, Becomes
<1>3. LiveIsOpen'
  BY DEF RegisterEffect, MessageInv, LiveIsOpen, Live, Becomes
<1>4. WithdrawnIsUnqueued'
  BY DEF RegisterEffect, MessageInv, WithdrawnIsUnqueued, Live, LaunchStep, Unsent, Making,
       Becomes
<1>5. UnsentIsUnanswered'
  BY DEF RegisterEffect, MessageInv, UnsentIsUnanswered, Live, LaunchStep, Unsent, Making, Becomes
<1>6. QueuesAreFacts'
  BY <1>1 DEF RegisterEffect, MessageInv, QueuesAreFacts, Live
<1>7. AnswersHaveTheirQuestion'
  BY DEF RegisterEffect, MessageInv, AnswersHaveTheirQuestion, Becomes
<1>8. ContextIsEarlier'
  BY DEF RegisterEffect, MessageInv, ContextIsEarlier, LaunchStep
<1>9. ContextIsNeverWithdrawn'
  BY <1>1 DEF RegisterEffect, MessageInv, ContextIsNeverWithdrawn, State, LaunchTypeOK
<1> QED
  BY <1>2, <1>3, <1>4, <1>5, <1>6, <1>7, <1>8, <1>9 DEF MessageInv

\* The lookup keeps the Messages of turns.
LEMMA LookupKeepsMessages ==
    ASSUME LaunchAssumption, LaunchTypeOK, LaunchInv, CommandInv, MessageInv, LookupEffect
    PROVE  MessageInv'
<1>1. \A j \in Jobs : /\ user[j] = "complete" => user'[j] = "complete"
                      /\ assistant[j] = "complete" => assistant'[j] = "complete"
  BY DEF LookupEffect, Moves, Becomes
<1>2. StagedTogether'
  BY DEF LookupEffect, Moves, MessageInv, StagedTogether, Becomes
<1>3. LiveIsOpen'
  BY DEF LookupEffect, Moves, MessageInv, LiveIsOpen, Live, Becomes
<1>4. WithdrawnIsUnqueued'
  BY DEF LookupEffect, Moves, MessageInv, WithdrawnIsUnqueued, Live, LaunchStep, Unsent, Making,
       Becomes
<1>5. UnsentIsUnanswered'
  BY DEF LookupEffect, Moves, MessageInv, UnsentIsUnanswered, Live, LaunchStep, Unsent, Making,
       Becomes
<1>6. QueuesAreFacts'
  BY <1>1 DEF LookupEffect, Moves, MessageInv, QueuesAreFacts, Live
<1>7. AnswersHaveTheirQuestion'
  BY DEF LookupEffect, Moves, MessageInv, AnswersHaveTheirQuestion, Becomes
<1>8. ContextIsEarlier'
  BY DEF LookupEffect, Moves, MessageInv, ContextIsEarlier, LaunchStep
<1>9. ContextIsNeverWithdrawn'
  BY <1>1 DEF LookupEffect, Moves, MessageInv, ContextIsNeverWithdrawn, State, LaunchTypeOK
<1> QED
  BY <1>2, <1>3, <1>4, <1>5, <1>6, <1>7, <1>8, <1>9 DEF MessageInv

\* A new runtime keeps the Messages of turns.
LEMMA StartRuntimeKeepsMessages ==
    ASSUME LaunchAssumption, LaunchTypeOK, LaunchInv, CommandInv, MessageInv, StartRuntimeEffect
    PROVE  MessageInv'
<1>1. \A j \in Jobs : /\ user[j] = "complete" => user'[j] = "complete"
                      /\ assistant[j] = "complete" => assistant'[j] = "complete"
  BY DEF StartRuntimeEffect, Moves, Becomes
<1>2. StagedTogether'
  BY DEF StartRuntimeEffect, Moves, MessageInv, StagedTogether, Becomes
<1>3. LiveIsOpen'
  BY DEF StartRuntimeEffect, Moves, MessageInv, LiveIsOpen, Live, Becomes
<1>4. WithdrawnIsUnqueued'
  BY DEF StartRuntimeEffect, Moves, MessageInv, WithdrawnIsUnqueued, Live, LaunchStep, Unsent,
       Making, Becomes
<1>5. UnsentIsUnanswered'
  BY DEF StartRuntimeEffect, Moves, MessageInv, UnsentIsUnanswered, Live, LaunchStep, Unsent,
       Making, Becomes
<1>6. QueuesAreFacts'
  <2>1. \A j \in Jobs : /\ job'[j].attempt = job[j].attempt
                        /\ job[j].intent = "queued" => job'[j] = job[j]
    BY DEF StartRuntimeEffect
  <2>2. \A j \in recovering' : j \in Jobs /\ (Live(j) => job[j].intent = "queued")
    BY DEF StartRuntimeEffect, MessageInv, QueuesAreFacts, LaunchTypeOK
  <2> QED
    BY <2>1, <2>2 DEF StartRuntimeEffect, MessageInv, QueuesAreFacts, Live, LaunchTypeOK
<1>7. AnswersHaveTheirQuestion'
  BY DEF StartRuntimeEffect, Moves, MessageInv, AnswersHaveTheirQuestion, Becomes
<1>8. ContextIsEarlier'
  BY DEF StartRuntimeEffect, Moves, MessageInv, ContextIsEarlier, LaunchStep
<1>9. ContextIsNeverWithdrawn'
  BY <1>1 DEF StartRuntimeEffect, Moves, MessageInv, ContextIsNeverWithdrawn, State, LaunchTypeOK
<1> QED
  BY <1>2, <1>3, <1>4, <1>5, <1>6, <1>7, <1>8, <1>9 DEF MessageInv

\* A refusal keeps the Messages of turns.
LEMMA RefuseLaunchKeepsMessages ==
    ASSUME LaunchAssumption, LaunchTypeOK, LaunchInv, CommandInv, MessageInv,
           NEW outcome \in {"failed", "rejected"}, RefuseLaunchEffect(outcome)
    PROVE  MessageInv'
<1>1. \A j \in Jobs : /\ user[j] = "complete" => user'[j] = "complete"
                      /\ assistant[j] = "complete" => assistant'[j] = "complete"
  BY DEF RefuseLaunchEffect, Moves, Becomes
<1>2. StagedTogether'
  BY DEF RefuseLaunchEffect, Moves, MessageInv, StagedTogether, Becomes
<1>3. LiveIsOpen'
  BY DEF RefuseLaunchEffect, Moves, MessageInv, LiveIsOpen, Live, Becomes
<1>4. WithdrawnIsUnqueued'
  BY DEF RefuseLaunchEffect, Moves, MessageInv, WithdrawnIsUnqueued, Live, LaunchStep, Unsent,
       Making, Becomes
<1>5. UnsentIsUnanswered'
  BY DEF RefuseLaunchEffect, Moves, MessageInv, UnsentIsUnanswered, Live, LaunchStep, Unsent,
       Making, Becomes
<1>6. QueuesAreFacts'
  BY <1>1 DEF RefuseLaunchEffect, Moves, MessageInv, QueuesAreFacts, Live
<1>7. AnswersHaveTheirQuestion'
  BY DEF RefuseLaunchEffect, Moves, MessageInv, AnswersHaveTheirQuestion, Becomes
<1>8. ContextIsEarlier'
  BY DEF RefuseLaunchEffect, Moves, MessageInv, ContextIsEarlier, LaunchStep
<1>9. ContextIsNeverWithdrawn'
  BY <1>1 DEF RefuseLaunchEffect, Moves, MessageInv, ContextIsNeverWithdrawn, State, LaunchTypeOK
<1> QED
  BY <1>2, <1>3, <1>4, <1>5, <1>6, <1>7, <1>8, <1>9 DEF MessageInv

\* An error keeps the Messages of turns.
LEMMA LaunchErrsKeepsMessages ==
    ASSUME LaunchAssumption, LaunchTypeOK, LaunchInv, CommandInv, MessageInv, LaunchErrsEffect
    PROVE  MessageInv'
<1>1. \A j \in Jobs : /\ user[j] = "complete" => user'[j] = "complete"
                      /\ assistant[j] = "complete" => assistant'[j] = "complete"
  BY DEF LaunchErrsEffect, Moves, Becomes
<1>2. StagedTogether'
  BY DEF LaunchErrsEffect, Moves, MessageInv, StagedTogether, Becomes
<1>3. LiveIsOpen'
  BY DEF LaunchErrsEffect, Moves, MessageInv, LiveIsOpen, Live, Becomes
<1>4. WithdrawnIsUnqueued'
  BY DEF LaunchErrsEffect, Moves, MessageInv, WithdrawnIsUnqueued, Live, LaunchStep, Unsent,
       Making, Becomes
<1>5. UnsentIsUnanswered'
  BY DEF LaunchErrsEffect, Moves, MessageInv, UnsentIsUnanswered, Live, LaunchStep, Unsent,
       Making, Becomes
<1>6. QueuesAreFacts'
  BY <1>1 DEF LaunchErrsEffect, Moves, MessageInv, QueuesAreFacts, Live
<1>7. AnswersHaveTheirQuestion'
  BY DEF LaunchErrsEffect, Moves, MessageInv, AnswersHaveTheirQuestion, Becomes
<1>8. ContextIsEarlier'
  BY DEF LaunchErrsEffect, Moves, MessageInv, ContextIsEarlier, LaunchStep
<1>9. ContextIsNeverWithdrawn'
  BY <1>1 DEF LaunchErrsEffect, Moves, MessageInv, ContextIsNeverWithdrawn, State, LaunchTypeOK
<1> QED
  BY <1>2, <1>3, <1>4, <1>5, <1>6, <1>7, <1>8, <1>9 DEF MessageInv

\* The Job made keeps the Messages of turns.
LEMMA CreateJobKeepsMessages ==
    ASSUME LaunchAssumption, LaunchTypeOK, LaunchInv, CommandInv, MessageInv, CreateJobEffect
    PROVE  MessageInv'
<1>1. \A j \in Jobs : /\ user[j] = "complete" => user'[j] = "complete"
                      /\ assistant[j] = "complete" => assistant'[j] = "complete"
  BY DEF CreateJobEffect, Moves, Becomes
<1>2. StagedTogether'
  <2>1. user[made'] = "none" /\ assistant[made'] = "none"
    BY DEF CreateJobEffect, LaunchInv, JobsInOrder
  <2> QED
    BY <2>1 DEF CreateJobEffect, MessageInv, StagedTogether
<1>3. LiveIsOpen'
  BY DEF CreateJobEffect, Moves, MessageInv, LiveIsOpen, Live, Becomes
<1>4. WithdrawnIsUnqueued'
  <2>1. \A j \in Jobs : job'[j].attempt = job[j].attempt /\ job'[j].intent = job[j].intent
    BY DEF CreateJobEffect
  <2>2. job[made'].intent = "none" /\ user[made'] = "none" /\ assistant[made'] = "none"
    BY DEF CreateJobEffect, LaunchInv, JobsInOrder
  <2> QED
    BY <2>1, <2>2 DEF CreateJobEffect, Moves, MessageInv, WithdrawnIsUnqueued, Live, LaunchStep
<1>5. UnsentIsUnanswered'
  <2>1. job[made'].intent = "none" /\ user[made'] = "none" /\ assistant[made'] = "none"
    BY DEF CreateJobEffect, LaunchInv, JobsInOrder
  <2> QED
    BY <2>1 DEF CreateJobEffect, Moves, UnsentIsUnanswered, LaunchStep
<1>6. QueuesAreFacts'
  <2>1. \A j \in Jobs : job'[j].attempt = job[j].attempt /\ job'[j].intent = job[j].intent
    BY DEF CreateJobEffect
  <2> QED
    BY <2>1 DEF CreateJobEffect, MessageInv, QueuesAreFacts, Live, LaunchTypeOK
<1>7. AnswersHaveTheirQuestion'
  BY DEF CreateJobEffect, Moves, MessageInv, AnswersHaveTheirQuestion, Becomes
<1>8. ContextIsEarlier'
  <2>1. made' = made + 1 /\ made \in Int /\ made' \in Jobs /\ Jobs \subseteq Int /\ context' = context
    BY DEF CreateJobEffect, Jobs
  <2>2. \A j \in Jobs : \A m \in context[j] : m[1] <= j /\ j <= made
    BY DEF MessageInv, ContextIsEarlier
  <2>3. context'[made'] = {}
    BY <2>1, <2>2
  <2>4. \A j \in Jobs : \A m \in context'[j] : m[1] <= j /\ j <= made'
    BY <2>1, <2>2
  <2> QED
    BY <2>3, <2>4 DEF ContextIsEarlier
<1>9. ContextIsNeverWithdrawn'
  BY <1>1 DEF CreateJobEffect, Moves, MessageInv, ContextIsNeverWithdrawn, State, LaunchTypeOK
<1> QED
  BY <1>2, <1>3, <1>4, <1>5, <1>6, <1>7, <1>8, <1>9 DEF MessageInv

\* The Attempt keeps the Messages of turns.
LEMMA DispatchJobKeepsMessages ==
    ASSUME LaunchAssumption, LaunchTypeOK, LaunchInv, CommandInv, MessageInv, DispatchJobEffect
    PROVE  MessageInv'
<1>1. \A j \in Jobs : /\ user[j] = "complete" => user'[j] = "complete"
                      /\ assistant[j] = "complete" => assistant'[j] = "complete"
  BY DEF DispatchJobEffect, Moves, JobMoves, Becomes
<1>2. StagedTogether'
  BY DEF DispatchJobEffect, Moves, JobMoves, MessageInv, StagedTogether, Becomes
<1>3. LiveIsOpen'
  <2>1. user[made] = "none" /\ assistant[made] = "none"
    BY HoldsItsJob DEF DispatchJobEffect, LaunchInv, JobsInOrder, LaunchStep, Making
  <2> QED
    BY <2>1 DEF DispatchJobEffect, JobMoves, MessageInv, LiveIsOpen, Live
<1>4. WithdrawnIsUnqueued'
  BY DEF DispatchJobEffect, Moves, JobMoves, MessageInv, WithdrawnIsUnqueued, Live, LaunchStep,
       Unsent, Making, Becomes
<1>5. UnsentIsUnanswered'
  BY DEF DispatchJobEffect, Moves, JobMoves, MessageInv, UnsentIsUnanswered, Live, LaunchStep,
       Unsent, Making, Becomes
<1>6. QueuesAreFacts'
  <2>1. made \notin lane \cup recovering
    BY UnsentIsInNoQueue DEF DispatchJobEffect, LaunchStep, Unsent, Making
  <2> QED
    BY <1>1, <2>1 DEF DispatchJobEffect, Moves, JobMoves, MessageInv, QueuesAreFacts, Live,
           LaunchTypeOK
<1>7. AnswersHaveTheirQuestion'
  BY DEF DispatchJobEffect, Moves, JobMoves, MessageInv, AnswersHaveTheirQuestion, Becomes
<1>8. ContextIsEarlier'
  BY DEF DispatchJobEffect, Moves, JobMoves, MessageInv, ContextIsEarlier, LaunchStep
<1>9. ContextIsNeverWithdrawn'
  BY <1>1 DEF DispatchJobEffect, Moves, JobMoves, MessageInv, ContextIsNeverWithdrawn, State,
       LaunchTypeOK
<1> QED
  BY <1>2, <1>3, <1>4, <1>5, <1>6, <1>7, <1>8, <1>9 DEF MessageInv

\* Staging keeps the Messages of turns.
LEMMA PrepareTurnKeepsMessages ==
    ASSUME LaunchAssumption, LaunchTypeOK, LaunchInv, CommandInv, MessageInv, PrepareTurnEffect
    PROVE  MessageInv'
<1>0. CASE /\ Moves("reply", made, "error", FALSE)
           /\ JobMoves(made, "ended", job[made].intent)
           /\ UNCHANGED <<user, assistant, context, turn>>
  <2> USE <1>0 DEF PrepareTurnEffect, JobMoves, Moves, MessageInv
  <2>1. StagedTogether'
    BY DEF StagedTogether
  <2>2. LiveIsOpen'
    BY DEF LiveIsOpen, Live
  <2>3. WithdrawnIsUnqueued'
    BY DEF WithdrawnIsUnqueued, Live, LaunchStep, Unsent, Making
  <2>4. UnsentIsUnanswered'
    BY DEF UnsentIsUnanswered, LaunchStep, Unsent, Making
  <2>5. QueuesAreFacts'
    BY DEF QueuesAreFacts, Live, LaunchTypeOK
  <2>6. AnswersHaveTheirQuestion'
    BY DEF AnswersHaveTheirQuestion
  <2>7. ContextIsEarlier'
    BY DEF ContextIsEarlier, LaunchStep
  <2>8. ContextIsNeverWithdrawn'
    BY DEF ContextIsNeverWithdrawn, State
  <2> QED
    BY <2>1, <2>2, <2>3, <2>4, <2>5, <2>6, <2>7, <2>8
<1>1. CASE Moves("admit", made, launch.outcome, launch.dup)
  <2>1. /\ made \in Jobs /\ launch.cmd \in Commands /\ turn[launch.cmd] = NoRow
        /\ user[made] = "none" /\ assistant[made] = "none" /\ job[made].cmd = launch.cmd
        /\ launch # NoLaunch /\ launch.step = "prepare" /\ launch.job = made
    BY LaunchIsTyped, HoldsItsJob DEF PrepareTurnEffect, CommandInv, LaunchFindsNothing, LaunchInv,
       JobsInOrder, LaunchStep, Making
  <2>2. /\ user'[made] = "pending" /\ assistant'[made] = "pending" /\ UNCHANGED <<job, made, lane, recovering>>
        /\ context'[made] = History(made) /\ turn'[launch.cmd].job = made /\ turn'[launch.cmd] # NoRow
        /\ Moves("admit", made, launch.outcome, launch.dup)
    <3>1. [hash |-> launch.hash, job |-> made] # NoRow
      BY <2>1, LaunchIsTyped DEF LaunchAssumption, TurnRows
    <3> QED
      BY <1>1, <2>1, <3>1 DEF PrepareTurnEffect, Moves
  <2>3. /\ \A j \in Jobs \ {made} : user'[j] = user[j] /\ assistant'[j] = assistant[j] /\ context'[j] = context[j]
        /\ \A c \in Commands \ {launch.cmd} : turn'[c] = turn[c]
    BY <1>1, <2>1 DEF PrepareTurnEffect, Moves
  <2>4. \A j \in Jobs : /\ user[j] = "complete" => user'[j] = "complete"
                        /\ assistant[j] = "complete" => assistant'[j] = "complete"
    BY <2>1, <2>3
  <2>5. StagedTogether'
    <3>1. \A j \in Jobs : assistant[j] # "none" => job[j].cmd \in Commands \ {launch.cmd}
      BY <2>1, StagedHasACommand DEF MessageInv, StagedTogether
    <3> QED
      BY <2>1, <2>2, <2>3, <3>1 DEF MessageInv, StagedTogether
  <2>6. LiveIsOpen'
    BY <2>1, <2>2, <2>3 DEF MessageInv, LiveIsOpen, Live
  <2>7. WithdrawnIsUnqueued'
    BY <2>1, <2>2, <2>3 DEF Moves, MessageInv, WithdrawnIsUnqueued, LaunchStep, Live
  <2>8. UnsentIsUnanswered'
    BY <2>2 DEF Moves, UnsentIsUnanswered, LaunchStep
  <2>9. QueuesAreFacts'
    <3>1. made \notin lane \cup recovering
      BY <2>1, UnsentIsInNoQueue DEF LaunchStep, Unsent, Making
    <3> QED
      BY <2>2, <2>3, <3>1 DEF MessageInv, QueuesAreFacts, Live, LaunchTypeOK
  <2>10. AnswersHaveTheirQuestion'
    BY <2>2, <2>3 DEF MessageInv, AnswersHaveTheirQuestion
  <2>11. ContextIsEarlier'
    <3>1. \A m \in History(made) : m[1] <= made
      BY <2>1 DEF History, Conversation, Jobs
    <3>2. \A j \in Jobs : \A m \in context'[j] : m[1] <= j /\ j <= made
      BY <2>1, <2>2, <2>3, <3>1 DEF MessageInv, ContextIsEarlier, Jobs
    <3> QED
      BY <2>2, <3>2 DEF Moves, ContextIsEarlier, LaunchStep
  <2>12. ContextIsNeverWithdrawn'
    <3>1. \A m \in History(made) : m[1] # made => State(m) = "complete"
      BY DEF History
    <3>2. \A m \in Jobs \X {"user", "assistant"} : State(m) = "complete" => State(m)' = "complete"
      BY <2>4 DEF State
    <3>3. \A j \in Jobs : context'[j] \subseteq Jobs \X {"user", "assistant"}
      BY <1>1, <2>1 DEF PrepareTurnEffect, Moves
    <3>4. \A j \in Jobs : \A m \in context'[j] : m[1] # j => State(m) = "complete"
      BY <2>2, <2>3, <3>1 DEF MessageInv, ContextIsNeverWithdrawn
    <3> QED
      BY <3>2, <3>3, <3>4 DEF ContextIsNeverWithdrawn
  <2> QED
    BY <2>5, <2>6, <2>7, <2>8, <2>9, <2>10, <2>11, <2>12 DEF MessageInv
<1> QED
  BY <1>0, <1>1 DEF PrepareTurnEffect

\* The Call keeps the Messages of turns.
LEMMA CreateCallKeepsMessages ==
    ASSUME LaunchAssumption, LaunchTypeOK, LaunchInv, CommandInv, MessageInv, CreateCallEffect
    PROVE  MessageInv'
<1>1. \A j \in Jobs : /\ user[j] = "complete" => user'[j] = "complete"
                      /\ assistant[j] = "complete" => assistant'[j] = "complete"
  BY DEF CreateCallEffect, Moves, JobMoves, Becomes
<1>2. StagedTogether'
  BY DEF CreateCallEffect, Moves, JobMoves, MessageInv, StagedTogether, Becomes
<1>3. LiveIsOpen'
  BY DEF CreateCallEffect, Moves, JobMoves, MessageInv, LiveIsOpen, Live, Becomes
<1>4. WithdrawnIsUnqueued'
  BY DEF CreateCallEffect, JobMoves, Moves, MessageInv, WithdrawnIsUnqueued, Live, LaunchStep, Unsent, Making
<1>5. UnsentIsUnanswered'
  BY DEF CreateCallEffect, Moves, JobMoves, MessageInv, UnsentIsUnanswered, Live, LaunchStep,
       Unsent, Making, Becomes
<1>6. QueuesAreFacts'
  <2>1. made \notin lane \cup recovering
    BY UnsentIsInNoQueue DEF CreateCallEffect, LaunchStep, Unsent, Making
  <2> QED
    BY <1>1, <2>1 DEF CreateCallEffect, Moves, JobMoves, MessageInv, QueuesAreFacts, Live,
           LaunchTypeOK
<1>7. AnswersHaveTheirQuestion'
  BY DEF CreateCallEffect, Moves, JobMoves, MessageInv, AnswersHaveTheirQuestion, Becomes
<1>8. ContextIsEarlier'
  BY DEF CreateCallEffect, Moves, JobMoves, MessageInv, ContextIsEarlier, LaunchStep
<1>9. ContextIsNeverWithdrawn'
  BY <1>1 DEF CreateCallEffect, Moves, JobMoves, MessageInv, ContextIsNeverWithdrawn, State,
       LaunchTypeOK
<1> QED
  BY <1>2, <1>3, <1>4, <1>5, <1>6, <1>7, <1>8, <1>9 DEF MessageInv

\* The admission keeps the Messages of turns.
LEMMA AdmitCallKeepsMessages ==
    ASSUME LaunchAssumption, LaunchTypeOK, LaunchInv, CommandInv, MessageInv, AdmitCallEffect
    PROVE  MessageInv'
<1>1. \A j \in Jobs : /\ user[j] = "complete" => user'[j] = "complete"
                      /\ assistant[j] = "complete" => assistant'[j] = "complete"
  BY DEF AdmitCallEffect, Moves, JobMoves, Becomes
<1>2. StagedTogether'
  BY DEF AdmitCallEffect, Moves, JobMoves, MessageInv, StagedTogether, Becomes
<1>3. LiveIsOpen'
  BY DEF AdmitCallEffect, Moves, JobMoves, MessageInv, LiveIsOpen, Live, Becomes
<1>4. WithdrawnIsUnqueued'
  BY DEF AdmitCallEffect, Moves, JobMoves, MessageInv, WithdrawnIsUnqueued, Live, LaunchStep,
       Unsent, Making, Becomes
<1>5. UnsentIsUnanswered'
  BY DEF AdmitCallEffect, Moves, JobMoves, MessageInv, UnsentIsUnanswered, Live, LaunchStep,
       Unsent, Making, Becomes
<1>6. QueuesAreFacts'
  <2>1. made \notin lane \cup recovering
    BY UnsentIsInNoQueue DEF AdmitCallEffect, LaunchStep, Unsent, Making
  <2> QED
    BY <1>1, <2>1 DEF AdmitCallEffect, Moves, JobMoves, MessageInv, QueuesAreFacts, Live,
           LaunchTypeOK
<1>7. AnswersHaveTheirQuestion'
  BY DEF AdmitCallEffect, Moves, JobMoves, MessageInv, AnswersHaveTheirQuestion, Becomes
<1>8. ContextIsEarlier'
  BY DEF AdmitCallEffect, Moves, JobMoves, MessageInv, ContextIsEarlier, LaunchStep
<1>9. ContextIsNeverWithdrawn'
  BY <1>1 DEF AdmitCallEffect, Moves, JobMoves, MessageInv, ContextIsNeverWithdrawn, State,
       LaunchTypeOK
<1> QED
  BY <1>2, <1>3, <1>4, <1>5, <1>6, <1>7, <1>8, <1>9 DEF MessageInv

\* Accepting the turn keeps the Messages of turns.
LEMMA AcceptKeepsMessages ==
    ASSUME LaunchAssumption, LaunchTypeOK, LaunchInv, CommandInv, MessageInv, AcceptEffect
    PROVE  MessageInv'
<1>1. \A j \in Jobs : /\ user[j] = "complete" => user'[j] = "complete"
                      /\ assistant[j] = "complete" => assistant'[j] = "complete"
  BY DEF AcceptEffect, Moves, TurnAccepted, Becomes
<1>2. StagedTogether'
  BY DEF AcceptEffect, Moves, TurnAccepted, MessageInv, StagedTogether, Becomes
<1>3. LiveIsOpen'
  BY DEF AcceptEffect, Moves, TurnAccepted, MessageInv, LiveIsOpen, Live, Becomes
<1>4. WithdrawnIsUnqueued'
  BY DEF AcceptEffect, Moves, TurnAccepted, MessageInv, WithdrawnIsUnqueued, Live, LaunchStep,
       Unsent, Making, Becomes
<1>5. UnsentIsUnanswered'
  <2>1. Live(made) /\ assistant[made] # "none" => user'[made] = "complete"
    <3>1. user[made] # "deleted"
      BY DEF AcceptEffect, MessageInv, WithdrawnIsUnqueued, LaunchStep, Unsent, Making
    <3> QED
      BY <3>1, TurnBecomesFact DEF AcceptEffect
  <2> QED
    BY <2>1 DEF AcceptEffect, Moves, MessageInv, UnsentIsUnanswered, LaunchStep, Unsent, Making, Live
<1>6. QueuesAreFacts'
  <2>1. made \notin lane \cup recovering
    BY UnsentIsInNoQueue DEF AcceptEffect, LaunchStep, Unsent, Making
  <2> QED
    BY <1>1, <2>1 DEF AcceptEffect, Moves, TurnAccepted, MessageInv, QueuesAreFacts, Live,
           LaunchTypeOK
<1>7. AnswersHaveTheirQuestion'
  BY DEF AcceptEffect, Moves, TurnAccepted, MessageInv, AnswersHaveTheirQuestion, Becomes
<1>8. ContextIsEarlier'
  BY DEF AcceptEffect, Moves, TurnAccepted, MessageInv, ContextIsEarlier, LaunchStep
<1>9. ContextIsNeverWithdrawn'
  BY <1>1 DEF AcceptEffect, Moves, TurnAccepted, MessageInv, ContextIsNeverWithdrawn, State,
       LaunchTypeOK
<1> QED
  BY <1>2, <1>3, <1>4, <1>5, <1>6, <1>7, <1>8, <1>9 DEF MessageInv

\* The handoff keeps the Messages of turns.
LEMMA SendKeepsMessages ==
    ASSUME LaunchAssumption, LaunchTypeOK, LaunchInv, CommandInv, MessageInv, SendEffect
    PROVE  MessageInv'
<1>1. \A j \in Jobs : /\ user[j] = "complete" => user'[j] = "complete"
                      /\ assistant[j] = "complete" => assistant'[j] = "complete"
  BY DEF SendEffect, Moves, JobMoves, Becomes
<1>2. StagedTogether'
  BY DEF SendEffect, Moves, JobMoves, MessageInv, StagedTogether, Becomes
<1>3. LiveIsOpen'
  BY DEF SendEffect, Moves, JobMoves, MessageInv, LiveIsOpen, Live, Becomes
<1>4. WithdrawnIsUnqueued'
  BY DEF SendEffect, Moves, JobMoves, MessageInv, WithdrawnIsUnqueued, Live, LaunchStep, Unsent,
       Making, Becomes
<1>5. UnsentIsUnanswered'
  BY DEF SendEffect, Moves, JobMoves, MessageInv, UnsentIsUnanswered, Live, LaunchStep, Unsent,
       Making, Becomes
<1>6. QueuesAreFacts'
  <2>1. made \notin lane \cup recovering
    BY UnsentIsInNoQueue DEF SendEffect, LaunchStep, Unsent, Making
  <2> QED
    BY <1>1, <2>1 DEF SendEffect, Moves, JobMoves, MessageInv, QueuesAreFacts, UnsentIsUnanswered,
           LaunchStep, Live, LaunchTypeOK
<1>7. AnswersHaveTheirQuestion'
  BY DEF SendEffect, Moves, JobMoves, MessageInv, AnswersHaveTheirQuestion, Becomes
<1>8. ContextIsEarlier'
  BY DEF SendEffect, Moves, JobMoves, MessageInv, ContextIsEarlier, LaunchStep
<1>9. ContextIsNeverWithdrawn'
  BY <1>1 DEF SendEffect, Moves, JobMoves, MessageInv, ContextIsNeverWithdrawn, State,
       LaunchTypeOK
<1> QED
  BY <1>2, <1>3, <1>4, <1>5, <1>6, <1>7, <1>8, <1>9 DEF MessageInv

\* Discarding the question keeps the Messages of turns.
LEMMA DiscardTurnKeepsMessages ==
    ASSUME LaunchAssumption, LaunchTypeOK, LaunchInv, CommandInv, MessageInv, DiscardTurnEffect
    PROVE  MessageInv'
<1>1. \A j \in Jobs \ {made} : user'[j] = user[j]
  BY DEF DiscardTurnEffect
<1>2. StagedTogether'
  BY DEF DiscardTurnEffect, Moves, MessageInv, StagedTogether, Becomes
<1>3. LiveIsOpen'
  BY DEF DiscardTurnEffect, Moves, MessageInv, LiveIsOpen, Live, Becomes
<1>4. WithdrawnIsUnqueued'
  BY DEF DiscardTurnEffect, Moves, MessageInv, WithdrawnIsUnqueued, Live, LaunchStep, Unsent,
       Making, Becomes
<1>5. UnsentIsUnanswered'
  BY DEF DiscardTurnEffect, Moves, MessageInv, UnsentIsUnanswered, Live, LaunchStep, Unsent,
       Making, Becomes
<1>6. QueuesAreFacts'
  <2>1. made \notin lane \cup recovering
    BY UnsentIsInNoQueue DEF DiscardTurnEffect, LaunchStep, Unsent, Making
  <2> QED
    BY <1>1, <2>1 DEF DiscardTurnEffect, Moves, MessageInv, QueuesAreFacts, Live, LaunchTypeOK
<1>7. AnswersHaveTheirQuestion'
  <2>1. assistant[made] # "complete"
    BY DEF DiscardTurnEffect, MessageInv, UnsentIsUnanswered, LaunchStep, Unsent, Making
  <2> QED
    BY <2>1 DEF DiscardTurnEffect, MessageInv, AnswersHaveTheirQuestion
<1>8. ContextIsEarlier'
  BY DEF DiscardTurnEffect, Moves, MessageInv, ContextIsEarlier, LaunchStep
<1>9. ContextIsNeverWithdrawn'
  <2>1. ASSUME NEW j \in Jobs, NEW m \in context[j], m[1] # j
        PROVE  State(m)' = "complete"
    <3>1. m \in Jobs \X {"user", "assistant"} /\ m[1] <= j /\ j <= made /\ State(m) = "complete"
      BY <2>1 DEF LaunchTypeOK, MessageInv, ContextIsEarlier, ContextIsNeverWithdrawn
    <3>2. m[1] \in Jobs \ {made}
      BY <2>1, <3>1 DEF Jobs, LaunchTypeOK, DiscardTurnEffect
    <3> QED
      BY <3>1, <3>2 DEF State, DiscardTurnEffect
  <2> QED
    BY <2>1 DEF DiscardTurnEffect, ContextIsNeverWithdrawn
<1> QED
  BY <1>2, <1>3, <1>4, <1>5, <1>6, <1>7, <1>8, <1>9 DEF MessageInv

\* Failing the Attempt keeps the Messages of turns.
LEMMA FailAttemptKeepsMessages ==
    ASSUME LaunchAssumption, LaunchTypeOK, LaunchInv, CommandInv, MessageInv, FailAttemptEffect
    PROVE  MessageInv'
<1>1. \A j \in Jobs : /\ user[j] = "complete" => user'[j] = "complete"
                      /\ assistant[j] = "complete" => assistant'[j] = "complete"
  BY DEF FailAttemptEffect, Moves, JobsTypeOK, Ended, Untouched, Becomes
<1>2. StagedTogether'
  BY DEF FailAttemptEffect, Moves, JobsTypeOK, Ended, Untouched, MessageInv, StagedTogether,
       Becomes
<1>3. LiveIsOpen'
  BY DEF FailAttemptEffect, Moves, JobsTypeOK, Ended, Untouched, MessageInv, LiveIsOpen, Live,
       Becomes
<1>4. WithdrawnIsUnqueued'
  BY DEF FailAttemptEffect, Moves, JobsTypeOK, Ended, Untouched, MessageInv, WithdrawnIsUnqueued,
       Live, LaunchStep, Unsent, Making, Becomes
<1>5. UnsentIsUnanswered'
  BY DEF FailAttemptEffect, Moves, JobsTypeOK, Ended, Untouched, MessageInv, UnsentIsUnanswered,
       Live, LaunchStep, Unsent, Making, Becomes
<1>6. QueuesAreFacts'
  <2>1. made \notin lane \cup recovering
    BY UnsentIsInNoQueue DEF FailAttemptEffect, LaunchStep, Unsent, Making
  <2> QED
    BY <1>1, <2>1 DEF FailAttemptEffect, Moves, JobsTypeOK, Ended, Untouched, MessageInv,
           QueuesAreFacts, Live, LaunchTypeOK
<1>7. AnswersHaveTheirQuestion'
  BY DEF FailAttemptEffect, Moves, JobsTypeOK, Ended, Untouched, MessageInv,
       AnswersHaveTheirQuestion, Becomes
<1>8. ContextIsEarlier'
  BY DEF FailAttemptEffect, Moves, JobsTypeOK, Ended, Untouched, MessageInv, ContextIsEarlier,
       LaunchStep
<1>9. ContextIsNeverWithdrawn'
  BY <1>1 DEF FailAttemptEffect, Moves, JobsTypeOK, Ended, Untouched, MessageInv,
       ContextIsNeverWithdrawn, State, LaunchTypeOK
<1> QED
  BY <1>2, <1>3, <1>4, <1>5, <1>6, <1>7, <1>8, <1>9 DEF MessageInv

\* The record keeps the Messages of turns.
LEMMA RecordOutcomeKeepsMessages ==
    ASSUME LaunchAssumption, LaunchTypeOK, LaunchInv, CommandInv, MessageInv, RecordOutcomeEffect
    PROVE  MessageInv'
<1>1. \A j \in Jobs : /\ user[j] = "complete" => user'[j] = "complete"
                      /\ assistant[j] = "complete" => assistant'[j] = "complete"
  BY DEF RecordOutcomeEffect, Moves, Becomes
<1>2. StagedTogether'
  BY DEF RecordOutcomeEffect, Moves, MessageInv, StagedTogether, Becomes
<1>3. LiveIsOpen'
  BY DEF RecordOutcomeEffect, Moves, MessageInv, LiveIsOpen, Live, Becomes
<1>4. WithdrawnIsUnqueued'
  BY DEF RecordOutcomeEffect, Moves, MessageInv, WithdrawnIsUnqueued, Live, LaunchStep, Unsent,
       Making, Becomes
<1>5. UnsentIsUnanswered'
  BY DEF RecordOutcomeEffect, Moves, MessageInv, UnsentIsUnanswered, Live, LaunchStep, Unsent,
       Making, Becomes
<1>6. QueuesAreFacts'
  BY <1>1 DEF RecordOutcomeEffect, Moves, MessageInv, QueuesAreFacts, Live
<1>7. AnswersHaveTheirQuestion'
  BY DEF RecordOutcomeEffect, Moves, MessageInv, AnswersHaveTheirQuestion, Becomes
<1>8. ContextIsEarlier'
  BY DEF RecordOutcomeEffect, Moves, MessageInv, ContextIsEarlier, LaunchStep
<1>9. ContextIsNeverWithdrawn'
  BY <1>1 DEF RecordOutcomeEffect, Moves, MessageInv, ContextIsNeverWithdrawn, State, LaunchTypeOK
<1> QED
  BY <1>2, <1>3, <1>4, <1>5, <1>6, <1>7, <1>8, <1>9 DEF MessageInv

\* Giving the lock back keeps the Messages of turns.
LEMMA NotLaunchedKeepsMessages ==
    ASSUME LaunchAssumption, LaunchTypeOK, LaunchInv, CommandInv, MessageInv, NotLaunchedEffect
    PROVE  MessageInv'
<1>1. \A j \in Jobs : /\ user[j] = "complete" => user'[j] = "complete"
                      /\ assistant[j] = "complete" => assistant'[j] = "complete"
  BY DEF NotLaunchedEffect, Tells, Becomes
<1>2. StagedTogether'
  BY DEF NotLaunchedEffect, Tells, MessageInv, StagedTogether, Becomes
<1>3. LiveIsOpen'
  BY DEF NotLaunchedEffect, Tells, MessageInv, LiveIsOpen, Live, Becomes
<1>4. WithdrawnIsUnqueued'
  BY DEF NotLaunchedEffect, Tells, MessageInv, WithdrawnIsUnqueued, Live, LaunchStep, Unsent,
       Making, Becomes
<1>5. UnsentIsUnanswered'
  BY DEF NotLaunchedEffect, Tells, MessageInv, UnsentIsUnanswered, Live, LaunchStep, Unsent,
       Making, Becomes
<1>6. QueuesAreFacts'
  BY <1>1 DEF NotLaunchedEffect, Tells, MessageInv, QueuesAreFacts, Live
<1>7. AnswersHaveTheirQuestion'
  BY DEF NotLaunchedEffect, Tells, MessageInv, AnswersHaveTheirQuestion, Becomes
<1>8. ContextIsEarlier'
  BY DEF NotLaunchedEffect, Tells, MessageInv, ContextIsEarlier, LaunchStep
<1>9. ContextIsNeverWithdrawn'
  BY <1>1 DEF NotLaunchedEffect, Tells, MessageInv, ContextIsNeverWithdrawn, State, LaunchTypeOK
<1> QED
  BY <1>2, <1>3, <1>4, <1>5, <1>6, <1>7, <1>8, <1>9 DEF MessageInv

\* Ending the detached turn keeps the Messages of turns.
LEMMA SupersedeKeepsMessages ==
    ASSUME LaunchAssumption, LaunchTypeOK, LaunchInv, CommandInv, MessageInv, SupersedeEffect
    PROVE  MessageInv'
<1>1. OnlyEnds
  BY DEF SupersedeEffect, OnlyEnds, Untouched
<1>2. \A step \in Unsent : LaunchStep({step})' => LaunchStep({step})
  BY DEF SupersedeEffect, Moves, LaunchStep, Unsent, Making
<1> QED
  BY <1>1, <1>2, EndsKeepMessages DEF SupersedeEffect

\* Publishing keeps the Messages of turns.
LEMMA PublishTurnKeepsMessages ==
    ASSUME LaunchAssumption, LaunchTypeOK, LaunchInv, CommandInv, MessageInv, PublishTurnEffect
    PROVE  MessageInv'
<1>1. OnlyEnds
  BY DEF PublishTurnEffect, OnlyEnds, Untouched
<1>2. \A step \in Unsent : LaunchStep({step})' => LaunchStep({step})
  BY DEF PublishTurnEffect, LaunchStep, Unsent, Making
<1> QED
  BY <1>1, <1>2, EndsKeepMessages DEF PublishTurnEffect

\* A cancellation keeps the Messages of turns.
LEMMA CancelChatKeepsMessages ==
    ASSUME LaunchAssumption, LaunchTypeOK, LaunchInv, CommandInv, MessageInv, CancelChatEffect
    PROVE  MessageInv'
<1>1. OnlyEnds
  BY DEF CancelChatEffect, OnlyEnds, Untouched
<1>2. \A step \in Unsent : LaunchStep({step})' => LaunchStep({step})
  BY DEF CancelChatEffect, LaunchStep, Unsent, Making
<1> QED
  BY <1>1, <1>2, EndsKeepMessages DEF CancelChatEffect

\* Forgetting a turn keeps the Messages of turns.
LEMMA ForgetChatKeepsMessages ==
    ASSUME LaunchAssumption, LaunchTypeOK, LaunchInv, CommandInv, MessageInv, ForgetChat
    PROVE  MessageInv'
<1>1. \A j \in Jobs : /\ user[j] = "complete" => user'[j] = "complete"
                      /\ assistant[j] = "complete" => assistant'[j] = "complete"
  BY DEF ForgetChat, chatVars, Becomes
<1>2. StagedTogether'
  BY DEF ForgetChat, chatVars, MessageInv, StagedTogether, Becomes
<1>3. LiveIsOpen'
  BY DEF ForgetChat, chatVars, MessageInv, LiveIsOpen, Live, Becomes
<1>4. WithdrawnIsUnqueued'
  BY DEF ForgetChat, chatVars, MessageInv, WithdrawnIsUnqueued, Live, LaunchStep, Unsent, Making,
       Becomes
<1>5. UnsentIsUnanswered'
  BY DEF ForgetChat, chatVars, MessageInv, UnsentIsUnanswered, Live, LaunchStep, Unsent, Making,
       Becomes
<1>6. QueuesAreFacts'
  BY <1>1 DEF ForgetChat, chatVars, MessageInv, QueuesAreFacts, Live
<1>7. AnswersHaveTheirQuestion'
  BY DEF ForgetChat, chatVars, MessageInv, AnswersHaveTheirQuestion, Becomes
<1>8. ContextIsEarlier'
  BY DEF ForgetChat, chatVars, MessageInv, ContextIsEarlier, LaunchStep
<1>9. ContextIsNeverWithdrawn'
  BY <1>1 DEF ForgetChat, chatVars, MessageInv, ContextIsNeverWithdrawn, State, LaunchTypeOK
<1> QED
  BY <1>2, <1>3, <1>4, <1>5, <1>6, <1>7, <1>8, <1>9 DEF MessageInv

\* The worker keeps the Messages of turns.
LEMMA WorkKeepsMessages ==
    ASSUME LaunchAssumption, LaunchTypeOK, LaunchInv, CommandInv, MessageInv,
           NEW i \in Jobs, NEW completed \in BOOLEAN, WorkEffect(i, completed)
    PROVE  MessageInv'
<1>1. OnlyEnds
  BY DEF WorkEffect, OnlyEnds, Untouched
<1>2. \A step \in Unsent : LaunchStep({step})' => LaunchStep({step})
  BY DEF WorkEffect, LaunchStep, Unsent, Making
<1> QED
  BY <1>1, <1>2, EndsKeepMessages DEF WorkEffect

\* The recovery keeps the Messages of turns.
LEMMA RequeueKeepsMessages ==
    ASSUME LaunchAssumption, LaunchTypeOK, LaunchInv, CommandInv, MessageInv, NEW i \in Jobs,
           RequeueEffect(i)
    PROVE  MessageInv'
<1>1. \A j \in Jobs : /\ user[j] = "complete" => user'[j] = "complete"
                      /\ assistant[j] = "complete" => assistant'[j] = "complete"
  BY DEF RequeueEffect, TurnAccepted, Becomes
<1>2. StagedTogether'
  BY DEF RequeueEffect, TurnAccepted, MessageInv, StagedTogether, Becomes
<1>3. LiveIsOpen'
  BY DEF RequeueEffect, TurnAccepted, MessageInv, LiveIsOpen, Live, Becomes
<1>4. WithdrawnIsUnqueued'
  <2>1. \A k \in Jobs : user'[k] = "deleted" => user[k] = "deleted"
    BY DEF RequeueEffect, TurnAccepted, Becomes
  <2>2. LaunchStep(Unsent) => made \in Jobs
    BY HoldsItsJob DEF LaunchStep, Unsent
  <2> QED
    BY <2>1, <2>2 DEF RequeueEffect, MessageInv, WithdrawnIsUnqueued, Live, LaunchStep, LaunchTypeOK, Unsent, Making
<1>5. UnsentIsUnanswered'
  <2>1. LaunchStep(Unsent) => made \in Jobs
    BY HoldsItsJob DEF LaunchStep, Unsent
  <2> QED
    BY <1>1, <2>1 DEF RequeueEffect, MessageInv, UnsentIsUnanswered, Live, LaunchStep, LaunchTypeOK, Unsent, Making
<1>6. QueuesAreFacts'
  <2>1. Live(i) /\ TurnAccepted(i) /\ assistant[i] # "none" => user'[i] = "complete"
    <3>1. Live(i) => user[i] # "deleted"
      BY DEF RequeueEffect, MessageInv, QueuesAreFacts, WithdrawnIsUnqueued
    <3> QED
      BY <3>1, TurnBecomesFact
  <2> QED
    BY <1>1, <2>1 DEF RequeueEffect, MessageInv, QueuesAreFacts, Live, LaunchTypeOK
<1>7. AnswersHaveTheirQuestion'
  BY DEF RequeueEffect, TurnAccepted, MessageInv, AnswersHaveTheirQuestion, Becomes
<1>8. ContextIsEarlier'
  BY DEF RequeueEffect, TurnAccepted, MessageInv, ContextIsEarlier, LaunchStep
<1>9. ContextIsNeverWithdrawn'
  BY <1>1 DEF RequeueEffect, TurnAccepted, MessageInv, ContextIsNeverWithdrawn, State,
       LaunchTypeOK
<1> QED
  BY <1>2, <1>3, <1>4, <1>5, <1>6, <1>7, <1>8, <1>9 DEF MessageInv

\* A crash keeps the Messages of turns.
LEMMA CrashKeepsMessages ==
    ASSUME LaunchAssumption, LaunchTypeOK, LaunchInv, CommandInv, MessageInv, Crash
    PROVE  MessageInv'
<1>1. \A j \in Jobs : /\ user[j] = "complete" => user'[j] = "complete"
                      /\ assistant[j] = "complete" => assistant'[j] = "complete"
  BY DEF Crash, chatVars, Becomes
<1>2. StagedTogether'
  BY DEF Crash, chatVars, MessageInv, StagedTogether, Becomes
<1>3. LiveIsOpen'
  BY DEF Crash, chatVars, MessageInv, LiveIsOpen, Live, Becomes
<1>4. WithdrawnIsUnqueued'
  BY DEF Crash, chatVars, MessageInv, WithdrawnIsUnqueued, Live, LaunchStep, Unsent, Making,
       Becomes
<1>5. UnsentIsUnanswered'
  BY DEF Crash, chatVars, MessageInv, UnsentIsUnanswered, Live, LaunchStep, Unsent, Making,
       Becomes
<1>6. QueuesAreFacts'
  BY <1>1 DEF Crash, chatVars, MessageInv, QueuesAreFacts, Live
<1>7. AnswersHaveTheirQuestion'
  BY DEF Crash, chatVars, MessageInv, AnswersHaveTheirQuestion, Becomes
<1>8. ContextIsEarlier'
  BY DEF Crash, chatVars, MessageInv, ContextIsEarlier, LaunchStep
<1>9. ContextIsNeverWithdrawn'
  BY <1>1 DEF Crash, chatVars, MessageInv, ContextIsNeverWithdrawn, State, LaunchTypeOK
<1> QED
  BY <1>2, <1>3, <1>4, <1>5, <1>6, <1>7, <1>8, <1>9 DEF MessageInv

---------------------------------------------------------------------------------
(* The hold on live turns. *)

\* Taking the lock keeps the hold on live turns.
LEMMA RegisterKeepsHold ==
    ASSUME LaunchAssumption, LaunchTypeOK, LaunchInv, CommandInv, MessageInv, HoldInv,
           NEW c \in Commands, NEW hash \in Contents, RegisterEffect(c, hash)
    PROVE  HoldInv'
<1>1. \A j \in Jobs : LiveTurn(j)' => Held(j)'
  BY DEF RegisterEffect, HoldInv, LiveTurn, Live, LaunchesJob, Holding, LaunchStep, Making,
       NewlyAccepted, Chat, Held, LaunchInv, RegistrationFollows, LaunchHoldsLast
<1>2. \A j \in Jobs : LiveTurn(j)' =>
          assistant'[j] = "pending" \/ (LaunchesJob(j)' /\ launch'.step = "prepare")
  BY DEF RegisterEffect, HoldInv, LiveTurn, Live, LaunchesJob, Holding, LaunchStep, Making,
       NewlyAccepted, Chat, Becomes
<1>3. LaunchStep({"record_failed"})' => ~Live(made)'
  BY DEF RegisterEffect, HoldInv, LaunchStep, Live
<1> QED
  BY <1>1, <1>2, <1>3 DEF HoldInv

\* The lookup keeps the hold on live turns.
LEMMA LookupKeepsHold ==
    ASSUME LaunchAssumption, LaunchTypeOK, LaunchInv, CommandInv, MessageInv, HoldInv,
           LookupEffect
    PROVE  HoldInv'
<1>1. \A j \in Jobs : LiveTurn(j)' => Held(j)'
  BY DEF LookupEffect, Moves, HoldInv, LiveTurn, Live, LaunchesJob, Holding, LaunchStep, Making,
       NewlyAccepted, Chat, Held, LaunchInv, RegistrationFollows, LaunchHoldsLast
<1>2. \A j \in Jobs : LiveTurn(j)' =>
          assistant'[j] = "pending" \/ (LaunchesJob(j)' /\ launch'.step = "prepare")
  BY DEF LookupEffect, Moves, HoldInv, LiveTurn, Live, LaunchesJob, Holding, LaunchStep, Making,
       NewlyAccepted, Chat, Becomes
<1>3. LaunchStep({"record_failed"})' => ~Live(made)'
  BY DEF LookupEffect, Moves, HoldInv, LaunchStep, Live
<1> QED
  BY <1>1, <1>2, <1>3 DEF HoldInv

\* A new runtime keeps the hold on live turns.
LEMMA StartRuntimeKeepsHold ==
    ASSUME LaunchAssumption, LaunchTypeOK, LaunchInv, CommandInv, MessageInv, HoldInv,
           StartRuntimeEffect
    PROVE  HoldInv'
<1>1. \A j \in Jobs : LiveTurn(j)' => Held(j)'
  BY DEF StartRuntimeEffect, Moves, HoldInv, LiveTurn, Live, LaunchesJob, Holding, LaunchStep,
       Making, NewlyAccepted, Chat, Held, LaunchInv, RegistrationFollows, LaunchHoldsLast
<1>2. \A j \in Jobs : LiveTurn(j)' =>
          assistant'[j] = "pending" \/ (LaunchesJob(j)' /\ launch'.step = "prepare")
  BY DEF StartRuntimeEffect, Moves, HoldInv, LiveTurn, Live, LaunchesJob, Holding, LaunchStep,
       Making, NewlyAccepted, Chat, Becomes
<1>3. LaunchStep({"record_failed"})' => ~Live(made)'
  BY DEF StartRuntimeEffect, Moves, HoldInv, LaunchStep, Live
<1> QED
  BY <1>1, <1>2, <1>3 DEF HoldInv

\* A refusal keeps the hold on live turns.
LEMMA RefuseLaunchKeepsHold ==
    ASSUME LaunchAssumption, LaunchTypeOK, LaunchInv, CommandInv, MessageInv, HoldInv,
           NEW outcome \in {"failed", "rejected"}, RefuseLaunchEffect(outcome)
    PROVE  HoldInv'
<1>1. \A j \in Jobs : LiveTurn(j)' => Held(j)'
  BY DEF RefuseLaunchEffect, Moves, HoldInv, LiveTurn, Live, LaunchesJob, Holding, LaunchStep,
       Making, NewlyAccepted, Chat, Held, LaunchInv, RegistrationFollows, LaunchHoldsLast
<1>2. \A j \in Jobs : LiveTurn(j)' =>
          assistant'[j] = "pending" \/ (LaunchesJob(j)' /\ launch'.step = "prepare")
  BY DEF RefuseLaunchEffect, Moves, HoldInv, LiveTurn, Live, LaunchesJob, Holding, LaunchStep,
       Making, NewlyAccepted, Chat, Becomes
<1>3. LaunchStep({"record_failed"})' => ~Live(made)'
  BY DEF RefuseLaunchEffect, Moves, HoldInv, LaunchStep, Live
<1> QED
  BY <1>1, <1>2, <1>3 DEF HoldInv

\* An error keeps the hold on live turns.
LEMMA LaunchErrsKeepsHold ==
    ASSUME LaunchAssumption, LaunchTypeOK, LaunchInv, CommandInv, MessageInv, HoldInv,
           LaunchErrsEffect
    PROVE  HoldInv'
<1>1. \A j \in Jobs : LiveTurn(j)' => Held(j)'
  BY DEF LaunchErrsEffect, Moves, HoldInv, LiveTurn, Live, LaunchesJob, Holding, LaunchStep,
       Making, NewlyAccepted, Chat, Held, LaunchInv, RegistrationFollows, LaunchHoldsLast
<1>2. \A j \in Jobs : LiveTurn(j)' =>
          assistant'[j] = "pending" \/ (LaunchesJob(j)' /\ launch'.step = "prepare")
  BY DEF LaunchErrsEffect, Moves, HoldInv, LiveTurn, Live, LaunchesJob, Holding, LaunchStep,
       Making, NewlyAccepted, Chat, Becomes
<1>3. LaunchStep({"record_failed"})' => ~Live(made)'
  BY DEF LaunchErrsEffect, Moves, HoldInv, LaunchStep, Live
<1> QED
  BY <1>1, <1>2, <1>3 DEF HoldInv

\* The Job made keeps the hold on live turns.
LEMMA CreateJobKeepsHold ==
    ASSUME LaunchAssumption, LaunchTypeOK, LaunchInv, CommandInv, MessageInv, HoldInv,
           CreateJobEffect
    PROVE  HoldInv'
<1>1. \A j \in Jobs : LiveTurn(j)' => Held(j)'
  <2>1. \A j \in Jobs : LiveTurn(j)' => LiveTurn(j) /\ assistant'[j] = assistant[j]
    <3>1. job'[made'].attempt = "none"
      BY DEF CreateJobEffect, LaunchInv, JobsInOrder
    <3> QED
      BY <3>1 DEF CreateJobEffect, LiveTurn, Live
  <2>2. \A j : ~LaunchesJob(j)
    BY DEF CreateJobEffect, LaunchesJob, Holding, LaunchStep, Making
  <2> QED
    BY <2>1, <2>2 DEF CreateJobEffect, Moves, HoldInv, Held, Chat
<1>2. \A j \in Jobs : LiveTurn(j)' =>
          assistant'[j] = "pending" \/ (LaunchesJob(j)' /\ launch'.step = "prepare")
  <2>1. \A j \in Jobs : LiveTurn(j)' => LiveTurn(j) /\ assistant'[j] = assistant[j]
    <3>1. job'[made'].attempt = "none"
      BY DEF CreateJobEffect, LaunchInv, JobsInOrder
    <3> QED
      BY <3>1 DEF CreateJobEffect, LiveTurn, Live
  <2>2. \A j : ~LaunchesJob(j)
    BY DEF CreateJobEffect, LaunchesJob, Holding, LaunchStep, Making
  <2> QED
    BY <2>1, <2>2 DEF HoldInv
<1>3. LaunchStep({"record_failed"})' => ~Live(made)'
  BY DEF CreateJobEffect, Moves, HoldInv, LaunchStep, Live
<1> QED
  BY <1>1, <1>2, <1>3 DEF HoldInv

\* The Attempt keeps the hold on live turns.
LEMMA DispatchJobKeepsHold ==
    ASSUME LaunchAssumption, LaunchTypeOK, LaunchInv, CommandInv, MessageInv, HoldInv,
           DispatchJobEffect
    PROVE  HoldInv'
<1>1. \A j \in Jobs : LiveTurn(j)' => Held(j)'
  BY DEF DispatchJobEffect, Moves, JobMoves, HoldInv, LiveTurn, Live, LaunchesJob, Holding,
       LaunchStep, Making, NewlyAccepted, Chat, Held, LaunchInv, RegistrationFollows,
       LaunchHoldsLast
<1>2. \A j \in Jobs : LiveTurn(j)' =>
          assistant'[j] = "pending" \/ (LaunchesJob(j)' /\ launch'.step = "prepare")
  <2>1. LaunchesJob(made) /\ job[made].cmd = launch.cmd
    BY HoldsItsJob DEF DispatchJobEffect, LaunchStep, Making
  <2>2. \A j \in Jobs : j = made => LaunchesJob(j)'
    BY <2>1 DEF DispatchJobEffect, Moves, LaunchesJob, Holding, LaunchStep, Making
  <2>3. \A j \in Jobs : j = made /\ LiveTurn(j)' => launch'.step = "prepare"
    BY <2>1 DEF DispatchJobEffect, JobMoves, Moves, LiveTurn, Chat
  <2>4. \A j \in Jobs \ {made} : LiveTurn(j)' => assistant'[j] = "pending"
    BY DEF DispatchJobEffect, JobMoves, HoldInv, LiveTurn, Live
  <2> QED
    BY <2>2, <2>3, <2>4
<1>3. LaunchStep({"record_failed"})' => ~Live(made)'
  BY DEF DispatchJobEffect, Moves, JobMoves, HoldInv, LaunchStep, Live
<1> QED
  BY <1>1, <1>2, <1>3 DEF HoldInv

\* Staging keeps the hold on live turns.
LEMMA PrepareTurnKeepsHold ==
    ASSUME LaunchAssumption, LaunchTypeOK, LaunchInv, CommandInv, MessageInv, HoldInv,
           PrepareTurnEffect
    PROVE  HoldInv'
<1>1. \A j \in Jobs : LiveTurn(j)' => Held(j)'
  BY DEF PrepareTurnEffect, Moves, JobMoves, HoldInv, LiveTurn, Live, LaunchesJob, Holding,
       LaunchStep, Making, NewlyAccepted, Chat, Held, LaunchInv, RegistrationFollows,
       LaunchHoldsLast
<1>2. \A j \in Jobs : LiveTurn(j)' =>
          assistant'[j] = "pending" \/ (LaunchesJob(j)' /\ launch'.step = "prepare")
  BY DEF PrepareTurnEffect, Moves, JobMoves, HoldInv, LiveTurn, Live, LaunchesJob, Holding,
       LaunchStep, Making, NewlyAccepted, Chat, Becomes
<1>3. LaunchStep({"record_failed"})' => ~Live(made)'
  BY DEF PrepareTurnEffect, Moves, JobMoves, HoldInv, LaunchStep, Live
<1> QED
  BY <1>1, <1>2, <1>3 DEF HoldInv

\* The Call keeps the hold on live turns.
LEMMA CreateCallKeepsHold ==
    ASSUME LaunchAssumption, LaunchTypeOK, LaunchInv, CommandInv, MessageInv, HoldInv,
           CreateCallEffect
    PROVE  HoldInv'
<1>1. \A j \in Jobs : LiveTurn(j)' => Held(j)'
  BY DEF CreateCallEffect, Moves, JobMoves, HoldInv, LiveTurn, Live, LaunchesJob, Holding,
       LaunchStep, Making, NewlyAccepted, Chat, Held, LaunchInv, RegistrationFollows,
       LaunchHoldsLast
<1>2. \A j \in Jobs : LiveTurn(j)' =>
          assistant'[j] = "pending" \/ (LaunchesJob(j)' /\ launch'.step = "prepare")
  BY DEF CreateCallEffect, Moves, JobMoves, HoldInv, LiveTurn, Live, LaunchesJob, Holding,
       LaunchStep, Making, NewlyAccepted, Chat, Becomes
<1>3. LaunchStep({"record_failed"})' => ~Live(made)'
  BY DEF CreateCallEffect, Moves, JobMoves, HoldInv, LaunchStep, Live
<1> QED
  BY <1>1, <1>2, <1>3 DEF HoldInv

\* The admission keeps the hold on live turns.
LEMMA AdmitCallKeepsHold ==
    ASSUME LaunchAssumption, LaunchTypeOK, LaunchInv, CommandInv, MessageInv, HoldInv,
           AdmitCallEffect
    PROVE  HoldInv'
<1>1. \A j \in Jobs : LiveTurn(j)' => Held(j)'
  BY DEF AdmitCallEffect, Moves, JobMoves, HoldInv, LiveTurn, Live, LaunchesJob, Holding,
       LaunchStep, Making, NewlyAccepted, Chat, Held, LaunchInv, RegistrationFollows,
       LaunchHoldsLast
<1>2. \A j \in Jobs : LiveTurn(j)' =>
          assistant'[j] = "pending" \/ (LaunchesJob(j)' /\ launch'.step = "prepare")
  BY DEF AdmitCallEffect, Moves, JobMoves, HoldInv, LiveTurn, Live, LaunchesJob, Holding,
       LaunchStep, Making, NewlyAccepted, Chat, Becomes
<1>3. LaunchStep({"record_failed"})' => ~Live(made)'
  BY DEF AdmitCallEffect, Moves, JobMoves, HoldInv, LaunchStep, Live
<1> QED
  BY <1>1, <1>2, <1>3 DEF HoldInv

\* Accepting the turn keeps the hold on live turns.
LEMMA AcceptKeepsHold ==
    ASSUME LaunchAssumption, LaunchTypeOK, LaunchInv, CommandInv, MessageInv, HoldInv,
           AcceptEffect
    PROVE  HoldInv'
<1>1. \A j \in Jobs : LiveTurn(j)' => Held(j)'
  BY DEF AcceptEffect, Moves, TurnAccepted, HoldInv, LiveTurn, Live, LaunchesJob, Holding,
       LaunchStep, Making, NewlyAccepted, Chat, Held, LaunchInv, RegistrationFollows,
       LaunchHoldsLast
<1>2. \A j \in Jobs : LiveTurn(j)' =>
          assistant'[j] = "pending" \/ (LaunchesJob(j)' /\ launch'.step = "prepare")
  BY DEF AcceptEffect, Moves, TurnAccepted, HoldInv, LiveTurn, Live, LaunchesJob, Holding,
       LaunchStep, Making, NewlyAccepted, Chat, Becomes
<1>3. LaunchStep({"record_failed"})' => ~Live(made)'
  BY DEF AcceptEffect, Moves, TurnAccepted, HoldInv, LaunchStep, Live
<1> QED
  BY <1>1, <1>2, <1>3 DEF HoldInv

\* The handoff keeps the hold on live turns.
LEMMA SendKeepsHold ==
    ASSUME LaunchAssumption, LaunchTypeOK, LaunchInv, CommandInv, MessageInv, HoldInv, SendEffect
    PROVE  HoldInv'
<1>1. \A j \in Jobs : LiveTurn(j)' => Held(j)'
  BY DEF SendEffect, Moves, JobMoves, HoldInv, LiveTurn, Live, LaunchesJob, Holding, LaunchStep,
       Making, NewlyAccepted, Chat, Held, LaunchInv, RegistrationFollows, LaunchHoldsLast
<1>2. \A j \in Jobs : LiveTurn(j)' =>
          assistant'[j] = "pending" \/ (LaunchesJob(j)' /\ launch'.step = "prepare")
  BY DEF SendEffect, Moves, JobMoves, HoldInv, LiveTurn, Live, LaunchesJob, Holding, LaunchStep,
       Making, NewlyAccepted, Chat, Becomes
<1>3. LaunchStep({"record_failed"})' => ~Live(made)'
  BY DEF SendEffect, Moves, JobMoves, HoldInv, LaunchStep, Live
<1> QED
  BY <1>1, <1>2, <1>3 DEF HoldInv

\* Discarding the question keeps the hold on live turns.
LEMMA DiscardTurnKeepsHold ==
    ASSUME LaunchAssumption, LaunchTypeOK, LaunchInv, CommandInv, MessageInv, HoldInv,
           DiscardTurnEffect
    PROVE  HoldInv'
<1>1. \A j \in Jobs : LiveTurn(j)' => Held(j)'
  BY DEF DiscardTurnEffect, Moves, HoldInv, LiveTurn, Live, LaunchesJob, Holding, LaunchStep,
       Making, NewlyAccepted, Chat, Held, LaunchInv, RegistrationFollows, LaunchHoldsLast
<1>2. \A j \in Jobs : LiveTurn(j)' =>
          assistant'[j] = "pending" \/ (LaunchesJob(j)' /\ launch'.step = "prepare")
  BY DEF DiscardTurnEffect, Moves, HoldInv, LiveTurn, Live, LaunchesJob, Holding, LaunchStep,
       Making, NewlyAccepted, Chat, Becomes
<1>3. LaunchStep({"record_failed"})' => ~Live(made)'
  BY DEF DiscardTurnEffect, Moves, HoldInv, LaunchStep, Live
<1> QED
  BY <1>1, <1>2, <1>3 DEF HoldInv

\* Failing the Attempt keeps the hold on live turns.
LEMMA FailAttemptKeepsHold ==
    ASSUME LaunchAssumption, LaunchTypeOK, LaunchInv, CommandInv, MessageInv, HoldInv,
           FailAttemptEffect
    PROVE  HoldInv'
<1>1. \A j \in Jobs : LiveTurn(j)' => Held(j)'
  BY DEF FailAttemptEffect, Moves, JobsTypeOK, Ended, Untouched, HoldInv, LiveTurn, Live,
       LaunchesJob, Holding, LaunchStep, Making, NewlyAccepted, Chat, Held, LaunchInv,
       RegistrationFollows, LaunchHoldsLast
<1>2. \A j \in Jobs : LiveTurn(j)' =>
          assistant'[j] = "pending" \/ (LaunchesJob(j)' /\ launch'.step = "prepare")
  BY DEF FailAttemptEffect, Moves, JobsTypeOK, Ended, Untouched, HoldInv, LiveTurn, Live,
       LaunchesJob, Holding, LaunchStep, Making, NewlyAccepted, Chat, Becomes
<1>3. LaunchStep({"record_failed"})' => ~Live(made)'
  BY DEF FailAttemptEffect, Moves, JobsTypeOK, Ended, Untouched, HoldInv, LaunchStep, Live
<1> QED
  BY <1>1, <1>2, <1>3 DEF HoldInv

\* The record keeps the hold on live turns.
LEMMA RecordOutcomeKeepsHold ==
    ASSUME LaunchAssumption, LaunchTypeOK, LaunchInv, CommandInv, MessageInv, HoldInv,
           RecordOutcomeEffect
    PROVE  HoldInv'
<1>1. \A j \in Jobs : LiveTurn(j)' => Held(j)'
  <2>1. /\ launch # NoLaunch /\ LaunchStep({"record", "record_failed"}) /\ Holding
        /\ launch.job = made /\ made \in Jobs
    BY DEF RecordOutcomeEffect, Holding, LaunchStep, Making
  <2>2. ~(command[launch.cmd] # NoRow /\
            (command[launch.cmd].hash # launch.hash \/ command[launch.cmd].job # made))
    BY <2>1 DEF CommandInv, LaunchWritesItsOwn
  <2>3. \/ Moves("reply", made, "accepted", FALSE)
        \/ launch.step = "record_failed" /\ Moves("reply", made, "failed", FALSE)
    BY <2>2 DEF RecordOutcomeEffect
  <2>4. CASE Moves("reply", made, "accepted", FALSE)
    BY <2>1, <2>4 DEF RecordOutcomeEffect, Moves, HoldInv, LiveTurn, Live, Held, LaunchesJob, Holding,
                LaunchStep, NewlyAccepted, Chat
  <2>5. CASE launch.step = "record_failed" /\ Moves("reply", made, "failed", FALSE)
    BY <2>1, <2>5 DEF RecordOutcomeEffect, Moves, HoldInv, LiveTurn, Live, Held, LaunchesJob,
                LaunchStep, Chat
  <2> QED
    BY <2>3, <2>4, <2>5
<1>2. \A j \in Jobs : LiveTurn(j)' =>
          assistant'[j] = "pending" \/ (LaunchesJob(j)' /\ launch'.step = "prepare")
  BY DEF RecordOutcomeEffect, Moves, HoldInv, LiveTurn, Live, LaunchesJob, Holding, LaunchStep,
       Making, NewlyAccepted, Chat, Becomes
<1>3. LaunchStep({"record_failed"})' => ~Live(made)'
  BY DEF RecordOutcomeEffect, Moves, HoldInv, LaunchStep, Live
<1> QED
  BY <1>1, <1>2, <1>3 DEF HoldInv

\* Giving the lock back keeps the hold on live turns.
LEMMA NotLaunchedKeepsHold ==
    ASSUME LaunchAssumption, LaunchTypeOK, LaunchInv, CommandInv, MessageInv, HoldInv,
           NotLaunchedEffect
    PROVE  HoldInv'
<1>1. \A j \in Jobs : LiveTurn(j)' => Held(j)'
  <2>1. \A j \in Jobs : [job |-> j] # [job |-> NoJob] /\ [job |-> j] # NoTurn
    BY DEF LaunchAssumption, Registrations, Jobs, NoJob
  <2>2. ASSUME NEW j \in Jobs, LiveTurn(j)'
        PROVE  active' = [job |-> j]
    <3>1. LiveTurn(j) /\ Held(j)
      BY <2>2 DEF NotLaunchedEffect, HoldInv, LiveTurn, Live
    <3>2. CASE active = [job |-> j]
      BY <2>1, <3>2 DEF NotLaunchedEffect, LaunchInv, RegistrationFollows
    <3>3. CASE Chat /\ launch.previous = [job |-> j]
      BY <3>3, LaunchIsTyped DEF NotLaunchedEffect, LaunchInv, RegistrationFollows
    <3> QED
      BY <3>1, <3>2, <3>3 DEF NotLaunchedEffect, Held, LaunchesJob, Holding, LaunchStep, Making
  <2> QED
    BY <2>2 DEF Held
<1>2. \A j \in Jobs : LiveTurn(j)' =>
          assistant'[j] = "pending" \/ (LaunchesJob(j)' /\ launch'.step = "prepare")
  BY DEF NotLaunchedEffect, Tells, HoldInv, LiveTurn, Live, LaunchesJob, Holding, LaunchStep,
       Making, NewlyAccepted, Chat, Becomes
<1>3. LaunchStep({"record_failed"})' => ~Live(made)'
  BY DEF NotLaunchedEffect, Tells, HoldInv, LaunchStep, Live
<1> QED
  BY <1>1, <1>2, <1>3 DEF HoldInv

\* Ending the detached turn keeps the hold on live turns.
LEMMA SupersedeKeepsHold ==
    ASSUME LaunchAssumption, LaunchTypeOK, LaunchInv, CommandInv, MessageInv, HoldInv,
           SupersedeEffect
    PROVE  HoldInv'
<1>1. \A j \in Jobs : LiveTurn(j)' => Held(j)'
  BY DEF SupersedeEffect, Moves, JobsTypeOK, Ended, Untouched, HoldInv, LiveTurn, Live,
       LaunchesJob, Holding, LaunchStep, Making, NewlyAccepted, Chat, Held, LaunchInv,
       RegistrationFollows, LaunchHoldsLast
<1>2. \A j \in Jobs : LiveTurn(j)' =>
          assistant'[j] = "pending" \/ (LaunchesJob(j)' /\ launch'.step = "prepare")
  BY DEF SupersedeEffect, Moves, JobsTypeOK, Ended, Untouched, HoldInv, LiveTurn, Live,
       LaunchesJob, Holding, LaunchStep, Making, NewlyAccepted, Chat, Becomes
<1>3. LaunchStep({"record_failed"})' => ~Live(made)'
  BY DEF SupersedeEffect, Moves, JobsTypeOK, Ended, Untouched, HoldInv, LaunchStep, Live
<1> QED
  BY <1>1, <1>2, <1>3 DEF HoldInv

\* Publishing keeps the hold on live turns.
LEMMA PublishTurnKeepsHold ==
    ASSUME LaunchAssumption, LaunchTypeOK, LaunchInv, CommandInv, MessageInv, HoldInv,
           PublishTurnEffect
    PROVE  HoldInv'
<1>1. \A j \in Jobs : LiveTurn(j)' => Held(j)'
  <2>1. \A j \in Jobs : [job |-> j] # [job |-> NoJob] /\ [job |-> j] # NoTurn
    BY DEF LaunchAssumption, Registrations, Jobs, NoJob
  <2>2. ASSUME NEW j \in Jobs, LiveTurn(j)'
        PROVE  active' = [job |-> j]
    <3>1. LiveTurn(j) /\ Held(j)
      BY <2>2 DEF PublishTurnEffect, HoldInv, LiveTurn, Live, Untouched, Ended
    <3>2. launch # NoLaunch /\ launch.step = "publish" /\ Chat /\ launch.job = made
      BY DEF PublishTurnEffect, LaunchInv, LaunchHoldsLast, LaunchStep
    <3>3. active # [job |-> j]
      BY <2>1, <3>2 DEF LaunchInv, RegistrationFollows
    <3>4. j = made
      BY <3>1, <3>2, <3>3 DEF Held, LaunchesJob
    <3> QED
      BY <2>2, <3>1, <3>4 DEF PublishTurnEffect, LiveTurn, Live, Ended
  <2> QED
    BY <2>2 DEF Held
<1>2. \A j \in Jobs : LiveTurn(j)' =>
          assistant'[j] = "pending" \/ (LaunchesJob(j)' /\ launch'.step = "prepare")
  BY DEF PublishTurnEffect, JobsTypeOK, Tells, Ended, Untouched, HoldInv, LiveTurn, Live,
       LaunchesJob, Holding, LaunchStep, Making, NewlyAccepted, Chat, Becomes
<1>3. LaunchStep({"record_failed"})' => ~Live(made)'
  BY DEF PublishTurnEffect, JobsTypeOK, Tells, Ended, Untouched, HoldInv, LaunchStep, Live
<1> QED
  BY <1>1, <1>2, <1>3 DEF HoldInv

\* A cancellation keeps the hold on live turns.
LEMMA CancelChatKeepsHold ==
    ASSUME LaunchAssumption, LaunchTypeOK, LaunchInv, CommandInv, MessageInv, HoldInv,
           CancelChatEffect
    PROVE  HoldInv'
<1>1. \A j \in Jobs : LiveTurn(j)' => Held(j)'
  <2>1. \A j \in Jobs : [job |-> j] # [job |-> NoJob] /\ [job |-> j] # NoTurn
    BY DEF LaunchAssumption, Registrations, Jobs, NoJob
  <2>2. ASSUME NEW j \in Jobs, LiveTurn(j)'
        PROVE  Held(j)'
    <3>1. LiveTurn(j) /\ Held(j)
      BY <2>2 DEF CancelChatEffect, HoldInv, LiveTurn, Live, Untouched, Ended
    <3>2. active # [job |-> j]
      BY <2>1, <2>2, <3>1 DEF CancelChatEffect, LiveTurn, Live, Ended
    <3> QED
      BY <3>1, <3>2 DEF CancelChatEffect, Held, LaunchesJob, Holding, LaunchStep, NewlyAccepted, Chat
  <2> QED
    BY <2>2
<1>2. \A j \in Jobs : LiveTurn(j)' =>
          assistant'[j] = "pending" \/ (LaunchesJob(j)' /\ launch'.step = "prepare")
  BY DEF CancelChatEffect, JobsTypeOK, Ended, Untouched, HoldInv, LiveTurn, Live, LaunchesJob,
       Holding, LaunchStep, Making, NewlyAccepted, Chat, Becomes
<1>3. LaunchStep({"record_failed"})' => ~Live(made)'
  <2>1. LaunchStep({"record_failed"})' => LaunchStep({"record_failed"}) /\ made \in Jobs
    BY HoldsItsJob DEF CancelChatEffect, LaunchStep, Making
  <2>2. \A j \in Jobs : Live(j)' => Live(j)
    BY DEF CancelChatEffect, Untouched, Ended, Live
  <2> QED
    BY <2>1, <2>2 DEF CancelChatEffect, HoldInv
<1> QED
  BY <1>1, <1>2, <1>3 DEF HoldInv

\* Forgetting a turn keeps the hold on live turns.
LEMMA ForgetChatKeepsHold ==
    ASSUME LaunchAssumption, LaunchTypeOK, LaunchInv, CommandInv, MessageInv, HoldInv, ForgetChat
    PROVE  HoldInv'
<1>1. \A j \in Jobs : LiveTurn(j)' => Held(j)'
  BY DEF ForgetChat, chatVars, HoldInv, LiveTurn, Live, LaunchesJob, Holding, LaunchStep, Making,
       NewlyAccepted, Chat, Held, LaunchInv, RegistrationFollows, LaunchHoldsLast
<1>2. \A j \in Jobs : LiveTurn(j)' =>
          assistant'[j] = "pending" \/ (LaunchesJob(j)' /\ launch'.step = "prepare")
  BY DEF ForgetChat, chatVars, HoldInv, LiveTurn, Live, LaunchesJob, Holding, LaunchStep, Making,
       NewlyAccepted, Chat, Becomes
<1>3. LaunchStep({"record_failed"})' => ~Live(made)'
  BY DEF ForgetChat, chatVars, HoldInv, LaunchStep, Live
<1> QED
  BY <1>1, <1>2, <1>3 DEF HoldInv

\* The worker keeps the hold on live turns.
LEMMA WorkKeepsHold ==
    ASSUME LaunchAssumption, LaunchTypeOK, LaunchInv, CommandInv, MessageInv, HoldInv,
           NEW i \in Jobs, NEW completed \in BOOLEAN, WorkEffect(i, completed)
    PROVE  HoldInv'
<1>1. \A j \in Jobs : LiveTurn(j)' => Held(j)'
  BY DEF WorkEffect, JobsTypeOK, Ended, Untouched, HoldInv, LiveTurn, Live, LaunchesJob, Holding,
       LaunchStep, Making, NewlyAccepted, Chat, Held, LaunchInv, RegistrationFollows,
       LaunchHoldsLast
<1>2. \A j \in Jobs : LiveTurn(j)' =>
          assistant'[j] = "pending" \/ (LaunchesJob(j)' /\ launch'.step = "prepare")
  BY DEF WorkEffect, JobsTypeOK, Ended, Untouched, HoldInv, LiveTurn, Live, LaunchesJob, Holding,
       LaunchStep, Making, NewlyAccepted, Chat, Becomes
<1>3. LaunchStep({"record_failed"})' => ~Live(made)'
  <2>1. LaunchStep({"record_failed"})' => LaunchStep({"record_failed"}) /\ made \in Jobs
    BY HoldsItsJob DEF WorkEffect, LaunchStep, Making
  <2>2. \A j \in Jobs : Live(j)' => Live(j)
    BY DEF WorkEffect, Untouched, Ended, Live
  <2> QED
    BY <2>1, <2>2 DEF WorkEffect, HoldInv
<1> QED
  BY <1>1, <1>2, <1>3 DEF HoldInv

\* The recovery keeps the hold on live turns.
LEMMA RequeueKeepsHold ==
    ASSUME LaunchAssumption, LaunchTypeOK, LaunchInv, CommandInv, MessageInv, HoldInv,
           NEW i \in Jobs, RequeueEffect(i)
    PROVE  HoldInv'
<1>1. \A j \in Jobs : LiveTurn(j)' => Held(j)'
  BY DEF RequeueEffect, TurnAccepted, HoldInv, LiveTurn, Live, LaunchesJob, Holding, LaunchStep,
       Making, NewlyAccepted, Chat, Held, LaunchInv, RegistrationFollows, LaunchHoldsLast
<1>2. \A j \in Jobs : LiveTurn(j)' =>
          assistant'[j] = "pending" \/ (LaunchesJob(j)' /\ launch'.step = "prepare")
  BY DEF RequeueEffect, TurnAccepted, HoldInv, LiveTurn, Live, LaunchesJob, Holding, LaunchStep,
       Making, NewlyAccepted, Chat, Becomes
<1>3. LaunchStep({"record_failed"})' => ~Live(made)'
  BY DEF RequeueEffect, TurnAccepted, HoldInv, LaunchStep, Live
<1> QED
  BY <1>1, <1>2, <1>3 DEF HoldInv

\* A crash keeps the hold on live turns.
LEMMA CrashKeepsHold ==
    ASSUME LaunchAssumption, LaunchTypeOK, LaunchInv, CommandInv, MessageInv, HoldInv, Crash
    PROVE  HoldInv'
<1>1. \A j \in Jobs : LiveTurn(j)' => Held(j)'
  BY DEF Crash, chatVars, HoldInv, LiveTurn, Live, LaunchesJob, Holding, LaunchStep, Making,
       NewlyAccepted, Chat, Held, LaunchInv, RegistrationFollows, LaunchHoldsLast
<1>2. \A j \in Jobs : LiveTurn(j)' =>
          assistant'[j] = "pending" \/ (LaunchesJob(j)' /\ launch'.step = "prepare")
  BY DEF Crash, chatVars, HoldInv, LiveTurn, Live, LaunchesJob, Holding, LaunchStep, Making,
       NewlyAccepted, Chat, Becomes
<1>3. LaunchStep({"record_failed"})' => ~Live(made)'
  BY DEF Crash, chatVars, HoldInv, LaunchStep, Live
<1> QED
  BY <1>1, <1>2, <1>3 DEF HoldInv

---------------------------------------------------------------------------------
(* The invariant of the session. *)

SessionInv == LaunchTypeOK /\ LaunchInv /\ CommandInv /\ MessageInv /\ HoldInv

\* A session without commands, Jobs or turns.
LEMMA InitHolds ==
    ASSUME LaunchAssumption, Init
    PROVE  SessionInv
<1>1. LaunchTypeOK
  BY DEF Init, LaunchTypeOK, LaunchAssumption, JobRecords, Lifecycles, Jobs, NoJob
<1>2. ~LaunchStep(Steps) /\ ~Holding /\ (\A steps : ~LaunchStep(steps)) /\ \A j : ~LaunchesJob(j)
  BY DEF Init, LaunchStep, Holding, LaunchesJob
<1>3. active # [job |-> NoJob] /\ launch = NoLaunch
  BY DEF Init, LaunchAssumption, Registrations
<1>4. LaunchInv
  <2>1. \A j \in Jobs : j > made
    BY DEF Init, Jobs
  <2> QED
    BY <1>2, <1>3, <2>1 DEF Init, LaunchInv, LaunchHoldsLast, RegistrationFollows, JobsInOrder, Jobs
<1>5. CommandInv
  BY <1>2 DEF Init, CommandInv, LaunchFindsNothing, LaunchWritesItsOwn, LaunchStagesItsTurn, TurnsAreLast,
       RecordsAreLast, RepliesAreLast, AnswersAreLast
<1>6. MessageInv
  BY <1>2 DEF Init, MessageInv, StagedTogether, LiveIsOpen, WithdrawnIsUnqueued, UnsentIsUnanswered,
       QueuesAreFacts, AnswersHaveTheirQuestion, ContextIsEarlier, ContextIsNeverWithdrawn, Live
<1>7. HoldInv
  BY <1>2 DEF Init, HoldInv, LiveTurn, Live
<1> QED
  BY <1>1, <1>4, <1>5, <1>6, <1>7 DEF SessionInv

\* Every step keeps it, whoever takes it.
LEMMA StepHolds ==
    ASSUME LaunchAssumption, SessionInv, [Next]_vars
    PROVE  SessionInv'
<1>1. LaunchTypeOK /\ LaunchInv /\ CommandInv /\ MessageInv /\ HoldInv
  BY DEF SessionInv
<1>2. LaunchHoldsLast /\ RegistrationFollows /\ JobsInOrder
  BY <1>1 DEF LaunchInv
<1>3. ASSUME NEW c \in Commands, NEW hash \in Contents, Register(c, hash)
      PROVE  SessionInv'
  <2>1. RegisterEffect(c, hash)
    BY <1>1, <1>2, <1>3, RegisterDoes
  <2> QED
    BY <1>1, <1>3, <2>1, RegisterKeepsLaunch, RegisterKeepsCommands, RegisterKeepsMessages, RegisterKeepsHold DEF SessionInv
<1>4. CASE LookupCommand
  <2>1. LookupEffect
    BY <1>1, <1>2, <1>4, LookupDoes
  <2> QED
    BY <1>1, <2>1, LookupKeepsLaunch, LookupKeepsCommands, LookupKeepsMessages, LookupKeepsHold DEF SessionInv
<1>5. CASE StartRuntime
  <2>1. StartRuntimeEffect
    BY <1>1, <1>2, <1>5, StartRuntimeDoes
  <2> QED
    BY <1>1, <2>1, StartRuntimeKeepsLaunch, StartRuntimeKeepsCommands, StartRuntimeKeepsMessages, StartRuntimeKeepsHold DEF SessionInv
<1>6. ASSUME NEW outcome \in {"failed", "rejected"}, RefuseLaunch(outcome)
      PROVE  SessionInv'
  <2>1. RefuseLaunchEffect(outcome)
    BY <1>1, <1>2, <1>6, RefuseLaunchDoes
  <2> QED
    BY <1>1, <1>6, <2>1, RefuseLaunchKeepsLaunch, RefuseLaunchKeepsCommands, RefuseLaunchKeepsMessages, RefuseLaunchKeepsHold DEF SessionInv
<1>7. CASE LaunchErrs
  <2>1. LaunchErrsEffect
    BY <1>1, <1>2, <1>7, LaunchErrsDoes
  <2> QED
    BY <1>1, <2>1, LaunchErrsKeepsLaunch, LaunchErrsKeepsCommands, LaunchErrsKeepsMessages, LaunchErrsKeepsHold DEF SessionInv
<1>8. CASE CreateJob
  <2>1. CreateJobEffect
    BY <1>1, <1>2, <1>8, CreateJobDoes
  <2> QED
    BY <1>1, <2>1, CreateJobKeepsLaunch, CreateJobKeepsCommands, CreateJobKeepsMessages, CreateJobKeepsHold DEF SessionInv
<1>9. CASE DispatchJob
  <2>1. DispatchJobEffect
    BY <1>1, <1>2, <1>9, DispatchJobDoes
  <2> QED
    BY <1>1, <2>1, DispatchJobKeepsLaunch, DispatchJobKeepsCommands, DispatchJobKeepsMessages, DispatchJobKeepsHold DEF SessionInv
<1>10. CASE PrepareTurn
  <2>1. PrepareTurnEffect
    BY <1>1, <1>2, <1>10, PrepareTurnDoes
  <2> QED
    BY <1>1, <2>1, PrepareTurnKeepsLaunch, PrepareTurnKeepsCommands, PrepareTurnKeepsMessages, PrepareTurnKeepsHold DEF SessionInv
<1>11. CASE CreateCall
  <2>1. CreateCallEffect
    BY <1>1, <1>2, <1>11, CreateCallDoes
  <2> QED
    BY <1>1, <2>1, CreateCallKeepsLaunch, CreateCallKeepsCommands, CreateCallKeepsMessages, CreateCallKeepsHold DEF SessionInv
<1>12. CASE AdmitCall
  <2>1. AdmitCallEffect
    BY <1>1, <1>2, <1>12, AdmitCallDoes
  <2> QED
    BY <1>1, <2>1, AdmitCallKeepsLaunch, AdmitCallKeepsCommands, AdmitCallKeepsMessages, AdmitCallKeepsHold DEF SessionInv
<1>13. CASE Accept
  <2>1. AcceptEffect
    BY <1>1, <1>2, <1>13, AcceptDoes
  <2> QED
    BY <1>1, <2>1, AcceptKeepsLaunch, AcceptKeepsCommands, AcceptKeepsMessages, AcceptKeepsHold DEF SessionInv
<1>14. CASE Send
  <2>1. SendEffect
    BY <1>1, <1>2, <1>14, SendDoes
  <2> QED
    BY <1>1, <2>1, SendKeepsLaunch, SendKeepsCommands, SendKeepsMessages, SendKeepsHold DEF SessionInv
<1>15. CASE DiscardTurn
  <2>1. DiscardTurnEffect
    BY <1>1, <1>2, <1>15, DiscardTurnDoes
  <2> QED
    BY <1>1, <2>1, DiscardTurnKeepsLaunch, DiscardTurnKeepsCommands, DiscardTurnKeepsMessages, DiscardTurnKeepsHold DEF SessionInv
<1>16. CASE FailAttempt
  <2>1. FailAttemptEffect
    BY <1>1, <1>2, <1>16, FailAttemptDoes
  <2> QED
    BY <1>1, <2>1, FailAttemptKeepsLaunch, FailAttemptKeepsCommands, FailAttemptKeepsMessages, FailAttemptKeepsHold DEF SessionInv
<1>17. CASE RecordOutcome
  <2>1. RecordOutcomeEffect
    BY <1>1, <1>2, <1>17, RecordOutcomeDoes
  <2> QED
    BY <1>1, <2>1, RecordOutcomeKeepsLaunch, RecordOutcomeKeepsCommands, RecordOutcomeKeepsMessages, RecordOutcomeKeepsHold DEF SessionInv
<1>18. CASE NotLaunched
  <2>1. NotLaunchedEffect
    BY <1>1, <1>2, <1>18, NotLaunchedDoes
  <2> QED
    BY <1>1, <2>1, NotLaunchedKeepsLaunch, NotLaunchedKeepsCommands, NotLaunchedKeepsMessages, NotLaunchedKeepsHold DEF SessionInv
<1>19. CASE Supersede
  <2>1. SupersedeEffect
    BY <1>1, <1>2, <1>19, SupersedeDoes
  <2> QED
    BY <1>1, <2>1, SupersedeKeepsLaunch, SupersedeKeepsCommands, SupersedeKeepsMessages, SupersedeKeepsHold DEF SessionInv
<1>20. CASE PublishTurn
  <2>1. PublishTurnEffect
    BY <1>1, <1>2, <1>20, PublishTurnDoes
  <2> QED
    BY <1>1, <2>1, PublishTurnKeepsLaunch, PublishTurnKeepsCommands, PublishTurnKeepsMessages, PublishTurnKeepsHold DEF SessionInv
<1>21. CASE CancelChat
  <2>1. CancelChatEffect
    BY <1>1, <1>2, <1>21, CancelChatDoes
  <2> QED
    BY <1>1, <2>1, CancelChatKeepsLaunch, CancelChatKeepsCommands, CancelChatKeepsMessages, CancelChatKeepsHold DEF SessionInv
<1>22. CASE ForgetChat
  BY <1>1, <1>22, ForgetChatKeepsLaunch, ForgetChatKeepsCommands, ForgetChatKeepsMessages, ForgetChatKeepsHold DEF SessionInv
<1>23. ASSUME NEW i \in Jobs, NEW completed \in BOOLEAN, Work(i, completed)
      PROVE  SessionInv'
  <2>1. WorkEffect(i, completed)
    BY <1>1, <1>2, <1>23, WorkDoes
  <2> QED
    BY <1>1, <1>23, <2>1, WorkKeepsLaunch, WorkKeepsCommands, WorkKeepsMessages, WorkKeepsHold DEF SessionInv
<1>24. ASSUME NEW i \in Jobs, Requeue(i)
      PROVE  SessionInv'
  <2>1. RequeueEffect(i)
    BY <1>1, <1>2, <1>24, RequeueDoes
  <2> QED
    BY <1>1, <1>24, <2>1, RequeueKeepsLaunch, RequeueKeepsCommands, RequeueKeepsMessages, RequeueKeepsHold DEF SessionInv
<1>25. CASE Crash
  BY <1>1, <1>25, CrashKeepsLaunch, CrashKeepsCommands, CrashKeepsMessages, CrashKeepsHold DEF SessionInv
<1>26. CASE UNCHANGED vars
  <2>1. UNCHANGED <<made, job, command, user, assistant, context, turn, launch, active, signalled, lane,
                    recovering, runtime, crashes, answers, survivors>>
    BY <1>26 DEF vars, chatVars, procVars
  <2>2. LaunchTypeOK' /\ LaunchInv' /\ CommandInv'
    BY <1>1, <2>1 DEF LaunchTypeOK, LaunchInv, LaunchHoldsLast, RegistrationFollows, JobsInOrder,
         LaunchStep, NewlyAccepted, Holding, LaunchesJob, Chat, Live, CommandInv,
         LaunchFindsNothing, LaunchWritesItsOwn, LaunchStagesItsTurn, TurnsAreLast,
         RecordsAreLast, RepliesAreLast, AnswersAreLast, LastOf
  <2>3. MessageInv' /\ HoldInv'
    BY <1>1, <2>1 DEF Live, LaunchStep, MessageInv, StagedTogether, LiveIsOpen,
         WithdrawnIsUnqueued, UnsentIsUnanswered, QueuesAreFacts, AnswersHaveTheirQuestion,
         ContextIsEarlier, ContextIsNeverWithdrawn, State, HoldInv, LiveTurn, Held, LaunchesJob,
         Holding, NewlyAccepted, Chat
  <2> QED
    BY <2>2, <2>3 DEF SessionInv
<1> QED
  BY <1>3, <1>4, <1>5, <1>6, <1>7, <1>8, <1>9, <1>10, <1>11, <1>12, <1>13, <1>14, <1>15, <1>16,
     <1>17, <1>18, <1>19, <1>20, <1>21, <1>22, <1>23, <1>24, <1>25, <1>26 DEF Next

\* Every reachable state of a session satisfies it, with any number of commands, contents,
\* Jobs and crashes: canonical_control.rs and the chat transactions of domain.rs.
THEOREM SessionHolds ==
    ASSUME LaunchAssumption
    PROVE  Spec => []SessionInv
<1>1. Init => SessionInv
  BY InitHolds
<1>2. SessionInv /\ [Next]_vars => SessionInv'
  BY StepHolds
<1> QED
  BY <1>1, <1>2, PTL DEF Spec

---------------------------------------------------------------------------------
(* Whose Calls are made. *)

\* A chat's Call is made for the Job its turn was staged for.
CallsAreStaged ==
    \A j \in Jobs : Called(j) /\ job[j].cmd \in ChatCommands =>
        turn[job[j].cmd] # NoRow /\ turn[job[j].cmd].job = j

\* An intent appears for the Job of a launch past its staging only, and a turn stays.
Calls ==
    /\ \A j \in Jobs : job'[j].intent # "none" =>
          /\ job'[j].cmd = job[j].cmd
          /\ job[j].intent # "none" \/ (LaunchesJob(j) /\ launch.step \in {"admit", "economy", "send"})
    /\ \A c \in Commands : turn[c] # NoRow => turn'[c] = turn[c]

\* Turns that end have the intents they had.
LEMMA EndsCallNothing ==
    ASSUME \A k \in Jobs : Untouched(k) \/ \E completed \in BOOLEAN : Ended(k, completed), turn' = turn
    PROVE  Calls
BY DEF Untouched, Ended, IntentEnds, Calls

\* Whoever takes a step, Calls are made so.
LEMMA StepCalls ==
    ASSUME LaunchAssumption, SessionInv, [Next]_vars
    PROVE  Calls
<1>1. LaunchTypeOK /\ LaunchHoldsLast /\ RegistrationFollows /\ JobsInOrder
  BY DEF SessionInv, LaunchInv
<1>2. CASE job' = job /\ turn' = turn
  BY <1>2 DEF Calls
<1>3. CASE StartRuntime
  BY <1>1, <1>3, StartRuntimeDoes DEF StartRuntimeEffect, Calls
<1>4. CASE CreateJob
  <2>1. CreateJobEffect /\ made' > made
    BY <1>1, <1>4, CreateJobDoes DEF CreateJobEffect, Jobs
  <2>2. job[made'].intent = "none"
    BY <1>1, <2>1 DEF CreateJobEffect, JobsInOrder
  <2> QED
    BY <2>1, <2>2 DEF CreateJobEffect, Calls
<1>5. CASE DispatchJob
  BY <1>1, <1>5, DispatchJobDoes DEF DispatchJobEffect, JobMoves, Calls
<1>6. CASE PrepareTurn
  BY <1>1, <1>6, PrepareTurnDoes DEF PrepareTurnEffect, JobMoves, Calls
<1>7. CASE CreateCall
  BY <1>1, <1>7, CreateCallDoes DEF CreateCallEffect, JobMoves, Calls, LaunchesJob, Holding,
     LaunchStep, Making, Jobs, NoJob
<1>8. CASE AdmitCall
  BY <1>1, <1>8, AdmitCallDoes DEF AdmitCallEffect, JobMoves, Calls, LaunchesJob, Holding,
     LaunchStep, Making, Jobs, NoJob
<1>9. CASE Send
  BY <1>1, <1>9, SendDoes DEF SendEffect, JobMoves, Calls, LaunchesJob, Holding,
     LaunchStep, Making, Jobs, NoJob
<1>10. CASE FailAttempt
  BY <1>1, <1>10, FailAttemptDoes, EndsCallNothing DEF FailAttemptEffect
<1>11. CASE Supersede
  BY <1>1, <1>11, SupersedeDoes, EndsCallNothing DEF SupersedeEffect
<1>12. CASE PublishTurn
  BY <1>1, <1>2, <1>12, PublishTurnDoes, EndsCallNothing DEF PublishTurnEffect
<1>13. CASE CancelChat
  BY <1>1, <1>2, <1>13, CancelChatDoes, EndsCallNothing DEF CancelChatEffect
<1>14. ASSUME NEW j \in Jobs, NEW completed \in BOOLEAN, Work(j, completed)
       PROVE  Calls
  BY <1>1, <1>14, WorkDoes, EndsCallNothing DEF WorkEffect
<1>15. ASSUME \/ \E c \in Commands, hash \in Contents : Register(c, hash)
              \/ LookupCommand \/ \E o \in {"failed", "rejected"} : RefuseLaunch(o)
              \/ LaunchErrs \/ Accept \/ DiscardTurn \/ RecordOutcome \/ NotLaunched
              \/ ForgetChat \/ (\E j \in Jobs : Requeue(j)) \/ Crash \/ UNCHANGED vars
       PROVE  Calls
  BY <1>2, <1>15 DEF Register, LookupCommand, RefuseLaunch, LaunchErrs, Accept, DiscardTurn,
     RecordOutcome, NotLaunched, ForgetChat, Requeue, Crash, vars, chatVars
<1> QED
  BY <1>3, <1>4, <1>5, <1>6, <1>7, <1>8, <1>9, <1>10, <1>11, <1>12, <1>13, <1>14, <1>15 DEF Next

\* So a chat's Calls are its staged turn's.
LEMMA StepStages ==
    ASSUME LaunchAssumption, SessionInv, CallsAreStaged, [Next]_vars
    PROVE  CallsAreStaged'
<1> SUFFICES ASSUME NEW j \in Jobs, Called(j)', job'[j].cmd \in ChatCommands
             PROVE  turn'[job'[j].cmd] # NoRow /\ turn'[job'[j].cmd].job = j
  BY DEF CallsAreStaged
<1>1. Calls /\ job'[j].cmd = job[j].cmd /\ job[j].cmd \in Commands
  BY StepCalls DEF Calls, Called, LaunchAssumption
<1>2. turn[job[j].cmd] # NoRow /\ turn[job[j].cmd].job = j
  <2>1. CASE Called(j)
    BY <1>1, <2>1 DEF CallsAreStaged
  <2>2. CASE LaunchesJob(j) /\ launch.step \in {"admit", "economy", "send"}
    <3>1. job[j].cmd = launch.cmd /\ launch.job = j /\ Holding /\ Chat
      BY <1>1, <2>2 DEF SessionInv, LaunchInv, LaunchHoldsLast, LaunchesJob, Chat
    <3>2. turn[launch.cmd] = [hash |-> launch.hash, job |-> launch.job]
      BY <2>2, <3>1 DEF SessionInv, CommandInv, LaunchStagesItsTurn, LaunchStep
    <3>3. launch # NoLaunch
      BY <2>2 DEF LaunchesJob, Holding, LaunchStep
    <3>4. [hash |-> launch.hash, job |-> launch.job] \in TurnRows
      BY <3>1, <3>3, LaunchIsTyped DEF SessionInv, TurnRows
    <3> QED
      BY <3>1, <3>2, <3>4 DEF LaunchAssumption
  <2> QED
    BY <1>1, <2>1, <2>2 DEF Calls, Called
<1> QED
  BY <1>1, <1>2 DEF Calls

\* However often a chat command is sent, across any crashes and failed stagings, a Call is
\* made for one Job of it; one that was staged, or told to be accepted, makes no further
\* Job (launch_job_inner, prepare_chat_turn, lookup_launch_command).
THEOREM CommandsAreRunOnce ==
    ASSUME LaunchAssumption
    PROVE  Spec => []CommandsRunOnce
<1>1. SessionInv /\ CallsAreStaged => CommandsRunOnce
  <2> SUFFICES ASSUME SessionInv, CallsAreStaged
               PROVE  CommandsRunOnce
    OBVIOUS
  <2>1. ChatsAreCalledOnce
    BY DEF CallsAreStaged, ChatsAreCalledOnce
  <2>2. RetryMakesNoJob
    BY DEF SessionInv, CommandInv, TurnsAreLast, LastOf, RetryMakesNoJob, LaunchAssumption
  <2>3. AcceptedCommandsAreDone
    BY DEF SessionInv, CommandInv, AnswersAreLast, LastOf, AcceptedCommandsAreDone
  <2> QED
    BY <2>1, <2>2, <2>3 DEF CommandsRunOnce
<1>2. Init => CallsAreStaged
  BY DEF Init, CallsAreStaged, Called
<1>3. SessionInv /\ CallsAreStaged /\ [Next]_vars => CallsAreStaged'
  BY StepStages
<1> QED
  BY <1>1, <1>2, <1>3, SessionHolds, PTL DEF Spec

\* A session stays coherent: what a provider was told is never withdrawn, an answer has its
\* question, and a turn that is live can be followed and cancelled through its session
\* (prepare_chat_turn, settle_chat_turn, discard_active_turn, restore_active_turn).
THEOREM SessionsAreCoherent ==
    ASSUME LaunchAssumption
    PROVE  Spec => []SessionsStayCoherent
<1>1. SessionInv => SessionsStayCoherent
  <2> SUFFICES ASSUME SessionInv
               PROVE  SessionsStayCoherent
    OBVIOUS
  <2>1. ContextIsNeverWithdrawn /\ AnswersHaveTheirQuestion
    BY DEF SessionInv, MessageInv
  <2>2. LiveTurnsAreReachable
    <3>1. ASSUME launch = NoLaunch, NEW j \in Jobs, LiveTurn(j)
          PROVE  Replayable(j)
      BY <3>1 DEF SessionInv, HoldInv, Held, LaunchesJob, Holding, LaunchStep, Replayable
    <3> QED
      BY <3>1 DEF LiveTurnsAreReachable, LiveTurn
  <2> QED
    BY <2>1, <2>2 DEF SessionsStayCoherent
<1> QED
  BY <1>1, SessionHolds, PTL
================================================================================
