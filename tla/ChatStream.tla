------------------------------ MODULE ChatStream ------------------------------
(***************************************************************************)
(* The live tail of one chat turn: the provider's events, the forwarder    *)
(* that retains them (canonical_control.rs), the SSE handlers that replay   *)
(* and follow them (control_server.rs), and a browser that reconnects with *)
(* Last-Event-ID. The cancellation of the turn is one step here: ChatLaunch *)
(* and ProviderDispatch have its detail.                                   *)
(*                                                                         *)
(* The turn's deadline and the end of its replay lifetime are events that  *)
(* may come at any time; what a socket has accepted may be lost with it.   *)
(***************************************************************************)
EXTENDS Integers, Sequences

CONSTANTS
    Conns,        \* connections the browsers may open
    Script,       \* the events the provider produces before the turn ends
    MaxBreaks     \* bound: sockets that break

Quiet == {"started", "tool"}                   \* retained, never written
Errors == {"error", "failed", "timeout"}       \* payloads under the key "error"
Terminal == {"finished", "failed"}
Kinds == Quiet \cup Errors \cup Terminal \cup {"text", "word"}   \* "word": a delta that is the text error

StreamAssumption ==
    /\ Script \in Seq(Kinds \ (Terminal \cup {"timeout"}))
    /\ MaxBreaks \in Nat

VARIABLES
    produced,   \* events of the script the provider has produced
    attempt,    \* the turn's Attempt: running, finishing, done or cancelled
    channel,    \* events sent and not yet taken by the forwarder
    events,     \* ChatBufferState.events
    entry,      \* the turn is in active_chats
    deadline,   \* started_at + CHAT_EXECUTION_TIMEOUT has passed
    pc,         \* what each connection's thread is about to do
    index,      \* the tail's position in events
    pending,    \* events taken from the buffer and not yet written
    wire,       \* what the socket accepted and the browser has not read
    broken,     \* sockets that broke
    lastId,     \* the browser's last event id
    received,   \* history: what the browser has read
    breaks

turnVars == <<produced, attempt, channel, events, entry, deadline>>
tailVars == <<index, pending, wire>>
browserVars == <<broken, lastId, received, breaks>>
vars == <<turnVars, pc, tailVars, browserVars>>

Finished == \E i \in DOMAIN events : events[i] \in Terminal
\* One SSE message: an id and what it says; the time-out has no id.
Item(id, kind) == [id |-> id, kind |-> kind]

Init ==
    /\ produced = 0 /\ attempt = "running" /\ channel = << >> /\ events = << >>
    /\ entry = TRUE /\ deadline = FALSE
    /\ pc = [c \in Conns |-> "new"]
    /\ index = [c \in Conns |-> 0] /\ pending = [c \in Conns |-> << >>]
    /\ wire = [c \in Conns |-> << >>] /\ broken = {}
    /\ lastId = 0 /\ received = << >> /\ breaks = 0

-----------------------------------------------------------------------------
\* The provider worker and the forwarder

\* Events go to the turn's channel while its transport runs.
Produce ==
    /\ attempt \in {"running", "cancelled"} /\ produced < Len(Script)
    /\ produced' = produced + 1
    /\ channel' = Append(channel, Script[produced + 1])
    /\ UNCHANGED <<attempt, events, entry, deadline, pc, tailVars, browserVars>>

\* The Attempt is settled first; the event that says so is sent after it.
Settle ==
    /\ attempt = "running" /\ produced = Len(Script)
    /\ attempt' = "finishing"
    /\ UNCHANGED <<produced, channel, events, entry, deadline, pc, tailVars, browserVars>>

Announce(kind) ==
    /\ attempt = "finishing"
    /\ attempt' = "done" /\ channel' = Append(channel, kind)
    /\ UNCHANGED <<produced, events, entry, deadline, pc, tailVars, browserVars>>

\* Mutation: the forwarder goes on after the terminal event.
ForwardOn ==
    /\ channel # << >>
    /\ events' = Append(events, Head(channel)) /\ channel' = Tail(channel)
    /\ UNCHANGED <<produced, attempt, entry, deadline, pc, tailVars, browserVars>>

\* The chat-forward thread retains each event and stops at the terminal one.
Forward ==
    /\ channel # << >> /\ ~Finished
    /\ events' = Append(events, Head(channel)) /\ channel' = Tail(channel)
    /\ UNCHANGED <<produced, attempt, entry, deadline, pc, tailVars, browserVars>>

\* end_active_chat: revoke the Attempt if it still runs, tell the tail in any case.
EndActiveChat ==
    /\ attempt' = IF attempt = "running" THEN "cancelled" ELSE attempt
    /\ channel' = Append(channel, "failed")

\* cancel_chat_in_project, from any client.
CancelChat ==
    /\ entry /\ entry' = FALSE
    /\ EndActiveChat
    /\ UNCHANGED <<produced, events, deadline, pc, tailVars, browserVars>>

\* reap_expired_chats: a terminal tail past its replay lifetime.
ReapExpired ==
    /\ entry /\ Finished /\ entry' = FALSE
    /\ UNCHANGED <<produced, attempt, channel, events, deadline, pc, tailVars, browserVars>>

PassDeadline ==
    /\ ~deadline /\ deadline' = TRUE
    /\ UNCHANGED <<produced, attempt, channel, events, entry, pc, tailVars, browserVars>>

-----------------------------------------------------------------------------
\* The browser's connections

Close(c) == pc' = [pc EXCEPT ![c] = "closed"]

\* An EventSource reconnects, with its last event id, when its connection ends.
Over(c) == pc[c] = "new" \/ c \in broken \/ (pc[c] = "closed" /\ wire[c] = << >>)

Connect(c) ==
    /\ pc[c] = "new" /\ \A d \in Conns : Over(d)
    /\ pc' = [pc EXCEPT ![c] = "attach"]
    /\ index' = [index EXCEPT ![c] = lastId]
    /\ UNCHANGED <<turnVars, pending, wire, browserVars>>

\* It reads in order; a message with an id moves its last event id.
Receive(c) ==
    /\ wire[c] # << >> /\ c \notin broken
    /\ received' = Append(received, Head(wire[c]))
    /\ lastId' = IF Head(wire[c]).id = 0 THEN lastId ELSE Head(wire[c]).id
    /\ wire' = [wire EXCEPT ![c] = Tail(@)]
    /\ UNCHANGED <<turnVars, pc, index, pending, broken, breaks>>

Break(c) ==
    /\ pc[c] # "new" /\ c \notin broken
    /\ breaks < MaxBreaks /\ breaks' = breaks + 1
    /\ broken' = broken \cup {c}
    /\ wire' = [wire EXCEPT ![c] = << >>]
    /\ UNCHANGED <<turnVars, pc, index, pending, lastId, received>>

-----------------------------------------------------------------------------
\* handle_chat_stream

\* Mutation: the resumed tail begins at the last event the browser has.
ResumeAt(id) == IF id = 0 THEN 0 ELSE id - 1

\* Last-Event-ID is the sequence of the last event consumed: replay starts after it.
ResumeIndex(id) == IF id > Len(events) THEN Len(events) ELSE id

Attach(c) ==
    /\ pc[c] = "attach"
    /\ IF entry
       THEN /\ index' = [index EXCEPT ![c] = ResumeIndex(@)]
            /\ pc' = [pc EXCEPT ![c] = "tail"]
       ELSE Close(c) /\ UNCHANGED index
    /\ UNCHANGED <<turnVars, pending, wire, browserVars>>

\* New events are taken all at once, under the buffer's lock.
Take(c) ==
    /\ pc[c] = "tail" /\ ~deadline /\ index[c] < Len(events)
    /\ pending' = [pending EXCEPT ![c] =
            [i \in 1..(Len(events) - index[c]) |-> Item(index[c] + i, events[index[c] + i])]]
    /\ index' = [index EXCEPT ![c] = Len(events)]
    /\ pc' = [pc EXCEPT ![c] = "write"]
    /\ UNCHANGED <<turnVars, wire, browserVars>>

\* The message is forwarded and the handler looks for "error" in its text.
EndsTail(kind) == kind \in Errors \cup Terminal \cup {"word"}

\* One event: written unless it is quiet; some end the tail.
Write(c) ==
    /\ pc[c] = "write" /\ pending[c] # << >>
    /\ LET e == Head(pending[c]) IN
       /\ pending' = [pending EXCEPT ![c] = IF EndsTail(e.kind) THEN << >> ELSE Tail(@)]
       /\ wire' = IF e.kind \in Quiet \/ c \in broken THEN wire
                  ELSE [wire EXCEPT ![c] = Append(@, e)]
       /\ pc' = [pc EXCEPT ![c] = IF EndsTail(e.kind) THEN "finish"
                                  ELSE IF Len(pending[c]) = 1 THEN "tail" ELSE "write"]
    /\ UNCHANGED <<turnVars, index, browserVars>>

\* A write, flush or heartbeat that fails leaves the turn's entry for a retry.
LoseSocket(c) ==
    /\ c \in broken
    /\ \/ (pc[c] = "write" /\ pending[c] # << >> /\ Head(pending[c]).kind \notin Quiet)
       \/ (pc[c] = "tail" /\ ~deadline /\ index[c] = Len(events) /\ ~Finished)
    /\ pending' = [pending EXCEPT ![c] = << >>]
    /\ Close(c)
    /\ UNCHANGED <<turnVars, index, wire, browserVars>>

EndOfTail(c) ==
    /\ pc[c] = "tail" /\ ~deadline
    /\ index[c] = Len(events) /\ Finished
    /\ pc' = [pc EXCEPT ![c] = "finish"]
    /\ UNCHANGED <<turnVars, tailVars, browserVars>>

\* Mutation: the turn's entry is dropped before the turn is cancelled.
TimeOutAfterRemoval(c) ==
    /\ pc[c] = "tail" /\ deadline
    /\ wire' = IF c \in broken THEN wire ELSE [wire EXCEPT ![c] = Append(@, Item(0, "timeout"))]
    /\ entry' = FALSE
    /\ pc' = [pc EXCEPT ![c] = "finish"]
    /\ UNCHANGED <<produced, attempt, channel, events, deadline, index, pending, browserVars>>

\* Mutation: past the deadline the tail cancels the turn and goes on.
TimeOutStays(c) ==
    /\ pc[c] = "tail" /\ deadline
    /\ IF entry THEN EndActiveChat /\ entry' = FALSE
       ELSE UNCHANGED <<attempt, channel, entry>>
    /\ UNCHANGED <<produced, events, deadline, pc, tailVars, browserVars>>

\* Past the deadline the browser is told, whether it hears or not, and the
\* turn is cancelled while its entry can still be found.
TimeOut(c) ==
    /\ pc[c] = "tail" /\ deadline
    /\ wire' = IF c \in broken THEN wire ELSE [wire EXCEPT ![c] = Append(@, Item(0, "timeout"))]
    /\ IF entry THEN EndActiveChat /\ entry' = FALSE
       ELSE UNCHANGED <<attempt, channel, entry>>
    /\ pc' = [pc EXCEPT ![c] = "finish"]
    /\ UNCHANGED <<produced, events, deadline, index, pending, browserVars>>

\* finish_chat, then the guard gives the stream's slot back.
Finish(c) ==
    /\ pc[c] = "finish"
    /\ entry' = FALSE
    /\ Close(c)
    /\ UNCHANGED <<produced, attempt, channel, events, deadline, tailVars, browserVars>>

-----------------------------------------------------------------------------
TailStep(c) ==
    \/ Attach(c) \/ Take(c) \/ Write(c) \/ LoseSocket(c) \/ EndOfTail(c) \/ TimeOut(c) \/ Finish(c)

Next ==
    \/ Produce \/ Settle \/ Announce("finished") \/ Announce("failed") \/ Forward
    \/ CancelChat \/ ReapExpired \/ PassDeadline
    \/ \E c \in Conns :
        Connect(c) \/ TailStep(c) \/ Receive(c) \/ Break(c)

Spec == Init /\ [][Next]_vars

\* A handler's thread runs, every wait in its loop is bounded, and time passes.
FairSpec == Spec /\ WF_vars(PassDeadline) /\ \A c \in Conns : WF_vars(TailStep(c))

-----------------------------------------------------------------------------
\* Over any number of broken connections the browser has read every written event up to
\* its last event id, once and in order (replay from Last-Event-ID).
DeliveryIsExact ==
    LET Read == {i \in DOMAIN received : received[i].id # 0}
        Written == {n \in DOMAIN events : events[n] \notin Quiet}
    IN  /\ {n \in Written : n <= lastId} = {received[i].id : i \in Read}
        /\ \A i \in Read : received[i].kind = events[received[i].id]
        /\ \A i, j \in Read : i < j => received[i].id < received[j].id

\* What has been written, however it ends, tells one end of the turn: a retained
\* terminal event is the last one (the forwarder stops there).
OneEnd == \A i \in DOMAIN events : events[i] \in Terminal => i = Len(events)

\* A turn that still runs can be found, to be followed or cancelled, unless its transport
\* has failed or its text reads as if: a timed-out tail revokes it before it is dropped.
RunningTurnsAreFound ==
    attempt = "running" /\ ~entry => \E i \in DOMAIN events : events[i] \in {"error", "word"}

\* Whatever breaks, a turn is told whole, to one end, and not lost while it runs.
StreamsAreWhole == DeliveryIsExact /\ OneEnd /\ RunningTurnsAreFound

\* "only a consumed terminal (or timeout/error sent above) removes the entry"
\* (control_server.rs, after the loop): a tail is finished for no other reason.
OnlyEndsRemoveTheEntry ==
    \A c \in Conns : pc[c] = "finish" => Finished \/ deadline \/ \E i \in DOMAIN events : events[i] = "error"

\* A tail ends, with its client's slot, even when the browser has gone and the
\* provider is silent (the deadline of the turn).
TailsEnd == \A c \in Conns : pc[c] = "tail" ~> pc[c] = "closed"

=============================================================================
