-------------------------- MODULE MCProviderDispatch --------------------------
(***************************************************************************)
(* Model values and bounds for checking ProviderDispatch.                  *)
(***************************************************************************)
EXTENDS ProviderDispatch, FiniteSets

Registered == {j \in Jobs : Exists(j) \/ launcher[j].pc # "idle"}

\* Either a chat turn and a plain one share the lanes, or the chat turn alone calls a tool,
\* is replaced and survives an exit.  What is cut off is a launch, a replacement, an exit,
\* which nobody is obliged to make, and a kind of reply or of tool Call beside which its
\* thread has another choice: fairness is untouched.
Plain == /\ exits = 0 /\ provider.pc # "tool"
         /\ \A t \in ToolCalls : call[t].state = "absent"
         /\ \A j \in Jobs : job[j].generation <= 1
Alone == /\ Registered \subseteq ChatJobs
         /\ \A t \in ToolCalls : call[t].kind # "read"
Followed == (Plain \/ Alone)'
==============================================================================
