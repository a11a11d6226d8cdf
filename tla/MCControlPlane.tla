---------------------------- MODULE MCControlPlane ----------------------------
(***************************************************************************)
(* The components of the control process, each on its own instance: part   *)
(* says which of them a behaviour is about.  They share no variable.       *)
(***************************************************************************)
EXTENDS ControlPlane, Sequences, TLC

CONSTANTS c1, c2, p1, r1, r2, t1, t2, q1, q2, e1, e2, k1, k2

VARIABLES
    part,
    file, vault, profileLock, vaultLock, ed, runs, userRuns, removed

\* A session: two chat commands, of which one may come with another content, with one crash.
\* Retries: a chat command and a plain one, repeated over two crashes.
ASSUME LaunchAssumption
Launching(requests) == launch # NoLaunch => <<launch.cmd, launch.hash>> \in requests
Followed ==
    /\ part = "session" => crashes <= 1 /\ Launching({<<c1, r1>>, <<c1, r2>>, <<c2, r1>>})
    /\ part = "retries" => Launching({<<c1, r1>>, <<p1, r1>>})
FollowedNext == Followed'

\* What older versions leave: nothing, the first draft's list with one or two
\* Projects, or the scoped form.
Registry(members) == [kind |-> "registry", members |-> members]
Absent == [kind |-> "absent"]
Nothing == [projects |-> Absent, config |-> Absent]
Draft(members) == [projects |-> Registry(members),
                   config |-> [kind |-> "list", global |-> 7, entry |-> 8, revision |-> 1]]
Scoped(members) == [projects |-> Registry(members),
                    config |-> [kind |-> "file", global |-> 7, defaults |-> [q \in {q1} |-> 8], revision |-> 1]]
SomeLegacies == {Nothing, Draft({q1}), Draft({q1, q2}), Scoped({q1})}
ASSUME Config!ConfigurationAssumption

\* A Profile with a connected provider and one of its models, edited by two; and a new
\* one, where two connects choose their names.
Configured == [providers |-> <<[ref |-> 1, catalog |-> {"a"}]>>, models |-> {<<1, "a">>}, default |-> <<1, "a">>]
Edits == INSTANCE ProviderProfile WITH
    Editors <- {e1, e2}, Names <- 1..2, Ids <- {"a", "b"}, Catalogs <- {{"a"}},
    Ops <- {"connect", "add provider", "add model"}, Contents0 <- {Configured},
    MaxRuns <- 4, MaxUser <- 0
Connects == INSTANCE ProviderProfile WITH
    Editors <- {e1, e2}, Names <- 1..2, Ids <- {"a"}, Catalogs <- {{"a"}},
    Ops <- {"bootstrap", "connect", "refresh", "save models"}, Contents0 <- {Edits!Missing},
    MaxRuns <- 4, MaxUser <- 2
ASSUME Edits!ProfileAssumption /\ Connects!ProfileAssumption

\* A reasoning-and-tool round: quiet events between two written ones.
QuietRound == <<"started", "text", "tool", "text">>
ASSUME Stream!StreamAssumption

configVars  == <<projects, config, legacy, process, lock, op, commands>>
profileVars == <<file, vault, profileLock, vaultLock, ed, runs, userRuns, removed>>
streamVars  == <<produced, attempt, channel, events, entry, deadline, pc, index, pending, wire,
                 broken, lastId, received, breaks>>
allVars == <<part, vars, configVars, profileVars, streamVars>>

PartInit ==
    /\ part \in {"session", "retries", "config", "edits", "connects", "stream"}
    /\ Init /\ Stream!Init
    /\ Config!Init /\ (part # "config" => legacy = Nothing)
    /\ IF part = "edits" THEN Edits!Init ELSE Connects!Init

PartNext ==
    \/ /\ part \in {"session", "retries"} /\ Next
       /\ UNCHANGED <<part, configVars, profileVars, streamVars>>
    \/ /\ part = "config" /\ Config!Next
       /\ UNCHANGED <<part, vars, profileVars, streamVars>>
    \/ /\ \/ part = "edits" /\ Edits!Next
          \/ part = "connects" /\ Connects!Next
       /\ UNCHANGED <<part, vars, configVars, streamVars>>
    \/ /\ part = "stream" /\ Stream!Next
       /\ UNCHANGED <<part, vars, configVars, profileVars>>

PartSpec == PartInit /\ [][PartNext]_allVars
-----------------------------------------------------------------------------
\* A property of a component that is only model-checked.

\* Editors of the Profile and the Vault lose nothing of each other: no stored secret is
\* overwritten, no connected provider loses its own, a refused connect leaves none, and
\* one that a failed rollback or a crash left is never another provider's (vault.rs).
SecretsStayWithTheirProfile ==
    /\ [](part = "connects" => /\ Connects!CredentialsResolve /\ Connects!RefusedConnectsLeaveNothing
                               /\ Connects!LeftSecretsAreUnused)
    /\ Connects!SecretsAreKept
=============================================================================
