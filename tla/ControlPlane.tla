------------------------------ MODULE ControlPlane ------------------------------
(***************************************************************************)
(* The control process: launches and chats (ChatLaunch), beside its        *)
(* configuration and the live tails of its turns, each over variables of   *)
(* its own and for any values of its constants.                            *)
(***************************************************************************)
EXTENDS ChatLaunch

CONSTANTS Threads, Projects, Legacies, MaxCommands, Conns, Script, MaxBreaks

VARIABLES
    projects, config, legacy, process, lock, op, commands,
    produced, attempt, channel, events, entry, deadline, pc, index, pending, wire, broken,
    lastId, received, breaks

Config == INSTANCE ControlConfiguration
Stream == INSTANCE ChatStream

\* Configuration survives a start that was cut off, two handlers at once and a crash after
\* the answer (control_configuration.rs).
ConfigurationIsDurable == Config!ConfigurationIsDurable

\* However often a browser loses its connection it has read every event once, in order, up
\* to one end; a turn still running can be found (the tail of control_server.rs).
StreamsAreWhole == Stream!StreamsAreWhole
=================================================================================
