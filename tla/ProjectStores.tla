----------------------------- MODULE ProjectStores -----------------------------
(***************************************************************************)
(* Where Projects and their durable stores are (ProjectRegistry), beside   *)
(* the repository context that is kept in a Project, for any values of     *)
(* their constants. The two share no variable.                             *)
(***************************************************************************)
EXTENDS ProjectRegistry

CONSTANTS Files, Contents, Opaque, Limits, MaxFiles, Untracked, MaxEdits, MaxCommits, MaxCalls

VARIABLES disk, commits, head, index, cache, pc, limit, snap, map, todo, draft, plan, served, seen,
          idle, edits, calls

Context == INSTANCE RepositoryContext

\* A context served from the cache is what the repository was at some moment of the call,
\* and an index reused has the symbols of its contents (cache.rs, index.rs, freshness.rs).
ServedContextIsTheRepositorys == Context!ServedContextIsTheRepositorys
=================================================================================
