-------------------------- MODULE RepositoryContext --------------------------
(***************************************************************************)
(* The repository context engine (context/engine.rs and the modules it        *)
(* calls): a call takes a git snapshot, walks the files, brings the index up  *)
(* to date, and serves its plan from the cache or assembles and caches one,    *)
(* all against a working tree that is edited, committed and reset meanwhile.   *)
(* One project, one task and one planner; a call may die between any two of    *)
(* its reads, and index and cache outlive it.                                 *)
(***************************************************************************)
EXTENDS Integers, Sequences, FiniteSets

CONSTANTS
    Files,       \* paths, as they sort
    Contents,    \* contents a file may have; two of them share their first part when \div 2 does
    Opaque,      \* contents too large or binary: neither indexed nor sliced
    Limits,      \* values of max_symbols_per_file
    MaxFiles,    \* max_files
    Untracked,   \* include_untracked
    MaxEdits,    \* bound on the edits
    MaxCommits,  \* bound on the commits
    MaxCalls     \* bound on the calls

Absent == -1
ContentsAssumption ==
    /\ Contents \subseteq Nat /\ Opaque \subseteq Contents
    /\ Files \subseteq Nat /\ Limits \subseteq Nat

VARIABLES
    disk,      \* path -> its content
    commits,   \* the trees committed; a commit's id is its place
    head,      \* HEAD
    index,     \* the saved index: path -> entry
    cache,     \* the cached plans and their keys
    pc, limit, snap, map, todo, draft, plan,  \* the call: where it is and what it has read
    served,    \* the plan of a hit
    seen,      \* path -> the contents it had since the call began
    idle,      \* the files stayed as they were since the index was saved
    edits, calls

tree == <<disk, commits, head, edits>>
stored == <<index, cache>>
vars == <<tree, stored, pc, limit, snap, map, todo, draft, plan, served, seen, idle, calls>>

None == <<>>
NoSnap == [head |-> 0, status |-> None, blobs |-> None]
NoPlan == [head |-> 0, status |-> None, hunks |-> None, slices |-> None, sources |-> None]

Init ==
    /\ disk \in [Files -> Contents \cup {Absent}]
    /\ commits = <<disk>> /\ head = 1 /\ edits = 0
    /\ index = None /\ cache = {}
    /\ pc = "none" /\ limit \in Limits /\ calls = 0
    /\ snap = NoSnap /\ map = None /\ todo = {} /\ draft = None /\ plan = NoPlan /\ served = {}
    /\ seen = [f \in Files |-> {}] /\ idle = FALSE

Calling == pc \notin {"none", "done"}
Least(S) == CHOOSE a \in S : \A b \in S : a <= b

-----------------------------------------------------------------------------
(* The working tree and its owner.                                           *)

Becomes(d) ==
    /\ disk' = d
    /\ seen' = [f \in Files |-> IF Calling THEN seen[f] \cup {d[f]} ELSE seen[f]]
    /\ idle' = (idle /\ d = disk)

Edit(f, c) ==
    /\ edits < MaxEdits /\ c # disk[f] /\ edits' = edits + 1
    /\ Becomes([disk EXCEPT ![f] = c])
    /\ UNCHANGED <<commits, head, stored, pc, limit, snap, map, todo, draft, plan, served, calls>>

\* All of the working tree is committed.
Commit ==
    /\ Len(commits) < MaxCommits /\ disk # commits[head]
    /\ commits' = Append(commits, disk) /\ head' = Len(commits)'
    /\ UNCHANGED <<disk, edits, stored, pc, limit, snap, map, todo, draft, plan, served, seen, idle, calls>>

\* git reset --hard.
Reset(n) ==
    /\ edits < MaxEdits /\ edits' = edits + 1
    /\ head' = n /\ Becomes(commits[n])
    /\ UNCHANGED <<commits, stored, pc, limit, snap, map, todo, draft, plan, served, calls>>

StatusOf(blob, content) ==
    CASE blob = content -> "clean"
      [] blob = Absent  -> "untracked"
      [] content = Absent -> "deleted"
      [] OTHER -> "modified"

-----------------------------------------------------------------------------
(* The snapshot, one git command at a time, and the walk.                    *)

Begin(n) ==
    /\ ~Calling /\ calls < MaxCalls /\ calls' = calls + 1
    /\ pc' = "head" /\ limit' = n /\ served' = {} /\ plan' = NoPlan
    /\ seen' = [f \in Files |-> {disk[f]}] /\ snap' = NoSnap
    /\ UNCHANGED <<tree, stored, map, todo, draft, idle>>

ReadHead ==
    /\ pc = "head" /\ pc' = "status" /\ snap' = [snap EXCEPT !.head = head]
    /\ UNCHANGED <<tree, stored, limit, map, todo, draft, plan, served, seen, idle, calls>>

ReadStatus ==
    /\ pc = "status" /\ pc' = "blobs"
    /\ snap' = [snap EXCEPT !.status = [f \in Files |-> StatusOf(commits[head][f], disk[f])]]
    /\ UNCHANGED <<tree, stored, limit, map, todo, draft, plan, served, seen, idle, calls>>

ReadBlobs ==
    /\ pc = "blobs" /\ pc' = "walk" /\ snap' = [snap EXCEPT !.blobs = commits[head]]
    /\ UNCHANGED <<tree, stored, limit, map, todo, draft, plan, served, seen, idle, calls>>

\* repomap::build: the files there are, and which of them are supported.
Walk ==
    /\ pc = "walk" /\ pc' = "index"
    /\ map' = [f \in {g \in Files : disk[g] # Absent} |-> disk[f] \notin Opaque]
    /\ todo' = DOMAIN map' /\ draft' = None
    /\ UNCHANGED <<tree, stored, limit, snap, plan, served, seen, idle, calls>>

-----------------------------------------------------------------------------
(* The index.                                                                *)

\* The fingerprint is the blob's of a file clean in the snapshot, the content's otherwise.
Fingerprint(f) ==
    IF ~map[f] THEN <<"opaque", Absent>>
    ELSE IF snap.blobs[f] # Absent /\ snap.status[f] = "clean" THEN <<"blob", snap.blobs[f]>>
    ELSE IF disk[f] = Absent THEN <<"unreadable", Absent>>
    ELSE <<"sha", disk[f]>>

\* A content has two symbols; what is not there or not supported has none.
Symbols(f) ==
    IF map[f] /\ disk[f] # Absent THEN [of |-> disk[f], n |-> IF limit < 2 THEN limit ELSE 2]
    ELSE [of |-> Absent, n |-> 0]

\* Mutant: the fingerprint's kind is enough.
ReusableByKind(e, fp) == e.fp[1] = fp[1] /\ e.symbols.n <= limit
\* Mutant: symbols over the limit are kept.
ReusableWhole(e, fp) == e.fp = fp
Reusable(e, fp) == e.fp = fp /\ e.symbols.n <= limit

IndexFile ==
    LET f == Least(todo)
        prior == IF f \in DOMAIN index THEN {index[f]} ELSE {}
        kept == {e \in prior : Reusable(e, Fingerprint(f))}
    IN  /\ pc = "index" /\ todo # {} /\ todo' = todo \ {f}
        /\ \E s \in IF map[f] /\ kept # {} THEN {e.symbols : e \in kept} ELSE {Symbols(f)} :
             draft' = [g \in DOMAIN draft \cup {f} |->
                         IF g = f THEN [fp |-> Fingerprint(f), symbols |-> s] ELSE draft[g]]
        /\ UNCHANGED <<tree, stored, pc, limit, snap, map, plan, served, seen, idle, calls>>

SaveIndex ==
    /\ pc = "index" /\ todo = {}
    /\ index' = draft /\ draft' = None /\ pc' = "lookup"
    /\ idle' = TRUE
    /\ UNCHANGED <<tree, cache, limit, snap, map, todo, plan, served, seen, calls>>

\* generation_id: what identifies the content indexed.
Generation(i) == [f \in DOMAIN i |-> <<i[f].fp, i[f].symbols.n>>]

-----------------------------------------------------------------------------
(* The cache.                                                                *)

\* Mutant: the key leaves the status out.
KeyOfHead(s) == [head |-> s.head, status |-> None]
Key(s) == [head |-> s.head, status |-> s.status]

\* Mutant: what the plan depends on is not validated.
DependsOnNothing(p) == {}
\* dependencies: the files of the slices, as their sources were read.
Dependencies(p) == DOMAIN p.sources

\* Mutant: the fingerprints speak for the slices.
UncheckedSlices(p) == {}
Slices(p) == DOMAIN p.slices

\* get: an entry is removed as soon as anything of it does not hold.
Hit ==
    /\ pc = "lookup"
    /\ \E e \in cache :
         /\ e.key = Key(snap)
         /\ plan' = e.plan /\ todo' = Dependencies(e.plan) /\ pc' = "validate"
    /\ UNCHANGED <<tree, stored, limit, snap, map, draft, served, seen, idle, calls>>

Miss ==
    /\ pc = "lookup" /\ \A e \in cache : e.key # Key(snap)
    /\ pc' = "diff"
    /\ UNCHANGED <<tree, stored, limit, snap, map, todo, draft, plan, served, seen, idle, calls>>

Remove ==
    /\ cache' = {e \in cache : e.key # Key(snap)}
    /\ pc' = "diff" /\ plan' = NoPlan /\ todo' = {}
    /\ UNCHANGED <<tree, index, limit, snap, map, draft, served, seen, idle, calls>>

Advance(check) ==
    /\ pc = check /\ todo # {} /\ todo' = todo \ {Least(todo)}
    /\ UNCHANGED <<tree, stored, pc, limit, snap, map, draft, plan, served, seen, idle, calls>>

\* validate: the whole file against its fingerprint.
ValidSource == Advance("validate") /\ disk[Least(todo)] = plan.sources[Least(todo)]
StaleSource == pc = "validate" /\ todo # {} /\ disk[Least(todo)] # plan.sources[Least(todo)] /\ Remove

Validated ==
    /\ pc = "validate" /\ todo = {} /\ pc' = "trust" /\ todo' = Slices(plan)
    /\ UNCHANGED <<tree, stored, limit, snap, map, draft, plan, served, seen, idle, calls>>

\* trusted: the lines of the slice against its content.
Top(c) == c \div 2
Current(f) == disk[f] # Absent /\ Top(disk[f]) = plan.slices[f]
TrustedSlice == Advance("trust") /\ Current(Least(todo))
TamperedSlice == pc = "trust" /\ todo # {} /\ ~Current(Least(todo)) /\ Remove

Serve ==
    /\ pc = "trust" /\ todo = {} /\ pc' = "done"
    /\ served' = {plan} /\ plan' = NoPlan /\ map' = None
    /\ UNCHANGED <<tree, stored, limit, snap, todo, draft, seen, idle, calls>>

-----------------------------------------------------------------------------
(* A plan of its own.                                                        *)

\* gitdiff::compute: paths of the snapshot, hunks of git diff now.
Diff ==
    /\ pc = "diff" /\ pc' = "select"
    /\ LET changed == {f \in Files : commits[head][f] # Absent /\ disk[f] # commits[head][f]}
       IN  plan' = [NoPlan EXCEPT !.head = snap.head,
               !.status = [f \in {g \in Files : snap.status[g] # "clean" /\ (Untracked \/ snap.status[g] # "untracked")}
                            |-> snap.status[f]],
               !.hunks = [f \in changed |-> disk[f]]]
    /\ todo' = DOMAIN map
    /\ UNCHANGED <<tree, stored, limit, snap, map, draft, served, seen, idle, calls>>

\* select_slices: files of the map in the order they rank, which the model leaves open.
Select(f) ==
    /\ pc = "select" /\ f \in todo /\ todo' = todo \ {f}
    /\ Cardinality(Slices(plan)) < MaxFiles
    /\ plan' = IF map[f] /\ disk[f] \notin Opaque \cup {Absent}
               THEN [plan EXCEPT !.slices = [g \in DOMAIN @ \cup {f} |-> IF g = f THEN Top(disk[f]) ELSE @[g]]]
               ELSE plan
    /\ UNCHANGED <<tree, stored, pc, limit, snap, map, draft, served, seen, idle, calls>>

Selected ==
    /\ pc = "select" /\ (todo = {} \/ Cardinality(Slices(plan)) = MaxFiles)
    /\ pc' = "sources" /\ todo' = DOMAIN plan.slices
    /\ UNCHANGED <<tree, stored, limit, snap, map, draft, plan, served, seen, idle, calls>>

\* provenance: the file is read again; one that is gone is left out.
Source ==
    /\ pc = "sources" /\ todo # {}
    /\ LET f == Least(todo)
       IN  /\ todo' = todo \ {f}
           /\ plan' = IF disk[f] = Absent THEN plan
                      ELSE [plan EXCEPT !.sources = [g \in DOMAIN @ \cup {f} |-> IF g = f THEN disk[f] ELSE @[g]]]
    /\ UNCHANGED <<tree, stored, pc, limit, snap, map, draft, served, seen, idle, calls>>

Put ==
    /\ pc = "sources" /\ todo = {} /\ pc' = "done"
    /\ cache' = {e \in cache : e.key # Key(snap)} \cup {[key |-> Key(snap), plan |-> plan]}
    /\ plan' = NoPlan /\ map' = None
    /\ UNCHANGED <<tree, index, limit, snap, todo, draft, served, seen, idle, calls>>

\* The process ends.
Die ==
    /\ Calling /\ pc' = "none"
    /\ todo' = {} /\ draft' = None /\ plan' = NoPlan /\ snap' = NoSnap /\ map' = None
    /\ seen' = [f \in Files |-> {}]
    /\ UNCHANGED <<tree, stored, limit, served, idle, calls>>

\* ocg cache clean: the index stays.
Clean ==
    /\ ~Calling /\ cache # {} /\ cache' = {}
    /\ UNCHANGED <<tree, index, pc, limit, snap, map, todo, draft, plan, served, seen, idle, calls>>

Next ==
    \/ \E f \in Files, c \in Contents \cup {Absent} : Edit(f, c)
    \/ Commit
    \/ \E n \in DOMAIN commits : Reset(n)
    \/ \E n \in Limits : Begin(n)
    \/ ReadHead \/ ReadStatus \/ ReadBlobs \/ Walk
    \/ IndexFile \/ SaveIndex
    \/ Hit \/ Miss \/ ValidSource \/ StaleSource \/ Validated \/ TrustedSlice \/ TamperedSlice \/ Serve
    \/ Diff \/ (\E f \in Files : Select(f)) \/ Selected \/ Source \/ Put
    \/ Die \/ Clean

Spec == Init /\ [][Next]_vars

-----------------------------------------------------------------------------
\* The text a hit serves of a file is what the file's lines were at some
\* moment of the call that is served, however the file was edited between the
\* two reads a plan is built from (cache.rs get, trusted).
ServedSlicesWereSeen ==
    \A p \in served : \A f \in DOMAIN p.slices : \E c \in seen[f] \ {Absent} : p.slices[f] = Top(c)

\* The provenance a hit labels validated names contents its files had, whole,
\* at some moment of the call: a change outside the slice makes a plan stale
\* (freshness.rs validate).
ServedSourcesWereSeen == \A p \in served : \A f \in DOMAIN p.sources : p.sources[f] \in seen[f]

\* A hit names the HEAD and the changed paths that this call's own snapshot
\* has, over every commit, reset and edit since it was cached (CacheKey).
ServedStatusIsTheSnapshots ==
    \A p \in served : /\ p.head = snap.head
                      /\ \A f \in Files : snap.status[f] = "modified" <=> (f \in DOMAIN p.status /\ p.status[f] = "modified")
                      /\ \A f \in Files : snap.status[f] = "deleted" <=> (f \in DOMAIN p.status /\ p.status[f] = "deleted")

\* Through every reuse, a file indexed by its content's hash has the symbols of
\* that content (index.rs update).
HashedFilesHaveTheirSymbols ==
    \A f \in DOMAIN index : index[f].fp[1] = "sha" => index[f].symbols.of = index[f].fp[2]

\* No entry of the index a call saved has more symbols than that call allows,
\* whichever limit the entry was made under (index.rs update).
SymbolsWithinTheLimit ==
    pc = "lookup" => \A f \in DOMAIN index : index[f].symbols.n <= limit

\* A context served from the cache is what the repository was at some moment of
\* the call, and an index reused has the symbols of its contents.
ServedContextIsTheRepositorys ==
    /\ ServedSlicesWereSeen /\ ServedSourcesWereSeen /\ ServedStatusIsTheSnapshots
    /\ HashedFilesHaveTheirSymbols /\ SymbolsWithinTheLimit

\* "Every artifact the engine reuses carries the fingerprints it was built
\* from": the symbols of a file indexed by its blob are those of the blob.
BlobsHaveTheirSymbols ==
    \A f \in DOMAIN index : index[f].fp[1] = "blob" => index[f].symbols.of = index[f].fp[2]

\* "A stale artifact is never trusted": the hunks of a hit show contents the
\* changed files had at some moment of the call.
ServedHunksWereSeen == \A p \in served : \A f \in DOMAIN p.hunks : p.hunks[f] \in seen[f]

\* generation_id "changes only when the repo root, the engine/schema version,
\* the truncated flag or the indexed file contents change".
GenerationIsOfContents ==
    [][(idle /\ pc = "index" /\ pc' = "lookup") => Generation(index') = Generation(index)]_vars
=============================================================================
