--------------------------- MODULE ProviderProfile ---------------------------
(***************************************************************************)
(* The user-global Profile and the credential Vault (profile.rs, vault.rs) *)
(* under concurrent editors: the PWA's setup and Profile routes            *)
(* (control_server.rs) and the command line (config_command.rs). An edit   *)
(* reads the file, changes what it read and replaces the file if it still  *)
(* has the revision that was read. A revision is the hash of the whole     *)
(* file, so equal contents have equal revisions and the model writes the   *)
(* content itself for its hash. Connecting a provider writes the Vault and *)
(* the Profile as one, under the locks of both. Labels, endpoints and the  *)
(* secrets themselves are left out: a secret is the run that stored it.    *)
(***************************************************************************)
EXTENDS Integers, FiniteSets

CONSTANTS
    Editors,    \* handler threads and command-line processes
    Names,      \* 1..n: the keys "name", "name_2", ..., of providers and credentials
    Ids,        \* upstream model ids
    Catalogs,   \* what discovery may answer: sets of ids
    Ops,        \* the operations this instance runs
    Contents0,  \* the files an instance may start with
    MaxRuns,    \* bound on operations
    MaxUser     \* bound on credentials the user sets or removes

ProfileAssumption == Names = 1..Cardinality(Names) /\ \A c \in Catalogs : c \subseteq Ids

Missing == [state |-> "missing"]
Partial == [state |-> "partial"]   \* created and not yet written in full
None == "none"
Bare == 0              \* the credential of a provider added with no endpoint and no credential
NoId == <<>>
ByUser == 0

\* A Profile: its providers, each with its credential and its catalog, and
\* its models, which are named by their provider and id (model_key).
Empty == [providers |-> <<>>, models |-> {}, default |-> NoId]
IsContent(f) == f \notin {Missing, Partial}

VARIABLES
    file, vault,
    profileLock, vaultLock,   \* the editor that holds the file lock, or None
    ed,                       \* what each editor is doing and has read
    runs, userRuns,
    removed                   \* credentials the user removed and did not set again (observer)

vars == <<file, vault, profileLock, vaultLock, ed, runs, userRuns, removed>>

Refs(c) == {c.providers[p].ref : p \in DOMAIN c.providers} \ {Bare}
Referenced(f) == IF IsContent(f) THEN Refs(f) ELSE {}

AtRest(run, end) == [pc |-> "idle", op |-> None, run |-> run, rev |-> Missing, base |-> Missing,
                     key |-> ByUser, ref |-> ByUser, end |-> end]

Init ==
    /\ file \in Contents0 /\ runs = 0 /\ userRuns = 0
    /\ vault = [r \in Referenced(file) |-> ByUser] /\ removed = {}
    /\ profileLock = None /\ vaultLock = None
    /\ ed = [e \in Editors |-> AtRest(0, None)]

Finish(e, end) == ed' = [ed EXCEPT ![e] = AtRest(ed[e].run, end)]
Step(e, changes) == ed' = [ed EXCEPT ![e] = changes]

\* normalize_provider_key, normalize_credential_ref: the first free name.
Fresh(used) == CHOOSE n \in Names : n \notin used /\ \A k \in Names : k < n => k \in used

With(providers, p, ref, catalog) ==
    [q \in DOMAIN providers \cup {p} |->
        IF q = p THEN [ref |-> ref, catalog |-> catalog] ELSE providers[q]]
WithoutProvider(c, p) ==
    [providers |-> [q \in DOMAIN c.providers \ {p} |-> c.providers[q]],
     models |-> {m \in c.models : m[1] # p},
     default |-> IF c.default # NoId /\ c.default[1] = p THEN NoId ELSE c.default]

\* Profile::executable_choices: a provider's models can run when it has a
\* usable endpoint and a credential the Vault has.
Executable(c, p) == c.providers[p].ref \in DOMAIN vault

\* What each operation may make of the content it read; nothing when it refuses.
AddProvider(c) ==
    {[c EXCEPT !.providers = With(c.providers, p, Bare, {})] : p \in Names \ DOMAIN c.providers}
RemoveProvider(c) == {WithoutProvider(c, p) : p \in DOMAIN c.providers}
AddModel(c) ==
    {[c EXCEPT !.models = c.models \cup {m}, !.default = IF d THEN m ELSE c.default] :
        m \in ((DOMAIN c.providers) \X Ids) \ c.models, d \in BOOLEAN}
RemoveModel(c) ==
    {[c EXCEPT !.models = c.models \ {m}, !.default = IF c.default = m THEN NoId ELSE c.default] :
        m \in c.models}
Refresh(c) ==
    {[c EXCEPT !.providers = With(c.providers, p, c.providers[p].ref, catalog)] :
        p \in {q \in DOMAIN c.providers : c.providers[q].ref \in DOMAIN vault}, catalog \in Catalogs}
SaveModels(c) ==
    UNION {{[c EXCEPT !.models = {m \in c.models : m[1] # p} \cup ({p} \X ids), !.default = <<p, d>>] :
                ids \in {s \in SUBSET c.providers[p].catalog : d \in s}} :
           p \in {q \in DOMAIN c.providers : Executable(c, q)}, d \in Ids}

Edits(op, c) ==
    CASE op = "add provider" -> AddProvider(c)
      [] op = "remove provider" -> RemoveProvider(c)
      [] op = "add model" -> AddModel(c)
      [] op = "remove model" -> RemoveModel(c)
      [] op = "refresh" -> Refresh(c)
      [] op = "save models" -> SaveModels(c)

-----------------------------------------------------------------------------
\* ProfileService::bootstrap creates the file and then writes it, under the lock.
BootstrapCreate(e) ==
    /\ "bootstrap" \in Ops /\ runs < MaxRuns
    /\ ed[e].pc = "idle" /\ profileLock = None
    /\ runs' = runs + 1
    /\ IF file = Missing
       THEN /\ file' = Partial /\ profileLock' = e
            /\ Step(e, [AtRest(runs + 1, None) EXCEPT !.pc = "bootstrap"])
       ELSE Step(e, AtRest(runs + 1, "refused")) /\ UNCHANGED <<file, profileLock>>
    /\ UNCHANGED <<vault, vaultLock, userRuns, removed>>

BootstrapWrite(e) ==
    /\ ed[e].pc = "bootstrap"
    /\ file' = Empty /\ profileLock' = None /\ Finish(e, "saved")
    /\ UNCHANGED <<vault, vaultLock, runs, userRuns, removed>>

\* ProfileService::current hashes one read of the file and parses another;
\* for a route whose client sends the revision, the first read is the
\* client's view.
ReadRevision(e, op) ==
    /\ op \in Ops \ {"bootstrap"} /\ runs < MaxRuns
    /\ ed[e].pc = "idle" /\ file # Missing
    /\ Step(e, [AtRest(runs + 1, None) EXCEPT !.pc = "parse", !.op = op, !.rev = file])
    /\ runs' = runs + 1
    /\ UNCHANGED <<file, vault, profileLock, vaultLock, userRuns, removed>>

\* Mutant: the document is parsed before the bytes of its revision are read.
ParseFirst(e) ==
    /\ ed[e].pc = "parse"
    /\ IF IsContent(file) /\ IsContent(ed[e].rev)
       THEN Step(e, [ed[e] EXCEPT !.base = ed[e].rev, !.rev = file,
                         !.pc = IF ed[e].op = "connect" THEN "name" ELSE "edit"])
       ELSE Finish(e, "refused")
    /\ UNCHANGED <<file, vault, profileLock, vaultLock, runs, userRuns, removed>>

Parse(e) ==
    /\ ed[e].pc = "parse"
    /\ IF IsContent(file)
       THEN Step(e, [ed[e] EXCEPT !.base = file, !.pc = IF ed[e].op = "connect" THEN "name" ELSE "edit"])
       ELSE Finish(e, "refused")
    /\ UNCHANGED <<file, vault, profileLock, vaultLock, runs, userRuns, removed>>

\* ProfileService::replace: compared and renamed over under the lock;
\* the edit may be refused for what it read, and staging the file may fail.
Replace(e) ==
    /\ ed[e].pc = "edit" /\ profileLock = None
    /\ \/ \E content \in Edits(ed[e].op, ed[e].base) :
            /\ file = ed[e].rev
            /\ file' = content /\ Finish(e, "saved")
       \/ Finish(e, "refused") /\ UNCHANGED file
    /\ UNCHANGED <<vault, profileLock, vaultLock, runs, userRuns, removed>>

\* Connect reads the Vault's names without its lock and picks free ones.
Name(e) ==
    /\ ed[e].pc = "name"
    /\ LET usedRefs == Refs(ed[e].base) \cup DOMAIN vault
           usedKeys == DOMAIN ed[e].base.providers
       IN  IF usedRefs = Names \/ usedKeys = Names THEN Finish(e, "refused")
           ELSE Step(e, [ed[e] EXCEPT !.pc = "connect", !.ref = Fresh(usedRefs), !.key = Fresh(usedKeys)])
    /\ UNCHANGED <<file, vault, profileLock, vaultLock, runs, userRuns, removed>>

Connected(e) == {[ed[e].base EXCEPT !.providers = With(ed[e].base.providers, ed[e].key, ed[e].ref, c)] :
                    c \in Catalogs}

\* Mutant: the Profile is saved before its credential.
LockProfileAndSave(e) ==
    /\ ed[e].pc = "connect" /\ profileLock = None
    /\ profileLock' = e
    /\ IF file = ed[e].rev
       THEN /\ \E content \in Connected(e) :
                    /\ file' = content
                    /\ Step(e, [ed[e] EXCEPT !.pc = "store", !.rev = content, !.base = content])
       ELSE Step(e, [ed[e] EXCEPT !.pc = "store"]) /\ UNCHANGED file
    /\ UNCHANGED <<vault, vaultLock, runs, userRuns, removed>>

LockProfile(e) ==
    /\ ed[e].pc = "connect" /\ profileLock = None
    /\ profileLock' = e /\ Step(e, [ed[e] EXCEPT !.pc = "store"])
    /\ UNCHANGED <<file, vault, vaultLock, runs, userRuns, removed>>

\* Mutant: a stored secret of that name is overwritten.
StoreOver(e) ==
    /\ ed[e].pc = "store" /\ vaultLock = None
    /\ vault' = [r \in DOMAIN vault \cup {ed[e].ref} |-> IF r = ed[e].ref THEN ed[e].run ELSE vault[r]]
    /\ vaultLock' = e
    /\ Step(e, [ed[e] EXCEPT !.pc = "commit"])
    /\ UNCHANGED <<file, runs, userRuns, profileLock, removed>>

\* Vault::insert_with up to its commit: a name in use is refused; the write may fail.
Store(e) ==
    /\ ed[e].pc = "store" /\ vaultLock = None
    /\ \/ Finish(e, "refused") /\ profileLock' = None /\ UNCHANGED <<vault, vaultLock>>
       \/ /\ ed[e].ref \notin DOMAIN vault
          /\ vault' = [r \in DOMAIN vault \cup {ed[e].ref} |->
                           IF r = ed[e].ref THEN ed[e].run ELSE vault[r]]
          /\ vaultLock' = e
          /\ Step(e, [ed[e] EXCEPT !.pc = "commit"]) /\ UNCHANGED profileLock
    /\ UNCHANGED <<file, runs, userRuns, removed>>

Without(v, r) == [q \in DOMAIN v \ {r} |-> v[q]]
Unlock == profileLock' = None /\ vaultLock' = None

\* Mutant: a failed commit keeps the credential.
CommitKeeping(e) ==
    /\ ed[e].pc = "commit"
    /\ \/ /\ file = ed[e].rev /\ \E content \in Connected(e) : file' = content
          /\ Finish(e, "saved")
       \/ Finish(e, "refused") /\ UNCHANGED file
    /\ Unlock
    /\ UNCHANGED <<vault, runs, userRuns, removed>>

\* The commit of insert_with: the Profile names the credential, or the
\* credential is removed again. Staging the new file may fail, and so may the
\* removal ("credential rollback failed"): then the answer says so and the secret is left.
Commit(e) ==
    /\ ed[e].pc = "commit"
    /\ \/ /\ file = ed[e].rev /\ \E content \in Connected(e) : file' = content
          /\ Finish(e, "saved") /\ UNCHANGED vault
       \/ Finish(e, "refused") /\ vault' = Without(vault, ed[e].ref) /\ UNCHANGED file
       \/ Finish(e, "left") /\ UNCHANGED <<vault, file>>
    /\ Unlock
    /\ UNCHANGED <<runs, userRuns, removed>>

\* Vault::set (Route::ProfileCredential, ocg vault set) and Vault::remove.
UserSet(r) ==
    /\ vaultLock = None /\ userRuns < MaxUser
    /\ vault' = [q \in DOMAIN vault \cup {r} |-> IF q = r THEN ByUser ELSE vault[q]]
    /\ removed' = removed \ {r} /\ userRuns' = userRuns + 1
    /\ UNCHANGED <<file, profileLock, vaultLock, ed, runs>>
UserRemove(r) ==
    /\ vaultLock = None /\ userRuns < MaxUser /\ r \in DOMAIN vault
    /\ vault' = Without(vault, r) /\ userRuns' = userRuns + 1
    /\ removed' = removed \cup {r}
    /\ UNCHANGED <<file, profileLock, vaultLock, ed, runs>>

\* The editor's process dies: its locks go with it.
Crash(e) ==
    /\ ed[e].pc # "idle"
    /\ Finish(e, "crashed")
    /\ profileLock' = IF profileLock = e THEN None ELSE profileLock
    /\ vaultLock' = IF vaultLock = e THEN None ELSE vaultLock
    /\ UNCHANGED <<file, vault, runs, userRuns, removed>>

Next ==
    \/ \E e \in Editors :
        \/ BootstrapCreate(e) \/ BootstrapWrite(e)
        \/ \E op \in Ops : ReadRevision(e, op)
        \/ Parse(e) \/ Replace(e)
        \/ Name(e) \/ LockProfile(e) \/ Store(e) \/ Commit(e)
        \/ Crash(e)
    \/ \E r \in Names : UserSet(r) \/ UserRemove(r)

Spec == Init /\ [][Next]_vars

-----------------------------------------------------------------------------
Saves(e) == ed[e].pc # "idle" /\ ed'[e].pc = "idle" /\ ed'[e].end = "saved"

\* What an operation may drop: a removal what it removes, saving a
\* provider's models that provider's other models, a refresh a catalog.
MayDrop(op) ==
    CASE op \in {"remove model", "save models"} -> {"model"}
      [] op = "remove provider" -> {"model", "provider"}
      [] OTHER -> {}

\* No lost update: an edit that is saved keeps every provider and every model
\* that an edit saved before it had added, but those its operation drops
\* ("reject edits based on a stale backend projection", profile.rs).
SavedEditsSurvive ==
    [][\A e \in Editors : Saves(e) /\ IsContent(file) =>
        /\ "provider" \in MayDrop(ed[e].op) \/ DOMAIN file.providers \subseteq DOMAIN file'.providers
        /\ "model" \in MayDrop(ed[e].op) \/ file.models \subseteq file'.models]_vars

\* A credential the Profile names is in the Vault unless the user removed it:
\* neither a crash between the two writes, nor the rollback of another
\* connect, leaves a connected provider without its secret (insert_with).
CredentialsResolve == Referenced(file) \subseteq DOMAIN vault \cup removed

\* The credentials the last connect of an editor stored and that are there as it stored them.
StoredBy(e) == {r \in DOMAIN vault : ed[e].run # ByUser /\ vault[r] = ed[e].run}

\* A connect that was refused has left no credential behind, whatever refused it.
RefusedConnectsLeaveNothing ==
    \A e \in Editors : ed[e].pc = "idle" /\ ed[e].end = "refused" => StoredBy(e) = {}

\* A secret that a failed rollback or a crash before the save has left is never taken for
\* another provider's: a later connect, also one that picked the same name before, takes
\* another or is refused ("credential name is already in use"). Excepted is a provider
\* whose own secret the user removed while the connect chose its name.
LeftSecretsAreUnused ==
    \A e \in Editors : ed[e].pc = "idle" /\ ed[e].end \in {"left", "crashed"} =>
        StoredBy(e) \cap Referenced(file) \subseteq removed

\* A stored secret is changed by the user or withdrawn by the connect that
\* stored it, never by another connect that picked the same name.
SecretsAreKept ==
    [][\A r \in DOMAIN vault :
        (r \in DOMAIN vault' /\ vault'[r] = vault[r])
        \/ userRuns' # userRuns
        \/ \E e \in Editors : ed[e].run = vault[r] /\ ed'[e].end = "refused"]_vars
=============================================================================
