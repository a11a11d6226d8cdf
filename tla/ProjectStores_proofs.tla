-------------------------- MODULE ProjectStores_proofs --------------------------
(***************************************************************************)
(* While directories move under registrations and launches, a Job is       *)
(* created in the store of its identity and no runtime is forgotten: a     *)
(* store never loses an identity, and the root a registration joins is     *)
(* that of every runtime it took out of the map.                           *)
(*                                                                         *)
(* The repository context, for any files, contents and limits: a plan      *)
(* served from the cache is what the repository was at some moment of the  *)
(* call.                                                                   *)
(***************************************************************************)
EXTENDS ProjectStores, WellFoundedInduction, TLAPS

---------------------------------------------------------------------------------
(* The rows of the stores. *)

\* What happens to the rows: they keep their identities and name minted ones.
RowsKeep == /\ RowsAreMinted'
            /\ \A s \in Stores : IdsOf(s) \subseteq {r.id : r \in rows'[s]}

\* Whatever speaks only of rows stays when no row changes.
LEMMA RowsUnchanged == RowsAreMinted /\ UNCHANGED <<rows, minted>> => RowsKeep
BY DEF RowsAreMinted, RowsKeep, IdsOf

\* ensure_project adds at most one row, of a new identity.
LEMMA EnsureKeepsRows ==
    ASSUME RowsAreMinted, NEW s \in Stores, NEW root, EnsureProject(s, root)
    PROVE  RowsKeep
<1>1. CASE UNCHANGED <<rows, minted>>
  BY <1>1, RowsUnchanged
<1>2. CASE /\ minted < MaxIds /\ minted' = minted + 1
           /\ rows' = [rows EXCEPT ![s] = @ \cup {Row(minted + 1, root)}]
  <2>1. minted \in Nat /\ minted >= 1 /\ MaxIds \in Nat
    BY RegistryAssumption DEF RowsAreMinted, Ids
  <2>2. minted' \in Ids /\ 1..minted \subseteq 1..minted' /\ minted + 1 \in 1..minted'
    BY <1>2, <2>1 DEF Ids
  <2>3. Row(minted + 1, root).id = minted + 1
    BY DEF Row
  <2>4. DOMAIN rows' = Stores
    BY <1>2 DEF RowsAreMinted
  <2>5. ASSUME NEW t \in Stores
        PROVE  IdsOf(t)' \subseteq 1..minted' /\ IdsOf(t) \subseteq {r.id : r \in rows'[t]}
    <3>1. rows'[t] = IF t = s THEN rows[t] \cup {Row(minted + 1, root)} ELSE rows[t]
      BY <1>2 DEF RowsAreMinted
    <3>2. \A r \in rows[t] : r.id \in 1..minted
      BY DEF RowsAreMinted, IdsOf
    <3>3. \A r \in rows'[t] : r.id \in 1..minted'
      BY <2>2, <2>3, <3>1, <3>2
    <3> QED
      BY <3>1, <3>3 DEF IdsOf
  <2> QED
    BY <2>2, <2>4, <2>5 DEF RowsKeep, RowsAreMinted
<1> QED
  BY <1>1, <1>2 DEF EnsureProject

\* reconcile_project changes the root of a single row, or is ensure_project where
\* nothing is taken away; a store that holds an identity gets no other.
LEMMA ReconcileKeepsRows ==
    ASSUME RowsAreMinted, NEW s \in Stores, NEW root, ReconcileProject(s, root)
    PROVE  /\ RowsKeep
           /\ \A t \in Stores : rows[t] # {} => {r.id : r \in rows'[t]} = IdsOf(t)
<1>1. CASE /\ rows' = [rows EXCEPT ![s] = {Row(r.id, root) : r \in @}]
           /\ UNCHANGED minted
  <2>1. ASSUME NEW t \in Stores PROVE {r.id : r \in rows'[t]} = IdsOf(t)
    <3>1. CASE t = s
      <4>1. rows'[t] = {Row(r.id, root) : r \in rows[t]}
        BY <1>1, <3>1 DEF RowsAreMinted
      <4>2. \A r : Row(r.id, root).id = r.id
        BY DEF Row
      <4> QED
        BY <4>1, <4>2 DEF IdsOf
    <3>2. CASE t # s
      BY <1>1, <3>2 DEF RowsAreMinted, IdsOf
    <3> QED
      BY <3>1, <3>2
  <2>2. DOMAIN rows' = Stores
    BY <1>1 DEF RowsAreMinted
  <2>3. RowsAreMinted'
    BY <1>1, <2>1, <2>2 DEF RowsAreMinted, IdsOf
  <2> QED
    BY <2>1, <2>3 DEF RowsKeep
<1>2. CASE (IdsAt(s, root) # {} \/ rows[s] = {}) /\ EnsureProject(s, root)
  <2>1. RowsKeep
    BY <1>2, EnsureKeepsRows
  <2>2. CASE IdsAt(s, root) # {}
    BY <1>2, <2>1, <2>2 DEF EnsureProject, IdsOf
  <2>3. CASE IdsAt(s, root) = {} /\ rows[s] = {}
    <3>1. rows' = [rows EXCEPT ![s] = @ \cup {Row(minted + 1, root)}]
      BY <1>2, <2>3 DEF EnsureProject
    <3>2. \A t \in Stores : t # s => rows'[t] = rows[t]
      BY <3>1 DEF RowsAreMinted
    <3> QED
      BY <2>1, <2>3, <3>2 DEF IdsOf
  <2> QED
    BY <1>2, <2>1, <2>2, <2>3
<1> QED
  BY <1>1, <1>2 DEF ReconcileProject

\* Every step keeps identities in their stores.
LEMMA StepKeepsRows == RegistryInv /\ [Next]_vars => RowsKeep
<1> SUFFICES ASSUME RegistryInv, [Next]_vars PROVE RowsKeep
  OBVIOUS
<1>1. RowsAreMinted
  BY DEF RegistryInv
<1>2. CASE UNCHANGED <<rows, minted>>
  BY <1>1, <1>2, RowsUnchanged
<1>3. ASSUME NEW root \in Roots, Reconcile(root) PROVE RowsKeep
  BY <1>1, <1>3, ReconcileKeepsRows DEF Reconcile, StoreAt
<1>4. ASSUME NEW root \in Roots, OpenStore(root) PROVE RowsKeep
  BY <1>1, <1>4, EnsureKeepsRows DEF OpenStore, StoreAt
<1>5. CASE GetOrStart
  <2>1. UNCHANGED <<rows, minted>> \/ \E s \in StoreAt(launch.root) : EnsureProject(s, launch.root)
    BY <1>5 DEF GetOrStart
  <2> QED
    BY <1>1, <1>2, <2>1, EnsureKeepsRows DEF StoreAt
<1>6. ASSUME \/ Invalidate \/ \E failed \in BOOLEAN : JoinInvalidated(failed)
             \/ WriteProjects
             \/ \E id \in Ids : OpenProject(id)
             \/ CreateJob \/ Shutdown \/ JoinAll
             \/ \E s \in Stores, root \in Roots : MoveDirectory(s, root)
             \/ UNCHANGED vars
      PROVE  UNCHANGED <<rows, minted>>
  BY <1>6 DEF Invalidate, JoinInvalidated, WriteProjects, OpenProject, CreateJob, Shutdown,
              JoinAll, MoveDirectory, vars
<1> QED
  BY <1>2, <1>3, <1>4, <1>5, <1>6 DEF Next

---------------------------------------------------------------------------------
(* Launches and Jobs. *)

\* The types of what a registration or a launch holds.
LEMMA RegistryTypeStep == RegistryInv /\ [Next]_vars => RegistryTypeOK'
<1> SUFFICES ASSUME RegistryInv, [Next]_vars, RowsKeep PROVE RegistryTypeOK'
  BY StepKeepsRows
<1>0. RegistryTypeOK /\ RowsAreMinted
  BY DEF RegistryInv
<1>1. CASE UNCHANGED vars
  BY <1>0, <1>1 DEF Registrations, RegistryTypeOK, vars
<1>2. ASSUME NEW root \in Roots, Reconcile(root) PROVE RegistryTypeOK'
  <2>1. PICK s \in StoreAt(root) : \E id \in {r.id : r \in {r \in rows'[s] : r.root = root}} :
            register' = [step |-> "read", id |-> id, root |-> root]
    BY <1>2 DEF Reconcile
  <2>2. PICK id \in {r.id : r \in {r \in rows'[s] : r.root = root}} :
            register' = [step |-> "read", id |-> id, root |-> root]
    BY <2>1
  <2>3. id \in Ids
    <3>1. s \in Stores /\ \A i \in 1..minted' : i \in Ids
      BY RegistryAssumption DEF StoreAt, RowsKeep, RowsAreMinted, Ids
    <3>2. \A r \in rows'[s] : r.id \in 1..minted'
      BY <3>1 DEF RowsKeep, RowsAreMinted, IdsOf
    <3> QED
      BY <3>1, <3>2
  <2>4. UNCHANGED <<registry, runtimes, live, closing, launch>>
    BY <1>2 DEF Reconcile
  <2> QED
    BY <1>0, <2>2, <2>3, <2>4 DEF Registrations, RegistryTypeOK
<1>3. ASSUME NEW root \in Roots, OpenStore(root) PROVE RegistryTypeOK'
  BY <1>0, <1>3 DEF Registrations, RegistryTypeOK, OpenStore
<1>4. CASE Invalidate
  <2>1. /\ register.id \in Ids /\ register.root \in Roots /\ register # Idle
        /\ runtimes[register.id] \in Roots \cup {NoRoot}
    BY <1>0, <1>4 DEF Registrations, RegistryTypeOK, Invalidate
  <2>2. UNCHANGED <<registry, live, closing, launch>>
    BY <1>4 DEF Invalidate
  <2>3. \/ /\ register' = [register EXCEPT !.step = "write"] /\ UNCHANGED runtimes
        \/ /\ register' = [step |-> "join", id |-> register.id, root |-> register.root,
                           old |-> runtimes[register.id]]
           /\ runtimes' = [runtimes EXCEPT ![register.id] = NoRoot]
    BY <1>4 DEF Invalidate
  <2>4. register \in [step : {"read", "write"}, id : Ids, root : Roots]
    BY <1>0, <1>4 DEF Registrations, RegistryTypeOK, Invalidate
  <2> QED
    BY <1>0, <2>1, <2>2, <2>3, <2>4 DEF Registrations, RegistryTypeOK
<1>5. ASSUME NEW failed \in BOOLEAN, JoinInvalidated(failed) PROVE RegistryTypeOK'
  <2>1. register.id \in Ids /\ register.root \in Roots
    BY <1>0, <1>5 DEF Registrations, RegistryTypeOK, JoinInvalidated
  <2>2. register' = Idle \/ register' = [step |-> "write", id |-> register.id, root |-> register.root]
    BY <1>5 DEF JoinInvalidated
  <2>3. UNCHANGED <<registry, runtimes, closing, launch>> /\ live' \subseteq live
    BY <1>5 DEF JoinInvalidated
  <2> QED
    BY <1>0, <2>1, <2>2, <2>3 DEF Registrations, RegistryTypeOK
<1>6. CASE WriteProjects
  <2>1. register.id \in Ids /\ register.root \in Roots
    BY <1>0, <1>6 DEF Registrations, RegistryTypeOK, WriteProjects
  <2> QED
    BY <1>0, <1>6, <2>1 DEF Registrations, RegistryTypeOK, WriteProjects
<1>7. ASSUME NEW id \in Ids, OpenProject(id) PROVE RegistryTypeOK'
  <2>1. registry[id] \in Roots
    BY <1>0, <1>7 DEF Registrations, RegistryTypeOK, OpenProject
  <2>2. \E s \in Stores :
           launch' = [step |-> "runtime", id |-> id, root |-> registry[id], store |-> s]
    BY <1>7 DEF OpenProject, Candidate, StoreAt
  <2>3. UNCHANGED <<registry, runtimes, live, closing, register>>
    BY <1>7 DEF OpenProject
  <2> QED
    BY <1>0, <2>1, <2>2, <2>3 DEF Registrations, RegistryTypeOK
<1>8. CASE GetOrStart
  <2>1. launch \in [step : {"runtime", "create"}, id : Ids, root : Roots, store : Stores]
    BY <1>0, <1>8 DEF Registrations, RegistryTypeOK, GetOrStart
  <2>2. launch' = Idle \/ launch' = [launch EXCEPT !.step = "create"]
    BY <1>8 DEF GetOrStart
  <2>3. \/ UNCHANGED <<runtimes, live>>
        \/ /\ runtimes' = [runtimes EXCEPT ![launch.id] = launch.root]
           /\ live' = live \cup {Runtime(launch.id, launch.root)}
    BY <1>8 DEF GetOrStart
  <2>4. launch' # Idle =>
           launch' \in [step : {"runtime", "create"}, id : Ids, root : Roots, store : Stores]
    BY <2>1, <2>2
  <2>5. /\ runtimes' \in [Ids -> Roots \cup {NoRoot}]
        /\ live' \subseteq [id : Ids, root : Roots]
    BY <1>0, <2>1, <2>3 DEF Registrations, RegistryTypeOK, Runtime
  <2>6. UNCHANGED <<registry, closing, register>>
    BY <1>8 DEF GetOrStart
  <2> QED
    BY <1>0, <2>4, <2>5, <2>6 DEF Registrations, RegistryTypeOK
<1>9. CASE CreateJob
  BY <1>0, <1>9 DEF Registrations, RegistryTypeOK, CreateJob
<1>10. CASE Shutdown
  BY <1>0, <1>10 DEF Registrations, RegistryTypeOK, Shutdown
<1>11. CASE JoinAll
  <2>1. UNCHANGED <<registry, runtimes, closing, register, launch>> /\ live' \subseteq live
    BY <1>11 DEF JoinAll
  <2> QED
    BY <1>0, <2>1 DEF Registrations, RegistryTypeOK
<1>12. ASSUME NEW s \in Stores, NEW root \in Roots, MoveDirectory(s, root) PROVE RegistryTypeOK'
  BY <1>0, <1>12 DEF Registrations, RegistryTypeOK, MoveDirectory
<1> QED
  BY <1>1, <1>2, <1>3, <1>4, <1>5, <1>6, <1>7, <1>8, <1>9, <1>10, <1>11, <1>12 DEF Next

\* A launch opens a store that holds its identity, which stays there.
LEMMA LaunchStep == RegistryInv /\ [Next]_vars => LaunchHoldsIdentity' /\ JobsHoldIdentity'
<1> SUFFICES ASSUME RegistryInv, [Next]_vars, RowsKeep, RegistryTypeOK'
             PROVE  LaunchHoldsIdentity' /\ JobsHoldIdentity'
  BY StepKeepsRows, RegistryTypeStep
<1>0. \A s \in Stores : IdsOf(s) \subseteq IdsOf(s)'
  BY DEF RowsKeep, IdsOf
<1>1. ASSUME launch' = launch \/ launch' = Idle PROVE LaunchHoldsIdentity'
  <2>1. CASE launch' = launch /\ launch # Idle
    <3>1. launch.store \in Stores /\ launch.id \in IdsOf(launch.store)
      BY <2>1 DEF Registrations, RegistryInv, RegistryTypeOK, LaunchHoldsIdentity
    <3>2. launch.id \in IdsOf(launch.store)'
      BY <1>0, <2>1, <3>1 DEF IdsOf
    <3> QED
      BY <2>1, <3>2 DEF LaunchHoldsIdentity, IdsOf
  <2> QED
    BY <1>1, <2>1 DEF LaunchHoldsIdentity
<1>2. ASSUME jobs' = jobs PROVE JobsHoldIdentity'
  BY <1>0, <1>2 DEF RegistryInv, JobsHoldIdentity, IdsOf
<1>3. ASSUME NEW id \in Ids, OpenProject(id) PROVE LaunchHoldsIdentity' /\ JobsHoldIdentity'
  <2>1. PICK s \in Candidate(id) :
           launch' = [step |-> "runtime", id |-> id, root |-> registry[id], store |-> s]
    BY <1>3 DEF OpenProject
  <2>2. s \in Stores /\ id \in IdsOf(s)
    BY DEF Candidate, StoreAt, IdsAt, IdsOf
  <2>3. rows' = rows /\ jobs' = jobs
    BY <1>3 DEF OpenProject
  <2> QED
    BY <1>2, <2>1, <2>2, <2>3 DEF LaunchHoldsIdentity, IdsOf
<1>4. CASE GetOrStart
  <2>1. launch' = Idle \/ launch' = [launch EXCEPT !.step = "create"]
    BY <1>4 DEF GetOrStart
  <2>2. /\ launch # Idle
        /\ launch \in [step : {"runtime", "create"}, id : Ids, root : Roots, store : Stores]
    BY <1>4 DEF GetOrStart, RegistryInv, RegistryTypeOK
  <2>3. launch.store \in Stores /\ launch.id \in IdsOf(launch.store)
    BY <2>2 DEF RegistryInv, LaunchHoldsIdentity
  <2>4. ASSUME launch' = [launch EXCEPT !.step = "create"] PROVE LaunchHoldsIdentity'
    <3>1. launch'.store = launch.store /\ launch'.id = launch.id
      BY <2>2, <2>4
    <3> QED
      BY <1>0, <2>3, <3>1 DEF LaunchHoldsIdentity, IdsOf
  <2>5. jobs' = jobs
    BY <1>4 DEF GetOrStart
  <2> QED
    BY <1>1, <1>2, <2>1, <2>4, <2>5
<1>5. CASE CreateJob
  <2>1. /\ launch # Idle /\ launch' = Idle /\ rows' = rows
        /\ jobs' = jobs \cup {[id |-> id, asked |-> launch.id, store |-> launch.store] :
                                id \in IdsAt(launch.store, launch.root)}
    BY <1>5 DEF CreateJob
  <2>2. launch.store \in Stores /\ launch.id \in IdsOf(launch.store)
    BY <2>1 DEF Registrations, RegistryInv, RegistryTypeOK, LaunchHoldsIdentity
  <2>3. IdsAt(launch.store, launch.root) \subseteq IdsOf(launch.store)
    BY DEF IdsAt, IdsOf
  <2>4. ASSUME NEW j \in jobs' PROVE j.store \in Stores /\ {j.id, j.asked} \subseteq IdsOf(j.store)
    BY <2>1, <2>2, <2>3 DEF RegistryInv, JobsHoldIdentity
  <2>5. JobsHoldIdentity'
    BY <2>1, <2>4 DEF JobsHoldIdentity, IdsOf
  <2> QED
    BY <1>1, <2>1, <2>5
<1>6. ASSUME NEW root \in Roots, Reconcile(root) \/ OpenStore(root) PROVE UNCHANGED <<launch, jobs>>
  BY <1>6 DEF Reconcile, OpenStore
<1>7. ASSUME \/ Invalidate \/ \E failed \in BOOLEAN : JoinInvalidated(failed)
             \/ WriteProjects \/ Shutdown \/ JoinAll
             \/ \E s \in Stores, root \in Roots : MoveDirectory(s, root)
             \/ UNCHANGED vars
      PROVE  UNCHANGED <<launch, jobs>>
  BY <1>7 DEF Invalidate, JoinInvalidated, WriteProjects, Shutdown, JoinAll, MoveDirectory, vars
<1> QED
  BY <1>1, <1>2, <1>3, <1>4, <1>5, <1>6, <1>7 DEF Next

---------------------------------------------------------------------------------
(* Runtimes. *)

\* The runtimes of a step: none is forgotten, and a join takes what it must.
RuntimesAccounted == NoRuntimeIsForgotten /\ JoinTakesAll

\* A step that touches neither the map nor the registration may end runtimes.
LEMMA FewerRuntimes ==
    ASSUME RegistryInv, live' \subseteq live, UNCHANGED <<runtimes, closing, register>>
    PROVE  RuntimesAccounted'
BY DEF RegistryInv, RuntimesAccounted, NoRuntimeIsForgotten, JoinTakesAll

\* Every step keeps account of the runtimes that run.
LEMMA RuntimesStep == RegistryInv /\ [Next]_vars => RuntimesAccounted'
<1> SUFFICES ASSUME RegistryInv, [Next]_vars PROVE RuntimesAccounted'
  OBVIOUS
<1>0. /\ RegistryTypeOK /\ NoRuntimeIsForgotten /\ JoinTakesAll
      /\ NoRoot \notin Roots
      /\ \A r \in live : r.id \in Ids /\ r.root \in Roots /\ r = Runtime(r.id, r.root)
  BY RegistryAssumption DEF Registrations, RegistryInv, RegistryTypeOK, Runtime
<1>1. ASSUME NEW root \in Roots, Reconcile(root) PROVE RuntimesAccounted'
  <2>1. /\ register = Idle /\ UNCHANGED <<runtimes, live, closing>>
        /\ register' # Idle => register'.step = "read"
    BY <1>1 DEF Reconcile
  <2> QED
    BY <1>0, <2>1 DEF RuntimesAccounted, NoRuntimeIsForgotten, JoinTakesAll
<1>2. CASE Invalidate
  <2>1. /\ register # Idle /\ register.step = "read" /\ register.id \in Ids
        /\ UNCHANGED <<live, closing>>
    BY <1>0, <1>2 DEF Invalidate, Registrations, RegistryTypeOK
  <2>2. register \in [step : {"read", "write"}, id : Ids, root : Roots]
    BY <1>0, <2>1 DEF Registrations, RegistryTypeOK
  <2>3. CASE register' = [register EXCEPT !.step = "write"] /\ UNCHANGED runtimes
    <3>1. register'.step = "write"
      BY <2>2, <2>3
    <3> QED
      BY <1>0, <2>1, <2>3, <3>1 DEF RuntimesAccounted, NoRuntimeIsForgotten, JoinTakesAll
  <2>4. CASE /\ register' = [step |-> "join", id |-> register.id, root |-> register.root,
                             old |-> runtimes[register.id]]
             /\ runtimes' = [runtimes EXCEPT ![register.id] = NoRoot]
    <3>1. /\ register'.step = "join" /\ register'.id = register.id
          /\ register'.old = runtimes[register.id]
      BY <2>4
    <3>2. \A i \in Ids : runtimes'[i] = IF i = register.id THEN NoRoot ELSE runtimes[i]
      BY <1>0, <2>4 DEF Registrations, RegistryTypeOK
    <3>3. ASSUME NEW r \in live, ~closing
          PROVE  /\ runtimes'[r.id] = r.root \/ r.id = register.id
                 /\ r.id = register.id => r.root = register'.old
      <4>1. runtimes[r.id] = r.root
        BY <1>0, <2>1, <3>3 DEF NoRuntimeIsForgotten
      <4> QED
        BY <1>0, <3>1, <3>2, <4>1
    <3>4. closing => \A i \in Ids : runtimes'[i] = NoRoot
      BY <1>0, <3>2 DEF NoRuntimeIsForgotten
    <3>5. register' # Idle
      <4>1. register' \in Registrations
        BY <1>0, <2>1, <2>2, <2>4 DEF Registrations, RegistryTypeOK
      <4> QED
        BY <4>1, IdleAssumption
    <3> QED
      BY <2>1, <3>1, <3>3, <3>4, <3>5 DEF RuntimesAccounted, NoRuntimeIsForgotten, JoinTakesAll
  <2> QED
    BY <1>2, <2>3, <2>4 DEF Invalidate
<1>3. ASSUME NEW failed \in BOOLEAN, JoinInvalidated(failed) PROVE RuntimesAccounted'
  <2>1. /\ register # Idle /\ register.step = "join"
        /\ live' = live \ {Runtime(register.id, register.old)}
        /\ register' = Idle \/ register' = [step |-> "write", id |-> register.id, root |-> register.root]
        /\ UNCHANGED <<runtimes, closing>>
    BY <1>3 DEF JoinInvalidated
  <2>2. register' # Idle => register'.step = "write"
    BY <2>1
  <2>3. ASSUME NEW r \in live', ~closing PROVE runtimes[r.id] = r.root
    <3>1. CASE r.id = register.id
      <4>1. r.root # register.old
        BY <1>0, <2>1, <2>3, <3>1
      <4> QED
        BY <1>0, <2>1, <2>3, <3>1, <4>1 DEF JoinTakesAll
    <3>2. CASE r.id # register.id
      BY <1>0, <2>1, <2>3, <3>2 DEF NoRuntimeIsForgotten
    <3> QED
      BY <3>1, <3>2
  <2> QED
    BY <1>0, <2>1, <2>2, <2>3 DEF RuntimesAccounted, NoRuntimeIsForgotten, JoinTakesAll
<1>4. CASE WriteProjects
  <2>1. /\ register # Idle /\ register.step = "write" /\ register' = Idle
        /\ UNCHANGED <<runtimes, live, closing>>
    BY <1>4 DEF WriteProjects
  <2> QED
    BY <1>0, <2>1 DEF RuntimesAccounted, NoRuntimeIsForgotten, JoinTakesAll
<1>5. CASE GetOrStart
  <2>1. CASE UNCHANGED <<runtimes, live>>
    BY <1>5, <2>1, FewerRuntimes DEF GetOrStart
  <2>2. CASE /\ ~closing /\ runtimes[launch.id] = NoRoot
             /\ runtimes' = [runtimes EXCEPT ![launch.id] = launch.root]
             /\ live' = live \cup {Runtime(launch.id, launch.root)}
    <3>1. launch.id \in Ids /\ launch.root \in Roots /\ UNCHANGED <<closing, register>>
      BY <1>0, <1>5 DEF RegistryTypeOK, GetOrStart
    <3>2. \A i \in Ids : runtimes'[i] = IF i = launch.id THEN launch.root ELSE runtimes[i]
      BY <1>0, <2>2 DEF RegistryTypeOK
    <3>3. ASSUME NEW r \in live', r \notin live PROVE runtimes'[r.id] = r.root
      BY <2>2, <3>1, <3>2, <3>3 DEF Runtime
    <3>4. ASSUME NEW r \in live, runtimes[r.id] = r.root PROVE runtimes'[r.id] = r.root
      BY <1>0, <2>2, <3>2, <3>4
    <3> QED
      BY <1>0, <2>2, <3>1, <3>3, <3>4 DEF RuntimesAccounted, NoRuntimeIsForgotten, JoinTakesAll
  <2> QED
    BY <1>5, <2>1, <2>2 DEF GetOrStart
<1>6. CASE Shutdown
  <2>1. closing' = TRUE /\ runtimes' = [id \in Ids |-> NoRoot]
    BY <1>6 DEF Shutdown
  <2> QED
    BY <2>1 DEF RuntimesAccounted, NoRuntimeIsForgotten, JoinTakesAll
<1>7. CASE JoinAll
  <2>1. live' \subseteq live /\ UNCHANGED <<runtimes, closing, register>>
    BY <1>7 DEF JoinAll
  <2> QED
    BY <2>1, FewerRuntimes
<1>8. ASSUME NEW root \in Roots, OpenStore(root) PROVE RuntimesAccounted'
  BY <1>8, FewerRuntimes DEF OpenStore
<1>9. ASSUME \/ \E id \in Ids : OpenProject(id)
             \/ CreateJob
             \/ \E s \in Stores, root \in Roots : MoveDirectory(s, root)
             \/ UNCHANGED vars
      PROVE  UNCHANGED <<runtimes, live, closing, register>>
  BY <1>9 DEF OpenProject, CreateJob, MoveDirectory, vars
<1>10. CASE UNCHANGED <<runtimes, live, closing, register>>
  BY <1>10, FewerRuntimes
<1> QED
  BY <1>1, <1>2, <1>3, <1>4, <1>5, <1>6, <1>7, <1>8, <1>9, <1>10 DEF Next

---------------------------------------------------------------------------------
(* The invariant, and what it gives. *)

\* The system starts from one store with one identity, and no runtime.
LEMMA InitRegistry == Init => RegistryInv
<1> SUFFICES ASSUME Init PROVE RegistryInv
  OBVIOUS
<1>1. RowsAreMinted
  <2>1. 1 \in Ids /\ minted = 1 /\ DOMAIN rows = Stores
    BY RegistryAssumption DEF Init, Ids
  <2>2. \A s \in Stores : \A r \in rows[s] : r.id = 1
    BY DEF Init, Row
  <2> QED
    BY <2>1, <2>2 DEF RowsAreMinted, IdsOf
<1>2. RegistryTypeOK
  BY DEF Init, RegistryTypeOK
<1> QED
  BY <1>1, <1>2 DEF Init, RegistryInv, LaunchHoldsIdentity, JobsHoldIdentity,
                    NoRuntimeIsForgotten, JoinTakesAll

\* Whatever moves, registers, launches or shuts down: rows name minted identities, a
\* launch and its Job hold to the store of their identity, and the map, a join or the
\* shutdown answers for every runtime (canonical_control.rs, execution_runtime.rs).
THEOREM RegistryInvariant == Spec => []RegistryInv
<1>1. RegistryInv /\ [Next]_vars => RegistryInv'
  BY StepKeepsRows, RegistryTypeStep, LaunchStep, RuntimesStep
     DEF RegistryInv, RowsKeep, RuntimesAccounted
<1> QED
  BY InitRegistry, <1>1, PTL DEF Spec

\* A Job is created in a store that holds the identity it was launched for, and every
\* runtime whose workers run is in the map or in the hands of who will join it.
THEOREM MovedProjectsKeep == Spec => []MovedProjectsKeepTheirWork
<1>1. RegistryInv => MovedProjectsKeepTheirWork
  BY DEF RegistryInv, JobsHoldIdentity, IdsOf, MovedProjectsKeepTheirWork, LaunchesStayInTheirStore
<1> QED
  BY RegistryInvariant, <1>1, PTL

\* register_project gives no second identity to a store that holds one: a moved
\* Project keeps its own, at its new root (reconcile_project).
THEOREM RegistrationsKeepIdentity == Spec => RegistrationKeepsIdentity
<1>1. ASSUME RegistryInv, [Next]_vars
      PROVE  [register = Idle /\ register' # Idle =>
                \A s \in Stores : rows[s] # {} =>
                   {r.id : r \in rows'[s]} = {r.id : r \in rows[s]}]_vars
  <2> SUFFICES ASSUME register = Idle, register' # Idle
               PROVE  \A s \in Stores : rows[s] # {} =>
                         {r.id : r \in rows'[s]} = {r.id : r \in rows[s]}
    OBVIOUS
  <2>1. ASSUME NEW root \in Roots, Reconcile(root)
        PROVE  \A s \in Stores : rows[s] # {} =>
                  {r.id : r \in rows'[s]} = {r.id : r \in rows[s]}
    <3>1. PICK s \in Stores : ReconcileProject(s, root)
      BY <2>1 DEF Reconcile, StoreAt
    <3> QED
      BY <1>1, <3>1, ReconcileKeepsRows DEF RegistryInv, IdsOf
  <2>2. ~(\E root \in Roots : Reconcile(root)) => FALSE
    BY <1>1 DEF Next, vars, OpenStore, Invalidate, JoinInvalidated, WriteProjects, OpenProject,
                GetOrStart, CreateJob, Shutdown, JoinAll, MoveDirectory
  <2> QED
    BY <2>1, <2>2
<1> QED
  BY RegistryInvariant, <1>1, PTL DEF Spec, RegistrationKeepsIdentity

---------------------------------------------------------------------------------
(* The repository context: files are numbers, in the order they sort. *)

\* A set of numbers has a least one.
LEMMA NatHasLeast ==
    ASSUME NEW T \in SUBSET Nat, T # {}
    PROVE  \E x \in T : \A y \in T : x <= y
<1> DEFINE R == {ss \in Nat \X Nat : ss[1] < ss[2]}
<1>1. IsWellFoundedOn(R, Nat)
  BY NatLessThanWellFounded DEF OpToRel
<1>2. PICK x \in T : \A y \in T : <<y, x>> \notin R
  <2> HIDE DEF R
  <2> QED
    BY <1>1, WFMin
<1>3. \A y \in T : ~(y < x)
  BY <1>2
<1> QED
  BY <1>2, <1>3

States == {"none", "head", "status", "blobs", "walk", "index", "lookup", "validate", "trust",
           "diff", "select", "sources", "done"}

\* What is on disk has been seen, and nothing is served before the call ends.
SeenInv ==
    /\ pc \in States
    /\ Context!Calling => (\A f \in Files : disk[f] \in seen[f]) /\ served = {}
    /\ pc = "none" => served = {}

\* Symbols are of the content whose hash identifies the file, in the index that is saved and
\* in the one that is made.
HashedAreOwn(i) == \A f \in DOMAIN i : i[f].fp[1] = "sha" => i[f].symbols.of = i[f].fp[2]
WithinLimit(i, n) == \A f \in DOMAIN i : i[f].symbols.n <= n
IndexInv ==
    /\ limit \in Nat /\ HashedAreOwn(index) /\ HashedAreOwn(draft)
    /\ pc = "index" => WithinLimit(draft, limit)
    /\ pc = "lookup" => WithinLimit(index, limit)

\* A plan says of HEAD and of each changed path what a snapshot says.
IsPlan(p) ==
    /\ p = [head |-> p.head, status |-> p.status, hunks |-> p.hunks, slices |-> p.slices, sources |-> p.sources]
    /\ DOMAIN p.slices \subseteq Files /\ DOMAIN p.sources \subseteq Files
OfSnapshot(p, h, status) ==
    /\ p.head = h
    /\ \A f \in Files : status[f] = "modified" <=> (f \in DOMAIN p.status /\ p.status[f] = "modified")
    /\ \A f \in Files : status[f] = "deleted" <=> (f \in DOMAIN p.status /\ p.status[f] = "deleted")

\* Only what the call has seen passes validation, and only what passed is served.
SourceSeen(p, f) == p.sources[f] \in seen[f]
SliceSeen(p, f) == \E c \in seen[f] \ {Context!Absent} : p.slices[f] = Context!Top(c)
PlanInv ==
    /\ IsPlan(plan) /\ \A e \in cache : IsPlan(e.plan) /\ OfSnapshot(e.plan, e.key.head, e.key.status)
    /\ pc = "sources" => todo \subseteq Files
    /\ pc \in {"validate", "trust", "select", "sources"} => OfSnapshot(plan, snap.head, snap.status)
    /\ pc = "validate" => \A f \in DOMAIN plan.sources \ todo : SourceSeen(plan, f)
    /\ pc = "trust" => /\ \A f \in DOMAIN plan.sources : SourceSeen(plan, f)
                       /\ \A f \in DOMAIN plan.slices \ todo : SliceSeen(plan, f)
ServedInv ==
    \A p \in served : /\ IsPlan(p) /\ OfSnapshot(p, snap.head, snap.status)
                      /\ \A f \in DOMAIN p.sources : SourceSeen(p, f)
                      /\ \A f \in DOMAIN p.slices : SliceSeen(p, f)

ContextInv == SeenInv /\ IndexInv /\ PlanInv /\ ServedInv

\* What has been seen stays seen, and a change of the tree is seen.
LEMMA ChangesAreSeen ==
    ASSUME SeenInv, NEW d, Context!Becomes(d), UNCHANGED <<pc, served>>
    PROVE  /\ SeenInv'
           /\ \A f \in Files : seen[f] \subseteq seen'[f]
<1>1. /\ disk' = d
      /\ seen' = [f \in Files |-> IF Context!Calling THEN seen[f] \cup {d[f]} ELSE seen[f]]
  BY DEF Context!Becomes
<1>2. Context!Calling' = Context!Calling
  BY DEF Context!Calling
<1>3. \A f \in Files : seen'[f] = IF Context!Calling THEN seen[f] \cup {d[f]} ELSE seen[f]
  BY <1>1
<1>4. Context!Calling => \A f \in Files : disk'[f] \in seen'[f]
  BY <1>1, <1>3
<1>5. \A f \in Files : seen[f] \subseteq seen'[f]
  BY <1>3
<1> QED
  BY <1>2, <1>4, <1>5 DEF SeenInv

\* What a plan needs to have been seen has been when more has.
LEMMA SeenIsMonotone ==
    ASSUME \A f \in Files : seen[f] \subseteq seen'[f]
    PROVE  \A p : \A f \in Files : /\ SourceSeen(p, f) => p.sources[f] \in seen'[f]
                                   /\ SliceSeen(p, f) => \E c \in seen'[f] \ {Context!Absent} : p.slices[f] = Context!Top(c)
BY DEF SourceSeen, SliceSeen

\* Edits, commits and resets.
LEMMA TreeSteps ==
    ASSUME ContextInv, UNCHANGED <<index, cache, pc, limit, snap, map, todo, draft, plan, served>>,
           \/ \E d : Context!Becomes(d)
           \/ UNCHANGED <<disk, seen>>
    PROVE  ContextInv'
<1>1. SeenInv' /\ \A f \in Files : seen[f] \subseteq seen'[f]
  <2>1. CASE \E d : Context!Becomes(d)
    BY <2>1, ChangesAreSeen DEF ContextInv
  <2>2. CASE UNCHANGED <<disk, seen>>
    BY <2>2 DEF ContextInv, SeenInv, Context!Calling
  <2> QED
    BY <2>1, <2>2
<1>2. IndexInv'
  BY DEF ContextInv, IndexInv, HashedAreOwn, WithinLimit
<1>3. \A p : \A f \in Files : /\ SourceSeen(p, f) => p.sources[f] \in seen'[f]
                              /\ SliceSeen(p, f) => \E c \in seen'[f] \ {Context!Absent} : p.slices[f] = Context!Top(c)
  BY <1>1, SeenIsMonotone
<1>4. IsPlan(plan) /\ (\A e \in cache : IsPlan(e.plan) /\ OfSnapshot(e.plan, e.key.head, e.key.status))
      /\ (pc = "sources" => todo \subseteq Files)
      /\ (pc \in {"validate", "trust", "select", "sources"} => OfSnapshot(plan, snap.head, snap.status))
  BY DEF ContextInv, PlanInv
<1>5. pc = "validate" => \A f \in DOMAIN plan.sources \ todo : plan.sources[f] \in seen'[f]
  BY <1>3, <1>4 DEF ContextInv, PlanInv, IsPlan
<1>6. pc = "trust" => /\ \A f \in DOMAIN plan.sources : plan.sources[f] \in seen'[f]
                      /\ \A f \in DOMAIN plan.slices \ todo : \E c \in seen'[f] \ {Context!Absent} : plan.slices[f] = Context!Top(c)
  BY <1>3, <1>4 DEF ContextInv, PlanInv, IsPlan
<1>7. PlanInv'
  BY <1>4, <1>5, <1>6 DEF PlanInv, IsPlan, OfSnapshot, SourceSeen, SliceSeen
<1>8. ServedInv'
  <2>1. \A p \in served : /\ IsPlan(p) /\ OfSnapshot(p, snap.head, snap.status)
                          /\ \A f \in DOMAIN p.sources : p.sources[f] \in seen'[f]
                          /\ \A f \in DOMAIN p.slices : \E c \in seen'[f] \ {Context!Absent} : p.slices[f] = Context!Top(c)
    BY <1>3 DEF ContextInv, ServedInv, IsPlan
  <2> QED
    BY <2>1 DEF ServedInv, IsPlan, OfSnapshot, SourceSeen, SliceSeen
<1> QED
  BY <1>1, <1>2, <1>7, <1>8 DEF ContextInv

---------------------------------------------------------------------------------
(* The steps of a call, for each part of the invariant. *)

\* A step of a call that is neither its beginning nor its end leaves the tree as it is.
LEMMA CallKeepsSeen ==
    ASSUME SeenInv, Context!Calling, Context!Calling', pc' \in States, UNCHANGED <<disk, seen, served>>
    PROVE  SeenInv'
BY DEF SeenInv, Context!Calling

\* What is on disk has been seen, at every step.
LEMMA SeenStep ==
    ASSUME ContextInv, [Context!Next]_Context!vars
    PROVE  SeenInv'
<1> USE DEF ContextInv
<1>1. CASE UNCHANGED Context!vars
  <2>1. UNCHANGED <<pc, disk, seen, served>>
    BY <1>1 DEF Context!vars, Context!tree
  <2> QED
    BY <2>1 DEF SeenInv, Context!Calling
<1>2. ASSUME NEW f, NEW c, Context!Edit(f, c) PROVE SeenInv'
  BY <1>2, ChangesAreSeen DEF Context!Edit
<1>3. CASE Context!Commit
  BY <1>3 DEF Context!Commit, SeenInv, Context!Calling
<1>4. ASSUME NEW n, Context!Reset(n) PROVE SeenInv'
  BY <1>4, ChangesAreSeen DEF Context!Reset
<1>5. ASSUME NEW n, Context!Begin(n) PROVE SeenInv'
  <2>1. pc' = "head" /\ served' = {} /\ disk' = disk /\ \A f \in Files : seen'[f] = {disk[f]}
    BY <1>5 DEF Context!Begin, Context!tree
  <2> QED
    BY <2>1 DEF SeenInv, States
<1>6. CASE Context!ReadHead \/ Context!ReadStatus \/ Context!ReadBlobs \/ Context!Walk \/ Context!IndexFile
           \/ Context!SaveIndex \/ Context!Hit \/ Context!Miss \/ Context!ValidSource \/ Context!StaleSource
           \/ Context!Validated \/ Context!TrustedSlice \/ Context!TamperedSlice \/ Context!Diff
           \/ (\E f \in Files : Context!Select(f)) \/ Context!Selected \/ Context!Source
  <2>1. UNCHANGED <<disk, seen, served>> /\ Context!Calling /\ Context!Calling' /\ pc' \in States
    BY <1>6 DEF Context!ReadHead, Context!ReadStatus, Context!ReadBlobs, Context!Walk, Context!IndexFile,
         Context!SaveIndex, Context!Hit, Context!Miss, Context!ValidSource, Context!StaleSource, Context!Validated,
         Context!TrustedSlice, Context!TamperedSlice, Context!Diff, Context!Select, Context!Selected,
         Context!Source, Context!Remove, Context!Advance, Context!tree, Context!Calling, States
  <2> QED
    BY <2>1, CallKeepsSeen
<1>7. CASE Context!Serve \/ Context!Put
  BY <1>7 DEF Context!Serve, Context!Put, SeenInv, Context!Calling, States
<1>8. CASE Context!Die
  <2>1. pc' = "none" /\ served' = served /\ served = {}
    BY <1>8 DEF Context!Die, SeenInv
  <2> QED
    BY <2>1 DEF SeenInv, Context!Calling, States
<1>9. CASE Context!Clean
  BY <1>9 DEF Context!Clean, SeenInv, Context!Calling, Context!tree
<1> QED
  BY <1>1, <1>2, <1>3, <1>4, <1>5, <1>6, <1>7, <1>8, <1>9 DEF Context!Next

\* Indexing: what is kept of a file is of its fingerprint and within the limit, and so is what is made.
LEMMA IndexStep ==
    ASSUME ContextInv, Context!ContentsAssumption, [Context!Next]_Context!vars
    PROVE  IndexInv'
<1>0. IndexInv /\ SeenInv
  BY DEF ContextInv
<1>1. ASSUME UNCHANGED <<limit, index, draft>>, pc' \notin {"index", "lookup"} \/ pc' = pc
      PROVE  IndexInv'
  BY <1>0, <1>1 DEF IndexInv, HashedAreOwn, WithinLimit
<1>2. CASE UNCHANGED Context!vars
  BY <1>1, <1>2 DEF Context!vars, Context!tree, Context!stored
<1>3. CASE \/ \E f, c : Context!Edit(f, c)
           \/ Context!Commit \/ (\E n : Context!Reset(n))
           \/ Context!ReadHead \/ Context!ReadStatus \/ Context!ReadBlobs
           \/ Context!Hit \/ Context!Miss \/ Context!ValidSource \/ Context!StaleSource \/ Context!Validated
           \/ Context!TrustedSlice \/ Context!TamperedSlice \/ Context!Serve
           \/ Context!Diff \/ (\E f : Context!Select(f)) \/ Context!Selected \/ Context!Source \/ Context!Put
           \/ Context!Clean
  BY <1>1, <1>3 DEF Context!Edit, Context!Commit, Context!Reset, Context!ReadHead, Context!ReadStatus,
       Context!ReadBlobs, Context!Hit, Context!Miss, Context!ValidSource, Context!StaleSource, Context!Validated,
       Context!TrustedSlice, Context!TamperedSlice, Context!Serve, Context!Diff, Context!Select,
       Context!Selected, Context!Source, Context!Put, Context!Clean, Context!Remove, Context!Advance,
       Context!tree, Context!stored
<1>4. ASSUME NEW n \in Limits, Context!Begin(n) PROVE IndexInv'
  <2>1. limit' \in Nat /\ index' = index /\ draft' = draft /\ pc' = "head"
    BY <1>4 DEF Context!Begin, Context!stored, Context!ContentsAssumption
  <2> QED
    BY <1>0, <2>1 DEF IndexInv, HashedAreOwn
<1>5. CASE Context!Walk
  <2>1. limit' = limit /\ index' = index /\ DOMAIN draft' = {} /\ pc' = "index"
    BY <1>5 DEF Context!Walk, Context!stored, Context!None
  <2> QED
    BY <1>0, <2>1 DEF IndexInv, HashedAreOwn, WithinLimit
<1>6. CASE Context!IndexFile
  <2> DEFINE f == Context!Least(todo)
             fp == Context!Fingerprint(f)
             kept == {e \in (IF f \in DOMAIN index THEN {index[f]} ELSE {}) : Context!Reusable(e, fp)}
  <2>1. PICK s \in IF map[f] /\ kept # {} THEN {e.symbols : e \in kept} ELSE {Context!Symbols(f)} :
          draft' = [g \in DOMAIN draft \cup {f} |->
                      IF g = f THEN [fp |-> fp, symbols |-> s] ELSE draft[g]]
    BY <1>6 DEF Context!IndexFile
  <2>2. UNCHANGED <<index, limit, pc>> /\ pc = "index"
    BY <1>6 DEF Context!IndexFile, Context!stored
  <2>3. (fp[1] = "sha" => s.of = fp[2]) /\ s.n <= limit
    <3>1. CASE map[f] /\ kept # {}
      <4>1. f \in DOMAIN index /\ index[f].fp = fp /\ index[f].symbols.n <= limit /\ s = index[f].symbols
        <5> HIDE DEF fp, f
        <5> QED
          BY <2>1, <3>1 DEF Context!Reusable
      <4> HIDE DEF fp, f
      <4> QED
        BY <4>1, <1>0 DEF IndexInv, HashedAreOwn
    <3>2. CASE ~(map[f] /\ kept # {})
      <4>1. s = Context!Symbols(f)
        BY <2>1, <3>2
      <4>2. s.n <= limit
        BY <4>1, <1>0 DEF Context!Symbols, IndexInv
      <4>3. fp[1] = "sha" => map[f] /\ disk[f] # Context!Absent /\ fp[2] = disk[f]
        BY DEF Context!Fingerprint
      <4>4. fp[1] = "sha" => s.of = fp[2]
        BY <4>1, <4>3 DEF Context!Symbols
      <4> QED
        BY <4>2, <4>4
    <3> QED
      BY <3>1, <3>2
  <2> HIDE DEF f, fp, kept
  <2>4. \A g \in DOMAIN draft' : draft'[g] = IF g = f THEN [fp |-> fp, symbols |-> s] ELSE draft[g]
    BY <2>1
  <2>5. DOMAIN draft' = DOMAIN draft \cup {f}
    BY <2>1
  <2>6. HashedAreOwn(draft)'
    BY <1>0, <2>3, <2>4, <2>5 DEF IndexInv, HashedAreOwn
  <2>7. WithinLimit(draft, limit)'
    BY <1>0, <2>2, <2>3, <2>4, <2>5 DEF IndexInv, WithinLimit
  <2> QED
    BY <1>0, <2>2, <2>6, <2>7 DEF IndexInv, HashedAreOwn
<1>7. CASE Context!SaveIndex
  <2>1. limit' = limit /\ index' = draft /\ DOMAIN draft' = {} /\ pc = "index" /\ pc' = "lookup"
    BY <1>7 DEF Context!SaveIndex, Context!None
  <2> QED
    BY <1>0, <2>1 DEF IndexInv, HashedAreOwn, WithinLimit
<1>8. CASE Context!Die
  <2>1. limit' = limit /\ index' = index /\ DOMAIN draft' = {} /\ pc' = "none"
    BY <1>8 DEF Context!Die, Context!None, Context!stored
  <2> QED
    BY <1>0, <2>1 DEF IndexInv, HashedAreOwn, WithinLimit
<1> QED
  BY <1>2, <1>3, <1>4, <1>5, <1>6, <1>7, <1>8 DEF Context!Next

\* The parts of the plan's invariant that a step leaves alone with what they are about.
LEMMA PlanKept ==
    ASSUME PlanInv, UNCHANGED <<plan, cache, snap, seen>>,
           pc' = "sources" => todo' \subseteq Files,
           pc' \in {"select", "sources"} => pc \in {"select", "sources"},
           pc' = "validate" => pc = "validate" /\ \A f \in todo \ todo' : f \in DOMAIN plan.sources => SourceSeen(plan, f),
           pc' = "trust" => pc = "trust" /\ \A f \in todo \ todo' : f \in DOMAIN plan.slices => SliceSeen(plan, f)
    PROVE  PlanInv'
<1> USE DEF PlanInv
<1>1. (IsPlan(plan) /\ \A e \in cache : IsPlan(e.plan) /\ OfSnapshot(e.plan, e.key.head, e.key.status))'
  BY DEF IsPlan, OfSnapshot
<1>2. (pc \in {"validate", "trust", "select", "sources"} => OfSnapshot(plan, snap.head, snap.status))'
  BY DEF OfSnapshot
<1>3. \A f : SourceSeen(plan, f) <=> SourceSeen(plan, f)'
  BY DEF SourceSeen
<1>4. \A f : SliceSeen(plan, f) <=> SliceSeen(plan, f)'
  BY DEF SliceSeen
<1>5. (pc = "validate" => \A f \in DOMAIN plan.sources \ todo : SourceSeen(plan, f))'
  BY <1>3
<1>6. (pc = "trust" => /\ \A f \in DOMAIN plan.sources : SourceSeen(plan, f)
                       /\ \A f \in DOMAIN plan.slices \ todo : SliceSeen(plan, f))'
  BY <1>3, <1>4
<1> QED
  BY <1>1, <1>2, <1>5, <1>6

\* A plan put aside, at a step after which no plan is looked at.
LEMMA PlanDropped ==
    ASSUME PlanInv, plan' = Context!NoPlan, cache' \subseteq cache,
           pc' \notin {"validate", "trust", "select", "sources"}
    PROVE  PlanInv'
BY DEF PlanInv, IsPlan, OfSnapshot, Context!NoPlan, Context!None

\* The plan of a call: a hit is of the snapshot and validates, and a plan of its own is of the snapshot.
LEMMA PlanStep ==
    ASSUME ContextInv, Context!ContentsAssumption, [Context!Next]_Context!vars
    PROVE  PlanInv'
<1>0. PlanInv /\ SeenInv
  BY DEF ContextInv
<1>1. CASE UNCHANGED Context!vars
  <2>1. UNCHANGED <<plan, cache, snap, seen, todo, pc>>
    BY <1>1 DEF Context!vars, Context!tree, Context!stored
  <2> QED
    BY <1>0, <2>1, PlanKept DEF PlanInv
<1>2. CASE \/ Context!ReadHead \/ Context!ReadStatus \/ Context!ReadBlobs
  <2>1. UNCHANGED <<plan, cache, seen>> /\ pc' \notin {"validate", "trust", "select", "sources"}
    BY <1>2 DEF Context!ReadHead, Context!ReadStatus, Context!ReadBlobs, Context!tree, Context!stored
  <2> QED
    BY <1>0, <2>1 DEF PlanInv, IsPlan, OfSnapshot
<1>3. CASE Context!Walk \/ Context!IndexFile \/ Context!SaveIndex \/ Context!Miss
  <2>1. UNCHANGED <<plan, cache, seen>> /\ pc' \notin {"validate", "trust", "select", "sources"}
    BY <1>3 DEF Context!Walk, Context!IndexFile, Context!SaveIndex, Context!Miss, Context!tree, Context!stored
  <2> QED
    BY <1>0, <2>1 DEF PlanInv, IsPlan, OfSnapshot
<1>4. ASSUME NEW n, Context!Begin(n) PROVE PlanInv'
  BY <1>0, <1>4, PlanDropped DEF Context!Begin, Context!stored
<1>5. CASE Context!Hit
  <2>1. PICK e \in cache : /\ e.key = Context!Key(snap)
                           /\ plan' = e.plan /\ todo' = Context!Dependencies(e.plan) /\ pc' = "validate"
    BY <1>5 DEF Context!Hit
  <2>2. cache' = cache /\ snap' = snap
    BY <1>5 DEF Context!Hit, Context!stored
  <2>3. e.key.head = snap.head /\ e.key.status = snap.status
    BY <2>1 DEF Context!Key
  <2>4. IsPlan(e.plan) /\ OfSnapshot(e.plan, snap.head, snap.status)
    BY <1>0, <2>3 DEF PlanInv
  <2>5. DOMAIN plan'.sources \ todo' = {}
    BY <2>1 DEF Context!Dependencies
  <2> QED
    BY <1>0, <2>1, <2>2, <2>4, <2>5 DEF PlanInv, IsPlan, OfSnapshot
<1>6. CASE Context!ValidSource
  <2>1. pc = "validate" /\ pc' = pc /\ todo' = todo \ {Context!Least(todo)} /\ UNCHANGED <<plan, cache, snap, seen, disk>>
        /\ disk[Context!Least(todo)] = plan.sources[Context!Least(todo)]
    BY <1>6 DEF Context!ValidSource, Context!Advance, Context!stored, Context!tree
  <2>2. \A f \in DOMAIN plan.sources : f = Context!Least(todo) => SourceSeen(plan, f)
    BY <1>0, <2>1 DEF SeenInv, PlanInv, IsPlan, SourceSeen, Context!Calling
  <2> QED
    BY <1>0, <2>1, <2>2, PlanKept
<1>7. CASE Context!TrustedSlice
  <2>1. pc = "trust" /\ pc' = pc /\ todo' = todo \ {Context!Least(todo)} /\ UNCHANGED <<plan, cache, snap, seen, disk>>
        /\ Context!Current(Context!Least(todo))
    BY <1>7 DEF Context!TrustedSlice, Context!Advance, Context!stored, Context!tree
  <2>2. \A f \in Files : disk[f] \in seen[f]
    BY <1>0, <2>1 DEF SeenInv, Context!Calling
  <2>3. \A f \in DOMAIN plan.slices : f = Context!Least(todo) => SliceSeen(plan, f)
    BY <1>0, <2>1, <2>2 DEF PlanInv, IsPlan, SliceSeen, Context!Current
  <2> QED
    BY <1>0, <2>1, <2>3, PlanKept
<1>8. CASE Context!StaleSource \/ Context!TamperedSlice
  <2>1. plan' = Context!NoPlan /\ cache' \subseteq cache /\ pc' = "diff"
    BY <1>8 DEF Context!StaleSource, Context!TamperedSlice, Context!Remove
  <2> QED
    BY <1>0, <2>1, PlanDropped
<1>9. CASE Context!Validated
  <2>1. pc = "validate" /\ todo = {} /\ pc' = "trust" /\ todo' = DOMAIN plan.slices /\ UNCHANGED <<plan, cache, snap, seen>>
    BY <1>9 DEF Context!Validated, Context!Slices, Context!stored
  <2>2. \A f \in DOMAIN plan.sources : SourceSeen(plan, f)'
    BY <1>0, <2>1 DEF PlanInv, SourceSeen
  <2> QED
    BY <1>0, <2>1, <2>2 DEF PlanInv, IsPlan, OfSnapshot
<1>10. CASE Context!Serve \/ Context!Die
  <2>1. plan' = Context!NoPlan /\ cache' \subseteq cache /\ pc' \in {"none", "done"}
    BY <1>10 DEF Context!Serve, Context!Die, Context!stored
  <2> QED
    BY <1>0, <2>1, PlanDropped
<1>11. CASE Context!Diff
  <2> DEFINE st == [f \in {g \in Files : snap.status[g] # "clean" /\ (Untracked \/ snap.status[g] # "untracked")}
                      |-> snap.status[f]]
  <2>1. PICK hunks : plan' = [Context!NoPlan EXCEPT !.head = snap.head, !.status = st, !.hunks = hunks]
    BY <1>11 DEF Context!Diff
  <2>2. pc' = "select" /\ UNCHANGED <<cache, snap>>
    BY <1>11 DEF Context!Diff, Context!stored
  <2>3. plan' = [head |-> snap.head, status |-> st, hunks |-> hunks, slices |-> Context!None, sources |-> Context!None]
    BY <2>1 DEF Context!NoPlan
  <2>4. DOMAIN Context!None = {}
    BY DEF Context!None
  <2>5. IsPlan(plan')
    <3> HIDE DEF st
    <3> QED
      BY <2>3, <2>4 DEF IsPlan
  <2>6. OfSnapshot(plan', snap.head, snap.status)
    <3>1. plan'.head = snap.head /\ plan'.status = st
      BY <2>3
    <3>2. \A f \in Files : \A k \in {"modified", "deleted"} :
            snap.status[f] = k <=> (f \in DOMAIN st /\ st[f] = k)
      OBVIOUS
    <3> HIDE DEF st
    <3> QED
      BY <3>1, <3>2 DEF OfSnapshot
  <2> QED
    BY <1>0, <2>2, <2>5, <2>6 DEF PlanInv, IsPlan, OfSnapshot
<1>12. ASSUME NEW f \in Files, Context!Select(f) PROVE PlanInv'
  <2>1. pc = "select" /\ pc' = pc /\ UNCHANGED <<cache, snap>>
    BY <1>12 DEF Context!Select, Context!stored
  <2>2. PICK s : plan' = [plan EXCEPT !.slices = s] /\ DOMAIN s \subseteq Files
    <3>1. CASE plan' = plan
      BY <1>0, <3>1 DEF PlanInv, IsPlan
    <3>2. CASE plan' = [plan EXCEPT !.slices = [g \in DOMAIN @ \cup {f} |-> IF g = f THEN Context!Top(disk[f]) ELSE @[g]]]
      <4> DEFINE s == [g \in DOMAIN plan.slices \cup {f} |-> IF g = f THEN Context!Top(disk[f]) ELSE plan.slices[g]]
      <4>1. plan' = [plan EXCEPT !.slices = s]
        BY <3>2
      <4>2. DOMAIN s \subseteq Files
        BY <1>0 DEF PlanInv, IsPlan
      <4> HIDE DEF s
      <4> QED
        BY <4>1, <4>2
    <3> QED
      BY <1>12, <3>1, <3>2 DEF Context!Select
  <2>3. plan' = [head |-> plan.head, status |-> plan.status, hunks |-> plan.hunks, slices |-> s, sources |-> plan.sources]
    BY <1>0, <2>2 DEF PlanInv, IsPlan
  <2>4. IsPlan(plan') /\ OfSnapshot(plan', snap.head, snap.status)
    BY <1>0, <2>1, <2>2, <2>3 DEF PlanInv, IsPlan, OfSnapshot
  <2> QED
    BY <1>0, <2>1, <2>4 DEF PlanInv, IsPlan, OfSnapshot
<1>13. CASE Context!Selected
  <2>1. pc = "select" /\ pc' = "sources" /\ todo' = DOMAIN plan.slices /\ UNCHANGED <<plan, cache, snap, seen>>
    BY <1>13 DEF Context!Selected, Context!stored
  <2> QED
    BY <1>0, <2>1, PlanKept DEF PlanInv, IsPlan
<1>14. CASE Context!Source
  <2> DEFINE f == Context!Least(todo)
  <2>1. pc = "sources" /\ pc' = pc /\ todo # {} /\ todo' = todo \ {f} /\ UNCHANGED <<cache, snap>>
    BY <1>14 DEF Context!Source, Context!stored
  <2>2. f \in Files
    <3>1. todo \in SUBSET Nat
      BY <1>0, <2>1 DEF PlanInv, Context!ContentsAssumption
    <3>2. \E x \in todo : \A y \in todo : x <= y
      BY <2>1, <3>1, NatHasLeast
    <3> QED
      BY <1>0, <2>1, <3>2 DEF Context!Least, PlanInv
  <2>3. PICK s : plan' = [plan EXCEPT !.sources = s] /\ DOMAIN s \subseteq Files
    <3>1. CASE plan' = plan
      BY <1>0, <3>1 DEF PlanInv, IsPlan
    <3>2. CASE plan' = [plan EXCEPT !.sources = [g \in DOMAIN @ \cup {f} |-> IF g = f THEN disk[f] ELSE @[g]]]
      <4> DEFINE s == [g \in DOMAIN plan.sources \cup {f} |-> IF g = f THEN disk[f] ELSE plan.sources[g]]
      <4>1. plan' = [plan EXCEPT !.sources = s]
        BY <3>2
      <4>2. DOMAIN s \subseteq Files
        BY <1>0, <2>2 DEF PlanInv, IsPlan
      <4> HIDE DEF s, f
      <4> QED
        BY <4>1, <4>2
    <3> QED
      BY <1>14, <3>1, <3>2 DEF Context!Source
  <2>4. plan' = [head |-> plan.head, status |-> plan.status, hunks |-> plan.hunks, slices |-> plan.slices, sources |-> s]
    BY <1>0, <2>3 DEF PlanInv, IsPlan
  <2>5. IsPlan(plan') /\ OfSnapshot(plan', snap.head, snap.status)
    BY <1>0, <2>1, <2>3, <2>4 DEF PlanInv, IsPlan, OfSnapshot
  <2> HIDE DEF f
  <2> QED
    BY <1>0, <2>1, <2>5 DEF PlanInv, IsPlan, OfSnapshot
<1>15. CASE Context!Put
  <2> DEFINE entry == [key |-> Context!Key(snap), plan |-> plan]
  <2>1. pc = "sources" /\ pc' = "done" /\ plan' = Context!NoPlan /\ cache' \subseteq cache \cup {entry}
    BY <1>15 DEF Context!Put
  <2>2. IsPlan(entry.plan) /\ OfSnapshot(entry.plan, entry.key.head, entry.key.status)
    BY <1>0, <2>1 DEF PlanInv, Context!Key
  <2>3. \A e \in cache' : IsPlan(e.plan) /\ OfSnapshot(e.plan, e.key.head, e.key.status)
    <3> HIDE DEF entry
    <3> QED
      BY <1>0, <2>1, <2>2 DEF PlanInv
  <2> HIDE DEF entry
  <2> QED
    BY <2>1, <2>3 DEF PlanInv, IsPlan, OfSnapshot, Context!NoPlan, Context!None
<1>16. CASE (\E f, c : Context!Edit(f, c)) \/ Context!Commit \/ \E n : Context!Reset(n)
  <2>1. UNCHANGED <<index, cache, pc, limit, snap, map, todo, draft, plan, served>>
        /\ ((\E d : Context!Becomes(d)) \/ UNCHANGED <<disk, seen>>)
    BY <1>16 DEF Context!Edit, Context!Commit, Context!Reset, Context!stored
  <2> QED
    BY <2>1, TreeSteps DEF ContextInv
<1>17. CASE Context!Clean
  <2>1. UNCHANGED <<plan, snap, pc, todo, seen>> /\ cache' = {}
    BY <1>17 DEF Context!Clean, Context!tree
  <2>2. pc \notin {"validate", "trust", "select", "sources"}
    BY <1>17 DEF Context!Clean, Context!Calling
  <2> QED
    BY <1>0, <2>1, <2>2 DEF PlanInv, IsPlan, OfSnapshot
<1> QED
  BY <1>1, <1>2, <1>3, <1>4, <1>5, <1>6, <1>7, <1>8, <1>9, <1>10, <1>11, <1>12, <1>13, <1>14, <1>15, <1>16, <1>17
     DEF Context!Next

\* What is served is the plan that passed validation, under the snapshot it passed.
LEMMA ServedStep ==
    ASSUME ContextInv, [Context!Next]_Context!vars
    PROVE  ServedInv'
<1>0. ServedInv /\ PlanInv /\ SeenInv
  BY DEF ContextInv
<1>1. ASSUME UNCHANGED <<served, snap, seen>> PROVE ServedInv'
  BY <1>0, <1>1 DEF ServedInv, IsPlan, OfSnapshot, SourceSeen, SliceSeen
<1>2. ASSUME served' = {} PROVE ServedInv'
  BY <1>2 DEF ServedInv
<1>3. CASE UNCHANGED Context!vars
  BY <1>1, <1>3 DEF Context!vars
<1>4. CASE (\E f, c : Context!Edit(f, c)) \/ Context!Commit \/ \E n : Context!Reset(n)
  <2>1. UNCHANGED <<index, cache, pc, limit, snap, map, todo, draft, plan, served>>
        /\ ((\E d : Context!Becomes(d)) \/ UNCHANGED <<disk, seen>>)
    BY <1>4 DEF Context!Edit, Context!Commit, Context!Reset, Context!stored
  <2> QED
    BY <2>1, TreeSteps DEF ContextInv
<1>5. ASSUME NEW n, Context!Begin(n) PROVE ServedInv'
  BY <1>2, <1>5 DEF Context!Begin
<1>6. CASE Context!ReadHead \/ Context!ReadStatus \/ Context!ReadBlobs \/ Context!Die
  <2>1. served' = served /\ Context!Calling
    BY <1>6 DEF Context!ReadHead, Context!ReadStatus, Context!ReadBlobs, Context!Die, Context!Calling
  <2> QED
    BY <1>0, <1>2, <2>1 DEF SeenInv
<1>7. CASE Context!Walk \/ Context!IndexFile
           \/ Context!SaveIndex \/ Context!Hit \/ Context!Miss \/ Context!ValidSource \/ Context!StaleSource
           \/ Context!Validated \/ Context!TrustedSlice \/ Context!TamperedSlice \/ Context!Diff
           \/ (\E f \in Files : Context!Select(f)) \/ Context!Selected \/ Context!Source \/ Context!Put \/ Context!Clean
  BY <1>1, <1>7 DEF Context!Walk, Context!IndexFile,
         Context!SaveIndex, Context!Hit, Context!Miss, Context!ValidSource, Context!StaleSource, Context!Validated,
         Context!TrustedSlice, Context!TamperedSlice, Context!Diff, Context!Select, Context!Selected,
         Context!Source, Context!Put, Context!Clean, Context!Remove, Context!Advance, Context!tree
<1>8. CASE Context!Serve
  <2>1. pc = "trust" /\ todo = {} /\ served' = {plan} /\ UNCHANGED <<snap, seen>>
    BY <1>8 DEF Context!Serve
  <2>2. /\ IsPlan(plan) /\ OfSnapshot(plan, snap.head, snap.status)
        /\ \A f \in DOMAIN plan.sources : SourceSeen(plan, f)
        /\ \A f \in DOMAIN plan.slices : SliceSeen(plan, f)
    BY <1>0, <2>1 DEF PlanInv
  <2> QED
    BY <2>1, <2>2 DEF ServedInv, IsPlan, OfSnapshot, SourceSeen, SliceSeen
<1> QED
  BY <1>3, <1>4, <1>5, <1>6, <1>7, <1>8 DEF Context!Next

\* The invariant of a call, its index and its cache.
LEMMA ContextHolds ==
    ASSUME Context!ContentsAssumption
    PROVE  Context!Spec => []ContextInv
<1>1. Context!Init => ContextInv
  <2> SUFFICES ASSUME Context!Init PROVE ContextInv
    OBVIOUS
  <2>1. pc = "none" /\ limit \in Nat /\ served = {} /\ cache = {} /\ DOMAIN index = {} /\ DOMAIN draft = {}
    BY DEF Context!Init, Context!None, Context!ContentsAssumption
  <2>2. IsPlan(plan)
    BY DEF Context!Init, Context!NoPlan, Context!None, IsPlan
  <2> QED
    BY <2>1, <2>2 DEF ContextInv, SeenInv, IndexInv, PlanInv, ServedInv, States, Context!Calling, HashedAreOwn
<1>2. ContextInv /\ [Context!Next]_Context!vars => ContextInv'
  BY SeenStep, IndexStep, PlanStep, ServedStep DEF ContextInv
<1> QED
  BY <1>1, <1>2, PTL DEF Context!Spec

\* For any repository, edits and limits: what a hit serves is what the repository was at some moment
\* of the call, and an index reused has the symbols of its contents (engine.rs, cache.rs get,
\* freshness.rs validate, index.rs update).
THEOREM ServedContextStaysTheRepositorys ==
    ASSUME Context!ContentsAssumption
    PROVE  Context!Spec => []ServedContextIsTheRepositorys
<1>1. ContextInv => Context!ServedContextIsTheRepositorys
  <2> SUFFICES ASSUME ContextInv PROVE Context!ServedContextIsTheRepositorys
    OBVIOUS
  <2>1. Context!ServedSlicesWereSeen
    BY DEF ContextInv, ServedInv, Context!ServedSlicesWereSeen, SliceSeen
  <2>2. Context!ServedSourcesWereSeen
    BY DEF ContextInv, ServedInv, Context!ServedSourcesWereSeen, SourceSeen
  <2>3. Context!ServedStatusIsTheSnapshots
    BY DEF ContextInv, ServedInv, Context!ServedStatusIsTheSnapshots, OfSnapshot
  <2>4. Context!HashedFilesHaveTheirSymbols /\ Context!SymbolsWithinTheLimit
    BY DEF ContextInv, IndexInv, Context!HashedFilesHaveTheirSymbols, Context!SymbolsWithinTheLimit,
         HashedAreOwn, WithinLimit
  <2> QED
    BY <2>1, <2>2, <2>3, <2>4 DEF Context!ServedContextIsTheRepositorys
<1> QED
  BY <1>1, ContextHolds, PTL DEF ServedContextIsTheRepositorys
=================================================================================
