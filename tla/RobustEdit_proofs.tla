--------------------------- MODULE RobustEdit_proofs ---------------------------
(***************************************************************************)
(* Any number of editors of one file, for any texts and requests: a commit *)
(* is the requested edit of the text that was last looked at, a stale text *)
(* is not repaired, and only a writer without the lock can have an edit    *)
(* replace anything else. What makes it so: an editor between its lock and *)
(* its end is alone, and it carries the resolution of its snapshot.        *)
(***************************************************************************)
EXTENDS RobustEdit, TLAPS

\* The fields of an editor, whatever their values.
IsEditor(x) ==
    x = [pc |-> x.pc, request |-> x.request, snapshot |-> x.snapshot, next |-> x.next,
         recovered |-> x.recovered, retries |-> x.retries, outcome |-> x.outcome]

Working(e) == editor[e].pc \in {"read", "verify", "persist"}
HasResolved(e) == editor[e].pc \in {"verify", "persist"} \/ editor[e].outcome = "applied"

EditTypeOK ==
    /\ editor = [e \in Editors |-> editor[e]]
    /\ \A e \in Editors : IsEditor(editor[e])
    /\ writes \in Nat

\* An editor that reads, looks again or renames holds the lock.
WorkersHoldTheLock == \A e \in Editors : Working(e) => lock = e

\* The temporary file is the resolution of the snapshot, and one that may be committed.
CarriesItsResolution(x) ==
    LET o == Resolve(x.snapshot, x.request)
    IN  x.next = o.text /\ x.recovered = o.recovered /\ ~Refused(x.request, x.snapshot, o)
ResolutionsAreKept == \A e \in Editors : HasResolved(e) => CarriesItsResolution(editor[e])

\* While every writer takes the lock, the text does not change after the second look.
VerifiedTextStays == \A e \in Editors : editor[e].pc = "persist" /\ writes = 0 => editor[e].snapshot = file

EditInv == EditTypeOK /\ WorkersHoldTheLock /\ ResolutionsAreKept /\ VerifiedTextStays

---------------------------------------------------------------------------------
(* An editor's step touches itself and a lock of its own. *)

\* What every step of an editor leaves: the others, the count of outside writes and
\* the lock of another.
OnlyActs(e) ==
    /\ editor' = [d \in Editors |-> editor'[d]]
    /\ \A d \in Editors \ {e} : editor'[d] = editor[d]
    /\ IsEditor(editor'[e]) /\ editor'[e].request = editor[e].request
    /\ writes' = writes

\* Ending keeps what the editor carries and gives back no other editor's lock.
LEMMA EndLeaves ==
    ASSUME EditTypeOK, NEW e \in Editors, NEW outcome, End(e, outcome), writes' = writes
    PROVE  /\ OnlyActs(e) /\ lock' \in {lock, Nobody} /\ (lock' # lock => lock = e)
           /\ editor'[e].pc = "done" /\ editor'[e].outcome = outcome
           /\ editor'[e].snapshot = editor[e].snapshot /\ editor'[e].next = editor[e].next
           /\ editor'[e].recovered = editor[e].recovered
<1>1. editor' = [editor EXCEPT ![e] = [editor[e] EXCEPT !.pc = "done", !.outcome = outcome]]
  BY DEF End
<1>2. IsEditor(editor[e]) /\ editor = [d \in Editors |-> editor[d]]
  BY DEF EditTypeOK
<1>3. /\ editor' = [d \in Editors |-> editor'[d]]
      /\ \A d \in Editors \ {e} : editor'[d] = editor[d]
      /\ editor'[e] = [editor[e] EXCEPT !.pc = "done", !.outcome = outcome]
  BY <1>1, <1>2
<1>4. editor'[e] = [pc |-> "done", request |-> editor[e].request, snapshot |-> editor[e].snapshot,
                    next |-> editor[e].next, recovered |-> editor[e].recovered,
                    retries |-> editor[e].retries, outcome |-> outcome]
  BY <1>2, <1>3 DEF IsEditor
<1>5. IsEditor(editor'[e])
  BY <1>4 DEF IsEditor
<1> QED
  BY <1>3, <1>4, <1>5 DEF OnlyActs, End


\* An editor's step keeps the invariant if it takes no other's lock, writes the file only
\* under its own, and carries a resolution of what it has read.
LEMMA ActingKeepsInv ==
    ASSUME EditInv, NEW e \in Editors, OnlyActs(e),
           lock' # lock => lock \in {e, Nobody},
           file' # file => lock = e,
           Working(e)' => lock' = e,
           HasResolved(e)' => CarriesItsResolution(editor'[e]),
           editor'[e].pc = "persist" /\ writes = 0 => editor'[e].snapshot = file'
    PROVE  EditInv'
<1>1. EditTypeOK'
  BY DEF EditInv, EditTypeOK, OnlyActs
<1>2. ASSUME NEW d \in Editors \ {e}, Working(d)  PROVE  lock = d /\ lock' = d /\ file' = file
  BY <1>2, EditorsAssumption DEF EditInv, WorkersHoldTheLock
<1>3. \A d \in Editors \ {e} : editor'[d] = editor[d]
  BY DEF OnlyActs
<1>4. WorkersHoldTheLock'
  BY <1>2, <1>3 DEF WorkersHoldTheLock, Working
<1>5. ResolutionsAreKept'
  BY <1>3 DEF EditInv, ResolutionsAreKept, HasResolved
<1>6. VerifiedTextStays'
  <2> SUFFICES ASSUME NEW d \in Editors, (editor[d].pc = "persist" /\ writes = 0)'
               PROVE  editor'[d].snapshot = file'
    BY DEF VerifiedTextStays
  <2>1. writes = 0
    BY DEF OnlyActs
  <2>2. CASE d = e
    BY <2>1, <2>2
  <2>3. CASE d # e
    BY <1>2, <1>3, <2>1, <2>3 DEF EditInv, VerifiedTextStays, Working
  <2> QED
    BY <2>2, <2>3
<1> QED
  BY <1>1, <1>4, <1>5, <1>6 DEF EditInv

\* An editor that ends keeps the invariant, and has applied nothing it had not resolved.
LEMMA EndKeepsInv ==
    ASSUME EditInv, NEW e \in Editors, NEW outcome, End(e, outcome), writes' = writes,
           outcome = "applied" => HasResolved(e),
           file' # file => lock = e
    PROVE  EditInv'
<1>1. EditTypeOK
  BY DEF EditInv
<1>2. /\ OnlyActs(e) /\ lock' \in {lock, Nobody} /\ (lock' # lock => lock = e)
      /\ editor'[e].pc = "done" /\ editor'[e].outcome = outcome
      /\ editor'[e].snapshot = editor[e].snapshot /\ editor'[e].next = editor[e].next
      /\ editor'[e].recovered = editor[e].recovered
  BY <1>1, EndLeaves, Zenon
<1>3. HasResolved(e)' => CarriesItsResolution(editor'[e])
  <2> SUFFICES ASSUME HasResolved(e)'  PROVE  CarriesItsResolution(editor'[e])
    OBVIOUS
  <2>1. outcome = "applied"
    BY <1>2 DEF HasResolved
  <2>2. CarriesItsResolution(editor[e])
    BY <2>1 DEF EditInv, ResolutionsAreKept
  <2>3. editor'[e].request = editor[e].request
    BY <1>2 DEF OnlyActs
  <2> QED
    BY <1>2, <2>2, <2>3, Zenon DEF CarriesItsResolution
<1>4. ~Working(e)' /\ ~(editor'[e].pc = "persist")
  BY <1>2 DEF Working
<1> QED
  BY <1>2, <1>3, <1>4, ActingKeepsInv

---------------------------------------------------------------------------------
(* The steps. *)

\* Taking the free lock.
LEMMA LockKeepsInv ==
    ASSUME EditInv, NEW e \in Editors, Lock(e)
    PROVE  EditInv'
<1>1. IsEditor(editor[e]) /\ editor = [d \in Editors |-> editor[d]]
  BY DEF EditInv, EditTypeOK
<1>2. editor' = [editor EXCEPT ![e] = [editor[e] EXCEPT !.pc = "read"]]
  BY DEF Lock
<1>3. /\ editor' = [d \in Editors |-> editor'[d]]
      /\ \A d \in Editors \ {e} : editor'[d] = editor[d]
      /\ editor'[e] = [editor[e] EXCEPT !.pc = "read"]
  BY <1>1, <1>2
<1>4. editor'[e] = [pc |-> "read", request |-> editor[e].request, snapshot |-> editor[e].snapshot,
                    next |-> editor[e].next, recovered |-> editor[e].recovered,
                    retries |-> editor[e].retries, outcome |-> editor[e].outcome]
  BY <1>1, <1>3 DEF IsEditor
<1>5. IsEditor(editor'[e])
  BY <1>4 DEF IsEditor
<1>6. OnlyActs(e)
  BY <1>3, <1>4, <1>5 DEF OnlyActs, Lock
<1>7. HasResolved(e)' => CarriesItsResolution(editor'[e])
  <2>1. HasResolved(e)' => HasResolved(e)
    BY <1>4 DEF HasResolved
  <2>2. CarriesItsResolution(editor[e]) => CarriesItsResolution(editor'[e])
    BY <1>4 DEF CarriesItsResolution
  <2> QED
    BY <2>1, <2>2 DEF EditInv, ResolutionsAreKept
<1>8. lock = Nobody /\ lock' = e /\ file' = file /\ editor'[e].pc = "read"
  BY <1>4 DEF Lock
<1> QED
  BY <1>6, <1>7, <1>8, ActingKeepsInv DEF Working


\* Reading: the snapshot's resolution is carried on only if it may be committed.
LEMMA ReadKeepsInv ==
    ASSUME EditInv, NEW e \in Editors, Read(e)
    PROVE  EditInv'
<1> DEFINE r == editor[e].request
           o == Resolve(file, r)
<1>0. editor[e].pc = "read" /\ file' = file /\ writes' = writes
  BY DEF Read
<1>1. CASE Refused(r, file, o)
  <2>1. End(e, "refused")
    BY <1>1 DEF Read
  <2> QED
    BY <1>0, <2>1, EndKeepsInv
<1>2. CASE ~Refused(r, file, o)
  <2>1. IsEditor(editor[e]) /\ editor = [d \in Editors |-> editor[d]]
    BY DEF EditInv, EditTypeOK
  <2>2. /\ editor' = [editor EXCEPT ![e] = [editor[e] EXCEPT
                          !.pc = "verify", !.snapshot = file, !.next = o.text, !.recovered = o.recovered]]
        /\ lock' = lock
    BY <1>2 DEF Read
  <2>3. /\ editor' = [d \in Editors |-> editor'[d]]
        /\ \A d \in Editors \ {e} : editor'[d] = editor[d]
        /\ editor'[e] = [editor[e] EXCEPT
                            !.pc = "verify", !.snapshot = file, !.next = o.text, !.recovered = o.recovered]
    BY <2>1, <2>2
  <2> HIDE DEF o
  <2>4. editor'[e] = [pc |-> "verify", request |-> r, snapshot |-> file, next |-> o.text,
                      recovered |-> o.recovered, retries |-> editor[e].retries,
                      outcome |-> editor[e].outcome]
    BY <2>1, <2>3 DEF IsEditor
  <2>5. IsEditor(editor'[e])
    BY <2>4 DEF IsEditor
  <2>6. OnlyActs(e)
    BY <1>0, <2>3, <2>4, <2>5 DEF OnlyActs
  <2>7. CarriesItsResolution(editor'[e])
    BY <1>2, <2>4 DEF CarriesItsResolution, o
  <2>8. lock = e
    BY <1>0 DEF EditInv, WorkersHoldTheLock, Working
  <2>9. editor'[e].pc = "verify"
    BY <2>4
  <2> QED
    BY <1>0, <2>2, <2>6, <2>7, <2>8, <2>9, ActingKeepsInv, Zenon
<1> QED
  BY <1>1, <1>2

\* Looking again: on to the rename with the same text, back to reading, or the end.
LEMMA VerifyKeepsInv ==
    ASSUME EditInv, NEW e \in Editors, Verify(e)
    PROVE  EditInv'
<1>0. editor[e].pc = "verify" /\ file' = file /\ writes' = writes
  BY DEF Verify
<1>1. IsEditor(editor[e]) /\ editor = [d \in Editors |-> editor[d]]
  BY DEF EditInv, EditTypeOK
<1>2. lock = e /\ CarriesItsResolution(editor[e])
  BY <1>0 DEF EditInv, WorkersHoldTheLock, Working, ResolutionsAreKept, HasResolved
<1>3. CASE End(e, "concurrent")
  BY <1>0, <1>3, EndKeepsInv
<1>4. ASSUME NEW pc, NEW retries, lock' = lock,
             editor' = [editor EXCEPT ![e] = [editor[e] EXCEPT !.pc = pc, !.retries = retries]],
             pc = "read" \/ (pc = "persist" /\ file = editor[e].snapshot)
      PROVE  EditInv'
  <2>1. /\ editor' = [d \in Editors |-> editor'[d]]
        /\ \A d \in Editors \ {e} : editor'[d] = editor[d]
        /\ editor'[e] = [editor[e] EXCEPT !.pc = pc, !.retries = retries]
    BY <1>1, <1>4
  <2>2. editor'[e] = [pc |-> pc, request |-> editor[e].request, snapshot |-> editor[e].snapshot,
                      next |-> editor[e].next, recovered |-> editor[e].recovered,
                      retries |-> retries, outcome |-> editor[e].outcome]
    BY <1>1, <2>1 DEF IsEditor
  <2>3. IsEditor(editor'[e])
    BY <2>2 DEF IsEditor
  <2>4. OnlyActs(e)
    BY <1>0, <2>1, <2>2, <2>3 DEF OnlyActs
  <2>5. CarriesItsResolution(editor'[e])
    BY <1>2, <2>2 DEF CarriesItsResolution
  <2>6. editor'[e].pc = "persist" => editor'[e].snapshot = file'
    BY <1>0, <1>4, <2>2
  <2> QED
    BY <1>0, <1>2, <1>4, <2>4, <2>5, <2>6, ActingKeepsInv
<1>5. CASE file = editor[e].snapshot
  <2>1. editor' = [editor EXCEPT ![e] = [editor[e] EXCEPT !.pc = "persist"]] /\ lock' = lock
    BY <1>5 DEF Verify
  <2>2. [editor[e] EXCEPT !.pc = "persist"] = [editor[e] EXCEPT !.pc = "persist", !.retries = editor[e].retries]
    BY <1>1 DEF IsEditor
  <2> QED
    BY <1>4, <1>5, <2>1, <2>2
<1>6. CASE file # editor[e].snapshot /\ ~End(e, "concurrent")
  <2> DEFINE more == editor[e].retries + 1
  <2>1. editor' = [editor EXCEPT ![e] = [editor[e] EXCEPT !.pc = "read", !.retries = more]] /\ lock' = lock
    BY <1>6 DEF Verify
  <2> HIDE DEF more
  <2> QED
    BY <1>4, <2>1
<1> QED
  BY <1>3, <1>5, <1>6

\* Renaming, under the lock, and ending.
LEMMA PersistKeepsInv ==
    ASSUME EditInv, NEW e \in Editors, Persist(e)
    PROVE  EditInv'
<1>1. lock = e /\ HasResolved(e) /\ writes' = writes
  BY DEF Persist, EditInv, WorkersHoldTheLock, Working, HasResolved
<1>2. End(e, "applied") \/ End(e, "failed")
  BY DEF Persist
<1> QED
  BY <1>1, <1>2, EndKeepsInv

\* Failing, at any step.
LEMMA FailKeepsInv ==
    ASSUME EditInv, NEW e \in Editors, Fail(e)
    PROVE  EditInv'
<1>1. End(e, "failed") /\ writes' = writes /\ file' = file
  BY DEF Fail
<1> QED
  BY <1>1, EndKeepsInv

\* A writer that ignores the lock is counted.
LEMMA OutsideKeepsInv ==
    ASSUME EditInv, NEW text \in Texts, OutsideWrite(text)
    PROVE  EditInv'
<1>1. writes \in Nat /\ writes' = writes + 1 /\ lock' = lock /\ editor' = editor
  BY DEF OutsideWrite, EditInv, EditTypeOK
<1>2. writes' \in Nat /\ writes' # 0
  BY <1>1
<1> QED
  BY <1>1, <1>2 DEF EditInv, EditTypeOK, WorkersHoldTheLock, Working, ResolutionsAreKept, HasResolved,
     VerifiedTextStays

---------------------------------------------------------------------------------
(* The theorems. *)

\* Nobody works, and nothing is resolved, at first.
LEMMA EditInvInit == Init => EditInv
<1> SUFFICES ASSUME Init  PROVE EditInv
  OBVIOUS
<1>1. PICK req \in [Editors -> UNION {RequestsOf[e] : e \in Editors}] :
        editor = [e \in Editors |-> [pc |-> "lock", request |-> req[e], snapshot |-> NoText,
                                     next |-> NoText, recovered |-> FALSE, retries |-> 0, outcome |-> "none"]]
  BY DEF Init
<1>2. EditTypeOK
  BY <1>1 DEF EditTypeOK, IsEditor, Init
<1>3. \A e \in Editors : ~Working(e) /\ ~HasResolved(e)
  BY <1>1 DEF Working, HasResolved
<1> QED
  BY <1>2, <1>3 DEF EditInv, WorkersHoldTheLock, ResolutionsAreKept, VerifiedTextStays, Working

\* Every step of an editor or of another writer keeps the invariant.
LEMMA EditInvNext == EditInv /\ [Next]_vars => EditInv'
<1> SUFFICES ASSUME EditInv, [Next]_vars  PROVE EditInv'
  OBVIOUS
<1>1. CASE UNCHANGED vars
  BY <1>1 DEF vars, EditInv, EditTypeOK, WorkersHoldTheLock, Working, ResolutionsAreKept, HasResolved,
     VerifiedTextStays
<1>2. ASSUME NEW e \in Editors, Step(e) \/ Fail(e)  PROVE EditInv'
  BY <1>2, LockKeepsInv, ReadKeepsInv, VerifyKeepsInv, PersistKeepsInv, FailKeepsInv DEF Step
<1>3. ASSUME NEW text \in Texts, OutsideWrite(text)  PROVE EditInv'
  BY <1>3, OutsideKeepsInv
<1> QED
  BY <1>1, <1>2, <1>3 DEF Next

\* Through every retry and interleaving an editor at work holds the lock and carries
\* the resolution of the text it has read last (apply_inner).
THEOREM EditInvariant == Spec => []EditInv
<1> QED
  BY EditInvInit, EditInvNext, PTL DEF Spec

\* What is renamed onto the file is the requested edit of the text the editor looked
\* at last, whatever others did in between (apply_inner's loop).
THEOREM CommitsFitTheirText == Spec => []EditsFitTheirText
<1>1. EditInv => EditsFitTheirText
  BY DEF EditInv, ResolutionsAreKept, HasResolved, CarriesItsResolution, EditsFitTheirText
<1> QED
  BY <1>1, EditInvariant, PTL

\* An edit of another text than the expected one was found letter for letter, and was no
\* append ("no additional semantic recovery on a stale snapshot").
THEOREM StaleCommitsAreExact == Spec => []StaleEditsAreExact
<1>1. EditInv => StaleEditsAreExact
  <2> SUFFICES ASSUME EditInv, NEW e \in Editors, editor[e].outcome = "applied",
                      Stale(editor[e].request, editor[e].snapshot)
               PROVE  editor[e].request.kind # "append" /\ ~editor[e].recovered
    BY DEF StaleEditsAreExact
  <2>1. CarriesItsResolution(editor[e])
    BY DEF EditInv, ResolutionsAreKept, HasResolved
  <2> QED
    BY <2>1 DEF CarriesItsResolution, Refused
<1> QED
  BY <1>1, EditInvariant, PTL

\* While every writer takes the lock, a rename replaces exactly the text it was made
\* from: no number of editors, in no order, lose one another's edits (lock_exclusive).
THEOREM NoEditorLosesAnothersEdit == Spec => [][writes = 0 => ReplacesItsSnapshot]_vars
<1>1. ASSUME EditInv, [Next]_vars, writes = 0  PROVE ReplacesItsSnapshot \/ UNCHANGED vars
  <2> SUFFICES ASSUME NEW e \in Editors, editor[e].pc = "persist", editor'[e].pc = "done",
                      file' # file \/ editor'[e].outcome = "applied"
               PROVE  editor[e].snapshot = file
    BY DEF ReplacesItsSnapshot
  <2> QED
    BY <1>1 DEF EditInv, VerifiedTextStays
<1> QED
  BY <1>1, EditInvariant, PTL DEF Spec
================================================================================
