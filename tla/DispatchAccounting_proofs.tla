------------------------ MODULE DispatchAccounting_proofs ------------------------
(***************************************************************************)
(* The ledger keeps its invariant: money held and settled is in one        *)
(* currency, settled rows are priced as frozen, canonical rows are         *)
(* identified by Call, disposition and reason, and the accumulators are    *)
(* the sums of those rows.  From it, a Call is charged once, only an       *)
(* authority discharges a reservation, and the ledger implements the cap   *)
(* of SpendingCap.                                                         *)
(***************************************************************************)
EXTENDS DispatchAccounting, FiniteSetsExt, FiniteSetTheorems, TLAPS

---------------------------------------------------------------------------------
(* What the ledger's sums are: the sum MapThenSumSet takes over a finite set,   *)
(* one chosen element after another, is the sum over its elements in any order. *)
(* Induction over a finite set is the choice of a smallest exception.           *)

\* The weights are a function: an operator cannot be quantified over.
SumOf(w, S) == MapThenSumSet(LAMBDA x : w[x], S)

Chosen(s) == CHOOSE x \in s : TRUE

\* g sums up every subset of S, chosen element by chosen element.
SumsUp(w, S, g) ==
    g = [s \in SUBSET S |-> IF s = {} THEN 0 ELSE w[Chosen(s)] + g[s \ {Chosen(s)}]]

---------------------------------------------------------------------------------
(* The recursion has one solution. *)

\* A set of subsets of a finite set has a smallest member.
LEMMA SmallestSubset ==
    ASSUME NEW S, IsFiniteSet(S), NEW B, B \subseteq SUBSET S, B # {}
    PROVE  \E T \in B : \A U \in B : U \subseteq T => U = T
<1>1. B \subseteq FiniteSubsetsOf(S)
  BY FS_Subset DEF FiniteSubsetsOf
<1>2. \E T \in B : \A U \in B : <<U, T>> \notin StrictSubsetOrdering(S)
  BY <1>1, FS_StrictSubsetOrderingWellFounded, WFMin
<1> QED
  BY <1>2 DEF StrictSubsetOrdering

\* CHOOSE picks an element of a set that has one.
LEMMA ChosenIsThere == \A s : s # {} => Chosen(s) \in s
BY DEF Chosen

\* Two solutions agree where both are defined.
LEMMA SumsUpAgree ==
    ASSUME NEW w, NEW S, IsFiniteSet(S), NEW T \in SUBSET S, NEW g, NEW h,
           SumsUp(w, S, g), SumsUp(w, T, h)
    PROVE  \A s \in SUBSET T : g[s] = h[s]
<1> DEFINE B == {s \in SUBSET T : g[s] # h[s]}
<1> SUFFICES ASSUME B # {} PROVE FALSE
  OBVIOUS
<1>1. IsFiniteSet(T) /\ B \subseteq SUBSET T
  BY FS_Subset
<1>2. PICK s \in B : \A u \in B : u \subseteq s => u = s
  <2> HIDE DEF B
  <2> QED
    BY <1>1, SmallestSubset
<1>3. s # {}
  <2>1. g[{}] = 0 /\ h[{}] = 0
    BY DEF SumsUp
  <2> QED
    BY <2>1
<1> DEFINE t == s \ {Chosen(s)}
<1>4. t \in SUBSET T /\ t \subseteq s /\ t # s
  BY <1>3, ChosenIsThere
<1>5. g[t] = h[t]
  BY <1>2, <1>4
<1>6. g[s] = w[Chosen(s)] + g[t] /\ h[s] = w[Chosen(s)] + h[t]
  BY <1>3 DEF SumsUp
<1> QED
  BY <1>5, <1>6

\* There is a solution.
LEMMA SumsUpExists ==
    ASSUME NEW w, NEW S, IsFiniteSet(S)
    PROVE  \E g : SumsUp(w, S, g)
<1> DEFINE B == {T \in SUBSET S : ~\E g : SumsUp(w, T, g)}
<1> SUFFICES ASSUME B # {} PROVE FALSE
  OBVIOUS
<1>0. B \subseteq SUBSET S
  OBVIOUS
<1>1. PICK U \in B : \A T \in B : T \subseteq U => T = U
  <2> HIDE DEF B
  <2> QED
    BY <1>0, SmallestSubset
<1> DEFINE G == [T \in SUBSET U |-> CHOOSE g : SumsUp(w, T, g)]
           rest(s) == s \ {Chosen(s)}
           h == [s \in SUBSET U |-> IF s = {} THEN 0 ELSE w[Chosen(s)] + G[rest(s)][rest(s)]]
<1>2. \A T \in SUBSET U : T # U => SumsUp(w, T, G[T]) /\ IsFiniteSet(T)
  <2> SUFFICES ASSUME NEW T \in SUBSET U, T # U PROVE SumsUp(w, T, G[T]) /\ IsFiniteSet(T)
    OBVIOUS
  <2>1. \E g : SumsUp(w, T, g)
    BY <1>1
  <2>2. IsFiniteSet(T)
    BY FS_Subset
  <2> QED
    BY <2>1, <2>2
<1>3. \A s \in SUBSET U : s # {} => rest(s) \in SUBSET s /\ rest(s) # s /\ rest(s) # U
  BY ChosenIsThere
<1>4. ASSUME NEW s \in SUBSET U, s # U PROVE h[s] = G[s][s]
  <2>1. SumsUp(w, s, G[s]) /\ IsFiniteSet(s)
    BY <1>2, <1>4
  <2>2. CASE s = {}
    <3>1. G[s][s] = 0
      BY <2>1, <2>2 DEF SumsUp
    <3> QED
      BY <2>2, <3>1
  <2>3. CASE s # {}
    <3>1. rest(s) \in SUBSET s /\ rest(s) \in SUBSET U /\ SumsUp(w, rest(s), G[rest(s)])
      BY <1>2, <1>3, <2>3
    <3>2. G[s][rest(s)] = G[rest(s)][rest(s)]
      BY <2>1, <3>1, SumsUpAgree
    <3>3. G[s][s] = w[Chosen(s)] + G[s][rest(s)]
      BY <2>1, <2>3 DEF SumsUp
    <3> QED
      BY <2>3, <3>2, <3>3
  <2> QED
    BY <2>2, <2>3
<1>5. SumsUp(w, U, h)
  <2>1. \A s \in SUBSET U : s # {} => h[rest(s)] = G[rest(s)][rest(s)]
    BY <1>3, <1>4
  <2>2. \A s \in SUBSET U : h[s] = IF s = {} THEN 0 ELSE w[Chosen(s)] + h[rest(s)]
    <3> SUFFICES ASSUME NEW s \in SUBSET U
                 PROVE  h[s] = IF s = {} THEN 0 ELSE w[Chosen(s)] + h[rest(s)]
      OBVIOUS
    <3>1. h[s] = IF s = {} THEN 0 ELSE w[Chosen(s)] + G[rest(s)][rest(s)]
      <4> HIDE DEF G, rest
      <4> QED
        BY DEF h
    <3> HIDE DEF h, G, rest
    <3> QED
      BY <2>1, <3>1
  <2>3. h = [s \in SUBSET U |-> h[s]]
    OBVIOUS
  <2> HIDE DEF h, G
  <2> QED
    BY <2>2, <2>3 DEF SumsUp
<1> QED
  BY <1>1, <1>5

\* The library's recursion is that solution.
LEMMA SumIsTheSolution ==
    ASSUME NEW w, NEW S, IsFiniteSet(S), NEW g, SumsUp(w, S, g)
    PROVE  SumOf(w, S) = g[S]
<1> DEFINE iter == CHOOSE h : h = [s \in SUBSET S |-> IF s = {} THEN 0
                                                     ELSE w[Chosen(s)] + h[s \ {Chosen(s)}]]
<1>1. SumOf(w, S) = iter[S]
  BY DEF SumOf, MapThenSumSet, MapThenFoldSet, Chosen
<1>2. SumsUp(w, S, iter)
  BY DEF SumsUp
<1> QED
  BY <1>1, <1>2, SumsUpAgree

---------------------------------------------------------------------------------
(* Sums. *)

\* A sum over nothing is zero.
LEMMA SumEmpty == \A w : SumOf(w, {}) = 0
<1> SUFFICES ASSUME NEW w PROVE SumOf(w, {}) = 0
  OBVIOUS
<1>1. IsFiniteSet({})
  BY FS_EmptySet
<1>2. PICK g : SumsUp(w, {}, g)
  BY <1>1, SumsUpExists
<1>3. g[{}] = 0
  BY <1>2 DEF SumsUp
<1> QED
  BY <1>1, <1>2, <1>3, SumIsTheSolution

\* A sum is its chosen element plus the sum of the rest.
LEMMA SumChosen ==
    ASSUME NEW w, NEW S, IsFiniteSet(S), S # {}
    PROVE  SumOf(w, S) = w[Chosen(S)] + SumOf(w, S \ {Chosen(S)})
<1> DEFINE T == S \ {Chosen(S)}
<1>1. IsFiniteSet(T) /\ T \in SUBSET S
  BY FS_Subset
<1>2. PICK g : SumsUp(w, S, g)
  BY SumsUpExists
<1>3. PICK h : SumsUp(w, T, h)
  BY <1>1, SumsUpExists
<1>4. g[S] = w[Chosen(S)] + g[T]
  BY <1>2 DEF SumsUp
<1>5. SumOf(w, S) = g[S]
  BY <1>2, SumIsTheSolution
<1> HIDE DEF T
<1>6. SumOf(w, T) = h[T]
  BY <1>1, <1>3, SumIsTheSolution
<1>7. g[T] = h[T]
  <2>1. \A s \in SUBSET T : g[s] = h[s]
    <3>1. \A R \in SUBSET S : SumsUp(w, R, h) => \A s \in SUBSET R : g[s] = h[s]
      BY <1>2, SumsUpAgree
    <3> QED
      BY <1>1, <1>3, <3>1, Zenon
  <2> QED
    BY <2>1
<1>8. SumOf(w, S) = w[Chosen(S)] + SumOf(w, T)
  BY <1>4, <1>5, <1>6, <1>7
<1> QED
  BY <1>8 DEF T

\* A sum of naturals over a finite set is a natural.
LEMMA SumType ==
    ASSUME NEW S, IsFiniteSet(S), NEW w, \A x \in S : w[x] \in Nat
    PROVE  SumOf(w, S) \in Nat
<1> DEFINE B == {T \in SUBSET S : SumOf(w, T) \notin Nat}
<1> SUFFICES ASSUME B # {} PROVE FALSE
  OBVIOUS
<1>0. B \subseteq SUBSET S
  OBVIOUS
<1>1. PICK T \in B : \A U \in B : U \subseteq T => U = T
  <2> HIDE DEF B
  <2> QED
    BY <1>0, SmallestSubset
<1>2. T # {}
  BY SumEmpty
<1>3. IsFiniteSet(T) /\ Chosen(T) \in T
  BY <1>2, ChosenIsThere, FS_Subset
<1>4. SumOf(w, T \ {Chosen(T)}) \in Nat
  BY <1>1, <1>3
<1> QED
  BY <1>2, <1>3, <1>4, SumChosen

\* Any element may be taken first.
LEMMA SumRemove ==
    ASSUME NEW S, IsFiniteSet(S), NEW w, \A x \in S : w[x] \in Nat, NEW x \in S
    PROVE  SumOf(w, S) = w[x] + SumOf(w, S \ {x})
<1> DEFINE B == {T \in SUBSET S : \E y \in T : SumOf(w, T) # w[y] + SumOf(w, T \ {y})}
<1> SUFFICES ASSUME B # {} PROVE FALSE
  OBVIOUS
<1>0. B \subseteq SUBSET S
  OBVIOUS
<1>1. PICK T \in B : \A U \in B : U \subseteq T => U = T
  <2> HIDE DEF B
  <2> QED
    BY <1>0, SmallestSubset
<1>2. PICK y \in T : SumOf(w, T) # w[y] + SumOf(w, T \ {y})
  BY <1>1
<1> DEFINE z == Chosen(T)
<1>3. IsFiniteSet(T) /\ z \in T
  BY <1>2, ChosenIsThere, FS_Subset
<1>4. SumOf(w, T) = w[z] + SumOf(w, T \ {z})
  BY <1>2, <1>3, SumChosen
<1>5. z # y
  BY <1>2, <1>4
<1>6. T \ {z} \notin B /\ T \ {y} \notin B
  BY <1>1, <1>2, <1>3
<1>7. SumOf(w, T \ {z}) = w[y] + SumOf(w, (T \ {z}) \ {y})
  BY <1>2, <1>5, <1>6
<1>8. SumOf(w, T \ {y}) = w[z] + SumOf(w, (T \ {y}) \ {z})
  BY <1>3, <1>5, <1>6
<1>9. (T \ {z}) \ {y} = (T \ {y}) \ {z}
  OBVIOUS
<1>10. w[y] \in Nat /\ w[z] \in Nat /\ SumOf(w, (T \ {y}) \ {z}) \in Nat
  <2>1. IsFiniteSet((T \ {y}) \ {z}) /\ \A u \in (T \ {y}) \ {z} : w[u] \in Nat
    BY <1>3, FS_Subset
  <2> QED
    BY <1>3, <2>1, SumType
<1> DEFINE r == SumOf(w, (T \ {y}) \ {z})
<1>11. SumOf(w, T) = w[z] + (w[y] + r)
  BY <1>4, <1>7, <1>9
<1>12. SumOf(w, T) # w[y] + (w[z] + r)
  BY <1>2, <1>8
<1>13. r \in Nat
  BY <1>10
<1> HIDE DEF r, z
<1> QED
  BY <1>10, <1>11, <1>12, <1>13

\* The sum depends on the weights of its elements only.
LEMMA SumAgree ==
    ASSUME NEW S, IsFiniteSet(S), NEW w, NEW v, \A x \in S : w[x] = v[x]
    PROVE  SumOf(w, S) = SumOf(v, S)
<1> DEFINE B == {T \in SUBSET S : SumOf(w, T) # SumOf(v, T)}
<1> SUFFICES ASSUME B # {} PROVE FALSE
  OBVIOUS
<1>0. B \subseteq SUBSET S
  OBVIOUS
<1>1. PICK T \in B : \A U \in B : U \subseteq T => U = T
  <2> HIDE DEF B
  <2> QED
    BY <1>0, SmallestSubset
<1>2. T # {}
  BY SumEmpty
<1>3. IsFiniteSet(T) /\ Chosen(T) \in T
  BY <1>2, ChosenIsThere, FS_Subset
<1>4. SumOf(w, T \ {Chosen(T)}) = SumOf(v, T \ {Chosen(T)})
  BY <1>1, <1>3
<1>5. w[Chosen(T)] = v[Chosen(T)]
  BY <1>3
<1> QED
  BY <1>2, <1>3, <1>4, <1>5, SumChosen

\* A new element adds its weight.
LEMMA SumAdd ==
    ASSUME NEW S, IsFiniteSet(S), NEW x, x \notin S, NEW w, \A y \in S \cup {x} : w[y] \in Nat
    PROVE  SumOf(w, S \cup {x}) = w[x] + SumOf(w, S)
<1>1. IsFiniteSet(S \cup {x}) /\ (S \cup {x}) \ {x} = S
  BY FS_AddElement
<1> QED
  BY <1>1, SumRemove

\* One weight that changes changes the sum by as much.
LEMMA SumExcept ==
    ASSUME NEW S, IsFiniteSet(S), NEW x \in S,
           NEW w, \A y \in S : w[y] \in Nat, NEW v, \A y \in S : v[y] \in Nat,
           \A y \in S : y # x => v[y] = w[y]
    PROVE  SumOf(v, S) + w[x] = SumOf(w, S) + v[x]
<1> DEFINE T == S \ {x}
<1>1. IsFiniteSet(T)
  BY FS_Subset
<1>2. SumOf(v, T) = SumOf(w, T)
  BY <1>1, SumAgree
<1>3. SumOf(w, S) = w[x] + SumOf(w, T) /\ SumOf(v, S) = v[x] + SumOf(v, T)
  BY SumRemove
<1>4. SumOf(w, T) \in Nat
  BY <1>1, SumType
<1> QED
  BY <1>2, <1>3, <1>4

\* What weighs nothing adds nothing.
LEMMA SumOfNothing ==
    ASSUME NEW S, IsFiniteSet(S), NEW N, IsFiniteSet(N), NEW w, \A y \in S \cup N : w[y] \in Nat,
           \A y \in N \ S : w[y] = 0
    PROVE  SumOf(w, S \cup N) = SumOf(w, S)
<1> DEFINE B == {T \in SUBSET N : SumOf(w, S \cup T) # SumOf(w, S)}
<1> SUFFICES ASSUME B # {} PROVE FALSE
  OBVIOUS
<1>0. B \subseteq SUBSET N
  OBVIOUS
<1>1. PICK T \in B : \A U \in B : U \subseteq T => U = T
  <2> HIDE DEF B
  <2> QED
    BY <1>0, SmallestSubset
<1>2. PICK x \in T : TRUE
  <2>1. S \cup {} = S
    OBVIOUS
  <2> QED
    BY <2>1
<1>3. T \ {x} \notin B
  BY <1>1
<1>4. CASE x \in S
  <2>1. S \cup T = S \cup (T \ {x})
    BY <1>4
  <2> QED
    BY <1>3, <2>1
<1>5. CASE x \notin S
  <2> DEFINE V == S \cup (T \ {x})
  <2>1. IsFiniteSet(V) /\ x \notin V /\ V \cup {x} = S \cup T /\ w[x] = 0
    <3>1. IsFiniteSet(T \ {x})
      BY FS_Subset
    <3> QED
      BY <1>5, <3>1, FS_Union
  <2>2. SumOf(w, S \cup T) = 0 + SumOf(w, V)
    BY <2>1, SumAdd
  <2>3. SumOf(w, V) \in Nat
    BY <2>1, SumType
  <2> QED
    BY <1>3, <2>2, <2>3
<1> QED
  BY <1>4, <1>5


\* The values a function takes on a finite set are finitely many.
LEMMA ImageIsFinite ==
    ASSUME NEW S, IsFiniteSet(S), NEW f
    PROVE  IsFiniteSet({f[x] : x \in S})
<1> DEFINE T == {f[x] : x \in S}
           g == [x \in S |-> f[x]]
<1>1. g \in Surjection(S, T)
  BY DEF Surjection
<1> HIDE DEF g, T
<1>2. IsFiniteSet(T)
  BY <1>1, FS_Surjection
<1> QED
  BY <1>2 DEF T

---------------------------------------------------------------------------------
(* The kinds of step. *)

\* A price once frozen stays.
PricesStay == \A c \in Calls : intent[c].basis \in Currencies => intent'[c].basis = intent[c].basis

LedgerStays == UNCHANGED <<budget, entry, rows>>

\* A step admits a dispatch, accounts for its result, retains what is fenced, sets a
\* limit, or leaves the ledger alone.
LedgerStep ==
    \/ LedgerStays
    \/ \E c \in Calls, config \in Configs : AdmitDispatch(c, config) \/ RefuseDispatch(c, config)
    \/ \E c \in Calls, claim \in Claims, asserts \in BOOLEAN :
          (asserts => HoldsAuthority(c)) /\ Account(c, claim, asserts)
    \/ \E fenced \in SUBSET Calls : RetainFenced(fenced)
    \/ \E limit \in Limits : SetProjectBudget(limit)

\* The intents and Attempts keep their types, and frozen prices stay.
LEMMA IntentsKeep ==
    LedgerTypeOK /\ [Next]_vars =>
       /\ intent' \in [Calls -> IntentRecord]
       /\ attempt' \in [Attempts -> AttemptStates]
       /\ PricesStay
<1> SUFFICES ASSUME LedgerTypeOK, [Next]_vars
             PROVE  /\ intent' \in [Calls -> IntentRecord]
                    /\ attempt' \in [Attempts -> AttemptStates]
                    /\ PricesStay
  OBVIOUS
<1> USE DEF LedgerTypeOK, PricesStay, IntentRecord, IntentStates, OpenIntent, Prices
<1>1. CASE UNCHANGED vars
  BY <1>1 DEF vars
<1>2. ASSUME NEW c \in Calls, CreateCall(c) \/ MarkDispatchQueued(c) \/ ClaimCall(c)
                              \/ FinishCall(c) \/ FailCall(c)
      PROVE  /\ intent' \in [Calls -> IntentRecord]
             /\ attempt' \in [Attempts -> AttemptStates]
             /\ PricesStay
  BY <1>2 DEF CreateCall, MarkDispatchQueued, ClaimCall, FinishCall, FailCall
<1>3. ASSUME NEW c \in Calls, NEW config \in Configs,
             AdmitDispatch(c, config) \/ RefuseDispatch(c, config)
      PROVE  /\ intent' \in [Calls -> IntentRecord]
             /\ attempt' \in [Attempts -> AttemptStates]
             /\ PricesStay
  <2>1. attempt' = attempt
    BY <1>3 DEF AdmitDispatch, RefuseDispatch
  <2>2. intent' = intent \/ \E b \in BOOLEAN : intent' = [intent EXCEPT ![c].reservation = b]
    <3> DEFINE ledger == Materialized(config)
               takes == ledger.limit # NoLimit /\ config.estimate # NoLimit /\ ~Already(c)
    <3>1. CASE RefuseDispatch(c, config)
      BY <3>1 DEF RefuseDispatch
    <3>2. CASE AdmitDispatch(c, config)
      <4>1. takes \in BOOLEAN
        OBVIOUS
      <4>2. intent' = [intent EXCEPT ![c].reservation = takes] \/ intent' = intent
        BY <3>2 DEF AdmitDispatch
      <4> HIDE DEF takes
      <4> QED
        BY <4>1, <4>2
    <3> QED
      BY <1>3, <3>1, <3>2
  <2> QED
    BY <2>1, <2>2
<1>4. ASSUME NEW c \in Calls, NEW price \in Prices, FreezePricing(c, price)
      PROVE  /\ intent' \in [Calls -> IntentRecord]
             /\ attempt' \in [Attempts -> AttemptStates]
             /\ PricesStay
  <2>1. Unfrozen \notin Currencies
    BY AccountingAssumption
  <2> QED
    BY <1>4, <2>1 DEF FreezePricing
<1>5. ASSUME NEW c \in Calls, NEW claim \in Claims, NEW own \in BOOLEAN,
             SettleDispatchAccounting(c, claim, own)
      PROVE  /\ intent' \in [Calls -> IntentRecord]
             /\ attempt' \in [Attempts -> AttemptStates]
             /\ PricesStay
  BY <1>5 DEF SettleDispatchAccounting
<1>6. ASSUME NEW c \in Calls, NEW report \in Reports \cup {NoUsage, Unbillable},
             CompleteProviderDispatch(c, report)
      PROVE  /\ intent' \in [Calls -> IntentRecord]
             /\ attempt' \in [Attempts -> AttemptStates]
             /\ PricesStay
  BY <1>6 DEF CompleteProviderDispatch
<1>7. ASSUME NEW calls, intent' = Fenced(calls)
      PROVE  intent' \in [Calls -> IntentRecord] /\ PricesStay
  BY <1>7 DEF Fenced
<1>8. ASSUME NEW c \in Calls, FenceDispatchIntent(c)
      PROVE  /\ intent' \in [Calls -> IntentRecord]
             /\ attempt' \in [Attempts -> AttemptStates]
             /\ PricesStay
  BY <1>7, <1>8 DEF FenceDispatchIntent
<1>9. ASSUME NEW a \in Attempts, RequestCancel(a) \/ FinishAttempt(a) \/ ReplaceAttempt(a)
      PROVE  /\ intent' \in [Calls -> IntentRecord]
             /\ attempt' \in [Attempts -> AttemptStates]
             /\ PricesStay
  <2>1. intent' = intent \/ intent' = Fenced(OpenOf(a))
    BY <1>9 DEF RequestCancel, FinishAttempt, ReplaceAttempt
  <2>2. attempt' = [attempt EXCEPT ![a] = "cancelling"] \/ attempt' = [attempt EXCEPT ![a] = "ended"]
    BY <1>9 DEF RequestCancel, FinishAttempt, ReplaceAttempt
  <2>3. intent' \in [Calls -> IntentRecord] /\ PricesStay
    BY <1>7, <2>1
  <2> QED
    BY <2>2, <2>3 DEF AttemptStates
<1>10. ASSUME NEW limit \in Limits, SetProjectBudget(limit)
       PROVE  /\ intent' \in [Calls -> IntentRecord]
              /\ attempt' \in [Attempts -> AttemptStates]
              /\ PricesStay
  BY <1>10 DEF SetProjectBudget
<1> QED
  BY <1>1, <1>2, <1>3, <1>4, <1>5, <1>6, <1>8, <1>9, <1>10 DEF Next

\* Every step is of one of these kinds.
LEMMA StepIsLedgerStep == [Next]_vars => LedgerStep
<1> SUFFICES ASSUME [Next]_vars PROVE LedgerStep
  OBVIOUS
<1>1. CASE UNCHANGED vars
  BY <1>1 DEF vars, LedgerStep, LedgerStays
<1>2. ASSUME NEW c \in Calls, CreateCall(c) \/ MarkDispatchQueued(c) \/ ClaimCall(c)
                              \/ FinishCall(c) \/ FailCall(c)
      PROVE  LedgerStep
  BY <1>2 DEF CreateCall, MarkDispatchQueued, ClaimCall, FinishCall, FailCall, LedgerStep, LedgerStays
<1>3. ASSUME NEW c \in Calls, NEW config \in Configs,
             AdmitDispatch(c, config) \/ RefuseDispatch(c, config)
      PROVE  LedgerStep
  BY <1>3 DEF LedgerStep
<1>4. ASSUME NEW c \in Calls, NEW price \in Prices, FreezePricing(c, price)
      PROVE  LedgerStep
  BY <1>4 DEF FreezePricing, LedgerStep, LedgerStays
<1>5. ASSUME NEW c \in Calls, NEW claim \in Claims, NEW own \in BOOLEAN,
             SettleDispatchAccounting(c, claim, own)
      PROVE  LedgerStep
  <2> DEFINE asserts == own /\ HoldsAuthority(c)
  <2>1. asserts \in BOOLEAN /\ (asserts => HoldsAuthority(c)) /\ Account(c, claim, asserts)
    BY <1>5 DEF SettleDispatchAccounting
  <2> HIDE DEF asserts
  <2> QED
    BY <2>1 DEF LedgerStep
<1>6. ASSUME NEW c \in Calls, NEW report \in Reports \cup {NoUsage, Unbillable},
             CompleteProviderDispatch(c, report)
      PROVE  LedgerStep
  <2> DEFINE claim == [kind |-> "completed", report |-> report]
  <2>1. claim \in Claims
    BY DEF Claims
  <2>2. HoldsAuthority(c) /\ Account(c, claim, TRUE)
    BY <1>6 DEF CompleteProviderDispatch
  <2> HIDE DEF claim
  <2> QED
    BY <2>1, <2>2 DEF LedgerStep
<1>7. ASSUME NEW c \in Calls, FenceDispatchIntent(c)
      PROVE  LedgerStep
  <2>1. {c} \in SUBSET Calls /\ RetainFenced({c})
    BY <1>7 DEF FenceDispatchIntent
  <2> QED
    BY <2>1 DEF LedgerStep
<1>8. ASSUME NEW a \in Attempts, RequestCancel(a) \/ FinishAttempt(a) \/ ReplaceAttempt(a)
      PROVE  LedgerStep
  <2>1. CASE FinishAttempt(a)
    <3>1. OpenOf(a) \in SUBSET Calls /\ RetainFenced(OpenOf(a))
      BY <2>1 DEF FinishAttempt, OpenOf
    <3> QED
      BY <3>1 DEF LedgerStep
  <2>2. CASE RequestCancel(a) \/ ReplaceAttempt(a)
    BY <2>2 DEF RequestCancel, ReplaceAttempt, LedgerStep, LedgerStays
  <2> QED
    BY <1>8, <2>1, <2>2
<1>9. ASSUME NEW limit \in Limits, SetProjectBudget(limit)
      PROVE  LedgerStep
  BY <1>9 DEF LedgerStep
<1> QED
  BY <1>1, <1>2, <1>3, <1>4, <1>5, <1>6, <1>7, <1>8, <1>9 DEF Next


---------------------------------------------------------------------------------
(* What each kind of step does to the ledger. *)

\* The ledger an admission materializes: the accumulators stay, and a limit it sets is
\* money in the ledger's currency, which is set only once.
LEMMA MaterializedLedger ==
    ASSUME LedgerTypeOK, CapIsMoney, NEW config \in Configs, NEW ledger,
           ledger = Materialized(config)
    PROVE  /\ ledger \in BudgetRecord
           /\ ledger.settled = budget.settled /\ ledger.released = budget.released
           /\ ledger.overage = budget.overage
           /\ ledger.currency = budget.currency \/ budget.currency = NoCurrency
           /\ ledger.limit # NoLimit =>
                 ledger.limit.micros > 0 /\ ledger.limit.currency = ledger.currency
           /\ ledger = budget \/ (budget.limit = NoLimit /\ ledger.limit # NoLimit)
<1>1. budget \in BudgetRecord /\ MaxMoney \in Nat \ {0} /\ config \in ConfigRecord
  BY AccountingAssumption DEF LedgerTypeOK
<1>2. CASE ledger = budget
  <2>1. ledger.limit # NoLimit =>
           ledger.limit.micros > 0 /\ ledger.limit.currency = ledger.currency
    BY <1>2 DEF CapIsMoney
  <2> QED
    BY <1>1, <1>2, <2>1
<1> DEFINE m == [micros |-> config.limit, currency |-> config.currency]
<1>3. CASE /\ budget.limit = NoLimit /\ config.limit # NoLimit
           /\ budget.currency \in {NoCurrency, config.currency}
           /\ ledger = [budget EXCEPT !.currency = config.currency, !.limit = m]
  <2>1. config.limit \in 1..MaxMoney /\ config.currency \in Currencies
    BY <1>1, <1>3 DEF ConfigRecord
  <2>2. m \in Money /\ m.micros > 0 /\ m.currency = config.currency
    BY <1>1, <2>1 DEF Money, Amounts
  <2>3. m # NoLimit
    BY <2>2, AccountingAssumption
  <2> HIDE DEF m
  <2>4. /\ ledger.currency = config.currency /\ ledger.limit = m
        /\ ledger.settled = budget.settled /\ ledger.released = budget.released
        /\ ledger.overage = budget.overage
    BY <1>1, <1>3 DEF BudgetRecord
  <2>5. ledger \in BudgetRecord
    BY <1>1, <1>3, <2>1, <2>2 DEF BudgetRecord
  <2> QED
    BY <1>3, <2>2, <2>3, <2>4, <2>5
<1> QED
  BY <1>2, <1>3 DEF Materialized

\* Taking a reservation writes the entry of its Call and forgets only entries that hold
\* nothing.
LEMMA ReserveWrites ==
    ASSUME LedgerTypeOK, NEW c \in Calls, NEW amount \in Money, Reserve(c, amount)
    PROVE  /\ entry' \in [Calls -> EntryRecord]
           /\ entry'[c] = [state |-> "reserved", micros |-> amount.micros,
                           currency |-> amount.currency, unresolved |-> FALSE]
           /\ \A d \in Calls \ {c} :
                 entry'[d] = entry[d] \/ (entry'[d] = NoEntry /\ entry[d].state # "reserved")
<1> DEFINE new     == [state |-> "reserved", micros |-> amount.micros,
                       currency |-> amount.currency, unresolved |-> FALSE]
           entries == [entry EXCEPT ![c] = new]
           calls   == Append(SelectSeq(order, LAMBDA d : d # c), c)
           gone    == Pruned(entries, calls)
<1>1. entry' = [d \in Calls |-> IF d \in gone THEN NoEntry ELSE entries[d]]
  BY DEF Reserve
<1>2. \A d \in gone : entries[d].state # "reserved"
  <2> HIDE DEF calls, entries
  <2> QED
    BY DEF Pruned
<1> HIDE DEF gone
<1>3. new \in EntryRecord /\ NoEntry \in EntryRecord
  BY AccountingAssumption DEF EntryRecord, NoEntry, Money, EntryStates, Amounts
<1>4. entry \in [Calls -> EntryRecord] /\ entries \in [Calls -> EntryRecord]
  BY <1>3 DEF LedgerTypeOK
<1>5. entries[c] = new /\ new.state = "reserved" /\ \A d \in Calls \ {c} : entries[d] = entry[d]
  BY <1>4
<1> HIDE DEF entries, new
<1>6. c \notin gone
  BY <1>2, <1>5
<1>7. entry' \in [Calls -> EntryRecord]
  BY <1>1, <1>3, <1>4
<1>8. entry'[c] = new
  BY <1>1, <1>5, <1>6
<1>9. ASSUME NEW d \in Calls \ {c}
      PROVE  entry'[d] = entry[d] \/ (entry'[d] = NoEntry /\ entry[d].state # "reserved")
  BY <1>1, <1>2, <1>5
<1> QED
  BY <1>7, <1>8, <1>9 DEF new

\* An admission keeps the ledger's types, its rows, and money in one currency.
LEMMA AdmissionKeeps ==
    ASSUME LedgerTypeOK, CapIsMoney, HeldIsMoney, NEW c \in Calls, NEW config \in Configs,
           AdmitDispatch(c, config) \/ RefuseDispatch(c, config)
    PROVE  /\ budget' \in BudgetRecord /\ entry' \in [Calls -> EntryRecord]
           /\ CapIsMoney' /\ HeldIsMoney'
           /\ budget'.currency = budget.currency \/ budget.currency = NoCurrency
           /\ UNCHANGED <<rows, budget.settled, budget.released, budget.overage>>
<1> DEFINE ledger == Materialized(config)
           takes  == ledger.limit # NoLimit /\ config.estimate # NoLimit /\ ~Already(c)
           amount == [micros |-> config.estimate, currency |-> config.currency]
<1>1. budget' = ledger /\ rows' = rows
  BY DEF AdmitDispatch, RefuseDispatch
<1>2. /\ budget' \in BudgetRecord /\ CapIsMoney'
      /\ budget'.currency = budget.currency \/ budget.currency = NoCurrency
      /\ UNCHANGED <<budget.settled, budget.released, budget.overage>>
  <2> HIDE DEF ledger
  <2>1. /\ ledger \in BudgetRecord
        /\ ledger.settled = budget.settled /\ ledger.released = budget.released
        /\ ledger.overage = budget.overage
        /\ ledger.currency = budget.currency \/ budget.currency = NoCurrency
        /\ ledger.limit # NoLimit =>
              ledger.limit.micros > 0 /\ ledger.limit.currency = ledger.currency
    BY MaterializedLedger DEF ledger
  <2> QED
    BY <1>1, <2>1 DEF CapIsMoney
<1>3. \A d \in Calls : entry[d].state = "reserved" =>
         entry[d].micros > 0 /\ entry[d].currency \in Currencies /\ entry[d].currency = budget'.currency
  BY <1>2, AccountingAssumption DEF HeldIsMoney, Live
<1>4. CASE entry' = entry
  BY <1>2, <1>3, <1>4, <1>1 DEF HeldIsMoney, Live, LedgerTypeOK
<1>5. CASE AdmitDispatch(c, config) /\ takes
  <2>1. Reserve(c, amount) /\ ~Denied(c, ledger, config)
    BY <1>5 DEF AdmitDispatch
  <2>2. config.estimate \in 1..MaxMoney /\ config.currency \in Currencies
    BY <1>5, AccountingAssumption DEF ConfigRecord
  <2>3. amount \in Money /\ amount.micros > 0 /\ amount.currency = config.currency
    BY <2>2, AccountingAssumption DEF Money, Amounts
  <2>4. config.currency = ledger.currency
    <3> HIDE DEF ledger
    <3>1. ledger.currency = ledger.limit.currency /\ config.currency = ledger.limit.currency
      <4>1. ledger.limit # NoLimit /\ config.estimate # NoLimit
        BY <1>5
      <4> QED
        BY <2>1, <4>1 DEF Denied
    <3> QED
      BY <3>1
  <2> HIDE DEF amount, ledger
  <2>5. /\ entry' \in [Calls -> EntryRecord]
        /\ entry'[c] = [state |-> "reserved", micros |-> amount.micros,
                        currency |-> amount.currency, unresolved |-> FALSE]
        /\ \A d \in Calls \ {c} :
              entry'[d] = entry[d] \/ (entry'[d] = NoEntry /\ entry[d].state # "reserved")
    BY <2>1, <2>3, ReserveWrites
  <2>6. /\ entry'[c].micros > 0 /\ entry'[c].currency \in Currencies
        /\ entry'[c].currency = budget'.currency
    BY <1>1, <2>2, <2>3, <2>4, <2>5
  <2>7. ASSUME NEW d \in Calls \ {c}, entry'[d].state = "reserved"
        PROVE  /\ entry'[d].micros > 0 /\ entry'[d].currency \in Currencies
               /\ entry'[d].currency = budget'.currency
    <3>1. entry'[d] = entry[d]
      BY <2>5, <2>7 DEF NoEntry
    <3> QED
      BY <1>3, <2>7, <3>1
  <2>8. HeldIsMoney'
    BY <2>6, <2>7 DEF HeldIsMoney, Live
  <2> QED
    BY <1>1, <1>2, <2>5, <2>8
<1>6. entry' = entry \/ (AdmitDispatch(c, config) /\ takes)
  <2>1. CASE RefuseDispatch(c, config)
    BY <2>1 DEF RefuseDispatch
  <2>2. CASE AdmitDispatch(c, config) /\ ~takes
    <3>1. IF takes THEN Reserve(c, amount) ELSE UNCHANGED <<entry, order>>
      BY <2>2 DEF AdmitDispatch
    <3> HIDE DEF takes, amount
    <3> QED
      BY <2>2, <3>1
  <2> HIDE DEF takes
  <2> QED
    BY <2>1, <2>2
<1> QED
  BY <1>4, <1>5, <1>6


\* The row of a report names its Call and conflicts with nothing.  It settles an amount
\* only for the authority, when the usage was priced, and releases only for it.
LEMMA RowSays ==
    ASSUME LedgerTypeOK, NEW c \in Calls, NEW claim \in Claims, NEW asserts \in BOOLEAN,
           NEW row, row = RowFor(c, claim, asserts)
    PROVE  /\ row \in RowRecord /\ row.call = c /\ ~row.conflict
           /\ row.disposition # "unresolved" => asserts
           /\ row.disposition = "settled" =>
                 /\ row.reason = "usage_priced" /\ row.report \in Reports
                 /\ row.price = intent[c].basis /\ Priced(c, claim)
<1>1. /\ intent[c] \in IntentRecord /\ entry[c] \in EntryRecord /\ Reports \subseteq Amounts
  BY AccountingAssumption DEF LedgerTypeOK
<1>2. claim.report \in Reports \cup {NoUsage, Unbillable}
  BY DEF Claims
<1> DEFINE disposition == Disposition(c, claim, asserts)
           reason == Reason(c, claim, asserts)
           price == IF disposition = "settled" THEN intent[c].basis ELSE Unpriced
<1>3. row = [call |-> c, disposition |-> disposition, reason |-> reason,
             report |-> claim.report, reserved |-> entry[c].micros, conflict |-> FALSE,
             price |-> price]
  BY DEF RowFor, Row
<1>4. /\ disposition \in Dispositions
      /\ disposition # "unresolved" => asserts
      /\ disposition = "settled" => Priced(c, claim)
  BY DEF Disposition, Dispositions
<1>5. reason \in Reasons /\ (Priced(c, claim) /\ asserts => reason = "usage_priced")
  <2>1. UnvaluedReason(c, claim.report) \in Reasons
    BY DEF UnvaluedReason, Reasons
  <2>2. CASE Priced(c, claim)
    <3>1. claim.kind = "completed"
      BY <2>2 DEF Priced
    <3>2. reason = IF asserts THEN "usage_priced" ELSE "stale_authority"
      BY <2>2, <3>1 DEF Reason
    <3> HIDE DEF reason
    <3> QED
      BY <3>2 DEF Reasons
  <2>3. CASE ~Priced(c, claim)
    BY <2>1, <2>3 DEF Reason, Reasons
  <2> QED
    BY <2>2, <2>3
<1>6. disposition = "settled" => reason = "usage_priced" /\ claim.report \in Reports
                                 /\ intent[c].basis \in Currencies
  BY <1>4, <1>5 DEF Priced
<1> HIDE DEF disposition, reason
<1>7. price \in Prices
  BY <1>6 DEF Prices
<1>8. row \in RowRecord
  BY <1>1, <1>2, <1>3, <1>4, <1>5, <1>7 DEF RowRecord, EntryRecord
<1> HIDE DEF price
<1>9. /\ row.call = c /\ ~row.conflict /\ row.disposition = disposition
      /\ row.reason = reason /\ row.report = claim.report /\ row.price = price
  BY <1>3
<1> QED
  BY <1>4, <1>6, <1>8, <1>9 DEF price

\* What accounting adds to the canonical rows: the row of the report when it discharges
\* the reservation, and else nothing.
LEMMA NewCanonical ==
    ASSUME LedgerTypeOK, NEW c \in Calls, NEW claim \in Claims, NEW asserts \in BOOLEAN
    PROVE  /\ NewRows(c, claim, asserts) \subseteq RowRecord
           /\ Discharges(c, claim, asserts) =>
                 NewRows(c, claim, asserts) = {RowFor(c, claim, asserts)}
           /\ ~Discharges(c, claim, asserts) =>
                 \A r \in NewRows(c, claim, asserts) : r.conflict
<1> DEFINE row == RowFor(c, claim, asserts)
<1>1. row \in RowRecord
  BY RowSays
<1>2. CASE Discharges(c, claim, asserts)
  <2>1. NewRows(c, claim, asserts) = {row}
    BY <1>2 DEF NewRows
  <2> QED
    BY <1>1, <1>2, <2>1
<1>3. CASE ~Discharges(c, claim, asserts)
  <2>1. NewRows(c, claim, asserts) \subseteq Conflicts(row)
    BY <1>3 DEF NewRows
  <2> HIDE DEF row
  <2>2. ASSUME NEW stored \in Recorded(row)
        PROVE  /\ [Candidate(row, stored) EXCEPT !.conflict = TRUE] \in RowRecord
               /\ [Candidate(row, stored) EXCEPT !.conflict = TRUE].conflict
    <3>1. stored \in RowRecord
      BY DEF Recorded, LedgerTypeOK
    <3>2. Candidate(row, stored) \in RowRecord
      BY <1>1, <3>1 DEF Candidate, RowRecord
    <3> HIDE DEF Candidate
    <3> QED
      BY <3>2 DEF RowRecord
  <2>3. \A r \in Conflicts(row) : r \in RowRecord /\ r.conflict
    BY <2>2 DEF Conflicts
  <2> QED
    BY <1>3, <2>1, <2>3
<1> QED
  BY <1>2, <1>3

\* A new canonical row is not identified like one already recorded.
LEMMA DischargeIsNew ==
    ASSUME NEW c \in Calls, NEW claim \in Claims, NEW asserts \in BOOLEAN,
           Discharges(c, claim, asserts), NEW row, row = RowFor(c, claim, asserts),
           NEW r \in Canonical
    PROVE  ~(r.call = row.call /\ r.disposition = row.disposition /\ r.reason = row.reason)
<1>1. Recorded(row) = {}
  BY DEF Discharges
<1> QED
  BY <1>1 DEF Recorded, Canonical

\* The invariant of the settled rows depends on the ledger's currency and the frozen
\* prices only.
LEMMA PricesKept ==
    ASSUME LedgerTypeOK, SettledRowsArePriced, PricesStay,
           budget'.currency = budget.currency \/ budget.currency = NoCurrency,
           NEW r \in Canonical, r.disposition = "settled"
    PROVE  /\ r.reason = "usage_priced" /\ r.report \in Amounts
           /\ r.price \in Currencies /\ r.price = budget'.currency
           /\ r.price = intent'[r.call].basis
<1>1. /\ r.reason = "usage_priced" /\ r.report \in Amounts
      /\ r.price \in Currencies /\ r.price = budget.currency
      /\ r.price = intent[r.call].basis
  BY DEF SettledRowsArePriced
<1>2. r.call \in Calls
  BY DEF Canonical, LedgerTypeOK, RowRecord
<1>3. budget'.currency = budget.currency
  BY <1>1, AccountingAssumption
<1> QED
  BY <1>1, <1>2, <1>3 DEF PricesStay

---------------------------------------------------------------------------------
(* The sums over the rows. *)

ActualOf   == [r \in RowRecord |-> Actual(r)]
ReturnedOf == [r \in RowRecord |-> Returned(r)]
ExcessOf   == [r \in RowRecord |-> Excess(r)]

\* The three sums of AccumulatorsMatchRows, with the weights as functions.
LEMMA ActualSum ==
    ASSUME NEW R \in SUBSET RowRecord, IsFiniteSet(R)
    PROVE  MapThenSumSet(Actual, R) = SumOf(ActualOf, R)
<1> DEFINE iter == CHOOSE h : h = [s \in SUBSET R |-> IF s = {} THEN 0
                                       ELSE Actual(Chosen(s)) + h[s \ {Chosen(s)}]]
<1>1. MapThenSumSet(Actual, R) = iter[R]
  BY DEF MapThenSumSet, MapThenFoldSet, Chosen
<1>2. \A s \in SUBSET R : s # {} => Actual(Chosen(s)) = ActualOf[Chosen(s)]
  BY ChosenIsThere DEF ActualOf
<1>3. \A g : SumsUp(ActualOf, R, g) <=>
                g = [s \in SUBSET R |-> IF s = {} THEN 0
                                        ELSE Actual(Chosen(s)) + g[s \ {Chosen(s)}]]
  BY <1>2 DEF SumsUp
<1>4. SumsUp(ActualOf, R, iter)
  BY <1>3, SumsUpExists
<1> HIDE DEF iter
<1> QED
  BY <1>1, <1>4, SumIsTheSolution


\* What was returned of a set of rows, as the ledger sums it, is SumOf.
LEMMA ReturnedSum ==
    ASSUME NEW R \in SUBSET RowRecord, IsFiniteSet(R)
    PROVE  MapThenSumSet(Returned, R) = SumOf(ReturnedOf, R)
<1> DEFINE iter == CHOOSE h : h = [s \in SUBSET R |-> IF s = {} THEN 0
                                       ELSE Returned(Chosen(s)) + h[s \ {Chosen(s)}]]
<1>1. MapThenSumSet(Returned, R) = iter[R]
  BY DEF MapThenSumSet, MapThenFoldSet, Chosen
<1>2. \A s \in SUBSET R : s # {} => Returned(Chosen(s)) = ReturnedOf[Chosen(s)]
  BY ChosenIsThere DEF ReturnedOf
<1>3. \A g : SumsUp(ReturnedOf, R, g) <=>
                g = [s \in SUBSET R |-> IF s = {} THEN 0
                                        ELSE Returned(Chosen(s)) + g[s \ {Chosen(s)}]]
  BY <1>2 DEF SumsUp
<1>4. SumsUp(ReturnedOf, R, iter)
  BY <1>3, SumsUpExists
<1> HIDE DEF iter
<1> QED
  BY <1>1, <1>4, SumIsTheSolution

\* The excess of a set of rows, as the ledger sums it, is SumOf.
LEMMA ExcessSum ==
    ASSUME NEW R \in SUBSET RowRecord, IsFiniteSet(R)
    PROVE  MapThenSumSet(Excess, R) = SumOf(ExcessOf, R)
<1> DEFINE iter == CHOOSE h : h = [s \in SUBSET R |-> IF s = {} THEN 0
                                       ELSE Excess(Chosen(s)) + h[s \ {Chosen(s)}]]
<1>1. MapThenSumSet(Excess, R) = iter[R]
  BY DEF MapThenSumSet, MapThenFoldSet, Chosen
<1>2. \A s \in SUBSET R : s # {} => Excess(Chosen(s)) = ExcessOf[Chosen(s)]
  BY ChosenIsThere DEF ExcessOf
<1>3. \A g : SumsUp(ExcessOf, R, g) <=>
                g = [s \in SUBSET R |-> IF s = {} THEN 0
                                        ELSE Excess(Chosen(s)) + g[s \ {Chosen(s)}]]
  BY <1>2 DEF SumsUp
<1>4. SumsUp(ExcessOf, R, iter)
  BY <1>3, SumsUpExists
<1> HIDE DEF iter
<1> QED
  BY <1>1, <1>4, SumIsTheSolution

\* The amounts a row states are natural numbers.
LEMMA RowAmounts ==
    ASSUME NEW r \in RowRecord, r.disposition = "settled" => r.report \in Amounts
    PROVE  ActualOf[r] \in Nat /\ ReturnedOf[r] \in Nat /\ ExcessOf[r] \in Nat
<1>1. MaxMoney \in Nat /\ r.reserved \in Amounts
  BY AccountingAssumption DEF RowRecord
<1>2. Actual(r) \in Nat
  BY <1>1 DEF Actual, Amounts
<1>3. Returned(r) \in Nat
  BY <1>1 DEF Returned, Amounts
<1>4. Excess(r) \in Nat
  BY <1>1 DEF Excess, Amounts
<1> QED
  BY <1>2, <1>3, <1>4 DEF ActualOf, ReturnedOf, ExcessOf

\* Saturating the sum so far loses nothing of a later saturated sum.
LEMMA SaturatedAdd ==
    ASSUME NEW n \in Nat, NEW m \in Nat
    PROVE  Saturated(Saturated(n) + m) = Saturated(n + m)
BY AccountingAssumption DEF Saturated

\* A saturating addition of amounts is an amount.
LEMMA SaturatedType == \A n \in Nat : Saturated(n) \in Amounts
BY AccountingAssumption DEF Saturated, Amounts

---------------------------------------------------------------------------------
(* The invariant. *)

\* It holds at first.
LEMMA InitLedger == Init => LedgerInv
<1> SUFFICES ASSUME Init PROVE LedgerInv
  OBVIOUS
<1> USE AccountingAssumption DEF Init
<1>1. LedgerTypeOK
  <2>1. budget \in BudgetRecord
    BY DEF BudgetRecord, Amounts
  <2>2. entry \in [Calls -> EntryRecord]
    BY DEF EntryRecord, NoEntry, EntryStates, Amounts
  <2>3. intent \in [Calls -> IntentRecord]
    BY DEF IntentRecord, IntentStates
  <2>4. attempt \in [Attempts -> AttemptStates] /\ rows \subseteq RowRecord
    BY DEF AttemptStates
  <2> QED
    BY <2>1, <2>2, <2>3, <2>4 DEF LedgerTypeOK
<1>2. Canonical = {}
  BY DEF Canonical
<1>3. CapIsMoney
  BY DEF CapIsMoney
<1>4. HeldIsMoney
  BY DEF HeldIsMoney, Live, NoEntry
<1>5. SettledRowsArePriced /\ RowsAreIdentified
  BY <1>2 DEF SettledRowsArePriced, RowsAreIdentified
<1>6. IsFiniteSet(Canonical)
  BY <1>2, FS_EmptySet
<1>7. AccumulatorsMatchRows
  <2>1. {} \in SUBSET RowRecord /\ IsFiniteSet({})
    BY FS_EmptySet
  <2>2. /\ MapThenSumSet(Actual, {}) = 0 /\ MapThenSumSet(Returned, {}) = 0
        /\ MapThenSumSet(Excess, {}) = 0
    BY <2>1, ActualSum, ReturnedSum, ExcessSum, SumEmpty
  <2>3. Saturated(0) = 0
    BY DEF Saturated
  <2> QED
    BY <1>2, <2>2, <2>3 DEF AccumulatorsMatchRows
<1> QED
  BY <1>1, <1>3, <1>4, <1>5, <1>6, <1>7 DEF LedgerInv

\* Sums of the same canonical rows are the same sums.
LEMMA SameRows ==
    ASSUME AccumulatorsMatchRows, Canonical' = Canonical,
           UNCHANGED <<budget.settled, budget.released, budget.overage>>
    PROVE  AccumulatorsMatchRows'
<1>1. /\ budget'.settled = Saturated(MapThenSumSet(Actual, Canonical'))
      /\ budget'.released = Saturated(MapThenSumSet(Returned, Canonical'))
      /\ budget'.overage = Saturated(MapThenSumSet(Excess, Canonical'))
  BY DEF AccumulatorsMatchRows
<1> QED
  BY <1>1 DEF AccumulatorsMatchRows


\* A step that books nothing and records nothing keeps the invariant if money stays in
\* one currency.
LEMMA NothingBooked ==
    ASSUME LedgerInv, PricesStay,
           intent' \in [Calls -> IntentRecord], attempt' \in [Attempts -> AttemptStates],
           budget' \in BudgetRecord, entry' \in [Calls -> EntryRecord],
           CapIsMoney', HeldIsMoney',
           budget'.currency = budget.currency \/ budget.currency = NoCurrency,
           UNCHANGED <<rows, budget.settled, budget.released, budget.overage>>
    PROVE  LedgerInv'
<1>1. LedgerTypeOK'
  BY DEF LedgerInv, LedgerTypeOK
<1>2. Canonical' = Canonical
  BY DEF Canonical
<1>3. IsFiniteSet(Canonical')
  BY <1>2 DEF LedgerInv
<1>4. RowsAreIdentified'
  BY <1>2 DEF LedgerInv, RowsAreIdentified
<1>5. SettledRowsArePriced'
  <2>1. ASSUME NEW r \in Canonical', r.disposition = "settled"
        PROVE  /\ r.reason = "usage_priced" /\ r.report \in Amounts
               /\ r.price \in Currencies /\ r.price = budget'.currency
               /\ r.price = intent'[r.call].basis
    BY <1>2, <2>1, PricesKept DEF LedgerInv
  <2> QED
    BY <2>1 DEF SettledRowsArePriced
<1>6. AccumulatorsMatchRows'
  BY <1>2, SameRows DEF LedgerInv
<1> QED
  BY <1>1, <1>3, <1>4, <1>5, <1>6 DEF LedgerInv

\* An operator's limit is accepted in the ledger's currency only.
LEMMA LimitStep ==
    ASSUME LedgerInv, PricesStay,
           intent' \in [Calls -> IntentRecord], attempt' \in [Attempts -> AttemptStates],
           NEW limit \in Limits, SetProjectBudget(limit)
    PROVE  LedgerInv'
<1>1. limit \in Money /\ limit.micros > 0 /\ limit # NoLimit
  BY AccountingAssumption DEF SetProjectBudget
<1>2. budget \in BudgetRecord /\ budget' = [budget EXCEPT !.limit = limit, !.currency = limit.currency]
  BY DEF LedgerInv, LedgerTypeOK, SetProjectBudget
<1>3. /\ budget' \in BudgetRecord /\ budget'.limit = limit /\ budget'.currency = limit.currency
      /\ budget'.settled = budget.settled /\ budget'.released = budget.released
      /\ budget'.overage = budget.overage
  BY <1>1, <1>2 DEF BudgetRecord, Money
<1>4. budget'.currency = budget.currency \/ budget.currency = NoCurrency
  BY <1>3 DEF SetProjectBudget
<1>5. CapIsMoney'
  BY <1>1, <1>3 DEF CapIsMoney
<1>6. HeldIsMoney'
  BY <1>3 DEF LedgerInv, HeldIsMoney, Live, SetProjectBudget
<1>7. entry' = entry /\ rows' = rows
  BY DEF SetProjectBudget
<1> QED
  BY <1>3, <1>4, <1>5, <1>6, <1>7, NothingBooked DEF LedgerInv, LedgerTypeOK

\* A row booked at once with the accumulators keeps them its sums.
LEMMA Booking ==
    ASSUME LedgerInv, NEW row \in RowRecord, row \notin Canonical,
           row.disposition = "settled" => row.report \in Amounts,
           Canonical' = Canonical \cup {row}, budget' = Booked(budget, row)
    PROVE  AccumulatorsMatchRows'
<1> DEFINE C == Canonical
           D == Canonical \cup {row}
<1>1. /\ C \in SUBSET RowRecord /\ D \in SUBSET RowRecord
      /\ IsFiniteSet(C) /\ IsFiniteSet(D)
  BY FS_AddElement DEF LedgerInv, LedgerTypeOK, Canonical
<1>2. \A r \in D : ActualOf[r] \in Nat /\ ReturnedOf[r] \in Nat /\ ExcessOf[r] \in Nat
  BY <1>1, RowAmounts DEF LedgerInv, SettledRowsArePriced
<1>3. /\ MapThenSumSet(Actual, C) = SumOf(ActualOf, C)
      /\ MapThenSumSet(Returned, C) = SumOf(ReturnedOf, C)
      /\ MapThenSumSet(Excess, C) = SumOf(ExcessOf, C)
      /\ MapThenSumSet(Actual, D) = SumOf(ActualOf, D)
      /\ MapThenSumSet(Returned, D) = SumOf(ReturnedOf, D)
      /\ MapThenSumSet(Excess, D) = SumOf(ExcessOf, D)
  <2> HIDE DEF C, D
  <2> QED
    BY <1>1, ActualSum, ReturnedSum, ExcessSum
<1>4. /\ SumOf(ActualOf, D) = ActualOf[row] + SumOf(ActualOf, C)
      /\ SumOf(ReturnedOf, D) = ReturnedOf[row] + SumOf(ReturnedOf, C)
      /\ SumOf(ExcessOf, D) = ExcessOf[row] + SumOf(ExcessOf, C)
  BY <1>1, <1>2, SumAdd
<1>5. /\ SumOf(ActualOf, C) \in Nat /\ SumOf(ReturnedOf, C) \in Nat
      /\ SumOf(ExcessOf, C) \in Nat
  BY <1>1, <1>2, SumType
<1>6. /\ ActualOf[row] = Actual(row) /\ ReturnedOf[row] = Returned(row)
      /\ ExcessOf[row] = Excess(row)
  BY DEF ActualOf, ReturnedOf, ExcessOf
<1>7. budget \in BudgetRecord /\ AccumulatorsMatchRows
  BY DEF LedgerInv, LedgerTypeOK
<1>8. /\ budget.settled = Saturated(SumOf(ActualOf, C))
      /\ budget.released = Saturated(SumOf(ReturnedOf, C))
      /\ budget.overage = Saturated(SumOf(ExcessOf, C))
  BY <1>3, <1>7 DEF AccumulatorsMatchRows
<1>9. /\ budget'.settled = Saturated(budget.settled + Actual(row))
      /\ budget'.released = Saturated(budget.released + Returned(row))
      /\ budget'.overage = Saturated(budget.overage + Excess(row))
  BY <1>7 DEF Booked, BudgetRecord
<1>10. ASSUME NEW n \in Nat, NEW m \in Nat
       PROVE  Saturated(Saturated(n) + m) = Saturated(m + n)
  <2>1. n + m = m + n
    OBVIOUS
  <2> QED
    BY <2>1, SaturatedAdd
<1>11. row \in D
  OBVIOUS
<1> HIDE DEF C, D
<1>12. budget'.settled = Saturated(MapThenSumSet(Actual, D))
  BY <1>2, <1>3, <1>4, <1>5, <1>6, <1>8, <1>9, <1>10, <1>11
<1>13. budget'.released = Saturated(MapThenSumSet(Returned, D))
  BY <1>2, <1>3, <1>4, <1>5, <1>6, <1>8, <1>9, <1>10, <1>11
<1>14. budget'.overage = Saturated(MapThenSumSet(Excess, D))
  BY <1>2, <1>3, <1>4, <1>5, <1>6, <1>8, <1>9, <1>10, <1>11
<1> QED
  BY <1>12, <1>13, <1>14 DEF AccumulatorsMatchRows, D


\* Booking keeps the ledger's types, limit and currency.
LEMMA BookedLedger ==
    ASSUME budget \in BudgetRecord, NEW row \in RowRecord,
           row.disposition = "settled" => row.report \in Amounts
    PROVE  /\ Booked(budget, row) \in BudgetRecord
           /\ Booked(budget, row).limit = budget.limit
           /\ Booked(budget, row).currency = budget.currency
           /\ Booked(budget, row).settled = Saturated(budget.settled + Actual(row))
<1>1. Actual(row) \in Nat /\ Returned(row) \in Nat /\ Excess(row) \in Nat
  BY RowAmounts DEF ActualOf, ReturnedOf, ExcessOf
<1>2. /\ budget.settled \in Nat /\ budget.released \in Nat /\ budget.overage \in Nat
  BY AccountingAssumption DEF BudgetRecord, Amounts
<1>3. /\ Saturated(budget.settled + Actual(row)) \in Amounts
      /\ Saturated(budget.released + Returned(row)) \in Amounts
      /\ Saturated(budget.overage + Excess(row)) \in Amounts
  BY <1>1, <1>2, SaturatedType
<1> QED
  BY <1>3 DEF Booked, BudgetRecord

\* An entry that is discharged stays an entry, in its currency; one that stays live
\* holds what it held.
LEMMA DischargedEntry ==
    ASSUME NEW old \in EntryRecord, NEW disposition \in Dispositions
    PROVE  /\ Discharged(old, disposition) \in EntryRecord
           /\ Discharged(old, disposition).micros = old.micros
           /\ Discharged(old, disposition).currency = old.currency
           /\ Discharged(old, disposition).state
                 = IF disposition = "unresolved" THEN old.state ELSE disposition
BY DEF Discharged, EntryRecord, EntryStates, Dispositions

\* One report, accounted for: at most one canonical row is added, and booked.
LEMMA AccountStep ==
    ASSUME LedgerInv, PricesStay,
           intent' \in [Calls -> IntentRecord], attempt' \in [Attempts -> AttemptStates],
           NEW c \in Calls, NEW claim \in Claims, NEW asserts \in BOOLEAN,
           Account(c, claim, asserts)
    PROVE  LedgerInv'
<1> DEFINE row == RowFor(c, claim, asserts)
           new == NewRows(c, claim, asserts)
<1>1. rows' = rows \cup new
  BY DEF Account
<1>2. /\ new \subseteq RowRecord
      /\ Discharges(c, claim, asserts) => new = {row}
      /\ ~Discharges(c, claim, asserts) => \A r \in new : r.conflict
  BY NewCanonical DEF LedgerInv
<1>3. /\ row \in RowRecord /\ row.call = c /\ ~row.conflict
      /\ row.disposition = "settled" =>
            /\ row.reason = "usage_priced" /\ row.report \in Reports
            /\ row.price = intent[c].basis /\ Priced(c, claim)
  BY RowSays DEF LedgerInv
<1> HIDE DEF new
<1>4. CASE ~Discharges(c, claim, asserts)
  <2>1. budget' = budget /\ entry' = entry
    BY <1>4 DEF Account
  <2>2. Canonical' = Canonical
    BY <1>1, <1>2, <1>4 DEF Canonical
  <2>3. LedgerTypeOK'
    BY <1>1, <1>2, <2>1 DEF LedgerInv, LedgerTypeOK
  <2>4. CapIsMoney' /\ HeldIsMoney'
    BY <2>1 DEF LedgerInv, CapIsMoney, HeldIsMoney, Live
  <2>5. ASSUME NEW r \in Canonical', r.disposition = "settled"
        PROVE  /\ r.reason = "usage_priced" /\ r.report \in Amounts
               /\ r.price \in Currencies /\ r.price = budget'.currency
               /\ r.price = intent'[r.call].basis
    BY <2>1, <2>2, <2>5, PricesKept DEF LedgerInv
  <2>6. SettledRowsArePriced'
    BY <2>5 DEF SettledRowsArePriced
  <2>7. RowsAreIdentified' /\ IsFiniteSet(Canonical')
    BY <2>2 DEF LedgerInv, RowsAreIdentified
  <2>8. AccumulatorsMatchRows'
    BY <2>1, <2>2, SameRows DEF LedgerInv
  <2> QED
    BY <2>3, <2>4, <2>6, <2>7, <2>8 DEF LedgerInv
<1>5. CASE Discharges(c, claim, asserts)
  <2> HIDE DEF row
  <2>1. /\ budget' = Booked(budget, row)
        /\ entry' = [entry EXCEPT ![c] = Discharged(@, row.disposition)]
    BY <1>5 DEF Account, row
  <2>2. Canonical' = Canonical \cup {row}
    BY <1>1, <1>2, <1>3, <1>5 DEF Canonical
  <2>3. \A r \in Canonical :
           ~(r.call = row.call /\ r.disposition = row.disposition /\ r.reason = row.reason)
    BY <1>5, DischargeIsNew DEF row
  <2>4. Reports \subseteq Amounts /\ row.disposition \in Dispositions
    BY <1>3, AccountingAssumption DEF RowRecord
  <2>5. budget' \in BudgetRecord /\ budget'.limit = budget.limit /\ budget'.currency = budget.currency
    BY <1>3, <2>1, <2>4, BookedLedger DEF LedgerInv, LedgerTypeOK
  <2>6. entry \in [Calls -> EntryRecord] /\ Live(c)
    BY <1>5 DEF LedgerInv, LedgerTypeOK, Discharges
  <2>7. /\ entry' \in [Calls -> EntryRecord]
        /\ entry'[c].micros = entry[c].micros /\ entry'[c].currency = entry[c].currency
        /\ \A d \in Calls \ {c} : entry'[d] = entry[d]
    BY <2>1, <2>4, <2>6, DischargedEntry
  <2>8. LedgerTypeOK'
    BY <1>1, <1>2, <2>5, <2>7 DEF LedgerInv, LedgerTypeOK
  <2>9. CapIsMoney'
    BY <2>5 DEF LedgerInv, CapIsMoney
  <2>10. HeldIsMoney'
    BY <2>5, <2>6, <2>7 DEF LedgerInv, HeldIsMoney, Live
  <2>11. row.disposition = "settled" => row.price \in Currencies /\ row.price = budget.currency
    <3>1. budget.currency \in Currencies
      BY <2>6 DEF LedgerInv, HeldIsMoney
    <3> QED
      BY <1>3, <3>1, AccountingAssumption DEF Priced
  <2>12. ASSUME NEW r \in Canonical', r.disposition = "settled"
         PROVE  /\ r.reason = "usage_priced" /\ r.report \in Amounts
                /\ r.price \in Currencies /\ r.price = budget'.currency
                /\ r.price = intent'[r.call].basis
    <3>1. CASE r \in Canonical
      BY <2>5, <2>12, <3>1, PricesKept DEF LedgerInv
    <3>2. CASE r = row
      BY <1>3, <2>4, <2>5, <2>11, <2>12, <3>2 DEF PricesStay
    <3> QED
      BY <2>2, <3>1, <3>2
  <2>13. SettledRowsArePriced'
    BY <2>12 DEF SettledRowsArePriced
  <2>14. RowsAreIdentified'
    <3>1. ASSUME NEW r \in Canonical', NEW q \in Canonical',
                 r.call = q.call, r.disposition = q.disposition, r.reason = q.reason
          PROVE  r = q
      <4>1. CASE r \in Canonical /\ q \in Canonical
        BY <3>1, <4>1 DEF LedgerInv, RowsAreIdentified
      <4>2. CASE r = row \/ q = row
        BY <2>2, <2>3, <3>1, <4>2
      <4> QED
        BY <2>2, <4>1, <4>2
    <3> QED
      BY <3>1 DEF RowsAreIdentified
  <2>15. IsFiniteSet(Canonical')
    BY <2>2, FS_AddElement DEF LedgerInv
  <2>16. AccumulatorsMatchRows'
    BY <1>3, <2>1, <2>2, <2>3, <2>4, Booking
  <2> QED
    BY <2>8, <2>9, <2>10, <2>13, <2>14, <2>15, <2>16 DEF LedgerInv
<1> QED
  BY <1>4, <1>5

\* Fencing retains reservations: the rows it adds state no amount.
LEMMA RetainStep ==
    ASSUME LedgerInv, PricesStay,
           intent' \in [Calls -> IntentRecord], attempt' \in [Attempts -> AttemptStates],
           NEW fenced \in SUBSET Calls, RetainFenced(fenced)
    PROVE  LedgerInv'
<1> DEFINE retained == {c \in fenced : Discharges(c, EffectUnknown, FALSE)}
           rowOf == [c \in Calls |-> RowFor(c, EffectUnknown, FALSE)]
           new == {rowOf[c] : c \in retained}
<1>1. EffectUnknown \in Claims /\ FALSE \in BOOLEAN
  BY DEF Claims, EffectUnknown
<1>2. ASSUME NEW c \in Calls
      PROVE  /\ NewRows(c, EffectUnknown, FALSE) \subseteq RowRecord
             /\ Discharges(c, EffectUnknown, FALSE) => NewRows(c, EffectUnknown, FALSE) = {rowOf[c]}
             /\ ~Discharges(c, EffectUnknown, FALSE) =>
                   \A r \in NewRows(c, EffectUnknown, FALSE) : r.conflict
  BY <1>1, NewCanonical DEF LedgerInv
<1>3. ASSUME NEW c \in Calls
      PROVE  /\ rowOf[c] \in RowRecord /\ rowOf[c].call = c /\ ~rowOf[c].conflict
             /\ rowOf[c].disposition = "unresolved"
  <2>1. rowOf[c] = RowFor(c, EffectUnknown, FALSE)
    OBVIOUS
  <2> DEFINE row == rowOf[c]
  <2>2. LedgerTypeOK
    BY DEF LedgerInv
  <2>3. row = RowFor(c, EffectUnknown, FALSE)
    BY <2>1
  <2> HIDE DEF row, rowOf
  <2>4. row \in RowRecord /\ row.call = c /\ ~row.conflict
    <3>1. ASSUME NEW asserts \in BOOLEAN, NEW r, r = RowFor(c, EffectUnknown, asserts)
          PROVE  r \in RowRecord /\ r.call = c /\ ~r.conflict
      BY <1>1, <2>2, <3>1, RowSays
    <3> QED
      BY <1>1, <2>3, <3>1, Zenon
  <2>5. row.disposition = "unresolved"
    BY <2>3 DEF RowFor, Row, Disposition
  <2> QED
    BY <2>4, <2>5 DEF row
<1>4. rows' = rows \cup UNION {NewRows(c, EffectUnknown, FALSE) : c \in fenced}
  BY DEF RetainFenced
<1>5. entry' = [c \in Calls |-> IF c \in retained THEN Discharged(entry[c], "unresolved") ELSE entry[c]]
  BY DEF RetainFenced
<1>6. budget' = budget
  BY DEF RetainFenced
<1>7. ASSUME NEW c \in retained, NEW r \in Canonical
      PROVE  ~(r.call = rowOf[c].call /\ r.disposition = rowOf[c].disposition
               /\ r.reason = rowOf[c].reason)
  BY <1>1, DischargeIsNew
<1>8. rows' \subseteq RowRecord
  BY <1>2, <1>4 DEF LedgerInv, LedgerTypeOK
<1> HIDE DEF rowOf
<1>9. Canonical' = Canonical \cup new
  <2>1. ASSUME NEW r \in Canonical' PROVE r \in Canonical \cup new
    BY <1>2, <1>4, <2>1 DEF Canonical
  <2>2. ASSUME NEW r \in Canonical \cup new PROVE r \in Canonical'
    <3>1. CASE r \in Canonical
      BY <1>4, <3>1 DEF Canonical
    <3>2. CASE r \in new
      <4>1. PICK c \in retained : r = rowOf[c]
        BY <3>2
      <4>2. c \in fenced /\ c \in Calls /\ Discharges(c, EffectUnknown, FALSE)
        OBVIOUS
      <4>3. r \in NewRows(c, EffectUnknown, FALSE) /\ ~r.conflict
        <5>1. NewRows(c, EffectUnknown, FALSE) = {rowOf[c]}
          BY <1>2, <4>2
        <5>2. ~rowOf[c].conflict
          BY <1>3, <4>2
        <5> QED
          BY <4>1, <5>1, <5>2
      <4>4. r \in UNION {NewRows(d, EffectUnknown, FALSE) : d \in fenced}
        BY <4>2, <4>3
      <4> QED
        BY <1>4, <4>3, <4>4 DEF Canonical
    <3> QED
      BY <2>2, <3>1, <3>2
  <2> QED
    BY <2>1, <2>2
<1>10. ASSUME NEW r \in new
       PROVE  /\ r \in RowRecord /\ r.disposition = "unresolved"
              /\ \E c \in retained : r = rowOf[c] /\ r.call = c
  <2>1. PICK c \in retained : r = rowOf[c]
    BY <1>10
  <2>2. c \in Calls
    OBVIOUS
  <2> QED
    BY <1>3, <2>1, <2>2
<1>11. IsFiniteSet(new)
  <2>1. IsFiniteSet(retained)
    BY FS_Subset, AccountingAssumption
  <2> HIDE DEF retained
  <2> QED
    BY <2>1, ImageIsFinite
<1> HIDE DEF new, retained
<1>12. /\ entry \in [Calls -> EntryRecord] /\ entry' \in [Calls -> EntryRecord]
       /\ \A c \in Calls : /\ entry'[c].state = entry[c].state
                           /\ entry'[c].micros = entry[c].micros
                           /\ entry'[c].currency = entry[c].currency
  <2>1. entry \in [Calls -> EntryRecord] /\ "unresolved" \in Dispositions
    BY DEF LedgerInv, LedgerTypeOK, Dispositions
  <2> QED
    BY <1>5, <2>1, DischargedEntry
<1>13. LedgerTypeOK'
  BY <1>6, <1>8, <1>12 DEF LedgerInv, LedgerTypeOK
<1>14. CapIsMoney' /\ HeldIsMoney'
  BY <1>6, <1>12 DEF LedgerInv, CapIsMoney, HeldIsMoney, Live
<1>15. SettledRowsArePriced'
  <2>1. ASSUME NEW r \in Canonical', r.disposition = "settled"
        PROVE  /\ r.reason = "usage_priced" /\ r.report \in Amounts
               /\ r.price \in Currencies /\ r.price = budget'.currency
               /\ r.price = intent'[r.call].basis
    <3>1. r \in Canonical
      BY <1>9, <1>10, <2>1
    <3> QED
      BY <1>6, <2>1, <3>1, PricesKept DEF LedgerInv
  <2> QED
    BY <2>1 DEF SettledRowsArePriced
<1>16. RowsAreIdentified'
  <2>1. ASSUME NEW r \in Canonical', NEW q \in Canonical',
               r.call = q.call, r.disposition = q.disposition, r.reason = q.reason
        PROVE  r = q
    <3>1. CASE r \in Canonical /\ q \in Canonical
      BY <2>1, <3>1 DEF LedgerInv, RowsAreIdentified
    <3>2. CASE r \in new /\ q \in new
      BY <1>10, <2>1, <3>2
    <3>3. CASE r \in new /\ q \in Canonical
      BY <1>7, <1>10, <2>1, <3>3
    <3>4. CASE r \in Canonical /\ q \in new
      BY <1>7, <1>10, <2>1, <3>4
    <3> QED
      BY <1>9, <3>1, <3>2, <3>3, <3>4
  <2> QED
    BY <2>1 DEF RowsAreIdentified
<1>17. IsFiniteSet(Canonical) /\ IsFiniteSet(Canonical \cup new)
  BY <1>11, FS_Union DEF LedgerInv
<1>18. AccumulatorsMatchRows'
  <2> DEFINE C == Canonical
             D == Canonical \cup new
  <2>1. C \in SUBSET RowRecord /\ D \in SUBSET RowRecord
    BY <1>10 DEF LedgerInv, LedgerTypeOK, Canonical
  <2>2. \A r \in D : ActualOf[r] \in Nat /\ ReturnedOf[r] \in Nat /\ ExcessOf[r] \in Nat
    BY <1>10, <2>1, RowAmounts DEF LedgerInv, SettledRowsArePriced
  <2>3. \A r \in new \ C : ActualOf[r] = 0 /\ ReturnedOf[r] = 0 /\ ExcessOf[r] = 0
    <3>1. ASSUME NEW r \in RowRecord, r.disposition = "unresolved"
          PROVE  ActualOf[r] = 0 /\ ReturnedOf[r] = 0 /\ ExcessOf[r] = 0
      BY <3>1 DEF ActualOf, ReturnedOf, ExcessOf, Actual, Returned, Excess
    <3> QED
      BY <1>10, <3>1
  <2>4. /\ SumOf(ActualOf, D) = SumOf(ActualOf, C)
        /\ SumOf(ReturnedOf, D) = SumOf(ReturnedOf, C)
        /\ SumOf(ExcessOf, D) = SumOf(ExcessOf, C)
    BY <1>11, <1>17, <2>2, <2>3, SumOfNothing
  <2>5. /\ MapThenSumSet(Actual, C) = SumOf(ActualOf, C)
        /\ MapThenSumSet(Returned, C) = SumOf(ReturnedOf, C)
        /\ MapThenSumSet(Excess, C) = SumOf(ExcessOf, C)
    <3> HIDE DEF C
    <3> QED
      BY <1>17, <2>1, ActualSum, ReturnedSum, ExcessSum DEF C
  <2>6. /\ MapThenSumSet(Actual, D) = SumOf(ActualOf, D)
        /\ MapThenSumSet(Returned, D) = SumOf(ReturnedOf, D)
        /\ MapThenSumSet(Excess, D) = SumOf(ExcessOf, D)
    BY <1>17, <2>1, ActualSum, ReturnedSum, ExcessSum
  <2>7. AccumulatorsMatchRows
    BY DEF LedgerInv
  <2> QED
    BY <1>6, <1>9, <2>4, <2>5, <2>6, <2>7 DEF AccumulatorsMatchRows
<1>19. IsFiniteSet(Canonical')
  BY <1>9, <1>17
<1> QED
  BY <1>13, <1>14, <1>15, <1>16, <1>18, <1>19 DEF LedgerInv


\* Every step keeps the invariant.
LEMMA NextLedger == LedgerInv /\ [Next]_vars => LedgerInv'
<1> SUFFICES ASSUME LedgerInv, [Next]_vars PROVE LedgerInv'
  OBVIOUS
<1>1. /\ intent' \in [Calls -> IntentRecord] /\ attempt' \in [Attempts -> AttemptStates]
      /\ PricesStay
  BY IntentsKeep DEF LedgerInv
<1>2. CASE LedgerStays
  <2>1. /\ budget' \in BudgetRecord /\ entry' \in [Calls -> EntryRecord]
        /\ CapIsMoney' /\ HeldIsMoney'
    BY <1>2 DEF LedgerStays, LedgerInv, LedgerTypeOK, CapIsMoney, HeldIsMoney, Live
  <2>2. /\ budget'.currency = budget.currency
        /\ UNCHANGED <<rows, budget.settled, budget.released, budget.overage>>
    BY <1>2 DEF LedgerStays
  <2> QED
    BY <1>1, <2>1, <2>2, NothingBooked
<1>3. ASSUME NEW c \in Calls, NEW config \in Configs,
             AdmitDispatch(c, config) \/ RefuseDispatch(c, config)
      PROVE  LedgerInv'
  <2>1. /\ budget' \in BudgetRecord /\ entry' \in [Calls -> EntryRecord]
        /\ CapIsMoney' /\ HeldIsMoney'
        /\ budget'.currency = budget.currency \/ budget.currency = NoCurrency
        /\ UNCHANGED <<rows, budget.settled, budget.released, budget.overage>>
    BY <1>3, AdmissionKeeps DEF LedgerInv
  <2> QED
    BY <1>1, <2>1, NothingBooked
<1>4. ASSUME NEW c \in Calls, NEW claim \in Claims, NEW asserts \in BOOLEAN,
             Account(c, claim, asserts)
      PROVE  LedgerInv'
  BY <1>1, <1>4, AccountStep
<1>5. ASSUME NEW fenced \in SUBSET Calls, RetainFenced(fenced)
      PROVE  LedgerInv'
  BY <1>1, <1>5, RetainStep
<1>6. ASSUME NEW limit \in Limits, SetProjectBudget(limit)
      PROVE  LedgerInv'
  BY <1>1, <1>6, LimitStep
<1>7. LedgerStep
  BY StepIsLedgerStep
<1> QED
  BY <1>2, <1>3, <1>4, <1>5, <1>6, <1>7 DEF LedgerStep

---------------------------------------------------------------------------------
(* The theorems. *)

\* The ledger's invariant holds of every reachable state.
THEOREM LedgerInvariant == Spec => []LedgerInv
<1>1. Init => LedgerInv
  BY InitLedger
<1>2. LedgerInv /\ [Next]_vars => LedgerInv'
  BY NextLedger
<1> QED
  BY <1>1, <1>2, PTL DEF Spec

\* The Project's accumulators are the sums of the canonical rows, for any amounts,
\* Calls and reports: no retry, conflict or pruning ever moves them apart.
THEOREM AccumulatorsStaySums == Spec => []AccumulatorsMatchRows
<1>1. LedgerInv => AccumulatorsMatchRows
  BY DEF LedgerInv
<1> QED
  BY <1>1, LedgerInvariant, PTL

\* A Call is charged at most once: a settled row has one reason, so two of a Call would
\* be identified alike.
THEOREM CallsAreChargedOnce == Spec => []ChargedOnce
<1>1. LedgerInv => ChargedOnce
  <2> SUFFICES ASSUME LedgerInv, NEW c \in Calls
               PROVE  Cardinality({r \in Canonical : r.call = c /\ r.disposition = "settled"}) <= 1
    BY DEF ChargedOnce
  <2> DEFINE charges == {r \in Canonical : r.call = c /\ r.disposition = "settled"}
  <2>1. \A r, q \in charges : r = q
    BY DEF LedgerInv, SettledRowsArePriced, RowsAreIdentified
  <2> HIDE DEF charges
  <2>2. CASE charges = {}
    BY <2>2, FS_EmptySet DEF charges
  <2>3. CASE charges # {}
    <3>1. PICK r \in charges : TRUE
      BY <2>3
    <3>2. charges = {r}
      BY <2>1, <3>1
    <3>3. Cardinality(charges) = 1
      BY <3>2, FS_Singleton
    <3> QED
      BY <3>3 DEF charges
  <2> QED
    BY <2>2, <2>3
<1> QED
  BY <1>1, LedgerInvariant, PTL

\* Limit, reservations and settled money are in one currency, and settled usage was
\* valued at the price frozen for its dispatch.
THEOREM MoneyKeepsItsMeaning == Spec => []MoneyIsNeverReinterpreted
<1>1. LedgerInv => MoneyIsNeverReinterpreted
  <2> SUFFICES ASSUME LedgerInv PROVE OneCurrency /\ SettledAtFrozenPrice
    BY DEF MoneyIsNeverReinterpreted
  <2>1. OneCurrency
    BY DEF OneCurrency, LedgerInv, CapIsMoney, HeldIsMoney, SettledRowsArePriced
  <2>2. SettledAtFrozenPrice
    BY DEF SettledAtFrozenPrice, LedgerInv, SettledRowsArePriced
  <2> QED
    BY <2>1, <2>2
<1> QED
  BY <1>1, LedgerInvariant, PTL

\* A step after which a live entry is not reserved any more is the report of the
\* authority for that Call.
LEMMA DischargeNeedsAuthority ==
    ASSUME LedgerInv, [Next]_vars, NEW c \in Calls, Live(c), entry'[c].state # "reserved"
    PROVE  HoldsAuthority(c)
<1>1. LedgerTypeOK
  BY DEF LedgerInv
<1>2. ASSUME entry' = entry PROVE FALSE
  BY <1>2 DEF Live
<1>3. ASSUME NEW d \in Calls, NEW config \in Configs,
             AdmitDispatch(d, config) \/ RefuseDispatch(d, config)
      PROVE  FALSE
  <2> DEFINE ledger == Materialized(config)
             takes  == ledger.limit # NoLimit /\ config.estimate # NoLimit /\ ~Already(d)
             amount == [micros |-> config.estimate, currency |-> config.currency]
  <2>1. CASE RefuseDispatch(d, config)
    BY <1>2, <2>1 DEF RefuseDispatch
  <2>2. CASE AdmitDispatch(d, config) /\ ~takes
    <3>1. IF takes THEN Reserve(d, amount) ELSE UNCHANGED <<entry, order>>
      BY <2>2 DEF AdmitDispatch
    <3> HIDE DEF takes, amount
    <3> QED
      BY <1>2, <2>2, <3>1
  <2>3. CASE AdmitDispatch(d, config) /\ takes
    <3>1. Reserve(d, amount)
      BY <2>3 DEF AdmitDispatch
    <3>2. amount \in Money
      BY <2>3, AccountingAssumption DEF ConfigRecord, Money, Amounts
    <3> HIDE DEF amount, ledger, takes
    <3>3. /\ entry'[d] = [state |-> "reserved", micros |-> amount.micros,
                          currency |-> amount.currency, unresolved |-> FALSE]
          /\ \A e \in Calls \ {d} :
                entry'[e] = entry[e] \/ (entry'[e] = NoEntry /\ entry[e].state # "reserved")
      BY <1>1, <3>1, <3>2, ReserveWrites
    <3>4. c # d
      BY <3>3
    <3> QED
      BY <3>3, <3>4 DEF Live
  <2> HIDE DEF takes
  <2> QED
    BY <1>3, <2>1, <2>2, <2>3
<1>4. ASSUME NEW d \in Calls, NEW claim \in Claims, NEW asserts \in BOOLEAN,
             asserts => HoldsAuthority(d), Account(d, claim, asserts)
      PROVE  HoldsAuthority(c)
  <2> DEFINE row == RowFor(d, claim, asserts)
  <2>1. row \in RowRecord /\ (row.disposition # "unresolved" => asserts)
    BY <1>1, RowSays
  <2>2. Discharges(d, claim, asserts)
    BY <1>2, <1>4 DEF Account
  <2>3. entry' = [entry EXCEPT ![d] = Discharged(@, row.disposition)]
    BY <1>4, <2>2 DEF Account
  <2> HIDE DEF row
  <2>4. entry \in [Calls -> EntryRecord] /\ row.disposition \in Dispositions
    BY <1>1, <2>1 DEF LedgerTypeOK, RowRecord
  <2>5. c = d
    BY <2>3, <2>4 DEF Live
  <2>6. row.disposition # "unresolved"
    BY <2>3, <2>4, <2>5, DischargedEntry DEF Live
  <2> QED
    BY <1>4, <2>1, <2>5, <2>6
<1>5. ASSUME NEW fenced \in SUBSET Calls, RetainFenced(fenced)
      PROVE  FALSE
  <2>1. entry'[c] = Discharged(entry[c], "unresolved") \/ entry'[c] = entry[c]
    BY <1>5 DEF RetainFenced
  <2>2. entry[c] \in EntryRecord /\ "unresolved" \in Dispositions
    BY <1>1 DEF LedgerTypeOK, Dispositions
  <2> QED
    BY <2>1, <2>2, DischargedEntry DEF Live
<1>6. ASSUME NEW limit \in Limits, SetProjectBudget(limit)
      PROVE  FALSE
  BY <1>2, <1>6 DEF SetProjectBudget
<1>7. LedgerStep
  BY StepIsLedgerStep
<1>8. CASE LedgerStays
  BY <1>2, <1>8 DEF LedgerStays
<1> QED
  BY <1>3, <1>4, <1>5, <1>6, <1>7, <1>8 DEF LedgerStep

\* A reservation leaves the books only while the Attempt that made it is the authority.
THEOREM AuthorityDischarges == Spec => OnlyAuthorityDischarges
<1>1. LedgerInv /\ [Next]_vars =>
         [\A c \in Calls : Live(c) /\ entry'[c].state # "reserved" => HoldsAuthority(c)]_vars
  BY DischargeNeedsAuthority
<1> QED
  BY <1>1, LedgerInvariant, PTL DEF Spec, OnlyAuthorityDischarges


---------------------------------------------------------------------------------
(* The ledger implements SpendingCap. *)

HeldNow == [c \in Calls |-> HeldFor(c)]

CapNow == IF budget.limit = NoLimit THEN NoLimit ELSE budget.limit.micros

\* What is reserved is the sum of what is held, as SpendingCap takes it.
LEMMA ReservedIsHeld == Reserved = Saturated(SumOf(HeldNow, Calls))
<1> DEFINE iter == CHOOSE h : h = [s \in SUBSET Calls |-> IF s = {} THEN 0
                                       ELSE HeldFor(Chosen(s)) + h[s \ {Chosen(s)}]]
<1>1. Reserved = Saturated(iter[Calls])
  BY DEF Reserved, MapThenSumSet, MapThenFoldSet, Chosen
<1>2. \A s \in SUBSET Calls : s # {} => HeldFor(Chosen(s)) = HeldNow[Chosen(s)]
  BY ChosenIsThere DEF HeldNow
<1>3. \A g : SumsUp(HeldNow, Calls, g) <=>
                g = [s \in SUBSET Calls |-> IF s = {} THEN 0
                                            ELSE HeldFor(Chosen(s)) + g[s \ {Chosen(s)}]]
  BY <1>2 DEF SumsUp
<1>4. IsFiniteSet(Calls)
  BY AccountingAssumption
<1>5. SumsUp(HeldNow, Calls, iter)
  BY <1>3, <1>4, SumsUpExists
<1> HIDE DEF iter
<1> QED
  BY <1>1, <1>4, <1>5, SumIsTheSolution

\* SpendingCap sums over the Calls alike.
LEMMA CapHeldIn == \A h : Cap!HeldIn(h) = SumOf(h, Calls)
BY DEF Cap!HeldIn, SumOf, MapThenSumSet, MapThenFoldSet, Cap!MapThenSumSet, Cap!MapThenFoldSet

\* What is held for a Call is an amount, and positive exactly while its entry is live.
LEMMA HeldAmounts ==
    ASSUME LedgerInv
    PROVE  /\ HeldNow \in [Calls -> Amounts]
           /\ \A c \in Calls : /\ Live(c) => HeldNow[c] = entry[c].micros /\ HeldNow[c] > 0
                               /\ ~Live(c) => HeldNow[c] = 0
<1>1. \A c \in Calls : entry[c].micros \in Amounts
  BY DEF LedgerInv, LedgerTypeOK, EntryRecord
<1>2. 0 \in Amounts
  BY AccountingAssumption DEF Amounts
<1> QED
  BY <1>1, <1>2 DEF HeldNow, HeldFor, LedgerInv, HeldIsMoney

\* The abstract step of one that changes neither what is held nor what is settled: the
\* cap stays or is set.
LEMMA CapStays ==
    ASSUME LedgerInv, HeldNow' = HeldNow, budget'.settled = budget.settled,
           \/ budget'.limit = budget.limit
           \/ budget'.limit # NoLimit /\ budget'.limit.micros \in 1..MaxMoney
    PROVE  [Cap!Next]_(Cap!capVars)
<1>1. CASE budget'.limit = budget.limit
  <2>1. UNCHANGED Cap!capVars
    BY <1>1 DEF Cap!capVars, HeldNow
  <2> QED
    BY <2>1
<1>2. CASE budget'.limit # NoLimit /\ budget'.limit.micros \in 1..MaxMoney
  <2>1. Cap!SetCap(budget'.limit.micros)
    BY <1>2 DEF Cap!SetCap, HeldNow
  <2> QED
    BY <1>2, <2>1 DEF Cap!Next
<1> QED
  BY <1>1, <1>2

\* A limit is an amount that a cap may be.
LEMMA LimitAmount ==
    ASSUME LedgerTypeOK, CapIsMoney, budget.limit # NoLimit
    PROVE  budget.limit.micros \in 1..MaxMoney
BY AccountingAssumption DEF LedgerTypeOK, CapIsMoney, BudgetRecord, Money, Amounts


\* An admission that is not denied and takes a reservation keeps what is committed
\* under the cap: it holds the estimate for its Call.
LEMMA AdmissionHolds ==
    ASSUME LedgerInv, NEW c \in Calls, NEW config \in Configs, AdmitDispatch(c, config),
           NEW ledger, ledger = Materialized(config),
           ledger.limit # NoLimit, config.estimate # NoLimit, ~Already(c)
    PROVE  [Cap!Next]_(Cap!capVars)
<1> DEFINE limit  == ledger.limit.micros
           amount == [micros |-> config.estimate, currency |-> config.currency]
           held   == SumOf(HeldNow, Calls)
           after  == SumOf(HeldNow', Calls)
<1>1. /\ ledger \in BudgetRecord /\ ledger.settled = budget.settled
      /\ ledger.limit.micros > 0
      /\ ledger = budget \/ (budget.limit = NoLimit /\ ledger.limit # NoLimit)
  BY MaterializedLedger DEF LedgerInv
<1>2. limit \in 1..MaxMoney /\ config.estimate \in 1..MaxMoney
      /\ config.currency \in Currencies
  BY <1>1, AccountingAssumption DEF BudgetRecord, Money, Amounts, ConfigRecord
<1>3. budget' = ledger /\ Reserve(c, amount) /\ ~Denied(c, ledger, config)
  BY DEF AdmitDispatch
<1>4. amount \in Money /\ amount.micros = config.estimate
  BY <1>2, AccountingAssumption DEF Money, Amounts
<1> HIDE DEF amount
<1>5. /\ entry'[c].state = "reserved" /\ entry'[c].micros = config.estimate
      /\ \A d \in Calls \ {c} :
            entry'[d] = entry[d] \/ (entry'[d] = NoEntry /\ entry[d].state # "reserved")
  <2>1. LedgerTypeOK
    BY DEF LedgerInv
  <2>2. /\ entry'[c] = [state |-> "reserved", micros |-> amount.micros,
                        currency |-> amount.currency, unresolved |-> FALSE]
        /\ \A d \in Calls \ {c} :
              entry'[d] = entry[d] \/ (entry'[d] = NoEntry /\ entry[d].state # "reserved")
    BY <1>3, <1>4, <2>1, ReserveWrites
  <2> QED
    BY <1>4, <2>2
<1>6. HeldNow \in [Calls -> Amounts] /\ HeldNow[c] = 0 /\ MaxMoney \in Nat /\ IsFiniteSet(Calls)
  BY HeldAmounts, AccountingAssumption DEF Live, Already
<1>7. HeldNow' = [HeldNow EXCEPT ![c] = config.estimate]
  <2>1. \A d \in Calls : HeldNow[d] = IF entry[d].state = "reserved" THEN entry[d].micros ELSE 0
    BY DEF HeldNow, HeldFor, Live
  <2>2. \A d \in Calls : HeldNow'[d] = IF entry'[d].state = "reserved" THEN entry'[d].micros ELSE 0
    BY DEF HeldNow, HeldFor, Live
  <2>3. HeldNow' = [d \in Calls |-> HeldNow'[d]]
    BY DEF HeldNow
  <2>4. \A d \in Calls \ {c} : HeldNow'[d] = HeldNow[d]
    BY <1>5, <2>1, <2>2 DEF NoEntry
  <2>5. HeldNow'[c] = config.estimate
    BY <1>5, <2>2
  <2> QED
    BY <1>6, <2>3, <2>4, <2>5
<1>8. held \in Nat /\ after \in Nat /\ after = held + config.estimate
  <2>1. HeldNow' \in [Calls -> Nat] /\ HeldNow \in [Calls -> Nat] /\ HeldNow'[c] = config.estimate
    BY <1>2, <1>6, <1>7 DEF Amounts
  <2>2. after + HeldNow[c] = held + HeldNow'[c]
    <3>1. /\ \A d \in Calls : HeldNow[d] \in Nat /\ HeldNow'[d] \in Nat
          /\ \A d \in Calls : d # c => HeldNow'[d] = HeldNow[d]
      BY <1>6, <1>7, <2>1
    <3>2. ASSUME NEW w, NEW v, \A d \in Calls : w[d] \in Nat /\ v[d] \in Nat,
                 \A d \in Calls : d # c => v[d] = w[d]
          PROVE  SumOf(v, Calls) + w[c] = SumOf(w, Calls) + v[c]
      BY <1>6, <3>2, SumExcept
    <3> QED
      BY <3>1, <3>2
  <2>3. held \in Nat /\ after \in Nat
    BY <1>6, <2>1, SumType
  <2> QED
    BY <1>2, <1>6, <2>1, <2>2, <2>3
<1>9. budget.settled \in Nat
  BY AccountingAssumption DEF LedgerInv, LedgerTypeOK, BudgetRecord, Amounts
<1>10. Saturated(budget.settled + after) <= limit
  <2>1. ~(Saturated(ledger.settled + Reserved + config.estimate) > limit)
    BY <1>3 DEF Denied
  <2>2. Saturated(budget.settled + Saturated(held) + config.estimate) <= limit
    <3>1. Reserved = Saturated(held)
      BY ReservedIsHeld
    <3>2. Saturated(held) \in Nat
      BY <1>6, <1>8 DEF Saturated
    <3> HIDE DEF held
    <3>3. budget.settled + Saturated(held) + config.estimate \in Nat
      BY <1>2, <1>9, <3>2
    <3>4. Saturated(budget.settled + Saturated(held) + config.estimate) \in Nat
      BY <1>6, <3>3 DEF Saturated
    <3> QED
      BY <1>1, <1>2, <2>1, <3>1, <3>4
  <2> HIDE DEF held, after, limit
  <2> QED
    BY <1>2, <1>6, <1>8, <1>9, <2>2 DEF Saturated
<1>11. Cap!Hold(c, config.estimate, limit)
  <2>1. CapNow \in {NoLimit, limit} /\ CapNow' = limit
    BY <1>1, <1>3 DEF CapNow
  <2>2. Cap!Committed(budget.settled, HeldNow') = Saturated(budget.settled + after)
    BY CapHeldIn DEF Cap!Committed, Cap!Saturated, Saturated
  <2>3. budget'.settled = budget.settled
    BY <1>1, <1>3
  <2> QED
    BY <1>6, <1>7, <1>10, <2>1, <2>2, <2>3 DEF Cap!Hold, CapNow, HeldNow
<1> QED
  BY <1>2, <1>11 DEF Cap!Next

\* A report that discharges a reservation charges it or frees it; any other is not seen.
LEMMA AccountCharges ==
    ASSUME LedgerInv, NEW c \in Calls, NEW claim \in Claims, NEW asserts \in BOOLEAN,
           Account(c, claim, asserts)
    PROVE  [Cap!Next]_(Cap!capVars)
<1> DEFINE row == RowFor(c, claim, asserts)
<1>1. CASE ~Discharges(c, claim, asserts)
  <2>1. budget' = budget /\ entry' = entry
    BY <1>1 DEF Account
  <2>2. HeldNow' = HeldNow
    BY <2>1 DEF HeldNow, HeldFor, Live
  <2> QED
    BY <2>1, <2>2, CapStays
<1>2. CASE Discharges(c, claim, asserts)
  <2>1. Live(c) /\ HeldNow \in [Calls -> Amounts] /\ HeldNow[c] = entry[c].micros /\ HeldNow[c] > 0
    BY <1>2, HeldAmounts DEF Discharges
  <2>2. /\ row \in RowRecord /\ row.call = c
        /\ row.disposition = "settled" => row.report \in Amounts
    BY RowSays, AccountingAssumption DEF LedgerInv
  <2>3. /\ budget' = Booked(budget, row)
        /\ entry' = [entry EXCEPT ![c] = Discharged(@, row.disposition)]
    BY <1>2 DEF Account
  <2> HIDE DEF row
  <2>4. /\ budget'.limit = budget.limit
        /\ budget'.settled = Saturated(budget.settled + Actual(row))
    BY <2>2, <2>3, BookedLedger DEF LedgerInv, LedgerTypeOK
  <2>5. entry \in [Calls -> EntryRecord] /\ row.disposition \in Dispositions
    BY <2>2 DEF LedgerInv, LedgerTypeOK, RowRecord
  <2>6. /\ entry'[c].micros = entry[c].micros
        /\ entry'[c].state = IF row.disposition = "unresolved" THEN "reserved" ELSE row.disposition
        /\ \A d \in Calls \ {c} : entry'[d] = entry[d]
    BY <2>1, <2>3, <2>5, DischargedEntry DEF Live
  <2>7. HeldNow' = [HeldNow EXCEPT ![c] = IF row.disposition = "unresolved" THEN @ ELSE 0]
    <3>1. \A d \in Calls : HeldNow[d] = IF entry[d].state = "reserved" THEN entry[d].micros ELSE 0
      BY DEF HeldNow, HeldFor, Live
    <3>2. \A d \in Calls : HeldNow'[d] = IF entry'[d].state = "reserved" THEN entry'[d].micros ELSE 0
      BY DEF HeldNow, HeldFor, Live
    <3>3. HeldNow' = [d \in Calls |-> HeldNow'[d]]
      BY DEF HeldNow
    <3>4. \A d \in Calls \ {c} : HeldNow'[d] = HeldNow[d]
      BY <2>6, <3>1, <3>2
    <3>5. HeldNow'[c] = IF row.disposition = "unresolved" THEN HeldNow[c] ELSE 0
      BY <2>1, <2>5, <2>6, <3>2 DEF Dispositions
    <3> QED
      BY <2>1, <3>3, <3>4, <3>5
  <2>8. budget.settled \in Amounts /\ Saturated(budget.settled + 0) = budget.settled
    BY AccountingAssumption DEF LedgerInv, LedgerTypeOK, BudgetRecord, Amounts, Saturated
  <2>9. CASE row.disposition = "unresolved"
    <3>1. HeldNow' = HeldNow
      BY <2>1, <2>7, <2>9
    <3>2. budget'.settled = budget.settled
      BY <2>4, <2>8, <2>9 DEF Actual
    <3> QED
      BY <2>4, <3>1, <3>2, CapStays
  <2>10. CASE row.disposition = "released"
    <3>1. HeldNow' = [HeldNow EXCEPT ![c] = 0]
      BY <2>7, <2>10
    <3>2. budget'.settled = budget.settled
      BY <2>4, <2>8, <2>10 DEF Actual
    <3>3. Cap!Free(c)
      BY <2>1, <2>4, <3>1, <3>2 DEF Cap!Free, HeldNow
    <3> QED
      BY <3>3 DEF Cap!Next
  <2>11. CASE row.disposition = "settled"
    <3>1. HeldNow' = [HeldNow EXCEPT ![c] = 0]
      BY <2>7, <2>11
    <3>2. budget'.settled = Saturated(budget.settled + row.report) /\ row.report \in 0..MaxMoney
      BY <2>2, <2>4, <2>11 DEF Actual, Amounts
    <3>3. Cap!Charge(c, row.report)
      BY <2>1, <2>4, <3>1, <3>2 DEF Cap!Charge, Cap!Saturated, Saturated, HeldNow
    <3> QED
      BY <3>2, <3>3 DEF Cap!Next
  <2> QED
    BY <2>5, <2>9, <2>10, <2>11 DEF Dispositions
<1> QED
  BY <1>1, <1>2

\* Every step of the ledger is a step of the cap or not seen.
LEMMA StepKeepsCap == LedgerInv /\ LedgerInv' /\ [Next]_vars => [Cap!Next]_(Cap!capVars)
<1> SUFFICES ASSUME LedgerInv, LedgerInv', [Next]_vars PROVE [Cap!Next]_(Cap!capVars)
  OBVIOUS
<1>1. CASE LedgerStays
  <2>1. HeldNow' = HeldNow /\ budget' = budget
    BY <1>1 DEF LedgerStays, HeldNow, HeldFor, Live
  <2> QED
    BY <2>1, CapStays
<1>2. ASSUME NEW c \in Calls, NEW config \in Configs,
             AdmitDispatch(c, config) \/ RefuseDispatch(c, config)
      PROVE  [Cap!Next]_(Cap!capVars)
  <2> DEFINE ledger == Materialized(config)
             takes  == ledger.limit # NoLimit /\ config.estimate # NoLimit /\ ~Already(c)
             amount == [micros |-> config.estimate, currency |-> config.currency]
  <2>1. CASE AdmitDispatch(c, config) /\ takes
    <3>1. ledger.limit # NoLimit /\ config.estimate # NoLimit /\ ~Already(c)
      BY <2>1
    <3> HIDE DEF ledger, takes
    <3> QED
      BY <2>1, <3>1, AdmissionHolds DEF ledger
  <2>2. CASE RefuseDispatch(c, config) \/ (AdmitDispatch(c, config) /\ ~takes)
    <3>1. entry' = entry
      <4>1. CASE RefuseDispatch(c, config)
        BY <4>1 DEF RefuseDispatch
      <4>2. CASE AdmitDispatch(c, config) /\ ~takes
        <5>1. IF takes THEN Reserve(c, amount) ELSE UNCHANGED <<entry, order>>
          BY <4>2 DEF AdmitDispatch
        <5> HIDE DEF takes, amount
        <5> QED
          BY <4>2, <5>1
      <4> HIDE DEF takes
      <4> QED
        BY <2>2, <4>1, <4>2
    <3>2. budget' = ledger
      BY <1>2 DEF AdmitDispatch, RefuseDispatch
    <3>3. /\ ledger.settled = budget.settled
          /\ ledger = budget \/ (budget.limit = NoLimit /\ ledger.limit # NoLimit)
      <4> HIDE DEF ledger
      <4> QED
        BY MaterializedLedger DEF LedgerInv, ledger
    <3>4. HeldNow' = HeldNow
      BY <3>1 DEF HeldNow, HeldFor, Live
    <3>5. budget'.limit # NoLimit => budget'.limit.micros \in 1..MaxMoney
      BY AccountingAssumption
         DEF LedgerInv, LedgerTypeOK, CapIsMoney, BudgetRecord, Money, Amounts
    <3> HIDE DEF ledger
    <3> QED
      BY <3>2, <3>3, <3>4, <3>5, CapStays
  <2> HIDE DEF takes
  <2> QED
    BY <1>2, <2>1, <2>2
<1>3. ASSUME NEW c \in Calls, NEW claim \in Claims, NEW asserts \in BOOLEAN,
             Account(c, claim, asserts)
      PROVE  [Cap!Next]_(Cap!capVars)
  BY <1>3, AccountCharges
<1>4. ASSUME NEW fenced \in SUBSET Calls, RetainFenced(fenced)
      PROVE  [Cap!Next]_(Cap!capVars)
  <2>1. budget' = budget
    BY <1>4 DEF RetainFenced
  <2>2. \A c \in Calls : entry[c] \in EntryRecord /\ "unresolved" \in Dispositions
    BY DEF LedgerInv, LedgerTypeOK, Dispositions
  <2>3. \A c \in Calls : entry'[c] = Discharged(entry[c], "unresolved") \/ entry'[c] = entry[c]
    BY <1>4 DEF RetainFenced
  <2>4. \A c \in Calls : entry'[c].state = entry[c].state /\ entry'[c].micros = entry[c].micros
    BY <2>2, <2>3, DischargedEntry
  <2>5. HeldNow' = HeldNow
    BY <2>4 DEF HeldNow, HeldFor, Live
  <2> QED
    BY <2>1, <2>5, CapStays
<1>5. ASSUME NEW limit \in Limits, SetProjectBudget(limit)
      PROVE  [Cap!Next]_(Cap!capVars)
  <2>1. budget' = [budget EXCEPT !.limit = limit, !.currency = limit.currency] /\ entry' = entry
    BY <1>5 DEF SetProjectBudget
  <2>2. limit \in Money /\ limit.micros > 0
    BY <1>5, AccountingAssumption DEF SetProjectBudget
  <2>3. budget \in BudgetRecord
    BY DEF LedgerInv, LedgerTypeOK
  <2>4. budget'.settled = budget.settled /\ budget'.limit = limit
    BY <2>1, <2>3 DEF BudgetRecord
  <2>5. limit # NoLimit /\ limit.micros \in 1..MaxMoney
    BY <2>2, AccountingAssumption DEF Money, Amounts
  <2>6. HeldNow' = HeldNow
    BY <2>1 DEF HeldNow, HeldFor, Live
  <2> QED
    BY <2>4, <2>5, <2>6, CapStays
<1>6. LedgerStep
  BY StepIsLedgerStep
<1> QED
  BY <1>1, <1>2, <1>3, <1>4, <1>5, <1>6 DEF LedgerStep

\* Whatever its bookkeeping, the ledger holds money for a Call only while everything
\* committed is under the cap, and charges or frees it once.
THEOREM LedgerKeepsCap == Spec => KeepsSpendingCap
<1>1. Init => Cap!Init
  BY DEF Init, Cap!Init, HeldFor, Live, NoEntry
<1>2. LedgerInv /\ LedgerInv' /\ [Next]_vars => [Cap!Next]_(Cap!capVars)
  BY StepKeepsCap
<1> QED
  BY <1>1, <1>2, LedgerInvariant, PTL DEF Spec, KeepsSpendingCap, Cap!Spec
================================================================================
