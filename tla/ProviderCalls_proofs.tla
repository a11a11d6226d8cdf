------------------------- MODULE ProviderCalls_proofs -------------------------
(***************************************************************************)
(* What goes to a provider and what comes back.                            *)
(*                                                                         *)
(* The budget of a request's context, for any limits a model declares and  *)
(* any policy: the reserves fit the window, what does not fit is compacted *)
(* and a larger request is never in a milder band.                         *)
(*                                                                         *)
(* Compaction, for any conversations, policies and summaries: a request    *)
(* says all of the conversation and a point made is the one that counts.   *)
(*                                                                         *)
(* The repair of calls, for any registry of tools: what is dispatched is   *)
(* valid, and every value of it was sent or is the one bound target.       *)
(*                                                                         *)
(* A round, for any events of either protocol: the calls, the counters,    *)
(* the reason and the end that are used are what was sent.                 *)
(*                                                                         *)
(* The answers of native tools, for any texts: an answer that was cut says *)
(* so, and an effect that happened is never denied.                        *)
(***************************************************************************)
EXTENDS ProviderCalls, Integers, Sequences, FiniteSetTheorems, WellFoundedInduction, TLAPS

LimitsRecord == [context : Nat, input : Nat, output : Nat, reasoning : Nat]
PoliciesRecord == [enabled : BOOLEAN, reducePercent : Nat, compactPercent : Nat,
    absoluteCompact : Nat, responseReserve : Nat, reasoningReserve : Nat, safetyBuffer : Nat,
    assumedPercent : Nat]

\* The band always is the decision on what the request is taken to cost.
BudgetInv ==
    /\ limits \in LimitsRecord /\ policy \in PoliciesRecord /\ Valid(policy)
    /\ measured \in Nat /\ reported \in Nat
    /\ state = Decide(limits, policy, Effective(measured, reported))

---------------------------------------------------------------------------------
(* The reserves. *)

\* Each reserve is an amount within what is left of the window.
LEMMA WithinRoom ==
    ASSUME NEW l \in LimitsRecord, NEW room \in Nat, NEW reserve \in Nat
    PROVE  /\ Within(l, room, reserve) \in Nat
           /\ Trusted(l) => Within(l, room, reserve) <= room
BY DEF Within, Smaller

\* A ceiling is a number of tokens.
LEMMA CeilingType == ASSUME NEW l \in LimitsRecord PROVE Ceiling(l) \in Nat
BY DEF Ceiling, Smaller, LimitsRecord

\* The subtraction that stops at zero (saturating_sub) stays a number of tokens.
LEMMA MinusType ==
    ASSUME NEW a \in Nat, NEW b \in Nat
    PROVE  Minus(a, b) \in Nat /\ (b <= a => Minus(a, b) = a - b)
BY DEF Minus

\* Taken one after another from what the ones before leave, the reserves fit together.
LEMMA Reserves ==
    ASSUME NEW l \in LimitsRecord, NEW p \in PoliciesRecord
    PROVE  /\ TotalReserve(l, p) \in Nat /\ Available(l, p) \in Nat
           /\ Trusted(l) => /\ TotalReserve(l, p) <= Ceiling(l)
                            /\ Available(l, p) = Ceiling(l) - TotalReserve(l, p)
<1> DEFINE c == Ceiling(l)
           o == OutputReserve(l, p)
           r == ReasoningReserve(l, p)
           s == SafetyBuffer(l, p)
<1>1. c \in Nat
  BY CeilingType
<1>2. o \in Nat /\ (Trusted(l) => o <= c)
  <2> DEFINE wanted == IF p.responseReserve > 0 THEN p.responseReserve
                       ELSE IF DeclaredOutput(l) > 0 THEN DeclaredOutput(l) ELSE Assumed
  <2>1. wanted \in Nat
    BY TokensAssumption DEF DeclaredOutput, LimitsRecord, PoliciesRecord
  <2>2. o = Within(l, c, wanted)
    BY DEF OutputReserve
  <2> HIDE DEF wanted, c, o
  <2> QED
    BY <1>1, <2>1, <2>2, WithinRoom
<1>3. Minus(c, o) \in Nat /\ (Trusted(l) => Minus(c, o) = c - o)
  <2> HIDE DEF c, o
  <2> QED
    BY <1>1, <1>2, MinusType
<1>4. r \in Nat /\ (Trusted(l) => r <= Minus(c, o))
  <2> DEFINE wanted == IF l.reasoning > 0 THEN l.reasoning ELSE p.reasoningReserve
  <2>1. wanted \in Nat
    BY DEF LimitsRecord, PoliciesRecord
  <2>2. r = Within(l, Minus(c, o), wanted)
    BY DEF ReasoningReserve
  <2> HIDE DEF wanted, c, o, r
  <2> QED
    BY <1>3, <2>1, <2>2, WithinRoom
<1>5. Minus(Minus(c, o), r) \in Nat /\ (Trusted(l) => Minus(Minus(c, o), r) = c - o - r)
  <2> HIDE DEF c, o, r
  <2> QED
    BY <1>1, <1>2, <1>3, <1>4, MinusType
<1>6. s \in Nat /\ (Trusted(l) => s <= Minus(Minus(c, o), r))
  <2>1. p.safetyBuffer \in Nat /\ s = Within(l, Minus(Minus(c, o), r), p.safetyBuffer)
    BY DEF SafetyBuffer, PoliciesRecord
  <2> HIDE DEF c, o, r, s
  <2> QED
    BY <1>5, <2>1, WithinRoom
<1>7. TotalReserve(l, p) = o + r + s /\ Available(l, p) = Minus(c, o + r + s)
  BY DEF TotalReserve, Available
<1> HIDE DEF c, o, r, s
<1>8. o + r + s \in Nat /\ (Trusted(l) => o + r + s <= c)
  BY <1>1, <1>2, <1>3, <1>4, <1>5, <1>6
<1> QED
  BY <1>1, <1>7, <1>8, MinusType DEF c

---------------------------------------------------------------------------------
(* The invariant. *)

\* What a ratio acts on is a number of tokens: the larger of what is measured and what was reported.
LEMMA EffectiveIsLarger ==
    ASSUME NEW m \in Nat, NEW r \in Nat
    PROVE  /\ Effective(m, r) \in Nat
           /\ Effective(m, r) = IF m <= r THEN r ELSE m
<1> DEFINE slack == (m * SlackBp) \div 10000
<1>1. slack \in Nat
  <2>1. m * SlackBp \in Nat
    BY TokensAssumption
  <2> QED
    BY <2>1
<1>2. Disagrees(m, r) => r < m
  <2>1. Minus(m, slack) \in Nat /\ Minus(m, slack) <= m
    <3> HIDE DEF slack
    <3> QED
      BY <1>1 DEF Minus
  <2>2. Disagrees(m, r) => r < Minus(m, slack)
    BY DEF Disagrees
  <2> HIDE DEF slack
  <2> QED
    BY <2>1, <2>2
<1> QED
  BY <1>2 DEF Effective, Larger

\* Every budget computed keeps the facts both properties are read off.
LEMMA BudgetInvariant == Spec => []BudgetInv
<1>1. Init => BudgetInv
  <2> SUFFICES ASSUME Init PROVE BudgetInv
    OBVIOUS
  <2>1. limits \in LimitsRecord /\ policy \in PoliciesRecord /\ Valid(policy)
    BY LimitsAssumption, PoliciesAssumption DEF Init, LimitsRecord, PoliciesRecord
  <2>2. Effective(0, 0) = 0
    BY EffectiveIsLarger
  <2> QED
    BY <2>1, <2>2 DEF Init, BudgetInv
<1>2. BudgetInv /\ [Next]_vars => BudgetInv'
  <2> SUFFICES ASSUME BudgetInv, [Next]_vars PROVE BudgetInv'
    OBVIOUS
  <2>1. CASE UNCHANGED vars
    BY <2>1 DEF vars, BudgetInv
  <2>2. ASSUME NEW m \in 0..MaxTokens, NEW r \in 0..MaxTokens, Evaluate(m, r) PROVE BudgetInv'
    BY <2>2, TokensAssumption DEF Evaluate, BudgetInv
  <2> QED
    BY <2>1, <2>2 DEF Next
<1> QED
  BY <1>1, <1>2, PTL DEF Spec

---------------------------------------------------------------------------------
(* The theorems. *)

\* For every model and policy the reserves fit the window, and a request that does not
\* fit what they leave is compacted.
THEOREM WindowStaysRespected == Spec => []WindowIsRespected
<1>1. BudgetInv => WindowIsRespected
  <2> SUFFICES ASSUME BudgetInv PROVE ReservesFit /\ OverflowCompacts
    BY DEF WindowIsRespected
  <2>1. /\ limits \in LimitsRecord /\ policy \in PoliciesRecord
        /\ measured \in Nat /\ reported \in Nat
    BY DEF BudgetInv
  <2>2. ReservesFit
    BY <2>1, Reserves DEF ReservesFit
  <2>3. ASSUME policy.enabled, Trusted(limits),
               measured + TotalReserve(limits, policy) > Ceiling(limits)
        PROVE  state = "rollover_required"
    <3> DEFINE used == Effective(measured, reported)
    <3>1. used \in Nat /\ used >= measured
      <4>1. used = IF measured <= reported THEN reported ELSE measured
        BY <2>1, EffectiveIsLarger
      <4> HIDE DEF used
      <4> QED
        BY <2>1, <4>1
    <3>2. Ceiling(limits) \in Nat
      BY <2>1, CeilingType
    <3>3. /\ TotalReserve(limits, policy) \in Nat
          /\ Available(limits, policy) = Ceiling(limits) - TotalReserve(limits, policy)
      BY <2>1, <2>3, Reserves
    <3>4. state = Decide(limits, policy, used)
      BY DEF BudgetInv
    <3> HIDE DEF used
    <3>5. used > Available(limits, policy)
      BY <2>1, <2>3, <3>1, <3>2, <3>3
    <3> QED
      BY <2>3, <3>4, <3>5 DEF Decide
  <2> QED
    BY <2>2, <2>3 DEF OverflowCompacts
<1> QED
  BY <1>1, BudgetInvariant, PTL

\* Quotients by the same divisor are ordered like what is divided.
LEMMA QuotientMonotone ==
    ASSUME NEW a \in Nat, NEW b \in Nat, NEW d \in Nat, d > 0, a <= b
    PROVE  a \div d <= b \div d
<1> DEFINE q == a \div d
           k == b \div d
<1>1. /\ q \in Int /\ k \in Int
      /\ a = d * q + (a % d) /\ b = d * k + (b % d)
      /\ a % d \in 0..(d - 1) /\ b % d \in 0..(d - 1)
  OBVIOUS
<1> QED
  BY <1>1

\* More tokens are in no milder band.
LEMMA MoreIsNoMilder ==
    ASSUME NEW l \in LimitsRecord, NEW p \in PoliciesRecord, Valid(p),
           NEW a \in Nat, NEW b \in Nat, a <= b
    PROVE  Rank[Decide(l, p, b)] >= Rank[Decide(l, p, a)]
<1>1. Available(l, p) \in Nat
  BY Reserves
<1>2. AbsoluteCap(p, a) => AbsoluteCap(p, b)
  BY DEF AbsoluteCap, PoliciesRecord
<1>3. ASSUME NEW percent \in Nat, Reaches(l, p, a, percent) PROVE Reaches(l, p, b, percent)
  <2> DEFINE d == Available(l, p)
  <2>1. d > 0 /\ (a * 10000) \div d >= percent * 100
    BY <1>3 DEF Reaches
  <2>2. a * 10000 \in Nat /\ b * 10000 \in Nat /\ a * 10000 <= b * 10000
    OBVIOUS
  <2> HIDE DEF d
  <2>3. d \in Nat
    BY <1>1 DEF d
  <2>4. (a * 10000) \div d <= (b * 10000) \div d
    BY <2>1, <2>2, <2>3, QuotientMonotone
  <2>5. (a * 10000) \div d \in Int /\ (b * 10000) \div d \in Int /\ percent * 100 \in Int
    BY <2>1, <2>2, <2>3
  <2>6. (b * 10000) \div d >= percent * 100
    BY <2>1, <2>4, <2>5
  <2> QED
    BY <2>1, <2>6 DEF Reaches, d
<1>4. p.compactPercent \in Nat /\ p.reducePercent \in Nat
  BY DEF PoliciesRecord
<1>5. /\ Reaches(l, p, a, p.compactPercent) => Reaches(l, p, b, p.compactPercent)
      /\ Reaches(l, p, a, p.reducePercent) => Reaches(l, p, b, p.reducePercent)
  BY <1>3, <1>4
<1>6. a > Available(l, p) => b > Available(l, p)
  BY <1>1
<1>7. CASE ~p.enabled
  BY <1>7 DEF Decide, Rank
<1>8. CASE p.enabled /\ ~Trusted(l)
  BY <1>2, <1>8 DEF Decide, Rank
<1>9. CASE p.enabled /\ Trusted(l)
  <2> DEFINE over(n) == AbsoluteCap(p, n) \/ n > Available(l, p) \/ Reaches(l, p, n, p.compactPercent)
             band(n) == IF over(n) THEN "rollover_required"
                        ELSE IF Reaches(l, p, n, p.reducePercent) THEN "approaching" ELSE "normal"
  <2>1. Decide(l, p, a) = band(a) /\ Decide(l, p, b) = band(b)
    BY <1>9 DEF Decide
  <2>2. over(a) => over(b)
    BY <1>2, <1>5, <1>6
  <2> HIDE DEF over
  <2>3. Rank[band(b)] >= Rank[band(a)]
    BY <1>5, <2>2 DEF Rank
  <2> QED
    BY <2>1, <2>3
<1> QED
  BY <1>7, <1>8, <1>9

\* A request no smaller, and reported no smaller, is in no milder band: for every
\* window, policy and slack no report reopens a budget that is used up.
THEOREM BandsStayMonotone == Spec => BandsAreMonotone
<1>1. BudgetInv /\ BudgetInv' /\ [Next]_vars =>
         [measured' >= measured /\ reported' >= reported => Rank[state'] >= Rank[state]]_vars
  <2> SUFFICES ASSUME BudgetInv, BudgetInv', Next,
                      measured' >= measured, reported' >= reported
               PROVE  Rank[state'] >= Rank[state]
    OBVIOUS
  <2>1. /\ limits' = limits /\ policy' = policy
    BY DEF Next, Evaluate
  <2> DEFINE a == Effective(measured, reported)
             b == Effective(measured', reported')
  <2>2. /\ measured \in Nat /\ reported \in Nat /\ measured' \in Nat /\ reported' \in Nat
        /\ limits \in LimitsRecord /\ policy \in PoliciesRecord /\ Valid(policy)
    BY DEF BudgetInv
  <2>3. a \in Nat /\ b \in Nat /\ a <= b
    <3>1. a = IF measured <= reported THEN reported ELSE measured
      BY <2>2, EffectiveIsLarger
    <3>2. b = IF measured' <= reported' THEN reported' ELSE measured'
      BY <2>2, EffectiveIsLarger
    <3> HIDE DEF a, b
    <3> QED
      BY <2>2, <3>1, <3>2
  <2>4. state = Decide(limits, policy, a) /\ state' = Decide(limits, policy, b)
    BY <2>1 DEF BudgetInv
  <2> HIDE DEF a, b
  <2> QED
    BY <2>2, <2>3, <2>4, MoreIsNoMilder
<1> QED
  BY <1>1, BudgetInvariant, PTL DEF Spec, BandsAreMonotone

---------------------------------------------------------------------------------
(* Compaction, for any conversations, policies and summaries. *)

\* The cardinality that the instance takes from the library is the library's.
LEMMA SameCardinality == \A S : Compact!Cardinality(S) = Cardinality(S)
BY Zenon DEF Compact!Cardinality, Cardinality

\* A set of numbers has a least one.
LEMMA NatHasLeast ==
    ASSUME NEW T \in SUBSET Nat, T # {}
    PROVE  \E x \in T : \A y \in T : x <= y
<1> DEFINE R == {ss \in Nat \X Nat : ss[1] < ss[2]}
<1>1. IsWellFoundedOn(R, Nat)
  BY NatLessThanWellFounded DEF OpToRel
<1>2. PICK x \in T : \A y \in T : <<y, x>> \notin R
  <2> HIDE DEF R
  <2> QED
    BY <1>1, WFMin
<1>3. \A y \in T : ~(y < x)
  BY <1>2
<1> QED
  BY <1>2, <1>3

\* A set of numbers that a number bounds has a greatest one.
LEMMA BoundedHasGreatest ==
    ASSUME NEW n \in Nat, NEW T \in SUBSET (0..n), T # {}
    PROVE  \E x \in T : \A y \in T : y <= x
<1> DEFINE D == {n - x : x \in T}
<1>1. \A x \in T : x \in Nat /\ x <= n /\ n - x \in Nat
  OBVIOUS
<1>6. D \in SUBSET Nat /\ D # {}
  BY <1>1
<1>2. PICK d \in D : \A e \in D : d <= e
  <2> HIDE DEF D
  <2> QED
    BY <1>6, NatHasLeast
<1>3. PICK x \in T : d = n - x
  BY <1>2
<1>4. \A y \in T : n - x <= n - y
  BY <1>2, <1>3
<1>5. \A y \in T : y <= x
  BY <1>1, <1>3, <1>4
<1> QED
  BY <1>3, <1>5

\* What may stand for the beginning of the conversation: a summary of all of it up to a question.
Begins(n) == n = Len(history) \/ history[n + 1].role = "user"
Stands(p) == p.through \in 0..Len(history) /\ p.covers = 1..p.through /\ Begins(p.through)

Messages == [role : {"user", "assistant"}, size : Nat]
CompactInv ==
    /\ history \in Conversations
    /\ \A p \in points : Stands(p)
    /\ pending # Compact!None =>
          /\ pending = [through |-> pending.through, covers |-> pending.covers, size |-> pending.size]
          /\ Stands(pending) /\ ~compacted
          /\ \A q \in points : q.through < pending.through
    /\ Compact!RequestsCoverHistory /\ Compact!RepliesHaveTheirQuestion
    /\ compacted => /\ ~Compact!Required(Compact!ActivePoint(points))
                    /\ Compact!ActivePoint(points).covers = request.covers

\* Without a point the conversation stands for itself: it begins with a question.
LEMMA NothingStands ==
    ASSUME Compact!CompactionAssumption, history \in Conversations
    PROVE  Stands(Compact!None) /\ history \in Seq(Messages)
<1>1. history \in Seq(Messages) /\ (history # <<>> => history[1].role = "user")
  BY DEF Compact!CompactionAssumption, Messages
<1>2. Len(history) \in Nat /\ (Len(history) = 0 => history = <<>>)
  BY <1>1
<1>3. 1..0 = {}
  OBVIOUS
<1>4. Begins(0)
  BY <1>1, <1>2 DEF Begins
<1>5. Compact!None.through = 0 /\ Compact!None.covers = {}
  BY DEF Compact!None
<1> QED
  BY <1>1, <1>2, <1>3, <1>4, <1>5 DEF Stands

\* The active point is the one furthest into the conversation.
LEMMA ActiveIsNewest ==
    ASSUME Compact!CompactionAssumption, history \in Conversations, NEW P, \A p \in P : Stands(p)
    PROVE  LET active == Compact!ActivePoint(P) IN
           /\ Stands(active)
           /\ active \in P \/ P = {}
           /\ \A q \in P : q.through <= active.through
<1> DEFINE applies == {p \in P : p.through <= Len(history)}
           T == {p.through : p \in applies}
<1>1. Len(history) \in Nat
  BY NothingStands
<1>2. applies = P
  BY <1>1 DEF Stands
<1>3. T \in SUBSET (0..Len(history))
  BY DEF Stands
<1>4. CASE P = {}
  BY <1>2, <1>4, NothingStands DEF Compact!ActivePoint
<1>5. CASE P # {}
  <2>1. T # {}
    BY <1>2, <1>5
  <2>2. PICK n \in T : \A m \in T : m <= n
    <3> HIDE DEF T
    <3> QED
      BY <1>1, <1>3, <2>1, BoundedHasGreatest
  <2>3. \E p \in applies : \A q \in applies : q.through <= p.through
    BY <2>2
  <2>4. Compact!ActivePoint(P) = CHOOSE p \in applies : \A q \in applies : q.through <= p.through
    BY <1>2, <1>5 DEF Compact!ActivePoint
  <2>5. Compact!ActivePoint(P) \in P /\ \A q \in P : q.through <= Compact!ActivePoint(P).through
    <3> HIDE DEF applies
    <3> QED
      BY <1>2, <2>3, <2>4
  <2> QED
    BY <2>5
<1> QED
  BY <1>4, <1>5

\* The tail begins at a question, or is empty, or nothing before it is new.
LEMMA TailBegins ==
    ASSUME Compact!CompactionAssumption, history \in Conversations, NEW from \in 0..Len(history)
    PROVE  LET through == Compact!SelectTail(from) - 1 IN
           through \in from..Len(history) /\ (through > from => Begins(through))
<1> DEFINE starts == Compact!TurnStarts(from)
           considered == {s \in starts : Compact!Cardinality({t \in starts : t >= s}) <= MaxTurns}
           fitting == {s \in considered : Compact!Tokens(s..Len(history)) <= tailBudget}
<1>1. Len(history) \in Nat
  BY NothingStands
<1>2. starts \subseteq (from + 1)..Len(history)
      /\ \A s \in starts : s = from + 1 \/ history[s].role = "user"
  BY <1>1 DEF Compact!TurnStarts, Compact!After
<1> HIDE DEF starts
<1>3. fitting \subseteq starts
  OBVIOUS
<1>4. Compact!SelectTail(from) = IF fitting = {} \/ tailBudget = 0 THEN Len(history) + 1 ELSE Compact!Min(fitting)
  BY DEF Compact!SelectTail, starts
<1> HIDE DEF fitting, considered
<1>5. CASE fitting = {} \/ tailBudget = 0
  BY <1>1, <1>4, <1>5 DEF Begins
<1>6. CASE ~(fitting = {} \/ tailBudget = 0)
  <2>1. fitting \in SUBSET Nat /\ fitting # {}
    BY <1>1, <1>2, <1>3, <1>6
  <2>2. \E x \in fitting : \A y \in fitting : x <= y
    BY <2>1, NatHasLeast
  <2>3. Compact!Min(fitting) \in fitting
    BY <2>2 DEF Compact!Min
  <2>4. PICK s \in starts : Compact!SelectTail(from) = s
    BY <1>3, <1>4, <1>6, <2>3
  <2>5. s \in (from + 1)..Len(history) /\ (s = from + 1 \/ history[s].role = "user")
    BY <1>2
  <2>6. s - 1 \in from..Len(history) /\ (s - 1 > from => history[(s - 1) + 1].role = "user")
    BY <1>1, <2>5
  <2> QED
    BY <2>4, <2>6 DEF Begins
<1> QED
  BY <1>5, <1>6

\* A plan that covers something new stands for all up to its tail.
LEMMA PlansStand ==
    ASSUME Compact!CompactionAssumption, history \in Conversations, NEW active, Stands(active)
    PROVE  LET plan == Compact!Planned(active) IN
           /\ plan = [through |-> plan.through, covers |-> plan.covers, size |-> plan.size]
           /\ plan.through > active.through => Stands(plan)
<1> DEFINE through == Compact!SelectTail(active.through) - 1
<1>1. Len(history) \in Nat /\ active.through \in 0..Len(history) /\ active.covers = 1..active.through
  BY NothingStands DEF Stands
<1>2. through \in active.through..Len(history) /\ (through > active.through => Begins(through))
  BY <1>1, TailBegins
<1>3. Compact!Planned(active)
        = [through |-> through, covers |-> active.covers \cup ((active.through + 1)..through), size |-> 0]
  BY DEF Compact!Planned
<1> HIDE DEF through
<1>4. (1..active.through) \cup ((active.through + 1)..through) = 1..through
  BY <1>1, <1>2
<1> QED
  BY <1>1, <1>2, <1>3, <1>4 DEF Stands

\* A summary with what follows it is all of the conversation, and leaves no reply alone.
LEMMA StandingCovers ==
    ASSUME Compact!CompactionAssumption, history \in Conversations, NEW p, Stands(p)
    PROVE  /\ p.covers \cup Compact!After(p.through) = 1..Len(history)
           /\ \A i \in Compact!After(p.through) :
                history[i].role = "assistant" => i - 1 \in Compact!After(p.through)
<1>1. Len(history) \in Nat /\ p.through \in 0..Len(history) /\ p.covers = 1..p.through /\ Begins(p.through)
  BY NothingStands DEF Stands
<1>2. Compact!After(p.through) = (p.through + 1)..Len(history)
  BY DEF Compact!After
<1>3. ASSUME NEW i \in (p.through + 1)..Len(history), history[i].role = "assistant"
      PROVE  i - 1 \in (p.through + 1)..Len(history)
  <2>1. i # p.through + 1
    BY <1>1, <1>3 DEF Begins
  <2> QED
    BY <1>1, <2>1
<1>4. (1..p.through) \cup ((p.through + 1)..Len(history)) = 1..Len(history)
  BY <1>1
<1> QED
  BY <1>1, <1>2, <1>3, <1>4

\* What the policy requires and which point is active is a matter of the conversation, the block,
\* the cap and the points.
LEMMA RequirementsStay ==
    ASSUME UNCHANGED <<history, cap, block>>
    PROVE  \A p : Compact!Required(p)' <=> Compact!Required(p)
<1>1. \A S : Compact!Tokens(S)' = Compact!Tokens(S)
  BY DEF Compact!Tokens, Compact!Positions
<1>2. \A n : Compact!After(n)' = Compact!After(n)
  BY DEF Compact!After
<1>3. \A p : Compact!Projected(p)' = Compact!Projected(p)
  BY <1>1, <1>2 DEF Compact!Projected
<1> QED
  BY <1>3 DEF Compact!Required

\* Which of some points is active is a matter of the conversation alone.
LEMMA ActiveStays ==
    ASSUME UNCHANGED history
    PROVE  \A P : Compact!ActivePoint(P)' = Compact!ActivePoint(P)
BY DEF Compact!ActivePoint

\* A request made on what stands covers the conversation, or keeps what it has.
LEMMA RequestsOnPoints ==
    ASSUME Compact!CompactionAssumption, history \in Conversations, history' = history, NEW p, Stands(p),
           request'.verbatim = Compact!After(p.through), request'.length = Len(history),
           request'.how = "kept" \/ request'.covers = p.covers
    PROVE  Compact!RequestsCoverHistory' /\ Compact!RepliesHaveTheirQuestion'
<1>1. /\ p.covers \cup Compact!After(p.through) = 1..Len(history)
      /\ \A i \in Compact!After(p.through) :
           history[i].role = "assistant" => i - 1 \in Compact!After(p.through)
  BY StandingCovers
<1>2. Compact!RequestsCoverHistory'
  BY <1>1 DEF Compact!RequestsCoverHistory
<1>3. Compact!RepliesHaveTheirQuestion'
  BY <1>1 DEF Compact!RepliesHaveTheirQuestion
<1> QED
  BY <1>2, <1>3

\* A conversation kept because no summary stands in for it.
LEMMA KeepingKeeps ==
    ASSUME Compact!CompactionAssumption, CompactInv, Compact!KeepWhole, pending # Compact!None,
           pending' = Compact!None, UNCHANGED <<history, cap, block>>
    PROVE  CompactInv'
<1> DEFINE active == Compact!ActivePoint(points)
<1>1. Stands(active)
  BY ActiveIsNewest DEF CompactInv
<1>2. request' = [how |-> "kept", covers |-> {}, verbatim |-> Compact!After(active.through), length |-> Len(history)]
  BY DEF Compact!KeepWhole, Compact!Send, Compact!None
<1>3. Compact!RequestsCoverHistory' /\ Compact!RepliesHaveTheirQuestion'
  <2> HIDE DEF active
  <2> QED
    BY <1>1, <1>2, RequestsOnPoints DEF CompactInv
<1>4. points' = points /\ compacted' = compacted /\ ~compacted
  BY DEF Compact!KeepWhole, CompactInv
<1>5. \A p \in points' : Stands(p)'
  BY <1>4 DEF CompactInv, Stands, Begins
<1> QED
  BY <1>3, <1>4, <1>5 DEF CompactInv, Compact!None

\* The assembling of a request.
LEMMA AssemblingKeeps ==
    ASSUME Compact!CompactionAssumption, CompactInv, Compact!Assemble
    PROVE  CompactInv'
<1> DEFINE active == Compact!ActivePoint(points)
           plan == Compact!Planned(active)
<1>1. pending = Compact!None /\ UNCHANGED <<history, points, cap, tailBudget, block, compacted>>
  BY DEF Compact!Assemble
<1>2. history \in Conversations /\ Stands(active) /\ \A q \in points : q.through <= active.through
  BY ActiveIsNewest DEF CompactInv
<1>3. \A p : Stands(p)' <=> Stands(p)
  BY <1>1 DEF Stands, Begins
<1>4. Compact!ActivePoint(points)' = active
  BY <1>1, ActiveStays
<1>5. \A p : Compact!Required(p)' <=> Compact!Required(p)
  BY <1>1, RequirementsStay
<1>6. CASE ~Compact!Required(active)
  <2>1. pending' = pending
        /\ request' = [how |-> "projected", covers |-> active.covers, verbatim |-> Compact!After(active.through),
                       length |-> Len(history)]
    BY <1>6 DEF Compact!Assemble, Compact!Send
  <2> HIDE DEF active, plan
  <2>2. Compact!RequestsCoverHistory' /\ Compact!RepliesHaveTheirQuestion'
    BY <1>1, <1>2, <2>1, RequestsOnPoints
  <2>3. ~Compact!Required(Compact!ActivePoint(points))'
    <3>1. PICK a : a = active
      OBVIOUS
    <3>2. ~Compact!Required(a)'
      BY <1>5, <1>6, <3>1
    <3> QED
      BY <1>4, <3>1, <3>2
  <2>9. Compact!ActivePoint(points)'.covers = request'.covers
    BY <1>4, <2>1
  <2>4. (\A p \in points : Stands(p))'
    BY <1>1, <1>3 DEF CompactInv
  <2> QED
    BY <1>1, <1>2, <2>1, <2>2, <2>3, <2>4, <2>9 DEF CompactInv, Compact!None
<1>7. CASE Compact!Required(active)
  <2>0. ~compacted
    BY <1>7 DEF CompactInv
  <2>1. CASE plan.through <= active.through
    <3>1. pending' = pending
          /\ request' = [how |-> "assembled", covers |-> {}, verbatim |-> 1..Len(history), length |-> Len(history)]
      BY <1>7, <2>1 DEF Compact!Assemble, Compact!Send, Compact!None, Compact!Positions
    <3>2. Compact!After(Compact!None.through) = 1..Len(history) /\ Compact!None.covers = {}
      BY DEF Compact!After, Compact!None
    <3>3. Compact!RequestsCoverHistory' /\ Compact!RepliesHaveTheirQuestion'
      BY <1>1, <1>2, <3>1, <3>2, NothingStands, RequestsOnPoints
    <3>4. (\A p \in points : Stands(p))'
      BY <1>1, <1>3 DEF CompactInv
    <3> QED
      BY <1>1, <1>2, <2>0, <3>1, <3>3, <3>4 DEF CompactInv, Compact!None
  <2>2. CASE ~(plan.through <= active.through)
    <3>1. pending' = plan /\ request' = request
      BY <1>7, <2>2 DEF Compact!Assemble
    <3>2. Len(history) \in Nat /\ active.through \in Nat
      BY <1>2, NothingStands DEF Stands
    <3>3. plan = [through |-> plan.through, covers |-> plan.covers, size |-> plan.size]
          /\ (plan.through > active.through => Stands(plan))
      BY <1>2, PlansStand
    <3>4. plan.through \in active.through..Len(history)
      BY <1>2, TailBegins DEF Compact!Planned, Stands
    <3> HIDE DEF active, plan
    <3>5. plan.through > active.through /\ Stands(plan)
      BY <2>2, <3>2, <3>3, <3>4
    <3>6. \A q \in points : q.through < plan.through
      BY <1>2, <3>2, <3>4, <3>5 DEF CompactInv, Stands
    <3>7. Compact!RequestsCoverHistory' /\ Compact!RepliesHaveTheirQuestion'
      BY <1>1, <3>1 DEF CompactInv, Compact!RequestsCoverHistory, Compact!RepliesHaveTheirQuestion
    <3>8. (\A p \in points : Stands(p))' /\ Stands(pending)'
      BY <1>1, <1>3, <3>1, <3>5 DEF CompactInv, Stands, Begins
    <3> QED
      BY <1>1, <1>2, <2>0, <3>1, <3>3, <3>6, <3>7, <3>8 DEF CompactInv
  <2> QED
    BY <2>1, <2>2
<1> QED
  BY <1>6, <1>7

\* An accepted summary becomes the newest point, and stays the active one.
LEMMA SummarizingKeeps ==
    ASSUME Compact!CompactionAssumption, CompactInv, NEW size, Compact!Summarized(size)
    PROVE  CompactInv'
<1> DEFINE accepted == [pending EXCEPT !.size = size]
<1>1. pending # Compact!None /\ pending' = Compact!None /\ UNCHANGED <<history, cap, block>>
  BY DEF Compact!Summarized
<1>2. accepted = [through |-> pending.through, covers |-> pending.covers, size |-> size]
  BY <1>1 DEF CompactInv
<1>3. Stands(accepted) /\ \A q \in points : q.through < accepted.through
  BY <1>1, <1>2 DEF CompactInv, Stands
<1>4. CASE Compact!Required(accepted)
  BY <1>1, <1>4, KeepingKeeps DEF Compact!Summarized
<1>5. CASE ~Compact!Required(accepted)
  <2>1. /\ request' = [how |-> "projected", covers |-> accepted.covers,
                       verbatim |-> Compact!After(accepted.through), length |-> Len(history)]
        /\ points' = Compact!Recorded(accepted) /\ compacted' = TRUE
    BY <1>5 DEF Compact!Summarized, Compact!Send
  <2> HIDE DEF accepted
  <2>2. history \in Conversations /\ Len(history) \in Nat /\ accepted.through \in Nat
        /\ \A q \in points : q.through \in Nat
    BY <1>3, NothingStands DEF CompactInv, Stands
  <2>3. points' \subseteq points \cup {accepted}
    BY <2>1 DEF Compact!Recorded
  <2>4. accepted \in points'
    <3> DEFINE newer == {r \in points \cup {accepted} : r.through > accepted.through}
    <3>1. newer = {}
      BY <1>3, <2>2
    <3>2. Compact!Cardinality({}) = 0
      BY SameCardinality, FS_EmptySet
    <3>3. Compact!Cardinality(newer) < MaxPoints
      <4> HIDE DEF newer
      <4> QED
        BY <3>1, <3>2 DEF Compact!CompactionAssumption
    <3> QED
      BY <2>1, <3>3 DEF Compact!Recorded
  <2>5. \A p \in points' : Stands(p)
    BY <1>3, <2>3 DEF CompactInv
  <2>6. Compact!ActivePoint(points') = accepted
    <3>1. LET active == Compact!ActivePoint(points') IN
            active \in points' /\ accepted.through <= active.through
      BY <2>2, <2>4, <2>5, ActiveIsNewest
    <3> QED
      BY <1>3, <2>2, <2>3, <3>1
  <2>7. Compact!ActivePoint(points)' = accepted
    BY <1>1, <2>6, ActiveStays
  <2>8. ~Compact!Required(Compact!ActivePoint(points))'
    BY <1>1, <1>5, <2>7, RequirementsStay
  <2>9. Compact!RequestsCoverHistory' /\ Compact!RepliesHaveTheirQuestion'
    BY <1>1, <1>3, <2>1, <2>2, RequestsOnPoints
  <2>10. \A p \in points' : Stands(p)'
    BY <1>1, <2>5 DEF Stands, Begins
  <2> QED
    BY <1>1, <2>1, <2>2, <2>7, <2>8, <2>9, <2>10 DEF CompactInv, Compact!None
<1> QED
  BY <1>4, <1>5

\* The invariant of compaction.
LEMMA CompactionHolds ==
    ASSUME Compact!CompactionAssumption
    PROVE  Compact!Spec => []CompactInv
<1>1. Compact!Init => CompactInv
  BY DEF Compact!Init, CompactInv, Compact!RequestsCoverHistory, Compact!RepliesHaveTheirQuestion
<1>2. ASSUME CompactInv, [Compact!Next]_Compact!vars PROVE CompactInv'
  <2>1. CASE Compact!Assemble
    BY <1>2, <2>1, AssemblingKeeps
  <2>2. CASE Compact!Rejected
    BY <1>2, <2>2, KeepingKeeps DEF Compact!Rejected
  <2>3. ASSUME NEW size, Compact!Summarized(size) PROVE CompactInv'
    BY <1>2, <2>3, SummarizingKeeps
  <2>4. ASSUME UNCHANGED <<history, points, pending, request>>, pending = Compact!None, ~compacted' PROVE CompactInv'
    BY <1>2, <2>4 DEF CompactInv, Stands, Begins, Compact!RequestsCoverHistory, Compact!RepliesHaveTheirQuestion,
                      Compact!None
  <2>5. CASE Compact!StateGrows \/ Compact!Reconfigure
    BY <2>4, <2>5 DEF Compact!StateGrows, Compact!Reconfigure
  <2>6. CASE UNCHANGED Compact!vars
    <3>1. UNCHANGED <<history, points, cap, tailBudget, block, pending, request, compacted>>
      BY <2>6 DEF Compact!vars
    <3>2. Compact!ActivePoint(points)' = Compact!ActivePoint(points)
      BY <3>1, ActiveStays
    <3>3. Compact!Required(Compact!ActivePoint(points))' <=> Compact!Required(Compact!ActivePoint(points))
      BY <3>1, <3>2, RequirementsStay
    <3> QED
      BY <1>2, <3>1, <3>2, <3>3 DEF CompactInv, Stands, Begins, Compact!RequestsCoverHistory,
           Compact!RepliesHaveTheirQuestion, Compact!None
  <2> QED
    BY <1>2, <2>1, <2>2, <2>3, <2>5, <2>6 DEF Compact!Next
<1> QED
  BY <1>1, <1>2, PTL DEF Compact!Spec

\* For any conversations, policies, budgets and summaries: a request says all of the conversation, no
\* reply lacks its question, and the point recorded is the one that counts, without another summary
\* until something changes (provider_context.rs, projection.rs, tail.rs).
THEOREM CompactionLosesNothingEver ==
    ASSUME Compact!CompactionAssumption
    PROVE  Compact!Spec => []CompactionLosesNothing
<1>1. CompactInv => Compact!CompactionLosesNothing
  <2> SUFFICES ASSUME CompactInv PROVE Compact!CompactionLosesNothing
    OBVIOUS
  <2>1. Compact!NoSummaryLoop
    BY DEF CompactInv, Compact!NoSummaryLoop
  <2>2. Stands(Compact!ActivePoint(points))
    BY ActiveIsNewest DEF CompactInv
  <2>3. Compact!RecordedPointsGovern
    BY <2>2 DEF CompactInv, Compact!RecordedPointsGovern, Stands
  <2> QED
    BY <2>1, <2>3 DEF CompactInv, Compact!CompactionLosesNothing
<1> QED
  BY <1>1, CompactionHolds, PTL DEF CompactionLosesNothing

---------------------------------------------------------------------------------
(* Call recovery, for any registry. *)

States == {"claimed", "completed", "failed"}

\* Every Call that was admitted, not the last alone, is valid for its tool.
AdmittedAreValid ==
    /\ \E A : admitted \in Seq([tool : DOMAIN Tools, args : A, state : States])
    /\ \A i \in DOMAIN admitted : Recovery!Preflight(admitted[i].tool, admitted[i].args)

RecoveryInv == AdmittedAreValid /\ Recovery!RepairsInventNothing

\* A call is admitted for the one tool that answers to its name in some way.
LEMMA OneToolIsNamed ==
    ASSUME Recovery!RecoveryAssumption, NEW name \in DOMAIN NamesOf, NEW t \in Recovery!ResolveTool(name)
    PROVE  /\ t \in DOMAIN Tools
           /\ {NamesOf[name].exact, NamesOf[name].alias, NamesOf[name].folded} \cap {{t}} # {}
<1>1. /\ NamesOf[name].exact \cup NamesOf[name].alias \cup NamesOf[name].folded \subseteq DOMAIN Tools
      /\ NamesOf[name].exact = {} \/ Recovery!Single(NamesOf[name].exact)
  BY DEF Recovery!RecoveryAssumption
<1>2. \/ t \in NamesOf[name].exact /\ Recovery!Single(NamesOf[name].exact)
      \/ t \in NamesOf[name].alias /\ Recovery!Single(NamesOf[name].alias)
      \/ t \in NamesOf[name].folded /\ Recovery!Single(NamesOf[name].folded)
  BY <1>1 DEF Recovery!ResolveTool
<1>3. \A S : t \in S /\ Recovery!Single(S) => S = {t}
  BY DEF Recovery!Single
<1>4. {t} \in {NamesOf[name].exact, NamesOf[name].alias, NamesOf[name].folded}
  BY <1>2, <1>3
<1> QED
  BY <1>1, <1>2, <1>4

\* Where a repaired call may have its values from.
Sent(t, args, repaired, bound) ==
    \A f \in DOMAIN repaired :
        \/ f \in DOMAIN args /\ repaired[f] = args[f]
        \/ \E alias \in DOMAIN args \cap DOMAIN Tools[t].aliases :
            Tools[t].aliases[alias] = f /\ repaired[f] = args[alias]
        \/ f = Tools[t].target /\ bound = {repaired[f]}

\* A rename moves a value the model sent.
LEMMA RenamedIsSent ==
    ASSUME NEW t, NEW args, NEW bound, NEW named, named = Recovery!NoField \/ named \in DOMAIN args
    PROVE  Sent(t, args, Recovery!Rename(t, args, named), bound)
<1>1. CASE named = Recovery!NoField
  BY <1>1 DEF Sent, Recovery!Rename
<1>2. CASE named # Recovery!NoField /\ named \in DOMAIN Tools[t].aliases /\ Tools[t].aliases[named] \notin DOMAIN args
  BY <1>2 DEF Sent, Recovery!Rename, Recovery!Put, Recovery!Drop
<1>3. CASE named # Recovery!NoField /\ ~(named \in DOMAIN Tools[t].aliases /\ Tools[t].aliases[named] \notin DOMAIN args)
  BY <1>3 DEF Sent, Recovery!Rename, Recovery!Drop
<1> QED
  BY <1>1, <1>2, <1>3

\* A target that is filled in is the one that is bound.
LEMMA ReboundIsSent ==
    ASSUME NEW t, NEW args, NEW repaired, Sent(t, args, repaired, Recovery!BoundTargets(t))
    PROVE  Sent(t, args, Recovery!Rebind(t, args, repaired), Recovery!BoundTargets(t))
<1> DEFINE bound == Recovery!BoundTargets(t)
           v == CHOOSE v \in bound : TRUE
           fills == Tools[t].target \in Recovery!Missing(t, args) /\ Recovery!Single(bound)
<1>1. Recovery!Rebind(t, args, repaired)
          = IF fills THEN Recovery!Put(repaired, Tools[t].target, v) ELSE repaired
  BY Zenon DEF Recovery!Rebind
<1>2. Recovery!Single(bound) => bound = {v}
  BY DEF Recovery!Single
<1> HIDE DEF bound, v
<1>3. fills => Sent(t, args, Recovery!Put(repaired, Tools[t].target, v), bound)
  BY <1>2 DEF Sent, Recovery!Put, bound
<1> QED
  BY <1>1, <1>3 DEF bound

\* Whatever is dispatched is valid and from what was sent; what was valid is as it was sent.
LEMMA WhatIsDispatched ==
    ASSUME NEW t, NEW args, NEW named, named = Recovery!NoField \/ named \in DOMAIN args,
           Recovery!Recover(t, args, named).kind = "dispatch"
    PROVE  LET o == Recovery!Recover(t, args, named) IN
           /\ Recovery!Preflight(t, o.args)
           /\ Sent(t, args, o.args, Recovery!BoundTargets(t))
           /\ Recovery!Preflight(t, args) => o.args = args
<1> DEFINE repaired == Recovery!Rebind(t, args, Recovery!Rename(t, args, named))
           o == Recovery!Recover(t, args, named)
<1>1. Sent(t, args, repaired, Recovery!BoundTargets(t))
  BY RenamedIsSent, ReboundIsSent
<1>2. Sent(t, args, args, Recovery!BoundTargets(t))
  BY DEF Sent
<1>3. CASE Recovery!Preflight(t, args)
  <2>1. o.args = args
    BY <1>3 DEF Recovery!Recover, Recovery!Outcome
  <2> QED
    BY <1>2, <1>3, <2>1
<1>4. CASE ~Recovery!Preflight(t, args)
  <2> HIDE DEF repaired
  <2>1. o = IF Recovery!Preflight(t, repaired) THEN Recovery!Outcome("dispatch", repaired, {})
            ELSE Recovery!Outcome("repair", repaired, Recovery!Missing(t, repaired) \cup Recovery!Invalid(t, repaired))
    BY <1>4 DEF Recovery!Recover, repaired
  <2>2. Recovery!Preflight(t, repaired) /\ o.args = repaired
    BY <2>1 DEF Recovery!Outcome
  <2> QED
    BY <1>1, <1>4, <2>2
<1> QED
  BY <1>3, <1>4

\* What is valid on a strict wire is valid as it was meant.
LEMMA StrictIsValid ==
    ASSUME NEW t, NEW raw, Recovery!StrictlyValid(t, raw)
    PROVE  Recovery!Preflight(t, Recovery!Canonical(t, raw))
<1> DEFINE args == Recovery!Canonical(t, raw)
<1>1. /\ DOMAIN args = DOMAIN raw \ {f \in Tools[t].optional : raw[f] = Recovery!Null}
      /\ \A f \in DOMAIN args : args[f] = raw[f]
  BY DEF Recovery!Canonical, Recovery!Drop, Recovery!StrictlyValid, Recovery!Declared
<1>2. /\ DOMAIN raw = Recovery!Declared(t)
      /\ \A f \in Recovery!Declared(t) \cap DOMAIN raw : raw[f] # Recovery!Bad
      /\ \A f \in Tools[t].required : raw[f] # Recovery!Null
  BY DEF Recovery!StrictlyValid, Recovery!Invalid
<1>3. \A f \in Recovery!Declared(t) : f \in Tools[t].required \/ f \in Tools[t].optional
  BY DEF Recovery!Declared
<1>4. Tools[t].required \subseteq Recovery!Declared(t)
  BY DEF Recovery!Declared
<1> HIDE DEF args
<1>5. Tools[t].required \subseteq DOMAIN args
  BY <1>1, <1>2, <1>4
<1>6. \A f \in DOMAIN args : args[f] # Recovery!Null /\ args[f] # Recovery!Bad
  BY <1>1, <1>2, <1>3
<1>7. Recovery!Missing(t, args) = {}
  BY <1>5, <1>6 DEF Recovery!Missing
<1>8. Recovery!Invalid(t, args) = {}
  BY <1>6 DEF Recovery!Invalid
<1>9. Recovery!Undeclared(t, args) = {}
  BY <1>1, <1>2 DEF Recovery!Undeclared
<1>10. Recovery!Preflight(t, args)
  BY <1>7, <1>8, <1>9 DEF Recovery!Preflight
<1> QED
  BY <1>10 DEF args

\* Without a dispatch, nothing is said of one.
LEMMA NotDispatched ==
    ASSUME last.kind # "dispatch"
    PROVE  Recovery!RepairsInventNothing
BY DEF Recovery!RepairsInventNothing, Recovery!DispatchIsValid, Recovery!NothingIsInvented,
       Recovery!NamesAreUnambiguous, Recovery!SubstitutesAreNotRepaired

Admitted(A) == [tool : DOMAIN Tools, args : A, state : States]

\* What is admitted is appended to what was.
LEMMA AdmittingKeepsTheValid ==
    ASSUME AdmittedAreValid, NEW t \in DOMAIN Tools, NEW final, Recovery!Preflight(t, final),
           admitted' = Append(admitted, [tool |-> t, args |-> final, state |-> "claimed"])
    PROVE  AdmittedAreValid'
<1> DEFINE c == [tool |-> t, args |-> final, state |-> "claimed"]
<1>1. PICK A : admitted \in Seq(Admitted(A))
  BY DEF AdmittedAreValid, Admitted
<1>2. c \in Admitted(A \cup {final}) /\ Admitted(A) \subseteq Admitted(A \cup {final})
  BY DEF Admitted, States
<1>3. c.tool = t /\ c.args = final
  OBVIOUS
<1> DEFINE S == Admitted(A)
           T == Admitted(A \cup {final})
<1> HIDE DEF c, S, T
<1>4. admitted \in Seq(T) /\ c \in T
  <2>1. admitted \in Seq(S) /\ S \subseteq T /\ c \in T
    BY <1>1, <1>2 DEF S, T
  <2>2. DOMAIN admitted = 1..Len(admitted) /\ Len(admitted) \in Nat /\ \A i \in DOMAIN admitted : admitted[i] \in S
    BY <2>1
  <2>3. admitted = [i \in 1..Len(admitted) |-> admitted[i]]
    BY <2>1
  <2> QED
    BY <2>1, <2>2, <2>3
<1>5. admitted' = Append(admitted, c)
  BY DEF c
<1>6. /\ admitted' \in Seq(T)
      /\ \A i \in DOMAIN admitted' : (i \in DOMAIN admitted /\ admitted'[i] = admitted[i]) \/ admitted'[i] = c
  BY <1>4, <1>5
<1>7. \E B : admitted' \in Seq(Admitted(B))
  BY <1>6 DEF T
<1>8. \A i \in DOMAIN admitted' : Recovery!Preflight(admitted'[i].tool, admitted'[i].args)
  BY <1>3, <1>6 DEF AdmittedAreValid
<1> QED
  BY <1>7, <1>8 DEF AdmittedAreValid, Admitted, Recovery!Preflight, Recovery!Missing, Recovery!Invalid,
       Recovery!Undeclared, Recovery!Declared

\* A Call that ends is the Call it was.
LEMMA EndingKeepsTheValid ==
    ASSUME AdmittedAreValid, NEW i \in DOMAIN admitted, NEW outcome \in {"completed", "failed"},
           Recovery!End(i, outcome)
    PROVE  AdmittedAreValid'
<1>1. PICK A : admitted \in Seq(Admitted(A))
  BY DEF AdmittedAreValid, Admitted
<1>2. admitted' = [admitted EXCEPT ![i].state = outcome]
  BY DEF Recovery!End
<1>3. \A q \in Admitted(A) : LET r == [q EXCEPT !.state = outcome] IN
          r \in Admitted(A) /\ r.tool = q.tool /\ r.args = q.args
  BY DEF Admitted, States
<1>4. \A j \in DOMAIN admitted : admitted[j] \in Admitted(A)
  BY <1>1
<1>5. /\ DOMAIN admitted' = DOMAIN admitted
      /\ \A j \in DOMAIN admitted : admitted'[j] = admitted[j] \/ admitted'[j] = [admitted[j] EXCEPT !.state = outcome]
  BY <1>2
<1>6. \A j \in DOMAIN admitted :
          admitted'[j] \in Admitted(A) /\ admitted'[j].tool = admitted[j].tool /\ admitted'[j].args = admitted[j].args
  BY <1>3, <1>4, <1>5
<1>7. admitted' \in Seq(Admitted(A))
  <2> HIDE DEF Admitted
  <2>1. DOMAIN admitted = 1..Len(admitted) /\ Len(admitted) \in Nat
    BY <1>1
  <2>2. admitted' = [j \in 1..Len(admitted) |-> admitted'[j]]
    BY <1>2, <2>1
  <2> QED
    BY <1>6, <2>1, <2>2
<1>8. \A j \in DOMAIN admitted' : Recovery!Preflight(admitted'[j].tool, admitted'[j].args)
  BY <1>5, <1>6 DEF AdmittedAreValid
<1> QED
  BY <1>7, <1>8 DEF AdmittedAreValid, Admitted, Recovery!Preflight, Recovery!Missing, Recovery!Invalid,
       Recovery!Undeclared, Recovery!Declared

\* A tool call is recovered, refused or asked for again.
LEMMA SendingIsSafe ==
    ASSUME Recovery!RecoveryAssumption, RecoveryInv,
           NEW name \in DOMAIN NamesOf, NEW wire \in Wires, NEW raw \in Sendable, Recovery!Send(name, wire, raw)
    PROVE  RecoveryInv'
<1> USE DEF RecoveryInv
<1>1. CASE last'.kind = "reason" /\ UNCHANGED admitted
  <2>1. Recovery!RepairsInventNothing'
    BY <1>1 DEF Recovery!RepairsInventNothing, Recovery!DispatchIsValid, Recovery!NothingIsInvented,
         Recovery!NamesAreUnambiguous, Recovery!SubstitutesAreNotRepaired
  <2>2. AdmittedAreValid'
    BY <1>1 DEF AdmittedAreValid, Recovery!Preflight, Recovery!Missing, Recovery!Invalid,
         Recovery!Undeclared, Recovery!Declared
  <2> QED
    BY <2>1, <2>2
<1>2. ASSUME NEW t \in Recovery!ResolveTool(name), Recovery!WireIsAccepted(name, wire, t, raw),
             NEW args, args = IF wire = "strict" THEN Recovery!Canonical(t, raw) ELSE raw,
             NEW named, named = Recovery!NoField \/ named \in DOMAIN args,
             NEW o, o = Recovery!Recover(t, args, named),
             last' = [kind |-> o.kind, name |-> name, tool |-> t, wire |-> wire, sent |-> args,
                      args |-> o.args, fields |-> o.fields, bound |-> Recovery!BoundTargets(t)],
             admitted' = IF o.kind = "dispatch"
                         THEN Append(admitted, [tool |-> t, args |-> o.args, state |-> "claimed"])
                         ELSE admitted
      PROVE  RecoveryInv'
  <2>1. t \in DOMAIN Tools
        /\ {NamesOf[name].exact, NamesOf[name].alias, NamesOf[name].folded} \cap {{t}} # {}
    BY OneToolIsNamed
  <2>2. CASE o.kind # "dispatch"
    <3>1. last'.kind # "dispatch"
      BY <1>2, <2>2
    <3>2. Recovery!RepairsInventNothing'
      BY <3>1 DEF Recovery!RepairsInventNothing, Recovery!DispatchIsValid, Recovery!NothingIsInvented,
           Recovery!NamesAreUnambiguous, Recovery!SubstitutesAreNotRepaired
    <3>3. admitted' = admitted
      BY <1>2, <2>2
    <3>4. AdmittedAreValid'
      BY <3>3 DEF AdmittedAreValid, Recovery!Preflight, Recovery!Missing, Recovery!Invalid,
           Recovery!Undeclared, Recovery!Declared
    <3> QED
      BY <3>2, <3>4
  <2>3. CASE o.kind = "dispatch"
    <3>1. /\ Recovery!Preflight(t, o.args) /\ Sent(t, args, o.args, Recovery!BoundTargets(t))
          /\ Recovery!Preflight(t, args) => o.args = args
      BY <1>2, <2>3, WhatIsDispatched
    <3>2. wire = "strict" /\ name # Tools[t].wire => o.args = args
      BY <1>2, <3>1, StrictIsValid DEF Recovery!WireIsAccepted
    <3>3. AdmittedAreValid'
      BY <1>2, <2>1, <2>3, <3>1, AdmittingKeepsTheValid
    <3> DEFINE final == o.args
               bound == Recovery!BoundTargets(t)
               fields == o.fields
    <3>4. last' = [kind |-> "dispatch", name |-> name, tool |-> t, wire |-> wire, sent |-> args,
                   args |-> final, fields |-> fields, bound |-> bound]
      BY <1>2, <2>3
    <3>5. /\ Recovery!Preflight(t, final) /\ Sent(t, args, final, bound)
          /\ wire = "strict" /\ name # Tools[t].wire => final = args
      BY <3>1, <3>2
    <3> HIDE DEF final, bound, fields
    <3>6. /\ last'.kind = "dispatch" /\ last'.name = name /\ last'.tool = t /\ last'.wire = wire
          /\ last'.sent = args /\ last'.args = final /\ last'.bound = bound
      BY <3>4
    <3>7. Recovery!DispatchIsValid'
      BY <3>5, <3>6 DEF Recovery!DispatchIsValid, Recovery!Preflight, Recovery!Missing, Recovery!Invalid,
           Recovery!Undeclared, Recovery!Declared
    <3>8. Recovery!NothingIsInvented'
      BY <3>5, <3>6 DEF Recovery!NothingIsInvented, Sent
    <3>9. Recovery!NamesAreUnambiguous'
      BY <2>1, <3>6 DEF Recovery!NamesAreUnambiguous
    <3>10. Recovery!SubstitutesAreNotRepaired'
      BY <3>5, <3>6 DEF Recovery!SubstitutesAreNotRepaired
    <3> QED
      BY <3>3, <3>7, <3>8, <3>9, <3>10 DEF Recovery!RepairsInventNothing
  <2> QED
    BY <2>2, <2>3
<1>3. CASE Recovery!ResolveTool(name) = {}
  <2>1. last'.kind = "reason" /\ UNCHANGED admitted
    BY <1>3 DEF Recovery!Send
  <2> QED
    BY <1>1, <2>1
<1>4. ASSUME NEW t \in Recovery!ResolveTool(name), ~Recovery!WireIsAccepted(name, wire, t, raw),
             last' = [kind |-> "reason", name |-> name, wire |-> wire, sent |-> raw], UNCHANGED admitted
      PROVE  RecoveryInv'
  <2>1. last'.kind = "reason"
    BY <1>4
  <2> QED
    BY <1>1, <1>4, <2>1
<1>5. CASE Recovery!ResolveTool(name) # {}
  <2>1. PICK t \in Recovery!ResolveTool(name) :
            IF ~Recovery!WireIsAccepted(name, wire, t, raw)
            THEN /\ last' = [kind |-> "reason", name |-> name, wire |-> wire, sent |-> raw]
                 /\ UNCHANGED admitted
            ELSE LET args == IF wire = "strict" THEN Recovery!Canonical(t, raw) ELSE raw IN
                 \E named \in IF Recovery!Undeclared(t, args) = {} THEN {Recovery!NoField}
                              ELSE Recovery!Undeclared(t, args) :
                    LET o == Recovery!Recover(t, args, named) IN
                    /\ last' = [kind |-> o.kind, name |-> name, tool |-> t, wire |-> wire, sent |-> args,
                                args |-> o.args, fields |-> o.fields,
                                bound |-> Recovery!BoundTargets(t)]
                    /\ admitted' = IF o.kind = "dispatch"
                                   THEN Append(admitted, [tool |-> t, args |-> o.args, state |-> "claimed"])
                                   ELSE admitted
    BY <1>5, Zenon DEF Recovery!Send
  <2>2. CASE ~Recovery!WireIsAccepted(name, wire, t, raw)
    BY <1>4, <2>1, <2>2
  <2>3. CASE Recovery!WireIsAccepted(name, wire, t, raw)
    <3> DEFINE args == IF wire = "strict" THEN Recovery!Canonical(t, raw) ELSE raw
    <3>1. PICK named \in IF Recovery!Undeclared(t, args) = {} THEN {Recovery!NoField}
                         ELSE Recovery!Undeclared(t, args) :
            LET o == Recovery!Recover(t, args, named) IN
                    /\ last' = [kind |-> o.kind, name |-> name, tool |-> t, wire |-> wire, sent |-> args,
                                args |-> o.args, fields |-> o.fields,
                                bound |-> Recovery!BoundTargets(t)]
                    /\ admitted' = IF o.kind = "dispatch"
                                   THEN Append(admitted, [tool |-> t, args |-> o.args, state |-> "claimed"])
                                   ELSE admitted
      BY <2>1, <2>3, Zenon
    <3> DEFINE o == Recovery!Recover(t, args, named)
    <3>2. args = IF wire = "strict" THEN Recovery!Canonical(t, raw) ELSE raw
      OBVIOUS
    <3>3. o = Recovery!Recover(t, args, named)
      OBVIOUS
    <3>4. /\ last' = [kind |-> o.kind, name |-> name, tool |-> t, wire |-> wire, sent |-> args,
                      args |-> o.args, fields |-> o.fields, bound |-> Recovery!BoundTargets(t)]
          /\ admitted' = IF o.kind = "dispatch"
                         THEN Append(admitted, [tool |-> t, args |-> o.args, state |-> "claimed"])
                         ELSE admitted
      BY <3>1, Zenon
    <3> HIDE DEF args, o
    <3>5. named = Recovery!NoField \/ named \in DOMAIN args
      BY <3>1 DEF Recovery!Undeclared
    <3> QED
      BY <1>2, <2>3, <3>2, <3>3, <3>4, <3>5
  <2> QED
    BY <2>2, <2>3
<1> QED
  BY <1>3, <1>5

\* The invariant of call recovery.
LEMMA RecoveryInvariant ==
    ASSUME Recovery!RecoveryAssumption
    PROVE  Recovery!Spec => []RecoveryInv
<1>1. Recovery!Init => RecoveryInv
  <2> SUFFICES ASSUME Recovery!Init PROVE RecoveryInv
    OBVIOUS
  <2>1. admitted \in Seq(Admitted({})) /\ DOMAIN admitted = {}
    BY DEF Recovery!Init
  <2>2. AdmittedAreValid
    BY <2>1 DEF AdmittedAreValid, Admitted
  <2>3. last.kind # "dispatch"
    BY DEF Recovery!Init
  <2> QED
    BY <2>2, <2>3, NotDispatched DEF RecoveryInv
<1>2. RecoveryInv /\ [Recovery!Next]_Recovery!vars => RecoveryInv'
  <2> SUFFICES ASSUME RecoveryInv, [Recovery!Next]_Recovery!vars PROVE RecoveryInv'
    OBVIOUS
  <2>1. ASSUME NEW name \in DOMAIN NamesOf, NEW wire \in Wires, NEW raw \in Sendable, Recovery!Send(name, wire, raw)
        PROVE  RecoveryInv'
    BY <2>1, SendingIsSafe
  <2>2. ASSUME UNCHANGED last
        PROVE  Recovery!RepairsInventNothing'
    BY <2>2 DEF RecoveryInv, Recovery!RepairsInventNothing, Recovery!DispatchIsValid, Recovery!NothingIsInvented,
         Recovery!NamesAreUnambiguous, Recovery!SubstitutesAreNotRepaired, Recovery!Preflight, Recovery!Missing,
         Recovery!Invalid, Recovery!Undeclared, Recovery!Declared
  <2>3. ASSUME NEW i \in DOMAIN admitted, NEW outcome \in {"completed", "failed"}, Recovery!End(i, outcome)
        PROVE  RecoveryInv'
    <3>1. UNCHANGED last
      BY <2>3 DEF Recovery!End
    <3> QED
      BY <2>2, <2>3, <3>1, EndingKeepsTheValid DEF RecoveryInv
  <2>4. CASE UNCHANGED Recovery!vars
    <3>1. UNCHANGED admitted /\ UNCHANGED last
      BY <2>4 DEF Recovery!vars
    <3>2. AdmittedAreValid'
      BY <3>1 DEF RecoveryInv, AdmittedAreValid, Recovery!Preflight, Recovery!Missing, Recovery!Invalid,
           Recovery!Undeclared, Recovery!Declared
    <3> QED
      BY <2>2, <3>1, <3>2 DEF RecoveryInv
  <2> QED
    BY <2>1, <2>3, <2>4 DEF Recovery!Next
<1> QED
  BY <1>1, <1>2, PTL DEF Recovery!Spec

\* What call recovery lets a tool run (call_recovery.rs recover, provider_loop.rs) is a valid
\* call of the one tool that was named, and holds nothing that the model did not send and
\* that completed Calls of the Attempt do not bind.
THEOREM RecoveryInventsNothing ==
    ASSUME Recovery!RecoveryAssumption
    PROVE  Recovery!Spec => []RepairsInventNothing
<1>1. RecoveryInv => RepairsInventNothing
  BY DEF RecoveryInv, RepairsInventNothing
<1> QED
  BY <1>1, RecoveryInvariant, PTL

\* Every Call that call recovery admitted is valid for its tool for as long as it is known
\* (provider_loop.rs resolve_call, call_recovery.rs preflight).
THEOREM AdmittedCallsStayValid ==
    ASSUME Recovery!RecoveryAssumption
    PROVE  Recovery!Spec => []AdmittedAreValid
<1>1. RecoveryInv => AdmittedAreValid
  BY DEF RecoveryInv
<1> QED
  BY <1>1, RecoveryInvariant, PTL

---------------------------------------------------------------------------------
(* A round of provider events, in either protocol. *)

Parts == {"p", "q", "{}"}
Counters == {"input", "output"}
Ids == {10, 11, 12}

Event ==
    [kind : {"usage"}, usage : Round!Counts] \cup [kind : {"reason"}, reason : {"stop", "length", "tool_calls"}]
        \cup [kind : {"start", "stop"}, id : Nat] \cup [kind : {"fragment"}, id : Nat, text : {"p", "q"}]
        \cup [kind : {"end", "error"}]

\* A call says all of its fragments, or had none and was completed as an empty object.
Says(s, c) ==
    \/ Round!Spells(s, c.id, c.arguments)
    \/ c.arguments = Round!EmptyObject /\ Round!Fragments(s, c.id) = {}

\* Anthropic: tool indices are dense, every call has a start of its own, and a block that is
\* open accumulates the fragments of exactly one call.
Blocks(s, o, n, c) ==
    /\ n \in Nat /\ DOMAIN c = 0..(n - 1)
    /\ \A i \in DOMAIN c : c[i] \in [id : DOMAIN s, arguments : Seq(Parts)] /\ Says(s, c[i])
    /\ \A i, j \in DOMAIN c : c[i].id = c[j].id => i = j
    /\ \A i \in DOMAIN o :
          /\ o[i] \in [tool : DOMAIN c, id : DOMAIN s, arguments : Seq(Parts)]
          /\ o[i].id = c[o[i].tool].id /\ o[i].arguments = c[o[i].tool].arguments
          /\ Round!Spells(s, o[i].id, o[i].arguments)
    /\ \A i, j \in DOMAIN o : o[i].tool = o[j].tool => i = j
    /\ \A k \in DOMAIN s : s[k].kind = "fragment" => s[k].id \in DOMAIN s
    /\ \A k \in DOMAIN s : s[k].kind = "start" =>
          \/ \E later \in DOMAIN s : s[later].kind = "stop" /\ s[later].id = s[k].id
          \/ \E i \in DOMAIN o : o[i].id = s[k].id

\* Chat completions: the call of an index is the last one named there, which has fragments
\* and which no other index has.
Chunks(s, o, c) ==
    /\ DOMAIN c = DOMAIN o
    /\ \A i \in DOMAIN c :
          /\ c[i] \in [id : Ids, arguments : Seq(Parts)] /\ c[i].id = o[i]
          /\ Round!Spells(s, o[i], c[i].arguments) /\ Round!Fragments(s, o[i]) # {}
    /\ \A i, j \in DOMAIN o : o[i] = o[j] => i = j

\* The counters, the reason and the end are the last ones that were sent.
Counted(s, u) ==
    /\ u \in [Counters -> Nat]
    /\ \A c \in Counters :
        \/ u[c] = Round!Unset /\ Round!Stated(s, c) = {}
        \/ \E k \in Round!Stated(s, c) : u[c] = s[k].usage[c] /\ \A j \in Round!Stated(s, c) : j <= k
Reasoned(s, r) ==
    \/ r = Round!None /\ Round!Reasons(s) = {}
    \/ \E k \in Round!Reasons(s) : r = s[k].reason /\ \A j \in Round!Reasons(s) : j <= k
Ended(s, cl, f) ==
    /\ cl => f \/ \E k \in DOMAIN s : s[k].kind = "end"
    /\ \A k \in DOMAIN s : s[k].kind = "error" => f

RoundInv ==
    /\ protocol \in {"anthropic", "openai"} /\ sent \in Seq(Event)
    /\ protocol = "anthropic" => Blocks(sent, open, ordinal, calls) /\ Counted(sent, usage)
    /\ protocol = "openai" => Chunks(sent, open, calls)
    /\ Reasoned(sent, reason) /\ Ended(sent, closed, failed)
    /\ Round!Used => (protocol = "anthropic" => Round!Whole) /\ reason # "length"

\* An event is added after all there are.
LEMMA Appended ==
    ASSUME NEW s \in Seq(Event), NEW e \in Event, NEW t, t = Append(s, e)
    PROVE  /\ Len(s) \in Nat /\ DOMAIN s = 1..Len(s) /\ DOMAIN t = 1..(Len(s) + 1)
           /\ t \in Seq(Event) /\ t[Len(s) + 1] = e /\ Len(s) + 1 \in DOMAIN t /\ Len(s) + 1 \notin DOMAIN s
           /\ \A k \in DOMAIN s : k \in DOMAIN t /\ t[k] = s[k] /\ k < Len(s) + 1
           /\ \A k \in DOMAIN t : k \in DOMAIN s \/ k = Len(s) + 1
<1> HIDE DEF Event
<1> QED
  OBVIOUS

\* An event adds to the fragments of the call it is a fragment of, and to no other's.
LEMMA FragmentsGrow ==
    ASSUME NEW s \in Seq(Event), NEW e \in Event, NEW id
    PROVE  /\ e.kind = "fragment" /\ e.id = id =>
                Round!Fragments(Append(s, e), id) = Round!Fragments(s, id) \cup {Len(s) + 1}
           /\ e.kind # "fragment" \/ e.id # id => Round!Fragments(Append(s, e), id) = Round!Fragments(s, id)
<1> DEFINE t == Append(s, e)
<1> HIDE DEF Event
<1>1. /\ t[Len(s) + 1] = e /\ Len(s) + 1 \in DOMAIN t /\ Len(s) + 1 \notin DOMAIN s
      /\ \A k \in DOMAIN s : k \in DOMAIN t /\ t[k] = s[k]
      /\ \A k \in DOMAIN t : k \in DOMAIN s \/ k = Len(s) + 1
  BY Appended
<1> QED
  BY <1>1 DEF Round!Fragments

\* What another event does not concern is spelled as before.
LEMMA SpellsKept ==
    ASSUME NEW s \in Seq(Event), NEW e \in Event, NEW id, NEW text, e.kind # "fragment" \/ e.id # id
    PROVE  /\ Round!Fragments(Append(s, e), id) = Round!Fragments(s, id)
           /\ Round!Spells(s, id, text) => Round!Spells(Append(s, e), id, text)
<1> DEFINE t == Append(s, e)
<1> HIDE DEF Event
<1>1. Round!Fragments(t, id) = Round!Fragments(s, id)
  BY FragmentsGrow
<1>2. \A k \in DOMAIN s : t[k] = s[k]
  BY Appended
<1>3. Round!Fragments(s, id) \subseteq DOMAIN s
  BY DEF Round!Fragments
<1>4. ASSUME Round!Spells(s, id, text) PROVE Round!Spells(t, id, text)
  <2>1. PICK at \in [DOMAIN text -> Round!Fragments(s, id)] :
            /\ \A j, k \in DOMAIN text : j < k => at[j] < at[k]
            /\ \A f \in Round!Fragments(s, id) : \E k \in DOMAIN text : at[k] = f
            /\ \A k \in DOMAIN text : s[at[k]].text = text[k]
    BY <1>4 DEF Round!Spells
  <2>2. \A k \in DOMAIN text : t[at[k]].text = text[k]
    BY <1>2, <1>3, <2>1
  <2>3. at \in [DOMAIN text -> Round!Fragments(t, id)] /\ \A f \in Round!Fragments(t, id) : \E k \in DOMAIN text : at[k] = f
    BY <1>1, <2>1
  <2> QED
    BY <2>1, <2>2, <2>3 DEF Round!Spells
<1> QED
  BY <1>1, <1>4

\* A fragment is the next part of its call's text.
LEMMA SpellsMore ==
    ASSUME NEW s \in Seq(Event), NEW e \in Event, e.kind = "fragment",
           NEW text \in Seq(Parts), Round!Spells(s, e.id, text)
    PROVE  Round!Spells(Append(s, e), e.id, Append(text, e.text))
<1> DEFINE t == Append(s, e)
<1> HIDE DEF Event
<1> DEFINE F == Round!Fragments(s, e.id)
           n == Len(text) + 1
           final == Len(s) + 1
           more == Append(text, e.text)
<1>1. Round!Fragments(t, e.id) = F \cup {final}
  BY FragmentsGrow
<1>2. /\ \A k \in DOMAIN s : t[k] = s[k] /\ k < final
      /\ t[final] = e
  BY Appended
<1>3. F \subseteq DOMAIN s
  BY DEF Round!Fragments
<1>4. PICK at \in [DOMAIN text -> F] :
          /\ \A j, k \in DOMAIN text : j < k => at[j] < at[k]
          /\ \A f \in F : \E k \in DOMAIN text : at[k] = f
          /\ \A k \in DOMAIN text : s[at[k]].text = text[k]
  BY DEF Round!Spells
<1>5. /\ DOMAIN text = 1..Len(text) /\ Len(text) \in Nat
      /\ DOMAIN more = 1..n /\ more[n] = e.text /\ \A k \in DOMAIN text : more[k] = text[k]
  OBVIOUS
<1> DEFINE to == [k \in DOMAIN more |-> IF k = n THEN final ELSE at[k]]
<1> HIDE DEF F, final, more
<1>6. \A k \in DOMAIN more : k = n \/ (k \in DOMAIN text /\ k < n /\ k # n)
  BY <1>5
<1>7. n \in DOMAIN more /\ n \notin DOMAIN text /\ \A k \in DOMAIN text : k \in DOMAIN more /\ k < n /\ k # n
  BY <1>5
<1>8. to \in [DOMAIN more -> F \cup {final}]
  BY <1>4, <1>6
<1>9. to[n] = final /\ \A k \in DOMAIN text : to[k] = at[k] /\ at[k] \in F /\ at[k] \in DOMAIN s
  BY <1>3, <1>4, <1>7
<1>10. ASSUME NEW j \in DOMAIN more, NEW k \in DOMAIN more, j < k PROVE to[j] < to[k]
  <2>1. j \in DOMAIN text
    BY <1>5, <1>6, <1>10
  <2>2. CASE k = n
    BY <1>2, <1>9, <2>1, <2>2
  <2>3. CASE k \in DOMAIN text
    BY <1>4, <1>9, <1>10, <2>1, <2>3
  <2> QED
    BY <1>6, <2>2, <2>3
<1>11. \A f \in F \cup {final} : \E k \in DOMAIN more : to[k] = f
  BY <1>4, <1>7, <1>9
<1>12. \A k \in DOMAIN more : t[to[k]].text = more[k]
  BY <1>2, <1>4, <1>5, <1>6, <1>9
<1> HIDE DEF to
<1>13. Round!Spells(t, e.id, more)
  BY <1>1, <1>8, <1>10, <1>11, <1>12 DEF Round!Spells
<1> QED
  BY <1>13 DEF more

\* A call that is not there yet says nothing.
LEMMA SpellsNothing ==
    ASSUME NEW s, NEW id, Round!Fragments(s, id) = {}
    PROVE  Round!Spells(s, id, <<>>)
<1>1. DOMAIN <<>> = {} /\ <<>> \in [{} -> {}]
  OBVIOUS
<1> QED
  BY <1>1 DEF Round!Spells

\* What the counters, the reason and the end are after one more event.
LEMMA CountedKept ==
    ASSUME NEW s \in Seq(Event), NEW e \in Event, e.kind # "usage", NEW u, Counted(s, u)
    PROVE  Counted(Append(s, e), u)
<1> DEFINE t == Append(s, e)
<1> HIDE DEF Event
<1>1. /\ t[Len(s) + 1] = e
      /\ \A k \in DOMAIN s : k \in DOMAIN t /\ t[k] = s[k]
      /\ \A k \in DOMAIN t : k \in DOMAIN s \/ k = Len(s) + 1
  BY Appended
<1> HIDE DEF t
<1>2. \A c : Round!Stated(t, c) = Round!Stated(s, c)
  BY <1>1 DEF Round!Stated
<1>3. \A c : \A k \in Round!Stated(s, c) : t[k] = s[k]
  BY <1>1 DEF Round!Stated
<1>4. Counted(t, u)
  BY <1>2, <1>3 DEF Counted
<1> QED
  BY <1>4 DEF t

\* Counters that are merged with the ones just sent are the last that were sent.
LEMMA CountedMore ==
    ASSUME NEW s \in Seq(Event), NEW w \in Round!Counts, NEW u, Counted(s, u), NEW v,
           v = IF s = <<>> THEN w ELSE Round!Merged(u, w)
    PROVE  Counted(Append(s, [kind |-> "usage", usage |-> w]), v)
<1> DEFINE e == [kind |-> "usage", usage |-> w]
           t == Append(s, e)
           n == Len(s) + 1
<1>1. e \in Event /\ e.kind = "usage" /\ e.usage = w
  BY DEF Event
<1> HIDE DEF Event, e
<1>2. /\ t[n] = e /\ n \in DOMAIN t /\ n \notin DOMAIN s
      /\ \A k \in DOMAIN s : k \in DOMAIN t /\ t[k] = s[k] /\ k < n
      /\ \A k \in DOMAIN t : k \in DOMAIN s \/ k = n
  BY <1>1, Appended
<1>3. n \in Nat /\ DOMAIN s \subseteq Nat /\ (s = <<>> => DOMAIN s = {})
  OBVIOUS
<1>4. w \in [Counters -> Nat] /\ u \in [Counters -> Nat]
  BY DEF Round!Counts, Counters, Round!Unset, Counted
<1> HIDE DEF t, n
<1>5. Round!Merged(u, w) \in [Counters -> Nat]
      /\ \A c \in Counters : Round!Merged(u, w)[c] = IF w[c] = Round!Unset THEN u[c] ELSE w[c]
  BY <1>4 DEF Round!Merged
<1>6. \A c \in Counters : s = <<>> => u[c] = Round!Unset
  BY <1>3 DEF Counted, Round!Stated
<1>7. v \in [Counters -> Nat] /\ \A c \in Counters : v[c] = IF w[c] = Round!Unset THEN u[c] ELSE w[c]
  BY <1>4, <1>5, <1>6
<1>8. \A c : Round!Stated(t, c) = IF w[c] = Round!Unset THEN Round!Stated(s, c) ELSE Round!Stated(s, c) \cup {n}
  BY <1>1, <1>2 DEF Round!Stated
<1>9. \A c : \A k \in Round!Stated(s, c) : t[k] = s[k] /\ k < n /\ k \in Nat
  BY <1>2, <1>3 DEF Round!Stated
<1>10. ASSUME NEW c \in Counters, w[c] = Round!Unset
       PROVE  \/ v[c] = Round!Unset /\ Round!Stated(t, c) = {}
              \/ \E k \in Round!Stated(t, c) : v[c] = t[k].usage[c] /\ \A j \in Round!Stated(t, c) : j <= k
  <2>1. v[c] = u[c] /\ Round!Stated(t, c) = Round!Stated(s, c)
    BY <1>7, <1>8, <1>10
  <2> QED
    BY <1>9, <2>1 DEF Counted
<1>11. ASSUME NEW c \in Counters, w[c] # Round!Unset
       PROVE  \E k \in Round!Stated(t, c) : v[c] = t[k].usage[c] /\ \A j \in Round!Stated(t, c) : j <= k
  <2>1. v[c] = w[c] /\ Round!Stated(t, c) = Round!Stated(s, c) \cup {n}
    BY <1>7, <1>8, <1>11
  <2>2. v[c] = t[n].usage[c]
    BY <1>1, <1>2, <2>1
  <2>3. \A j \in Round!Stated(t, c) : j <= n
    BY <1>3, <1>9, <2>1
  <2> QED
    BY <2>1, <2>2, <2>3
<1>12. Counted(t, v)
  BY <1>7, <1>10, <1>11 DEF Counted
<1> QED
  BY <1>12 DEF t, e

\* An event that gives no reason leaves the reason the last one that was sent.
LEMMA ReasonedKept ==
    ASSUME NEW s \in Seq(Event), NEW e \in Event, e.kind # "reason", NEW r, Reasoned(s, r)
    PROVE  Reasoned(Append(s, e), r)
<1> DEFINE t == Append(s, e)
<1> HIDE DEF Event
<1>1. /\ t[Len(s) + 1] = e
      /\ \A k \in DOMAIN s : k \in DOMAIN t /\ t[k] = s[k]
      /\ \A k \in DOMAIN t : k \in DOMAIN s \/ k = Len(s) + 1
  BY Appended
<1> HIDE DEF t
<1>2. Round!Reasons(t) = Round!Reasons(s)
  BY <1>1 DEF Round!Reasons
<1>3. \A k \in Round!Reasons(s) : t[k] = s[k]
  BY <1>1 DEF Round!Reasons
<1>4. Reasoned(t, r)
  BY <1>2, <1>3 DEF Reasoned
<1> QED
  BY <1>4 DEF t

\* A reason just sent is the last one.
LEMMA ReasonedMore ==
    ASSUME NEW s \in Seq(Event), NEW r \in {"stop", "length", "tool_calls"}
    PROVE  Reasoned(Append(s, [kind |-> "reason", reason |-> r]), r)
<1> DEFINE e == [kind |-> "reason", reason |-> r]
           t == Append(s, e)
           n == Len(s) + 1
<1>1. e \in Event /\ e.kind = "reason" /\ e.reason = r
  BY DEF Event
<1> HIDE DEF Event, e
<1>2. /\ t[n] = e /\ n \in DOMAIN t /\ n \in Nat
      /\ \A k \in DOMAIN s : k < n
      /\ \A k \in DOMAIN t : k \in DOMAIN s \/ k = n
  BY <1>1, Appended
<1> HIDE DEF t, n
<1>3. n \in Round!Reasons(t) /\ r = t[n].reason
  BY <1>1, <1>2 DEF Round!Reasons
<1>4. \A j \in Round!Reasons(t) : j <= n
  BY <1>2 DEF Round!Reasons
<1>5. Reasoned(t, r)
  BY <1>3, <1>4 DEF Reasoned
<1> QED
  BY <1>5 DEF t, e

\* The stream is over once its end or an error has been sent, and not before.
LEMMA EndedMore ==
    ASSUME NEW s \in Seq(Event), NEW e \in Event, NEW cl, NEW f, Ended(s, cl, f), NEW dl, NEW g,
           dl => cl \/ g \/ e.kind = "end", f => g, e.kind = "error" => g
    PROVE  Ended(Append(s, e), dl, g)
<1> DEFINE t == Append(s, e)
<1> HIDE DEF Event
<1>1. /\ t[Len(s) + 1] = e /\ Len(s) + 1 \in DOMAIN t
      /\ \A k \in DOMAIN s : k \in DOMAIN t /\ t[k] = s[k]
      /\ \A k \in DOMAIN t : k \in DOMAIN s \/ k = Len(s) + 1
  BY Appended
<1> HIDE DEF t
<1>2. Ended(t, dl, g)
  BY <1>1 DEF Ended
<1> QED
  BY <1>2 DEF t

\* An event that is no tool call's leaves the calls as they are.
LEMMA BlocksKept ==
    ASSUME NEW s \in Seq(Event), NEW e \in Event, e.kind \notin {"fragment", "start"}, NEW o, NEW n, NEW c,
           Blocks(s, o, n, c)
    PROVE  Blocks(Append(s, e), o, n, c)
<1> DEFINE t == Append(s, e)
<1> HIDE DEF Event
<1>1. /\ t[Len(s) + 1] = e
      /\ \A k \in DOMAIN s : k \in DOMAIN t /\ t[k] = s[k]
      /\ \A k \in DOMAIN t : k \in DOMAIN s \/ k = Len(s) + 1
  BY Appended
<1>2. \A id : \A text : /\ Round!Fragments(t, id) = Round!Fragments(s, id)
                        /\ Round!Spells(s, id, text) => Round!Spells(t, id, text)
  BY SpellsKept
<1> HIDE DEF t
<1>3. \A d : Says(s, d) => Says(t, d)
  BY <1>2 DEF Says
<1>4. DOMAIN s \subseteq DOMAIN t
  BY <1>1
<1>5. \A i \in DOMAIN c : c[i] \in [id : DOMAIN t, arguments : Seq(Parts)] /\ Says(t, c[i])
  BY <1>3, <1>4 DEF Blocks
<1>6. \A i \in DOMAIN o :
          /\ o[i] \in [tool : DOMAIN c, id : DOMAIN t, arguments : Seq(Parts)]
          /\ o[i].id = c[o[i].tool].id /\ o[i].arguments = c[o[i].tool].arguments
          /\ Round!Spells(t, o[i].id, o[i].arguments)
  BY <1>2, <1>4 DEF Blocks
<1>7. \A k \in DOMAIN t : t[k].kind = "fragment" => t[k].id \in DOMAIN t
  BY <1>1, <1>4 DEF Blocks
<1>8. \A k \in DOMAIN t : t[k].kind = "start" =>
          \/ \E later \in DOMAIN t : t[later].kind = "stop" /\ t[later].id = t[k].id
          \/ \E i \in DOMAIN o : o[i].id = t[k].id
  <2> TAKE k \in DOMAIN t
  <2> HAVE t[k].kind = "start"
  <2>1. k \in DOMAIN s /\ t[k] = s[k] /\ s[k].kind = "start"
    BY <1>1
  <2> QED
    BY <1>1, <2>1 DEF Blocks
<1>9. Blocks(t, o, n, c)
  BY <1>5, <1>6, <1>7, <1>8 DEF Blocks
<1> QED
  BY <1>9 DEF t

\* An event that is no fragment leaves every call what it was.
LEMMA ChunksKept ==
    ASSUME NEW s \in Seq(Event), NEW e \in Event, e.kind # "fragment", NEW o, NEW c, Chunks(s, o, c)
    PROVE  Chunks(Append(s, e), o, c)
<1> HIDE DEF Event
<1>1. \A id : \A text : /\ Round!Fragments(Append(s, e), id) = Round!Fragments(s, id)
                        /\ Round!Spells(s, id, text) => Round!Spells(Append(s, e), id, text)
  BY SpellsKept
<1> QED
  BY <1>1 DEF Chunks

\* A block starts a call of its own, which has nothing yet.
LEMMA BlocksStart ==
    ASSUME NEW s \in Seq(Event), NEW o, NEW n, NEW c, Blocks(s, o, n, c), NEW i, i \notin DOMAIN o,
           NEW id, id = Len(s) + 1
    PROVE  Blocks(Append(s, [kind |-> "start", id |-> id]),
                  Round!Put(o, i, [tool |-> n, id |-> id, arguments |-> <<>>]), n + 1, Round!Started(c, n, id))
<1> DEFINE e == [kind |-> "start", id |-> id]
           t == Append(s, e)
           b == [tool |-> n, id |-> id, arguments |-> <<>>]
           p == Round!Put(o, i, b)
           d == Round!Started(c, n, id)
           new == [id |-> id, arguments |-> <<>>]
<1>1. id \in Nat /\ e \in Event /\ e.kind = "start" /\ e.id = id
  BY DEF Event
<1>2. <<>> \in Seq(Parts)
  OBVIOUS
<1> HIDE DEF Event, e
<1>3. /\ t[id] = e /\ id \in DOMAIN t /\ id \notin DOMAIN s
      /\ \A k \in DOMAIN s : k \in DOMAIN t /\ t[k] = s[k]
      /\ \A k \in DOMAIN t : k \in DOMAIN s \/ k = id
  BY <1>1, Appended
<1>4. \A x : \A text : /\ Round!Fragments(t, x) = Round!Fragments(s, x)
                       /\ Round!Spells(s, x, text) => Round!Spells(t, x, text)
  BY <1>1, SpellsKept
<1> HIDE DEF t
<1>5. n \in Nat /\ DOMAIN c = 0..(n - 1) /\ n \notin DOMAIN c
  BY DEF Blocks
<1>6. d = Round!Put(c, n, new)
  BY <1>5 DEF Round!Started, Round!Slot, Round!Unset
<1> HIDE DEF new, d
<1>61. DOMAIN d = DOMAIN c \cup {n} /\ d[n] = new /\ \A j \in DOMAIN c : d[j] = c[j] /\ j # n
  BY <1>5, <1>6 DEF Round!Put
<1>62. 0..((n + 1) - 1) = 0..(n - 1) \cup {n} /\ n + 1 \in Nat
  BY <1>5
<1>7. DOMAIN d = 0..((n + 1) - 1) /\ n + 1 \in Nat /\ d[n] = new /\ (\A j \in DOMAIN c : d[j] = c[j] /\ j # n)
      /\ (\A j \in DOMAIN d : j \in DOMAIN c \/ j = n) /\ n \in DOMAIN d /\ DOMAIN c \subseteq DOMAIN d
  BY <1>5, <1>61, <1>62
<1>8. DOMAIN p = DOMAIN o \cup {i} /\ p[i] = b /\ \A j \in DOMAIN o : p[j] = o[j] /\ j # i
  BY DEF Round!Put
<1>9. Round!Fragments(s, id) = {}
  BY <1>3 DEF Blocks, Round!Fragments
<1>10. Round!Spells(t, id, <<>>)
  BY <1>4, <1>9, SpellsNothing
<1>11. /\ b.tool = n /\ b.id = id /\ b.arguments = <<>> /\ new.id = id /\ new.arguments = <<>>
       /\ new \in [id : DOMAIN t, arguments : Seq(Parts)]
       /\ b \in [tool : DOMAIN d, id : DOMAIN t, arguments : Seq(Parts)]
  BY <1>2, <1>3, <1>7 DEF new
<1> HIDE DEF b, p
<1>12. \A q : Says(s, q) => Says(t, q)
  BY <1>4 DEF Says
<1>13. \A j \in DOMAIN c : c[j] \in [id : DOMAIN s, arguments : Seq(Parts)] /\ Says(s, c[j])
  BY DEF Blocks
<1>14. \A j \in DOMAIN d : d[j] \in [id : DOMAIN t, arguments : Seq(Parts)] /\ Says(t, d[j])
  <2> TAKE j \in DOMAIN d
  <2>1. CASE j \in DOMAIN c
    BY <1>3, <1>7, <1>12, <1>13, <2>1
  <2>2. CASE j = n
    BY <1>7, <1>10, <1>11, <2>2 DEF Says
  <2> QED
    BY <1>7, <2>1, <2>2
<1>15. \A j, k \in DOMAIN d : d[j].id = d[k].id => j = k
  <2>1. \A j \in DOMAIN c : d[j].id # id
    BY <1>3, <1>7, <1>13
  <2>2. \A j, k \in DOMAIN c : c[j].id = c[k].id => j = k
    BY DEF Blocks
  <2> QED
    BY <1>7, <1>11, <2>1, <2>2
<1>16. \A j \in DOMAIN o :
          /\ o[j] \in [tool : DOMAIN c, id : DOMAIN s, arguments : Seq(Parts)]
          /\ o[j].id = c[o[j].tool].id /\ o[j].arguments = c[o[j].tool].arguments
          /\ Round!Spells(s, o[j].id, o[j].arguments)
  BY DEF Blocks
<1>17. \A j \in DOMAIN p :
          /\ p[j] \in [tool : DOMAIN d, id : DOMAIN t, arguments : Seq(Parts)]
          /\ p[j].id = d[p[j].tool].id /\ p[j].arguments = d[p[j].tool].arguments
          /\ Round!Spells(t, p[j].id, p[j].arguments)
  <2> TAKE j \in DOMAIN p
  <2>1. CASE j \in DOMAIN o
    <3>1. p[j] = o[j] /\ o[j].tool \in DOMAIN c
      BY <1>8, <1>16, <2>1
    <3>2. o[j] \in [tool : DOMAIN d, id : DOMAIN t, arguments : Seq(Parts)]
      BY <1>3, <1>7, <1>16, <2>1
    <3>3. o[j].id = d[o[j].tool].id /\ o[j].arguments = d[o[j].tool].arguments
      BY <1>7, <1>16, <2>1, <3>1
    <3> QED
      BY <1>4, <1>16, <2>1, <3>1, <3>2, <3>3
  <2>2. CASE j = i
    BY <1>7, <1>8, <1>10, <1>11, <2>2
  <2> QED
    BY <1>8, <2>1, <2>2
<1>18. \A j, k \in DOMAIN p : p[j].tool = p[k].tool => j = k
  <2>1. \A j \in DOMAIN o : p[j].tool # n
    BY <1>5, <1>8, <1>16
  <2>2. \A j, k \in DOMAIN o : o[j].tool = o[k].tool => j = k
    BY DEF Blocks
  <2> QED
    BY <1>8, <1>11, <2>1, <2>2
<1>19. \A k \in DOMAIN t : t[k].kind = "fragment" => t[k].id \in DOMAIN t
  BY <1>1, <1>3 DEF Blocks
<1>20. \A k \in DOMAIN t : t[k].kind = "start" =>
          \/ \E later \in DOMAIN t : t[later].kind = "stop" /\ t[later].id = t[k].id
          \/ \E j \in DOMAIN p : p[j].id = t[k].id
  <2> TAKE k \in DOMAIN t
  <2> HAVE t[k].kind = "start"
  <2>1. CASE k = id
    BY <1>1, <1>3, <1>8, <1>11, <2>1
  <2>2. CASE k \in DOMAIN s
    <3>1. t[k] = s[k] /\ s[k].kind = "start"
      BY <1>3, <2>2
    <3>2. \/ \E later \in DOMAIN s : s[later].kind = "stop" /\ s[later].id = s[k].id
          \/ \E j \in DOMAIN o : o[j].id = s[k].id
      BY <2>2, <3>1 DEF Blocks
    <3> QED
      BY <1>3, <1>8, <3>1, <3>2
  <2> QED
    BY <1>3, <2>1, <2>2
<1>21. Blocks(t, p, n + 1, d)
  BY <1>7, <1>14, <1>15, <1>17, <1>18, <1>19, <1>20 DEF Blocks
<1> QED
  BY <1>21 DEF t, e, b, p, d

\* A fragment extends the call its block belongs to, and no other.
LEMMA BlocksDelta ==
    ASSUME NEW s \in Seq(Event), NEW o, NEW n, NEW c, Blocks(s, o, n, c), NEW i \in DOMAIN o,
           NEW f \in {"p", "q"}
    PROVE  Blocks(Append(s, [kind |-> "fragment", id |-> o[i].id, text |-> f]),
                  [o EXCEPT ![i].arguments = Append(@, f)], n, Round!Extended(c, o[i].tool, o[i].id, f))
<1> DEFINE e == [kind |-> "fragment", id |-> o[i].id, text |-> f]
           t == Append(s, e)
           x == o[i].id
           h == o[i].tool
           p == [o EXCEPT ![i].arguments = Append(@, f)]
           d == Round!Extended(c, h, x, f)
           Block == [tool : DOMAIN c, id : DOMAIN s, arguments : Seq(Parts)]
           Call == [id : DOMAIN s, arguments : Seq(Parts)]
<1>1. \A j \in DOMAIN o : o[j] \in Block /\ o[j].id = c[o[j].tool].id
                          /\ o[j].arguments = c[o[j].tool].arguments /\ Round!Spells(s, o[j].id, o[j].arguments)
  BY DEF Blocks
<1>2. \A j \in DOMAIN c : c[j] \in Call /\ Says(s, c[j])
  BY DEF Blocks
<1>3. h \in DOMAIN c /\ x \in DOMAIN s /\ x = c[h].id /\ x \in Nat /\ c[h] \in Call
  BY <1>1, <1>2
<1>4. e \in Event /\ e.kind = "fragment" /\ e.id = x /\ e.text = f
  BY <1>3 DEF Event
<1> HIDE DEF Event, e
<1>5. /\ t[Len(s) + 1] = e
      /\ \A k \in DOMAIN s : k \in DOMAIN t /\ t[k] = s[k]
      /\ \A k \in DOMAIN t : k \in DOMAIN s \/ k = Len(s) + 1
  BY <1>4, Appended
<1>6. \A y : \A text : y # x => /\ Round!Fragments(t, y) = Round!Fragments(s, y)
                                /\ Round!Spells(s, y, text) => Round!Spells(t, y, text)
  BY <1>4, SpellsKept
<1>7. \A text \in Seq(Parts) : Round!Spells(s, x, text) => Round!Spells(t, x, Append(text, f))
  BY <1>4, SpellsMore
<1> HIDE DEF t
<1>0. \A text \in Seq(Parts) : Append(text, f) \in Seq(Parts)
  <2>1. f \in Parts
    BY DEF Parts
  <2> HIDE DEF Parts
  <2> QED
    BY <2>1
<1>8. \A q \in Block : LET r == [q EXCEPT !.arguments = Append(@, f)] IN
          r \in Block /\ r.tool = q.tool /\ r.id = q.id /\ r.arguments = Append(q.arguments, f)
  <2> TAKE q \in Block
  <2> DEFINE more == Append(q.arguments, f)
  <2>1. more \in Seq(Parts)
    BY <1>0
  <2> HIDE DEF more
  <2>2. LET r == [q EXCEPT !.arguments = more] IN
          r \in Block /\ r.tool = q.tool /\ r.id = q.id /\ r.arguments = more
    BY <2>1
  <2> QED
    BY <2>2 DEF more
<1>9. o[i] \in Block
  BY <1>1
<1>10. /\ DOMAIN p = DOMAIN o /\ \A j \in DOMAIN o : j # i => p[j] = o[j]
       /\ p[i] = [o[i] EXCEPT !.arguments = Append(@, f)]
  OBVIOUS
<1>11. p[i] \in Block /\ p[i].tool = h /\ p[i].id = x /\ p[i].arguments = Append(o[i].arguments, f)
  BY <1>8, <1>9, <1>10
<1>12. x # Round!Unset
  BY <1>3 DEF Round!Unset
<1>13. DOMAIN d = DOMAIN c /\ (\A j \in DOMAIN c : j # h => d[j] = c[j])
       /\ d[h] = [id |-> x, arguments |-> Append(c[h].arguments, f)]
  BY <1>3, <1>12 DEF Round!Extended, Round!Put, Round!Slot
<1>14. Append(c[h].arguments, f) \in Seq(Parts)
  BY <1>0, <1>3
<1>15. d[h].id = x /\ d[h].arguments = Append(c[h].arguments, f) /\ d[h] \in Call
  BY <1>3, <1>13, <1>14
<1> HIDE DEF p, d
<1>16. \A j \in DOMAIN c : d[j].id = c[j].id
  BY <1>3, <1>13, <1>15
<1>17. \A j \in DOMAIN c : c[j].id = x => j = h
  BY <1>3 DEF Blocks
<1>18. \A j \in DOMAIN o : o[j].tool = h => j = i
  BY DEF Blocks
<1>20. Round!Spells(t, x, d[h].arguments) /\ p[i].arguments = d[h].arguments
  BY <1>1, <1>7, <1>11, <1>15
<1>21. \A j \in DOMAIN d : d[j] \in [id : DOMAIN t, arguments : Seq(Parts)] /\ Says(t, d[j])
  <2> TAKE j \in DOMAIN d
  <2>1. d[j] \in Call
    BY <1>2, <1>13, <1>15
  <2>4. d[j] \in [id : DOMAIN t, arguments : Seq(Parts)]
    BY <1>5, <2>1
  <2>2. CASE j = h
    <3>1. Round!Spells(t, d[j].id, d[j].arguments)
      BY <1>15, <1>20, <2>2
    <3> QED
      BY <2>4, <3>1 DEF Says
  <2>3. CASE j # h
    <3>1. d[j] = c[j] /\ c[j].id # x /\ Says(s, c[j])
      BY <1>2, <1>13, <1>17, <2>3
    <3>2. /\ Round!Fragments(t, c[j].id) = Round!Fragments(s, c[j].id)
          /\ Round!Spells(s, c[j].id, c[j].arguments) => Round!Spells(t, c[j].id, c[j].arguments)
      BY <1>6, <3>1
    <3> QED
      BY <2>4, <3>1, <3>2 DEF Says
  <2> QED
    BY <2>2, <2>3
<1>22. \A j, k \in DOMAIN d : d[j].id = d[k].id => j = k
  BY <1>13, <1>16 DEF Blocks
<1>23. \A j \in DOMAIN p :
          /\ p[j] \in [tool : DOMAIN d, id : DOMAIN t, arguments : Seq(Parts)]
          /\ p[j].id = d[p[j].tool].id /\ p[j].arguments = d[p[j].tool].arguments
          /\ Round!Spells(t, p[j].id, p[j].arguments)
  <2> TAKE j \in DOMAIN p
  <2>1. p[j] \in Block
    BY <1>1, <1>10, <1>11
  <2>2. p[j] \in [tool : DOMAIN d, id : DOMAIN t, arguments : Seq(Parts)]
    BY <1>5, <1>13, <2>1
  <2>3. CASE j = i
    BY <1>11, <1>15, <1>20, <2>2, <2>3
  <2>4. CASE j # i
    <3>1. p[j] = o[j] /\ o[j].tool # h /\ o[j].tool \in DOMAIN c
      BY <1>1, <1>10, <1>18, <2>4
    <3>2. o[j].id # x /\ d[o[j].tool] = c[o[j].tool]
      BY <1>1, <1>10, <1>13, <1>17, <3>1
    <3>3. Round!Spells(s, o[j].id, o[j].arguments)
      BY <1>1, <1>10
    <3>4. Round!Spells(t, o[j].id, o[j].arguments)
      BY <1>6, <3>2, <3>3
    <3>5. o[j].id = d[o[j].tool].id /\ o[j].arguments = d[o[j].tool].arguments
      BY <1>1, <1>10, <3>2
    <3> QED
      BY <2>2, <3>1, <3>4, <3>5
  <2> QED
    BY <2>3, <2>4
<1>24. \A j, k \in DOMAIN p : p[j].tool = p[k].tool => j = k
  <2>1. \A j \in DOMAIN p : p[j].tool = o[j].tool
    BY <1>10, <1>11
  <2> QED
    BY <1>10, <2>1 DEF Blocks
<1>25. \A k \in DOMAIN t : t[k].kind = "fragment" => t[k].id \in DOMAIN t
  <2> TAKE k \in DOMAIN t
  <2> HAVE t[k].kind = "fragment"
  <2>1. CASE k \in DOMAIN s
    <3>1. s[k].id \in DOMAIN s
      BY <1>5, <2>1 DEF Blocks
    <3> QED
      BY <1>5, <2>1, <3>1
  <2>2. CASE k = Len(s) + 1
    BY <1>3, <1>4, <1>5, <2>2
  <2> QED
    BY <1>5, <2>1, <2>2
<1>26. \A k \in DOMAIN t : t[k].kind = "start" =>
          \/ \E later \in DOMAIN t : t[later].kind = "stop" /\ t[later].id = t[k].id
          \/ \E j \in DOMAIN p : p[j].id = t[k].id
  <2> TAKE k \in DOMAIN t
  <2> HAVE t[k].kind = "start"
  <2>1. k \in DOMAIN s /\ t[k] = s[k] /\ s[k].kind = "start"
    BY <1>4, <1>5
  <2>2. \A j \in DOMAIN o : j \in DOMAIN p /\ p[j].id = o[j].id
    BY <1>10, <1>11
  <2>3. \/ \E later \in DOMAIN s : s[later].kind = "stop" /\ s[later].id = s[k].id
        \/ \E j \in DOMAIN o : o[j].id = s[k].id
    BY <2>1 DEF Blocks
  <2>4. \A later \in DOMAIN s : later \in DOMAIN t /\ t[later] = s[later]
    BY <1>5
  <2> QED
    BY ONLY <2>1, <2>2, <2>3, <2>4
<1>27. Blocks(t, p, n, d)
  BY <1>13, <1>21, <1>22, <1>23, <1>24, <1>25, <1>26 DEF Blocks
<1> QED
  BY <1>27 DEF t, e, p, d

\* A block that stops completes its call, with an empty object when it had no fragments.
LEMMA BlocksStop ==
    ASSUME NEW s \in Seq(Event), NEW o, NEW n, NEW c, Blocks(s, o, n, c), NEW i \in DOMAIN o
    PROVE  Blocks(Append(s, [kind |-> "stop", id |-> o[i].id]),
                  [k \in DOMAIN o \ {i} |-> o[k]], n,
                  Round!Completed(c, o[i].tool, o[i].id,
                                  IF o[i].arguments = <<>> THEN Round!EmptyObject ELSE o[i].arguments))
<1> DEFINE e == [kind |-> "stop", id |-> o[i].id]
           t == Append(s, e)
           x == o[i].id
           h == o[i].tool
           a == IF o[i].arguments = <<>> THEN Round!EmptyObject ELSE o[i].arguments
           p == [k \in DOMAIN o \ {i} |-> o[k]]
           d == Round!Completed(c, h, x, a)
<1>1. x \in Nat
  BY DEF Blocks
<1>2. e \in Event /\ e.kind = "stop" /\ e.id = x
  BY <1>1 DEF Event
<1> HIDE DEF Event, e
<1>3. /\ t[Len(s) + 1] = e /\ Len(s) + 1 \in DOMAIN t
      /\ \A k \in DOMAIN s : k \in DOMAIN t /\ t[k] = s[k]
      /\ \A k \in DOMAIN t : k \in DOMAIN s \/ k = Len(s) + 1
  BY <1>2, Appended
<1>4. Blocks(t, o, n, c)
  BY <1>2, BlocksKept
<1> HIDE DEF t
<1> DEFINE Call == [id : DOMAIN t, arguments : Seq(Parts)]
<1>5. \A j \in DOMAIN o : /\ o[j] \in [tool : DOMAIN c, id : DOMAIN t, arguments : Seq(Parts)]
                          /\ o[j].id = c[o[j].tool].id /\ o[j].arguments = c[o[j].tool].arguments
                          /\ Round!Spells(t, o[j].id, o[j].arguments)
  BY <1>4 DEF Blocks
<1>6. \A j \in DOMAIN c : c[j] \in Call /\ Says(t, c[j])
  BY <1>4 DEF Blocks
<1>7. h \in DOMAIN c /\ x \in DOMAIN t /\ x = c[h].id /\ o[i].arguments \in Seq(Parts)
  BY <1>5
<1>8. a \in Seq(Parts)
  <2>1. Round!EmptyObject \in Seq(Parts)
    BY DEF Round!EmptyObject, Parts
  <2> QED
    BY <1>7, <2>1
<1>9. Round!Spells(t, x, <<>>) => Round!Fragments(t, x) = {}
  BY DEF Round!Spells
<1>10. Round!Spells(t, x, a) \/ (a = Round!EmptyObject /\ Round!Fragments(t, x) = {})
  <2>1. Round!Spells(t, x, o[i].arguments)
    BY <1>5
  <2>2. CASE o[i].arguments = <<>>
    <3>1. Round!Spells(t, x, <<>>)
      BY <2>1, <2>2
    <3> QED
      BY <1>9, <2>2, <3>1
  <2>3. CASE o[i].arguments # <<>>
    <3>1. a = o[i].arguments
      BY <2>3
    <3> HIDE DEF a
    <3> QED
      BY <2>1, <3>1
  <2> QED
    BY <2>2, <2>3
<1> HIDE DEF a
<1>11. DOMAIN d = DOMAIN c /\ (\A j \in DOMAIN c : j # h => d[j] = c[j]) /\ d[h] = [id |-> x, arguments |-> a]
  BY <1>7 DEF Round!Completed, Round!Put
<1>12. d[h].id = x /\ d[h].arguments = a /\ d[h] \in Call
  BY <1>7, <1>8, <1>11
<1>13. DOMAIN p = DOMAIN o \ {i} /\ \A j \in DOMAIN p : p[j] = o[j] /\ j \in DOMAIN o /\ j # i
  OBVIOUS
<1> HIDE DEF p, d, Call
<1>14. \A j \in DOMAIN d : d[j] \in Call /\ Says(t, d[j])
  <2> TAKE j \in DOMAIN d
  <2>1. CASE j = h
    BY <1>10, <1>12, <2>1 DEF Says
  <2>2. CASE j # h
    BY <1>6, <1>11, <2>2
  <2> QED
    BY <2>1, <2>2
<1>15. \A j \in DOMAIN c : d[j].id = c[j].id
  BY <1>7, <1>11, <1>12
<1>16. \A j, k \in DOMAIN d : d[j].id = d[k].id => j = k
  BY <1>4, <1>11, <1>15 DEF Blocks
<1>17. \A j \in DOMAIN p :
          /\ p[j] \in [tool : DOMAIN d, id : DOMAIN t, arguments : Seq(Parts)]
          /\ p[j].id = d[p[j].tool].id /\ p[j].arguments = d[p[j].tool].arguments
          /\ Round!Spells(t, p[j].id, p[j].arguments)
  <2> TAKE j \in DOMAIN p
  <2>1. p[j] = o[j] /\ j \in DOMAIN o /\ j # i
    BY <1>13
  <2>2. o[j].tool # h /\ o[j].tool \in DOMAIN c
    BY <1>4, <1>5, <2>1 DEF Blocks
  <2>3. d[o[j].tool] = c[o[j].tool]
    BY <1>11, <2>2
  <2> QED
    BY <1>5, <1>11, <2>1, <2>3
<1>18. \A j, k \in DOMAIN p : p[j].tool = p[k].tool => j = k
  BY <1>4, <1>13 DEF Blocks
<1>19. \A k \in DOMAIN t : t[k].kind = "fragment" => t[k].id \in DOMAIN t
  BY <1>4 DEF Blocks
<1>20. \A k \in DOMAIN t : t[k].kind = "start" =>
          \/ \E later \in DOMAIN t : t[later].kind = "stop" /\ t[later].id = t[k].id
          \/ \E j \in DOMAIN p : p[j].id = t[k].id
  <2> TAKE k \in DOMAIN t
  <2> HAVE t[k].kind = "start"
  <2>1. \/ \E later \in DOMAIN t : t[later].kind = "stop" /\ t[later].id = t[k].id
        \/ \E j \in DOMAIN o : o[j].id = t[k].id
    BY <1>4 DEF Blocks
  <2>2. ASSUME NEW j \in DOMAIN o, o[j].id = t[k].id
        PROVE  \/ \E later \in DOMAIN t : t[later].kind = "stop" /\ t[later].id = t[k].id
               \/ \E q \in DOMAIN p : p[q].id = t[k].id
    <3>1. CASE j = i
      BY <1>2, <1>3, <2>2, <3>1
    <3>2. CASE j # i
      BY <1>13, <2>2, <3>2
    <3> QED
      BY <3>1, <3>2
  <2> QED
    BY <2>1, <2>2
<1>21. n \in Nat /\ DOMAIN d = 0..(n - 1)
  BY <1>4, <1>11 DEF Blocks
<1>22. Blocks(t, p, n, d)
  BY <1>14, <1>16, <1>17, <1>18, <1>19, <1>20, <1>21 DEF Blocks, Call
<1> QED
  BY <1>22 DEF t, e, p, d, a

\* A chunk starts, replaces or extends the call of its index.
LEMMA ChunksMore ==
    ASSUME NEW s \in Seq(Event), NEW o, NEW c, Chunks(s, o, c), NEW i, NEW id \in Ids, NEW named \in BOOLEAN,
           NEW f \in {"p", "q"}, NEW current, current = IF i \in DOMAIN o THEN o[i] ELSE Round!Unset,
           named \/ id = current, id # current => Round!Fragments(s, id) = {}
    PROVE  Chunks(Append(s, [kind |-> "fragment", id |-> id, text |-> f]), Round!Put(o, i, id),
                  Round!Extended(IF named THEN Round!Started(c, i, id) ELSE c, i,
                                 IF named THEN id ELSE Round!Unset, f))
<1> DEFINE e == [kind |-> "fragment", id |-> id, text |-> f]
           t == Append(s, e)
           p == Round!Put(o, i, id)
           b == IF named THEN Round!Started(c, i, id) ELSE c
           d == Round!Extended(b, i, IF named THEN id ELSE Round!Unset, f)
           a == IF i \in DOMAIN o /\ o[i] = id THEN c[i].arguments ELSE <<>>
           Call == [id : Ids, arguments : Seq(Parts)]
<1>1. id # Round!Unset /\ id \in Nat
  BY DEF Ids, Round!Unset
<1>2. e \in Event /\ e.kind = "fragment" /\ e.id = id /\ e.text = f
  BY <1>1 DEF Event
<1>3. DOMAIN c = DOMAIN o /\ \A j \in DOMAIN c :
          /\ c[j] \in Call /\ c[j].id = o[j]
          /\ Round!Spells(s, o[j], c[j].arguments) /\ Round!Fragments(s, o[j]) # {}
  BY DEF Chunks
<1>4. a \in Seq(Parts) /\ Round!Spells(s, id, a)
  <2>1. CASE i \in DOMAIN o /\ o[i] = id
    BY <1>3, <2>1
  <2>2. CASE ~(i \in DOMAIN o /\ o[i] = id)
    <3>1. Round!Fragments(s, id) = {} /\ a = <<>>
      BY <1>1, <2>2
    <3>2. Round!Spells(s, id, <<>>)
      BY <3>1, SpellsNothing
    <3> HIDE DEF a
    <3>3. <<>> \in Seq(Parts)
      OBVIOUS
    <3> QED
      BY <3>1, <3>2, <3>3
  <2> QED
    BY <2>1, <2>2
<1>5. (IF i \in DOMAIN b THEN b[i] ELSE [id |-> Round!Unset, arguments |-> <<>>]).arguments = a
      /\ (i \in DOMAIN b => b[i].id = id) /\ (i \notin DOMAIN b => FALSE)
      /\ DOMAIN b = DOMAIN c \cup {i} /\ \A j \in DOMAIN c : j # i => b[j] = c[j]
  <2>1. CASE named
    <3>1. b = Round!Put(c, i, [id |-> id, arguments |-> IF Round!Slot(c, i).id \notin {Round!Unset, id}
                                                         THEN <<>> ELSE Round!Slot(c, i).arguments])
      BY <2>1 DEF Round!Started
    <3>2. (IF Round!Slot(c, i).id \notin {Round!Unset, id} THEN <<>> ELSE Round!Slot(c, i).arguments) = a
      <4>1. CASE i \in DOMAIN c
        <5>1. Round!Slot(c, i) = c[i] /\ c[i].id = o[i] /\ o[i] # Round!Unset
          BY <1>3, <4>1 DEF Round!Slot, Ids, Round!Unset
        <5> QED
          BY <1>3, <4>1, <5>1
      <4>2. CASE i \notin DOMAIN c
        <5>1. Round!Slot(c, i).id = Round!Unset /\ Round!Slot(c, i).arguments = <<>>
          BY <4>2 DEF Round!Slot
        <5> QED
          BY <1>3, <4>2, <5>1
      <4> QED
        BY <4>1, <4>2
    <3>3. b = Round!Put(c, i, [id |-> id, arguments |-> a])
      BY <3>1, <3>2
    <3> HIDE DEF a, b
    <3> QED
      BY <3>3 DEF Round!Put
  <2>2. CASE ~named
    <3>1. b = c /\ id = current
      BY <2>2
    <3>2. i \in DOMAIN o /\ o[i] = id
      BY <1>1, <3>1
    <3> QED
      BY <1>3, <3>1, <3>2
  <2> QED
    BY <2>1, <2>2
<1> HIDE DEF Event, e
<1>6. \A y : \A text : y # id => /\ Round!Fragments(t, y) = Round!Fragments(s, y)
                                 /\ Round!Spells(s, y, text) => Round!Spells(t, y, text)
  BY <1>2, SpellsKept
<1> DEFINE more == Append(a, f)
<1>7. Round!Spells(t, id, more) /\ Round!Fragments(t, id) # {}
  <2>1. Round!Spells(t, id, more)
    BY <1>2, <1>4, SpellsMore
  <2>2. Round!Fragments(t, id) = Round!Fragments(s, id) \cup {Len(s) + 1}
    BY <1>2, FragmentsGrow
  <2> QED
    BY <2>1, <2>2
<1>8. more \in Seq(Parts)
  <2>1. f \in Parts
    BY DEF Parts
  <2> HIDE DEF Parts, a
  <2> QED
    BY <1>4, <2>1
<1>9. d = Round!Put(b, i, [id |-> id, arguments |-> more])
  <2>1. Round!Slot(b, i) = b[i] /\ b[i].id = id /\ b[i].arguments = a
    BY <1>5 DEF Round!Slot
  <2> HIDE DEF a, b
  <2> QED
    BY <1>1, <2>1 DEF Round!Extended
<1> HIDE DEF t, a, b, d, more
<1>10. /\ DOMAIN d = DOMAIN o \cup {i} /\ d[i] = [id |-> id, arguments |-> more]
       /\ \A j \in DOMAIN o : j # i => d[j] = c[j]
  BY <1>3, <1>5, <1>9 DEF Round!Put
<1>11. DOMAIN p = DOMAIN o \cup {i} /\ p[i] = id /\ \A j \in DOMAIN o : j # i => p[j] = o[j]
  BY DEF Round!Put
<1> HIDE DEF p
<1>12. d[i] \in Call /\ d[i].id = id /\ d[i].arguments = more
  BY <1>8, <1>10
<1>13. \A j \in DOMAIN o : j # i => o[j] # id
  <2> SUFFICES ASSUME NEW j \in DOMAIN o, j # i, o[j] = id PROVE FALSE
    OBVIOUS
  <2>1. Round!Fragments(s, id) # {}
    BY <1>3
  <2>2. id = current
    BY <2>1
  <2>3. i \in DOMAIN o /\ o[i] = id
    BY <1>1, <2>2
  <2> QED
    BY <2>3 DEF Chunks
<1>14. \A j \in DOMAIN d :
          /\ d[j] \in Call /\ d[j].id = p[j]
          /\ Round!Spells(t, p[j], d[j].arguments) /\ Round!Fragments(t, p[j]) # {}
  <2> TAKE j \in DOMAIN d
  <2>1. CASE j = i
    BY <1>7, <1>11, <1>12, <2>1
  <2>2. CASE j # i
    <3>1. j \in DOMAIN o /\ d[j] = c[j] /\ p[j] = o[j] /\ o[j] # id
      BY <1>10, <1>11, <1>13, <2>2
    <3> QED
      BY <1>3, <1>6, <3>1
  <2> QED
    BY <2>1, <2>2
<1>15. \A j, k \in DOMAIN p : p[j] = p[k] => j = k
  BY <1>11, <1>13 DEF Chunks
<1>16. Chunks(t, p, d)
  BY <1>10, <1>11, <1>14, <1>15 DEF Chunks
<1> QED
  BY <1>16 DEF t, e, p, b, d

\* What an event of each kind, once added, leaves to show.
LEMMA RoundGoesOn ==
    ASSUME RoundInv, status = "reading", UNCHANGED <<protocol, status>>, NEW e \in Event, sent' = Append(sent, e),
           protocol = "anthropic" => Blocks(sent', open', ordinal', calls') /\ Counted(sent', usage'),
           protocol = "openai" => Chunks(sent', open', calls'),
           Reasoned(sent', reason'), Ended(sent', closed', failed')
    PROVE  RoundInv'
<1>1. sent \in Seq(Event) /\ protocol \in {"anthropic", "openai"}
  BY DEF RoundInv
<1>2. sent' \in Seq(Event)
  BY <1>1, Appended
<1>3. ~Round!Used' /\ protocol' = protocol
  BY DEF Round!Used
<1>4. /\ protocol' \in {"anthropic", "openai"}
      /\ protocol' = "anthropic" => Blocks(sent', open', ordinal', calls') /\ Counted(sent', usage')
      /\ protocol' = "openai" => Chunks(sent', open', calls')
  BY <1>1, <1>3
<1>5. Round!Used' => (protocol' = "anthropic" => Round!Whole') /\ reason' # "length"
  BY <1>3
<1> QED
  BY <1>2, <1>4, <1>5 DEF RoundInv, Blocks, Counted, Chunks, Reasoned, Ended, Says

\* An event that is no tool call's.
LEMMA OtherEvents ==
    ASSUME RoundInv, NEW e \in Event, e.kind \notin {"fragment", "start"}, Round!Send(e),
           UNCHANGED <<protocol, open, ordinal, calls, status>>
    PROVE  /\ status = "reading" /\ sent \in Seq(Event) /\ sent' = Append(sent, e)
           /\ protocol = "anthropic" => Blocks(sent', open', ordinal', calls') /\ Counted(sent, usage)
           /\ protocol = "openai" => Chunks(sent', open', calls')
           /\ Reasoned(sent, reason) /\ Ended(sent, closed, failed)
<1>1. /\ sent \in Seq(Event) /\ Reasoned(sent, reason) /\ Ended(sent, closed, failed)
      /\ protocol = "anthropic" => Blocks(sent, open, ordinal, calls) /\ Counted(sent, usage)
      /\ protocol = "openai" => Chunks(sent, open, calls)
  BY DEF RoundInv
<1>2. status = "reading" /\ sent' = Append(sent, e)
  BY DEF Round!Send
<1>3. protocol = "anthropic" => Blocks(Append(sent, e), open, ordinal, calls)
  BY <1>1, BlocksKept
<1>4. protocol = "openai" => Chunks(Append(sent, e), open, calls)
  BY <1>1, ChunksKept
<1>5. open' = open /\ ordinal' = ordinal /\ calls' = calls
  OBVIOUS
<1> QED
  BY <1>1, <1>2, <1>3, <1>4, <1>5

\* An event of a tool call leaves the rest.
LEMMA CallEvents ==
    ASSUME RoundInv, NEW e \in Event, e.kind \in {"fragment", "start", "stop"}, Round!Send(e), UNCHANGED Round!decoder
    PROVE  /\ status = "reading" /\ sent \in Seq(Event) /\ sent' = Append(sent, e)
           /\ protocol = "anthropic" => Blocks(sent, open, ordinal, calls) /\ Counted(sent', usage')
           /\ protocol = "openai" => Chunks(sent, open, calls)
           /\ Reasoned(sent', reason') /\ Ended(sent', closed', failed')
<1>1. /\ sent \in Seq(Event) /\ Reasoned(sent, reason) /\ Ended(sent, closed, failed)
      /\ protocol = "anthropic" => Blocks(sent, open, ordinal, calls) /\ Counted(sent, usage)
      /\ protocol = "openai" => Chunks(sent, open, calls)
  BY DEF RoundInv
<1>2. status = "reading" /\ sent' = Append(sent, e)
  BY DEF Round!Send
<1>3. protocol = "anthropic" => Counted(Append(sent, e), usage)
  BY <1>1, CountedKept
<1>4. Reasoned(Append(sent, e), reason)
  BY <1>1, ReasonedKept
<1>5. Ended(Append(sent, e), closed, failed)
  BY <1>1, EndedMore
<1>6. usage' = usage /\ reason' = reason /\ failed' = failed /\ closed' = closed
  BY DEF Round!decoder
<1> QED
  BY <1>1, <1>2, <1>3, <1>4, <1>5, <1>6

\* Counters: a step that sends them, of either protocol.
LEMMA UsageSteps ==
    ASSUME RoundInv, NEW u \in Round!Counts, Round!MessageUsage(u) \/ Round!ChunkUsage(u)
    PROVE  RoundInv'
<1> DEFINE e == [kind |-> "usage", usage |-> u]
<1>1. e \in Event /\ e.kind = "usage"
  BY DEF Event
<1>2. /\ Round!Send(e) /\ UNCHANGED <<protocol, open, ordinal, calls, status, reason, failed, closed>>
      /\ protocol = "anthropic" => usage' = IF sent = <<>> THEN u ELSE Round!Merged(usage, u)
  BY DEF Round!MessageUsage, Round!ChunkUsage
<1>3. /\ status = "reading" /\ sent \in Seq(Event) /\ sent' = Append(sent, e)
      /\ protocol = "anthropic" => Blocks(sent', open', ordinal', calls') /\ Counted(sent, usage)
      /\ protocol = "openai" => Chunks(sent', open', calls')
      /\ Reasoned(sent, reason) /\ Ended(sent, closed, failed)
  BY <1>1, <1>2, OtherEvents
<1>4. protocol = "anthropic" => Counted(sent', usage')
  BY <1>2, <1>3, CountedMore
<1> HIDE DEF e
<1>5. Reasoned(sent', reason')
  BY <1>1, <1>2, <1>3, ReasonedKept
<1>6. Ended(sent', closed', failed')
  <2>1. Ended(Append(sent, e), closed, failed)
    BY <1>1, <1>3, EndedMore
  <2> QED
    BY <1>2, <1>3, <2>1
<1> QED
  BY <1>1, <1>2, <1>3, <1>4, <1>5, <1>6, RoundGoesOn

\* Reasons: a step that sends one, of either protocol.
LEMMA ReasonSteps ==
    ASSUME RoundInv, NEW r \in {"stop", "length", "tool_calls"}, Round!MessageReason(r) \/ Round!ChunkFinish(r)
    PROVE  RoundInv'
<1> DEFINE e == [kind |-> "reason", reason |-> r]
<1>1. e \in Event /\ e.kind = "reason"
  BY DEF Event
<1>2. /\ Round!Send(e) /\ UNCHANGED <<protocol, open, ordinal, calls, status, usage, failed, closed>>
      /\ reason' = r
  BY DEF Round!MessageReason, Round!ChunkFinish
<1>3. /\ status = "reading" /\ sent \in Seq(Event) /\ sent' = Append(sent, e)
      /\ protocol = "anthropic" => Blocks(sent', open', ordinal', calls') /\ Counted(sent, usage)
      /\ protocol = "openai" => Chunks(sent', open', calls')
      /\ Ended(sent, closed, failed)
  BY <1>1, <1>2, OtherEvents
<1>4. Reasoned(sent', reason')
  BY <1>2, <1>3, ReasonedMore
<1> HIDE DEF e
<1>5. protocol = "anthropic" => Counted(sent', usage')
  <2>1. protocol = "anthropic" => Counted(Append(sent, e), usage)
    BY <1>1, <1>3, CountedKept
  <2> QED
    BY <1>2, <1>3, <2>1
<1>6. Ended(sent', closed', failed')
  <2>1. Ended(Append(sent, e), closed, failed)
    BY <1>1, <1>3, EndedMore
  <2> QED
    BY <1>2, <1>3, <2>1
<1> QED
  BY <1>1, <1>2, <1>3, <1>4, <1>5, <1>6, RoundGoesOn

\* The end of a message and the error that takes its place.
LEMMA EndSteps ==
    ASSUME RoundInv, Round!MessageStop \/ Round!MessageError
    PROVE  RoundInv'
<1>1. PICK kind \in {"end", "error"} :
          /\ Round!Send([kind |-> kind]) /\ UNCHANGED <<protocol, open, ordinal, calls, status, usage, reason>>
          /\ closed' = TRUE /\ (IF kind = "error" THEN failed' = TRUE ELSE UNCHANGED failed)
  BY DEF Round!MessageStop, Round!MessageError
<1> DEFINE e == [kind |-> kind]
<1>2. e \in Event /\ e.kind = kind
  BY DEF Event
<1> HIDE DEF e
<1>3. Round!Send(e)
  BY <1>1 DEF e
<1>4. /\ status = "reading" /\ sent \in Seq(Event) /\ sent' = Append(sent, e)
      /\ protocol = "anthropic" => Blocks(sent', open', ordinal', calls') /\ Counted(sent, usage)
      /\ protocol = "openai" => Chunks(sent', open', calls')
      /\ Reasoned(sent, reason) /\ Ended(sent, closed, failed)
  BY <1>1, <1>2, <1>3, OtherEvents
<1>5. protocol = "anthropic" => Counted(sent', usage')
  <2>1. protocol = "anthropic" => Counted(Append(sent, e), usage)
    BY <1>2, <1>4, CountedKept
  <2> QED
    BY <1>1, <1>4, <2>1
<1>6. Reasoned(sent', reason')
  <2>1. Reasoned(Append(sent, e), reason)
    BY <1>2, <1>4, ReasonedKept
  <2> QED
    BY <1>1, <1>4, <2>1
<1>7. Ended(sent', closed', failed')
  <2>1. CASE kind = "error"
    <3>1. Ended(Append(sent, e), TRUE, TRUE)
      BY <1>2, <1>4, EndedMore
    <3>2. closed' = TRUE /\ failed' = TRUE
      BY <1>1, <2>1
    <3> QED
      BY <1>4, <3>1, <3>2
  <2>2. CASE kind = "end"
    <3>1. Ended(Append(sent, e), TRUE, failed)
      <4>1. e.kind = "end" /\ e.kind # "error"
        BY <1>2, <2>2
      <4>2. /\ TRUE => closed \/ failed \/ e.kind = "end"
            /\ failed => failed
            /\ e.kind = "error" => failed
        BY <4>1
      <4> QED
        BY <1>2, <1>4, <4>2, EndedMore, Zenon
    <3>2. closed' = TRUE /\ failed' = failed
      BY <1>1, <2>2
    <3> QED
      BY <1>4, <3>1, <3>2
  <2> QED
    BY <2>1, <2>2
<1> QED
  BY <1>1, <1>2, <1>4, <1>5, <1>6, <1>7, RoundGoesOn

\* The blocks of a message: one begins, is extended or is closed.
LEMMA BlockSteps ==
    ASSUME RoundInv, NEW i, NEW f \in {"p", "q"}, Round!BlockStart(i) \/ Round!BlockStop(i) \/ Round!BlockDelta(i, f)
    PROVE  RoundInv'
<1>0. protocol = "anthropic" /\ UNCHANGED <<protocol, status>> /\ UNCHANGED Round!decoder
  BY DEF Round!BlockStart, Round!BlockStop, Round!BlockDelta
<1>1. ASSUME Round!BlockStart(i) PROVE RoundInv'
  <2> DEFINE id == Len(sent) + 1
             e == [kind |-> "start", id |-> id]
  <2>1. Round!Send(e) /\ i \notin DOMAIN open /\ ordinal' = ordinal + 1 /\ calls' = Round!Started(calls, ordinal, id)
        /\ open' = Round!Put(open, i, [tool |-> ordinal, id |-> id, arguments |-> <<>>])
    BY <1>1 DEF Round!BlockStart
  <2>2. sent \in Seq(Event) /\ Blocks(sent, open, ordinal, calls)
    BY <1>0 DEF RoundInv
  <2>3. e \in Event /\ e.kind = "start"
    <3>1. id \in Nat
      BY <2>2, Appended
    <3> HIDE DEF id
    <3> QED
      BY <3>1 DEF Event
  <2>4. /\ status = "reading" /\ sent' = Append(sent, e)
        /\ Counted(sent', usage') /\ Reasoned(sent', reason') /\ Ended(sent', closed', failed')
    BY <1>0, <2>1, <2>3, CallEvents
  <2>5. Blocks(sent', open', ordinal', calls')
    BY <2>1, <2>2, <2>4, BlocksStart
  <2> HIDE DEF e
  <2> QED
    BY <1>0, <2>3, <2>4, <2>5, RoundGoesOn
<1>2. ASSUME i \in DOMAIN open, NEW e, e = [kind |-> "stop", id |-> open[i].id] \/ e = [kind |-> "fragment", id |-> open[i].id, text |-> f]
      PROVE  e \in Event /\ e.kind \in {"fragment", "start", "stop"}
  <2>1. open[i].id \in DOMAIN sent /\ DOMAIN sent \subseteq Nat
    BY <1>0, <1>2, Appended DEF RoundInv, Blocks
  <2> QED
    BY <1>2, <2>1 DEF Event
<1>3. ASSUME Round!BlockStop(i) PROVE RoundInv'
  <2> DEFINE e == [kind |-> "stop", id |-> open[i].id]
  <2>1. Round!Send(e) /\ i \in DOMAIN open /\ open' = [k \in DOMAIN open \ {i} |-> open[k]] /\ ordinal' = ordinal
        /\ calls' = Round!Completed(calls, open[i].tool, open[i].id,
                          IF open[i].arguments = <<>> THEN Round!EmptyObject ELSE open[i].arguments)
    BY <1>3 DEF Round!BlockStop
  <2>2. sent \in Seq(Event) /\ Blocks(sent, open, ordinal, calls)
    BY <1>0 DEF RoundInv
  <2>3. e \in Event /\ e.kind \in {"fragment", "start", "stop"}
    BY <1>2, <2>1
  <2>4. /\ status = "reading" /\ sent' = Append(sent, e)
        /\ Counted(sent', usage') /\ Reasoned(sent', reason') /\ Ended(sent', closed', failed')
    BY <1>0, <2>1, <2>3, CallEvents
  <2>5. Blocks(sent', open', ordinal', calls')
    BY <2>1, <2>2, <2>4, BlocksStop
  <2> HIDE DEF e
  <2> QED
    BY <1>0, <2>3, <2>4, <2>5, RoundGoesOn
<1>4. ASSUME Round!BlockDelta(i, f) PROVE RoundInv'
  <2> DEFINE e == [kind |-> "fragment", id |-> open[i].id, text |-> f]
  <2>1. Round!Send(e) /\ i \in DOMAIN open /\ open' = [open EXCEPT ![i].arguments = Append(@, f)] /\ ordinal' = ordinal
        /\ calls' = Round!Extended(calls, open[i].tool, open[i].id, f)
    BY <1>4 DEF Round!BlockDelta
  <2>2. sent \in Seq(Event) /\ Blocks(sent, open, ordinal, calls)
    BY <1>0 DEF RoundInv
  <2>3. e \in Event /\ e.kind \in {"fragment", "start", "stop"}
    BY <1>2, <2>1
  <2>4. /\ status = "reading" /\ sent' = Append(sent, e)
        /\ Counted(sent', usage') /\ Reasoned(sent', reason') /\ Ended(sent', closed', failed')
    BY <1>0, <2>1, <2>3, CallEvents
  <2>5. Blocks(sent', open', ordinal', calls')
    BY <2>1, <2>2, <2>4, BlocksDelta
  <2> HIDE DEF e
  <2> QED
    BY <1>0, <2>3, <2>4, <2>5, RoundGoesOn
<1> QED
  BY <1>1, <1>3, <1>4

\* The chunks of a chat completion: a call is named or extended at its index.
LEMMA ChunkSteps ==
    ASSUME RoundInv, NEW i, NEW id \in Ids, NEW named \in BOOLEAN, NEW f \in {"p", "q"},
           Round!ChunkCall(i, id, named, f)
    PROVE  RoundInv'
<1> DEFINE e == [kind |-> "fragment", id |-> id, text |-> f]
           current == IF i \in DOMAIN open THEN open[i] ELSE Round!Unset
<1>1. /\ protocol = "openai" /\ UNCHANGED <<protocol, status>> /\ UNCHANGED Round!decoder
      /\ named \/ id = current
      /\ id # current => id \notin {sent[k].id : k \in {j \in DOMAIN sent : sent[j].kind = "fragment"}}
      /\ Round!Send(e) /\ open' = Round!Put(open, i, id)
      /\ calls' = Round!Extended(IF named THEN Round!Started(calls, i, id) ELSE calls, i,
                                 IF named THEN id ELSE Round!Unset, f)
  BY DEF Round!ChunkCall
<1>2. sent \in Seq(Event) /\ Chunks(sent, open, calls)
  BY <1>1 DEF RoundInv
<1>3. e \in Event /\ e.kind = "fragment"
  BY DEF Event, Ids
<1>4. /\ status = "reading" /\ sent' = Append(sent, e)
      /\ Reasoned(sent', reason') /\ Ended(sent', closed', failed')
  BY <1>1, <1>3, CallEvents
<1>5. id # current => Round!Fragments(sent, id) = {}
  BY <1>1 DEF Round!Fragments
<1>6. Chunks(sent', open', calls')
  BY <1>1, <1>2, <1>4, <1>5, ChunksMore
<1>7. protocol # "anthropic"
  BY <1>1
<1> HIDE DEF e
<1> QED
  BY <1>1, <1>3, <1>4, <1>6, <1>7, RoundGoesOn

\* A round is taken only when it is whole, and never when its reason is the token limit.
LEMMA FinishStep ==
    ASSUME RoundInv, Round!Finish
    PROVE  RoundInv'
<1>1. /\ status' = IF Round!Whole THEN Round!Taken ELSE "failed"
      /\ UNCHANGED <<protocol, sent, open, ordinal, usage, reason, failed, closed, calls>>
  BY DEF Round!Finish, Round!decoder
<1>2. Round!Used' => Round!Whole /\ reason # "length"
  BY <1>1 DEF Round!Used, Round!Taken
<1>3. Round!Whole' = Round!Whole
  BY <1>1 DEF Round!Whole, Round!WholeArguments
<1>4. Round!Used' => (protocol' = "anthropic" => Round!Whole') /\ reason' # "length"
  BY <1>1, <1>2, <1>3
<1>5. /\ protocol' \in {"anthropic", "openai"} /\ sent' \in Seq(Event)
      /\ protocol' = "anthropic" => Blocks(sent', open', ordinal', calls') /\ Counted(sent', usage')
      /\ protocol' = "openai" => Chunks(sent', open', calls')
      /\ Reasoned(sent', reason') /\ Ended(sent', closed', failed')
  BY <1>1 DEF RoundInv
<1> QED
  BY <1>4, <1>5 DEF RoundInv, Blocks, Counted, Chunks, Reasoned, Ended, Says

\* The invariant of a round.
LEMMA RoundInvariant ==
    ASSUME Round!RoundAssumption
    PROVE  Round!Spec => []RoundInv
<1>1. Round!Init => RoundInv
  <2> SUFFICES ASSUME Round!Init PROVE RoundInv
    OBVIOUS
  <2> USE DEF Round!Init
  <2>1. protocol \in {"anthropic", "openai"}
    BY DEF Round!RoundAssumption
  <2>2. sent \in Seq(Event) /\ DOMAIN sent = {}
    OBVIOUS
  <2>3. DOMAIN open = {} /\ DOMAIN calls = {}
    BY DEF Round!NoCalls
  <2>4. Blocks(sent, open, ordinal, calls)
    BY <2>2, <2>3 DEF Blocks
  <2>5. Counted(sent, usage)
    BY <2>2 DEF Counted, Counters, Round!Unset, Round!Stated
  <2>6. Chunks(sent, open, calls)
    BY <2>3 DEF Chunks
  <2>7. Reasoned(sent, reason) /\ Ended(sent, closed, failed)
    BY <2>2 DEF Reasoned, Ended, Round!Reasons
  <2>8. ~Round!Used
    BY DEF Round!Used
  <2> QED
    BY <2>1, <2>2, <2>4, <2>5, <2>6, <2>7, <2>8 DEF RoundInv
<1>2. RoundInv /\ [Round!Next]_Round!vars => RoundInv'
  <2> SUFFICES ASSUME RoundInv, [Round!Next]_Round!vars PROVE RoundInv'
    OBVIOUS
  <2>1. ASSUME NEW u \in Round!Counts, Round!MessageUsage(u) \/ Round!ChunkUsage(u) PROVE RoundInv'
    BY <2>1, UsageSteps
  <2>2. ASSUME NEW r \in {"stop", "length", "tool_calls"}, Round!MessageReason(r) \/ Round!ChunkFinish(r) PROVE RoundInv'
    BY <2>2, ReasonSteps
  <2>3. ASSUME NEW i \in Indices, Round!BlockStart(i) \/ Round!BlockStop(i) PROVE RoundInv'
    <3>1. "p" \in {"p", "q"}
      OBVIOUS
    <3> QED
      BY <2>3, <3>1, BlockSteps
  <2>4. ASSUME NEW i \in Indices, NEW f \in {"p", "q"}, Round!BlockDelta(i, f) PROVE RoundInv'
    BY <2>4, BlockSteps
  <2>5. ASSUME NEW i \in Indices, NEW f \in {"p", "q"}, NEW id \in {10, 11, 12}, NEW named \in BOOLEAN,
               Round!ChunkCall(i, id, named, f)
        PROVE  RoundInv'
    BY <2>5, ChunkSteps DEF Ids
  <2>6. CASE Round!MessageStop \/ Round!MessageError
    BY <2>6, EndSteps
  <2>7. CASE Round!Finish
    BY <2>7, FinishStep
  <2>8. CASE UNCHANGED Round!vars
    <3>1. UNCHANGED <<protocol, sent, open, ordinal, usage, reason, failed, closed, calls, status>>
      BY <2>8 DEF Round!vars
    <3>2. Round!Whole' = Round!Whole
      BY <3>1 DEF Round!Whole, Round!WholeArguments
    <3>3. Round!Used' = Round!Used
      BY <3>1 DEF Round!Used
    <3>4. Round!Used' => (protocol' = "anthropic" => Round!Whole') /\ reason' # "length"
      BY <3>1, <3>2, <3>3 DEF RoundInv
    <3>5. /\ protocol' \in {"anthropic", "openai"} /\ sent' \in Seq(Event)
          /\ protocol' = "anthropic" => Blocks(sent', open', ordinal', calls') /\ Counted(sent', usage')
          /\ protocol' = "openai" => Chunks(sent', open', calls')
          /\ Reasoned(sent', reason') /\ Ended(sent', closed', failed')
      BY <3>1 DEF RoundInv
    <3> QED
      BY <3>4, <3>5 DEF RoundInv, Blocks, Counted, Chunks, Reasoned, Ended, Says
  <2> QED
    BY <2>1, <2>2, <2>3, <2>4, <2>5, <2>6, <2>7, <2>8 DEF Round!Next
<1> QED
  BY <1>1, <1>2, PTL DEF Round!Spec

\* What the provider loop takes from a round (provider_loop.rs execute_provider_loop, both
\* decoders) is what the provider sent: tool calls of their own fragments in order, of an
\* Anthropic stream that reached its end, with the counters it stated last, and never a
\* round that was stopped at the token limit.
THEOREM RoundsStayWhatWasSent ==
    ASSUME Round!RoundAssumption
    PROVE  Round!Spec => []RoundsAreWhatWasSent
<1>1. RoundInv => Round!RoundsAreWhatWasSent
  <2> SUFFICES ASSUME RoundInv PROVE Round!RoundsAreWhatWasSent
    OBVIOUS
  <2>1. Round!ArgumentsAreTheirFragments
    BY DEF RoundInv, Round!ArgumentsAreTheirFragments, Blocks, Chunks, Says
  <2>2. Round!CutOffStreamsFail
    <3> SUFFICES ASSUME Round!Used, protocol = "anthropic"
                 PROVE  /\ "end" \in Round!Kinds /\ "error" \notin Round!Kinds /\ "reason" \in Round!Kinds
                        /\ \A k \in DOMAIN sent : sent[k].kind = "start" =>
                              \E later \in DOMAIN sent : sent[later].kind = "stop" /\ sent[later].id = sent[k].id
      BY DEF Round!CutOffStreamsFail
    <3>1. ~failed /\ closed /\ reason # Round!None /\ DOMAIN open = {}
      BY DEF RoundInv, Round!Whole
    <3>2. "end" \in Round!Kinds /\ "error" \notin Round!Kinds
      BY <3>1 DEF RoundInv, Ended, Round!Kinds
    <3>3. "reason" \in Round!Kinds
      BY <3>1 DEF RoundInv, Reasoned, Round!Kinds, Round!Reasons
    <3> QED
      BY <3>1, <3>2, <3>3 DEF RoundInv, Blocks
  <2>3. Round!UsageIsAsStated
    BY DEF RoundInv, Counted, Counters, Round!UsageIsAsStated
  <2>4. Round!LimitedRoundsAreRefused
    <3> SUFFICES ASSUME Round!Used, NEW final \in Round!Reasons(sent), sent[final].reason = "length",
                        \A k \in Round!Reasons(sent) : k <= final
                 PROVE  FALSE
      BY DEF Round!LimitedRoundsAreRefused
    <3>1. reason # "length"
      BY DEF RoundInv
    <3>2. PICK k \in Round!Reasons(sent) : reason = sent[k].reason /\ \A j \in Round!Reasons(sent) : j <= k
      BY DEF RoundInv, Reasoned
    <3>3. Round!Reasons(sent) \subseteq Nat
      BY Appended DEF RoundInv, Round!Reasons
    <3>4. k = final
      BY <3>2, <3>3
    <3> QED
      BY <3>1, <3>2, <3>4
  <2> QED
    BY <2>1, <2>2, <2>3, <2>4 DEF Round!RoundsAreWhatWasSent
<1> QED
  BY <1>1, RoundInvariant, PTL DEF RoundsAreWhatWasSent

---------------------------------------------------------------------------------
(* The answers of the native tools, for any texts, directories and cap. *)

\* The cardinality that the instance takes from the library is the library's.
LEMMA SameSizes == \A S : Answers!Cardinality(S) = Cardinality(S)
BY Zenon DEF Answers!Cardinality, Cardinality

\* A text of n characters has at most 6n bytes in a document.
LEMMA EscapesAreBounded ==
    ASSUME NEW n \in Nat, NEW text, DOMAIN text \subseteq 1..n
    PROVE  Answers!EscapedSize(text) \in Nat /\ Answers!EscapedSize(text) <= 6 * n
<1> DEFINE bytes == {b \in (DOMAIN text) \X (1..6) : b[2] <= Len(Answers!Bytes(text[b[1]]))}
           all == (1..n) \X (1..6)
<1>1. IsFiniteSet(1..n) /\ Cardinality(1..n) = n /\ IsFiniteSet(1..6) /\ Cardinality(1..6) = 6
  <2>1. \A m \in Nat : IsFiniteSet(1..m) /\ Cardinality(1..m) = IF 1 > m THEN 0 ELSE m - 1 + 1
    BY FS_Interval
  <2>2. \A m \in Nat : Cardinality(1..m) = m
    BY <2>1
  <2> QED
    BY <2>1, <2>2
<1>2. IsFiniteSet(all) /\ Cardinality(all) = Cardinality(1..n) * Cardinality(1..6)
  BY <1>1, FS_Product
<1>3. Cardinality(all) = n * 6
  BY <1>1, <1>2
<1>4. bytes \subseteq all
  OBVIOUS
<1>5. Answers!EscapedSize(text) = Cardinality(bytes)
  BY SameSizes DEF Answers!EscapedSize
<1> HIDE DEF bytes, all
<1>6. IsFiniteSet(bytes) /\ Cardinality(bytes) <= Cardinality(all) /\ Cardinality(bytes) \in Nat
  BY <1>2, <1>4, FS_Subset, FS_CardinalityType
<1> QED
  BY <1>3, <1>5, <1>6

\* A page of a file fits, however much of it is escaped.
LEMMA PagesFit ==
    ASSUME Answers!AnswersAssumption, NEW text \in FileTexts
    PROVE  Answers!SizeOf(Answers!ReadFile(text)) <= Cap
<1> DEFINE page == Answers!ReadFile(text)
           most == Cap \div 8
           n == IF most < Len(text) THEN most ELSE Len(text)
<1>1. Len(text) \in Nat /\ Cap \in Nat /\ Wrap \in Nat /\ 4 * Wrap <= Cap
  BY DEF Answers!AnswersAssumption
<1>2. most \in Nat /\ 8 * most <= Cap
  BY <1>1
<1> HIDE DEF most
<1>3. n \in Nat /\ n <= most
  BY <1>1, <1>2
<1>4. page.kind = "text" /\ page.output = SubSeq(text, 1, n)
  BY DEF Answers!ReadFile, Answers!Success, Answers!Cut, most
<1> HIDE DEF n, page
<1>5. text \in Seq({"p", "q", "b", "c"})
  BY DEF Answers!AnswersAssumption
<1>6. DOMAIN SubSeq(text, 1, n) \subseteq 1..n
  BY <1>3, <1>5
<1>7. Answers!EscapedSize(page.output) \in Nat /\ Answers!EscapedSize(page.output) <= 6 * n
  BY <1>3, <1>4, <1>6, EscapesAreBounded
<1>8. Answers!SizeOf(page) = Wrap + Answers!EscapedSize(page.output)
  BY <1>4 DEF Answers!SizeOf
<1> QED
  BY <1>1, <1>2, <1>3, <1>7, <1>8 DEF page

\* What a tool found: a success that is not marked has all of it, a page of a file fits, and a
\* program that ran fails only with its own outcome.
Found(r) ==
    /\ r = [success |-> r.success, kind |-> r.kind, output |-> r.output, truncated |-> r.truncated, error |-> r.error]
    /\ r.kind # "preview"
    /\ r.success /\ ~r.truncated => r.output = given
    /\ r.error # "cancelled" /\ (~r.success => r.error = "execution_failure")
    /\ tool = "read" => r.kind = "text" /\ Answers!SizeOf(r) <= Cap

\* What is answered: marked where it was cut.
Told(r) ==
    /\ r.success /\ ~r.truncated => r.kind # "preview" /\ r.output = given
    /\ tool = "read" /\ r.success => r.kind = "text"
    /\ effect /\ ~r.success => r.error \in {"execution_failure", "cancelled"}

AnswerInv ==
    /\ tool \in NativeTools /\ given \in (IF tool = "list" THEN Directories ELSE FileTexts)
    /\ phase \in {"admitted", "claimed", "ran", "answered", "settled"}
    /\ phase \in {"admitted", "claimed"} => ~effect
    /\ phase # "settled" => settled = Answers!None
    /\ phase = "ran" => Found(result)
    /\ phase = "answered" => Told(result)
    /\ Answers!AnswersTellTheTruth

\* The whole of a text is what is left when nothing is cut.
LEMMA WholeTexts ==
    ASSUME NEW S, NEW text \in Seq(S), NEW n \in Nat
    PROVE  ~(Len(text) > n) => Answers!Cut(text, n) = text
<1>1. SubSeq(text, 1, Len(text)) = text
  OBVIOUS
<1>2. ~(Len(text) > n) => ~(n < Len(text)) \/ n = Len(text)
  OBVIOUS
<1> QED
  BY <1>1, <1>2 DEF Answers!Cut

\* What each tool finds.
LEMMA ToolsFind ==
    ASSUME Answers!AnswersAssumption, AnswerInv, NEW code
    PROVE  Found(Answers!Executed(code))
<1> DEFINE Chars == {"p", "q", "b", "c"}
<1>1. /\ Cap \in Nat /\ Cap \div 8 \in Nat
      /\ tool = "list" => given \in Seq(Nat)
      /\ tool # "list" => given \in FileTexts /\ given \in Seq(Chars)
  BY DEF Answers!AnswersAssumption, AnswerInv
<1> HIDE DEF Chars
<1>2. ASSUME NEW kind \in {"text", "entries"}, NEW output, NEW truncated, ~truncated => output = given,
             NEW accepted, tool # "read"
      PROVE  /\ Found(Answers!Success(kind, output, truncated))
             /\ Found(Answers!Exited(code, accepted, Answers!Success(kind, output, truncated)))
  BY <1>2 DEF Found, Answers!Success, Answers!Exited, Answers!None
<1>3. tool # "list" => /\ ~(Len(given) > Cap) => Answers!Cut(given, Cap) = given
                       /\ ~(Len(given) > Cap \div 8) => Answers!Cut(given, Cap \div 8) = given
  BY <1>1, WholeTexts
<1>4. CASE tool = "read"
  <2>1. Answers!Executed(code) = Answers!ReadFile(given) /\ Answers!SizeOf(Answers!ReadFile(given)) <= Cap
    BY <1>1, <1>4, PagesFit DEF Answers!Executed
  <2>2. Answers!ReadFile(given) = [success |-> TRUE, kind |-> "text", output |-> Answers!Cut(given, Cap \div 8),
                                   truncated |-> Len(given) > Cap \div 8, error |-> "none"]
    BY DEF Answers!ReadFile, Answers!Success, Answers!None
  <2> DEFINE page == Answers!ReadFile(given)
  <2>3. page.kind = "text" /\ page.success /\ page.error = "none"
        /\ page = [success |-> page.success, kind |-> page.kind, output |-> page.output,
                   truncated |-> page.truncated, error |-> page.error]
    BY <2>2
  <2> DEFINE long == Len(given) > Cap \div 8
             cut == Answers!Cut(given, Cap \div 8)
  <2>7. ~long => cut = given
    BY <1>3, <1>4
  <2>4. ~page.truncated => page.output = given
    <3> HIDE DEF long, cut
    <3>1. page = [success |-> TRUE, kind |-> "text", output |-> cut, truncated |-> long, error |-> "none"]
      BY <2>2 DEF long, cut
    <3>2. page.truncated = long /\ page.output = cut
      BY ONLY <3>1
    <3> QED
      BY ONLY <2>7, <3>2
  <2>5. Answers!SizeOf(page) <= Cap
    BY <2>1
  <2> HIDE DEF page
  <2>6. Found(page)
    BY <2>3, <2>4, <2>5 DEF Found
  <2> QED
    BY <2>1, <2>6 DEF page
<1>5. CASE tool = "list"
  <2> DEFINE fits(n) == Answers!SumOfSizes(SubSeq(given, 1, n)) <= Cap
             taken == CHOOSE n \in 0..Len(given) : fits(n) /\ (n = Len(given) \/ ~fits(n + 1))
  <2>1. Answers!Executed(code) = Answers!Success("entries", SubSeq(given, 1, taken), taken # Len(given))
    BY <1>5 DEF Answers!Executed, Answers!ListDirectory
  <2> HIDE DEF taken
  <2>2. ~(taken # Len(given)) => SubSeq(given, 1, taken) = given
    BY <1>1, <1>5
  <2> QED
    BY <1>2, <1>5, <2>1, <2>2
<1>6. CASE tool \notin {"read", "list"}
  <2>1. \/ Answers!Executed(code) = Answers!Search(given, code)
        \/ Answers!Executed(code) = Answers!RunProgram(given, code)
    BY <1>6 DEF Answers!Executed
  <2>2. ~(Len(given) > Cap) => Answers!Cut(given, Cap) = given
    BY <1>3, <1>6
  <2> QED
    BY <1>2, <1>6, <2>1, <2>2 DEF Answers!Search, Answers!RunProgram
<1> QED
  BY <1>4, <1>5, <1>6

\* The text of a result is bounded, its outcome is not touched.
LEMMA BoundedTells ==
    ASSUME NEW r, Found(r), Answers!SizeOf(r) <= Cap \/ tool # "read"
    PROVE  Told(Answers!Bounded(r))
<1>1. CASE Answers!SizeOf(r) <= Cap
  BY <1>1 DEF Found, Told, Answers!Bounded
<1>2. CASE ~(Answers!SizeOf(r) <= Cap)
  <2>1. PICK output : Answers!Bounded(r) = [r EXCEPT !.kind = "preview", !.output = output, !.truncated = TRUE]
    BY <1>2 DEF Answers!Bounded
  <2>2. Answers!Bounded(r) = [success |-> r.success, kind |-> "preview", output |-> output, truncated |-> TRUE,
                              error |-> r.error]
    BY <2>1 DEF Found
  <2> QED
    BY <1>2, <2>2 DEF Found, Told
<1> QED
  BY <1>1, <1>2

\* The invariant of a Call's answer.
LEMMA AnswersHold ==
    ASSUME Answers!AnswersAssumption
    PROVE  Answers!Spec => []AnswerInv
<1> USE DEF Answers!AnswersTellTheTruth, Answers!TruncationIsTold, Answers!PagesAreNeverPreviews,
            Answers!EffectsAreNotDenied
<1>1. Answers!Init => AnswerInv
  BY DEF Answers!Init, AnswerInv, Answers!None
<1>2. ASSUME AnswerInv, [Answers!Next]_Answers!vars PROVE AnswerInv'
  <2>1. CASE UNCHANGED Answers!vars
    BY <1>2, <2>1 DEF Answers!vars, AnswerInv, Found, Told, Answers!Valid
  <2>2. CASE Answers!Cancel
    BY <1>2, <2>2 DEF Answers!Cancel, AnswerInv, Found, Told, Answers!Valid, Answers!None
  <2>3. CASE Answers!Claim
    BY <1>2, <2>3 DEF Answers!Claim, AnswerInv, Answers!None
  <2>4. ASSUME NEW code \in 0..2, Answers!Execute(code) PROVE AnswerInv'
    <3>1. phase = "claimed" /\ ~effect /\ settled = Answers!None /\ UNCHANGED <<tool, given, settled>>
      BY <1>2, <2>4 DEF Answers!Execute, AnswerInv
    <3>2. CASE Answers!Refused # Answers!None
      <4>1. result' = Answers!Failure(Answers!Refused) /\ phase' = "answered" /\ effect' = effect
        BY <2>4, <3>2 DEF Answers!Execute
      <4>2. ~result'.success
        BY <4>1 DEF Answers!Failure
      <4> QED
        BY <1>2, <3>1, <4>1, <4>2 DEF AnswerInv, Told, Answers!None
    <3>3. CASE ~(Answers!Refused # Answers!None)
      <4>1. result' = Answers!Executed(code) /\ phase' = "ran"
        BY <2>4, <3>3 DEF Answers!Execute
      <4>2. Found(Answers!Executed(code))
        BY <1>2, ToolsFind
      <4>3. Found(result)'
        BY <3>1, <4>1, <4>2 DEF Found
      <4> QED
        BY <1>2, <3>1, <4>1, <4>3 DEF AnswerInv, Answers!None
    <3> QED
      BY <3>2, <3>3
  <2>5. CASE Answers!Answer
    <3>1. /\ phase = "ran" /\ phase' = "answered" /\ UNCHANGED <<tool, given, cancelled, effect, settled>>
          /\ result' = IF cancelled THEN Answers!Failure("cancelled") ELSE Answers!Bounded(result)
          /\ Found(result) /\ settled = Answers!None
      BY <1>2, <2>5 DEF Answers!Answer, AnswerInv
    <3>2. Told(Answers!Bounded(result))
      BY <3>1, BoundedTells DEF Found
    <3>3. Told(Answers!Failure("cancelled"))
      BY DEF Told, Answers!Failure
    <3>4. Told(result)'
      BY <3>1, <3>2, <3>3 DEF Told
    <3> QED
      BY <1>2, <3>1, <3>4 DEF AnswerInv, Answers!None
  <2>6. CASE Answers!Settle
    <3>1. /\ phase = "answered" /\ phase' = "settled" /\ settled' = Answers!Outcome /\ Told(result)
          /\ UNCHANGED <<tool, given, cancelled, effect, result>>
      BY <1>2, <2>6 DEF Answers!Settle, AnswerInv
    <3>2. settled' = "finished" => result.success
      BY <3>1 DEF Answers!Outcome
    <3>3. settled' = "failed" => ~result.success /\ result.error # "cancelled" /\ Answers!Valid
      BY <3>1 DEF Answers!Outcome
    <3>4. Answers!Valid' <=> Answers!Valid
      BY <3>1 DEF Answers!Valid
    <3> QED
      BY <1>2, <3>1, <3>2, <3>3, <3>4 DEF AnswerInv, Told
  <2> QED
    BY <1>2, <2>1, <2>2, <2>3, <2>4, <2>5, <2>6 DEF Answers!Next
<1> QED
  BY <1>1, <1>2, PTL DEF Answers!Spec

\* For any texts, directories and cap: an answer says that it was cut, a page is never passed for a
\* preview, however much of it is escaped, and an effect that happened is never denied (native_tools.rs).
THEOREM AnswersAreTrue ==
    ASSUME Answers!AnswersAssumption
    PROVE  Answers!Spec => []AnswersTellTheTruth
<1>1. AnswerInv => AnswersTellTheTruth
  BY DEF AnswerInv, AnswersTellTheTruth
<1> QED
  BY <1>1, AnswersHold, PTL
=================================================================================
