--------------------------- MODULE DispatchAccounting ---------------------------
(***************************************************************************)
(* The money of one Project (orchestration/budget.rs) and the transactions *)
(* of orchestration/domain.rs that admit a provider dispatch against it    *)
(* and account for how the dispatch ended.                                 *)
(*                                                                         *)
(* A reservation is identified by its Call, so there is one ledger entry   *)
(* per Call.  Every operation is one IMMEDIATE transaction.  Of the        *)
(* authority only what the ledger asks is kept: whether the Attempt of a   *)
(* Call is authoritative, cancelling or ended (ExecutionAuthority has the  *)
(* rest).  A frozen price is one micro per reported unit, so a report is   *)
(* the amount it is worth.  The inspection list of recent settlements, the *)
(* timestamps and the reason texts of the ledger are left out.             *)
(***************************************************************************)
EXTENDS Naturals, Sequences, FiniteSetsExt

CONSTANTS Calls,           \* provider Calls
          Attempts,        \* the Attempts that make them
          AttemptOf,       \* the Attempt of each Call
          Currencies,      \* normalized currency codes
          NoCurrency,      \* the empty currency of a ledger that never saw money
          NoLimit,         \* SQL NULL or an absent configuration value
          MaxMoney,        \* i64::MAX, where micro-units saturate
          MaxReservations, \* MAX_RESERVATIONS: ledger entries kept
          Configs,         \* budget configurations in effect at an admission
          Limits,          \* hard limits an operator may set
          Reports,         \* usage a provider may report, valued at the frozen price
          NoUsage,         \* the provider reported no usage
          Unbillable,      \* the usage reported could not be normalized
          Unfrozen,        \* no pricing basis was frozen for the dispatch
          Unpriced,        \* a basis was frozen and holds no price
          MaxRows          \* bound: settlement rows after which nothing is reported

Amounts == 0..MaxMoney
Money   == [micros: Amounts, currency: Currencies]
\* requireQuota with a quota that is exhausted, stale or unknown is short.
ConfigRecord == [currency: Currencies, limit: (1..MaxMoney) \cup {NoLimit},
                 estimate: (1..MaxMoney) \cup {NoLimit}, short: BOOLEAN]

ASSUME AccountingAssumption ==
    /\ IsFiniteSet(Calls) /\ AttemptOf \in [Calls -> Attempts]
    /\ MaxMoney \in Nat \ {0} /\ MaxReservations \in Nat /\ MaxRows \in Nat
    /\ NoCurrency \notin Currencies
    /\ NoLimit \notin Money \cup Nat
    /\ Configs \subseteq ConfigRecord /\ Limits \subseteq Money
    /\ Reports \subseteq Amounts
    /\ {NoUsage, Unbillable} \cap Amounts = {} /\ NoUsage # Unbillable
    /\ {Unfrozen, Unpriced} \cap Currencies = {} /\ Unfrozen # Unpriced

VARIABLES
    budget,   \* the ledger's currency, hard limit and accumulators
    entry,    \* the ledger's reservation of each Call
    order,    \* the Calls of those reservations, oldest first
    rows,     \* domain_settlements
    intent,   \* dispatch intents: state, whether reservation_id is set, frozen price
    attempt   \* the Attempts: authoritative, cancelling or ended

vars == <<budget, entry, order, rows, intent, attempt>>

OpenIntent    == {"pending", "queued", "running"}
Admittable    == {"pending", "queued"}
IntentStates  == {"absent", "completed", "failed", "fenced"} \cup OpenIntent
EntryStates   == {"absent", "reserved", "settled", "released"}
AttemptStates == {"authoritative", "cancelling", "ended"}
Dispositions  == {"settled", "released", "unresolved"}
Reasons == {"usage_priced", "stale_authority", "not_dispatched", "release_unauthorized",
            "effect_unknown", "usage_absent", "usage_unpriced", "usage_incomplete",
            "usage_currency"}
Prices  == Currencies \cup {Unpriced}

BudgetRecord == [currency: Currencies \cup {NoCurrency}, limit: Money \cup {NoLimit},
                 settled: Amounts, released: Amounts, overage: Amounts]
EntryRecord  == [state: EntryStates, micros: Amounts,
                 currency: Currencies \cup {NoCurrency}, unresolved: BOOLEAN]
\* A row is identified by its Call, disposition and reason; a conflicting payload is
\* kept under the same three fields, marked, and moves no money.
RowRecord    == [call: Calls, disposition: Dispositions, reason: Reasons,
                 report: Amounts \cup {NoUsage, Unbillable}, price: Prices,
                 reserved: Amounts, conflict: BOOLEAN]
IntentRecord == [state: IntentStates, reservation: BOOLEAN, basis: Prices \cup {Unfrozen}]

LedgerTypeOK ==
    /\ budget \in BudgetRecord
    /\ entry \in [Calls -> EntryRecord]
    /\ rows \subseteq RowRecord
    /\ intent \in [Calls -> IntentRecord]
    /\ attempt \in [Attempts -> AttemptStates]

TypeOK == LedgerTypeOK /\ order \in Seq(Calls)

NoEntry == [state |-> "absent", micros |-> 0, currency |-> NoCurrency, unresolved |-> FALSE]

Init ==
    /\ budget = [currency |-> NoCurrency, limit |-> NoLimit,
                 settled |-> 0, released |-> 0, overage |-> 0]
    /\ entry = [c \in Calls |-> NoEntry]
    /\ order = <<>>
    /\ rows = {}
    /\ intent = [c \in Calls |-> [state |-> "absent", reservation |-> FALSE,
                                  basis |-> Unfrozen]]
    /\ attempt = [a \in Attempts |-> "authoritative"]

---------------------------------------------------------------------------------
(* The ledger. *)

\* i64::saturating_add on money that is never negative.
Saturated(n) == IF n > MaxMoney THEN MaxMoney ELSE n

Live(c) == entry[c].state = "reserved"

HeldFor(c) == IF Live(c) THEN entry[c].micros ELSE 0

\* Plausible bug: only money already marked unresolved counts as held.
ReservedUnresolved == Saturated(MapThenSumSet(LAMBDA c : IF entry[c].unresolved
                                                         THEN HeldFor(c) ELSE 0, Calls))

Reserved == Saturated(MapThenSumSet(HeldFor, Calls))

\* Operation already accounted: a live or settled entry is reused, never doubled.
Already(c) == entry[c].state \in {"reserved", "settled"}

\* A configured cap becomes durable once, and only in the currency of money already seen.
Materialized(config) ==
    IF /\ budget.limit = NoLimit /\ config.limit # NoLimit
       /\ budget.currency \in {NoCurrency, config.currency}
    THEN [budget EXCEPT !.currency = config.currency,
                        !.limit = [micros |-> config.limit, currency |-> config.currency]]
    ELSE budget

\* Plausible bug: a settled reservation is pruned like any other and a live one too.
PrunedAny(entries, calls) ==
    LET excess == Len(calls) - MaxReservations
    IN  {calls[i] : i \in {k \in 1..Len(calls) : k <= excess}}

\* The Calls whose entries are dropped when there are too many: the oldest that are
\* terminal.  Live entries are kept whatever their number.
Pruned(entries, calls) ==
    LET terminal == {k \in 1..Len(calls) : entries[calls[k]].state # "reserved"}
        excess   == Len(calls) - MaxReservations
    IN  {calls[i] : i \in {k \in terminal :
                              Cardinality({m \in terminal : m <= k}) <= excess}}

\* ProjectBudget::reserve for an operation without a live or settled entry.
Reserve(c, amount) ==
    LET calls   == Append(SelectSeq(order, LAMBDA d : d # c), c)
        entries == [entry EXCEPT ![c] = [state |-> "reserved", micros |-> amount.micros,
                                         currency |-> amount.currency, unresolved |-> FALSE]]
        gone    == Pruned(entries, calls)
    IN  /\ entry' = [d \in Calls |-> IF d \in gone THEN NoEntry ELSE entries[d]]
        /\ order' = SelectSeq(calls, LAMBDA d : d \notin gone)

\* budget::admit, for the ledger the admission has materialized.
Denied(c, ledger, config) ==
    LET limit == ledger.limit
        committed == ledger.settled + Reserved
    IN  \/ /\ limit # NoLimit
           /\ \/ ledger.currency # limit.currency
              \/ ledger.settled > limit.micros
              \/ config.estimate = NoLimit /\ ~Already(c)
              \/ /\ config.estimate # NoLimit
                 /\ \/ config.currency # limit.currency
                    \/ Saturated(IF Already(c) THEN committed
                                 ELSE committed + config.estimate) > limit.micros
        \/ config.short /\ ~Already(c)

---------------------------------------------------------------------------------
(* Dispatch intents and authority, as far as the ledger depends on them. *)

HoldsAuthority(c) == attempt[AttemptOf[c]] = "authoritative"

CreateCall(c) ==
    /\ HoldsAuthority(c) /\ intent[c].state = "absent"
    /\ intent' = [intent EXCEPT ![c].state = "pending"]
    /\ UNCHANGED <<budget, entry, order, rows, attempt>>

\* The cap is materialized, and denied work leaves the cap behind.
RefuseDispatch(c, config) ==
    /\ intent[c].state # "absent"
    /\ Denied(c, Materialized(config), config)
    /\ budget' = Materialized(config)
    /\ UNCHANGED <<entry, order, rows, intent, attempt>>

\* An operation that is accounted already reserves nothing and reports no reservation,
\* which is what the intent is then given.  An intent past admission is not written,
\* and the transaction is refused unless it already says the same.
AdmitDispatch(c, config) ==
    LET ledger == Materialized(config)
        takes  == ledger.limit # NoLimit /\ config.estimate # NoLimit /\ ~Already(c)
    IN  /\ intent[c].state # "absent"
        /\ ~Denied(c, ledger, config)
        /\ budget' = ledger
        /\ IF takes
           THEN Reserve(c, [micros |-> config.estimate, currency |-> config.currency])
           ELSE UNCHANGED <<entry, order>>
        /\ IF intent[c].state \in Admittable
           THEN intent' = [intent EXCEPT ![c].reservation = takes]
           ELSE intent[c].reservation = takes /\ UNCHANGED intent
        /\ UNCHANGED <<rows, attempt>>

MarkDispatchQueued(c) ==
    /\ intent[c].state \in Admittable
    /\ intent' = [intent EXCEPT ![c].state = "queued"]
    /\ UNCHANGED <<budget, entry, order, rows, attempt>>

\* Plausible bug: the last freeze wins.
FreezePricingAgain(c, price) ==
    /\ intent[c].state \in Admittable
    /\ intent' = [intent EXCEPT ![c].basis = price]
    /\ UNCHANGED <<budget, entry, order, rows, attempt>>

FreezePricing(c, price) ==
    /\ intent[c].state \in Admittable /\ intent[c].basis = Unfrozen
    /\ intent' = [intent EXCEPT ![c].basis = price]
    /\ UNCHANGED <<budget, entry, order, rows, attempt>>

ClaimCall(c) ==
    /\ HoldsAuthority(c) /\ intent[c].state = "queued"
    /\ intent' = [intent EXCEPT ![c].state = "running"]
    /\ UNCHANGED <<budget, entry, order, rows, attempt>>

\* The provider worker's completion: the intent is settled and the ledger is not asked.
FinishCall(c) ==
    /\ HoldsAuthority(c) /\ intent[c].state = "running"
    /\ intent' = [intent EXCEPT ![c].state = "completed"]
    /\ UNCHANGED <<budget, entry, order, rows, attempt>>

FailCall(c) ==
    /\ HoldsAuthority(c) /\ intent[c].state \in OpenIntent
    /\ intent' = [intent EXCEPT ![c].state = "failed"]
    /\ UNCHANGED <<budget, entry, order, rows, attempt>>

---------------------------------------------------------------------------------
(* apply_accounting_in: one economic disposition applied to one reservation. *)

Claims == {[kind |-> "completed", report |-> r] : r \in Reports \cup {NoUsage, Unbillable}}
          \cup {[kind |-> k, report |-> NoUsage] : k \in {"not_dispatched", "failed"}}

\* Failed and Fenced are accounted alike: the effect may or may not have happened.
EffectUnknown == [kind |-> "failed", report |-> NoUsage]

\* The usage is worth something: a price was frozen for it in the ledger's currency.
Priced(c, claim) ==
    /\ claim.kind = "completed" /\ claim.report \in Reports
    /\ intent[c].basis \in Currencies
    /\ budget.currency \in {NoCurrency, intent[c].basis}

UnvaluedReason(c, report) ==
    CASE report = NoUsage                  -> "usage_absent"
      [] report # NoUsage /\ intent[c].basis \notin Currencies -> "usage_unpriced"
      [] report = Unbillable /\ intent[c].basis \in Currencies -> "usage_incomplete"
      [] OTHER                             -> "usage_currency"

\* Plausible bug: whoever reports may state an amount or hand money back.
DispositionForAnyone(c, claim, asserts) ==
    CASE claim.kind = "not_dispatched" -> "released"
      [] Priced(c, claim)              -> "settled"
      [] OTHER                         -> "unresolved"

\* Only the current authority may state an amount or hand money back.
Disposition(c, claim, asserts) ==
    CASE asserts /\ claim.kind = "not_dispatched" -> "released"
      [] asserts /\ Priced(c, claim)              -> "settled"
      [] OTHER                                    -> "unresolved"

Reason(c, claim, asserts) ==
    CASE Priced(c, claim)              -> IF asserts THEN "usage_priced" ELSE "stale_authority"
      [] claim.kind = "not_dispatched" -> IF asserts THEN "not_dispatched"
                                          ELSE "release_unauthorized"
      [] claim.kind = "failed"         -> "effect_unknown"
      [] OTHER                         -> UnvaluedReason(c, claim.report)

Row(c, claim, asserts, reserved) ==
    LET disposition == Disposition(c, claim, asserts)
    IN  [call |-> c, disposition |-> disposition, reason |-> Reason(c, claim, asserts),
         report |-> claim.report, reserved |-> reserved, conflict |-> FALSE,
         price |-> IF disposition = "settled" THEN intent[c].basis ELSE Unpriced]

\* Plausible bug: a settlement is identified by its content as well.
RecordedSame(row) == rows \cap {row}

\* The canonical row with the identity of this one, if it is recorded.
Recorded(row) == {r \in rows : /\ ~r.conflict
                              /\ r.call = row.call
                              /\ r.disposition = row.disposition
                              /\ r.reason = row.reason}

\* The row as it compares with a recorded one: the amount comes from the ledger while
\* the entry is there and from the recorded row when it was pruned.
Candidate(row, stored) ==
    IF entry[row.call].state = "absent" THEN [row EXCEPT !.reserved = stored.reserved] ELSE row

\* Plausible bug: the payload that conflicts is booked as a settlement of its own.
ConflictsBooked(row) ==
    {Candidate(row, stored) : stored \in {r \in Recorded(row) : Candidate(row, r) # r}}

Conflicts(row) ==
    {[Candidate(row, stored) EXCEPT !.conflict = TRUE] :
        stored \in {r \in Recorded(row) : Candidate(row, r) # r}}

RowFor(c, claim, asserts) == Row(c, claim, asserts, entry[c].micros)

\* A new fact about a live reservation: the only case in which money moves.
Discharges(c, claim, asserts) ==
    /\ intent[c].reservation
    /\ Recorded(RowFor(c, claim, asserts)) = {}
    /\ Live(c)

NewRows(c, claim, asserts) ==
    LET row == RowFor(c, claim, asserts)
    IN  IF Discharges(c, claim, asserts) THEN {row}
        ELSE IF intent[c].reservation THEN Conflicts(row) ELSE {}

Discharged(old, disposition) ==
    IF disposition = "unresolved" THEN [old EXCEPT !.unresolved = TRUE]
    ELSE [old EXCEPT !.state = disposition, !.unresolved = FALSE]

Actual(row) == IF row.disposition = "settled" THEN row.report ELSE 0

Returned(row) ==
    CASE row.disposition = "released" -> row.reserved
      [] row.disposition = "settled" /\ row.report < row.reserved -> row.reserved - row.report
      [] OTHER -> 0

Excess(row) == IF row.disposition = "settled" /\ row.report > row.reserved
               THEN row.report - row.reserved ELSE 0

\* Plausible bug: plain addition past the largest amount.
BookedUnbounded(ledger, row) ==
    [ledger EXCEPT !.settled  = @ + Actual(row),
                   !.released = @ + Returned(row),
                   !.overage  = @ + Excess(row)]

Booked(ledger, row) ==
    [ledger EXCEPT !.settled  = Saturated(@ + Actual(row)),
                   !.released = Saturated(@ + Returned(row)),
                   !.overage  = Saturated(@ + Excess(row))]

Account(c, claim, asserts) ==
    /\ rows' = rows \cup NewRows(c, claim, asserts)
    /\ IF Discharges(c, claim, asserts)
       THEN LET row == RowFor(c, claim, asserts)
            IN  /\ entry' = [entry EXCEPT ![c] = Discharged(@, row.disposition)]
                /\ budget' = Booked(budget, row)
       ELSE UNCHANGED <<entry, budget>>
    /\ UNCHANGED order

\* apply_fenced_accounting_in for every Call whose open intent is fenced.
RetainFenced(fenced) ==
    /\ rows' = rows \cup UNION {NewRows(c, EffectUnknown, FALSE) : c \in fenced}
    /\ entry' = [c \in Calls |-> IF c \in fenced /\ Discharges(c, EffectUnknown, FALSE)
                                 THEN Discharged(entry[c], "unresolved") ELSE entry[c]]
    /\ UNCHANGED <<budget, order>>

\* Any caller may report, with or without the identity of the Call's own Attempt.
SettleDispatchAccounting(c, claim, own) ==
    /\ intent[c].state # "absent" /\ Cardinality(rows) < MaxRows
    /\ Account(c, claim, own /\ HoldsAuthority(c))
    /\ UNCHANGED <<intent, attempt>>

\* The completion of the Call and its settlement in one transaction.
CompleteProviderDispatch(c, report) ==
    /\ HoldsAuthority(c) /\ intent[c].state = "running" /\ Cardinality(rows) < MaxRows
    /\ intent' = [intent EXCEPT ![c].state = "completed"]
    /\ Account(c, [kind |-> "completed", report |-> report], TRUE)
    /\ UNCHANGED attempt

Fenced(calls) == [c \in Calls |-> IF c \in calls THEN [intent[c] EXCEPT !.state = "fenced"]
                                  ELSE intent[c]]

OpenOf(a) == {c \in Calls : AttemptOf[c] = a /\ intent[c].state \in OpenIntent}

FenceDispatchIntent(c) ==
    /\ intent[c].state \in OpenIntent
    /\ intent' = Fenced({c})
    /\ RetainFenced({c})
    /\ UNCHANGED attempt

RequestCancel(a) ==
    /\ attempt[a] = "authoritative"
    /\ attempt' = [attempt EXCEPT ![a] = "cancelling"]
    /\ UNCHANGED <<budget, entry, order, rows, intent>>

\* The terminal half of finish_attempt_in, also after a cancellation.
FinishAttempt(a) ==
    /\ attempt[a] # "ended"
    /\ attempt' = [attempt EXCEPT ![a] = "ended"]
    /\ intent' = Fenced(OpenOf(a))
    /\ RetainFenced(OpenOf(a))

\* Replacement fences the same intents and does not reach the ledger.
ReplaceAttempt(a) ==
    /\ attempt[a] # "ended"
    /\ attempt' = [attempt EXCEPT ![a] = "ended"]
    /\ intent' = Fenced(OpenOf(a))
    /\ UNCHANGED <<budget, entry, order, rows>>

\* Plausible bug: money already accounted is read as the new currency.
SetProjectBudgetAnyCurrency(limit) ==
    /\ limit.micros > 0
    /\ budget' = [budget EXCEPT !.limit = limit, !.currency = limit.currency]
    /\ UNCHANGED <<entry, order, rows, intent, attempt>>

SetProjectBudget(limit) ==
    /\ limit.micros > 0
    /\ budget.currency \in {NoCurrency, limit.currency}
    /\ \A c \in Calls : Live(c) => entry[c].currency = limit.currency
    /\ budget' = [budget EXCEPT !.limit = limit, !.currency = limit.currency]
    /\ UNCHANGED <<entry, order, rows, intent, attempt>>

Next ==
    \/ \E c \in Calls :
          \/ CreateCall(c) \/ MarkDispatchQueued(c) \/ ClaimCall(c)
          \/ FinishCall(c) \/ FailCall(c) \/ FenceDispatchIntent(c)
          \/ \E config \in Configs : AdmitDispatch(c, config) \/ RefuseDispatch(c, config)
          \/ \E price \in Prices : FreezePricing(c, price)
          \/ \E claim \in Claims, own \in BOOLEAN : SettleDispatchAccounting(c, claim, own)
          \/ \E report \in Reports \cup {NoUsage, Unbillable} : CompleteProviderDispatch(c, report)
    \/ \E a \in Attempts : RequestCancel(a) \/ FinishAttempt(a) \/ ReplaceAttempt(a)
    \/ \E limit \in Limits : SetProjectBudget(limit)

Spec == Init /\ [][Next]_vars
---------------------------------------------------------------------------------
(* What must hold. *)

Canonical == {r \in rows : ~r.conflict}

\* The Project's accumulators are exactly what the canonical settlement rows say was
\* spent, returned and overspent: retries, conflicts and pruning never move them.
AccumulatorsMatchRows ==
    /\ budget.settled  = Saturated(MapThenSumSet(Actual, Canonical))
    /\ budget.released = Saturated(MapThenSumSet(Returned, Canonical))
    /\ budget.overage  = Saturated(MapThenSumSet(Excess, Canonical))

\* However often a provider result is delivered, with whatever content, and even after
\* its reservation was pruned and taken again, a Call is charged once. That it carries one
\* reservation is refuted: see HeldMoneyHasAnOwner.
ChargedOnce ==
    \A c \in Calls : Cardinality({r \in Canonical : r.call = c /\ r.disposition = "settled"}) <= 1

\* Limit, outstanding reservations and settled money are all in the ledger's currency:
\* nothing is ever converted or reinterpreted.
OneCurrency ==
    /\ budget.limit # NoLimit => budget.limit.currency = budget.currency
    /\ \A c \in Calls : Live(c) => entry[c].currency = budget.currency
    /\ \A r \in Canonical : r.disposition = "settled" => r.price = budget.currency

\* Settled usage was valued at the price frozen for its dispatch, which is still the one
\* the intent holds: a later pricing revision reprices nothing.
SettledAtFrozenPrice ==
    \A r \in Canonical : r.disposition = "settled" => r.price = intent[r.call].basis

\* Money keeps the meaning it was given: no limit, reservation or settlement is read in
\* another currency or at another price than it was made with.
MoneyIsNeverReinterpreted == OneCurrency /\ SettledAtFrozenPrice

\* An Attempt that lost its authority neither states an amount nor hands money back: a
\* reservation it made leaves the books only while it is still the authority.
OnlyAuthorityDischarges ==
    [][\A c \in Calls : Live(c) /\ entry'[c].state # "reserved" => HoldsAuthority(c)]_vars

\* The ledger keeps the promise of SpendingCap, with the money of a Call held by its
\* live entry.
Cap == INSTANCE SpendingCap WITH
          cap   <- IF budget.limit = NoLimit THEN NoLimit ELSE budget.limit.micros,
          spent <- budget.settled,
          held  <- [c \in Calls |-> HeldFor(c)],
          NoCap <- NoLimit

KeepsSpendingCap == Cap!Spec
---------------------------------------------------------------------------------
(* What the source says of itself and does not do. *)

\* "Every path that ends a provider-costly dispatch - completion with usage, a failure,
\* ... - reaches the ledger": once the Attempt of a completed dispatch has ended, and
\* nobody may settle it any more, its reservation is no longer a plain expectation.
CompletedDispatchIsAccounted ==
    \A c \in Calls :
       /\ intent[c].state = "completed" /\ attempt[AttemptOf[c]] = "ended"
       /\ intent[c].reservation
       => ~Live(c) \/ entry[c].unresolved

\* "Every fencing path converges here": a fenced dispatch's reservation is unresolved.
FencedDispatchIsRetained ==
    \A c \in Calls : intent[c].state = "fenced" /\ intent[c].reservation =>
       ~Live(c) \/ entry[c].unresolved

\* "A replay of an already-admitted dispatch carries the very same reservation": money
\* that is held is named by the intent that can discharge it.
HeldMoneyHasAnOwner == \A c \in Calls : Live(c) => intent[c].reservation

\* "the reservation must not be left dangling": no money is taken for an intent that has
\* moved past admission.
NoMoneyForEndedDispatch ==
    [][\A c \in Calls : ~Live(c) /\ Live(c)' => intent[c].state \in Admittable]_vars
---------------------------------------------------------------------------------
(* What makes the sums and the single charge inductive. *)

\* A hard limit is money in the ledger's currency.
CapIsMoney ==
    budget.limit # NoLimit => budget.limit.micros > 0 /\ budget.limit.currency = budget.currency

\* So is what a live entry holds, and it holds something.
HeldIsMoney ==
    \A c \in Calls : Live(c) =>
       /\ entry[c].micros > 0
       /\ entry[c].currency \in Currencies /\ entry[c].currency = budget.currency

\* A row is settled for one reason only, with an amount in the ledger's currency and at
\* the price its dispatch still holds.
SettledRowsArePriced ==
    \A r \in Canonical : r.disposition = "settled" =>
       /\ r.reason = "usage_priced" /\ r.report \in Amounts
       /\ r.price \in Currencies /\ r.price = budget.currency
       /\ r.price = intent[r.call].basis

\* Two canonical rows differ in Call, disposition or reason.
RowsAreIdentified ==
    \A r, q \in Canonical :
       r.call = q.call /\ r.disposition = q.disposition /\ r.reason = q.reason => r = q

LedgerInv ==
    /\ LedgerTypeOK /\ IsFiniteSet(Canonical)
    /\ CapIsMoney /\ HeldIsMoney /\ SettledRowsArePriced /\ RowsAreIdentified
    /\ AccumulatorsMatchRows
=================================================================================
