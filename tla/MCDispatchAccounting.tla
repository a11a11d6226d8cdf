-------------------------- MODULE MCDispatchAccounting --------------------------
(***************************************************************************)
(* Values for checking DispatchAccounting: two Calls of one Attempt or of  *)
(* two, the configurations they are admitted under and the limits set.     *)
(***************************************************************************)
EXTENDS DispatchAccounting, TLC

CONSTANTS c1, c2, a1, a2, usd, eur

OneEach == (c1 :> a1) @@ (c2 :> a2)
BothOfOne == (c1 :> a1) @@ (c2 :> a1)
Alone   == c1 :> a1

Config(currency, limit, estimate, short) ==
    [currency |-> currency, limit |-> limit, estimate |-> estimate, short |-> short]
Limit(micros, currency) == [micros |-> micros, currency |-> currency]

\* An unlimited Project, a capped one, one whose estimate or quota is missing.
CapConfigs == {Config(usd, 3, 2, FALSE), Config(usd, NoLimit, NoLimit, TRUE)}
CapLimits  == {Limit(2, usd), Limit(4, usd)}

\* The configuration of a turn, and the same in either of two currencies.
OneConfig == {Config(usd, 4, 2, FALSE)}
EitherCurrency == {Config(x, 4, 2, FALSE) : x \in {usd, eur}}

CallSymmetry == Permutations({c1, c2})
RowSymmetry == CallSymmetry \cup Permutations({usd, eur})
=================================================================================
