------------------------------- MODULE SpendingCap -------------------------------
(***************************************************************************)
(* What a Project's budget promises, whatever its bookkeeping: money is    *)
(* held for a Call only while everything committed stays under the cap,    *)
(* and money held for a Call ends in exactly one of two ways, charged or   *)
(* freed.  A charge may exceed what was held for it; it is then recorded   *)
(* in full.                                                                *)
(***************************************************************************)
EXTENDS Naturals, FiniteSetsExt

CONSTANTS Calls,      \* operations money is held for
          MaxMoney,   \* the largest amount; sums saturate there
          NoCap       \* no cap was ever set

VARIABLES cap,    \* the hard limit
          spent,  \* money charged so far
          held    \* money held for each Call

capVars == <<cap, spent, held>>

Saturated(n) == IF n > MaxMoney THEN MaxMoney ELSE n

HeldIn(h) == MapThenSumSet(LAMBDA c : h[c], Calls)

Committed(s, h) == Saturated(s + HeldIn(h))

Init ==
    /\ cap = NoCap
    /\ spent = 0
    /\ held = [c \in Calls |-> 0]

SetCap(limit) ==
    /\ cap' = limit
    /\ UNCHANGED <<spent, held>>

\* A cap that was never set may be set by the first operation that needs one.
Hold(c, amount, limit) ==
    /\ cap \in {NoCap, limit}
    /\ held[c] = 0
    /\ cap' = limit
    /\ held' = [held EXCEPT ![c] = amount]
    /\ Committed(spent, held') <= limit
    /\ UNCHANGED spent

Charge(c, amount) ==
    /\ held[c] > 0
    /\ held' = [held EXCEPT ![c] = 0]
    /\ spent' = Saturated(spent + amount)
    /\ UNCHANGED cap

Free(c) ==
    /\ held[c] > 0
    /\ held' = [held EXCEPT ![c] = 0]
    /\ UNCHANGED <<cap, spent>>

Next ==
    \/ \E limit \in 1..MaxMoney : SetCap(limit)
    \/ \E c \in Calls, amount, limit \in 1..MaxMoney : Hold(c, amount, limit)
    \/ \E c \in Calls, amount \in 0..MaxMoney : Charge(c, amount)
    \/ \E c \in Calls : Free(c)

Spec == Init /\ [][Next]_capVars
==================================================================================
