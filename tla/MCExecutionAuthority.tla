------------------------ MODULE MCExecutionAuthority -------------------------
(***************************************************************************)
(* Model values, symmetry and bounds for checking ExecutionAuthority.      *)
(***************************************************************************)
EXTENDS ExecutionAuthority, FiniteSets, TLC

\* Jobs, Calls and results are interchangeable: only equality of them is ever used.
Symmetry == Permutations(Jobs) \cup Permutations(Calls) \cup Permutations(Responses)

Made == {c \in Calls : call[c].state # "absent"}
Delivered == ({call[c].response : c \in Made} \cup {e[2] : e \in evidence}) \ {NoResponse}

\* One Job is followed in two directions: two Calls of two generations and one result of
\* each, or one Call with a third generation and a second, different result.
Directions ==
    \/ Cardinality(Made) <= 1
    \/ Cardinality(Delivered) <= 1 /\ \A j \in Jobs : job[j].generation <= 2
Followed == Directions'
==============================================================================
