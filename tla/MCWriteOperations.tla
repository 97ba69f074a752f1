-------------------------- MODULE MCWriteOperations --------------------------
(* Instances of WriteOperations for TLC. *)
EXTENDS WriteOperations, TLC

CONSTANTS a1, r1, r2, w1, w2

\* Two operations on one account, one of them of two groups.
OneAccount == [o \in Ops |-> a1]
\* The first operation has two groups, the others one.
TwoThenOne == [o \in Ops |-> IF o = 1 THEN 2 ELSE 1]

\* Which slot a request or a worker takes makes no difference.
TaskSymmetry == Permutations(Requests) \cup Permutations(Workers)

=============================================================================
