--------------------------- MODULE MCSearchCursors ---------------------------
(* Instances of SearchCursors for TLC. *)
EXTENDS SearchCursors, TLC

\* The slots of requests and the ids of cursors are interchangeable.
Symmetry == Permutations(Requests) \cup Permutations(Cursors)

=============================================================================
