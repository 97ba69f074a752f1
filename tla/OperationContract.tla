-------------------------- MODULE OperationContract --------------------------
(***************************************************************************)
(* What the write tools promise a client, without tasks, locks or workers: *)
(* an accepted operation runs its units one after the other, in order and  *)
(* once each, alone on its account; a cancellation lets at most the unit   *)
(* already in flight go on and ends in "canceled"; otherwise the operation *)
(* ends when all units have run, with the state their outcomes add up to;  *)
(* a finished operation never changes again, and is forgotten only when    *)
(* more than Retained operations have finished.                            *)
(***************************************************************************)
EXTENDS Naturals, Sequences, FiniteSets

CONSTANTS Ops, AccountOf, UnitsOf, Retained

VARIABLES
  phase,     \* where each operation is in its life
  log,       \* the outcomes of the units it has run, in order
  inflight   \* one of its units is with the IMAP server

contractVars == <<phase, log, inflight>>

Outcomes == {"ok", "mixed", "failed"}
Finished == {"ok", "partial", "failed", "canceled"}

Verdict(outcomes) ==
  IF \A i \in DOMAIN outcomes : outcomes[i] = "ok" THEN "ok"
  ELSE IF \A i \in DOMAIN outcomes : outcomes[i] = "failed" THEN "failed"
  ELSE "partial"

Init ==
  /\ phase = [o \in Ops |-> "none"]
  /\ log = [o \in Ops |-> <<>>]
  /\ inflight = [o \in Ops |-> FALSE]

Accept(o) ==
  /\ phase[o] = "none"
  /\ phase' = [phase EXCEPT ![o] = "active"]
  /\ UNCHANGED <<log, inflight>>

BeginUnit(o) ==
  /\ phase[o] = "active" /\ Len(log[o]) < UnitsOf[o]
  /\ \A p \in Ops : AccountOf[p] = AccountOf[o] => ~inflight[p]
  /\ inflight' = [inflight EXCEPT ![o] = TRUE]
  /\ UNCHANGED <<phase, log>>

EndUnit(o) ==
  /\ inflight[o]
  /\ inflight' = [inflight EXCEPT ![o] = FALSE]
  /\ \E outcome \in Outcomes : log' = [log EXCEPT ![o] = Append(@, outcome)]
  /\ UNCHANGED phase

Cancel(o) ==
  /\ phase[o] = "active"
  /\ phase' = [phase EXCEPT ![o] = "canceling"]
  /\ UNCHANGED <<log, inflight>>

\* Finish o and, if that is one too many, forget finished operations.
Finish(o) ==
  LET finishes == [phase EXCEPT ![o] =
                     IF @ = "canceling" THEN "canceled" ELSE Verdict(log[o])]
      done     == {p \in Ops : finishes[p] \in Finished}
  IN
  /\ ~inflight[o]
  /\ \/ phase[o] = "canceling"
     \/ phase[o] = "active" /\ Len(log[o]) = UnitsOf[o]
  /\ \E forgotten \in SUBSET done :
       /\ Cardinality(done \ forgotten) <= Retained
       /\ forgotten # {} => Cardinality(done \ forgotten) = Retained
       /\ phase' = [p \in Ops |-> IF p \in forgotten THEN "forgotten" ELSE finishes[p]]
       /\ log' = [p \in Ops |-> IF p \in forgotten THEN <<>> ELSE log[p]]
  /\ UNCHANGED inflight

Next == \E o \in Ops : Accept(o) \/ BeginUnit(o) \/ EndUnit(o) \/ Cancel(o) \/ Finish(o)

Spec == Init /\ [][Next]_contractVars

=============================================================================
