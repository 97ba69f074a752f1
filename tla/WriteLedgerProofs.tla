-------------------------- MODULE WriteLedgerProofs --------------------------
(* For every number of operations, accounts, requests and workers, what a    *)
(* finished operation reports is what it did (ReportIsTruthful); whatever    *)
(* operation_max_entries is, the finished operations stay within it, and the *)
(* oldest one goes first; and the engine implements OperationContract        *)
(* (KeepsContract).                                                          *)
EXTENDS WriteOperationsProofs, FiniteSetTheorems, SequenceTheorems, WellFoundedInduction

USE DEF table, vars, Goto

\* The parts of a record the ledger is about.
SameRecord(o) ==
  /\ operations'[o].results = operations[o].results
  /\ operations'[o].next_group_index = operations[o].next_group_index
  /\ Active(o)' <=> Active(o)
  /\ is_terminal(o)' <=> is_terminal(o)

LEMMA LedgerKept ==
  ASSUME Inv, created' = created, effects' = effects,
         \A o \in Ops : SameRecord(o),
         \A o \in Ops : Applying(o)' <=> Applying(o)
  PROVE  Ledger' /\ ReportIsTruthful'
BY DEF Inv, Ledger, ReportIsTruthful, SameRecord

LEMMA ProgressKept ==
  ASSUME Inv, NEW u \in Tasks, pc'[u] = pc[u], op'[u] = op[u], step'[u] = step[u],
         pc[u] \in Running =>
           /\ operations'[op[u]].next_group_index = operations[op[u]].next_group_index
           /\ \/ operations'[op[u]].state = operations[op[u]].state
              \/ operations'[op[u]].state = "cancel_requested"
  PROVE  ProgressOf(u)'
BY DEF Inv, Progress, ProgressOf, Running

\* The points where ProgressOf says something of a task.
Busy == Running \ {"loop"}

LEMMA NotBusy ==
  ASSUME NEW u \in Tasks, pc'[u] \notin Busy
  PROVE  ProgressOf(u)'
BY DEF ProgressOf, Busy, Running

\* The steps that leave results, indexes and the IMAP server alone.
LEMMA QuietStep ==
  ASSUME Inv, ControlInv', created' = created, effects' = effects,
         \A o \in Ops : SameRecord(o),
         \A o \in Ops : operations'[o].state \in {operations[o].state, "cancel_requested"},
         \A u \in Tasks : \/ pc'[u] = pc[u] /\ op'[u] = op[u] /\ step'[u] = step[u]
                          \/ pc'[u] \notin Busy /\ pc[u] \notin Busy
  PROVE  Inv'
<1>1. \A u \in Tasks : pc[u] \in Running => op[u] \in Ops
  BY RunnerFacts DEF Inv
<1>2. Progress'
  <2> SUFFICES ASSUME NEW u \in Tasks PROVE ProgressOf(u)'
    BY DEF Progress
  <2>1. CASE pc'[u] = pc[u] /\ op'[u] = op[u] /\ step'[u] = step[u]
    BY <2>1, <1>1, ProgressKept DEF SameRecord
  <2>2. CASE pc'[u] \notin Busy
    BY <2>2, NotBusy
  <2> QED BY <2>1, <2>2
<1>3. \A o \in Ops : Applying(o)' <=> Applying(o)
  BY DEF Applying, Runs, Busy, Running
<1>4. Ledger' /\ ReportIsTruthful'
  BY <1>3, LedgerKept
<1> QED BY <1>2, <1>4 DEF Inv

\* The steps that set no result and finish nothing.
KeepsRecords ==
  \A p \in Ops : SameRecord(p) /\ operations'[p].state \in {operations[p].state, "cancel_requested"}

LEMMA PollRecords ==
  ASSUME ControlInv, NEW t \in Tasks, NEW o \in Ops,
         get_operation(t, o) \/ cancel_operation(t, o)
  PROVE  KeepsRecords
BY DEF ControlInv, TypeOK, StoredOperation, get_operation, cancel_operation, KeepsRecords,
       SameRecord, Active, is_present, is_terminal, Terminal

LEMMA ClearRecords ==
  ASSUME ControlInv, NEW t \in Workers, clear_operation_worker_started(t)
  PROVE  KeepsRecords
BY DEF ControlInv, TypeOK, StoredOperation, clear_operation_worker_started, KeepsRecords,
       SameRecord, Active, is_present, is_terminal

LEMMA EnsureRecords ==
  ASSUME ControlInv, NEW t \in Tasks, ensure_operation_worker_running(t)
  PROVE  KeepsRecords
<1>1. op[t] \in Ops
  BY DEF ControlInv, TypeOK, TaskShape, ensure_operation_worker_running
<1>2. CASE operations' = operations
  BY <1>2 DEF KeepsRecords, SameRecord, Active, is_present, is_terminal
<1>3. CASE operations' = [operations EXCEPT ![op[t]].worker_started = TRUE]
  BY <1>1, <1>3 DEF ControlInv, TypeOK, StoredOperation, KeepsRecords, SameRecord, Active,
                    is_present, is_terminal
<1> QED BY <1>2, <1>3 DEF ensure_operation_worker_running

\* A new iteration marks the operation running, unless it was canceled.
LEMMA BeginRecords ==
  ASSUME ControlInv, NEW t \in Tasks, BeginIteration(t)
  PROVE  \A p \in Ops :
           /\ SameRecord(p)
           /\ \/ operations'[p].state = operations[p].state
              \/ /\ operations[p].state \in {"pending", "running"}
                 /\ operations'[p].state = "running"
<1>1. op[t] \in Ops /\ Active(op[t]) /\ operations[op[t]] \in StoredOperation(op[t])
  BY RunnerFacts DEF BeginIteration, Running
<1>2. operations' = [operations EXCEPT ![op[t]].state = RunningState(operations[op[t]].state)]
  BY <1>1 DEF BeginIteration, Active
<1> QED BY <1>1, <1>2 DEF ControlInv, TypeOK, StoredOperation, OperationState, SameRecord,
              RunningState, Active, is_present, is_terminal, Terminal

LEMMA DeadlinePassesLedger ==
  ASSUME Inv, ControlInv', NEW t \in Tasks, DeadlinePasses(t)
  PROVE  Inv'
BY QuietStep DEF DeadlinePasses, SameRecord, Active, is_present, is_terminal

LEMMA DeadlineReachedLedger ==
  ASSUME Inv, ControlInv', NEW t \in Tasks, DeadlineReached(t)
  PROVE  Inv'
<1>1. \A u \in Tasks : \/ pc'[u] = pc[u] /\ op'[u] = op[u] /\ step'[u] = step[u]
                       \/ pc'[u] \notin Busy /\ pc[u] \notin Busy
  BY DEF Inv, ControlInv, TypeOK, DeadlineReached, Busy, Running
<1> QED BY <1>1, QuietStep DEF DeadlineReached, SameRecord, Active, is_present, is_terminal

LEMMA AnswerLedger ==
  ASSUME Inv, ControlInv', NEW t \in Tasks, pc[t] \notin Busy, Answer(t),
         UNCHANGED <<operations, created, effects>>
  PROVE  Inv'
<1>1. \A u \in Tasks : \/ pc'[u] = pc[u] /\ op'[u] = op[u] /\ step'[u] = step[u]
                       \/ pc'[u] \notin Busy /\ pc[u] \notin Busy
  BY DEF Inv, ControlInv, TypeOK, Answer, Busy, Running
<1> QED BY <1>1, QuietStep DEF SameRecord, Active, is_present, is_terminal

LEMMA PollLedger ==
  ASSUME Inv, ControlInv', NEW t \in Tasks, NEW o \in Ops,
         get_operation(t, o) \/ cancel_operation(t, o)
  PROVE  Inv'
<1>1. \A u \in Tasks : \/ pc'[u] = pc[u] /\ op'[u] = op[u] /\ step'[u] = step[u]
                       \/ pc'[u] \notin Busy /\ pc[u] \notin Busy
  BY DEF Inv, ControlInv, TypeOK, get_operation, cancel_operation, Busy, Running
<1> QED BY <1>1, PollRecords, QuietStep DEF KeepsRecords, get_operation, cancel_operation, Inv

LEMMA ClearLedger ==
  ASSUME Inv, ControlInv', NEW t \in Workers, clear_operation_worker_started(t)
  PROVE  Inv'
<1>1. \A u \in Tasks : \/ pc'[u] = pc[u] /\ op'[u] = op[u] /\ step'[u] = step[u]
                       \/ pc'[u] \notin Busy /\ pc[u] \notin Busy
  BY DEF Inv, ControlInv, TypeOK, clear_operation_worker_started, Busy, Running
<1> QED BY <1>1, ClearRecords, QuietStep DEF KeepsRecords, clear_operation_worker_started, Inv

LEMMA EnsureLedger ==
  ASSUME Inv, ControlInv', NEW t \in Tasks, ensure_operation_worker_running(t)
  PROVE  Inv'
<1>1. CASE ~is_present(op[t])
  BY <1>1, AnswerLedger DEF ensure_operation_worker_running, Busy, Running
<1>2. CASE is_present(op[t])
  <2>1. \A u \in Tasks : \/ pc'[u] = pc[u] /\ op'[u] = op[u] /\ step'[u] = step[u]
                         \/ pc'[u] \notin Busy /\ pc[u] \notin Busy
    BY <1>2 DEF Inv, ControlInv, TypeOK, ensure_operation_worker_running, Busy, Running
  <2> QED BY <1>2, <2>1, EnsureRecords, QuietStep DEF KeepsRecords, ensure_operation_worker_running, Inv
<1> QED BY <1>1, <1>2

-----------------------------------------------------------------------------
\* What the ledger says of one operation, active or finished.
EntryOf(o) ==
  /\ o \notin created => \A i \in Units(o) : effects[o][i] = 0
  /\ Active(o) => \A i \in Units(o) :
       IF i <= operations[o].next_group_index
       THEN operations[o].results[i] \in UnitOutcome /\ effects[o][i] = 1
       ELSE /\ operations[o].results[i] = "none"
            /\ effects[o][i] = IF i = operations[o].next_group_index + 1 /\ Applying(o)
                               THEN 1 ELSE 0
  /\ is_terminal(o) => \A i \in Units(o) :
       /\ operations[o].results[i] # "none"
       /\ effects[o][i] = IF operations[o].results[i] = "canceled" THEN 0 ELSE 1

LEMMA Entries ==
  /\ Ledger /\ ReportIsTruthful <=> \A o \in Ops : EntryOf(o)
  /\ Ledger' /\ ReportIsTruthful' <=> \A o \in Ops : EntryOf(o)'
BY DEF Ledger, ReportIsTruthful, EntryOf

LEMMA EntryKept ==
  ASSUME NEW o \in Ops, EntryOf(o),
         o \in created => o \in created', effects'[o] = effects[o],
         \/ operations'[o] = operations[o]
         \/ operations'[o].state = "absent",
         Active(o) => (Applying(o)' <=> Applying(o))
  PROVE  EntryOf(o)'
BY DEF EntryOf, Active, is_present, is_terminal, Terminal

\* A step of the runner t leaves the other runners where they were.
LEMMA OthersProgress ==
  ASSUME Inv, NEW t \in Tasks, pc[t] \in Running,
         \A u \in Tasks : u # t => pc'[u] = pc[u] /\ op'[u] = op[u] /\ step'[u] = step[u],
         \A o \in Ops : o # op[t] /\ Active(o) => operations'[o] = operations[o]
  PROVE  \A u \in Tasks : u # t => ProgressOf(u)'
<1>1. \A u \in Tasks : u # t /\ pc[u] \in Running => op[u] # op[t] /\ op[u] \in Ops /\ Active(op[u])
  BY RunnerFacts DEF Inv, ControlInv, AtMostOneRunner, Runs
<1> QED BY <1>1, ProgressKept

\* And it changes which operation is being applied only for its own.
LEMMA OthersApplying ==
  ASSUME Inv, NEW t \in Tasks, pc[t] \in Running, op' = op,
         \A u \in Tasks : u # t => pc'[u] = pc[u]
  PROVE  /\ \A o \in Ops : o # op[t] => (Applying(o)' <=> Applying(o))
         /\ Applying(op[t]) <=> pc[t] = "apply"
         /\ Applying(op[t])' <=> pc'[t] = "apply"
<1>1. op[t] \in Ops /\ \A u \in Tasks : Runs(u, op[t]) => u = t
  BY RunnerFacts DEF Inv, ControlInv, AtMostOneRunner, Runs
<1>2. \A u \in Tasks : pc'[u] = "apply" /\ op[u] = op[t] => u = t
  BY <1>1 DEF Runs, Running
<1> QED BY <1>1, <1>2 DEF Applying, Runs, Running

LEMMA AcquireLedger ==
  ASSUME Inv, ControlInv', NEW t \in Tasks, AcquireGuard(t)
  PROVE  Inv'
<1>1. /\ pc[t] \in Running /\ pc[t] = "lock" /\ pc'[t] = "check"
      /\ \A u \in Tasks : u # t => pc'[u] = pc[u]
      /\ UNCHANGED <<operations, op, step, created, effects>>
  BY DEF AcquireGuard, Running, Inv, ControlInv, TypeOK
<1>2. \A u \in Tasks : u # t => ProgressOf(u)'
  BY <1>1, OthersProgress
<1>3. ProgressOf(t)'
  BY <1>1 DEF Inv, Progress, ProgressOf
<1>4. \A o \in Ops : EntryOf(o)'
  BY <1>1, OthersApplying, EntryKept, Entries DEF Inv
<1> QED BY <1>2, <1>3, <1>4, Entries DEF Inv, Progress

LEMMA CancelCheckLedger ==
  ASSUME Inv, ControlInv', NEW t \in Tasks, operation_cancel_requested(t)
  PROVE  Inv'
<1>1. pc[t] \in Running /\ Active(op[t])
  BY RunnerFacts DEF operation_cancel_requested, Running, Inv
<1>2. /\ pc[t] = "check"
      /\ pc'[t] = IF operations[op[t]].state = "cancel_requested"
                  THEN "finalize_guarded" ELSE "execute"
      /\ \A u \in Tasks : u # t => pc'[u] = pc[u]
      /\ UNCHANGED <<operations, op, step, created, effects>>
  BY <1>1 DEF operation_cancel_requested, Active, Inv, ControlInv, TypeOK
<1>3. \A u \in Tasks : u # t => ProgressOf(u)'
  BY <1>1, <1>2, OthersProgress
<1>4. ProgressOf(t)'
  BY <1>2 DEF Inv, Progress, ProgressOf
<1>5. \A o \in Ops : EntryOf(o)'
  BY <1>1, <1>2, OthersApplying, EntryKept, Entries DEF Inv
<1> QED BY <1>3, <1>4, <1>5, Entries DEF Inv, Progress

LEMMA BeginLedger ==
  ASSUME Inv, ControlInv', NEW t \in Tasks, BeginIteration(t)
  PROVE  Inv'
<1> DEFINE o == op[t]
           st == RunningState(operations[o].state)
           next == next_operation_step(st, operations[o].next_group_index, o)
<1>1. pc[t] \in Running /\ o \in Ops /\ Active(o) /\ operations[o] \in StoredOperation(o)
  BY RunnerFacts DEF BeginIteration, Running, Inv
<1>2. /\ operations' = [operations EXCEPT ![o].state = st]
      /\ step'[t] = next /\ pc'[t] = IF next = 0 THEN "finalize" ELSE "lock"
      /\ pc[t] = "loop"
      /\ \A u \in Tasks : u # t => pc'[u] = pc[u] /\ step'[u] = step[u]
      /\ UNCHANGED <<op, created, effects>>
  BY <1>1 DEF BeginIteration, Active, Inv, ControlInv, TypeOK
<1>3. /\ \A p \in Ops : p # o => operations'[p] = operations[p]
      /\ operations'[o].state = st
      /\ \A p \in Ops : SameRecord(p)
  BY <1>1, <1>2, BeginRecords DEF Inv, ControlInv, TypeOK, StoredOperation
<1>4. \A u \in Tasks : u # t => ProgressOf(u)'
  BY <1>1, <1>2, <1>3, OthersProgress
<1>5. ProgressOf(t)'
  <2>1. UnitsOf[o] \in Nat /\ operations[o].next_group_index \in Nat
    BY <1>1, InputTypes DEF StoredOperation
  <2>2. operations'[o].next_group_index = operations[o].next_group_index
    BY <1>1, <1>3 DEF SameRecord
  <2>3. CASE next = 0
    <3>1. st = "cancel_requested" \/ operations[o].next_group_index >= UnitsOf[o]
      BY <2>1, <2>3 DEF next_operation_step
    <3> QED BY <3>1, <2>2, <2>3, <1>2, <1>3 DEF ProgressOf
  <2>4. CASE next # 0
    <3>1. next = operations[o].next_group_index + 1 /\ next \in Units(o)
      BY <2>1, <2>4 DEF next_operation_step, Units
    <3> QED BY <3>1, <2>2, <2>4, <1>2 DEF ProgressOf
  <2> QED BY <2>3, <2>4
<1>6. \A p \in Ops : Applying(p)' <=> Applying(p)
  BY <1>1, <1>2, OthersApplying
<1>7. Ledger' /\ ReportIsTruthful'
  BY <1>2, <1>3, <1>6, LedgerKept
<1> QED BY <1>4, <1>5, <1>7 DEF Inv, Progress

LEMMA ExecuteLedger ==
  ASSUME Inv, ControlInv', NEW t \in Tasks, execute_operation_step(t)
  PROVE  Inv'
<1> DEFINE o == op[t]
           i == step[t]
<1>1. /\ pc[t] = "execute" /\ pc[t] \in Running /\ o \in Ops /\ o \in created /\ Active(o)
      /\ operations[o] \in StoredOperation(o) /\ effects[o] \in [Units(o) -> Nat]
  BY RunnerFacts DEF execute_operation_step, Running, Inv, ControlInv, TypeOK
<1>2. /\ pc'[t] = "apply"
      /\ \A u \in Tasks : u # t => pc'[u] = pc[u]
      /\ UNCHANGED <<operations, op, step, created>>
  BY DEF execute_operation_step, Inv, ControlInv, TypeOK
<1>3. i \in Units(o) /\ i = operations[o].next_group_index + 1
  BY <1>1 DEF Inv, Progress, ProgressOf
<1>4. /\ effects'[o][i] = effects[o][i] + 1
      /\ \A j \in Units(o) : j # i => effects'[o][j] = effects[o][j]
      /\ \A p \in Ops : p # o => effects'[p] = effects[p]
  BY <1>1, <1>3 DEF execute_operation_step, Inv, ControlInv, TypeOK
<1>5. /\ \A p \in Ops : p # o => (Applying(p)' <=> Applying(p))
      /\ ~Applying(o) /\ Applying(o)'
  BY <1>1, <1>2, OthersApplying
<1>6. \A u \in Tasks : u # t => ProgressOf(u)'
  BY <1>1, <1>2, OthersProgress
<1>7. ProgressOf(t)'
  BY <1>1, <1>2 DEF Inv, Progress, ProgressOf
<1>8. \A p \in Ops : p # o => EntryOf(p)'
  BY <1>2, <1>4, <1>5, EntryKept, Entries DEF Inv
<1>9. EntryOf(o)'
  <2>1. (~is_terminal(o))' /\ operations[o].next_group_index \in Nat
    BY <1>1, <1>2 DEF Active, is_terminal, StoredOperation
  <2>2. \A j \in Units(o) :
          IF j <= operations[o].next_group_index
          THEN operations[o].results[j] \in UnitOutcome /\ effects'[o][j] = 1
          ELSE operations[o].results[j] = "none" /\ effects'[o][j] = IF j = i THEN 1 ELSE 0
    BY <1>1, <1>3, <1>4, <1>5, <2>1 DEF Inv, Ledger, Units
  <2> QED BY <2>1, <2>2, <1>1, <1>2, <1>3, <1>5 DEF EntryOf
<1>10. \A p \in Ops : EntryOf(p)'
  BY <1>2, <1>8, <1>9
<1> QED BY <1>6, <1>7, <1>10, Entries DEF Inv, Progress

LEMMA ApplyLedger ==
  ASSUME Inv, ControlInv', NEW t \in Tasks, apply_operation_step_outcome(t)
  PROVE  Inv'
<1> DEFINE o == op[t]
           i == step[t]
<1>1. /\ pc[t] = "apply" /\ pc[t] \in Running /\ o \in Ops /\ o \in created /\ Active(o)
      /\ operations[o] \in StoredOperation(o)
  BY RunnerFacts DEF apply_operation_step_outcome, Running, Inv
<1>2. /\ pc'[t] = "loop"
      /\ \A u \in Tasks : u # t => pc'[u] = pc[u]
      /\ UNCHANGED <<op, step, created, effects>>
  BY <1>1 DEF apply_operation_step_outcome, Active, Inv, ControlInv, TypeOK
<1>3. PICK outcome \in UnitOutcome :
        operations' = [operations EXCEPT ![o].results[i] = outcome,
                                         ![o].next_group_index = @ + 1]
  BY <1>1 DEF apply_operation_step_outcome, Active
<1>4. i \in Units(o) /\ i = operations[o].next_group_index + 1
  BY <1>1 DEF Inv, Progress, ProgressOf
<1>5. /\ operations'[o].next_group_index = i
      /\ operations'[o].results[i] = outcome
      /\ \A j \in Units(o) : j # i => operations'[o].results[j] = operations[o].results[j]
      /\ operations'[o].state = operations[o].state
      /\ \A p \in Ops : p # o => operations'[p] = operations[p]
  <2> DEFINE before == operations[o]
             results == [before.results EXCEPT ![i] = outcome]
  <2>1. operations' = [operations EXCEPT ![o] =
                         [before EXCEPT !.results = results, !.next_group_index = @ + 1]]
    BY <1>1, <1>3 DEF Inv, ControlInv, TypeOK, StoredOperation
  <2>2. results[i] = outcome /\ \A j \in Units(o) : j # i => results[j] = before.results[j]
    BY <1>1, <1>4 DEF StoredOperation
  <2>3. before \in StoredOperation(o) /\ operations = [p \in Ops |-> operations[p]]
    BY <1>1 DEF Inv, ControlInv, TypeOK
  <2> HIDE DEF results
  <2>4. operations'[o] = [before EXCEPT !.results = results, !.next_group_index = @ + 1]
        /\ \A p \in Ops : p # o => operations'[p] = operations[p]
    BY <2>1, <2>3, <1>1
  <2>5. operations'[o].results = results /\ operations'[o].next_group_index = i
        /\ operations'[o].state = before.state
    BY <2>4, <2>3, <1>4 DEF StoredOperation
  <2> QED BY <2>2, <2>4, <2>5
<1>6. /\ \A p \in Ops : p # o => (Applying(p)' <=> Applying(p))
      /\ Applying(o) /\ ~Applying(o)'
  BY <1>1, <1>2, OthersApplying
<1>7. \A u \in Tasks : u # t => ProgressOf(u)'
  BY <1>1, <1>2, <1>5, OthersProgress
<1>8. ProgressOf(t)'
  BY <1>2, NotBusy DEF Busy
<1>9. \A p \in Ops : p # o => EntryOf(p)'
  BY <1>2, <1>5, <1>6, EntryKept, Entries DEF Inv
<1>10. EntryOf(o)'
  <2>1. (~is_terminal(o))' /\ operations[o].next_group_index \in Nat
    BY <1>1, <1>2, <1>5 DEF Active, is_terminal, StoredOperation
  <2>2. \A j \in Units(o) :
          IF j <= i
          THEN operations'[o].results[j] \in UnitOutcome /\ effects[o][j] = 1
          ELSE operations'[o].results[j] = "none" /\ effects[o][j] = 0
    BY <1>1, <1>4, <1>5, <1>6, <2>1 DEF Inv, Ledger, Units
  <2> QED BY <2>1, <2>2, <1>1, <1>2, <1>5, <1>6 DEF EntryOf
<1>11. \A p \in Ops : EntryOf(p)'
  BY <1>2, <1>9, <1>10
<1> QED BY <1>7, <1>8, <1>11, Entries DEF Inv, Progress

LEMMA FinalizeLedger ==
  ASSUME Inv, ControlInv', NEW t \in Tasks, finalize_operation(t)
  PROVE  Inv'
<1> DEFINE o == op[t]
           canceled == operations[o].state = "cancel_requested"
           results == [i \in Units(o) |-> IF canceled /\ i \in Remaining(o)
                                          THEN "canceled" ELSE operations[o].results[i]]
           final == [operations[o] EXCEPT
                       !.state = IF canceled THEN "canceled"
                                 ELSE operation_result_status(results),
                       !.results = results,
                       !.worker_started = FALSE,
                       !.finished_at = clock']
           written == [operations EXCEPT ![o] = final]
<1>1. /\ pc[t] \in Running /\ o \in Ops /\ o \in created /\ Active(o)
      /\ operations[o] \in StoredOperation(o)
  BY RunnerFacts DEF finalize_operation, Running, Inv
<1>2. /\ pc[t] \in {"finalize", "finalize_guarded"}
      /\ pc'[t] = AfterRun(t)
      /\ \A u \in Tasks : u # t => pc'[u] = pc[u]
      /\ UNCHANGED <<op, step, created, effects>>
  BY <1>1 DEF finalize_operation, Active, Inv, ControlInv, TypeOK
<1>3. operations' = evict_completed_operations(written)
  BY <1>1 DEF finalize_operation, Active
<1>4. /\ written[o] = final
      /\ \A p \in Ops : p # o => written[p] = operations[p]
  BY <1>1 DEF Inv, ControlInv, TypeOK
<1>5. final.results = results /\ final.state \in Terminal
  BY <1>1 DEF StoredOperation, operation_result_status, Terminal
<1>6. \A p \in Ops : \/ operations'[p] = written[p]
                     \/ written[p].state \in Terminal /\ operations'[p].state = "absent"
  <2> HIDE DEF written
  <2> QED BY <1>3, EvictsFinishedOnly, AbsentType
<1> HIDE DEF written, final
<1>7. \A p \in Ops : p # o => \/ operations'[p] = operations[p]
                              \/ ~Active(p) /\ operations'[p].state = "absent"
  BY <1>4, <1>6 DEF Active, is_terminal
<1>8. /\ \A p \in Ops : p # o => (Applying(p)' <=> Applying(p))
      /\ ~Applying(o)
  BY <1>1, <1>2, OthersApplying
<1>9. \A u \in Tasks : u # t => ProgressOf(u)'
  BY <1>1, <1>2, <1>7, OthersProgress
<1>10. ProgressOf(t)'
  BY <1>2, NotBusy DEF Busy, AfterRun, Running
<1>11. \A p \in Ops : p # o => EntryOf(p)'
  BY <1>2, <1>7, <1>8, EntryKept, Entries DEF Inv
<1>12. EntryOf(o)'
  <2>1. \A i \in Units(o) : /\ results[i] # "none"
                            /\ effects[o][i] = IF results[i] = "canceled" THEN 0 ELSE 1
    <3> SUFFICES ASSUME NEW i \in Units(o)
                 PROVE  /\ results[i] # "none"
                        /\ effects[o][i] = IF results[i] = "canceled" THEN 0 ELSE 1
      OBVIOUS
    <3>1. operations[o].next_group_index \in Nat /\ UnitsOf[o] \in Nat /\ i \in Nat
      BY <1>1, InputTypes DEF StoredOperation, Units
    <3>2. CASE i <= operations[o].next_group_index
      <4>1. operations[o].results[i] \in UnitOutcome /\ effects[o][i] = 1
        BY <1>1, <3>2 DEF Inv, Ledger
      <4>2. i \notin Remaining(o)
        BY <3>1, <3>2 DEF Remaining
      <4> QED BY <4>1, <4>2 DEF UnitOutcome
    <3>3. CASE ~(i <= operations[o].next_group_index)
      <4>1. effects[o][i] = 0
        BY <1>1, <1>8, <3>3 DEF Inv, Ledger
      <4>2. i \in Remaining(o)
        BY <3>1, <3>3 DEF Remaining
      <4>3. i <= UnitsOf[o]
        BY <3>1 DEF Units
      <4>4. ~(operations[o].next_group_index >= UnitsOf[o])
        BY <3>1, <3>3, <4>3
      <4>5. canceled
        BY <4>4, <1>2 DEF Inv, Progress, ProgressOf
      <4> QED BY <4>1, <4>2, <4>5
    <3> QED BY <3>2, <3>3
  <2>2. \/ operations'[o].results = results /\ operations'[o].state \in Terminal
        \/ operations'[o].state = "absent"
    BY <1>1, <1>4, <1>5, <1>6
  <2>3. (~Active(o))'
    BY <2>2, <1>2 DEF Active, is_present, is_terminal
  <2> HIDE DEF results
  <2>4. is_terminal(o)' => operations'[o].results = results
    BY <2>2, <1>2 DEF is_terminal, Terminal
  <2> QED BY <2>1, <2>3, <2>4, <1>1, <1>2 DEF EntryOf
<1>13. \A p \in Ops : EntryOf(p)'
  BY <1>2, <1>11, <1>12
<1> QED BY <1>9, <1>10, <1>13, Entries DEF Inv, Progress

LEMMA StartLedger ==
  ASSUME Inv, ControlInv', NEW t \in Tasks, NEW o \in Ops, start_write_operation(t, o)
  PROVE  Inv'
<1> DEFINE first == [Absent(o) EXCEPT !.state = "pending"]
           written == [operations EXCEPT ![o] = first]
<1>1. /\ pc[t] = "idle" /\ o \notin created /\ ~is_present(o)
      /\ operations' = evict_completed_operations(written)
      /\ created' = created \cup {o}
      /\ UNCHANGED <<step, effects>>
  BY DEF start_write_operation, Inv, ControlInv
<1>2. /\ pc'[t] = "loop" /\ op'[t] = o
      /\ \A u \in Tasks : u # t => pc'[u] = pc[u] /\ op'[u] = op[u]
  BY DEF start_write_operation, Inv, ControlInv, TypeOK
<1>3. /\ first.state = "pending" /\ first.next_group_index = 0
      /\ \A i \in Units(o) : first.results[i] = "none"
  BY DEF Absent
<1>4. written[o] = first /\ \A p \in Ops : p # o => written[p] = operations[p]
  BY DEF Inv, ControlInv, TypeOK
<1>5. \A p \in Ops : \/ operations'[p] = written[p]
                     \/ written[p].state \in Terminal /\ operations'[p].state = "absent"
  <2> HIDE DEF written
  <2> QED BY <1>1, EvictsFinishedOnly, AbsentType
<1> HIDE DEF written, first
<1>6. /\ operations'[o] = first
      /\ \A p \in Ops : p # o => \/ operations'[p] = operations[p]
                                 \/ ~Active(p) /\ operations'[p].state = "absent"
  BY <1>3, <1>4, <1>5 DEF Active, is_terminal, Terminal
<1>7. \A u \in Tasks : pc[u] \in Running =>
        u # t /\ op[u] # o /\ op[u] \in Ops /\ Active(op[u])
  BY <1>1, RunnerFacts DEF Running, Inv
<1>8. Progress'
  <2> SUFFICES ASSUME NEW u \in Tasks PROVE ProgressOf(u)'
    BY DEF Progress
  <2>1. CASE u = t
    BY <2>1, <1>2, NotBusy DEF Busy
  <2>2. CASE u # t
    BY <2>2, <1>1, <1>2, <1>6, <1>7, ProgressKept
  <2> QED BY <2>1, <2>2
<1>9. \A p \in Ops : p # o => (Applying(p)' <=> Applying(p))
  BY <1>1, <1>2 DEF Applying, Runs, Running
<1>10. ~Applying(o)'
  BY <1>2, <1>7 DEF Applying, Runs, Running
<1>11. \A p \in Ops : p # o => EntryOf(p)'
  BY <1>1, <1>6, <1>9, EntryKept, Entries DEF Inv
<1>12. EntryOf(o)'
  <2>1. \A i \in Units(o) : effects[o][i] = 0
    BY <1>1 DEF Inv, Ledger
  <2>2. (~is_terminal(o))'
    BY <1>3, <1>6 DEF is_terminal, Terminal
  <2>3. \A i \in Units(o) : ~(i <= 0)
    BY InputTypes DEF Units
  <2> QED BY <2>1, <2>2, <2>3, <1>1, <1>3, <1>6, <1>10 DEF EntryOf
<1> QED BY <1>8, <1>11, <1>12, Entries DEF Inv

-----------------------------------------------------------------------------
LEMMA InitLedger == Init => Inv
<1> SUFFICES ASSUME Init PROVE Inv
  OBVIOUS
<1>1. ControlInv
  BY InitInv
<1>2. \A o \in Ops : ~Active(o) /\ ~is_terminal(o)
  BY AbsentType DEF Init, Active, is_present, is_terminal, Terminal
<1>3. Progress
  BY DEF Init, Progress, ProgressOf
<1>4. Ledger /\ ReportIsTruthful
  BY <1>2 DEF Init, Ledger, ReportIsTruthful
<1> QED BY <1>1, <1>3, <1>4 DEF Inv

LEMMA NextLedger == Inv /\ [Next]_vars => Inv'
<1> SUFFICES ASSUME Inv, [Next]_vars PROVE Inv'
  OBVIOUS
<1>0. ControlInv'
  BY NextInv DEF Inv
<1>1. ASSUME NEW t \in Tasks, RunStep(t) PROVE Inv'
  BY <1>0, <1>1, BeginLedger, AcquireLedger, CancelCheckLedger, ExecuteLedger, ApplyLedger,
     FinalizeLedger DEF RunStep
<1>2. ASSUME NEW t \in Workers, clear_operation_worker_started(t) PROVE Inv'
  BY <1>0, <1>2, ClearLedger
<1>3. ASSUME NEW t \in Requests, operation_response(t) PROVE Inv'
  BY <1>0, <1>3, AnswerLedger DEF operation_response, Busy, Running, Tasks
<1>4. ASSUME NEW t \in Requests,
             DeadlinePasses(t) \/ DeadlineReached(t) \/ ensure_operation_worker_running(t)
      PROVE  Inv'
  BY <1>0, <1>4, DeadlinePassesLedger, DeadlineReachedLedger, EnsureLedger DEF Tasks
<1>5. ASSUME NEW t \in Requests, NEW o \in Ops,
             start_write_operation(t, o) \/ get_operation(t, o) \/ cancel_operation(t, o)
      PROVE  Inv'
  BY <1>0, <1>5, StartLedger, PollLedger DEF Tasks
<1>6. CASE UNCHANGED vars
  BY <1>0, <1>6, QuietStep DEF SameRecord, Active, is_present, is_terminal
<1> QED BY <1>1, <1>2, <1>3, <1>4, <1>5, <1>6 DEF Next

\* The inductive invariant, with the ledger of what was sent to the server.
THEOREM FullInvariant == Spec => []Inv
BY InitLedger, NextLedger, PTL DEF Spec

\* Whatever cancellations, deadlines and evictions come between, a finished
\* operation reports a result for every unit, "canceled" exactly for those
\* that were never sent to the server, and no unit was sent twice.
THEOREM ReportsAreTruthful == Spec => []ReportIsTruthful
<1>1. Inv => ReportIsTruthful
  BY DEF Inv
<1> QED BY <1>1, FullInvariant, PTL

-----------------------------------------------------------------------------
(* The bound on finished operations, and the order they are forgotten in.    *)

LEMMA LeastNatural ==
  ASSUME NEW S \in SUBSET Nat, S # {}
  PROVE  \E x \in S : \A y \in S : x <= y
<1>1. \E x \in S : \A y \in S : ~(<<y, x>> \in OpToRel(<, Nat))
  BY NatLessThanWellFounded, WFMin
<1>2. PICK x \in S : \A y \in S : ~(y < x)
  BY <1>1, Zenon DEF OpToRel
<1>3. \A y \in S : x <= y
  BY <1>2
<1> QED BY <1>3

\* Older is a strict order of operations with a least element.
LEMMA Oldest ==
  ASSUME NEW T, NEW C \in SUBSET Ops, C # {}, \A p \in C : T[p].finished_at \in Nat
  PROVE  \E m \in C : \A p \in C :
           ~Older(T, p, m) /\ (p # m => Older(T, m, p))
           /\ T[m].finished_at <= T[p].finished_at
<1> DEFINE times == {T[p].finished_at : p \in C}
<1>0. times # {} /\ times \in SUBSET Nat
  OBVIOUS
<1> HIDE DEF times
<1>1. PICK first \in times : \A x \in times : first <= x
  BY <1>0, LeastNatural
<1> USE DEF times
<1> DEFINE ties == {p \in C : T[p].finished_at = first}
<1>2. ties # {} /\ ties \in SUBSET Nat
  BY OpsAssumption
<1>3. PICK m \in ties : \A p \in ties : m <= p
  BY <1>2, LeastNatural
<1>4. ASSUME NEW p \in C
      PROVE  /\ ~Older(T, p, m) /\ (p # m => Older(T, m, p))
             /\ T[m].finished_at <= T[p].finished_at
  <2>1. m \in Nat /\ p \in Nat /\ first \in Nat /\ T[p].finished_at \in Nat
    BY <1>2, OpsAssumption
  <2>2. T[m].finished_at = first /\ first <= T[p].finished_at
    BY <1>1
  <2>3. T[p].finished_at = first => m <= p
    BY <1>3
  <2> QED BY <2>1, <2>2, <2>3 DEF Older
<1> QED BY <1>3, <1>4

\* Eviction drops nothing as long as there is room, and just the oldest
\* operation when there is one too many.
LEMMA EvictsTheOldest ==
  ASSUME NEW T, IsFiniteSet(Completed(T)),
         \A p \in Completed(T) : T[p].finished_at \in Nat,
         Cardinality(Completed(T)) <= MaxEntries + 1
  PROVE  \/ EvictedFrom(T) = {} /\ Cardinality(Completed(T)) <= MaxEntries
         \/ /\ Cardinality(Completed(T)) = MaxEntries + 1
            /\ \E m \in Completed(T) :
                 /\ EvictedFrom(T) = {m}
                 /\ \A p \in Completed(T) : T[m].finished_at <= T[p].finished_at
<1> DEFINE C == Completed(T)
           older(o) == {p \in C : Older(T, p, o)}
<1>1. Cardinality(C) \in Nat /\ MaxEntries \in Nat /\ C \in SUBSET Ops
  BY FS_CardinalityType, EntriesAssumption DEF Completed
<1>2. \A o \in C : IsFiniteSet(older(o)) /\ Cardinality(older(o)) \in Nat
  BY FS_Subset, FS_CardinalityType
<1>3. CASE Cardinality(C) <= MaxEntries
  <2>1. \A o \in C : ~(Cardinality(older(o)) + MaxEntries < Cardinality(C))
    BY <1>1, <1>2, <1>3
  <2> QED BY <2>1, <1>3 DEF EvictedFrom
<1>4. CASE Cardinality(C) = MaxEntries + 1
  <2>1. C # {}
    BY <1>1, <1>4, FS_EmptySet
  <2>2. PICK m \in C : \A p \in C :
          ~Older(T, p, m) /\ (p # m => Older(T, m, p)) /\ T[m].finished_at <= T[p].finished_at
    BY <1>1, <2>1, Oldest
  <2>3. Cardinality(older(m)) = 0
    <3>1. older(m) = {}
      BY <2>2
    <3> QED BY <3>1, FS_EmptySet
  <2>4. ASSUME NEW o \in C, o # m
        PROVE  Cardinality(older(o)) # 0
    <3>1. m \in older(o)
      BY <2>2, <2>4
    <3> HIDE DEF older
    <3> QED BY <3>1, <1>2, FS_EmptySet
  <2>5. EvictedFrom(T) = {o \in C : Cardinality(older(o)) = 0}
    <3>1. \A o \in C : Cardinality(older(o)) + MaxEntries < Cardinality(C)
                         <=> Cardinality(older(o)) = 0
      <4> HIDE DEF older, C
      <4> QED BY <1>1, <1>2, <1>4
    <3> QED BY <3>1 DEF EvictedFrom
  <2> HIDE DEF older
  <2>6. EvictedFrom(T) = {m}
    BY <2>3, <2>4, <2>5
  <2> QED BY <1>4, <2>2, <2>6
<1> QED BY <1>1, <1>3, <1>4

\* The operations that are finished after an eviction.
LEMMA CompletedAfter ==
  ASSUME NEW T
  PROVE  Completed(evict_completed_operations(T)) = Completed(T) \ EvictedFrom(T)
BY AbsentType DEF Completed, EvictedFrom, evict_completed_operations, Terminal

LEMMA LimitAfter ==
  ASSUME NEW T, IsFiniteSet(Completed(T)),
         \A p \in Completed(T) : T[p].finished_at \in Nat,
         Cardinality(Completed(T)) <= MaxEntries + 1
  PROVE  Cardinality(Completed(evict_completed_operations(T))) <= MaxEntries
<1>1. CASE EvictedFrom(T) = {} /\ Cardinality(Completed(T)) <= MaxEntries
  BY <1>1, CompletedAfter
<1>2. CASE /\ Cardinality(Completed(T)) = MaxEntries + 1
           /\ \E m \in Completed(T) : EvictedFrom(T) = {m}
  <2>1. PICK m \in Completed(T) : EvictedFrom(T) = {m}
    BY <1>2
  <2>2. Cardinality(Completed(T) \ {m}) = Cardinality(Completed(T)) - 1
    BY FS_RemoveElement
  <2> QED BY <1>2, <2>1, <2>2, CompletedAfter, EntriesAssumption
<1> QED BY <1>1, <1>2, EvictsTheOldest

\* A finished operation is one that was created.
LEMMA CompletedFinite ==
  ASSUME ControlInv, IsFiniteSet(created)
  PROVE  /\ IsFiniteSet(Completed(operations))
         /\ Cardinality(Completed(operations)) \in Nat
         /\ CompletedBounded <=> Cardinality(Completed(operations)) <= MaxEntries
<1>1. Completed(operations) \in SUBSET created
  BY DEF Completed, ControlInv, is_present, Terminal
<1>2. Completed(operations) = {o \in Ops : is_terminal(o)}
  BY DEF Completed, is_terminal
<1> QED BY <1>1, <1>2, FS_Subset, FS_CardinalityType DEF CompletedBounded

\* A step that finishes nothing keeps the operations within the limit.
LEMMA QuietRetention ==
  ASSUME FullInv, ControlInv', created' = created, \A o \in Ops : SameRecord(o)
  PROVE  Retention'
BY DEF FullInv, Retention, SameRecord, CompletedBounded, Active, is_present, is_terminal, Terminal

\* The table that finalize_operation writes, before it evicts.
FinalResults(o) ==
  [i \in Units(o) |-> IF operations[o].state = "cancel_requested" /\ i \in Remaining(o)
                      THEN "canceled" ELSE operations[o].results[i]]

FinalEntry(o) ==
  [operations[o] EXCEPT
     !.state = IF operations[o].state = "cancel_requested" THEN "canceled"
               ELSE operation_result_status(FinalResults(o)),
     !.results = FinalResults(o),
     !.worker_started = FALSE,
     !.finished_at = clock']

WithFinal(o) == [operations EXCEPT ![o] = FinalEntry(o)]

LEMMA FinalizeWrites ==
  ASSUME ControlInv, NEW t \in Tasks, finalize_operation(t)
  PROVE  /\ op[t] \in Ops /\ op[t] \in created /\ Active(op[t])
         /\ clock' \in Nat /\ created' = created
         /\ operations' = evict_completed_operations(WithFinal(op[t]))
         /\ WithFinal(op[t])[op[t]] = FinalEntry(op[t])
         /\ \A p \in Ops : p # op[t] => WithFinal(op[t])[p] = operations[p]
         /\ FinalEntry(op[t]).state \in Terminal
         /\ FinalEntry(op[t]).state = IF operations[op[t]].state = "cancel_requested"
                                      THEN "canceled"
                                      ELSE operation_result_status(FinalResults(op[t]))
         /\ FinalEntry(op[t]).results = FinalResults(op[t])
         /\ FinalEntry(op[t]).next_group_index = operations[op[t]].next_group_index
         /\ FinalEntry(op[t]).finished_at = clock'
<1> DEFINE o == op[t]
<1>1. /\ pc[t] \in Running /\ o \in Ops /\ o \in created /\ Active(o)
      /\ operations[o] \in StoredOperation(o)
  BY RunnerFacts DEF finalize_operation, Running
<1>2. clock' \in {clock, clock + 1} /\ created' = created
      /\ operations' = evict_completed_operations(WithFinal(o))
  BY <1>1 DEF finalize_operation, Active, WithFinal, FinalEntry, FinalResults
<1>3. clock' \in Nat
  BY <1>2 DEF ControlInv, TypeOK
<1>4. /\ WithFinal(o)[o] = FinalEntry(o)
      /\ \A p \in Ops : p # o => WithFinal(o)[p] = operations[p]
  BY <1>1 DEF WithFinal, ControlInv, TypeOK
<1>5. operation_result_status(FinalResults(o)) \in Terminal
  BY DEF operation_result_status, Terminal
<1>6. /\ FinalEntry(o).state = IF operations[o].state = "cancel_requested" THEN "canceled"
                               ELSE operation_result_status(FinalResults(o))
      /\ FinalEntry(o).results = FinalResults(o)
      /\ FinalEntry(o).next_group_index = operations[o].next_group_index
      /\ FinalEntry(o).finished_at = clock'
  BY <1>1 DEF FinalEntry, StoredOperation
<1>7. FinalEntry(o).state \in Terminal
  BY <1>5, <1>6 DEF Terminal
<1> QED BY <1>1, <1>2, <1>3, <1>4, <1>6, <1>7

\* Finishing an operation adds just that one to the finished ones.
LEMMA FinalizeCounts ==
  ASSUME FullInv, NEW t \in Tasks, finalize_operation(t)
  PROVE  /\ Completed(WithFinal(op[t])) = Completed(operations) \cup {op[t]}
         /\ IsFiniteSet(Completed(WithFinal(op[t])))
         /\ Cardinality(Completed(WithFinal(op[t]))) <= MaxEntries + 1
         /\ \A p \in Completed(WithFinal(op[t])) : WithFinal(op[t])[p].finished_at \in Nat
<1> DEFINE o == op[t]
<1>1. Completed(WithFinal(o)) = Completed(operations) \cup {o} /\ o \notin Completed(operations)
  BY FinalizeWrites DEF FullInv, Inv, Completed, Active, is_terminal
<1>2. /\ IsFiniteSet(Completed(operations)) /\ Cardinality(Completed(operations)) \in Nat
      /\ Cardinality(Completed(operations)) <= MaxEntries
  BY CompletedFinite DEF FullInv, Inv, Retention
<1>3. /\ IsFiniteSet(Completed(operations) \cup {o})
      /\ Cardinality(Completed(operations) \cup {o}) = Cardinality(Completed(operations)) + 1
  BY <1>1, <1>2, FS_AddElement
<1>4. Cardinality(Completed(WithFinal(o))) <= MaxEntries + 1
  BY <1>1, <1>2, <1>3, EntriesAssumption
<1>5. ASSUME NEW p \in Ops PROVE WithFinal(o)[p].finished_at \in Nat
  <2>1. operations[p] \in StoredOperation(p)
    BY DEF FullInv, Inv, ControlInv, TypeOK
  <2>2. CASE p = o
    BY <2>2, FinalizeWrites DEF FullInv, Inv
  <2>3. CASE p # o
    BY <2>1, <2>3, FinalizeWrites DEF FullInv, Inv, StoredOperation
  <2> QED BY <2>2, <2>3
<1> QED BY <1>1, <1>3, <1>4, <1>5 DEF Completed

LEMMA FinalizeRetention ==
  ASSUME FullInv, ControlInv', NEW t \in Tasks, finalize_operation(t)
  PROVE  Retention'
<1> DEFINE o == op[t]
<1>1. Cardinality(Completed(operations')) <= MaxEntries
  BY FinalizeCounts, FinalizeWrites, LimitAfter DEF FullInv, Inv
<1>2. IsFiniteSet(created')
  BY FinalizeWrites DEF FullInv, Inv, Retention
<1>3. CompletedBounded'
  <2>1. Completed(operations') = {p \in Ops : is_terminal(p)'}
    BY DEF Completed, is_terminal
  <2> QED BY <1>1, <2>1 DEF CompletedBounded
<1>4. ASSUME NEW p \in Ops
      PROVE  /\ operations'[p].next_group_index <= UnitsOf[p]
             /\ ~is_present(p)' => operations'[p].next_group_index = 0
  <2>1. /\ operations[p].next_group_index <= UnitsOf[p]
        /\ ~is_present(p) => operations[p].next_group_index = 0
    BY DEF FullInv, Retention
  <2>2. WithFinal(o)[p].next_group_index = operations[p].next_group_index
    BY FinalizeWrites DEF FullInv, Inv
  <2>3. operations'[p] = WithFinal(o)[p] \/ operations'[p] = Absent(p)
    BY FinalizeWrites, EvictsFinishedOnly DEF FullInv, Inv
  <2>4. Absent(p).next_group_index = 0 /\ 0 <= UnitsOf[p]
    BY InputTypes DEF Absent
  <2>5. WithFinal(o)[p].state = operations[p].state \/ WithFinal(o)[p].state \in Terminal
    BY FinalizeWrites DEF FullInv, Inv
  <2> QED BY <2>1, <2>2, <2>3, <2>4, <2>5 DEF is_present, Terminal
<1> QED BY <1>2, <1>3, <1>4 DEF Retention

\* create_operation evicts too, but never finds one too many.
WithNew(o) == [operations EXCEPT ![o] = [Absent(o) EXCEPT !.state = "pending"]]

LEMMA StartWrites ==
  ASSUME FullInv, NEW t \in Tasks, NEW o \in Ops, start_write_operation(t, o)
  PROVE  /\ o \notin created /\ created' = created \cup {o}
         /\ Completed(WithNew(o)) = Completed(operations)
         /\ operations' = WithNew(o)
         /\ WithNew(o)[o] = [Absent(o) EXCEPT !.state = "pending"]
         /\ \A p \in Ops : p # o => WithNew(o)[p] = operations[p]
<1>1. /\ o \notin created /\ created' = created \cup {o} /\ ~is_present(o)
      /\ operations' = evict_completed_operations(WithNew(o))
  BY DEF start_write_operation, WithNew, FullInv, Inv, ControlInv
<1>2. /\ WithNew(o)[o] = [Absent(o) EXCEPT !.state = "pending"]
      /\ \A p \in Ops : p # o => WithNew(o)[p] = operations[p]
      /\ WithNew(o) = [p \in Ops |-> WithNew(o)[p]]
  BY DEF WithNew, FullInv, Inv, ControlInv, TypeOK
<1>3. [Absent(o) EXCEPT !.state = "pending"].state = "pending"
  BY DEF Absent
<1>4. Completed(WithNew(o)) = Completed(operations)
  BY <1>1, <1>2, <1>3 DEF Completed, is_present, Terminal
<1>5. /\ IsFiniteSet(Completed(operations)) /\ Cardinality(Completed(operations)) \in Nat
      /\ Cardinality(Completed(operations)) <= MaxEntries
  BY CompletedFinite DEF FullInv, Inv, Retention
<1>6. \A p \in Completed(WithNew(o)) : WithNew(o)[p].finished_at \in Nat
  BY <1>1, <1>2, <1>4 DEF Completed, is_present, Terminal, FullInv, Inv, ControlInv, TypeOK,
                          StoredOperation
<1>7. EvictedFrom(WithNew(o)) = {}
  <2>1. /\ IsFiniteSet(Completed(WithNew(o)))
        /\ Cardinality(Completed(WithNew(o))) <= MaxEntries + 1
        /\ Cardinality(Completed(WithNew(o))) # MaxEntries + 1
    BY <1>4, <1>5, EntriesAssumption
  <2> QED BY <1>6, <2>1, EvictsTheOldest
<1>8. operations' = WithNew(o)
  BY <1>1, <1>2, <1>7 DEF evict_completed_operations
<1> QED BY <1>1, <1>2, <1>4, <1>8

LEMMA StartRetention ==
  ASSUME FullInv, NEW t \in Tasks, NEW o \in Ops, start_write_operation(t, o)
  PROVE  Retention'
<1>0. /\ created' = created \cup {o}
      /\ operations' = WithNew(o) /\ Completed(WithNew(o)) = Completed(operations)
  BY StartWrites
<1>1. IsFiniteSet(created')
  <2>1. IsFiniteSet(created)
    BY DEF FullInv, Retention
  <2> QED BY <1>0, <2>1, FS_AddElement
<1>2. CompletedBounded'
  <2>1. Completed(operations') = {p \in Ops : is_terminal(p)'}
    BY DEF Completed, is_terminal
  <2>2. Completed(operations) = {p \in Ops : is_terminal(p)}
    BY DEF Completed, is_terminal
  <2>3. Completed(operations') = Completed(operations)
    BY <1>0
  <2> QED BY <2>1, <2>2, <2>3 DEF FullInv, Retention, CompletedBounded
<1>3. ASSUME NEW p \in Ops
      PROVE  /\ operations'[p].next_group_index <= UnitsOf[p]
             /\ ~is_present(p)' => operations'[p].next_group_index = 0
  <2>1. [Absent(p) EXCEPT !.state = "pending"].next_group_index = 0 /\ 0 <= UnitsOf[p]
    BY InputTypes DEF Absent
  <2> QED BY <2>1, StartWrites DEF FullInv, Retention, is_present
<1> QED BY <1>1, <1>2, <1>3 DEF Retention

\* What recording an outcome does to the entry.
LEMMA ApplyWrites ==
  ASSUME Inv, NEW t \in Tasks, apply_operation_step_outcome(t)
  PROVE  /\ op[t] \in Ops /\ op[t] \in created /\ Active(op[t])
         /\ step[t] \in Units(op[t]) /\ step[t] = operations[op[t]].next_group_index + 1
         /\ operations'[op[t]].next_group_index = step[t]
         /\ \E outcome \in UnitOutcome :
              operations'[op[t]].results = [operations[op[t]].results EXCEPT ![step[t]] = outcome]
         /\ operations'[op[t]].state = operations[op[t]].state
         /\ \A p \in Ops : p # op[t] => operations'[p] = operations[p]
         /\ created' = created
<1> DEFINE o == op[t]
           i == step[t]
<1>1. /\ pc[t] = "apply" /\ o \in Ops /\ o \in created /\ Active(o)
      /\ operations[o] \in StoredOperation(o)
  BY RunnerFacts DEF apply_operation_step_outcome, Running, Inv
<1>2. PICK outcome \in UnitOutcome :
        operations' = [operations EXCEPT ![o].results[i] = outcome,
                                         ![o].next_group_index = @ + 1]
  BY <1>1 DEF apply_operation_step_outcome, Active
<1>3. i \in Units(o) /\ i = operations[o].next_group_index + 1
  BY <1>1 DEF Inv, Progress, ProgressOf
<1> DEFINE before == operations[o]
           results == [before.results EXCEPT ![i] = outcome]
<1>4. operations' = [operations EXCEPT ![o] =
                       [before EXCEPT !.results = results, !.next_group_index = @ + 1]]
  BY <1>1, <1>2 DEF Inv, ControlInv, TypeOK, StoredOperation
<1>5. before \in StoredOperation(o) /\ operations = [p \in Ops |-> operations[p]]
  BY <1>1 DEF Inv, ControlInv, TypeOK
<1>6. operations'[o].results = results
  BY <1>1, <1>4, <1>5 DEF StoredOperation
<1> HIDE DEF results
<1>7. operations'[o] = [before EXCEPT !.results = results, !.next_group_index = @ + 1]
      /\ \A p \in Ops : p # o => operations'[p] = operations[p]
  BY <1>1, <1>4, <1>5
<1>8. operations'[o].next_group_index = i /\ operations'[o].state = before.state
  BY <1>3, <1>5, <1>7 DEF StoredOperation
<1>9. created' = created
  BY DEF apply_operation_step_outcome
<1> QED BY <1>1, <1>3, <1>6, <1>7, <1>8, <1>9 DEF results

LEMMA ApplyRetention ==
  ASSUME FullInv, NEW t \in Tasks, apply_operation_step_outcome(t)
  PROVE  Retention'
<1>1. Inv
  BY DEF FullInv
<1>2. \A p \in Ops : is_terminal(p)' <=> is_terminal(p)
  BY <1>1, ApplyWrites DEF is_terminal
<1>3. UnitsOf[op[t]] \in Nat /\ step[t] <= UnitsOf[op[t]]
  BY <1>1, ApplyWrites, InputTypes DEF Units
<1>4. \A p \in Ops : /\ operations'[p].next_group_index <= UnitsOf[p]
                     /\ ~is_present(p)' => operations'[p].next_group_index = 0
  BY <1>1, <1>3, ApplyWrites DEF FullInv, Retention, is_present, Active
<1>5. IsFiniteSet(created') /\ CompletedBounded'
  BY <1>1, <1>2, ApplyWrites DEF FullInv, Retention, CompletedBounded
<1> QED BY <1>4, <1>5 DEF Retention

-----------------------------------------------------------------------------
LEMMA InitFull == Init => FullInv
<1> SUFFICES ASSUME Init PROVE FullInv
  OBVIOUS
<1>1. Inv
  BY InitLedger
<1>2. IsFiniteSet(created)
  BY FS_EmptySet DEF Init
<1>3. \A o \in Ops : operations[o].next_group_index = 0 /\ 0 <= UnitsOf[o]
  BY InputTypes DEF Init, Absent
<1>4. CompletedBounded
  <2>1. {o \in Ops : is_terminal(o)} = {}
    BY AbsentType DEF Init, is_terminal, Terminal
  <2> QED BY <2>1, FS_EmptySet, EntriesAssumption DEF CompletedBounded
<1> QED BY <1>1, <1>2, <1>3, <1>4 DEF FullInv, Retention

\* The steps that set no result, finish nothing and create nothing.
LEMMA QuietActions ==
  ASSUME Inv, [Next]_vars,
         \A t \in Tasks : ~finalize_operation(t) /\ ~apply_operation_step_outcome(t),
         \A t \in Requests, o \in Ops : ~start_write_operation(t, o)
  PROVE  created' = created /\ \A o \in Ops : SameRecord(o)
<1> USE DEF Inv
<1>1. ASSUME NEW t \in Tasks, RunStep(t)
      PROVE  created' = created /\ \A o \in Ops : SameRecord(o)
  <2>1. CASE BeginIteration(t)
    BY <2>1, BeginRecords DEF BeginIteration
  <2>2. CASE operations' = operations /\ created' = created
    BY <2>2 DEF SameRecord, Active, is_present, is_terminal
  <2> QED BY <1>1, <2>1, <2>2 DEF RunStep, AcquireGuard, operation_cancel_requested,
                                  execute_operation_step
<1>2. ASSUME NEW t \in Workers, clear_operation_worker_started(t)
      PROVE  created' = created /\ \A o \in Ops : SameRecord(o)
  BY <1>2, ClearRecords DEF clear_operation_worker_started, KeepsRecords
<1>3. ASSUME NEW t \in Requests, ensure_operation_worker_running(t)
      PROVE  created' = created /\ \A o \in Ops : SameRecord(o)
  BY <1>3, EnsureRecords DEF ensure_operation_worker_running, KeepsRecords, Tasks
<1>4. ASSUME NEW t \in Requests, NEW o \in Ops, get_operation(t, o) \/ cancel_operation(t, o)
      PROVE  created' = created /\ \A p \in Ops : SameRecord(p)
  BY <1>4, PollRecords DEF get_operation, cancel_operation, KeepsRecords, Tasks
<1>5. ASSUME NEW t \in Requests,
             DeadlinePasses(t) \/ DeadlineReached(t) \/ operation_response(t)
      PROVE  created' = created /\ \A p \in Ops : SameRecord(p)
  BY <1>5 DEF DeadlinePasses, DeadlineReached, operation_response, SameRecord, Active,
              is_present, is_terminal
<1>6. CASE UNCHANGED vars
  BY <1>6 DEF SameRecord, Active, is_present, is_terminal
<1> QED BY <1>1, <1>2, <1>3, <1>4, <1>5, <1>6 DEF Next

LEMMA NextFull == FullInv /\ [Next]_vars => FullInv'
<1> SUFFICES ASSUME FullInv, [Next]_vars PROVE FullInv'
  OBVIOUS
<1>1. Inv'
  BY NextLedger DEF FullInv
<1>2. Retention'
  <2>1. CASE \E t \in Tasks : finalize_operation(t)
    BY <1>1, <2>1, FinalizeRetention DEF Inv
  <2>2. CASE \E t \in Tasks : apply_operation_step_outcome(t)
    BY <2>2, ApplyRetention
  <2>3. CASE \E t \in Requests, o \in Ops : start_write_operation(t, o)
    BY <2>3, StartRetention DEF Tasks
  <2>4. CASE /\ \A t \in Tasks : ~finalize_operation(t) /\ ~apply_operation_step_outcome(t)
             /\ \A t \in Requests, o \in Ops : ~start_write_operation(t, o)
    <3>1. created' = created /\ \A o \in Ops : SameRecord(o)
      BY <2>4, QuietActions DEF FullInv
    <3> QED BY <1>1, <3>1, QuietRetention DEF Inv
  <2> QED BY <2>1, <2>2, <2>3, <2>4
<1> QED BY <1>1, <1>2 DEF FullInv

\* The inductive invariant, with the bound on what is kept.
THEOREM RetentionInvariant == Spec => []FullInv
BY InitFull, NextFull, PTL DEF Spec

\* The completed operations never exceed operation_max_entries, however many
\* finish at once: eviction, with every insertion, is enough.
THEOREM CompletedStaysBounded == Spec => []CompletedBounded
<1>1. FullInv => CompletedBounded
  BY DEF FullInv, Retention
<1> QED BY <1>1, RetentionInvariant, PTL

\* An operation is evicted only for others that did not finish before it: of
\* all the finished ones, the one just finishing included, it is the oldest.
THEOREM OldestEvictedFirst == Spec => EvictsOldestFirst
<1> DEFINE Step == \A o, p \in Ops :
                     /\ is_present(o) /\ operations'[o].state = "absent"
                     /\ operations'[p].state \in Terminal
                     => FinishTime(o) <= operations'[p].finished_at
<1>1. ASSUME FullInv, [Next]_vars PROVE Step
  <2> SUFFICES ASSUME NEW o \in Ops, NEW p \in Ops, is_present(o),
                      operations'[o].state = "absent", operations'[p].state \in Terminal
               PROVE  FinishTime(o) <= operations'[p].finished_at
    OBVIOUS
  <2> USE <1>1
  <2>1. CASE \E t \in Tasks : finalize_operation(t)
    <3>1. PICK t \in Tasks : finalize_operation(t)
      BY <2>1
    <3> DEFINE T == WithFinal(op[t])
    <3>2. /\ operations' = evict_completed_operations(T)
          /\ T[op[t]] = FinalEntry(op[t]) /\ FinalEntry(op[t]).state \in Terminal
          /\ FinalEntry(op[t]).finished_at = clock'
          /\ Active(op[t])
          /\ \A q \in Ops : q # op[t] => T[q] = operations[q]
      BY <3>1, FinalizeWrites DEF FullInv, Inv
    <3>3. /\ IsFiniteSet(Completed(T)) /\ Cardinality(Completed(T)) <= MaxEntries + 1
          /\ \A q \in Completed(T) : T[q].finished_at \in Nat
      BY <3>1, FinalizeCounts
    <3> HIDE DEF T
    <3>4. T[o].state # "absent"
      BY <3>2 DEF is_present, Terminal
    <3>5. o \in EvictedFrom(T)
      BY <3>2, <3>4 DEF evict_completed_operations
    <3>6. p \in Completed(T) /\ operations'[p] = T[p]
      BY <3>2, AbsentType DEF evict_completed_operations, Completed, Terminal
    <3>7. T[o].finished_at <= T[p].finished_at
      BY <3>3, <3>5, <3>6, EvictsTheOldest
    <3>8. FinishTime(o) = T[o].finished_at
      BY <3>2, <3>5 DEF FinishTime, Active, is_terminal, EvictedFrom, Completed
    <3> QED BY <3>6, <3>7, <3>8
  <2>2. CASE \E t \in Tasks : apply_operation_step_outcome(t)
    BY <2>2, ApplyWrites DEF FullInv, Inv, is_present
  <2>3. CASE \E t \in Requests, q \in Ops : start_write_operation(t, q)
    <3>1. PICK t \in Requests, q \in Ops : start_write_operation(t, q)
      BY <2>3
    <3>2. /\ operations' = WithNew(q) /\ WithNew(q)[q] = [Absent(q) EXCEPT !.state = "pending"]
          /\ \A r \in Ops : r # q => WithNew(q)[r] = operations[r]
      BY <3>1, StartWrites DEF Tasks
    <3>3. [Absent(q) EXCEPT !.state = "pending"].state = "pending"
      BY DEF Absent
    <3> QED BY <3>2, <3>3 DEF is_present
  <2>4. CASE /\ \A t \in Tasks : ~finalize_operation(t) /\ ~apply_operation_step_outcome(t)
             /\ \A t \in Requests, q \in Ops : ~start_write_operation(t, q)
    <3>1. SameRecord(o)
      BY <2>4, QuietActions DEF FullInv
    <3> QED BY <3>1 DEF SameRecord, Active, is_present, is_terminal, Terminal
  <2> QED BY <2>1, <2>2, <2>3, <2>4
<1>2. FullInv /\ [Next]_vars => [Step]_vars
  BY <1>1
<1> QED BY <1>2, RetentionInvariant, PTL DEF Spec, EvictsOldestFirst

-----------------------------------------------------------------------------
(* The contract: each step of the engine is a step of OperationContract, or  *)
(* changes nothing the contract speaks of.                                   *)

LogOf(o) == SubSeq(operations[o].results, 1, operations[o].next_group_index)
AtServer == {"execute", "apply"}

-----------------------------------------------------------------------------
(* Steps of the contract, told by what happens to each operation.            *)

SamePhase(o) == PhaseOf(o)' = PhaseOf(o)
SameLog(o) == LogOf(o)' = LogOf(o)
SameFlight(o) == InFlight(o)' = InFlight(o)

LEMMA MapsToStutter ==
  ASSUME \A p \in Ops : SamePhase(p) /\ SameLog(p) /\ SameFlight(p)
  PROVE  UNCHANGED Contract!contractVars
BY DEF Contract!contractVars, SamePhase, SameLog, SameFlight, LogOf

LEMMA MapsToAccept ==
  ASSUME NEW o \in Ops, PhaseOf(o) = "none", PhaseOf(o)' = "active",
         \A p \in Ops : p # o => SamePhase(p),
         \A p \in Ops : SameLog(p) /\ SameFlight(p)
  PROVE  Contract!Accept(o)
BY DEF Contract!Accept, SamePhase, SameLog, SameFlight, LogOf

LEMMA MapsToCancel ==
  ASSUME NEW o \in Ops, PhaseOf(o) = "active", PhaseOf(o)' = "canceling",
         \A p \in Ops : p # o => SamePhase(p),
         \A p \in Ops : SameLog(p) /\ SameFlight(p)
  PROVE  Contract!Cancel(o)
BY DEF Contract!Cancel, SamePhase, SameLog, SameFlight, LogOf

LEMMA MapsToBeginUnit ==
  ASSUME NEW o \in Ops, PhaseOf(o) = "active", Len(LogOf(o)) < UnitsOf[o],
         \A p \in Ops : AccountOf[p] = AccountOf[o] => ~InFlight(p),
         InFlight(o)' = TRUE,
         \A p \in Ops : p # o => SameFlight(p),
         \A p \in Ops : SamePhase(p) /\ SameLog(p)
  PROVE  Contract!BeginUnit(o)
BY DEF Contract!BeginUnit, SamePhase, SameLog, SameFlight, LogOf

LEMMA MapsToEndUnit ==
  ASSUME NEW o \in Ops, InFlight(o), InFlight(o)' = FALSE,
         NEW outcome \in UnitOutcome, LogOf(o)' = Append(LogOf(o), outcome),
         \A p \in Ops : p # o => SameFlight(p) /\ SameLog(p),
         \A p \in Ops : SamePhase(p)
  PROVE  Contract!EndUnit(o)
BY DEF Contract!EndUnit, Contract!Outcomes, UnitOutcome, SamePhase, SameLog, SameFlight, LogOf

PhaseWhenFinished(o, verdict, p) == IF p = o THEN verdict ELSE PhaseOf(p)

LEMMA OneCardinality == \A S : Contract!Cardinality(S) = Cardinality(S)
BY DEF Contract!Cardinality, Cardinality, Contract!IsFiniteSet, IsFiniteSet

LEMMA MapsToFinish ==
  ASSUME NEW o \in Ops, ~InFlight(o),
         PhaseOf(o) = "canceling" \/ (PhaseOf(o) = "active" /\ Len(LogOf(o)) = UnitsOf[o]),
         NEW verdict,
         verdict = IF PhaseOf(o) = "canceling" THEN "canceled" ELSE Contract!Verdict(LogOf(o)),
         NEW done,
         done = {p \in Ops : PhaseWhenFinished(o, verdict, p) \in Terminal},
         NEW forgotten \in SUBSET done,
         Cardinality(done \ forgotten) <= MaxEntries,
         forgotten # {} => Cardinality(done \ forgotten) = MaxEntries,
         \A p \in Ops : PhaseOf(p)' = IF p \in forgotten THEN "forgotten"
                                      ELSE PhaseWhenFinished(o, verdict, p),
         \A p \in Ops : LogOf(p)' = IF p \in forgotten THEN <<>> ELSE LogOf(p),
         \A p \in Ops : SameFlight(p)
  PROVE  Contract!Finish(o)
<1> DEFINE phase == [p \in Ops |-> PhaseOf(p)]
           log == [p \in Ops |-> SubSeq(operations[p].results, 1, operations[p].next_group_index)]
           inflight == [p \in Ops |-> InFlight(p)]
           finishes == [phase EXCEPT ![o] =
                          IF @ = "canceling" THEN "canceled" ELSE Contract!Verdict(log[o])]
<1>1. finishes = [p \in Ops |-> PhaseWhenFinished(o, verdict, p)]
  BY DEF PhaseWhenFinished, LogOf
<1>2. done = {p \in Ops : finishes[p] \in Contract!Finished}
  BY <1>1 DEF Contract!Finished, Terminal
<1>3. /\ phase' = [p \in Ops |-> IF p \in forgotten THEN "forgotten" ELSE finishes[p]]
      /\ log' = [p \in Ops |-> IF p \in forgotten THEN <<>> ELSE log[p]]
      /\ inflight' = inflight
  BY <1>1 DEF SameFlight, LogOf
<1>4. /\ ~inflight[o]
      /\ phase[o] = "canceling" \/ (phase[o] = "active" /\ Len(log[o]) = UnitsOf[o])
  BY DEF LogOf
<1> HIDE DEF finishes, phase, log, inflight
<1>5. \E f \in SUBSET {p \in Ops : finishes[p] \in Contract!Finished} :
        /\ Contract!Cardinality({p \in Ops : finishes[p] \in Contract!Finished} \ f) <= MaxEntries
        /\ f # {} => Contract!Cardinality({p \in Ops : finishes[p] \in Contract!Finished} \ f)
                       = MaxEntries
        /\ phase' = [p \in Ops |-> IF p \in f THEN "forgotten" ELSE finishes[p]]
        /\ log' = [p \in Ops |-> IF p \in f THEN <<>> ELSE log[p]]
  BY <1>2, <1>3, OneCardinality
<1> QED BY <1>3, <1>4, <1>5, Zenon DEF Contract!Finish, finishes, phase, log, inflight

-----------------------------------------------------------------------------
(* What the steps of the engine do to phases, logs and units in flight.      *)

\* A run's log, entry by entry.
LEMMA LogEntries ==
  ASSUME NEW results, NEW n \in Nat, NEW index \in Nat, index <= n,
         \A i \in 1..n : results[i] \in UnitResult
  PROVE  /\ SubSeq(results, 1, index) \in Seq(UnitResult)
         /\ Len(SubSeq(results, 1, index)) = index
         /\ \A i \in 1..index : SubSeq(results, 1, index)[i] = results[i]
<1>1. \A i \in 1..index : results[i] \in UnitResult
  OBVIOUS
<1>2. /\ SubSeq(results, 1, index) \in Seq(UnitResult)
      /\ Len(SubSeq(results, 1, index)) = IF 1 <= index THEN index - 1 + 1 ELSE 0
      /\ \A i \in 1..(index - 1 + 1) : SubSeq(results, 1, index)[i] = results[1 + i - 1]
  BY <1>1, SubSeqProperties
<1> QED BY <1>2

LEMMA LogFacts ==
  ASSUME FullInv, NEW o \in Ops
  PROVE  /\ LogOf(o) \in Seq(UnitResult)
         /\ Len(LogOf(o)) = operations[o].next_group_index
         /\ \A i \in 1..operations[o].next_group_index : LogOf(o)[i] = operations[o].results[i]
<1>1. /\ operations[o] \in StoredOperation(o) /\ UnitsOf[o] \in Nat
      /\ operations[o].next_group_index <= UnitsOf[o]
  BY InputTypes DEF FullInv, Inv, ControlInv, TypeOK, Retention
<1>2. /\ operations[o].next_group_index \in Nat
      /\ \A i \in 1..UnitsOf[o] : operations[o].results[i] \in UnitResult
  BY <1>1 DEF StoredOperation, Units
<1> QED BY <1>1, <1>2, LogEntries DEF LogOf

\* Two logs are the same if they have the same entries.
LEMMA LogFactsNext ==
  ASSUME FullInv', NEW o \in Ops
  PROVE  /\ LogOf(o)' \in Seq(UnitResult)
         /\ Len(LogOf(o)') = operations'[o].next_group_index
         /\ \A i \in 1..operations'[o].next_group_index : LogOf(o)'[i] = operations'[o].results[i]
<1>1. /\ operations'[o] \in StoredOperation(o) /\ UnitsOf[o] \in Nat
      /\ operations'[o].next_group_index <= UnitsOf[o]
  BY InputTypes DEF FullInv, Inv, ControlInv, TypeOK, Retention
<1>2. /\ operations'[o].next_group_index \in Nat
      /\ \A i \in 1..UnitsOf[o] : operations'[o].results[i] \in UnitResult
  BY <1>1 DEF StoredOperation, Units
<1> QED BY <1>1, <1>2, LogEntries DEF LogOf

LEMMA SameLogs ==
  ASSUME FullInv, FullInv', NEW o \in Ops,
         operations'[o].next_group_index = operations[o].next_group_index,
         \A i \in 1..operations[o].next_group_index :
           operations'[o].results[i] = operations[o].results[i]
  PROVE  SameLog(o)
<1>1. /\ LogOf(o) \in Seq(UnitResult)
      /\ Len(LogOf(o)) = operations[o].next_group_index
      /\ \A i \in 1..operations[o].next_group_index : LogOf(o)[i] = operations[o].results[i]
  BY LogFacts
<1>2. /\ LogOf(o)' \in Seq(UnitResult)
      /\ Len(LogOf(o)') = operations[o].next_group_index
      /\ \A i \in 1..operations[o].next_group_index : LogOf(o)'[i] = operations[o].results[i]
  BY LogFactsNext
<1> QED BY <1>1, <1>2, SeqEqual DEF SameLog

\* A step that sets no result keeps the logs, one that changes no state keeps
\* the phases.
LEMMA KeptLog ==
  ASSUME NEW o \in Ops, SameRecord(o)
  PROVE  SameLog(o)
BY DEF SameRecord, SameLog, LogOf

LEMMA KeptPhase ==
  ASSUME NEW o \in Ops, o \in created' <=> o \in created,
         operations'[o].state = operations[o].state
  PROVE  SamePhase(o)
BY DEF SamePhase, PhaseOf, is_present

\* No unit reaches or leaves the server when no task comes or goes there.
LEMMA KeptFlight ==
  ASSUME \A u \in Tasks : pc'[u] \in AtServer <=> pc[u] \in AtServer,
         \A u \in Tasks : pc[u] \in AtServer => op'[u] = op[u]
  PROVE  \A o \in Ops : SameFlight(o)
BY DEF SameFlight, InFlight, AtServer

-----------------------------------------------------------------------------
(* The steps, one by one.                                                    *)

ContractStep == Contract!Next \/ UNCHANGED Contract!contractVars

LEMMA BeginContract ==
  ASSUME FullInv, NEW t \in Tasks, BeginIteration(t)
  PROVE  ContractStep
<1>1. /\ created' = created /\ op' = op
      /\ \A u \in Tasks : pc'[u] \in AtServer <=> pc[u] \in AtServer
  <2>1. Active(op[t])
    BY RunnerFacts DEF BeginIteration, Running, FullInv, Inv
  <2> QED BY <2>1 DEF BeginIteration, Active, AtServer, FullInv, Inv, ControlInv, TypeOK
<1>2. ASSUME NEW p \in Ops PROVE SameLog(p) /\ SamePhase(p)
  <2>1. SameRecord(p) /\ (\/ operations'[p].state = operations[p].state
                          \/ /\ operations[p].state \in {"pending", "running"}
                             /\ operations'[p].state = "running")
    BY BeginRecords DEF FullInv, Inv
  <2>2. operations[p].state \in {"pending", "running"} /\ operations'[p].state = "running"
          => SamePhase(p)
    BY <1>1 DEF SamePhase, PhaseOf, is_present
  <2> QED BY <2>1, <2>2, <1>1, KeptLog, KeptPhase
<1> QED BY <1>1, <1>2, KeptFlight, MapsToStutter DEF ContractStep

LEMMA AcquireContract ==
  ASSUME FullInv, NEW t \in Tasks, AcquireGuard(t)
  PROVE  ContractStep
<1>1. /\ UNCHANGED <<operations, created, op>>
      /\ \A u \in Tasks : pc'[u] \in AtServer <=> pc[u] \in AtServer
  BY DEF AcquireGuard, AtServer, FullInv, Inv, ControlInv, TypeOK
<1>2. \A p \in Ops : SameLog(p) /\ SamePhase(p)
  BY <1>1, KeptPhase DEF SameLog, LogOf
<1> QED BY <1>1, <1>2, KeptFlight, MapsToStutter DEF ContractStep

\* Past the check for a cancellation, the unit is as good as sent.
LEMMA CheckContract ==
  ASSUME FullInv, NEW t \in Tasks, operation_cancel_requested(t)
  PROVE  ContractStep
<1>0. PICK o \in Ops : o = op[t]
  BY RunnerFacts DEF operation_cancel_requested, Running, FullInv, Inv
<1>1. /\ pc[t] = "check" /\ pc[t] \in Running /\ o \in created /\ Active(o)
      /\ operations[o] \in StoredOperation(o)
  BY <1>0, RunnerFacts DEF operation_cancel_requested, Running, FullInv, Inv
<1>2. /\ pc'[t] = IF operations[o].state = "cancel_requested" THEN "finalize_guarded" ELSE "execute"
      /\ \A u \in Tasks : u # t => pc'[u] = pc[u]
      /\ UNCHANGED <<operations, created, op>>
  BY <1>0, <1>1 DEF operation_cancel_requested, Active, FullInv, Inv, ControlInv, TypeOK
<1>3. \A p \in Ops : SameLog(p) /\ SamePhase(p)
  BY <1>2, KeptPhase DEF SameLog, LogOf
<1>4. CASE operations[o].state = "cancel_requested"
  <2>1. \A u \in Tasks : pc'[u] \in AtServer <=> pc[u] \in AtServer
    BY <1>1, <1>2, <1>4 DEF AtServer
  <2> QED BY <2>1, <1>2, <1>3, KeptFlight, MapsToStutter DEF ContractStep
<1>5. CASE operations[o].state # "cancel_requested"
  <2>1. PhaseOf(o) = "active"
    BY <1>1, <1>5 DEF PhaseOf, Active, is_present, is_terminal, StoredOperation, OperationState
  <2>2. Len(LogOf(o)) < UnitsOf[o]
    <3>1. step[t] \in Units(o) /\ step[t] = operations[o].next_group_index + 1
      BY <1>0, <1>1 DEF FullInv, Inv, Progress, ProgressOf
    <3>2. UnitsOf[o] \in Nat /\ operations[o].next_group_index \in Nat
      BY <1>1, InputTypes DEF StoredOperation
    <3> QED BY <3>1, <3>2, <1>1, LogFacts DEF Units
  <2>3. ASSUME NEW p \in Ops, AccountOf[p] = AccountOf[o] PROVE ~InFlight(p)
    <3> SUFFICES ASSUME NEW u \in Tasks, pc[u] \in AtServer, op[u] = p PROVE FALSE
      BY DEF InFlight, AtServer
    <3>1. account_write_locks[AccountOf[o]] = u /\ account_write_locks[AccountOf[o]] = t
      BY <2>3, <1>0, <1>1 DEF FullInv, Inv, ControlInv, GuardHeld, Guarded, AtServer
    <3> QED BY <3>1, <1>1 DEF AtServer
  <2>4. InFlight(o)' = TRUE
    BY <1>0, <1>2, <1>5 DEF InFlight
  <2>5. \A p \in Ops : p # o => SameFlight(p)
    BY <1>0, <1>1, <1>2 DEF SameFlight, InFlight
  <2>6. Contract!BeginUnit(o)
    BY <1>1, <1>3, <2>1, <2>2, <2>3, <2>4, <2>5, MapsToBeginUnit
  <2> QED BY <2>6, <1>1 DEF ContractStep, Contract!Next
<1> QED BY <1>4, <1>5

LEMMA ExecuteContract ==
  ASSUME FullInv, NEW t \in Tasks, execute_operation_step(t)
  PROVE  ContractStep
<1>1. /\ UNCHANGED <<operations, created, op>>
      /\ \A u \in Tasks : pc'[u] \in AtServer <=> pc[u] \in AtServer
  BY DEF execute_operation_step, AtServer, FullInv, Inv, ControlInv, TypeOK
<1>2. \A p \in Ops : SameLog(p) /\ SamePhase(p)
  BY <1>1, KeptPhase DEF SameLog, LogOf
<1> QED BY <1>1, <1>2, KeptFlight, MapsToStutter DEF ContractStep

\* Recording the outcome appends it to the log and ends the unit.
LEMMA ApplyContract ==
  ASSUME FullInv, FullInv', NEW t \in Tasks, apply_operation_step_outcome(t)
  PROVE  ContractStep
<1>0. PICK o \in Ops : o = op[t]
  BY ApplyWrites DEF FullInv, Inv
<1> DEFINE i == step[t]
           n == operations[o].next_group_index
<1>1. PICK outcome \in UnitOutcome :
        /\ o \in created /\ Active(o)
        /\ i \in Units(o) /\ i = n + 1
        /\ operations'[o].next_group_index = i
        /\ operations'[o].results = [operations[o].results EXCEPT ![i] = outcome]
        /\ operations'[o].state = operations[o].state
        /\ \A p \in Ops : p # o => operations'[p] = operations[p]
        /\ created' = created
  BY <1>0, ApplyWrites DEF FullInv, Inv
<1>2. /\ pc[t] = "apply" /\ pc'[t] = "loop" /\ op' = op
      /\ \A u \in Tasks : u # t => pc'[u] = pc[u]
  BY <1>0, <1>1 DEF apply_operation_step_outcome, Active, FullInv, Inv, ControlInv, TypeOK
<1>3. /\ operations[o].results \in [Units(o) -> UnitResult] /\ n \in Nat
      /\ UnitsOf[o] \in Nat
  BY <1>1, InputTypes DEF FullInv, Inv, ControlInv, TypeOK, StoredOperation
<1>4. LogOf(o)' = Append(LogOf(o), outcome)
  <2>1. /\ LogOf(o) \in Seq(UnitResult) /\ Len(LogOf(o)) = n
        /\ \A j \in 1..n : LogOf(o)[j] = operations[o].results[j]
    BY <1>1, LogFacts
  <2>2. /\ LogOf(o)' \in Seq(UnitResult) /\ Len(LogOf(o)') = n + 1
        /\ \A j \in 1..(n + 1) : LogOf(o)'[j] = operations'[o].results[j]
    <3>1. /\ LogOf(o)' \in Seq(UnitResult) /\ Len(LogOf(o)') = operations'[o].next_group_index
          /\ \A j \in 1..operations'[o].next_group_index : LogOf(o)'[j] = operations'[o].results[j]
      BY LogFactsNext
    <3>2. operations'[o].next_group_index = n + 1
      BY <1>1
    <3> QED BY <3>1, <3>2
  <2>3. \A j \in 1..(n + 1) :
          operations'[o].results[j] = IF j = n + 1 THEN outcome ELSE operations[o].results[j]
    BY <1>1, <1>3 DEF Units
  <2>4. outcome \in UnitResult
    BY DEF UnitResult
  <2>5. /\ Append(LogOf(o), outcome) \in Seq(UnitResult)
        /\ Len(Append(LogOf(o), outcome)) = n + 1
        /\ \A j \in 1..n : Append(LogOf(o), outcome)[j] = LogOf(o)[j]
        /\ Append(LogOf(o), outcome)[n + 1] = outcome
    BY <2>1, <2>4, <1>3, AppendProperties
  <2>6. \A j \in 1..(n + 1) : LogOf(o)'[j] = Append(LogOf(o), outcome)[j]
    <3> SUFFICES ASSUME NEW j \in 1..(n + 1) PROVE LogOf(o)'[j] = Append(LogOf(o), outcome)[j]
      OBVIOUS
    <3>0. j = n + 1 \/ j \in 1..n
      BY <1>3
    <3> HIDE DEF n
    <3>1. CASE j = n + 1
      BY <2>2, <2>3, <2>5, <3>1
    <3>2. CASE j \in 1..n
      <4>1. LogOf(o)'[j] = operations'[o].results[j] /\ operations'[o].results[j] = operations[o].results[j]
        BY <2>2, <2>3, <3>2, <1>3
      <4> QED BY <2>1, <2>5, <3>2, <4>1
    <3> QED BY <3>0, <3>1, <3>2
  <2> QED BY <2>2, <2>5, <2>6, SeqEqual
<1>5. \A u \in Tasks : u # t => ~(pc[u] \in AtServer /\ op[u] = o)
  BY <1>0, <1>2 DEF FullInv, Inv, ControlInv, AtMostOneRunner, Runs, Running, AtServer,
     TaskShape, TypeOK
<1>6. InFlight(o) /\ InFlight(o)' = FALSE
  BY <1>0, <1>2, <1>5 DEF InFlight, AtServer
<1>7. \A p \in Ops : p # o => SameFlight(p) /\ SameLog(p)
  BY <1>0, <1>1, <1>2 DEF SameFlight, InFlight, SameLog, LogOf
<1>8. \A p \in Ops : SamePhase(p)
  BY <1>1, KeptPhase
<1>9. Contract!EndUnit(o)
  BY <1>1, <1>4, <1>6, <1>7, <1>8, MapsToEndUnit
<1> QED BY <1>1, <1>9 DEF ContractStep, Contract!Next

\* The verdict of a log of all results is the state that finalize_operation
\* computes from them.
LEMMA VerdictIsStatus ==
  ASSUME NEW n \in Nat, NEW results \in [1..n -> UnitOutcome], NEW log,
         DOMAIN log = 1..n, \A i \in 1..n : log[i] = results[i]
  PROVE  Contract!Verdict(log) = operation_result_status(results)
BY DEF Contract!Verdict, operation_result_status, UnitOutcome

\* With no unit left, nothing is reported as canceled.
LEMMA FinalVerdict ==
  ASSUME FullInv, NEW o \in Ops, Active(o), operations[o].state # "cancel_requested",
         operations[o].next_group_index >= UnitsOf[o]
  PROVE  /\ Len(LogOf(o)) = UnitsOf[o]
         /\ Contract!Verdict(LogOf(o)) = operation_result_status(FinalResults(o))
<1>1. /\ operations[o].next_group_index = UnitsOf[o] /\ UnitsOf[o] \in Nat
      /\ Units(o) = 1..UnitsOf[o]
  BY InputTypes DEF FullInv, Inv, ControlInv, TypeOK, StoredOperation, Retention, Units
<1>2. \A i \in Units(o) : operations[o].results[i] \in UnitOutcome
  BY <1>1 DEF FullInv, Inv, Ledger
<1>3. FinalResults(o) \in [1..UnitsOf[o] -> UnitOutcome]
      /\ \A i \in Units(o) : FinalResults(o)[i] = operations[o].results[i]
  BY <1>1, <1>2 DEF FinalResults
<1>4. /\ LogOf(o) \in Seq(UnitResult) /\ Len(LogOf(o)) = UnitsOf[o]
      /\ \A i \in 1..UnitsOf[o] : LogOf(o)[i] = operations[o].results[i]
  BY <1>1, LogFacts
<1>5. DOMAIN LogOf(o) = 1..UnitsOf[o]
  BY <1>4, LenProperties
<1>6. Contract!Verdict(LogOf(o)) = operation_result_status(FinalResults(o))
  BY <1>1, <1>3, <1>4, <1>5, VerdictIsStatus
<1> QED BY <1>4, <1>6

LEMMA FinalizeContract ==
  ASSUME FullInv, FullInv', NEW t \in Tasks, finalize_operation(t)
  PROVE  ContractStep
<1>0. PICK o \in Ops : o = op[t]
  BY FinalizeWrites DEF FullInv, Inv
<1> DEFINE n == operations[o].next_group_index
           canceled == operations[o].state = "cancel_requested"
<1>a. PICK T : T = WithFinal(o)
  OBVIOUS
<1>1. /\ o \in created /\ Active(o) /\ created' = created
      /\ operations' = evict_completed_operations(T)
      /\ T[o].state = IF canceled THEN "canceled" ELSE operation_result_status(FinalResults(o))
      /\ T[o].state \in Terminal
      /\ T[o].results = FinalResults(o)
      /\ T[o].next_group_index = n
      /\ \A p \in Ops : p # o => T[p] = operations[p]
  BY <1>0, <1>a, FinalizeWrites DEF FullInv, Inv
<1>2. /\ pc[t] \in {"finalize", "finalize_guarded"} /\ pc'[t] \notin AtServer /\ op' = op
      /\ \A u \in Tasks : u # t => pc'[u] = pc[u]
  BY <1>0, <1>1 DEF finalize_operation, Active, AtServer, AfterRun, FullInv, Inv, ControlInv, TypeOK
<1>3. \A p \in Ops : SameFlight(p)
  <2>1. \A u \in Tasks : pc'[u] \in AtServer <=> pc[u] \in AtServer
    BY <1>2 DEF AtServer
  <2> QED BY <1>2, <2>1, KeptFlight
<1>4. ~InFlight(o)
  BY <1>0, <1>2 DEF InFlight, FullInv, Inv, ControlInv, AtMostOneRunner, Runs, Running
<1>5. canceled \/ n >= UnitsOf[o]
  BY <1>0, <1>2 DEF FullInv, Inv, Progress, ProgressOf
<1>6. /\ canceled => PhaseOf(o) = "canceling"
      /\ ~canceled => PhaseOf(o) = "active" /\ Len(LogOf(o)) = UnitsOf[o]
                      /\ Contract!Verdict(LogOf(o)) = operation_result_status(FinalResults(o))
  <2>1. operations[o] \in StoredOperation(o)
    BY DEF FullInv, Inv, ControlInv, TypeOK
  <2> QED BY <2>1, <1>1, <1>5, FinalVerdict
          DEF PhaseOf, Active, is_present, is_terminal, StoredOperation, OperationState
<1> DEFINE verdict == T[o].state
           forgotten == EvictedFrom(T)
<1>7. verdict = IF PhaseOf(o) = "canceling" THEN "canceled" ELSE Contract!Verdict(LogOf(o))
  BY <1>1, <1>6
<1>8. Completed(T) = {p \in Ops : PhaseWhenFinished(o, verdict, p) \in Terminal}
  <2>1. ASSUME NEW p \in Ops, p # o
        PROVE  T[p].state \in Terminal <=> PhaseOf(p) \in Terminal
    <3>1. T[p] = operations[p]
      BY <2>1, <1>1
    <3>2. p \notin created => operations[p].state = "absent"
      BY DEF FullInv, Inv, ControlInv, is_present
    <3> QED BY <3>1, <3>2 DEF PhaseOf, is_present, Terminal
  <2> QED BY <2>1, <1>1 DEF Completed, PhaseWhenFinished
<1>9. /\ IsFiniteSet(Completed(T)) /\ Cardinality(Completed(T)) <= MaxEntries + 1
      /\ \A p \in Completed(T) : T[p].finished_at \in Nat
  BY <1>0, <1>a, FinalizeCounts
<1>10. /\ forgotten \in SUBSET Completed(T)
       /\ Cardinality(Completed(T) \ forgotten) <= MaxEntries
       /\ forgotten # {} => Cardinality(Completed(T) \ forgotten) = MaxEntries
  <2>1. CASE forgotten = {} /\ Cardinality(Completed(T)) <= MaxEntries
    BY <2>1
  <2>2. CASE /\ Cardinality(Completed(T)) = MaxEntries + 1
             /\ \E m \in Completed(T) : forgotten = {m}
    <3>1. PICK m \in Completed(T) : forgotten = {m}
      BY <2>2
    <3>2. Cardinality(Completed(T) \ {m}) = Cardinality(Completed(T)) - 1
      BY <1>9, FS_RemoveElement
    <3> QED BY <2>2, <3>1, <3>2, EntriesAssumption
  <2> QED BY <1>9, <2>1, <2>2, EvictsTheOldest
<1>11. \A p \in Ops : PhaseOf(p)' = IF p \in forgotten THEN "forgotten"
                                    ELSE PhaseWhenFinished(o, verdict, p)
  <2> SUFFICES ASSUME NEW p \in Ops
               PROVE  PhaseOf(p)' = IF p \in forgotten THEN "forgotten"
                                    ELSE PhaseWhenFinished(o, verdict, p)
    OBVIOUS
  <2>1. CASE p \in forgotten
    <3>1. operations'[p].state = "absent"
      BY <2>1, <1>1, AbsentType DEF evict_completed_operations
    <3>2. p \in created
      BY <2>1, <1>1 DEF EvictedFrom, Completed, Terminal, FullInv, Inv, ControlInv, is_present
    <3> QED BY <2>1, <3>1, <3>2, <1>1 DEF PhaseOf, is_present
  <2>2. CASE p \notin forgotten
    <3>1. operations'[p] = T[p]
      BY <2>2, <1>1 DEF evict_completed_operations
    <3>2. CASE p = o
      BY <2>2, <3>1, <3>2, <1>1 DEF PhaseOf, PhaseWhenFinished, is_present, Terminal
    <3>3. CASE p # o
      BY <2>2, <3>1, <3>3, <1>1, KeptPhase DEF PhaseWhenFinished, SamePhase
    <3> QED BY <3>2, <3>3
  <2> QED BY <2>1, <2>2
<1>12. \A p \in Ops : LogOf(p)' = IF p \in forgotten THEN <<>> ELSE LogOf(p)
  <2> SUFFICES ASSUME NEW p \in Ops
               PROVE  LogOf(p)' = IF p \in forgotten THEN <<>> ELSE LogOf(p)
    OBVIOUS
  <2>1. CASE p \in forgotten
    <3>1. operations'[p].next_group_index = 0
      BY <2>1, <1>1 DEF evict_completed_operations, Absent
    <3> QED BY <2>1, <3>1, SubSeqEmpty DEF LogOf
  <2>2. CASE p \notin forgotten
    <3>1. operations'[p] = T[p]
      BY <2>2, <1>1 DEF evict_completed_operations
    <3>2. CASE p = o
      <4>1. \A i \in 1..n : FinalResults(o)[i] = operations[o].results[i]
        BY InputTypes DEF FinalResults, Remaining, Units, FullInv, Inv, ControlInv, TypeOK,
                          StoredOperation, Retention
      <4> QED BY <2>2, <3>1, <3>2, <4>1, <1>1, SameLogs DEF SameLog
    <3>3. CASE p # o
      BY <2>2, <3>1, <3>3, <1>1 DEF LogOf
    <3> QED BY <3>2, <3>3
  <2> QED BY <2>1, <2>2
<1> HIDE DEF canceled, n, verdict, forgotten
<1>13. Contract!Finish(o)
  <2>1. PICK v : v = verdict
    OBVIOUS
  <2>2. PICK d : d = Completed(T)
    OBVIOUS
  <2>3. PICK f \in SUBSET d : f = forgotten
    BY <1>10, <2>2
  <2>4. PhaseOf(o) = "canceling" \/ (PhaseOf(o) = "active" /\ Len(LogOf(o)) = UnitsOf[o])
    BY <1>6
  <2>5. v = IF PhaseOf(o) = "canceling" THEN "canceled" ELSE Contract!Verdict(LogOf(o))
    BY <1>7, <2>1
  <2>6. d = {p \in Ops : PhaseWhenFinished(o, v, p) \in Terminal}
    BY <1>8, <2>1, <2>2
  <2>7. Cardinality(d \ f) <= MaxEntries /\ (f # {} => Cardinality(d \ f) = MaxEntries)
    BY <1>10, <2>2, <2>3
  <2>8. /\ \A p \in Ops : PhaseOf(p)' = IF p \in f THEN "forgotten"
                                         ELSE PhaseWhenFinished(o, v, p)
        /\ \A p \in Ops : LogOf(p)' = IF p \in f THEN <<>> ELSE LogOf(p)
    BY <1>11, <1>12, <2>1, <2>3
  <2> QED BY <1>3, <1>4, <2>4, <2>5, <2>6, <2>7, <2>8, MapsToFinish
<1> QED BY <1>13 DEF ContractStep, Contract!Next

LEMMA StartContract ==
  ASSUME FullInv, NEW t \in Requests, NEW o \in Ops, start_write_operation(t, o)
  PROVE  ContractStep
<1>1. /\ o \notin created /\ created' = created \cup {o}
      /\ operations'[o] = [Absent(o) EXCEPT !.state = "pending"]
      /\ \A p \in Ops : p # o => operations'[p] = operations[p]
  BY StartWrites DEF Tasks
<1>2. operations'[o].state = "pending" /\ operations'[o].next_group_index = 0
  BY <1>1 DEF Absent
<1>3. PhaseOf(o) = "none" /\ PhaseOf(o)' = "active"
  <2>1. operations[o].state = "absent"
    BY <1>1 DEF FullInv, Inv, ControlInv, is_present
  <2> QED BY <1>1, <1>2, <2>1 DEF PhaseOf, is_present
<1>4. \A p \in Ops : p # o => SamePhase(p)
  BY <1>1, KeptPhase
<1>5. \A p \in Ops : SameLog(p)
  <2>1. LogOf(o) = <<>> /\ LogOf(o)' = <<>>
    <3>1. operations[o].next_group_index = 0
      BY <1>1 DEF FullInv, Inv, ControlInv, Retention
    <3> QED BY <3>1, <1>2, SubSeqEmpty DEF LogOf
  <2> QED BY <2>1, <1>1 DEF SameLog, LogOf
<1>6. \A p \in Ops : SameFlight(p)
  <2>1. /\ pc[t] = "idle" /\ pc'[t] = "loop"
        /\ \A u \in Tasks : u # t => pc'[u] = pc[u] /\ op'[u] = op[u]
    BY DEF start_write_operation, FullInv, Inv, ControlInv, TypeOK, Tasks
  <2> QED BY <2>1, KeptFlight DEF AtServer
<1>7. Contract!Accept(o)
  BY <1>3, <1>4, <1>5, <1>6, MapsToAccept
<1> QED BY <1>7 DEF ContractStep, Contract!Next

\* The requests and workers between runs: only a cancellation shows.
LEMMA CancelContract ==
  ASSUME FullInv, NEW t \in Requests, NEW o \in Ops, cancel_operation(t, o)
  PROVE  ContractStep
<1>1. /\ created' = created /\ is_present(o) /\ o \in created
      /\ operations' = IF is_terminal(o) THEN operations
                       ELSE [operations EXCEPT ![o].state = "cancel_requested"]
      /\ operations[o] \in StoredOperation(o)
  BY DEF cancel_operation, FullInv, Inv, ControlInv, TypeOK
<1>2. \A p \in Ops : SameLog(p)
  BY PollRecords, KeptLog DEF KeepsRecords, FullInv, Inv, Tasks
<1>3. \A p \in Ops : SameFlight(p)
  <2>1. /\ pc[t] = "idle" /\ pc'[t] = "ensure"
        /\ \A u \in Tasks : u # t => pc'[u] = pc[u] /\ op'[u] = op[u]
    BY DEF cancel_operation, FullInv, Inv, ControlInv, TypeOK, Tasks
  <2> QED BY <2>1, KeptFlight DEF AtServer
<1>4. \A p \in Ops : p # o => SamePhase(p)
  BY <1>1, KeptPhase DEF FullInv, Inv, ControlInv, TypeOK
<1>5. CASE is_terminal(o) \/ operations[o].state = "cancel_requested"
  <2>1. operations'[o].state = operations[o].state
    BY <1>1, <1>5 DEF FullInv, Inv, ControlInv, TypeOK, StoredOperation
  <2>2. SamePhase(o)
    BY <2>1, <1>1, KeptPhase
  <2> QED BY <2>2, <1>2, <1>3, <1>4, MapsToStutter DEF ContractStep
<1>6. CASE ~is_terminal(o) /\ operations[o].state # "cancel_requested"
  <2>1. operations'[o].state = "cancel_requested"
    BY <1>1, <1>6 DEF FullInv, Inv, ControlInv, TypeOK, StoredOperation
  <2>2. PhaseOf(o) = "active" /\ PhaseOf(o)' = "canceling"
    BY <1>1, <1>6, <2>1 DEF PhaseOf, is_present, is_terminal, StoredOperation, OperationState
  <2>3. Contract!Cancel(o)
    BY <2>2, <1>2, <1>3, <1>4, MapsToCancel
  <2> QED BY <2>3 DEF ContractStep, Contract!Next
<1> QED BY <1>5, <1>6

LEMMA QuietContract ==
  ASSUME created' = created,
         \A p \in Ops : SameRecord(p) /\ operations'[p].state = operations[p].state,
         \A u \in Tasks : \/ pc'[u] = pc[u] /\ op'[u] = op[u]
                          \/ pc[u] \notin AtServer /\ pc'[u] \notin AtServer
  PROVE  ContractStep
<1>1. \A p \in Ops : SameLog(p) /\ SamePhase(p)
  BY KeptLog, KeptPhase
<1>2. \A p \in Ops : SameFlight(p)
  BY KeptFlight
<1> QED BY <1>1, <1>2, MapsToStutter DEF ContractStep

LEMMA PollContract ==
  ASSUME FullInv, NEW t \in Requests,
         \/ DeadlinePasses(t) \/ DeadlineReached(t) \/ operation_response(t)
         \/ \E o \in Ops : get_operation(t, o)
  PROVE  ContractStep
<1>1. \A u \in Tasks : \/ pc'[u] = pc[u] /\ op'[u] = op[u]
                       \/ pc[u] \notin AtServer /\ pc'[u] \notin AtServer
  BY DEF DeadlinePasses, DeadlineReached, operation_response, Answer, get_operation, AtServer,
         FullInv, Inv, ControlInv, TypeOK, Tasks
<1>2. UNCHANGED <<operations, created>>
  BY DEF DeadlinePasses, DeadlineReached, operation_response, get_operation
<1>3. \A p \in Ops : SameRecord(p)
  BY <1>2 DEF SameRecord, Active, is_present, is_terminal
<1> QED BY <1>1, <1>2, <1>3, QuietContract DEF Tasks

LEMMA ClearContract ==
  ASSUME FullInv, NEW t \in Workers, clear_operation_worker_started(t)
  PROVE  ContractStep
<1>1. \A u \in Tasks : \/ pc'[u] = pc[u] /\ op'[u] = op[u]
                       \/ pc[u] \notin AtServer /\ pc'[u] \notin AtServer
  BY DEF clear_operation_worker_started, AtServer, FullInv, Inv, ControlInv, TypeOK, Tasks
<1>2. \A p \in Ops : operations'[p].state = operations[p].state
  BY DEF clear_operation_worker_started, FullInv, Inv, ControlInv, TypeOK, StoredOperation
<1>3. \A p \in Ops : SameRecord(p)
  BY ClearRecords DEF KeepsRecords, FullInv, Inv
<1> QED BY <1>1, <1>2, <1>3, QuietContract DEF clear_operation_worker_started, Tasks

LEMMA EnsureContract ==
  ASSUME FullInv, NEW t \in Requests, ensure_operation_worker_running(t)
  PROVE  ContractStep
<1>1. \A u \in Tasks : \/ pc'[u] = pc[u] /\ op'[u] = op[u]
                       \/ pc[u] \notin AtServer /\ pc'[u] \notin AtServer
  BY DEF ensure_operation_worker_running, Answer, AtServer, FullInv, Inv, ControlInv, TypeOK, Tasks
<1>2. \A p \in Ops : operations'[p].state = operations[p].state
  <2>1. CASE operations' = operations
    BY <2>1
  <2>2. CASE operations' = [operations EXCEPT ![op[t]].worker_started = TRUE]
    BY <2>2 DEF FullInv, Inv, ControlInv, TypeOK, StoredOperation
  <2> QED BY <2>1, <2>2 DEF ensure_operation_worker_running
<1>3. \A p \in Ops : SameRecord(p)
  BY EnsureRecords DEF KeepsRecords, FullInv, Inv, Tasks
<1> QED BY <1>1, <1>2, <1>3, QuietContract DEF ensure_operation_worker_running, Tasks

-----------------------------------------------------------------------------
LEMMA InitContract == Init => Contract!Init
<1> SUFFICES ASSUME Init PROVE Contract!Init
  OBVIOUS
<1>1. \A o \in Ops : PhaseOf(o) = "none"
  <2>1. \A o \in Ops : operations[o].state = "absent" /\ o \notin created
    BY AbsentType DEF Init
  <2> QED BY <2>1 DEF PhaseOf, is_present
<1>2. \A o \in Ops : LogOf(o) = <<>>
  <2>1. \A o \in Ops : operations[o].next_group_index = 0
    BY DEF Init, Absent
  <2> QED BY <2>1, SubSeqEmpty DEF LogOf
<1>3. \A o \in Ops : InFlight(o) = FALSE
  BY DEF Init, InFlight
<1> QED BY <1>1, <1>2, <1>3 DEF Contract!Init, LogOf

LEMMA NextContract == FullInv /\ FullInv' /\ [Next]_vars => ContractStep
<1> SUFFICES ASSUME FullInv, FullInv', [Next]_vars PROVE ContractStep
  OBVIOUS
<1>1. ASSUME NEW t \in Tasks, RunStep(t) PROVE ContractStep
  BY <1>1, BeginContract, AcquireContract, CheckContract, ExecuteContract, ApplyContract,
     FinalizeContract DEF RunStep
<1>2. ASSUME NEW t \in Workers, clear_operation_worker_started(t) PROVE ContractStep
  BY <1>2, ClearContract
<1>3. ASSUME NEW t \in Requests,
             \/ DeadlinePasses(t) \/ DeadlineReached(t) \/ operation_response(t)
             \/ ensure_operation_worker_running(t)
      PROVE  ContractStep
  BY <1>3, PollContract, EnsureContract
<1>4. ASSUME NEW t \in Requests, NEW o \in Ops,
             start_write_operation(t, o) \/ get_operation(t, o) \/ cancel_operation(t, o)
      PROVE  ContractStep
  BY <1>4, StartContract, PollContract, CancelContract
<1>5. CASE UNCHANGED vars
  <2>1. \A p \in Ops : SamePhase(p) /\ SameLog(p) /\ SameFlight(p)
    BY <1>5 DEF SamePhase, SameLog, SameFlight, PhaseOf, LogOf, InFlight, is_present
  <2> QED BY <2>1, MapsToStutter DEF ContractStep
<1> QED BY <1>1, <1>2, <1>3, <1>4, <1>5 DEF Next

\* The engine keeps the contract: whatever requests, workers, polls,
\* cancellations and evictions do together looks to a client like operations
\* that run their units in order, once, alone on their account, that finish
\* with the verdict of what they did, and are forgotten only beyond the limit.
THEOREM KeepsContract == Spec => ImplementsContract
<1>1. Init => Contract!Init
  BY InitContract
<1>2. FullInv /\ FullInv' /\ [Next]_vars => [Contract!Next]_Contract!contractVars
  BY NextContract DEF ContractStep
<1> QED BY <1>1, <1>2, RetentionInvariant, PTL DEF Spec, ImplementsContract, Contract!Spec

=============================================================================
