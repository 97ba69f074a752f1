------------------------ MODULE WriteOperationsProofs ------------------------
(* What holds of WriteOperations for every number of operations, accounts,   *)
(* concurrent requests and workers.                                          *)
EXTENDS WriteOperations, TLAPS

\* evict_completed_operations leaves an entry alone or drops a finished one.
LEMMA EvictsFinishedOnly ==
  ASSUME NEW T, NEW o \in Ops
  PROVE  \/ evict_completed_operations(T)[o] = T[o]
         \/ T[o].state \in Terminal /\ evict_completed_operations(T)[o] = Absent(o)
BY DEF evict_completed_operations, EvictedFrom, Completed

LEMMA EvictDomain ==
  ASSUME NEW T
  PROVE  evict_completed_operations(T) = [o \in Ops |-> evict_completed_operations(T)[o]]
BY DEF evict_completed_operations

LEMMA CountUp ==
  ASSUME NEW S, NEW f \in [S -> Nat], NEW x
  PROVE  [f EXCEPT ![x] = @ + 1] \in [S -> Nat]
<1>1. CASE x \in S
  <2>1. f[x] + 1 \in Nat
    BY <1>1
  <2> QED BY <2>1
<1>2. CASE x \notin S
  BY <1>2
<1> QED BY <1>1, <1>2

LEMMA AbsentType ==
  \A o \in Ops : Absent(o) \in StoredOperation(o) /\ Absent(o).state = "absent"
BY DEF Absent, StoredOperation, UnitResult, UnitOutcome

LEMMA InputTypes == /\ \A o \in Ops : AccountOf[o] \in Accounts /\ o # 0
                    /\ \A o \in Ops : UnitsOf[o] \in Nat \ {0}
BY InputsAssumption, OpsAssumption

USE DEF table, vars, Goto

\* The initial state has the right types.
LEMMA InitType == Init => TypeOK
<1> SUFFICES ASSUME Init PROVE TypeOK
  OBVIOUS
<1> USE DEF Init
<1>1. operations = [o \in Ops |-> operations[o]] /\ \A o \in Ops : operations[o] \in StoredOperation(o)
  BY AbsentType
<1>2. account_write_locks \in [Accounts -> Tasks \cup {NoTask}]
  OBVIOUS
<1>3. pc \in [Tasks -> ProgramCounter]
  BY DEF ProgramCounter
<1>4. effects = [o \in Ops |-> effects[o]] /\ \A o \in Ops : effects[o] \in [Units(o) -> Nat]
  OBVIOUS
<1> QED BY <1>1, <1>2, <1>3, <1>4 DEF TypeOK


\* The part of ControlInv about tasks and operations, without types and locks.
TaskInv ==
  /\ \A o \in Ops : is_present(o) => o \in created
  /\ TaskShape
  /\ RunnerKeepsItsOperation
  /\ AtMostOneRunner
  /\ WorkerFlag
  /\ Disclosure
  /\ Driven

\* What a step has in common with the others that keep these flags.
SameFlags(o) ==
  /\ operations'[o].worker_started = operations[o].worker_started
  /\ Active(o)' <=> Active(o)
  /\ is_present(o)' <=> is_present(o)

\* The operation a task runs is a created one that is still active.
LEMMA RunnerFacts ==
  ASSUME ControlInv, NEW t \in Tasks, pc[t] \in Running
  PROVE  /\ op[t] \in Ops /\ op[t] \in created /\ Active(op[t])
         /\ operations[op[t]] \in StoredOperation(op[t])
         /\ AccountOf[op[t]] \in Accounts
BY InputTypes DEF ControlInv, TypeOK, TaskShape, RunnerKeepsItsOperation, Active, Running

\* A step from one point of run_operation_until to another.
LEMMA RunningStep ==
  ASSUME ControlInv, NEW t \in Tasks, pc[t] \in Running,
         NEW label \in Running, pc' = [pc EXCEPT ![t] = label],
         op' = op, created' = created, known' = known,
         \A o \in Ops : SameFlags(o)
  PROVE  TaskInv'
<1>1. /\ pc'[t] \in Running
      /\ \A u \in Tasks : pc'[u] # pc[u] => u = t
      /\ \A u \in Tasks : pc'[u] \in Running <=> pc[u] \in Running
      /\ \A u \in Tasks : pc[t] # "error" /\ pc[t] # "idle"
  BY DEF ControlInv, TypeOK, Running
<1>2. op[t] \in Ops /\ op[t] \in created /\ Active(op[t])
  BY RunnerFacts
<1> USE DEF ControlInv, SameFlags
<1>3. (\A o \in Ops : is_present(o) => o \in created)' /\ TaskShape'
  BY <1>1, <1>2 DEF TaskShape, Running
<1>4. RunnerKeepsItsOperation'
  BY <1>1, <1>2 DEF RunnerKeepsItsOperation, Active, TypeOK, TaskShape, Running
<1>5. AtMostOneRunner' /\ Disclosure'
  BY <1>1, <1>2 DEF AtMostOneRunner, Disclosure, Runs, Running
<1>6. WorkerFlag'
  <2>1. ASSUME NEW u \in Workers, pc'[u] \in Running
        PROVE  operations'[op'[u]].worker_started
    BY <2>1, <1>1, RunnerFacts DEF WorkerFlag, Tasks
  <2>2. ASSUME NEW u \in Workers, pc'[u] = "clear" PROVE (~Active(op[u]))'
    <3>1. pc[u] = "clear" /\ op[u] \in Ops
      BY <2>2, <1>1 DEF TaskShape, TypeOK, Running, Tasks
    <3> QED BY <3>1 DEF WorkerFlag, Active, is_present, is_terminal
  <2>3. ASSUME NEW u \in Requests, pc'[u] \in Running
        PROVE  ~operations'[op'[u]].worker_started /\ op'[u] \notin known'
    BY <2>3, <1>1, RunnerFacts DEF WorkerFlag, Tasks
  <2> QED BY <2>1, <2>2, <2>3 DEF WorkerFlag
<1>7. Driven'
  BY <1>1, <1>2 DEF Driven, Runs, Running
<1> QED BY <1>3, <1>4, <1>5, <1>6, <1>7 DEF TaskInv

LEMMA BeginIterationInv ==
  ASSUME ControlInv, NEW t \in Tasks, BeginIteration(t)
  PROVE  ControlInv'
<1> DEFINE o == op[t]
           st == RunningState(operations[o].state)
           next == next_operation_step(st, operations[o].next_group_index, o)
<1>1. pc[t] \in Running /\ o \in Ops /\ Active(o) /\ operations[o] \in StoredOperation(o)
  BY RunnerFacts DEF BeginIteration, Running
<1>2. /\ operations' = [operations EXCEPT ![o].state = st]
      /\ step' = [step EXCEPT ![t] = next]
      /\ pc' = [pc EXCEPT ![t] = IF next = 0 THEN "finalize" ELSE "lock"]
      /\ UNCHANGED <<account_write_locks, op, late, clock, created, known, effects>>
  BY <1>1 DEF BeginIteration, Active
<1>3. st \in {"running", "cancel_requested"} /\ next \in Nat
  BY <1>1, InputTypes DEF RunningState, next_operation_step, StoredOperation
<1>4. TypeOK'
  <2>1. operations' = [p \in Ops |-> operations'[p]] /\ \A p \in Ops : operations'[p] \in StoredOperation(p)
    BY <1>1, <1>2, <1>3 DEF ControlInv, TypeOK, StoredOperation, OperationState
  <2> QED BY <2>1, <1>2, <1>3 DEF ControlInv, TypeOK, ProgramCounter, Running
<1>5. TaskInv'
  <2>1. \A p \in Ops : SameFlags(p)
    BY <1>1, <1>2, <1>3 DEF SameFlags, ControlInv, TypeOK, Active, is_present, is_terminal, Terminal, StoredOperation
  <2> QED BY <2>1, <1>1, <1>2, RunningStep DEF Running
<1>6. GuardHeld'
  BY <1>1, <1>2 DEF BeginIteration, ControlInv, TypeOK, GuardHeld, Guarded
<1> QED BY <1>4, <1>5, <1>6 DEF ControlInv, TaskInv

LEMMA AcquireGuardInv ==
  ASSUME ControlInv, NEW t \in Tasks, AcquireGuard(t)
  PROVE  ControlInv'
<1>1. pc[t] \in Running /\ op[t] \in Ops /\ AccountOf[op[t]] \in Accounts
  BY RunnerFacts DEF AcquireGuard, Running
<1>2. TypeOK'
  BY <1>1 DEF AcquireGuard, ControlInv, TypeOK, ProgramCounter, Running, Tasks
<1>3. TaskInv'
  <2>1. \A p \in Ops : SameFlags(p)
    BY DEF AcquireGuard, SameFlags, Active, is_present, is_terminal
  <2> QED BY <2>1, <1>1, RunningStep DEF AcquireGuard, Running
<1>4. GuardHeld'
  BY <1>1, TasksAssumption DEF AcquireGuard, ControlInv, TypeOK, GuardHeld, Guarded, Tasks
<1> QED BY <1>2, <1>3, <1>4 DEF ControlInv, TaskInv

LEMMA CancelCheckInv ==
  ASSUME ControlInv, NEW t \in Tasks, operation_cancel_requested(t)
  PROVE  ControlInv'
<1>1. pc[t] \in Running /\ op[t] \in Ops /\ Active(op[t])
  BY RunnerFacts DEF operation_cancel_requested, Running
<1> DEFINE label == IF operations[op[t]].state = "cancel_requested"
                    THEN "finalize_guarded" ELSE "execute"
<1>2. /\ pc[t] = "check"
      /\ pc' = [pc EXCEPT ![t] = label]
      /\ UNCHANGED <<table, account_write_locks, op, step, late, known, effects>>
  BY <1>1 DEF operation_cancel_requested, Active
<1>3. TypeOK'
  BY <1>2 DEF ControlInv, TypeOK, ProgramCounter, Running
<1>4. TaskInv'
  <2>1. \A p \in Ops : SameFlags(p)
    BY <1>2 DEF SameFlags, Active, is_present, is_terminal
  <2> QED BY <2>1, <1>1, <1>2, RunningStep DEF Running
<1>5. GuardHeld'
  BY <1>2 DEF ControlInv, TypeOK, GuardHeld, Guarded
<1> QED BY <1>3, <1>4, <1>5 DEF ControlInv, TaskInv

LEMMA ExecuteInv ==
  ASSUME ControlInv, NEW t \in Tasks, execute_operation_step(t)
  PROVE  ControlInv'
<1>1. pc[t] \in Running /\ op[t] \in Ops
  BY RunnerFacts DEF execute_operation_step, Running
<1>2. TypeOK'
  <2>1. effects' = [o \in Ops |-> effects'[o]] /\ \A o \in Ops : effects'[o] \in [Units(o) -> Nat]
    <3>1. effects[op[t]] \in [Units(op[t]) -> Nat]
      BY <1>1 DEF ControlInv, TypeOK
    <3> DEFINE counts == [effects[op[t]] EXCEPT ![step[t]] = @ + 1]
    <3>2. counts \in [Units(op[t]) -> Nat]
      BY <3>1, CountUp
    <3>3. effects' = [effects EXCEPT ![op[t]] = counts]
      BY DEF execute_operation_step
    <3> QED BY <1>1, <3>2, <3>3 DEF ControlInv, TypeOK
  <2> QED BY <2>1 DEF execute_operation_step, ControlInv, TypeOK, ProgramCounter, Running
<1>3. TaskInv'
  <2>1. \A p \in Ops : SameFlags(p)
    BY DEF execute_operation_step, SameFlags, Active, is_present, is_terminal
  <2> QED BY <2>1, <1>1, RunningStep DEF execute_operation_step, Running
<1>4. GuardHeld'
  BY DEF execute_operation_step, ControlInv, TypeOK, GuardHeld, Guarded
<1> QED BY <1>2, <1>3, <1>4 DEF ControlInv, TaskInv

LEMMA ApplyInv ==
  ASSUME ControlInv, NEW t \in Tasks, apply_operation_step_outcome(t)
  PROVE  ControlInv'
<1>1. pc[t] \in Running /\ op[t] \in Ops /\ Active(op[t])
      /\ operations[op[t]] \in StoredOperation(op[t]) /\ AccountOf[op[t]] \in Accounts
  BY RunnerFacts DEF apply_operation_step_outcome, Running
<1>2. PICK outcome \in UnitOutcome :
        operations' = [operations EXCEPT ![op[t]].results[step[t]] = outcome,
                                         ![op[t]].next_group_index = @ + 1]
  BY <1>1 DEF apply_operation_step_outcome, Active
<1>3. /\ pc[t] = "apply"
      /\ pc' = [pc EXCEPT ![t] = "loop"]
      /\ ReleaseGuard(t)
      /\ UNCHANGED <<op, step, late, clock, created, known, effects>>
  BY <1>1 DEF apply_operation_step_outcome, Active
<1>4. TypeOK'
  <2>1. operations' = [p \in Ops |-> operations'[p]]
    BY <1>1, <1>2 DEF ControlInv, TypeOK
  <2>2. operations'[op[t]] \in StoredOperation(op[t])
    <3> DEFINE before == operations[op[t]]
               results == [before.results EXCEPT ![step[t]] = outcome]
    <3>1. operations'[op[t]] = [before EXCEPT !.results = results,
                                              !.next_group_index = @ + 1]
      BY <1>1, <1>2 DEF ControlInv, TypeOK, StoredOperation
    <3>2. results \in [Units(op[t]) -> UnitResult]
      BY <1>1 DEF StoredOperation, UnitResult
    <3>3. before.next_group_index + 1 \in Nat
      BY <1>1 DEF StoredOperation
    <3>4. before \in StoredOperation(op[t])
      BY <1>1
    <3> HIDE DEF results, before
    <3>5. [before EXCEPT !.results = results, !.next_group_index = @ + 1]
            \in StoredOperation(op[t])
      BY <3>2, <3>3, <3>4 DEF StoredOperation
    <3> QED BY <3>1, <3>5
  <2>3. \A p \in Ops : operations'[p] \in StoredOperation(p)
    BY <2>2, <1>1, <1>2 DEF ControlInv, TypeOK
  <2> QED BY <2>1, <2>3, <1>3 DEF ReleaseGuard, ControlInv, TypeOK, ProgramCounter, Running
<1>5. TaskInv'
  <2>1. \A p \in Ops : SameFlags(p)
    BY <1>1, <1>2 DEF SameFlags, ControlInv, TypeOK, StoredOperation, Active, is_present, is_terminal
  <2> QED BY <2>1, <1>1, <1>3, RunningStep DEF Running
<1>6. GuardHeld'
  BY <1>1, <1>3 DEF ReleaseGuard, ControlInv, TypeOK, GuardHeld, Guarded
<1> QED BY <1>4, <1>5, <1>6 DEF ControlInv, TaskInv

LEMMA FinalizeInv ==
  ASSUME ControlInv, NEW t \in Tasks, finalize_operation(t)
  PROVE  ControlInv'
<1> DEFINE o == op[t]
           canceled == operations[o].state = "cancel_requested"
           results == [i \in Units(o) |-> IF canceled /\ i \in Remaining(o)
                                          THEN "canceled" ELSE operations[o].results[i]]
           final == [operations[o] EXCEPT
                       !.state = IF canceled THEN "canceled"
                                 ELSE operation_result_status(results),
                       !.results = results,
                       !.worker_started = FALSE,
                       !.finished_at = clock']
           written == [operations EXCEPT ![o] = final]
<1>1. pc[t] \in Running /\ o \in Ops /\ o \in created /\ Active(o)
      /\ operations[o] \in StoredOperation(o) /\ AccountOf[o] \in Accounts
  BY RunnerFacts DEF finalize_operation, Running
<1>2. /\ pc[t] \in {"finalize", "finalize_guarded"}
      /\ pc' = [pc EXCEPT ![t] = AfterRun(t)]
      /\ IF pc[t] = "finalize_guarded" THEN ReleaseGuard(t) ELSE UNCHANGED account_write_locks
      /\ UNCHANGED <<op, step, late, created, known, effects>>
  BY <1>1 DEF finalize_operation, Active
<1>3. clock' \in {clock, clock + 1} /\ operations' = evict_completed_operations(written)
  BY <1>1 DEF finalize_operation, Active
<1>4. clock' \in Nat
  BY <1>3 DEF ControlInv, TypeOK
<1>5. final \in StoredOperation(o) /\ final.state \in Terminal
  <2>1. results \in [Units(o) -> UnitResult]
    BY <1>1 DEF StoredOperation, UnitResult
  <2>2. operation_result_status(results) \in Terminal
    BY DEF operation_result_status, Terminal
  <2>3. operations[o] \in StoredOperation(o)
    BY <1>1
  <2> HIDE DEF results
  <2> QED BY <2>1, <2>2, <2>3, <1>4 DEF StoredOperation, OperationState, Terminal
<1>6. written[o] = final /\ \A p \in Ops : p # o => written[p] = operations[p]
  BY <1>1, <1>5 DEF ControlInv, TypeOK
<1>7. \A p \in Ops : \/ operations'[p] = written[p]
                     \/ written[p].state \in Terminal /\ operations'[p] = Absent(p)
  <2> HIDE DEF written
  <2> QED BY <1>3, EvictsFinishedOnly
<1> HIDE DEF written, final
<1>8. /\ (~Active(o))'
      /\ \A p \in Ops : p # o /\ Active(p) => Active(p)' /\ operations'[p] = operations[p]
      /\ \A p \in Ops : Active(p)' => p # o /\ Active(p) /\ operations'[p] = operations[p]
      /\ \A p \in Ops : is_present(p)' => is_present(p)
  <2>1. operations'[o].state \in Terminal \cup {"absent"}
    BY <1>1, <1>5, <1>6, <1>7, AbsentType
  <2>2. \A p \in Ops : p # o =>
          \/ operations'[p] = operations[p]
          \/ operations[p].state \in Terminal /\ operations'[p].state = "absent"
    BY <1>6, <1>7, AbsentType
  <2> QED BY <1>1, <1>2, <2>1, <2>2 DEF Active, is_present, is_terminal, Terminal
<1>9. TypeOK'
  <2>1. operations' = [p \in Ops |-> operations'[p]]
    BY <1>3, EvictDomain
  <2>2. \A p \in Ops : operations'[p] \in StoredOperation(p)
    BY <1>5, <1>6, <1>7, AbsentType DEF ControlInv, TypeOK
  <2> QED BY <2>1, <2>2, <1>1, <1>2, <1>4
      DEF ReleaseGuard, AfterRun, ControlInv, TypeOK, ProgramCounter, Running
<1>10. /\ \A u \in Tasks : u # t => pc'[u] = pc[u]
       /\ pc'[t] = AfterRun(t)
       /\ \A u \in Tasks : u # t /\ pc[u] \in Running =>
            op[u] \in Ops /\ op[u] # o /\ Active(op[u]) /\ AccountOf[op[u]] \in Accounts
  BY <1>1, <1>2, RunnerFacts DEF ControlInv, TypeOK, AtMostOneRunner, Runs
<1> USE DEF ControlInv
<1>11. (\A p \in Ops : is_present(p) => p \in created)' /\ TaskShape'
  BY <1>1, <1>2, <1>8, <1>10 DEF TaskShape, AfterRun, Tasks
<1>12. RunnerKeepsItsOperation'
  BY <1>2, <1>8, <1>10 DEF RunnerKeepsItsOperation, Active, AfterRun, Running
<1>13. AtMostOneRunner' /\ Disclosure'
  BY <1>1, <1>2, <1>10 DEF AtMostOneRunner, Disclosure, Runs, AfterRun, Running, Tasks
<1>14. WorkerFlag'
  <2>1. ASSUME NEW u \in Workers, pc'[u] \in Running
        PROVE  operations'[op[u]].worker_started
    BY <2>1, <1>8, <1>10 DEF WorkerFlag, Tasks, AfterRun, Running
  <2>2. ASSUME NEW u \in Workers, pc'[u] = "clear" PROVE ~Active(op[u])'
    <3>1. CASE u = t
      BY <3>1, <1>8, <1>2
    <3>2. CASE u # t
      <4>1. pc[u] = "clear" /\ op[u] \in Ops
        BY <2>2, <3>2, <1>10 DEF TaskShape, TypeOK, Tasks
      <4> QED BY <4>1, <1>8, <1>2 DEF WorkerFlag
    <3> QED BY <3>1, <3>2
  <2>3. ASSUME NEW u \in Requests, pc'[u] \in Running
        PROVE  ~operations'[op[u]].worker_started /\ op[u] \notin known
    BY <2>3, <1>8, <1>10 DEF WorkerFlag, Tasks, AfterRun, Running
  <2> QED BY <2>1, <2>2, <2>3, <1>2 DEF WorkerFlag
<1>15. Driven'
  BY <1>2, <1>8, <1>10 DEF Driven, Runs, Tasks, Running
<1>16. GuardHeld'
  BY <1>1, <1>2, <1>10 DEF ReleaseGuard, AfterRun, TypeOK, GuardHeld, Guarded, Running
<1> QED BY <1>9, <1>11, <1>12, <1>13, <1>14, <1>15, <1>16

\* Steps that change neither a task nor an operation.
LEMMA UnaffectedInv ==
  ASSUME ControlInv, TypeOK',
         UNCHANGED <<operations, account_write_locks, pc, op, created, known>>
  PROVE  ControlInv'
BY DEF ControlInv, TaskShape, RunnerKeepsItsOperation, AtMostOneRunner, WorkerFlag,
       Disclosure, Driven, GuardHeld, Runs, Active, is_present, is_terminal

LEMMA DeadlinePassesInv ==
  ASSUME ControlInv, NEW t \in Tasks, DeadlinePasses(t)
  PROVE  ControlInv'
<1>1. TypeOK'
  BY DEF DeadlinePasses, ControlInv, TypeOK
<1> QED BY <1>1, UnaffectedInv DEF DeadlinePasses

\* A step of a request that is not a step of a run: the flags of all
\* operations stay, and a request that begins is about a disclosed one.
LEMMA RequestStep ==
  ASSUME ControlInv, NEW t \in Requests, pc[t] \in {"idle", "loop", "ensure", "respond"},
         NEW label \in {"ensure", "respond"}, pc' = [pc EXCEPT ![t] = label],
         NEW o \in Ops, op' = [op EXCEPT ![t] = o],
         pc[t] = "idle" => o \in known, pc[t] # "idle" => o = op[t],
         label = "respond" => ~Active(o) \/ operations[o].worker_started,
         UNCHANGED <<created, known, account_write_locks>>,
         \A p \in Ops : SameFlags(p)
  PROVE  TaskInv' /\ GuardHeld'
<1> USE DEF ControlInv, SameFlags
<1>1. /\ t \in Tasks /\ pc'[t] = label /\ op'[t] = o /\ o \in created
      /\ \A u \in Tasks : u # t => pc'[u] = pc[u] /\ op'[u] = op[u]
      /\ label \notin Running /\ label \notin {"idle", "error", "clear"}
  BY DEF TypeOK, Tasks, Running, TaskShape
<1>2. \A u \in Tasks : pc[u] \in Running => op[u] \in Ops
  BY RunnerFacts
<1>3. (\A p \in Ops : is_present(p) => p \in created)' /\ TaskShape'
  BY <1>1 DEF TaskShape
<1>4. RunnerKeepsItsOperation'
  BY <1>1, <1>2 DEF RunnerKeepsItsOperation, Active
<1>5. AtMostOneRunner' /\ Disclosure'
  BY <1>1 DEF AtMostOneRunner, Disclosure, Runs, Tasks
<1>6. WorkerFlag'
  <2>1. ASSUME NEW u \in Workers, pc'[u] \in Running
        PROVE  operations'[op'[u]].worker_started
    BY <2>1, <1>1, <1>2 DEF WorkerFlag, Tasks
  <2>2. ASSUME NEW u \in Workers, pc'[u] = "clear" PROVE (~Active(op[u]))'
    <3>1. pc[u] = "clear" /\ op[u] \in Ops /\ op'[u] = op[u]
      BY <2>2, <1>1 DEF TaskShape, TypeOK, Tasks
    <3> QED BY <3>1 DEF WorkerFlag, Active, is_present, is_terminal
  <2>3. ASSUME NEW u \in Requests, pc'[u] \in Running
        PROVE  ~operations'[op'[u]].worker_started /\ op'[u] \notin known'
    BY <2>3, <1>1, <1>2 DEF WorkerFlag, Tasks
  <2> QED BY <2>1, <2>2, <2>3 DEF WorkerFlag
<1>7. Driven'
  <2> SUFFICES ASSUME NEW p \in Ops, Active(p)'
               PROVE  IF operations'[p].worker_started
                      THEN \E u \in Workers : Runs(u, p)'
                      ELSE \E u \in Requests : Runs(u, p)' \/ (pc'[u] = "ensure" /\ op'[u] = p)
    BY DEF Driven
  <2>1. CASE operations[p].worker_started
    <3>1. PICK u \in Workers : Runs(u, p)
      BY <2>1 DEF Driven
    <3>2. u # t
      BY TasksAssumption
    <3> QED BY <3>1, <3>2, <2>1, <1>1 DEF Runs, Tasks
  <2>2. CASE ~operations[p].worker_started
    <3>1. PICK u \in Requests : Runs(u, p) \/ (pc[u] = "ensure" /\ op[u] = p)
      BY <2>2 DEF Driven
    <3>2. CASE u = t
      BY <3>1, <3>2, <2>2, <1>1 DEF Runs, Running
    <3>3. CASE u # t
      BY <3>1, <3>3, <2>2, <1>1 DEF Runs, Tasks
    <3> QED BY <3>2, <3>3
  <2> QED BY <2>1, <2>2
<1>8. GuardHeld'
  BY <1>1 DEF GuardHeld, Guarded, Running
<1> QED BY <1>3, <1>4, <1>5, <1>6, <1>7, <1>8 DEF TaskInv

LEMMA DeadlineReachedInv ==
  ASSUME ControlInv, NEW t \in Tasks, DeadlineReached(t)
  PROVE  ControlInv'
<1>1. op[t] \in Ops /\ t \in Requests
  BY RunnerFacts DEF DeadlineReached, Running
<1>2. TypeOK'
  BY DEF DeadlineReached, ControlInv, TypeOK, ProgramCounter
<1>3. \A p \in Ops : SameFlags(p)
  BY DEF DeadlineReached, SameFlags, Active, is_present, is_terminal
<1>4. op' = [op EXCEPT ![t] = op[t]]
  BY DEF DeadlineReached, ControlInv, TypeOK
<1> QED BY <1>1, <1>2, <1>3, <1>4, RequestStep DEF DeadlineReached, ControlInv, TaskInv

LEMMA GetInv ==
  ASSUME ControlInv, NEW t \in Tasks, NEW o \in Ops, get_operation(t, o)
  PROVE  ControlInv'
<1>1. TypeOK'
  BY DEF get_operation, ControlInv, TypeOK, ProgramCounter
<1>2. \A p \in Ops : SameFlags(p)
  BY DEF get_operation, SameFlags, Active, is_present, is_terminal
<1> QED BY <1>1, <1>2, RequestStep DEF get_operation, ControlInv, TaskInv

LEMMA CancelInv ==
  ASSUME ControlInv, NEW t \in Tasks, NEW o \in Ops, cancel_operation(t, o)
  PROVE  ControlInv'
<1>1. operations[o] \in StoredOperation(o)
  BY DEF ControlInv, TypeOK
<1>2. TypeOK'
  <2>1. operations' = [p \in Ops |-> operations'[p]] /\ \A p \in Ops : operations'[p] \in StoredOperation(p)
    BY <1>1 DEF cancel_operation, ControlInv, TypeOK, StoredOperation, OperationState
  <2> QED BY <2>1 DEF cancel_operation, ControlInv, TypeOK, ProgramCounter
<1>3. \A p \in Ops : SameFlags(p)
  BY <1>1 DEF cancel_operation, SameFlags, Active, is_present, is_terminal, Terminal,
     ControlInv, TypeOK, StoredOperation
<1> QED BY <1>2, <1>3, RequestStep DEF cancel_operation, ControlInv, TaskInv

\* The answer to a request: the id becomes known, and no inline run is lost
\* to it, since only its creator is about an operation not yet disclosed.
LEMMA AnswerInv ==
  ASSUME ControlInv, NEW t \in Requests, pc[t] \in {"ensure", "respond"}, Answer(t),
         pc[t] = "ensure" => ~is_present(op[t]),
         UNCHANGED <<table, account_write_locks, effects>>
  PROVE  ControlInv'
<1> USE DEF ControlInv
<1>1. /\ t \in Tasks /\ pc'[t] = "idle" /\ op[t] \in created /\ op[t] \in Ops
      /\ \A u \in Tasks : u # t => pc'[u] = pc[u] /\ op'[u] = op[u]
      /\ known' = known \cup {op[t]}
  BY DEF Answer, TypeOK, Tasks, TaskShape
<1>2. TypeOK'
  BY <1>1 DEF Answer, TypeOK, ProgramCounter
<1>3. \A u \in Tasks : u # t /\ pc[u] \in Running => op[u] \in Ops /\ op[u] \in created
  BY RunnerFacts
<1>4. (\A p \in Ops : is_present(p) => p \in created)' /\ TaskShape'
  BY <1>1 DEF TaskShape, is_present
<1>5. RunnerKeepsItsOperation'
  BY <1>1 DEF RunnerKeepsItsOperation, Running, is_present, is_terminal
<1>6. AtMostOneRunner' /\ Disclosure'
  BY <1>1 DEF AtMostOneRunner, Disclosure, Runs, Running, Tasks
<1>7. WorkerFlag'
  <2>1. ASSUME NEW u \in Workers
        PROVE  /\ pc'[u] \in Running => operations'[op'[u]].worker_started
               /\ pc'[u] = "clear" => (~Active(op[u]))'
    BY <1>1, TasksAssumption DEF WorkerFlag, Tasks, Active, is_present, is_terminal
  <2>2. ASSUME NEW u \in Requests, pc'[u] \in Running
        PROVE  ~operations'[op'[u]].worker_started /\ op'[u] \notin known'
    <3>1. u # t /\ pc[u] \in Running /\ op'[u] = op[u]
      BY <2>2, <1>1 DEF Running, Tasks
    <3>2. op[u] # op[t]
      BY <3>1 DEF Disclosure, WorkerFlag, Running
    <3> QED BY <3>1, <3>2, <1>1 DEF WorkerFlag
  <2> QED BY <2>1, <2>2 DEF WorkerFlag
<1>8. Driven'
  <2> SUFFICES ASSUME NEW p \in Ops, Active(p)
               PROVE  IF operations[p].worker_started
                      THEN \E u \in Workers : Runs(u, p)'
                      ELSE \E u \in Requests : Runs(u, p)' \/ (pc'[u] = "ensure" /\ op'[u] = p)
    BY DEF Driven, Active, is_present, is_terminal
  <2>1. \A u \in Tasks : Runs(u, p) => u # t /\ Runs(u, p)'
    BY <1>1 DEF Runs, Running
  <2>2. \A u \in Requests : pc[u] = "ensure" /\ op[u] = p => u # t
    BY DEF Active
  <2> QED BY <2>1, <2>2, <1>1 DEF Driven, Tasks
<1>9. GuardHeld'
  BY <1>1 DEF GuardHeld, Guarded
<1> QED BY <1>2, <1>4, <1>5, <1>6, <1>7, <1>8, <1>9

\* The exit of a worker, whose operation is finished or gone.
LEMMA ClearInv ==
  ASSUME ControlInv, NEW t \in Tasks, clear_operation_worker_started(t)
  PROVE  ControlInv'
<1> USE DEF ControlInv
<1>1. /\ t \in Workers /\ pc[t] = "clear" /\ op[t] \in Ops /\ ~Active(op[t])
      /\ pc'[t] = "idle" /\ UNCHANGED <<account_write_locks, late, clock, created, known, effects>>
      /\ \A u \in Tasks : u # t => pc'[u] = pc[u] /\ op'[u] = op[u]
  BY DEF clear_operation_worker_started, TypeOK, TaskShape, WorkerFlag, Tasks
<1>2. \A p \in Ops : /\ is_present(p)' <=> is_present(p)
                     /\ Active(p)' <=> Active(p)
                     /\ Active(p) => operations'[p] = operations[p]
  BY <1>1 DEF clear_operation_worker_started, TypeOK, StoredOperation, Active, is_present, is_terminal
<1>3. TypeOK'
  <2>1. operations' = [p \in Ops |-> operations'[p]] /\ \A p \in Ops : operations'[p] \in StoredOperation(p)
    BY <1>1 DEF clear_operation_worker_started, TypeOK, StoredOperation
  <2> QED BY <2>1, <1>1 DEF clear_operation_worker_started, TypeOK, ProgramCounter
<1>4. \A u \in Tasks : pc'[u] \in Running =>
        u # t /\ pc[u] \in Running /\ op'[u] = op[u] /\ op[u] \in Ops /\ Active(op[u])
  BY <1>1, RunnerFacts DEF Running
<1>5. (\A p \in Ops : is_present(p) => p \in created)' /\ TaskShape'
  BY <1>1, <1>2 DEF TaskShape
<1>6. RunnerKeepsItsOperation'
  BY <1>1, <1>2, <1>4 DEF RunnerKeepsItsOperation, Active
<1>7. AtMostOneRunner' /\ Disclosure'
  BY <1>1, <1>4, TasksAssumption DEF AtMostOneRunner, Disclosure, Runs, Tasks
<1>8. WorkerFlag'
  <2>1. ASSUME NEW u \in Tasks, pc'[u] = "clear" PROVE (~Active(op[u]))'
    <3>1. pc[u] = "clear" /\ op[u] \in Ops /\ op'[u] = op[u] /\ u \in Workers
      BY <2>1, <1>1 DEF TaskShape, TypeOK
    <3> QED BY <3>1, <1>2 DEF WorkerFlag, Active, is_present, is_terminal
  <2>2. \A u \in Workers : pc'[u] \in Running => operations'[op'[u]].worker_started
    BY <1>2, <1>4 DEF WorkerFlag, Tasks
  <2>3. \A u \in Requests : pc'[u] \in Running =>
          ~operations'[op'[u]].worker_started /\ op'[u] \notin known'
    BY <1>1, <1>2, <1>4 DEF WorkerFlag, Tasks
  <2> QED BY <2>1, <2>2, <2>3 DEF WorkerFlag, Tasks
<1>9. Driven'
  BY <1>1, <1>2, TasksAssumption DEF Driven, Runs, Running, Tasks
<1>10. GuardHeld'
  BY <1>1 DEF GuardHeld, Guarded
<1> QED BY <1>3, <1>5, <1>6, <1>7, <1>8, <1>9, <1>10

\* try_mark_operation_worker_started succeeds only when nobody runs the
\* operation: not a worker, for the flag is clear, and not its creator, for
\* the request that asks would then be about an id not yet disclosed.
LEMMA SpawnInv ==
  ASSUME ControlInv, NEW t \in Requests, pc[t] = "ensure", NEW w \in Workers,
         pc[w] = "idle", is_present(op[t]), WorkerNeeded(op[t]),
         operations' = [operations EXCEPT ![op[t]].worker_started = TRUE],
         pc' = [pc EXCEPT ![t] = "respond", ![w] = "loop"],
         op' = [op EXCEPT ![w] = op[t]],
         UNCHANGED <<account_write_locks, step, late, clock, created, known, effects>>
  PROVE  ControlInv'
<1> DEFINE o == op[t]
<1> USE DEF ControlInv
<1>1. /\ t # w /\ t \in Tasks /\ w \in Tasks /\ t \notin Workers /\ w \notin Requests
      /\ o \in Ops /\ o \in created /\ Active(o) /\ ~operations[o].worker_started
  BY TasksAssumption DEF TypeOK, TaskShape, WorkerNeeded, Active, Tasks
<1>2. /\ pc'[t] = "respond" /\ pc'[w] = "loop" /\ op'[w] = o /\ op'[t] = o
      /\ \A u \in Tasks : u # t /\ u # w => pc'[u] = pc[u] /\ op'[u] = op[u]
  BY <1>1 DEF TypeOK
<1>3. /\ operations'[o].worker_started = TRUE
      /\ \A p \in Ops : p # o => operations'[p] = operations[p]
      /\ \A p \in Ops : (Active(p)' <=> Active(p)) /\ (is_present(p)' <=> is_present(p))
  BY <1>1 DEF TypeOK, StoredOperation, Active, is_present, is_terminal
<1>4. \A u \in Tasks : ~Runs(u, o)
  <2>1. ASSUME NEW u \in Workers, Runs(u, o) PROVE FALSE
    BY <2>1, <1>1 DEF WorkerFlag, Runs
  <2>2. ASSUME NEW u \in Requests, Runs(u, o) PROVE FALSE
    <3>1. u # t /\ pc[u] # "idle" /\ op[u] = o /\ o \notin known
      BY <2>2 DEF Runs, Running, WorkerFlag
    <3> QED BY <3>1 DEF Disclosure
  <2> QED BY <2>1, <2>2 DEF Tasks
<1>5. TypeOK'
  <2>1. operations' = [p \in Ops |-> operations'[p]] /\ \A p \in Ops : operations'[p] \in StoredOperation(p)
    BY <1>1 DEF TypeOK, StoredOperation
  <2> QED BY <2>1, <1>1 DEF TypeOK, ProgramCounter, Running
<1>6. \A u \in Tasks : pc[u] \in Running =>
        u # t /\ u # w /\ op[u] \in Ops /\ op[u] # o /\ Active(op[u])
  BY <1>4, RunnerFacts DEF Runs, Running
<1>7. (\A p \in Ops : is_present(p) => p \in created)' /\ TaskShape'
  <2>1. (\A p \in Ops : is_present(p) => p \in created)'
    BY <1>3
  <2>2. ASSUME NEW u \in Tasks
        PROVE  /\ pc'[u] # "idle" => op'[u] \in created
               /\ pc'[u] \in {"ensure", "respond"} => u \in Requests
               /\ pc'[u] = "clear" => u \in Workers
    BY <2>2, <1>1, <1>2 DEF TaskShape
  <2> QED BY <2>1, <2>2 DEF TaskShape
<1>8. RunnerKeepsItsOperation'
  BY <1>1, <1>2, <1>3, <1>6 DEF RunnerKeepsItsOperation, Active
<1>9. AtMostOneRunner'
  BY <1>1, <1>2, <1>6 DEF AtMostOneRunner, Runs, Running
<1>10. Disclosure'
  BY <1>1, <1>2 DEF Disclosure, Tasks
<1>11. WorkerFlag'
  <2>1. ASSUME NEW u \in Workers, pc'[u] \in Running
        PROVE  operations'[op'[u]].worker_started
    <3>1. CASE u = w
      BY <3>1, <1>2, <1>3
    <3>2. CASE u # w
      <4>1. u # t /\ u \in Tasks /\ pc[u] \in Running /\ op'[u] = op[u]
        BY <2>1, <3>2, <1>1, <1>2 DEF Tasks
      <4> QED BY <4>1, <1>3, <1>6 DEF WorkerFlag
    <3> QED BY <3>1, <3>2
  <2>2. ASSUME NEW u \in Workers, pc'[u] = "clear" PROVE (~Active(op[u]))'
    <3>1. pc[u] = "clear" /\ op[u] \in Ops /\ op'[u] = op[u]
      BY <2>2, <1>1, <1>2 DEF TaskShape, TypeOK, Tasks
    <3> QED BY <3>1, <1>3 DEF WorkerFlag, Active, is_present, is_terminal
  <2>3. ASSUME NEW u \in Requests, pc'[u] \in Running
        PROVE  ~operations'[op'[u]].worker_started /\ op'[u] \notin known'
    <3>1. u # t /\ u # w /\ u \in Tasks /\ pc[u] \in Running /\ op'[u] = op[u]
      BY <2>3, <1>1, <1>2 DEF Tasks, Running
    <3> QED BY <3>1, <1>3, <1>6 DEF WorkerFlag
  <2> QED BY <2>1, <2>2, <2>3 DEF WorkerFlag
<1>12. Driven'
  <2>1. ASSUME NEW p \in Ops, p # o, Active(p)
        PROVE  IF operations[p].worker_started
               THEN \E u \in Workers : Runs(u, p)'
               ELSE \E u \in Requests : Runs(u, p)' \/ (pc'[u] = "ensure" /\ op'[u] = p)
    <3>1. \A u \in Tasks : Runs(u, p) => Runs(u, p)'
      BY <1>2, <1>6 DEF Runs
    <3>2. \A u \in Requests : pc[u] = "ensure" /\ op[u] = p => u # t /\ u # w
      BY <2>1
    <3> QED BY <2>1, <3>1, <3>2, <1>2 DEF Driven, Tasks
  <2>2. Runs(w, o)'
    BY <1>1, <1>2 DEF Runs, Running
  <2>3. ASSUME NEW p \in Ops, Active(p)'
        PROVE  IF operations'[p].worker_started
               THEN \E u \in Workers : Runs(u, p)'
               ELSE \E u \in Requests : Runs(u, p)' \/ (pc'[u] = "ensure" /\ op'[u] = p)
    <3>1. CASE p = o
      BY <3>1, <2>2, <1>3
    <3>2. CASE p # o
      BY <3>2, <2>1, <2>3, <1>3
    <3> QED BY <3>1, <3>2
  <2> QED BY <2>3 DEF Driven
<1>13. GuardHeld'
  BY <1>1, <1>2 DEF GuardHeld, Guarded
<1> QED BY <1>5, <1>7, <1>8, <1>9, <1>10, <1>11, <1>12, <1>13

LEMMA EnsureInv ==
  ASSUME ControlInv, NEW t \in Tasks, ensure_operation_worker_running(t)
  PROVE  ControlInv'
<1>1. t \in Requests /\ pc[t] = "ensure" /\ op[t] \in Ops
      /\ UNCHANGED <<account_write_locks, clock, created, effects>>
  BY DEF ensure_operation_worker_running, ControlInv, TypeOK, TaskShape
<1>2. CASE ~is_present(op[t])
  BY <1>1, <1>2, AnswerInv DEF ensure_operation_worker_running
<1>3. CASE is_present(op[t]) /\ ~WorkerNeeded(op[t])
  <2>1. pc' = [pc EXCEPT ![t] = "respond"] /\ UNCHANGED <<operations, op, step, late, known>>
    BY <1>3 DEF ensure_operation_worker_running
  <2>2. TypeOK'
    BY <1>1, <2>1 DEF ControlInv, TypeOK, ProgramCounter
  <2>3. \A p \in Ops : SameFlags(p)
    BY <2>1 DEF SameFlags, Active, is_present, is_terminal
  <2>4. op' = [op EXCEPT ![t] = op[t]]
    BY <2>1 DEF ControlInv, TypeOK
  <2>5. ~Active(op[t]) \/ operations[op[t]].worker_started
    BY <1>3 DEF WorkerNeeded, Active
  <2>6. TaskInv' /\ GuardHeld'
    BY <1>1, <2>1, <2>3, <2>4, <2>5, RequestStep
  <2> QED BY <2>2, <2>6 DEF ControlInv, TaskInv
<1>4. CASE is_present(op[t]) /\ WorkerNeeded(op[t])
  <2>1. PICK w \in Workers :
          /\ pc[w] = "idle"
          /\ operations' = [operations EXCEPT ![op[t]].worker_started = TRUE]
          /\ pc' = [pc EXCEPT ![t] = "respond", ![w] = "loop"]
          /\ op' = [op EXCEPT ![w] = op[t]]
          /\ UNCHANGED <<step, late, known>>
    BY <1>4 DEF ensure_operation_worker_running
  <2> QED BY <1>1, <1>4, <2>1, SpawnInv
<1> QED BY <1>2, <1>3, <1>4

LEMMA StartInv ==
  ASSUME ControlInv, NEW t \in Tasks, NEW o \in Ops, start_write_operation(t, o)
  PROVE  ControlInv'
<1> USE DEF ControlInv
<1> DEFINE first == [Absent(o) EXCEPT !.state = "pending"]
           written == [operations EXCEPT ![o] = first]
<1>1. /\ t \in Requests /\ pc[t] = "idle" /\ o \notin created /\ ~is_present(o)
      /\ operations' = evict_completed_operations(written)
      /\ created' = created \cup {o}
      /\ UNCHANGED <<account_write_locks, step, late, clock, known, effects>>
  BY DEF start_write_operation
<1>2. /\ pc'[t] = "loop" /\ op'[t] = o
      /\ \A u \in Tasks : u # t => pc'[u] = pc[u] /\ op'[u] = op[u]
  BY DEF start_write_operation, TypeOK
<1>3. first \in StoredOperation(o) /\ first.state = "pending" /\ first.worker_started = FALSE
  BY DEF Absent, StoredOperation, OperationState, UnitResult
<1>4. written[o] = first /\ \A p \in Ops : p # o => written[p] = operations[p]
  BY DEF TypeOK
<1>5. \A p \in Ops : \/ operations'[p] = written[p]
                     \/ written[p].state \in Terminal /\ operations'[p] = Absent(p)
  <2> HIDE DEF written
  <2> QED BY <1>1, EvictsFinishedOnly
<1>6. operations' = [p \in Ops |-> operations'[p]]
  <2> HIDE DEF written
  <2> QED BY <1>1, EvictDomain
<1> HIDE DEF written, first
<1>7. /\ operations'[o] = first
      /\ \A p \in Ops : p # o =>
           \/ operations'[p] = operations[p]
           \/ operations[p].state \in Terminal /\ operations'[p].state = "absent"
  BY <1>3, <1>4, <1>5, AbsentType DEF Terminal
<1>8. /\ Active(o)'
      /\ \A p \in Ops : p # o /\ Active(p) => Active(p)' /\ operations'[p] = operations[p]
      /\ \A p \in Ops : p # o /\ Active(p)' => Active(p) /\ operations'[p] = operations[p]
      /\ \A p \in Ops : p # o /\ is_present(p)' => is_present(p)
  BY <1>3, <1>7 DEF Active, is_present, is_terminal, Terminal
<1>9. TypeOK'
  <2>1. \A p \in Ops : operations'[p] \in StoredOperation(p)
    BY <1>3, <1>4, <1>5, AbsentType DEF TypeOK
  <2> QED BY <1>1, <1>6, <2>1 DEF start_write_operation, TypeOK, ProgramCounter, Running
<1>10. \A u \in Tasks : pc[u] # "idle" => u # t /\ op[u] \in created /\ op[u] # o /\ op[u] \in Ops
  BY <1>1 DEF TaskShape, TypeOK
<1>11. \A u \in Tasks : pc[u] \in Running => pc[u] # "idle" /\ Active(op[u])
  BY RunnerFacts DEF Running
<1>12. (\A p \in Ops : is_present(p) => p \in created)' /\ TaskShape'
  BY <1>1, <1>2, <1>8, <1>10 DEF TaskShape
<1>13. RunnerKeepsItsOperation'
  BY <1>2, <1>8, <1>10, <1>11 DEF RunnerKeepsItsOperation, Active
<1>14. AtMostOneRunner' /\ Disclosure'
  BY <1>1, <1>2, <1>10, <1>11 DEF AtMostOneRunner, Disclosure, Runs, Tasks
<1>15. WorkerFlag'
  <2>1. ASSUME NEW u \in Workers, pc'[u] \in Running
        PROVE  operations'[op'[u]].worker_started
    BY <2>1, <1>1, <1>2, <1>8, <1>10, <1>11, TasksAssumption DEF WorkerFlag, Tasks
  <2>2. ASSUME NEW u \in Workers, pc'[u] = "clear" PROVE (~Active(op[u]))'
    <3>1. pc[u] = "clear" /\ op[u] \in Ops /\ op'[u] = op[u] /\ op[u] # o
      BY <2>2, <1>1, <1>2, <1>10, TasksAssumption DEF Tasks
    <3> QED BY <3>1, <1>8 DEF WorkerFlag, Active, is_present, is_terminal
  <2>3. ASSUME NEW u \in Requests, pc'[u] \in Running
        PROVE  ~operations'[op'[u]].worker_started /\ op'[u] \notin known'
    <3>1. CASE u = t
      BY <3>1, <1>1, <1>2, <1>3, <1>7 DEF TypeOK
    <3>2. CASE u # t
      <4>1. u \in Tasks /\ pc[u] \in Running /\ op'[u] = op[u] /\ Active(op[u]) /\ op[u] # o
            /\ op[u] \in Ops
        BY <2>3, <3>2, <1>2, <1>10, <1>11 DEF Tasks
      <4> QED BY <4>1, <1>1, <1>8 DEF WorkerFlag
    <3> QED BY <3>1, <3>2
  <2> QED BY <2>1, <2>2, <2>3 DEF WorkerFlag
<1>16. Driven'
  <2>1. ASSUME NEW p \in Ops, p # o, Active(p)
        PROVE  IF operations[p].worker_started
               THEN \E u \in Workers : Runs(u, p)'
               ELSE \E u \in Requests : Runs(u, p)' \/ (pc'[u] = "ensure" /\ op'[u] = p)
    <3>1. \A u \in Tasks : pc[u] # "idle" => pc'[u] = pc[u] /\ op'[u] = op[u]
      BY <1>2, <1>10
    <3>2. \A u \in Tasks : Runs(u, p) => Runs(u, p)'
      BY <3>1, <1>11 DEF Runs
    <3> QED BY <2>1, <3>1, <3>2 DEF Driven, Tasks
  <2>2. Runs(t, o)'
    BY <1>2 DEF Runs, Running
  <2> QED BY <2>1, <2>2, <1>1, <1>3, <1>7, <1>8 DEF Driven
<1>17. GuardHeld'
  BY <1>1, <1>2 DEF GuardHeld, Guarded
<1> QED BY <1>9, <1>12, <1>13, <1>14, <1>15, <1>16, <1>17

LEMMA InitInv == Init => ControlInv
<1> SUFFICES ASSUME Init PROVE ControlInv
  OBVIOUS
<1>1. TypeOK
  BY InitType
<1>2. \A o \in Ops : ~is_present(o) /\ ~Active(o)
  BY AbsentType DEF Init, is_present, Active
<1>3. \A t \in Tasks : pc[t] = "idle"
  BY DEF Init
<1> QED BY <1>1, <1>2, <1>3, TasksAssumption
        DEF ControlInv, TaskShape, RunnerKeepsItsOperation, AtMostOneRunner, WorkerFlag,
            Disclosure, Driven, GuardHeld, Runs, Running, Guarded, Tasks

LEMMA NextInv == ControlInv /\ [Next]_vars => ControlInv'
<1> SUFFICES ASSUME ControlInv, [Next]_vars PROVE ControlInv'
  OBVIOUS
<1>1. ASSUME NEW t \in Tasks, RunStep(t) PROVE ControlInv'
  BY <1>1, BeginIterationInv, AcquireGuardInv, CancelCheckInv, ExecuteInv, ApplyInv, FinalizeInv
     DEF RunStep
<1>2. ASSUME NEW t \in Workers, clear_operation_worker_started(t) PROVE ControlInv'
  BY <1>2, ClearInv DEF Tasks
<1>3. ASSUME NEW t \in Requests, operation_response(t) PROVE ControlInv'
  BY <1>3, AnswerInv DEF operation_response
<1>4. ASSUME NEW t \in Requests,
             DeadlinePasses(t) \/ DeadlineReached(t) \/ ensure_operation_worker_running(t)
      PROVE  ControlInv'
  BY <1>4, DeadlinePassesInv, DeadlineReachedInv, EnsureInv DEF Tasks
<1>5. ASSUME NEW t \in Requests, NEW o \in Ops,
             start_write_operation(t, o) \/ get_operation(t, o) \/ cancel_operation(t, o)
      PROVE  ControlInv'
  BY <1>5, StartInv, GetInv, CancelInv DEF Tasks
<1>6. CASE UNCHANGED vars
  <2>1. TypeOK'
    BY <1>6 DEF ControlInv, TypeOK
  <2> QED BY <1>6, <2>1, UnaffectedInv
<1> QED BY <1>1, <1>2, <1>3, <1>4, <1>5, <1>6 DEF Next

\* The control invariant holds in every reachable state.
THEOREM ControlInvariant == Spec => []ControlInv
BY InitInv, NextInv, PTL DEF Spec

\* Every variable keeps its type, for any number of operations and tasks.
THEOREM TypeCorrect == Spec => []TypeOK
<1>1. ControlInv => TypeOK
  BY DEF ControlInv
<1> QED BY <1>1, ControlInvariant, PTL

\* However inline requests, background workers, polls and cancellations
\* interleave, an operation is never run by two tasks at once.
THEOREM SingleRunner == Spec => []AtMostOneRunner
<1>1. ControlInv => AtMostOneRunner
  BY DEF ControlInv
<1> QED BY <1>1, ControlInvariant, PTL

\* No runner ever finds its operation evicted or already finished, whatever
\* operation_max_entries is: the error path of run_operation_worker, and
\* fail_operation with it, is dead.
THEOREM RunnersNeverFail == Spec => []RunnerKeepsItsOperation
<1>1. ControlInv => RunnerKeepsItsOperation
  BY DEF ControlInv
<1> QED BY <1>1, ControlInvariant, PTL

\* The units of operations on one account are executed one at a time.
THEOREM Serialised == Spec => []AccountSerialised
<1>1. ControlInv => AccountSerialised
  BY DEF ControlInv, GuardHeld, AccountSerialised
<1> QED BY <1>1, ControlInvariant, PTL

\* No accepted operation is left without a task that drives it to its end.
THEOREM NeverOrphaned == Spec => []NoOrphan
<1>1. ControlInv => NoOrphan
  BY DEF ControlInv, Driven, NoOrphan, Active, Tasks
<1> QED BY <1>1, ControlInvariant, PTL

=============================================================================
