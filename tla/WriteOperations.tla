--------------------------- MODULE WriteOperations ---------------------------
(***************************************************************************)
(* The write-operation engine of one MailImapServer: the table of stored   *)
(* operations, the per-account write locks, the request that creates an    *)
(* operation and runs it inline until its time budget is used up, the      *)
(* background worker that takes over, and the get and cancel requests that *)
(* poll it.  Every action is one critical section of the code: what        *)
(* happens between taking and dropping the operations mutex, or one await. *)
(*                                                                         *)
(* The units of an operation are its message groups; imap_manage_mailbox   *)
(* is an operation of one unit, its completed flag being                   *)
(* next_group_index = 1.  What executing a unit does to the IMAP server is *)
(* abstracted to one outcome per unit.                                     *)
(***************************************************************************)
EXTENDS Naturals, Sequences, FiniteSets

CONSTANTS
  Ops,          \* operation ids (UUIDs); the number bounds how many are created
  Accounts,     \* account ids
  AccountOf,    \* the account of the request that gets the id
  UnitsOf,      \* the number of groups that request is split into
  Requests,     \* slots for tool calls in progress; bounds their concurrency
  Workers,      \* slots for spawned worker tasks
  NoTask,       \* no task holds the lock
  MaxEntries    \* config.operation_max_entries

ASSUME OpsAssumption == Ops \subseteq Nat \ {0}
ASSUME InputsAssumption ==
  /\ AccountOf \in [Ops -> Accounts]
  /\ UnitsOf \in [Ops -> Nat \ {0}]
ASSUME TasksAssumption ==
  /\ Requests \cap Workers = {}
  /\ NoTask \notin Requests \cup Workers
ASSUME EntriesAssumption == MaxEntries \in Nat

VARIABLES
  operations,           \* the operations map; state "absent" is a missing key
  account_write_locks,  \* who holds each account's mutex
  pc,                   \* where each task is
  op,                   \* the operation each task is about, 0 if none
  step,                 \* the unit a runner has chosen to execute
  late,                 \* the inline deadline of a request has passed
  clock,                \* wall clock, as far as finished_at tells it
  created,              \* ids handed out by Uuid::new_v4
  known,                \* ids some response has disclosed to the client
  effects               \* history: how often each unit was sent to the server

table == <<operations, created, clock>>
vars == <<operations, account_write_locks, pc, op, step, late, clock, created,
          known, effects>>

Tasks == Requests \cup Workers
Units(o) == 1..UnitsOf[o]

-----------------------------------------------------------------------------
(* The stored operation.                                                   *)

Terminal == {"ok", "partial", "failed", "canceled"}
OperationState == {"pending", "running", "cancel_requested"} \cup Terminal

UnitOutcome == {"ok", "mixed", "failed"}
UnitResult == UnitOutcome \cup {"none", "canceled"}

StoredOperation(o) ==
  [state: OperationState \cup {"absent"},
   next_group_index: Nat,
   results: [Units(o) -> UnitResult],
   worker_started: BOOLEAN,
   finished_at: Nat]

Absent(o) ==
  [state |-> "absent", next_group_index |-> 0,
   results |-> [i \in Units(o) |-> "none"],
   worker_started |-> FALSE, finished_at |-> 0]

is_present(o) == operations[o].state # "absent"
is_terminal(o) == operations[o].state \in Terminal

\* Faulty: the slice starts at the group applied last.
RemainingFromLast(o) == {i \in Units(o) : i >= operations[o].next_group_index}

\* The groups of this operation not yet applied: groups[next_group_index..].
Remaining(o) == {i \in Units(o) : i > operations[o].next_group_index}

\* Faulty: the entries go in the order of the map's keys.
OlderById(T, p, q) == p < q

\* evict_completed_operations: of the terminal operations, drop as many as
\* exceed the limit, in order of finished_at and then of operation id.
Older(T, p, q) ==
  \/ T[p].finished_at < T[q].finished_at
  \/ T[p].finished_at = T[q].finished_at /\ p < q

\* Faulty: every stored operation counts, finished or not.
Stored(T) == {o \in Ops : T[o].state # "absent"}

Completed(T) == {o \in Ops : T[o].state \in Terminal}

EvictedFrom(T) ==
  {o \in Completed(T) :
     Cardinality({p \in Completed(T) : Older(T, p, o)}) + MaxEntries
       < Cardinality(Completed(T))}

evict_completed_operations(T) ==
  [o \in Ops |-> IF o \in EvictedFrom(T) THEN Absent(o) ELSE T[o]]

\* Faulty: the label of a group's results is stored as the state.
LabelOfResults(results) ==
  IF \A i \in DOMAIN results : results[i] = "ok" THEN "ok" ELSE "mixed"

\* build_bulk_message_response: "ok" without issues, else "partial" as soon
\* as one message succeeded, else "failed".
operation_result_status(results) ==
  IF \A i \in DOMAIN results : results[i] = "ok" THEN "ok"
  ELSE IF \E i \in DOMAIN results : results[i] \in {"ok", "mixed"} THEN "partial"
  ELSE "failed"

-----------------------------------------------------------------------------
(* Control of the tasks.                                                   *)

\* Inside run_operation_until; the account guard is held at the Guarded ones.
Running == {"loop", "lock", "check", "execute", "apply", "finalize",
            "finalize_guarded"}
Guarded == {"check", "execute", "apply", "finalize_guarded"}
\* "error" is where a lookup of run_operation_until finds no operation.
ProgramCounter == {"idle", "ensure", "respond", "clear", "error"} \cup Running

Goto(t, label) == pc' = [pc EXCEPT ![t] = label]

\* What follows run_operation_until: start_write_operation makes sure that a
\* worker runs, run_operation_worker clears worker_started.
AfterRun(t) == IF t \in Requests THEN "ensure" ELSE "clear"

ReleaseGuard(t) ==
  account_write_locks' = [account_write_locks EXCEPT ![AccountOf[op[t]]] = NoTask]

Init ==
  /\ operations = [o \in Ops |-> Absent(o)]
  /\ account_write_locks = [a \in Accounts |-> NoTask]
  /\ pc = [t \in Tasks |-> "idle"]
  /\ op = [t \in Tasks |-> 0]
  /\ step = [t \in Tasks |-> 0]
  /\ late = [t \in Requests |-> FALSE]
  /\ clock = 0
  /\ created = {}
  /\ known = {}
  /\ effects = [o \in Ops |-> [i \in Units(o) |-> 0]]

-----------------------------------------------------------------------------
(* The request that creates an operation.                                  *)

\* start_write_operation up to its first await on the run: create_operation.
\* The preflight before it talks to the IMAP server only and may fail; the
\* request then ends without having touched any of this state.
start_write_operation(t, o) ==
  /\ pc[t] = "idle" /\ t \in Requests /\ o \notin created
  /\ operations' = evict_completed_operations(
                     [operations EXCEPT ![o] = [Absent(o) EXCEPT !.state = "pending"]])
  /\ created' = created \cup {o}
  /\ op' = [op EXCEPT ![t] = o]
  /\ Goto(t, "loop")
  /\ UNCHANGED <<account_write_locks, step, late, clock, known, effects>>

\* WRITE_INLINE_BUDGET_MS after the operation was created.
DeadlinePasses(t) ==
  /\ t \in Requests /\ pc[t] \in Running /\ ~late[t]
  /\ late' = [late EXCEPT ![t] = TRUE]
  /\ UNCHANGED <<table, account_write_locks, pc, op, step, known, effects>>

\* Faulty: returns to the client without handing over to a worker.
ReturnsWithoutWorker(t) ==
  /\ t \in Requests /\ pc[t] = "loop" /\ late[t]
  /\ Goto(t, "respond")
  /\ UNCHANGED <<table, account_write_locks, op, step, late, known, effects>>

\* The top of the loop: an inline run past its deadline stops there.
DeadlineReached(t) ==
  /\ t \in Requests /\ pc[t] = "loop" /\ late[t]
  /\ Goto(t, "ensure")
  /\ UNCHANGED <<table, account_write_locks, op, step, late, known, effects>>

-----------------------------------------------------------------------------
(* run_operation_until, by an inline request or by a worker.               *)

\* next_operation_step: nothing to do once canceled or past the last group.
next_operation_step(state, index, o) ==
  IF state = "cancel_requested" \/ index >= UnitsOf[o] THEN 0 ELSE index + 1

\* Faulty: a pending cancellation is overwritten.
SetsRunning(state) == "running"

\* The state a run leaves behind when it picks up its next unit.
RunningState(state) == IF state = "cancel_requested" THEN state ELSE "running"

\* The section under the operations mutex that opens an iteration.
BeginIteration(t) ==
  LET o    == op[t]
      st   == RunningState(operations[o].state)
      next == next_operation_step(st, operations[o].next_group_index, o)
  IN
  /\ pc[t] = "loop"
  /\ t \in Requests => ~late[t]
  /\ IF ~is_present(o) THEN Goto(t, "error") /\ UNCHANGED <<operations, step>>
     ELSE IF is_terminal(o) THEN Goto(t, AfterRun(t)) /\ UNCHANGED <<operations, step>>
     ELSE /\ operations' = [operations EXCEPT ![o].state = st]
          /\ step' = [step EXCEPT ![t] = next]
          /\ Goto(t, IF next = 0 THEN "finalize" ELSE "lock")
  /\ UNCHANGED <<account_write_locks, op, late, clock, created, known, effects>>

\* Faulty: the guard is a temporary and is dropped as soon as it is taken.
GuardDroppedAtOnce(t) ==
  /\ pc[t] = "lock" /\ account_write_locks[AccountOf[op[t]]] = NoTask
  /\ Goto(t, "check")
  /\ UNCHANGED <<table, account_write_locks, op, step, late, known, effects>>

\* account_lock.lock().await
AcquireGuard(t) ==
  /\ pc[t] = "lock" /\ account_write_locks[AccountOf[op[t]]] = NoTask
  /\ account_write_locks' = [account_write_locks EXCEPT ![AccountOf[op[t]]] = t]
  /\ Goto(t, "check")
  /\ UNCHANGED <<table, op, step, late, known, effects>>

\* operation_cancel_requested, with the guard held.
operation_cancel_requested(t) ==
  /\ pc[t] = "check"
  /\ IF ~is_present(op[t]) THEN Goto(t, "error") /\ ReleaseGuard(t)
     ELSE /\ Goto(t, IF operations[op[t]].state = "cancel_requested"
                     THEN "finalize_guarded" ELSE "execute")
          /\ UNCHANGED account_write_locks
  /\ UNCHANGED <<table, op, step, late, known, effects>>

\* The commands of the unit take effect on the IMAP server, all or some.
execute_operation_step(t) ==
  /\ pc[t] = "execute"
  /\ effects' = [effects EXCEPT ![op[t]][step[t]] = @ + 1]
  /\ Goto(t, "apply")
  /\ UNCHANGED <<table, account_write_locks, op, step, late, known>>

\* Record the outcome of the unit and drop the guard at the end of the body.
apply_operation_step_outcome(t) ==
  /\ pc[t] = "apply"
  /\ IF ~is_present(op[t]) THEN Goto(t, "error") /\ UNCHANGED operations
     ELSE /\ \E outcome \in UnitOutcome :
               operations' = [operations EXCEPT
                 ![op[t]].results[step[t]] = outcome,
                 ![op[t]].next_group_index = @ + 1]
          /\ Goto(t, "loop")
  /\ ReleaseGuard(t)
  /\ UNCHANGED <<op, step, late, clock, created, known, effects>>

\* finalize_operation, reached with or without the account guard.
finalize_operation(t) ==
  LET o        == op[t]
      canceled == operations[o].state = "cancel_requested"
      results  == [i \in Units(o) |-> IF canceled /\ i \in Remaining(o)
                                      THEN "canceled" ELSE operations[o].results[i]]
  IN
  /\ pc[t] \in {"finalize", "finalize_guarded"}
  /\ IF ~is_present(o) THEN Goto(t, "error") /\ UNCHANGED <<operations, clock>>
     ELSE IF is_terminal(o) THEN Goto(t, AfterRun(t)) /\ UNCHANGED <<operations, clock>>
     ELSE /\ clock' \in {clock, clock + 1}
          /\ operations' = evict_completed_operations(
               [operations EXCEPT ![o] =
                 [@ EXCEPT !.state = IF canceled THEN "canceled"
                                     ELSE operation_result_status(results),
                           !.results = results,
                           !.worker_started = FALSE,
                           !.finished_at = clock']])
          /\ Goto(t, AfterRun(t))
  /\ IF pc[t] = "finalize_guarded" THEN ReleaseGuard(t)
     ELSE UNCHANGED account_write_locks
  /\ UNCHANGED <<op, step, late, created, known, effects>>

\* The end of run_operation_worker.  Its second half, fail_operation, runs
\* only after a run that ended in "error", where no run ever ends.
clear_operation_worker_started(t) ==
  /\ t \in Workers /\ pc[t] = "clear"
  /\ operations' = IF is_present(op[t])
                   THEN [operations EXCEPT ![op[t]].worker_started = FALSE]
                   ELSE operations
  /\ Goto(t, "idle")
  /\ op' = [op EXCEPT ![t] = 0]
  /\ step' = [step EXCEPT ![t] = 0]
  /\ UNCHANGED <<account_write_locks, late, clock, created, known, effects>>

-----------------------------------------------------------------------------
(* What a request does before it answers, and the polling requests.        *)

\* The response, and the not_found error too, disclose the id.
Answer(t) ==
  /\ Goto(t, "idle")
  /\ op' = [op EXCEPT ![t] = 0]
  /\ step' = [step EXCEPT ![t] = 0]
  /\ late' = [late EXCEPT ![t] = FALSE]
  /\ known' = known \cup {op[t]}

\* Faulty: a worker is spawned whether or not one runs already.
MarksAnyActive(o) == ~is_terminal(o)

\* try_mark_operation_worker_started, once the operation is found.
WorkerNeeded(o) == ~is_terminal(o) /\ ~operations[o].worker_started

\* ensure_operation_worker_running: mark and spawn, or answer not_found.
ensure_operation_worker_running(t) ==
  /\ t \in Requests /\ pc[t] = "ensure"
  /\ IF ~is_present(op[t]) THEN Answer(t) /\ UNCHANGED operations
     ELSE IF ~WorkerNeeded(op[t])
     THEN Goto(t, "respond") /\ UNCHANGED <<operations, op, step, late, known>>
     ELSE \E w \in Workers :
            /\ pc[w] = "idle"
            /\ operations' = [operations EXCEPT ![op[t]].worker_started = TRUE]
            /\ pc' = [pc EXCEPT ![t] = "respond", ![w] = "loop"]
            /\ op' = [op EXCEPT ![w] = op[t]]
            /\ UNCHANGED <<step, late, known>>
  /\ UNCHANGED <<account_write_locks, clock, created, effects>>

\* operation_response: a snapshot of the operation, or not_found.
operation_response(t) ==
  /\ t \in Requests /\ pc[t] = "respond"
  /\ Answer(t)
  /\ UNCHANGED <<table, account_write_locks, effects>>

get_operation(t, o) ==
  /\ t \in Requests /\ pc[t] = "idle" /\ o \in known
  /\ op' = [op EXCEPT ![t] = o]
  /\ Goto(t, "ensure")
  /\ UNCHANGED <<table, account_write_locks, step, late, known, effects>>

\* A missing operation is answered not_found at once.
cancel_operation(t, o) ==
  /\ t \in Requests /\ pc[t] = "idle" /\ o \in known /\ is_present(o)
  /\ operations' = IF is_terminal(o) THEN operations
                   ELSE [operations EXCEPT ![o].state = "cancel_requested"]
  /\ op' = [op EXCEPT ![t] = o]
  /\ Goto(t, "ensure")
  /\ UNCHANGED <<account_write_locks, step, late, clock, created, known, effects>>

-----------------------------------------------------------------------------
RunStep(t) ==
  \/ BeginIteration(t)
  \/ AcquireGuard(t)
  \/ operation_cancel_requested(t)
  \/ execute_operation_step(t)
  \/ apply_operation_step_outcome(t)
  \/ finalize_operation(t)

Next ==
  \/ \E t \in Tasks : RunStep(t)
  \/ \E t \in Workers : clear_operation_worker_started(t)
  \/ \E t \in Requests :
       \/ DeadlinePasses(t)
       \/ DeadlineReached(t)
       \/ ensure_operation_worker_running(t)
       \/ operation_response(t)
       \/ \E o \in Ops : \/ start_write_operation(t, o)
                         \/ get_operation(t, o)
                         \/ cancel_operation(t, o)

Spec == Init /\ [][Next]_vars

\* The runtime polls every task that can proceed, and every network command
\* has a timeout; the mutexes of tokio are first come first served, so a task
\* that waits for a guard that keeps being released gets it in the end.
\* Nobody has to send a request, and a deadline may come at any time.
Fairness ==
  /\ \A t \in Tasks : WF_vars(RunStep(t)) /\ SF_vars(AcquireGuard(t))
  /\ \A t \in Workers : WF_vars(clear_operation_worker_started(t))
  /\ \A t \in Requests :
       /\ WF_vars(DeadlineReached(t))
       /\ WF_vars(ensure_operation_worker_running(t))
       /\ WF_vars(operation_response(t))

FairSpec == Spec /\ Fairness

-----------------------------------------------------------------------------
(* Properties.                                                             *)

TypeOK ==
  /\ operations = [o \in Ops |-> operations[o]]
  /\ \A o \in Ops : operations[o] \in StoredOperation(o)
  /\ account_write_locks \in [Accounts -> Tasks \cup {NoTask}]
  /\ pc \in [Tasks -> ProgramCounter]
  /\ op \in [Tasks -> Ops \cup {0}]
  /\ step \in [Tasks -> Nat]
  /\ late \in [Requests -> BOOLEAN]
  /\ clock \in Nat
  /\ created \subseteq Ops
  /\ known \subseteq created
  /\ effects = [o \in Ops |-> effects[o]]
  /\ \A o \in Ops : effects[o] \in [Units(o) -> Nat]

Runs(t, o) == pc[t] \in Running /\ op[t] = o

\* An operation is driven by one task at a time: the inline request and the
\* background worker, or two workers spawned by concurrent polls, are never
\* in run_operation_until for the same operation.
AtMostOneRunner ==
  \A o \in Ops : \A t, u \in Tasks : Runs(t, o) /\ Runs(u, o) => t = u

\* The operation a task is running is neither evicted nor finished under it,
\* so no lookup in run_operation_until fails and fail_operation never runs.
RunnerKeepsItsOperation ==
  \A t \in Tasks :
    /\ pc[t] # "error"
    /\ pc[t] \in Running => is_present(op[t]) /\ ~is_terminal(op[t])

\* account_write_locks: no two units of operations on one account are between
\* the cancellation check and the recording of their outcome together.
AccountSerialised ==
  \A t, u \in Tasks :
    /\ pc[t] \in Guarded /\ pc[u] \in Guarded
    /\ AccountOf[op[t]] = AccountOf[op[u]]
    => t = u

\* An accepted operation that is not finished is being driven by a task, or
\* the request that will see to that is on its way: nothing but luck would
\* make a client poll an operation whose runner was lost.
NoOrphan ==
  \A o \in Ops : is_present(o) /\ ~is_terminal(o) =>
    \/ \E t \in Tasks : Runs(t, o)
    \/ \E t \in Requests : pc[t] = "ensure" /\ op[t] = o

\* The results of a finished operation are what happened: a unit reported as
\* canceled ("operation was canceled before this item ran") was never sent to
\* the server, every other one was sent once, and none is left without result.
ReportIsTruthful ==
  \A o \in Ops : is_terminal(o) =>
    \A i \in Units(o) :
      /\ operations[o].results[i] # "none"
      /\ effects[o][i] = IF operations[o].results[i] = "canceled" THEN 0 ELSE 1

\* MAIL_IMAP_OPERATION_MAX_ENTRIES bounds the completed operations, however
\* the operations of concurrent requests finish.
CompletedBounded ==
  Cardinality({o \in Ops : is_terminal(o)}) <= MaxEntries

\* "The oldest completed operations are evicted first": no operation goes
\* while one that finished before it stays, the operation that is finishing
\* in this very step included (on a tie it may be the one to go).
FinishTime(o) == IF is_terminal(o) THEN operations[o].finished_at ELSE clock'

EvictsOldestFirst ==
  [][\A o, p \in Ops :
       /\ is_present(o) /\ operations'[o].state = "absent"
       /\ operations'[p].state \in Terminal
       => FinishTime(o) <= operations'[p].finished_at]_vars

\* WRITE_INLINE_BUDGET_MS is the "maximum wall-clock budget for inline write
\* execution before switching to background mode": a request past its
\* deadline sends no further unit to the server.
InlineBudgetRespected ==
  [][\A t \in Requests : pc[t] = "check" /\ pc'[t] = "execute" => ~late[t]]_vars

\* Every accepted operation finishes, whatever the client does afterwards.
EveryOperationFinishes ==
  \A o \in Ops :
    o \in created ~> (~is_present(o) \/ is_terminal(o))

-----------------------------------------------------------------------------
(* The inductive invariant behind the properties above.                    *)

Active(o) == is_present(o) /\ ~is_terminal(o)

\* A task that is not idle is about an operation that was created.
TaskShape ==
  \A t \in Tasks :
    /\ pc[t] # "idle" => op[t] \in created
    /\ pc[t] \in {"ensure", "respond"} => t \in Requests
    /\ pc[t] = "clear" => t \in Workers

\* worker_started tells the runs of workers from the inline runs, and nobody
\* but its creator has heard of an operation that still runs inline.
WorkerFlag ==
  /\ \A t \in Workers :
       /\ pc[t] \in Running => operations[op[t]].worker_started
       /\ pc[t] = "clear" => ~Active(op[t])
  /\ \A t \in Requests :
       pc[t] \in Running => ~operations[op[t]].worker_started /\ op[t] \notin known

\* Two requests are about the same operation only once its id is disclosed.
Disclosure ==
  \A t, u \in Requests :
    t # u /\ pc[t] # "idle" /\ pc[u] # "idle" /\ op[t] = op[u] => op[t] \in known

\* The flag of an active operation tells who drives it.
Driven ==
  \A o \in Ops : Active(o) =>
    IF operations[o].worker_started
    THEN \E t \in Workers : Runs(t, o)
    ELSE \E t \in Requests : Runs(t, o) \/ (pc[t] = "ensure" /\ op[t] = o)

GuardHeld ==
  \A t \in Tasks : pc[t] \in Guarded => account_write_locks[AccountOf[op[t]]] = t

ControlInv ==
  /\ TypeOK
  /\ \A o \in Ops : is_present(o) => o \in created
  /\ TaskShape
  /\ RunnerKeepsItsOperation
  /\ AtMostOneRunner
  /\ WorkerFlag
  /\ Disclosure
  /\ Driven
  /\ GuardHeld

\* A runner works on the unit after the last one applied, and finalizes an
\* operation that was canceled or has no unit left.
ProgressOf(t) ==
  LET o == op[t] IN
  /\ pc[t] \in {"lock", "check", "execute", "apply"} =>
       step[t] \in Units(o) /\ step[t] = operations[o].next_group_index + 1
  /\ pc[t] = "finalize" =>
       \/ operations[o].state = "cancel_requested"
       \/ operations[o].next_group_index >= UnitsOf[o]
  /\ pc[t] = "finalize_guarded" => operations[o].state = "cancel_requested"

Progress == \A t \in Tasks : ProgressOf(t)

Applying(o) == \E t \in Tasks : Runs(t, o) /\ pc[t] = "apply"

\* The units up to next_group_index were sent to the server and answered, the
\* next one may have been sent, and no other was.
Ledger ==
  \A o \in Ops :
    /\ o \notin created => \A i \in Units(o) : effects[o][i] = 0
    /\ Active(o) => \A i \in Units(o) :
         IF i <= operations[o].next_group_index
         THEN operations[o].results[i] \in UnitOutcome /\ effects[o][i] = 1
         ELSE /\ operations[o].results[i] = "none"
              /\ effects[o][i] = IF i = operations[o].next_group_index + 1 /\ Applying(o)
                                 THEN 1 ELSE 0

Inv == ControlInv /\ Progress /\ Ledger /\ ReportIsTruthful

\* No unit is applied that is not there, an evicted entry leaves nothing, and
\* a step leaves no more finished operations than eviction allows, of finitely
\* many that were created.
Retention ==
  /\ IsFiniteSet(created)
  /\ \A o \in Ops : operations[o].next_group_index <= UnitsOf[o]
  /\ \A o \in Ops : ~is_present(o) => operations[o].next_group_index = 0
  /\ CompletedBounded

FullInv == Inv /\ Retention

-----------------------------------------------------------------------------
(* The engine implements the contract of the write tools.                  *)

PhaseOf(o) ==
  CASE o \notin created -> "none"
    [] o \in created /\ ~is_present(o) -> "forgotten"
    [] operations[o].state \in {"pending", "running"} -> "active"
    [] operations[o].state = "cancel_requested" -> "canceling"
    [] OTHER -> operations[o].state

InFlight(o) == \E t \in Tasks : pc[t] \in {"execute", "apply"} /\ op[t] = o

Contract == INSTANCE OperationContract WITH
  Retained <- MaxEntries,
  phase    <- [o \in Ops |-> PhaseOf(o)],
  log      <- [o \in Ops |-> SubSeq(operations[o].results, 1, operations[o].next_group_index)],
  inflight <- [o \in Ops |-> InFlight(o)]

\* What inline requests, background workers, polls, cancellations and
\* evictions do together is a behaviour of OperationContract.
ImplementsContract == Contract!Spec

=============================================================================
