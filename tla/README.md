# Verification of mail-imap-mcp-rs

`mail-imap-mcp-rs` is an MCP server that gives language-model clients access to
IMAP mailboxes: read tools, paged searches, and write tools whose work may go on
in the background. This directory holds TLA+ models of the parts of it that are
hard to test, the TLC configurations that check them, and theorems about them
checked by TLAPS. All definitions are translations of the Rust source; names are
the source's wherever TLA+ allows it. Source paths below are relative to the
repository root.

## 1. The system

One `MailImapServer` (`src/server.rs`) serves one client session: one per process
over stdio, one per HTTP session (`src/main.rs:165-174`). The tool calls of a
client run concurrently as tasks of one tokio runtime, and share four tables, each
behind a tokio mutex:

| State | Where | Who touches it |
|---|---|---|
| `operations` | `server.rs:48`, `server/write_ops.rs` | write tools, `imap_get_operation`, `imap_cancel_operation`, background workers |
| `account_write_locks` | `server.rs:49`, `write_ops.rs:576` | whoever executes a unit of an operation |
| `cursors` | `pagination.rs` | `imap_search_messages` |
| `read_sessions` | `server/session_cache.rs` | the four read tools |

### Components

**Write operation engine** (`server/write_ops.rs:44-694`, `server/types.rs`).
*State:* for every operation its state (pending, running, cancel_requested, ok,
partial, failed, canceled), how many message groups have been applied, their
results, whether a worker was started, when it finished. *Operations:* a write
tool validates, checks its mailboxes on the server, creates an operation and runs
it inline for up to 1.5 s; what is left goes to a spawned worker. Each iteration
takes the operations mutex to choose the next group, waits for the account's
mutex, looks for a cancellation, executes the group, and takes the operations
mutex again to record the outcome. `imap_get_operation` and
`imap_cancel_operation` read or mark the entry and make sure a worker runs.
Completed entries beyond a limit are evicted. *Hard:* creator, worker and polling
calls interleave at every await; the decision which group comes next is stale by
the time the account lock is obtained; cancellations arrive at any point. *Correct
when* nothing runs twice, nothing is forgotten, writes of an account do not
overlap, and the report is what happened.

**Execution of groups** (`write_ops.rs:769-1150`, `imap.rs`). Move, copy, delete
and flag changes of one mailbox's messages, as sequences of IMAP commands on a
session kept for the run. *Hard:*
partial failure (MOVE replaced by COPY, STORE, EXPUNGE), time-outs with unknown
effect, the cached selected mailbox. *Correct when* only messages the client named
are acted on, none is lost, and results say what was done.

**Mailbox actions** (`write_ops.rs:73-116`, `174-245`, `696-767`, `imap.rs:189-319`).
`imap_manage_mailbox` creates, renames and deletes mailboxes: a preflight on a
connection of its own, then the unit of the operation, which asks for the hierarchy
delimiter, creates the parents one by one and sends the command itself. *Hard:* the
account locks of one HTTP session do not hold for another, so two sessions may work
on one path; a command that was given up may be carried out at any later time;
parents made before a failure stay. *Correct when* "ok" means that the mailboxes are
as asked, and an action that could be carried out does not fail for what it made
itself, or for what another call made in the same way.

**Cursor store and paged search** (`pagination.rs`, `server/read.rs:129-342`,
`761-935`). *State:* per cursor the snapshot a search found, the offset of the
next page, an expiry. *Operations:* create, get, update_offset, delete, with
cleanup of expired and eviction of surplus entries. *Hard:* a request holds the
store twice and fetches a page from the server in between; requests may overlap on
one cursor; the cursor may expire, be evicted or be deleted meanwhile; mailboxes
may be recreated. *Correct when* no message is skipped, no page mixes snapshots,
and the store stays bounded and evicts the least recently used.

**Read session cache** (`server/session_cache.rs`, `server.rs:269-293`,
`server/read.rs:48-745`). *State:* idle authenticated sessions per account with
the time of their last use. *Operations:* check-out (prune, take the newest, probe
with NOOP, else connect) and put-back (prune, keep if there is room, else log out).
*Hard:* a command given up at its time-out leaves its answer in the stream; each
handler decides by its own rule whether its session may be used again; the server
drops connections at any time. *Correct when* no out-of-step session is kept, none
is shared or leaked, limits hold and the check-out loop ends.

**Functions of the input** keep no state: message identifiers and the uid sets made
of them (`message_id.rs`, `validation.rs:148-192`, `write_ops.rs:1189-1232`), search
filters and the query made of them (`validation.rs:72-125`, `247-340`), the walk over
the MIME parts of a message (`mime.rs:74-226`), and mailbox names on the wire and off
it (`mailbox_codec.rs`). *Hard:* boundaries (the largest uid, the last day of a
period, the last attachment), several spellings of one thing, and names that pass
through client and server and back. *Correct when* each result means what the input
means.

**Configuration, transport, errors** (`config.rs`, `main.rs`, `errors.rs`,
`models.rs`): start-up code, the stdio and HTTP transports of a library, error values
and schemas.

`PROJECT.json` lists the components with their status, the hazards at the lines
where they bite, and for each definition of the models the lines it stands for.

## 2. Modules

| Module | Contents |
|---|---|
| `WriteOperations` | the operation engine; tasks are requests and workers with a program counter, one action per critical section or await |
| `OperationContract` | the promise to the client, without tasks, locks or table |
| `MCWriteOperations` | instances for TLC |
| `WriteOperationsProofs` | the control invariant and its consequences |
| `WriteLedgerProofs` | the ledger of executed groups: reports are truthful; the bound on finished operations, and the order they are forgotten in; the engine implements `OperationContract` |
| `SearchCursors` | cursor store and search requests |
| `MCSearchCursors` | instances for TLC |
| `SearchCursorsProofs` | the inductive invariant of cursors; the bound of the store, what it evicts and what it keeps; serial clients |
| `ReadSessions` | the session cache and the read tools that use it |
| `MCReadSessions` | instances for TLC |
| `ReadSessionsProofs` | where sessions are, and in what condition |
| `GroupExecution` | preflight and the commands of one operation's message groups, against the mailboxes of a server |
| `MCGroupExecution` | instance for TLC |
| `GroupExecutionProofs` | what reports and stages say of each message; the execution of groups implements `OperationContract` too |
| `MailboxActions` | `imap_manage_mailbox` command by command, for concurrent MCP sessions on one server |
| `MCMailboxActions` | instance for TLC |
| `MailboxActionsProofs` | trees of mailboxes, and what becomes of them while an action runs |
| `MessageIds` | identifiers parsed, written, checked in bulk, grouped, and made into uid sets |
| `SearchInputs` | search filters checked and made into a query |
| `MimeParts` | the walk over the parts of a message, the choice of bodies and attachments |
| `MailboxNames` | modified UTF-7 decoded, encoded, compared |
| `CallInputs` | identifiers, filters and names behind the tools that take them, one call at a time, and what the results ought to mean |
| `CallInputsProofs` | that they mean it |
| `ToolInputs` | `CallInputs` and `imap_get_message`, with the parts of a message |
| `ToolInputsProofs` | that `imap_get_message` reports what its message has, and that the promises of `CallInputs` hold beside it |
| `MCToolInputs` | inputs for TLC |

Operators named *Faulty* in a comment are mutations, each the way a bug might look;
they are used by no other definition. Replacing the definition below them by
one makes TLC report the property that guards against it (`mutants` in
`PROJECT.json`).

### WriteOperations and the code

A task's `pc` tells where in `start_write_operation`, `run_operation_until`,
`run_operation_worker`, `get_operation_impl` or `cancel_operation_impl` it is:

| `pc` | About to |
|---|---|
| `loop` | check the deadline, then choose the next group (`BeginIteration`) |
| `lock` | obtain the account's mutex (`AcquireGuard`) |
| `check` | look for a cancellation with the guard held |
| `execute`, `apply` | send the group to the server; record the outcome and drop the guard |
| `finalize`, `finalize_guarded` | finalize, without or with the guard |
| `ensure`, `respond` | make sure that a worker runs; build the answer |
| `clear` | clear `worker_started` at the end of a worker |
| `error` | where a lookup finds no operation: proved unreachable |

An operation is its groups, numbered from 1; `imap_manage_mailbox` is one group.
What a group did is one of three outcomes: all its messages ok, some ok, none ok.
Validation and preflight come before any shared state and appear only as a request
that never creates an operation. `finished_at` is a logical clock that may stand
still, for two operations may finish in the same second; ids order ties, as in
`evict_completed_operations`. `known` are the ids a client has seen: only those can
be polled. `effects` counts how often each group was sent to the server, a history
variable no guard reads. `fail_operation` is not an action: it is called after a run
that ended in `error`, and `RunnersNeverFail` proves that there is none.

### OperationContract

The refinement (`Contract` in `WriteOperations`) maps the state of an entry to a
phase, the results recorded so far to a log, and a guard held by a task that sends
a group to `inflight`. The contract says that groups run in order and once, alone
on their account, that a cancellation lets only the group already in flight go
on, that the final state is the verdict of the log, and that finished operations
never change and are forgotten only beyond the limit. The bound on finished operations
is part of it.

`GroupExecution` implements the same contract, with one operation in the place of many:
the operations are the selections a client might name, of which it names one, and the
outcomes in the log are read off the results of messages (`Outcomes`). The engine knows a
group by its outcome alone and takes that as given; `GroupExecution` has the messages
behind it. That both are behaviours of one contract says that nothing is lost between the
two: each group has one outcome, which nothing that comes after it changes (a later group,
a cancellation, a hand-over to a worker), and the state `build_bulk_message_response`
counts message by message (`operation_state`) is the verdict of outcomes group by group.

### SearchCursors and the code

A request goes from `select_mailbox_readonly` to `snapshot` (resume the cursor, with
the store locked, or search), to `page` (fetch), to `store` (create, update_offset
or delete, with the store locked). The uids of a search are their positions in
`uids_desc`. Failures before the store is touched end a request and change nothing;
a failed fetch does not: as in the code, the page counts as handed out. The store's
clock advances at any time. `history` records what was handed out under
each id, and `usage` when it was last used and whether it ended (exhausted, or its mailbox
gone): both are history variables.
`update_offset` renews whatever entry it finds, an expired one included, as the code does.
Eviction picks any set of the right size that expires first, for entries that expire
at the same instant come in hash-map order.

### ReadSessions and the code

A request's `pc` is the command whose answer it awaits. Each command succeeds, is
refused, finds the connection gone, or is given up; the action goes on the way the
handler does with that outcome, up to the choice of `reusable`. A session's
condition says whether an abandoned answer is still to come (`unread`) or the server
has closed it (`dropped`). Buckets are sequences; check-out pops the end.
A `UID FETCH` that brings nothing goes on to `existence_query`, the search by which
`fetch_one` words its error. NOOP is never refused, as RFC 3501 has it.

### GroupExecution and the code

One operation from `apply_to_messages_impl` or `update_message_flags_impl` to its
results; `pc` is the next IMAP command. `session`, `selected` and `supports_move` are
the `OperationExecutionContext`; `selected` also serves as the local cache of
`validate_group_uidvalidities` during preflight. `remaining` are the groups from
`next_group_index` on, taken in the order of the `BTreeMap` they come from. `HandOver`
is the end of the inline run between two groups (a worker has a new context), and a
cancellation between two groups is `append_canceled_message_results`. A message is its id; what another client puts
into a replaced mailbox has the new UIDVALIDITY, so that a uid taken for another
message shows. Copies are kept apart from the messages that have ids (`arrived`).
`touched` and `meddled` are history variables: what this operation's commands acted on,
and what other clients did. Adding flags stands for the three flag operations.

Assumptions about the server and the IMAP library, which are not part of the repository:
commands of a session are carried out in order; success is only reported by the answer
with the command's own tag, while a late refusal of an abandoned command may be taken
for the answer to the next, which is then reported as failed though it was carried out;
a refusal of any command reaches the code as an error, as its error mapping presumes;
uids that are not there are ignored (RFC 3501); MOVE moves each message entirely or
not at all (RFC 6851); and a failed command may have been carried out for any of its
messages. Two spellings of one mailbox name are not modelled.

Two consequences of the code that the properties leave room for: a group whose first
write failed is reported as *partial* even if nothing was done, which is why
`FailedMeansUntouched` goes one way only; and a flag change that was stored but whose
FETCH failed is reported as *failed*, which is why it leaves flag changes out.
A message that was already gone when its group ran is reported as *ok* by a move,
copy or deletion (`OkMeansDone` is about messages no other client touched).
The cached selection is never used between groups: an accepted operation has one group
per mailbox, so every group selects anew. `WritesInStep` depends on that.

### MailboxActions and the code

An MCP session over HTTP has a `MailImapServer` of its own (`main.rs:165-174`). Within
one, actions on an account come one after the other, as `WriteOperations` shows; two of
them share nothing but the IMAP server. `pc` is the next command: the preflight connects
and EXAMINEs what is to be renamed or deleted, then the unit connects again. Between the
two an operation may be canceled. `mailboxes` maps each name there is to the mailbox it
stands for, a name being the sequence of its levels; `parents` are the CREATEs
`create_parent_mailboxes` has still to send.

A command is carried out, refused, or given up: then it is `late`, and `CarriedOutLate`
may carry it out at any time, or never. Servers come in three styles. *flat* shows no
delimiter, so that the code creates no parents; *strict* refuses a mailbox without its
parent; *lenient* makes that too. A mailbox with others below it is not deleted, and is
renamed with them. A refused CREATE counts as a success when the server's answer says
that the mailbox exists: the model takes these words to be there exactly when it does.

`removed` and `added` are the names other sessions and late commands took away or made
since the action was asked for, `before` the mailboxes at that time, and `excused` tells
whether a command of the action met a fault: history variables no action of the code
reads, which say how much an answer can be held to.

### CallInputs, ToolInputs and the code

The functions are translated each for itself, and `CallInputs` and `ToolInputs` apply them
the way the tools do: `apply_to_messages` parses, dedupes, groups and builds uid sets;
`search_messages` validates and builds a query; `get_message` walks the message and
chooses; `name_mailbox` shows a name and sends it. Each property compares what comes out
with a definition of the meaning that knows nothing of the algorithm: which texts name a
message (`NamesMessage`), which uids a set denotes (`Denoted`), which messages a
server's SEARCH finds (`MatchesTerm`) and which the client asked for (`Asked`), where
the leaves of a message are (`Leaves`, in the order `Precedes`), which mailbox a command
reaches.

A message is the function from part ids to parts that its tree makes: a part is a leaf or
says how many parts it has, and `IsMessage` is what every tree of a parser satisfies.
`walk_parts` calls itself for the parts of a part, from the first to the last; `pending`
holds the calls that are still to come, `WalkStep` is one call, and `parse_message` builds
the answer when none is left, together with the flags, which may fail to be fetched.
`get_message` begins a walk; the messages of the model are ones `mailparse` accepts. The loops over
lists are recursive functions in the order of the code. `sort_unstable` is any
rearrangement in order, which is what its documentation promises. `CallSpec` is the
calls of `CallInputs` with steps to any other call in between; `Spec` of `ToolInputs`
implies it, since `get_message` calls a tool of another name.

Data are abstracted to what these tell apart. A text of an identifier is the sequence of
its segments between colons, and a numeral is a segment that stands for a number, of
which some have two spellings; `U32` ends at `MaxUid`, so that `end + 1` meets the end of
`u32`. Dates are days before the end of the calendar. An account id of a search is
well-formed or not, and a mailbox name has a control character, is too long
(`Oversized`), or neither. A body has words, is blank, or
cannot be decoded. In mailbox names, one letter is the base64 text of one character.

## 3. What is checked

Passing runs, all states of the instance:

| Run | Question | Instance |
|---|---|---|
| `operations` | `AtMostOneRunner`, `RunnerKeepsItsOperation`, `AccountSerialised`, `NoOrphan`, `ReportIsTruthful`, `EvictsOldestFirst`, and `ImplementsContract` | 2 operations on one account, of 2 groups and 1, 2 requests, 2 workers, room for 1 completed |
| `operations_live` | `EveryOperationFinishes` | 2 operations, 1 request, 2 workers |
| `groups` | `OnlyNamedTouched`, `WritesInStep`, `NothingLost`, `OkMeansDone`, `FailedMeansUntouched`, `StageTellsProgress`, `EveryMessageReported`, and `ImplementsContract` | 4 actions on 2 messages of a mailbox, on messages of 2 or 3, or of 2 UIDVALIDITYs; a destination that is one of the 3 mailboxes, 3 faults |
| `mailbox_actions` | `OkActionDone`, `FailsForAReason` | 2 MCP sessions, 2 actions in all, on 5 names of up to 3 levels, 2 faults, 3 styles of server |
| `cursors` | `NothingSkipped`, `OffsetsInside`, `PagesOfOneSnapshot`, `GoneForGood` | 2 mailboxes that may be recreated, 2 cursors and room for 1, overlapping requests |
| `cursor_store` | `KeptWhileUsed`, `EvictsLeastRecentlyUsed`, `NoRepeats` | 3 cursors, room for 2, a clock past the TTL, clients that wait for each answer (`SerialClient`) |
| `read_sessions` | `NeverOutOfStep`, `OnePlacePerSession`, `FreshWhenReused`, `IdleSessionsBounded`, `EveryReadFinishes` | 4 tools, 1 account, 3 sessions, room for 1 idle one, 2 requests, 2 faults, TTL 1, a clock to 2 |
| `inputs` | `IdsResolved`, `UidSetExact`, `SearchMeansFilters`, `PartsReported`, `NamesAgree` | lists of up to 3 of 14 identifiers and one too long, all combinations of filters, part trees of up to 3 levels, names of up to 4 of 6 characters |

The first run of each module also checks its `TypeOK`.

Bounds. Two operations are what it takes for one to wait on the other's account,
and two groups for one to be between groups; two requests and two workers are every
pair of tasks that can meet on an operation (creator and poller, old worker and new,
canceller and worker), and room for one completed entry makes eviction happen. The one that finishes
second evicts the first, or itself when both finish in the same second and their ids say so. A search matches enough for
three pages, so that overlapping requests can run ahead of and behind each other. The
clocks reach past the TTL after a renewal. Room for one idle session and two calls that return theirs make one surplus,
and two faults a check-out that goes round twice; one account is enough for TLC, since
accounts share nothing but the cache's mutex. The theorems are about any number of accounts
and of sessions in a bucket. Faults (`MaxFaults`) are dropped
connections and time-outs and, in `groups`, what other clients do: three are enough for a
replaced mailbox, an abandoned command and a lost connection in one operation, and
three groups for a stale context to meet a group after the one that made it stale. Two
actions on mailboxes are a call and its repetition, or two sessions on one path; with a
third the instance is too large, and a third adds no new pair. The names hold a parent
of a parent, and a mailbox below another that can be moved below a third. For `inputs`
the numbers are small but the boundaries are all there: the last uid and the one before,
the limits and one more, a day before, in and after a period, one attachment too many,
a shift of two characters in a name and one that does not end.

Fairness. `operations_live` assumes weak fairness of each task's steps: tokio polls
every ready task, every IMAP command ends at its time-out, and strong fairness of
obtaining an account's mutex, for tokio's mutexes are first come, first served.
Nothing makes clients call: polling is not needed for an operation to finish.
`read_sessions` assumes weak fairness of each request and finitely many faults: a server
that killed every cached session just after it was put back could keep one check-out
going round for ever. Without the bound that is the one way not to be answered.

### Disagreements found

Four runs show the code do what a document or a comment says it does not.

1. `inline_budget`: the *maximum wall-clock budget for inline write execution*
   (`src/server.rs:41`) is checked before, and not after, the wait for the account's
   lock (`write_ops.rs:286`, `313`). A request past its budget may still write inline.
2. `cursor_page`: *each cursor is for a specific page* (`docs/cursor-pagination.md:99`),
   yet the answer to a request with a cursor names the same cursor again, moved on.
   Repeating a call that failed half-way gets the next page.
3. `extraction`: *extraction failures do not fail the whole tool call*
   (`docs/tool-contract.md:207`). That is so of what the PDF library cannot read; a PDF
   attachment whose transfer encoding is broken ends the walk over the parts
   (`src/mime.rs:199`), and `imap_get_message` shows nothing of the message
   (`ExtractionTolerated`). `PartsReported` says that there is no other reason to fail.
4. `mailbox_names`: the codec *re-encodes user-facing mailbox names before issuing
   IMAP commands* (`src/mailbox_codec.rs:5`), unless a name is modified UTF-7 already
   (line 23), as the names a client has read in a listing may be. A mailbox called
   `R&-D`, which is `R&--D` on the wire, is listed as `R&-D`; a command with this name
   goes to the mailbox `R&D`. Names of which this cannot be said (`Unambiguous`) are
   compared and addressed as they should be (`NamesAgree`, restricted to them).

Further remarks, which no run is about. `cleanup` is *called internally before
get/create/update operations* (`src/pagination.rs:155`), but not by `update_offset`,
which renews a cursor that expired while its page was fetched, if nothing else has cleaned
up meanwhile; `GoneForGood` states how far this goes. *Hard MCP errors are reserved for
validation/precondition failures* (`docs/tool-contract.md:82`), yet a write tool that has run
its operation looks it up again to answer (`write_ops.rs:219`, `220`), and fails with
`not_found` when the operation was evicted meanwhile, for which it takes a limit of 0, or as
many others as are kept which finish in between. Of several plain text
parts only the first is looked at: when it is blank, the HTML part is shown, and a
second plain text with words in it is not. `PartsReported` states it as it is.
*Duplicate `message_ids` are deduplicated before execution*
(`docs/tool-contract.md:247`) by their text after parsing, so that a message named once
with a mailbox as listed and once with it in modified UTF-7 is copied twice.

## 4. What is proved

Everything below holds for every number of operations, groups, requests, workers,
cursors, sessions, names and faults, every length of lists and every value of the limits,
under the assumptions named next to the CONSTANTS (`OpsAssumption` and so on: disjoint
kinds of tasks, at least one group per operation, finitely many messages in a call, limits
in Nat, names with their parents among the names, a base64 text for each character,
messages that are trees, room for one attachment). All type and safety invariants, all action
properties and both refinements of the passing runs are theorems; `PROJECT.json` lists them
with the property each states.

`WriteOperationsProofs`. *ControlInv* is inductive: `TypeOK`; the shape of each task
(which `op` and `step` go with which `pc`); `WorkerFlag` and `Driven`, that the
`worker_started` of an active operation tells whether a worker or its creator drives it;
`Disclosure`, that an id is known to a client only once its creator has left the inline
run; and `GuardHeld`, that a task whose `pc` is past the lock does hold the guard of its
account. The key is `Disclosure`: while the creator runs the operation inline nobody else
can name it, so that no poller can spawn a second runner; afterwards `worker_started`
keeps runners single. From it follow `SingleRunner`, `RunnersNeverFail`, `Serialised` and
`NeverOrphaned`.

`WriteLedgerProofs`. *Inv* adds, for each runner, how its chosen step relates to the
entry it has not looked at since (`Progress`), and that a group was sent once if it is
reported or being applied, and never otherwise (`Ledger`). It gives `ReportsAreTruthful`.
*Retention* is that operations created are finitely many and
finished ones within the limit. Every finished operation but the newest was within it, so
that one has to go at most, and the least in the order of `finished_at` and id exists:
`CompletedStaysBounded`, `OldestEvictedFirst`. `KeepsContract`: under *FullInv* each action of the engine is the
step of the contract named in its lemma, or a stutter. `CheckContract` and
`ApplyContract` are where the mapping is at stake: between them the log stands still
while the group is `inflight`. `FinalVerdict` says that the status `finalize` counts out of the
results is the verdict of the log.

`SearchCursorsProofs`. *Inv* says that an entry still describes what its search found,
and that everything before the offset, in the store or in the hands of a request, was
handed out. It is preserved by requests that move the offset back as well as forward,
which is why `NothingSkipped` holds for clients that overlap calls. The store's bound and
the order of eviction follow from it with facts on what `cleanup` and `evict_if_needed`
leave. For `CursorsKeptWhileUsed` the invariant relates each entry's expiry to its last use
(`EntriesTellUsage`): an entry that `cleanup` removes was not used for the TTL, and one that
is evicted leaves as many behind as may be stored, which expire no earlier and were
therefore used no earlier. `GoneForGood` follows from the actions one by one; that the store
is bounded (`StoreBounded`) and that finished operations are (`CompletedBounded`) is proved
without a run of its own. `NoRepeats` fails for overlapping calls; for clients that wait it follows from a
second invariant, *Serial*: what was handed out is exactly what lies before the offset, and
at most one request is about a cursor.

`ReadSessionsProofs`. The four invariants of the run are inductive together: where each
session is decides who may use it, and the condition it is put back in, what the next one
finds. `prune_account` is a recursive function; that it keeps entries in order and only fresh
ones is proved by the least prefix for which it would not.

`GroupExecutionProofs`. *Inv* (`Course`, `SelectedGroup`, `Ledger`,
`MessagesAsReported`) follows each message by the command its group is at: *untouched*
while its group is pending, *underway* once a command was carried out, *settled* when it is
reported. `WritesInStep` rests on `SelectedGroup`, that no group still to come is the one
the context has cached. The proof found an error of the model: the guards of
`FirstCommand` overlapped, and a CASE with two true guards is either branch. TLC took the
first; now they exclude each other.

`GroupsKeepContract` needs to know more of the order of things, which is *Turns*: a group
that is done comes before one that is not, nothing is canceled while a group is left, and a
result without issues is the one that is "ok". Every step is then one of eight kinds
(`StepKinds`), for all commands but the last of a group look the same from above. That the
outcome of a group goes to the end of the log is a matter of counting: the groups up to it
in the order of names are those executed and itself (`NextPosition`, `OutcomeAdded`).
`FinalVerdict` uses that *n* groups have the ranks 1 to *n*, each once (`Ranks`), so that no
outcome is of no message: such a one would be ok and failed at once, and the two ways of
counting would differ.

`MailboxActionsProofs`. *Inv* has a closed tree (no mailbox is without its parents, on
servers that know levels), and for each action under way an account of the tree: what was there before is
there as it was unless others removed it, and what is there was there before, was added
by others, or is a parent of the mailbox wanted (`Accounted`); and that the first *k* parents are
there when the next is created (`ParentsUpTo`). A refusal is then traced to a name
in `removed` or `added` (`RefusedForAReason`). `Renamed` is the lemma on trees: a mailbox
with all that is below it goes where nothing was, nothing else changes, and
the tree stays closed; it rests on facts about prefixes of sequences (`NewNameParents`).
That a *flat* server never has parents to create had to be added to the
invariant: without it `Accounted` is not inductive.

`CallInputsProofs`. Here the invariants are inductive as they stand, for each call is one step,
and the work is in the operators. That a recursive function has a value at all is
`ChainRecursion`, proved once for functions that call themselves on something of smaller
rank; the loops (`LoopRecursion`) and both directions of the codec are instances of it. `Deduped`:
the loop keeps each message once and in the order of first mention, for two identifiers
with one encoded form are equal (`EncodeInjective`). `Grouped`: each identifier is in the
group of its mailbox, once. `UidSetOfGroup`: messages of one account and one group differ in
their uids, so that the sorted uids increase strictly; the ranges before *n* denote the first
*n* of them (`RangesExact`), and since a uid still to come is larger, the one before is not
the largest `u32` and its successor can be computed. `QueryMeansAsked` takes the query
term by term. `EncodeDecodes`: by induction over the length of a name, a
character that opens no shift stands for itself (`DecodePlain`) and a shift for what it was made of
(`DecodeShift`). For an unambiguous name it follows that each of the name compared and the
name sent determines the other (`IdentityAndCommand`), which is `NamesAgree`.

`ToolInputsProofs`. *WalkInvariant* relates what was walked, what is still to be walked and
what the state holds. The pending parts are in order, none below another, and every leaf
there is has been walked or is below a pending one; all that was walked precedes all that
is pending. The state
holds the first body of each kind and the first attachments of what was walked, as many as
the limit allows; it says that there were more just when one walked is not held, and the
walk has failed just when an attachment held, whose text was asked for, is broken. (The
property claims one direction of the last.) The two cases
are a leaf (`LeafWalked`), which is added at the end of what was walked, so that the first
so many stay what they were (`AttachmentWalked`), and a part of parts (`SubpartsPushed`),
which is replaced by its parts: what precedes it precedes them, and what it precedes
comes after them (`PrecedesInside`, `PrecedesApart`). With nothing pending the invariant is
`PartsReported`. `CallsComposed` and `CallsKeepTheirPromises` say that the theorems about
`CallInputs` hold of all tools together.

Given to TLC as well: `Inv` of `SearchCursors`, `GroupExecution` (with `Turns`) and
`MailboxActions`, and `WalkInvariant`, on the instances of their runs, before they were
proved. The parts of each that matter are the properties of the runs.

Only model-checked: liveness, for which the prover has no rules (`EveryOperationFinishes`,
`EveryReadFinishes`). The four statements that fail are no theorems. That the two modules
that implement `OperationContract` can stand in for one another is an argument of this page
and not a theorem: `WriteOperations` has many operations at once and `GroupExecution` one.

## 5. Plan

Done: all modules of section 2, their invariants and action properties proved, and both
refinements. What is left:

1. One module in which the tasks of `WriteOperations` execute the commands of
   `GroupExecution`, several operations on one server at a time. The contract both
   implement tells what has to be shown of it.
2. Sources that a model would have to follow character by character, see the next section.

## 6. Not modelled, and why

*Configuration, transport and errors.* Start-up code without concurrency, the protocol
of a library, and values. The limits read there are CONSTANTS. The process keeps nothing
on disk: a restart is `Init`.

*Checks of characters.* Flags, account and operation ids are compared with a set of
characters, one by one (`validation.rs`); a model would repeat the comparison. The account
id of a search is well-formed or `Malformed`.

*Strings of a message.* Headers, truncation, the sanitising of HTML and the text of
PDFs are functions of strings, most of them of libraries.

*The end of the calendar.* `end_date` plus one day panics for the last day `chrono`
knows, which a client can write with a signed year.

*Wording.* A refused CREATE is told from one of an existing mailbox by words in the
error's text, which may quote the mailbox's own name.

*Two spellings of one mailbox* give two groups (`write_ops.rs:1193`); the mailboxes of
`GroupExecution` are different ones, and `IdsResolved` speaks of names as spelled.

*The identity of a mailbox to be renamed or deleted.* The code keeps no UIDVALIDITY of
what it EXAMINEd, so that the name may stand for another mailbox when the unit runs;
`OkActionDone` leaves out names that others changed.

*Two HTTP sessions* have two servers with two sets of locks. `MailboxActions` has both;
in `GroupExecution` the other session is one of the clients that change mailboxes, and
the tables of the other modules belong to one server.

## 7. Running

    tlc -workers 2 -config MCWriteOperations.cfg MCWriteOperations
    tlapm WriteOperationsProofs.tla

Every run takes under two minutes on two cores.
