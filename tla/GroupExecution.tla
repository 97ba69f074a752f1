---------------------------- MODULE GroupExecution ----------------------------
(***************************************************************************)
(* What a write operation on messages does to the mailboxes: the preflight *)
(* that accepts it, and the IMAP commands by which its groups of messages  *)
(* are moved, copied, deleted or flagged, on the session, the selected     *)
(* mailbox and the MOVE capability that a run keeps from group to group    *)
(* (OperationExecutionContext).                                            *)
(*                                                                         *)
(* Every command may be refused, given up at its time-out or lost with its *)
(* connection, having been carried out for any of its messages or none.    *)
(* Other clients remove messages and replace mailboxes meanwhile.          *)
(***************************************************************************)
EXTENDS Naturals, FiniteSets

CONSTANTS
  Mailboxes,      \* names, numbered in the order of strings
  Uids,
  MaxUidValidity, \* bound on how often a mailbox is replaced
  Selections,     \* the sets of message ids a client may name
  Destinations,   \* the mailboxes it may name as destination
  MaxFaults       \* bound on time-outs, lost connections and other clients' acts

ASSUME MailboxAssumption == Mailboxes \subseteq Nat \ {0} /\ Destinations \subseteq Mailboxes
ASSUME NumberAssumption == MaxUidValidity \in Nat \ {0} /\ MaxFaults \in Nat

UidValidity == 1..MaxUidValidity

\* A message is known by its id, for it keeps it as long as it stays where it is.
MessageId == [mailbox: Mailboxes, uidvalidity: UidValidity, uid: Uids]
MessageMutationGroup == [mailbox: Mailboxes, uidvalidity: UidValidity]
NoMailbox == [mailbox |-> 0, uidvalidity |-> 0]

ASSUME SelectionAssumption ==
  /\ Selections \subseteq SUBSET MessageId /\ {} \notin Selections
  /\ \A ids \in Selections : IsFiniteSet(ids)

VARIABLES
  request,    \* the action, the message ids and the destination
  pc,         \* the command that comes next
  remaining,  \* the groups from next_group_index on
  result_by_id,
  session,    \* the connection: its condition and the mailbox the server selected
  selected,   \* selected_mailbox and selected_uidvalidity of the context
  supports_move,
  server,     \* the mailboxes
  touched,    \* the messages some command of this operation acted on
  meddled,    \* the messages another client acted on
  faults

context == <<session, selected, supports_move>>
world == <<server, touched, meddled, faults>>
vars == <<request, pc, remaining, result_by_id, context, world>>

Action == {"move", "copy", "delete", "flags"}
Condition == {"none", "sound", "unread", "dropped"}
Mailbox ==
  [uidvalidity: UidValidity,
   held: SUBSET Uids,          \* the messages that have an id here
   arrived: SUBSET MessageId,  \* the copies of messages of any mailbox
   deleted: SUBSET Uids,       \* held and marked \Deleted
   flagged: SUBSET Uids]       \* held and given the flags of the request

Writes == {"uid_move", "uid_copy", "uid_store_deleted", "uid_expunge", "uid_store_flags"}
ProgramCounter ==
  {"idle", "preflight_connect", "examine_destination", "validate_group", "rejected",
   "loop", "connect", "select_mailbox_readwrite", "capabilities", "fetch_flags", "done"}
  \cup Writes
Stage == Writes \cup {"none", "select_mailbox_readwrite", "capabilities", "fetch_flags", "canceled"}
MessageResult == [status: {"unreported", "ok", "partial", "failed"}, stage: Stage]

-----------------------------------------------------------------------------
(* Groups.                                                                 *)

group_message_ids(ids) == {[mailbox |-> m.mailbox, uidvalidity |-> m.uidvalidity] : m \in ids}

Before(g, h) ==
  \/ g.mailbox < h.mailbox
  \/ g.mailbox = h.mailbox /\ g.uidvalidity <= h.uidvalidity

\* The group whose turn it is: a BTreeMap is in order.
group == CHOOSE g \in remaining : \A h \in remaining : Before(g, h)

entries(g) ==
  {m \in request.message_ids : m.mailbox = g.mailbox /\ m.uidvalidity = g.uidvalidity}

-----------------------------------------------------------------------------
(* The server and its connection.                                          *)

Init ==
  /\ request = [action |-> "copy", message_ids |-> {}, destination |-> 0]
  /\ pc = "idle"
  /\ remaining = {}
  /\ result_by_id = [m \in {} |-> [status |-> "unreported", stage |-> "none"]]
  /\ session = [condition |-> "none", mailbox |-> NoMailbox]
  /\ selected = NoMailbox
  /\ supports_move = "unknown"
  /\ server = [b \in Mailboxes |-> [uidvalidity |-> 1, held |-> Uids, arrived |-> {},
                                    deleted |-> {}, flagged |-> {}]]
  /\ touched = {}
  /\ meddled = {}
  /\ faults = 0

Fault == faults < MaxFaults /\ faults' = faults + 1

\* Another client removes a message, or takes its \Deleted mark away.
OtherClientActs(m) ==
  LET b == server[m.mailbox] IN
  /\ Fault
  /\ b.uidvalidity = m.uidvalidity /\ m.uid \in b.held
  /\ \/ server' = [server EXCEPT ![m.mailbox].held = @ \ {m.uid},
                                 ![m.mailbox].deleted = @ \ {m.uid},
                                 ![m.mailbox].flagged = @ \ {m.uid}]
     \/ /\ m.uid \in b.deleted
        /\ server' = [server EXCEPT ![m.mailbox].deleted = @ \ {m.uid}]
  /\ meddled' = meddled \cup {m}
  /\ UNCHANGED <<request, pc, remaining, result_by_id, context, touched>>

\* Another client deletes a mailbox and makes one of the same name: its uids
\* name other messages now, and the copies that were in it are gone.
MailboxReplaced(b) ==
  /\ Fault
  /\ server[b].uidvalidity < MaxUidValidity
  /\ server' = [server EXCEPT ![b] = [uidvalidity |-> @.uidvalidity + 1, held |-> Uids,
                                      arrived |-> {}, deleted |-> {}, flagged |-> {}]]
  /\ meddled' = meddled \cup server[b].arrived
       \cup {m \in MessageId : m.mailbox = b /\ m.uidvalidity = server[b].uidvalidity}
  /\ UNCHANGED <<request, pc, remaining, result_by_id, context, touched>>

\* The condition of a connection after a command that failed: refused, given
\* up, or lost.
AfterFailure ==
  \/ session' = session /\ UNCHANGED faults
  \/ /\ Fault
     /\ session.condition # "dropped"
     /\ \E c \in {"unread", "dropped"} : session' = [session EXCEPT !.condition = c]

\* CAPABILITY, and FETCH.
Inquiry(Ok, Err) ==
  /\ \/ /\ session.condition # "dropped"
        /\ session' = [session EXCEPT !.condition = "sound"]
        /\ UNCHANGED faults
        /\ Ok
     \/ AfterFailure /\ Err
  /\ UNCHANGED <<server, touched, meddled>>

\* SELECT and EXAMINE.  A failed one may have changed what the server has
\* selected; one that is refused leaves nothing selected.
Select(b, Ok, Err) ==
  LET chosen == [mailbox |-> b, uidvalidity |-> server[b].uidvalidity] IN
  /\ \/ /\ session.condition # "dropped"
        /\ session' = [condition |-> "sound", mailbox |-> chosen]
        /\ UNCHANGED faults
        /\ Ok
     \/ /\ session.condition # "dropped"
        /\ \E box \in {chosen, session.mailbox, NoMailbox} :
             \/ session' = [session EXCEPT !.mailbox = box] /\ UNCHANGED faults
             \/ /\ Fault
                /\ \E c \in {"unread", "dropped"} : session' = [condition |-> c, mailbox |-> box]
        /\ Err
     \/ session.condition = "dropped" /\ UNCHANGED <<session, faults>> /\ Err
  /\ UNCHANGED <<server, touched, meddled>>

\* The server refuses commands once the mailbox it had selected was replaced.
StillThere ==
  /\ session.mailbox # NoMailbox
  /\ server[session.mailbox.mailbox].uidvalidity = session.mailbox.uidvalidity

\* build_uid_set, as the server takes it: uids of the mailbox it has selected,
\* those that are not there left out.
Addressed ==
  IF session.condition # "dropped" /\ StillThere
  THEN {m.uid : m \in entries(group)} \cap server[session.mailbox.mailbox].held
  ELSE {}

At(uids) == {[mailbox |-> session.mailbox.mailbox,
              uidvalidity |-> session.mailbox.uidvalidity, uid |-> u] : u \in uids}

\* A command on a set of uids; effect says what it makes of the mailboxes when
\* it is carried out for some of them.
UidCommand(effect, Ok, Err) ==
  /\ \/ /\ session.condition # "dropped" /\ StillThere
        /\ server' = effect[Addressed]
        /\ touched' = touched \cup At(Addressed)
        /\ session' = [session EXCEPT !.condition = "sound"]
        /\ UNCHANGED faults
        /\ Ok
     \/ /\ \E part \in SUBSET Addressed :
             server' = effect[part] /\ touched' = touched \cup At(part)
        /\ AfterFailure
        /\ Err
  /\ UNCHANGED meddled

Removed(boxes, uids) == [boxes EXCEPT ![session.mailbox.mailbox].held = @ \ uids,
                                      ![session.mailbox.mailbox].deleted = @ \ uids,
                                      ![session.mailbox.mailbox].flagged = @ \ uids]

Copied == [uids \in SUBSET Addressed |->
             [server EXCEPT ![request.destination].arrived = @ \cup At(uids)]]
Moved == [uids \in SUBSET Addressed |-> Removed(Copied[uids], uids)]
Marked == [uids \in SUBSET Addressed |->
             [server EXCEPT ![session.mailbox.mailbox].deleted = @ \cup uids]]
Expunged == [uids \in SUBSET Addressed |->
               Removed(server, uids \cap server[session.mailbox.mailbox].deleted)]
Flagged == [uids \in SUBSET Addressed |->
              [server EXCEPT ![session.mailbox.mailbox].flagged = @ \cup uids]]

-----------------------------------------------------------------------------
(* preflight_apply_message_operation and preflight_flag_operation.         *)

Goto(label) == pc' = label

HasDestination == request.action \in {"move", "copy"}

\* The ids a client names are of mailboxes as they are or were.
Request(action, ids, destination) ==
  /\ pc = "idle"
  /\ \A m \in ids : m.uidvalidity <= server[m.mailbox].uidvalidity
  /\ request' = [action |-> action, message_ids |-> ids, destination |-> destination]
  /\ remaining' = group_message_ids(ids)
  /\ Goto(IF action = "move" /\ \E m \in ids : m.mailbox = destination
          THEN "rejected" ELSE "preflight_connect")
  /\ UNCHANGED <<result_by_id, context, world>>

preflight_connect ==
  /\ pc = "preflight_connect"
  /\ \/ /\ session' = [condition |-> "sound", mailbox |-> NoMailbox]
        /\ Goto(IF HasDestination THEN "examine_destination" ELSE "validate_group")
     \/ Goto("rejected") /\ UNCHANGED session
  /\ UNCHANGED <<request, remaining, result_by_id, selected, supports_move, world>>

examine_destination ==
  /\ pc = "examine_destination"
  /\ Select(request.destination, Goto("validate_group"), Goto("rejected"))
  /\ UNCHANGED <<request, remaining, result_by_id, selected, supports_move>>

\* The next group, unless its mailbox is not the one its ids were read from.
CompareUidValidity(current) ==
  IF current = group.uidvalidity THEN remaining' = remaining \ {group} /\ UNCHANGED pc
                                 ELSE Goto("rejected") /\ UNCHANGED remaining

\* validate_group_uidvalidities, one group.
validate_group ==
  /\ pc = "validate_group" /\ remaining # {}
  /\ IF selected.mailbox = group.mailbox THEN
       /\ CompareUidValidity(selected.uidvalidity)
       /\ UNCHANGED <<session, selected, world>>
     ELSE LET now == server[group.mailbox].uidvalidity IN
       Select(group.mailbox,
              /\ selected' = [mailbox |-> group.mailbox, uidvalidity |-> now]
              /\ CompareUidValidity(now),
              Goto("rejected") /\ UNCHANGED <<remaining, selected>>)
  /\ UNCHANGED <<request, result_by_id, supports_move>>

\* OperationExecutionContext::default(); a session left behind is closed.
FreshContext ==
  /\ session' = [condition |-> "none", mailbox |-> NoMailbox]
  /\ selected' = NoMailbox
  /\ supports_move' = "unknown"

create_operation ==
  /\ pc = "validate_group" /\ remaining = {}
  /\ remaining' = group_message_ids(request.message_ids)
  /\ result_by_id' = [m \in request.message_ids |-> [status |-> "unreported", stage |-> "none"]]
  /\ FreshContext
  /\ Goto("loop")
  /\ UNCHANGED <<request, world>>

-----------------------------------------------------------------------------
(* The results of a group.                                                 *)

\* Faulty: what was begun counts as failed.
StatusWithoutPartial(no_issues, has_data) == IF no_issues THEN "ok" ELSE "failed"

status_from_counts(no_issues, has_data) ==
  IF no_issues THEN "ok" ELSE IF has_data THEN "partial" ELSE "failed"

\* apply_operation_step_outcome.
ReportGroup(results) ==
  /\ result_by_id' = [m \in DOMAIN result_by_id |->
                        IF m \in entries(group) THEN results[m] ELSE result_by_id[m]]
  /\ remaining' = remaining \ {group}
  /\ Goto("loop")

failed_group_results(stage) ==
  ReportGroup([m \in entries(group) |-> [status |-> "failed", stage |-> stage]])

\* stage is that of the issues, "none" without.
finalize_group_results(stage, success_on_no_issues) ==
  ReportGroup([m \in entries(group) |->
                 [status |-> status_from_counts(stage = "none", success_on_no_issues),
                  stage |-> stage]])

-----------------------------------------------------------------------------
(* run_operation_until, and the context it keeps.                          *)

\* Faulty: the cache is compared by UIDVALIDITY alone.
SameUidValidity(g) == selected.uidvalidity = g.uidvalidity

AlreadySelected(g) == selected = g

\* What follows the selection of the group's mailbox.
FirstCommand(moves) ==
  CASE request.action = "copy" -> "uid_copy"
    [] request.action = "delete" -> "uid_store_deleted"
    [] request.action = "flags" -> "uid_store_flags"
    [] request.action = "move" /\ moves = "unknown" -> "capabilities"
    [] request.action = "move" /\ moves = "yes" -> "uid_move"
    [] request.action = "move" /\ moves = "no" -> "uid_copy"

\* ensure_execution_session, then ensure_selected_group.
execute_operation_step ==
  /\ pc = "loop" /\ remaining # {}
  /\ Goto(IF session.condition = "none" THEN "connect"
          ELSE IF AlreadySelected(group) THEN FirstCommand(supports_move)
          ELSE "select_mailbox_readwrite")
  /\ UNCHANGED <<request, remaining, result_by_id, context, world>>

\* The deadline of the inline run passes, and a worker goes on.
HandOver ==
  /\ pc = "loop" /\ remaining # {}
  /\ FreshContext
  /\ UNCHANGED <<request, pc, remaining, result_by_id, world>>

\* Faulty: only the group that comes next is reported as canceled.
NextGroupOnly == IF remaining = {} THEN {} ELSE {group}

\* Faulty: the groups that were executed are reported as canceled as well.
FromFirstGroup == group_message_ids(request.message_ids)

CanceledGroups == remaining

\* A run that finds its operation canceled does not begin another group.
append_canceled_message_results ==
  /\ pc = "loop" /\ remaining # {}
  /\ result_by_id' = [m \in DOMAIN result_by_id |->
                        IF \E g \in CanceledGroups : m \in entries(g)
                        THEN [status |-> "failed", stage |-> "canceled"] ELSE result_by_id[m]]
  /\ remaining' = {}
  /\ UNCHANGED <<request, pc, context, world>>

finalize_operation ==
  /\ pc = "loop" /\ remaining = {}
  /\ FreshContext
  /\ Goto("done")
  /\ UNCHANGED <<request, remaining, result_by_id, world>>

\* Faulty: a failure to connect goes unnoticed.
ConnectionAssumed ==
  /\ pc = "connect"
  /\ Goto("select_mailbox_readwrite")
  /\ UNCHANGED <<request, remaining, result_by_id, context, world>>

connect ==
  /\ pc = "connect"
  /\ \/ /\ session' = [condition |-> "sound", mailbox |-> NoMailbox]
        /\ selected' = NoMailbox
        /\ supports_move' = "unknown"
        /\ Goto("select_mailbox_readwrite")
        /\ UNCHANGED <<remaining, result_by_id>>
     \/ failed_group_results("select_mailbox_readwrite") /\ UNCHANGED context
  /\ UNCHANGED <<request, world>>

\* Faulty: any mailbox of that name will do.
AcceptSelection(now) ==
  /\ selected' = [mailbox |-> group.mailbox, uidvalidity |-> now]
  /\ Goto(FirstCommand(supports_move))
  /\ UNCHANGED <<remaining, result_by_id>>

\* On another UIDVALIDITY the context keeps what it had cached, though the
\* server has selected another mailbox since.
CheckSelection(now) ==
  IF now = group.uidvalidity THEN
    /\ selected' = [mailbox |-> group.mailbox, uidvalidity |-> now]
    /\ Goto(FirstCommand(supports_move))
    /\ UNCHANGED <<remaining, result_by_id>>
  ELSE failed_group_results("select_mailbox_readwrite") /\ UNCHANGED selected

select_mailbox_readwrite ==
  /\ pc = "select_mailbox_readwrite"
  /\ Select(group.mailbox,
            CheckSelection(server[group.mailbox].uidvalidity),
            failed_group_results("select_mailbox_readwrite") /\ UNCHANGED selected)
  /\ UNCHANGED <<request, supports_move>>

capabilities ==
  /\ pc = "capabilities"
  /\ Inquiry(\E moves \in {"yes", "no"} :
               /\ supports_move' = moves
               /\ Goto(FirstCommand(moves))
               /\ UNCHANGED <<remaining, result_by_id>>,
             failed_group_results("capabilities") /\ UNCHANGED supports_move)
  /\ UNCHANGED <<request, selected>>

-----------------------------------------------------------------------------
(* execute_move_group, execute_copy_group, execute_delete_group and        *)
(* execute_flag_update_group: the command of each stage.                   *)

Write(label, effect, Ok) ==
  /\ pc = label
  /\ UidCommand(effect, Ok, finalize_group_results(label, request.action # "flags"))
  /\ UNCHANGED <<request, selected, supports_move>>

\* On to the next command of the group.
Then(label) == Goto(label) /\ UNCHANGED <<remaining, result_by_id>>

AllDone == finalize_group_results("none", TRUE)

uid_move_sequence == Write("uid_move", Moved, AllDone)

\* Faulty: a copy that failed does not keep a move from going on.
CopyRegardless ==
  /\ pc = "uid_copy"
  /\ UidCommand(Copied,
                IF request.action = "copy" THEN AllDone ELSE Then("uid_store_deleted"),
                IF request.action = "copy" THEN finalize_group_results("uid_copy", TRUE)
                                           ELSE Then("uid_store_deleted"))
  /\ UNCHANGED <<request, selected, supports_move>>

uid_copy_sequence ==
  Write("uid_copy", Copied,
        IF request.action = "copy" THEN AllDone ELSE Then("uid_store_deleted"))

\* Faulty: a mark is as good as a removal.
MarkOnly == Write("uid_store_deleted", Marked, AllDone)

uid_store_deleted == Write("uid_store_deleted", Marked, Then("uid_expunge"))

uid_expunge_sequence == Write("uid_expunge", Expunged, AllDone)

uid_store_flags == Write("uid_store_flags", Flagged, Then("fetch_flags"))

\* A message the server sends no flags of is one that is not there.
fetch_flags_by_uid_set ==
  /\ pc = "fetch_flags"
  /\ Inquiry(/\ StillThere
             /\ ReportGroup([m \in entries(group) |->
                  IF m.uid \in Addressed THEN [status |-> status_from_counts(TRUE, TRUE), stage |-> "none"]
                  ELSE [status |-> status_from_counts(FALSE, FALSE), stage |-> "fetch_flags"]]),
             finalize_group_results("fetch_flags", FALSE))
  /\ UNCHANGED <<request, selected, supports_move>>

-----------------------------------------------------------------------------

Run ==
  \/ execute_operation_step
  \/ HandOver
  \/ append_canceled_message_results
  \/ finalize_operation
  \/ connect
  \/ select_mailbox_readwrite
  \/ capabilities
  \/ uid_move_sequence
  \/ uid_copy_sequence
  \/ uid_store_deleted
  \/ uid_expunge_sequence
  \/ uid_store_flags
  \/ fetch_flags_by_uid_set

Next ==
  \/ \E a \in Action, ids \in Selections, d \in Destinations : Request(a, ids, d)
  \/ preflight_connect
  \/ examine_destination
  \/ validate_group
  \/ create_operation
  \/ Run
  \/ \E m \in request.message_ids : OtherClientActs(m)
  \/ \E b \in Mailboxes : MailboxReplaced(b)

Spec == Init /\ [][Next]_vars

-----------------------------------------------------------------------------
(* Properties.                                                             *)

TypeOK ==
  /\ request \in [action: Action, message_ids: Selections \cup {{}},
                  destination: Mailboxes \cup {0}]
  /\ pc \in ProgramCounter
  /\ remaining \subseteq MessageMutationGroup
  /\ result_by_id \in [DOMAIN result_by_id -> MessageResult]
  /\ DOMAIN result_by_id \in {{}, request.message_ids}
  /\ session \in [condition: Condition, mailbox: MessageMutationGroup \cup {NoMailbox}]
  /\ selected \in MessageMutationGroup \cup {NoMailbox}
  /\ supports_move \in {"unknown", "yes", "no"}
  /\ session.condition = "none" =>
       /\ selected = NoMailbox /\ supports_move = "unknown"
       /\ pc \in {"idle", "preflight_connect", "rejected", "loop", "connect", "done"}
  /\ server \in [Mailboxes -> Mailbox]
  /\ touched \subseteq MessageId /\ meddled \subseteq MessageId
  /\ faults \in 0..MaxFaults

IsHeld(m) == server[m.mailbox].uidvalidity = m.uidvalidity /\ m.uid \in server[m.mailbox].held
HasArrived(m) == m \in server[request.destination].arrived
Undisturbed == {m \in DOMAIN result_by_id : m \notin meddled}
Reported(status) == {m \in DOMAIN result_by_id : result_by_id[m].status = status}
AtStage(stages) == {m \in DOMAIN result_by_id : result_by_id[m].stage \in stages}

\* Whatever mailboxes are replaced, commands fail and groups come in between,
\* no command ever acts on a message the client did not name: a uid is never
\* taken for one of another mailbox or of another UIDVALIDITY.
OnlyNamedTouched == touched \subseteq request.message_ids

\* A write, and the FETCH after one, is only sent on a session that has no
\* answer to an abandoned command still to come and has the mailbox of its
\* group selected, whatever the context has cached.
WritesInStep ==
  pc \in Writes \cup {"fetch_flags"}
  => session.condition # "unread" /\ session.mailbox = group

\* A move never loses a message: at whatever command it fails, a message that
\* is no longer at its source has arrived at its destination; and no copy and
\* no change of flags removes anything.
NothingLost ==
  \A m \in Undisturbed :
    \/ request.action = "delete"
    \/ IsHeld(m)
    \/ request.action = "move" /\ HasArrived(m)

\* "ok" is what was asked for: the copy is there, the message moved or deleted
\* is no longer where it was, the flags are set.
OkMeansDone ==
  \A m \in Undisturbed \cap Reported("ok") :
    /\ HasDestination => HasArrived(m)
    /\ request.action \in {"move", "delete"} <=> ~IsHeld(m)
    /\ request.action = "flags" => m.uid \in server[m.mailbox].flagged

\* Moving, copying or deleting a message that is reported as failed, by a group
\* that did not get to its first write or by a cancellation, is safe to repeat:
\* nothing was done with it.  What was begun is reported as partial.
FailedMeansUntouched ==
  \A m \in Reported("failed") : request.action # "flags" => m \notin touched

\* The stage of an issue tells how far a group came: up to uid_copy all
\* messages are where they were; after it all were copied; and none is removed
\* by a command before the last.
StageTellsProgress ==
  /\ \A m \in Undisturbed \cap AtStage({"uid_copy", "uid_store_deleted"}) : IsHeld(m)
  /\ request.action = "move" =>
       /\ \A m \in Undisturbed \cap AtStage({"uid_store_deleted", "uid_expunge"}) : HasArrived(m)
       /\ \A m \in Undisturbed \cap AtStage({"uid_move"}) : IsHeld(m) <=> ~HasArrived(m)

\* However a run fails, is canceled or handed over, in the end every message
\* named has a result.
EveryMessageReported ==
  pc = "done" => /\ DOMAIN result_by_id = request.message_ids
                 /\ Reported("unreported") = {}

-----------------------------------------------------------------------------
(* The inductive invariant behind them.                                    *)

InGroup == {"connect", "select_mailbox_readwrite", "capabilities", "fetch_flags"} \cup Writes
Accepted == pc \in {"loop", "done"} \cup InGroup

\* Which commands an action comes to, and when there is a group to work on.
Course ==
  /\ remaining \subseteq group_message_ids(request.message_ids)
  /\ pc = "idle" => request.message_ids = {}
  /\ pc # "idle" => request.message_ids \in Selections /\ request.destination \in Destinations
  /\ pc \notin {"idle", "rejected"} /\ request.action = "move" =>
       \A m \in request.message_ids : m.mailbox # request.destination
  /\ DOMAIN result_by_id = (IF Accepted THEN request.message_ids ELSE {})
  /\ pc \in InGroup => remaining # {}
  /\ pc = "done" => remaining = {}
  /\ pc \in {"capabilities", "uid_move"} => request.action = "move"
  /\ pc = "uid_copy" => request.action \in {"copy", "move"}
  /\ pc \in {"uid_store_deleted", "uid_expunge"} => request.action \in {"delete", "move"}
  /\ pc \in {"uid_store_flags", "fetch_flags"} => request.action = "flags"

\* A group is worked on with its mailbox selected; no other group that is
\* still to come is ever the one the context has cached.
SelectedGroup ==
  /\ pc \in {"loop", "connect", "select_mailbox_readwrite"} => selected \notin remaining
  /\ pc \in {"capabilities", "fetch_flags"} \cup Writes =>
       selected = group /\ session = [condition |-> "sound", mailbox |-> group]

Pending(m) == [mailbox |-> m.mailbox, uidvalidity |-> m.uidvalidity] \in remaining
Begun(m) == pc \in {"uid_store_deleted", "uid_expunge", "fetch_flags"} /\ m \in entries(group)

\* A message is reported when its group is done; one whose group has not begun
\* to write, or that is reported as failed, was not touched.
Ledger ==
  /\ touched \subseteq DOMAIN result_by_id
  /\ \A m \in DOMAIN result_by_id :
       /\ result_by_id[m].status = "unreported" <=> Pending(m)
       /\ Pending(m) => result_by_id[m].stage = "none"
       /\ Pending(m) /\ ~Begun(m) => m \notin touched
       /\ result_by_id[m].status = "failed" /\ request.action # "flags" => m \notin touched

Untouched(m) == IsHeld(m) /\ ~HasArrived(m)

\* How far the commands of its group have come with a message.
Underway(m) ==
  /\ IsHeld(m)
  /\ request.action = "move" => HasArrived(m)
  /\ pc = "uid_expunge" => m.uid \in server[m.mailbox].deleted
  /\ pc = "fetch_flags" => m.uid \in server[m.mailbox].flagged

\* What the result of a message says of it.
Settled(m) ==
  /\ \/ request.action = "delete"
     \/ IsHeld(m)
     \/ request.action = "move" /\ HasArrived(m)
  /\ result_by_id[m].status = "ok" =>
       /\ HasDestination => HasArrived(m)
       /\ request.action \in {"move", "delete"} <=> ~IsHeld(m)
       /\ request.action = "flags" => m.uid \in server[m.mailbox].flagged
  /\ result_by_id[m].stage \in {"uid_copy", "uid_store_deleted"} => IsHeld(m)
  /\ request.action = "move" =>
       /\ result_by_id[m].stage \in {"uid_store_deleted", "uid_expunge"} => HasArrived(m)
       /\ result_by_id[m].stage = "uid_move" => (IsHeld(m) <=> ~HasArrived(m))

MessagesAsReported ==
  \A m \in request.message_ids \ meddled :
    /\ server[m.mailbox].uidvalidity = m.uidvalidity
    /\ ~Accepted \/ (Pending(m) /\ ~Begun(m)) => Untouched(m)
    /\ Begun(m) => Underway(m)
    /\ Accepted /\ ~Pending(m) => Settled(m)

\* What a client may ask for: messages of before are gone with their mailbox,
\* the others are all there.
BeforeRequest ==
  /\ \A m \in MessageId : m.uidvalidity < server[m.mailbox].uidvalidity => m \in meddled
  /\ pc = "idle" => \A b \in Mailboxes : server[b].held = Uids /\ server[b].arrived = {}

Inv == TypeOK /\ Course /\ SelectedGroup /\ Ledger /\ MessagesAsReported /\ BeforeRequest

\* Groups are taken in order, only what is left when an operation is canceled
\* is reported so, and a result has issues unless it is "ok".
Turns ==
  /\ \A g \in group_message_ids(request.message_ids) \ remaining, h \in remaining : Before(g, h)
  /\ remaining # {} => AtStage({"canceled"}) = {}
  /\ \A m \in DOMAIN result_by_id \ Reported("unreported") :
       m \in Reported("ok") <=> m \in AtStage({"none"})

-----------------------------------------------------------------------------
(* One operation of the engine, its groups and their outcomes.             *)

\* build_bulk_message_response, and what finalize_operation makes of it.
operation_state ==
  IF AtStage({"canceled"}) # {}
  THEN IF pc = "done" THEN "canceled" ELSE "canceling"
  ELSE IF pc = "done"
       THEN status_from_counts(DOMAIN result_by_id \subseteq AtStage({"none"}), Reported("ok") # {})
       ELSE "active"

\* Where the group of m comes among the groups of the operation.
Position(m) == Cardinality({g \in group_message_ids(request.message_ids) : Before(g, m)})

Executed == DOMAIN result_by_id \ (Reported("unreported") \cup AtStage({"canceled"}))

\* What a group did, in the three ways the engine tells apart.
OutcomeOf(ids) ==
  IF ids \subseteq Reported("ok") THEN "ok"
  ELSE IF ids \cap Reported("ok") = {} THEN "failed" ELSE "mixed"

Outcomes ==
  [i \in 1..Cardinality(group_message_ids(Executed)) |->
     OutcomeOf({m \in request.message_ids : Position(m) = i})]

\* Of the operations a client might ask for, told apart by their messages, the
\* one it does ask for.
IsRequest(ids) == Accepted /\ ids = request.message_ids

Phases   == [ids \in Selections |-> IF IsRequest(ids) THEN operation_state ELSE "none"]
Logs     == [ids \in Selections |-> IF IsRequest(ids) THEN Outcomes ELSE <<>>]
InFlight == [ids \in Selections |-> IsRequest(ids) /\ pc \in InGroup]

Contract == INSTANCE OperationContract WITH
  Ops       <- Selections,
  AccountOf <- [ids \in Selections |-> "account"],
  UnitsOf   <- [ids \in Selections |-> Cardinality(group_message_ids(ids))],
  Retained  <- 1,
  phase     <- Phases,
  log       <- Logs,
  inflight  <- InFlight

\* What becomes of messages adds up to what the engine counts: each group is
\* executed once and in order and has one outcome, which nothing changes
\* afterwards, and the state an operation ends in, counted message by message,
\* is the verdict of these outcomes.
ImplementsContract == Contract!Spec

=============================================================================
