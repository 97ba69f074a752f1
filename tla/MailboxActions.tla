---------------------------- MODULE MailboxActions ----------------------------
(***************************************************************************)
(* imap_manage_mailbox: the preflight of a creation, renaming or deletion, *)
(* and the IMAP commands that carry it out, among them a CREATE for every  *)
(* parent of the mailbox to come.                                          *)
(*                                                                         *)
(* Every MCP session over HTTP has a MailImapServer of its own, with its   *)
(* own account locks: actions of one session come one after the other, but *)
(* nothing keeps those of two sessions on one account apart.  A command    *)
(* that was given up may be carried out by the server at any later time.   *)
(***************************************************************************)
EXTENDS Naturals, Sequences

CONSTANTS
  McpSessions, \* the MailImapServers of one process
  Names,       \* mailbox names, as sequences of their levels
  Existing,    \* the mailboxes there are at first
  MaxActions,  \* bound on the calls of imap_manage_mailbox
  MaxFaults    \* bound on failed connections and on commands refused or given up

ParentsOf(name) == {SubSeq(name, 1, i) : i \in 1..(Len(name) - 1)}

ASSUME NamesAssumption ==
  /\ \A name \in Names : name \in Seq({name[i] : i \in DOMAIN name})
  /\ \A name \in Names : Len(name) > 0 /\ ParentsOf(name) \subseteq Names
  /\ Existing \subseteq Names
  /\ \A name \in Existing : ParentsOf(name) \subseteq Existing
ASSUME NumberAssumption == MaxActions \in Nat /\ MaxFaults \in Nat

VARIABLES
  mailboxes, \* the server's: what each name stands for
  style,     \* how the server treats hierarchy
  late,      \* commands given up and perhaps still to be carried out
  action,    \* what each session was last asked to do
  pc,        \* the command each session sends next
  parents,   \* the parents still to be created
  status,    \* the last answer of each session
  faults, asked, \* counters for the bounds
  excused,   \* did a command of this action meet a fault?
  removed, added, \* names others removed and created since this action was asked for
  before     \* mailboxes as they were then

progress == <<action, pc, parents, status>>
others == <<removed, added>>
vars == <<mailboxes, style, late, progress, faults, asked, excused, others, before>>

\* A mailbox is known by the name it had at first; <<>> is one made since.
Content == Existing \cup {<<>>}

\* "flat": names have no levels, and LIST shows no delimiter.  A "strict"
\* server refuses a mailbox without its parent, a "lenient" one makes that too.
Style == {"flat", "strict", "lenient"}

MailboxAction ==
  [verb: {"create", "delete"}, mailbox: Names] \cup
  [verb: {"rename"}, mailbox: Names, destination_mailbox: Names]

ProgramCounter ==
  {"idle", "preflight_connect", "examine", "connect", "hierarchy_delimiter", "create_parent",
   "create", "rename", "delete"}
Status == {"none", "rejected", "canceled", "ok", "failed"}

Goto(s, label) == pc' = [pc EXCEPT ![s] = label]

-----------------------------------------------------------------------------
(* The server's mailboxes: what a command makes of a tree.                 *)

Exists(tree, name) == name \in DOMAIN tree

Above(name) == IF style = "flat" THEN {} ELSE ParentsOf(name)

Below(tree, name) == {n \in DOMAIN tree : name \in Above(n)}

HasPlace(tree, name) ==
  /\ ~Exists(tree, name)
  /\ style = "strict" => Above(name) \subseteq DOMAIN tree

Extend(tree, names) ==
  [n \in DOMAIN tree \cup names |-> IF Exists(tree, n) THEN tree[n] ELSE <<>>]

\* A mailbox takes those below it along.
NewName(from, to, name) == to \o SubSeq(name, Len(from) + 1, Len(name))

MoveTree(tree, from, to) ==
  LET moved == {from} \cup Below(tree, from)
      taken == {NewName(from, to, n) : n \in moved}
      rest  == Extend([n \in DOMAIN tree \ moved |-> tree[n]], Above(to))
  IN [n \in DOMAIN rest \cup taken |->
        IF n \in taken THEN tree[CHOOSE m \in moved : NewName(from, to, m) = n] ELSE rest[n]]

\* Is the command one the server carries out?
Admits(tree, command) ==
  LET name == command.mailbox IN
  CASE command.verb = "create" -> HasPlace(tree, name)
    [] command.verb = "delete" -> Exists(tree, name) /\ Below(tree, name) = {}
    [] command.verb = "rename" ->
         LET to == command.destination_mailbox IN
         /\ Exists(tree, name) /\ HasPlace(tree, to)
         /\ name \notin Above(to)
         /\ \A n \in Below(tree, name) : NewName(name, to, n) \in Names

CarryOut(tree, command) ==
  CASE command.verb = "create" -> Extend(tree, {command.mailbox} \cup Above(command.mailbox))
    [] command.verb = "delete" -> [n \in DOMAIN tree \ {command.mailbox} |-> tree[n]]
    [] command.verb = "rename" -> MoveTree(tree, command.mailbox, command.destination_mailbox)

\* The mailboxes become tree by an act of the sessions in own, if any.
Become(tree, own) ==
  /\ mailboxes' = tree
  /\ removed' = [s \in McpSessions |->
       IF s \in own THEN removed[s] ELSE removed[s] \cup (DOMAIN mailboxes \ DOMAIN tree)]
  /\ added' = [s \in McpSessions |->
       IF s \in own THEN added[s] ELSE added[s] \cup (DOMAIN tree \ DOMAIN mailboxes)]

-----------------------------------------------------------------------------

Init ==
  /\ mailboxes = [n \in Existing |-> n]
  /\ style \in Style
  /\ late = {}
  /\ action \in [McpSessions -> {[verb |-> "create", mailbox |-> n] : n \in Existing}]
  /\ pc = [s \in McpSessions |-> "idle"]
  /\ parents = [s \in McpSessions |-> <<>>]
  /\ status = [s \in McpSessions |-> "none"]
  /\ faults = 0 /\ asked = 0
  /\ excused = [s \in McpSessions |-> FALSE]
  /\ removed = [s \in McpSessions |-> {}] /\ added = removed
  /\ before = [s \in McpSessions |-> mailboxes]

\* A command given up is carried out after all.
CarriedOutLate(command) ==
  /\ late' = late \ {command}
  /\ Admits(mailboxes, command)
  /\ Become(CarryOut(mailboxes, command), {})
  /\ UNCHANGED <<style, progress, faults, asked, excused, before>>

Fault(s) ==
  /\ faults < MaxFaults
  /\ faults' = faults + 1
  /\ excused' = [excused EXCEPT ![s] = TRUE]

\* Nothing happens on the server, or to the session.
Unharmed == UNCHANGED <<mailboxes, late, others, faults, excused>>

\* A command that changes mailboxes: carried out, refused, since it cannot be
\* done or for the server's own reasons, or given up.  Refused is what the code
\* makes of the answer NO.
Send(s, command, Ok, Refused, Err) ==
  \/ /\ Admits(mailboxes, command)
     /\ Become(CarryOut(mailboxes, command), {s})
     /\ UNCHANGED <<late, faults, excused>>
     /\ Ok
  \/ ~Admits(mailboxes, command) /\ Unharmed /\ Refused
  \/ Fault(s) /\ UNCHANGED <<mailboxes, late, others>> /\ Err
  \/ Fault(s) /\ late' = late \cup {command} /\ UNCHANGED <<mailboxes, others>> /\ Err

\* A command that only asks, or a connection.
Ask(s, Ok, Err) ==
  /\ \/ UNCHANGED <<faults, excused>> /\ Ok
     \/ Fault(s) /\ Err
  /\ UNCHANGED <<mailboxes, late, others>>

Answer(s, answer) ==
  /\ status' = [status EXCEPT ![s] = answer]
  /\ Goto(s, "idle")

-----------------------------------------------------------------------------
(* preflight_manage_mailbox_operation, on a connection of its own.         *)

manage_mailbox(s, request) ==
  /\ pc[s] = "idle" /\ asked < MaxActions
  /\ asked' = asked + 1
  /\ action' = [action EXCEPT ![s] = request]
  /\ status' = [status EXCEPT ![s] = "none"]
  /\ excused' = [excused EXCEPT ![s] = FALSE]
  /\ removed' = [removed EXCEPT ![s] = {}]
  /\ added' = [added EXCEPT ![s] = {}]
  /\ before' = [before EXCEPT ![s] = mailboxes]
  /\ Goto(s, "preflight_connect")
  /\ UNCHANGED <<mailboxes, style, late, parents, faults>>

RenamedToItself(a) == a.verb = "rename" /\ a.mailbox = a.destination_mailbox

preflight_connect(s) ==
  /\ pc[s] = "preflight_connect"
  /\ Ask(s,
         IF RenamedToItself(action[s]) THEN Answer(s, "rejected")
         ELSE /\ Goto(s, IF action[s].verb = "create" THEN "connect" ELSE "examine")
              /\ UNCHANGED status,
         Answer(s, "rejected"))
  /\ UNCHANGED <<style, action, parents, asked, before>>

\* EXAMINE of the mailbox to be renamed or deleted.
examine(s) ==
  /\ pc[s] = "examine"
  /\ Ask(s,
         IF Exists(mailboxes, action[s].mailbox) THEN Goto(s, "connect") /\ UNCHANGED status
                                                 ELSE Answer(s, "rejected"),
         Answer(s, "rejected"))
  /\ UNCHANGED <<style, action, parents, asked, before>>

-----------------------------------------------------------------------------
(* execute_manage_mailbox_action: the one unit of the operation.           *)

\* The operation is canceled before its unit is begun.
canceled_mailbox_result(s) ==
  /\ pc[s] = "connect"
  /\ Answer(s, "canceled")
  /\ UNCHANGED <<action, parents, style, asked, before>> /\ Unharmed

\* ensure_execution_session.
connect(s) ==
  /\ pc[s] = "connect"
  /\ Ask(s,
         /\ Goto(s, IF action[s].verb = "delete" THEN "delete" ELSE "hierarchy_delimiter")
         /\ UNCHANGED status,
         Answer(s, "failed"))
  /\ UNCHANGED <<style, action, parents, asked, before>>

\* The mailbox whose parents are to be there.
Wanted(a) == IF a.verb = "rename" THEN a.destination_mailbox ELSE a.mailbox

\* Faulty: the path above the first level is taken for a parent.
FromTheRoot(name) == [i \in 1..Len(name) |-> SubSeq(name, 1, i - 1)]

build_mailbox_parent_paths(name) == [i \in 1..(Len(name) - 1) |-> SubSeq(name, 1, i)]

\* LIST "" "", and what mailbox_parent_paths makes of its answer.
hierarchy_delimiter(s) ==
  /\ pc[s] = "hierarchy_delimiter"
  /\ Ask(s,
         /\ parents' = [parents EXCEPT ![s] =
              IF style = "flat" THEN <<>> ELSE build_mailbox_parent_paths(Wanted(action[s]))]
         /\ Goto(s, "create_parent")
         /\ UNCHANGED status,
         Answer(s, "failed") /\ UNCHANGED parents)
  /\ UNCHANGED <<style, action, asked, before>>

\* Faulty: a mailbox that is there already is a failure.
CreateOnlyNew(s, name, Ok, Err) ==
  Send(s, [verb |-> "create", mailbox |-> name], Ok, Err, Err)

\* A refusal that says that the mailbox exists is as good as its creation.
create_mailbox_if_missing(s, name, Ok, Err) ==
  Send(s, [verb |-> "create", mailbox |-> name], Ok,
       IF Exists(mailboxes, name) THEN Ok ELSE Err, Err)

create_parent_mailboxes(s) ==
  /\ pc[s] = "create_parent"
  /\ IF parents[s] = <<>> THEN
       Goto(s, action[s].verb) /\ Unharmed /\ UNCHANGED <<parents, status>>
     ELSE
       create_mailbox_if_missing(s, Head(parents[s]),
         parents' = [parents EXCEPT ![s] = Tail(@)] /\ UNCHANGED <<pc, status>>,
         parents' = [parents EXCEPT ![s] = <<>>] /\ Answer(s, "failed"))
  /\ UNCHANGED <<style, action, asked, before>>

create_mailbox_path(s) ==
  /\ pc[s] = "create"
  /\ create_mailbox_if_missing(s, action[s].mailbox, Answer(s, "ok"), Answer(s, "failed"))
  /\ UNCHANGED <<style, action, parents, asked, before>>

rename_mailbox(s) ==
  /\ pc[s] = "rename"
  /\ Send(s, action[s], Answer(s, "ok"), Answer(s, "failed"), Answer(s, "failed"))
  /\ UNCHANGED <<style, action, parents, asked, before>>

\* Faulty: a mailbox the server will not remove counts as removed.
DeleteIfPresent(s) ==
  /\ pc[s] = "delete"
  /\ Send(s, action[s], Answer(s, "ok"), Answer(s, "ok"), Answer(s, "failed"))
  /\ UNCHANGED <<style, action, parents, asked, before>>

delete_mailbox(s) ==
  /\ pc[s] = "delete"
  /\ Send(s, action[s], Answer(s, "ok"), Answer(s, "failed"), Answer(s, "failed"))
  /\ UNCHANGED <<style, action, parents, asked, before>>

-----------------------------------------------------------------------------

Step(s) ==
  \/ \E request \in MailboxAction : manage_mailbox(s, request)
  \/ preflight_connect(s)
  \/ examine(s)
  \/ canceled_mailbox_result(s)
  \/ connect(s)
  \/ hierarchy_delimiter(s)
  \/ create_parent_mailboxes(s)
  \/ create_mailbox_path(s)
  \/ rename_mailbox(s)
  \/ delete_mailbox(s)

Next ==
  \/ \E s \in McpSessions : Step(s)
  \/ \E command \in late : CarriedOutLate(command)

Spec == Init /\ [][Next]_vars

-----------------------------------------------------------------------------
(* Properties.                                                             *)

TypeOK ==
  /\ DOMAIN mailboxes \subseteq Names
  /\ \A n \in DOMAIN mailboxes : mailboxes[n] \in Content
  /\ style \in Style
  /\ late \subseteq MailboxAction
  /\ action \in [McpSessions -> MailboxAction]
  /\ pc \in [McpSessions -> ProgramCounter]
  /\ \A s \in McpSessions : \A i \in DOMAIN parents[s] : parents[s][i] \in Names
  /\ status \in [McpSessions -> Status]
  /\ faults \in 0..MaxFaults /\ asked \in 0..MaxActions
  /\ excused \in [McpSessions -> BOOLEAN]
  /\ {removed, added} \subseteq [McpSessions -> SUBSET Names]
  /\ \A s \in McpSessions : DOMAIN before[s] \subseteq Names

\* Names of which what is there is this action's doing alone.
Own(s) == Names \ (removed[s] \cup added[s])

\* "ok" is what was asked for, whatever other sessions and late commands did to
\* other mailboxes: the mailbox created is there with all its parents, the one
\* deleted is gone, and the one renamed is, as it was, where it should be.
OkActionDone ==
  \A s \in McpSessions :
    LET a == action[s] IN
    status[s] = "ok" =>
      /\ a.verb # "delete" => \A n \in ({Wanted(a)} \cup Above(Wanted(a))) \cap Own(s) :
                                Exists(mailboxes, n)
      /\ a.verb # "create" /\ a.mailbox \in Own(s) => ~Exists(mailboxes, a.mailbox)
      /\ a.verb = "rename" /\ {a.mailbox, a.destination_mailbox} \subseteq Own(s) =>
           mailboxes[a.destination_mailbox] = before[s][a.mailbox]

\* What a session cannot help: the mailboxes did not admit its action when it
\* was asked for, or others took away or put in its place a mailbox it is about.
HasReason(s) ==
  LET a    == action[s]
      name == a.mailbox
      begun == Extend(before[s], Above(Wanted(a)))
      beneath == {n \in Names : name \in Above(n)}
  IN \/ RenamedToItself(a)
     \/ Above(Wanted(a)) \cap removed[s] # {}
     \/ /\ a.verb # "create"
        /\ ~Exists(before[s], name) \/ ~Admits(begun, a)
     \/ a.verb # "create" /\ name \in removed[s]
     \/ a.verb # "create" /\ beneath \cap added[s] # {}
     \/ a.verb = "rename" /\ Wanted(a) \in added[s]

\* An action only fails for such a reason or when one of its commands met a
\* fault.  So a creation whose command was given up succeeds when it is
\* repeated, and of two sessions that create one path both succeed.
FailsForAReason ==
  \A s \in McpSessions :
    status[s] \in {"failed", "rejected"} /\ ~excused[s] => HasReason(s)

-----------------------------------------------------------------------------
(* The inductive invariant behind them.                                    *)

SequencesOK ==
  /\ parents \in [McpSessions -> Seq(Names)]
  /\ before = [s \in McpSessions |-> before[s]]

\* Where the server knows levels, no mailbox is without its parents.
Closed(tree) == \A n \in DOMAIN tree : Above(n) \subseteq DOMAIN tree

\* Until the last command of an action, mailboxes are as they were when it was
\* asked for, but for what others did and for the parents made.
Accounted(s) ==
  /\ \A n \in DOMAIN before[s] \ removed[s] :
       Exists(mailboxes, n) /\ mailboxes[n] = before[s][n]
  /\ DOMAIN mailboxes \subseteq DOMAIN before[s] \cup added[s] \cup Above(Wanted(action[s]))

\* Which commands an action comes to.
Course(s) ==
  /\ pc[s] = "examine" => action[s].verb # "create"
  /\ pc[s] \in {"hierarchy_delimiter", "create_parent"} => action[s].verb # "delete"
  /\ pc[s] \in {"create", "rename", "delete"} => pc[s] = action[s].verb
  /\ pc[s] \notin {"idle", "preflight_connect"} => ~RenamedToItself(action[s])

\* The first k parents of a path are there, unless others removed them, and the
\* others still to be made.
ParentsUpTo(s, k) ==
  LET name == Wanted(action[s]) IN
  /\ parents[s] = [i \in 1..(Len(name) - 1 - k) |-> SubSeq(name, 1, k + i)]
  /\ style = "flat" => parents[s] = <<>>
  /\ \A n \in Above(name) : Len(n) <= k => n \in DOMAIN mailboxes \cup removed[s]

ParentsMade(s) ==
  /\ pc[s] = "create_parent" => \E k \in 0..(Len(Wanted(action[s])) - 1) : ParentsUpTo(s, k)
  /\ pc[s] \in {"create", "rename"} =>
       Above(Wanted(action[s])) \subseteq DOMAIN mailboxes \cup removed[s]

\* What an answer says, short of what others did since.
Done(s) ==
  LET a == action[s] IN
  status[s] = "ok" =>
    /\ pc[s] = "idle"
    /\ a.verb # "delete" => {Wanted(a)} \cup Above(Wanted(a)) \subseteq DOMAIN mailboxes \cup removed[s]
    /\ a.verb # "create" => ~Exists(mailboxes, a.mailbox) \/ a.mailbox \in added[s]
    /\ a.verb = "rename" =>
         \/ a.mailbox \in removed[s] \cup added[s]
         \/ Wanted(a) \in removed[s]
         \/ mailboxes[Wanted(a)] = before[s][a.mailbox]

SessionOK(s) ==
  /\ pc[s] # "idle" => Accounted(s) /\ status[s] = "none"
  /\ Course(s) /\ ParentsMade(s) /\ Done(s)

Inv ==
  /\ TypeOK /\ SequencesOK /\ Closed(mailboxes)
  /\ \A s \in McpSessions : SessionOK(s)
  /\ FailsForAReason

=============================================================================
