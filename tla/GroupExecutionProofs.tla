------------------------- MODULE GroupExecutionProofs -------------------------
(* For any mailboxes, selections of messages and number of faults: what the  *)
(* groups of an operation do to the mailboxes is what its results say, and   *)
(* no command acts on a message that was not named.  And what becomes of the *)
(* messages adds up to a behaviour of OperationContract.                     *)
EXTENDS GroupExecution, FiniteSetTheorems, SequenceTheorems, WellFoundedInduction, TLAPS

USE DEF vars, context, world, Goto

-----------------------------------------------------------------------------
(* Groups.                                                                 *)

LEMMA LeastNatural ==
  ASSUME NEW S \in SUBSET Nat, S # {}
  PROVE  \E x \in S : \A y \in S : x <= y
<1>1. \E x \in S : \A y \in S : ~(<<y, x>> \in OpToRel(<, Nat))
  BY NatLessThanWellFounded, WFMin
<1>2. PICK x \in S : \A y \in S : ~(y < x)
  BY <1>1, Zenon DEF OpToRel
<1>3. \A y \in S : x <= y
  BY <1>2
<1> QED BY <1>3

\* There is a first group as long as there is one.
LEMMA GroupRemains ==
  ASSUME TypeOK, remaining # {}
  PROVE  /\ group \in remaining /\ group \in MessageMutationGroup /\ group # NoMailbox
         /\ \A h \in remaining : Before(group, h)
<1>1. remaining \subseteq MessageMutationGroup
  BY DEF TypeOK
<1>2. \A g \in remaining :
        /\ g = [mailbox |-> g.mailbox, uidvalidity |-> g.uidvalidity]
        /\ g.mailbox \in Nat \ {0} /\ g.mailbox \in Mailboxes /\ g.uidvalidity \in Nat
  <2>1. \A g \in MessageMutationGroup :
          /\ g = [mailbox |-> g.mailbox, uidvalidity |-> g.uidvalidity]
          /\ g.mailbox \in Mailboxes /\ g.uidvalidity \in UidValidity
    BY DEF MessageMutationGroup
  <2>2. UidValidity \subseteq Nat /\ Mailboxes \subseteq Nat \ {0}
    BY MailboxAssumption, NumberAssumption DEF UidValidity
  <2> QED BY <1>1, <2>1, <2>2
<1> DEFINE names == {g.mailbox : g \in remaining}
<1>3. names \subseteq Nat /\ names # {}
  BY <1>2
<1>4. PICK x \in names : \A y \in names : x <= y
  <2> HIDE DEF names
  <2> QED BY <1>3, LeastNatural
<1> DEFINE validities == {g.uidvalidity : g \in {h \in remaining : h.mailbox = x}}
<1>5. validities \subseteq Nat /\ validities # {}
  BY <1>2, <1>4
<1>6. PICK v \in validities : \A w \in validities : v <= w
  <2> HIDE DEF validities
  <2> QED BY <1>5, LeastNatural
<1>7. PICK g \in remaining : g.mailbox = x /\ g.uidvalidity = v
  BY <1>6
<1>8. ASSUME NEW h \in remaining PROVE Before(g, h)
  <2>1. g.mailbox <= h.mailbox
    BY <1>4, <1>7
  <2>2. h.mailbox = x => g.uidvalidity <= h.uidvalidity
    BY <1>6, <1>7
  <2> QED BY <1>2, <1>7, <2>1, <2>2 DEF Before
<1>9. group \in remaining /\ \A h \in remaining : Before(group, h)
  BY <1>8 DEF group
<1>10. group # NoMailbox
  BY <1>2, <1>9 DEF NoMailbox
<1> QED BY <1>1, <1>9, <1>10

\* A message is in a group of its own mailbox, and in no other.
LEMMA Messages ==
  ASSUME TypeOK, Course, NEW m \in request.message_ids
  PROVE  /\ m \in MessageId
         /\ m = [mailbox |-> m.mailbox, uidvalidity |-> m.uidvalidity, uid |-> m.uid]
         /\ m.mailbox \in Mailboxes /\ m.uidvalidity \in UidValidity /\ m.uid \in Uids
         /\ [mailbox |-> m.mailbox, uidvalidity |-> m.uidvalidity]
              \in group_message_ids(request.message_ids)
         /\ \A g \in MessageMutationGroup :
              m \in entries(g) <=> g = [mailbox |-> m.mailbox, uidvalidity |-> m.uidvalidity]
<1>1. m \in MessageId
  BY SelectionAssumption DEF TypeOK
<1>2. m = [mailbox |-> m.mailbox, uidvalidity |-> m.uidvalidity, uid |-> m.uid]
  BY <1>1 DEF MessageId
<1>3. m.mailbox \in Mailboxes /\ m.uidvalidity \in UidValidity /\ m.uid \in Uids
  BY <1>1 DEF MessageId
<1>4. \A g \in MessageMutationGroup :
        m \in entries(g) <=> g = [mailbox |-> m.mailbox, uidvalidity |-> m.uidvalidity]
  BY DEF entries, MessageMutationGroup
<1> QED BY <1>1, <1>2, <1>3, <1>4 DEF group_message_ids

\* The messages of a group that is still to come are those it waits for.
LEMMA PendingGroup ==
  ASSUME TypeOK, Course, remaining # {}, NEW m \in request.message_ids
  PROVE  /\ m \in entries(group) => Pending(m)
         /\ Pending(m) => ([mailbox |-> m.mailbox, uidvalidity |-> m.uidvalidity]
                             \in remaining \ {group} <=> m \notin entries(group))
BY GroupRemains, Messages DEF Pending

-----------------------------------------------------------------------------
(* Steps by what they leave alone.                                         *)

\* The mailboxes are to a message what they were.
SameView(m) ==
  /\ server'[m.mailbox].uidvalidity = server[m.mailbox].uidvalidity
  /\ IsHeld(m)' <=> IsHeld(m)
  /\ HasArrived(m)' <=> HasArrived(m)
  /\ m.uid \in server'[m.mailbox].deleted <=> m.uid \in server[m.mailbox].deleted
  /\ m.uid \in server'[m.mailbox].flagged <=> m.uid \in server[m.mailbox].flagged

BegunAt == {"uid_store_deleted", "uid_expunge", "fetch_flags"}

\* A step that neither reports a group nor sends a write changes nothing that
\* is known of a message.
LEMMA ViewKept ==
  ASSUME Ledger, MessagesAsReported,
         UNCHANGED <<request, remaining, result_by_id, touched>>,
         Accepted' <=> Accepted,
         pc' = pc \/ (pc' \notin BegunAt /\ pc \notin BegunAt),
         meddled \subseteq meddled',
         \A m \in request.message_ids \ meddled' : SameView(m)
  PROVE  Ledger' /\ MessagesAsReported'
<1>1. \A m : (Pending(m)' <=> Pending(m)) /\ (Begun(m)' <=> Begun(m))
  BY DEF Pending, Begun, BegunAt, entries, group
<1>2. Ledger'
  BY <1>1 DEF Ledger
<1>3. ASSUME NEW m \in request.message_ids, m \notin meddled'
      PROVE  /\ server'[m.mailbox].uidvalidity = m.uidvalidity
             /\ ~Accepted' \/ (Pending(m)' /\ ~Begun(m)') => Untouched(m)'
             /\ Begun(m)' => Underway(m)'
             /\ Accepted' /\ ~Pending(m)' => Settled(m)'
  <2>1. /\ server[m.mailbox].uidvalidity = m.uidvalidity
        /\ ~Accepted \/ (Pending(m) /\ ~Begun(m)) => Untouched(m)
        /\ Begun(m) => Underway(m)
        /\ Accepted /\ ~Pending(m) => Settled(m)
    BY <1>3 DEF MessagesAsReported
  <2>2. SameView(m)
    BY <1>3
  <2>3. Untouched(m) => Untouched(m)'
    BY <2>2 DEF Untouched, SameView
  <2>4. Begun(m) /\ Underway(m) => Underway(m)'
    BY <2>2 DEF Underway, SameView, Begun, BegunAt
  <2>5. Settled(m) => Settled(m)'
    BY <2>2 DEF Settled, SameView, HasDestination
  <2> QED BY <1>1, <2>1, <2>2, <2>3, <2>4, <2>5 DEF SameView
<1> QED BY <1>2, <1>3 DEF MessagesAsReported

\* The mailboxes that were replaced and what a client may still ask for.
LEMMA BeforeKept ==
  ASSUME BeforeRequest, UNCHANGED meddled, pc' # "idle",
         \A b \in Mailboxes : server'[b].uidvalidity = server[b].uidvalidity
  PROVE  BeforeRequest'
BY DEF BeforeRequest, MessageId

\* The end of a group: what must be so of its messages for the results to be
\* right.
LEMMA GroupReported ==
  ASSUME TypeOK, Course, SelectedGroup, Ledger, MessagesAsReported,
         pc \in InGroup,
         NEW results, ReportGroup(results),
         UNCHANGED <<request, meddled>>,
         touched \subseteq touched', touched' \subseteq touched \cup entries(group),
         \A m \in request.message_ids \ meddled :
           m \notin entries(group) => SameView(m),
         \A m \in entries(group) :
           /\ results[m] \in MessageResult /\ results[m].status # "unreported"
           /\ results[m].status = "failed" /\ request.action # "flags" => m \notin touched',
         \A m \in entries(group) \ meddled :
           /\ server'[m.mailbox].uidvalidity = server[m.mailbox].uidvalidity
           /\ result_by_id'[m] = results[m] => Settled(m)'
  PROVE  /\ Course' /\ Ledger' /\ MessagesAsReported'
         /\ pc' = "loop" /\ remaining' = remaining \ {group}
         /\ result_by_id' \in [DOMAIN result_by_id' -> MessageResult]
         /\ DOMAIN result_by_id' = request.message_ids
         /\ pc # "idle" /\ Accepted
<1>1. pc \notin {"idle", "rejected", "loop", "done"} /\ pc \in InGroup /\ Accepted /\ remaining # {}
  BY DEF InGroup, Writes, Accepted, Course
<1>2. /\ pc' = "loop" /\ remaining' = remaining \ {group}
      /\ DOMAIN result_by_id = request.message_ids
      /\ result_by_id' = [m \in request.message_ids |->
           IF m \in entries(group) THEN results[m] ELSE result_by_id[m]]
  BY <1>1 DEF ReportGroup, Course
<1>3. Accepted' /\ \A m : ~Begun(m)'
  BY <1>2 DEF Accepted, Begun
<1>4. entries(group) \subseteq request.message_ids
  BY DEF entries
<1>5. result_by_id' \in [request.message_ids -> MessageResult]
  <2>1. \A m \in request.message_ids : result_by_id[m] \in MessageResult
    BY <1>2 DEF TypeOK
  <2> QED BY <1>2, <2>1
<1>6. Course'
  <2>1. pc' \notin {"idle", "rejected", "done", "capabilities", "uid_move", "uid_copy",
                    "uid_store_deleted", "uid_expunge", "uid_store_flags", "fetch_flags"}
        /\ pc' \notin InGroup
    BY <1>2 DEF InGroup, Writes
  <2>2. group_message_ids(request.message_ids)' = group_message_ids(request.message_ids)
    BY DEF group_message_ids
  <2> QED BY <1>1, <1>2, <1>3, <2>1, <2>2 DEF Course
<1>7. ASSUME NEW m \in request.message_ids
      PROVE  /\ m \in entries(group) => Pending(m) /\ ~Pending(m)'
             /\ m \notin entries(group) =>
                  /\ Pending(m)' <=> Pending(m)
                  /\ ~Begun(m)
                  /\ result_by_id'[m] = result_by_id[m]
             /\ m \in entries(group) => result_by_id'[m] = results[m]
  <2>1. Pending(m)' <=> [mailbox |-> m.mailbox, uidvalidity |-> m.uidvalidity]
                           \in remaining \ {group}
    BY <1>2 DEF Pending
  <2>2. ~Pending(m) => m \notin entries(group)
    BY <1>1, PendingGroup
  <2> QED BY <1>1, <1>2, <2>1, <2>2, PendingGroup DEF Begun, Pending
<1>8. Ledger'
  <2>1. touched' \subseteq DOMAIN result_by_id'
    BY <1>2, <1>4 DEF Ledger
  <2>2. ASSUME NEW m \in request.message_ids
        PROVE  /\ result_by_id'[m].status = "unreported" <=> Pending(m)'
               /\ Pending(m)' => result_by_id'[m].stage = "none"
               /\ Pending(m)' /\ ~Begun(m)' => m \notin touched'
               /\ result_by_id'[m].status = "failed" /\ request.action # "flags" => m \notin touched'
    <3>1. CASE m \in entries(group)
      BY <1>7, <3>1
    <3>2. CASE m \notin entries(group)
      BY <1>2, <1>7, <3>2 DEF Ledger
    <3> QED BY <3>1, <3>2
  <2> QED BY <1>2, <2>1, <2>2 DEF Ledger
<1>9. ASSUME NEW m \in request.message_ids, m \notin meddled
      PROVE  /\ server'[m.mailbox].uidvalidity = m.uidvalidity
             /\ Pending(m)' => Untouched(m)'
             /\ ~Pending(m)' => Settled(m)'
  <2>1. server[m.mailbox].uidvalidity = m.uidvalidity
    BY <1>9 DEF MessagesAsReported
  <2>2. CASE m \in entries(group)
    BY <1>7, <1>9, <2>1, <2>2
  <2>3. CASE m \notin entries(group)
    <3>1. SameView(m)
      BY <1>9, <2>3
    <3>2. (Pending(m) => Untouched(m)) /\ (~Pending(m) => Settled(m))
      BY <1>1, <1>7, <1>9, <2>3 DEF MessagesAsReported
    <3>3. Untouched(m) => Untouched(m)'
      BY <3>1 DEF Untouched, SameView
    <3>4. Settled(m) => Settled(m)'
      BY <1>7, <2>3, <3>1 DEF Settled, SameView, HasDestination
    <3> QED BY <1>7, <2>1, <2>3, <3>1, <3>2, <3>3, <3>4 DEF SameView
  <2> QED BY <2>2, <2>3
<1>10. MessagesAsReported'
  BY <1>3, <1>9 DEF MessagesAsReported
<1> QED BY <1>1, <1>2, <1>5, <1>6, <1>8, <1>10

\* The step of a group to one of its later commands.
LEMMA GroupGoesOn ==
  ASSUME TypeOK, Course, Ledger, MessagesAsReported,
         pc \in InGroup, pc' \in BegunAt,
         UNCHANGED <<request, remaining, result_by_id, meddled>>,
         touched \subseteq touched', touched' \subseteq touched \cup entries(group),
         \A m \in request.message_ids \ meddled :
           m \notin entries(group) => SameView(m),
         \A m \in entries(group) \ meddled :
           /\ server'[m.mailbox].uidvalidity = server[m.mailbox].uidvalidity
           /\ Underway(m)'
  PROVE  Ledger' /\ MessagesAsReported'
<1>1. pc \in InGroup /\ Accepted /\ Accepted' /\ remaining # {}
  BY DEF InGroup, Writes, Accepted, Course, BegunAt
<1>2. DOMAIN result_by_id = request.message_ids
  BY <1>1 DEF Course
<1>3. \A m : /\ Pending(m)' <=> Pending(m)
             /\ Begun(m)' <=> m \in entries(group)
             /\ Begun(m) => m \in entries(group)
  BY DEF Pending, Begun, BegunAt, entries, group
<1>4. \A m \in entries(group) : m \in request.message_ids /\ Pending(m)
  BY <1>1, PendingGroup DEF entries
<1>5. Ledger'
  <2>1. touched' \subseteq DOMAIN result_by_id'
    BY <1>2, <1>4 DEF Ledger
  <2>2. \A m \in request.message_ids : m \notin entries(group) /\ m \notin touched => m \notin touched'
    OBVIOUS
  <2>3. \A m \in entries(group) : result_by_id[m].status = "unreported"
    BY <1>2, <1>4 DEF Ledger
  <2> QED BY <1>2, <1>3, <2>1, <2>2, <2>3 DEF Ledger
<1>6. ASSUME NEW m \in request.message_ids, m \notin meddled
      PROVE  /\ server'[m.mailbox].uidvalidity = m.uidvalidity
             /\ Pending(m)' /\ ~Begun(m)' => Untouched(m)'
             /\ Begun(m)' => Underway(m)'
             /\ ~Pending(m)' => Settled(m)'
  <2>1. server[m.mailbox].uidvalidity = m.uidvalidity
    BY <1>6 DEF MessagesAsReported
  <2>2. CASE m \in entries(group)
    BY <1>3, <1>4, <1>6, <2>1, <2>2
  <2>3. CASE m \notin entries(group)
    <3>1. SameView(m)
      BY <1>6, <2>3
    <3>2. (Pending(m) => Untouched(m)) /\ (~Pending(m) => Settled(m))
      BY <1>1, <1>3, <1>6, <2>3 DEF MessagesAsReported
    <3>3. Untouched(m) => Untouched(m)'
      BY <3>1 DEF Untouched, SameView
    <3>4. Settled(m) => Settled(m)'
      BY <3>1 DEF Settled, SameView, HasDestination
    <3> QED BY <1>3, <2>1, <2>3, <3>1, <3>2, <3>3, <3>4 DEF SameView
  <2> QED BY <2>2, <2>3
<1> QED BY <1>1, <1>5, <1>6 DEF MessagesAsReported

\* A command that fails leaves a connection, in whatever condition.
LEMMA FailureTypes ==
  ASSUME TypeOK, AfterFailure
  PROVE  /\ session' \in [condition: Condition, mailbox: MessageMutationGroup \cup {NoMailbox}]
         /\ session'.condition = "none" => session.condition = "none"
         /\ faults' \in 0..MaxFaults
BY NumberAssumption DEF TypeOK, AfterFailure, Fault, Condition

LEMMA SelectTypes ==
  ASSUME TypeOK, NEW b \in Mailboxes, Select(b, TRUE, TRUE)
  PROVE  /\ session' \in [condition: Condition, mailbox: MessageMutationGroup \cup {NoMailbox}]
         /\ session'.condition = "none" => session.condition = "none"
         /\ faults' \in 0..MaxFaults
         /\ UNCHANGED <<server, touched, meddled>>
<1> DEFINE chosen == [mailbox |-> b, uidvalidity |-> server[b].uidvalidity]
<1>1. chosen \in MessageMutationGroup
  BY DEF TypeOK, Mailbox, MessageMutationGroup
<1>2. session \in [condition: Condition, mailbox: MessageMutationGroup \cup {NoMailbox}]
  BY DEF TypeOK
<1>3. \A c \in Condition, box \in {chosen, session.mailbox, NoMailbox} :
        /\ [condition |-> c, mailbox |-> box]
             \in [condition: Condition, mailbox: MessageMutationGroup \cup {NoMailbox}]
        /\ [session EXCEPT !.mailbox = box]
             \in [condition: Condition, mailbox: MessageMutationGroup \cup {NoMailbox}]
        /\ [session EXCEPT !.mailbox = box].condition = session.condition
  BY <1>1, <1>2
<1>4. Fault => faults' \in 0..MaxFaults
  BY NumberAssumption DEF Fault, TypeOK
<1>5. faults \in 0..MaxFaults
  BY DEF TypeOK
<1>6. CASE session' = [condition |-> "sound", mailbox |-> chosen] /\ UNCHANGED faults
  BY <1>3, <1>5, <1>6 DEF Select, Condition
<1>7. CASE \E box \in {chosen, session.mailbox, NoMailbox} :
             \/ session' = [session EXCEPT !.mailbox = box] /\ UNCHANGED faults
             \/ /\ Fault
                /\ \E c \in {"unread", "dropped"} : session' = [condition |-> c, mailbox |-> box]
  BY <1>3, <1>4, <1>5, <1>7 DEF Select, Condition
<1>8. CASE UNCHANGED <<session, faults>>
  BY <1>2, <1>5, <1>8 DEF Select
<1> QED BY <1>6, <1>7, <1>8 DEF Select

-----------------------------------------------------------------------------
(* The preflight.                                                          *)

LEMMA InitInv == Init => Inv
<1> SUFFICES ASSUME Init PROVE Inv
  OBVIOUS
<1>1. \A b \in Mailboxes : /\ server[b].uidvalidity = 1 /\ server[b].held = Uids
                           /\ server[b].arrived = {}
  BY DEF Init
<1>2. TypeOK
  <2>1. server \in [Mailboxes -> Mailbox]
    BY NumberAssumption DEF Init, Mailbox, UidValidity
  <2>2. result_by_id \in [DOMAIN result_by_id -> MessageResult] /\ DOMAIN result_by_id = {}
    BY DEF Init
  <2>3. /\ session \in [condition: Condition, mailbox: MessageMutationGroup \cup {NoMailbox}]
        /\ faults \in 0..MaxFaults
    BY NumberAssumption DEF Init, Condition
  <2> QED BY <2>1, <2>2, <2>3 DEF Init, TypeOK, Action, ProgramCounter
<1>3. Course
  BY DEF Init, Course, Accepted, InGroup, Writes
<1>4. SelectedGroup /\ Ledger /\ MessagesAsReported
  BY DEF Init, SelectedGroup, Ledger, MessagesAsReported, Writes
<1>5. BeforeRequest
  <2>1. \A m \in MessageId : ~(m.uidvalidity < server[m.mailbox].uidvalidity)
    BY <1>1, NumberAssumption DEF MessageId, UidValidity
  <2> QED BY <1>1, <2>1 DEF BeforeRequest
<1> QED BY <1>2, <1>3, <1>4, <1>5 DEF Inv

Preflight == {"preflight_connect", "examine_destination", "validate_group"}

\* As long as the operation is not accepted no message is touched.
LEMMA PreflightKept ==
  ASSUME Inv, pc \in Preflight, pc' \in Preflight \cup {"rejected"},
         UNCHANGED <<request, result_by_id, server, touched, meddled>>,
         remaining' \subseteq remaining
  PROVE  Course' /\ SelectedGroup' /\ Ledger' /\ MessagesAsReported' /\ BeforeRequest'
<1>1. /\ ~Accepted /\ ~Accepted'
      /\ pc' \notin {"idle", "loop", "done"} \cup InGroup
      /\ pc \notin {"idle", "rejected"}
  BY DEF Preflight, Accepted, InGroup, Writes
<1>2. DOMAIN result_by_id = {}
  BY <1>1 DEF Inv, Course
<1>3. group_message_ids(request.message_ids)' = group_message_ids(request.message_ids)
  BY DEF group_message_ids
<1>4. Course'
  BY <1>1, <1>2, <1>3 DEF Inv, Course, InGroup, Writes
<1>5. SelectedGroup'
  BY DEF SelectedGroup, Preflight, Writes
<1>6. Ledger'
  BY <1>2 DEF Inv, Ledger
<1>7. \A m : ~Begun(m)' /\ (Untouched(m) => Untouched(m)')
  BY <1>1 DEF Begun, InGroup, Writes, Untouched, IsHeld, HasArrived
<1>8. MessagesAsReported'
  BY <1>1, <1>7 DEF Inv, MessagesAsReported
<1>9. BeforeRequest'
  BY <1>1 DEF Inv, BeforeRequest
<1> QED BY <1>4, <1>5, <1>6, <1>8, <1>9

LEMMA RequestKeeps ==
  ASSUME Inv, NEW a \in Action, NEW ids \in Selections, NEW d \in Destinations,
         Request(a, ids, d)
  PROVE  Inv'
<1>1. /\ pc = "idle" /\ pc' \in {"rejected", "preflight_connect"}
      /\ request' = [action |-> a, message_ids |-> ids, destination |-> d]
      /\ remaining' = group_message_ids(ids)
      /\ UNCHANGED <<result_by_id, session, selected, supports_move, server, touched, meddled, faults>>
  BY DEF Request
<1>2. ~Accepted /\ ~Accepted'
  BY <1>1 DEF Accepted, InGroup, Writes
<1>3. DOMAIN result_by_id = {} /\ touched = {}
  BY <1>2 DEF Inv, Course, Ledger
<1>4. ids \subseteq MessageId /\ ids # {}
  BY SelectionAssumption
<1>5. remaining' \subseteq MessageMutationGroup
  BY <1>1, <1>4 DEF group_message_ids, MessageId, MessageMutationGroup
<1>6. TypeOK'
  BY <1>1, <1>3, <1>5, MailboxAssumption DEF Inv, TypeOK, ProgramCounter
<1>7. Course'
  <2>1. pc' # "rejected" /\ a = "move" => \A m \in ids : m.mailbox # d
    BY DEF Request
  <2>2. group_message_ids(request.message_ids)' = group_message_ids(ids)
    BY <1>1 DEF group_message_ids
  <2> QED BY <1>1, <1>2, <1>3, <2>1, <2>2 DEF Course, InGroup, Writes
<1>8. SelectedGroup'
  BY <1>1 DEF SelectedGroup, Writes
<1>9. Ledger'
  BY <1>1, <1>3 DEF Ledger
<1>10. ASSUME NEW m \in ids, m \notin meddled
       PROVE  /\ server[m.mailbox].uidvalidity = m.uidvalidity
              /\ Untouched(m)' /\ ~Begun(m)'
  <2>1. /\ m.uidvalidity <= server[m.mailbox].uidvalidity
        /\ m.uidvalidity \in Nat /\ m.uid \in Uids /\ m.mailbox \in Mailboxes
    BY <1>4, NumberAssumption DEF Request, MessageId, UidValidity
  <2>2. ~(m.uidvalidity < server[m.mailbox].uidvalidity)
    BY <1>4, <1>10 DEF Inv, BeforeRequest
  <2>3. server[m.mailbox].uidvalidity \in Nat
    BY <2>1, NumberAssumption DEF Inv, TypeOK, Mailbox, UidValidity
  <2>4. server[m.mailbox].uidvalidity = m.uidvalidity
    BY <2>1, <2>2, <2>3
  <2>5. server[m.mailbox].held = Uids /\ server[d].arrived = {}
    BY <1>1, <2>1, MailboxAssumption DEF Inv, BeforeRequest
  <2> QED BY <1>1, <2>1, <2>4, <2>5 DEF Untouched, IsHeld, HasArrived, Begun
<1>11. MessagesAsReported'
  BY <1>1, <1>2, <1>10 DEF MessagesAsReported
<1>12. BeforeRequest'
  BY <1>1 DEF Inv, BeforeRequest
<1> QED BY <1>6, <1>7, <1>8, <1>9, <1>11, <1>12 DEF Inv

LEMMA PreflightConnectKeeps ==
  ASSUME Inv, preflight_connect
  PROVE  Inv'
<1>1. /\ pc = "preflight_connect" /\ pc' \in {"examine_destination", "validate_group", "rejected"}
      /\ UNCHANGED <<request, remaining, result_by_id, selected, supports_move, server,
                     touched, meddled, faults>>
      /\ \/ session' = [condition |-> "sound", mailbox |-> NoMailbox]
         \/ session' = session /\ pc' = "rejected"
  BY DEF preflight_connect
<1>2. session' \in [condition: Condition, mailbox: MessageMutationGroup \cup {NoMailbox}]
  BY <1>1 DEF Inv, TypeOK, Condition
<1>3. TypeOK'
  BY <1>1, <1>2 DEF Inv, TypeOK, ProgramCounter
<1> QED BY <1>1, <1>3, PreflightKept DEF Inv, Preflight

LEMMA ExamineDestinationKeeps ==
  ASSUME Inv, examine_destination
  PROVE  Inv'
<1>1. /\ pc = "examine_destination" /\ pc' \in {"validate_group", "rejected"}
      /\ UNCHANGED <<request, remaining, result_by_id, selected, supports_move>>
      /\ Select(request.destination, TRUE, TRUE)
  BY DEF examine_destination, Select
<1>2. request.destination \in Mailboxes
  BY <1>1, MailboxAssumption DEF Inv, Course
<1>3. session.condition # "none"
  BY <1>1 DEF Inv, TypeOK
<1>4. TypeOK'
  BY <1>1, <1>2, <1>3, SelectTypes DEF Inv, TypeOK, ProgramCounter
<1> QED BY <1>1, <1>2, <1>4, SelectTypes, PreflightKept DEF Inv, Preflight

LEMMA ValidateGroupKeeps ==
  ASSUME Inv, validate_group
  PROVE  Inv'
<1>1. /\ pc = "validate_group" /\ remaining # {}
      /\ UNCHANGED <<request, result_by_id, supports_move>>
  BY DEF validate_group
<1>2. session.condition # "none" /\ group.mailbox \in Mailboxes
  BY <1>1, GroupRemains DEF Inv, TypeOK, MessageMutationGroup
<1>3. \A v : CompareUidValidity(v) => remaining' \subseteq remaining /\ pc' \in {"validate_group", "rejected"}
  BY <1>1 DEF CompareUidValidity
<1>4. CASE /\ CompareUidValidity(selected.uidvalidity)
           /\ UNCHANGED <<session, selected, server, touched, meddled, faults>>
  <2>1. TypeOK'
    BY <1>1, <1>2, <1>3, <1>4 DEF Inv, TypeOK, ProgramCounter
  <2> QED BY <1>1, <1>3, <1>4, <2>1, PreflightKept DEF Inv, Preflight
<1>5. CASE /\ Select(group.mailbox, TRUE, TRUE)
           /\ remaining' \subseteq remaining /\ pc' \in {"validate_group", "rejected"}
           /\ selected' \in {selected, [mailbox |-> group.mailbox,
                                        uidvalidity |-> server[group.mailbox].uidvalidity]}
  <2>1. [mailbox |-> group.mailbox, uidvalidity |-> server[group.mailbox].uidvalidity]
          \in MessageMutationGroup
    BY <1>2 DEF Inv, TypeOK, Mailbox, MessageMutationGroup
  <2>2. selected' \in MessageMutationGroup \cup {NoMailbox}
    BY <1>5, <2>1 DEF Inv, TypeOK
  <2>3. TypeOK'
    BY <1>1, <1>2, <1>5, <2>2, SelectTypes DEF Inv, TypeOK, ProgramCounter
  <2> QED BY <1>1, <1>2, <1>5, <2>3, SelectTypes, PreflightKept DEF Inv, Preflight
<1> QED BY <1>1, <1>3, <1>4, <1>5 DEF validate_group, Select

-----------------------------------------------------------------------------
(* Between the groups.                                                     *)

LEMMA NoMailboxIsNoGroup == NoMailbox \notin MessageMutationGroup
BY MailboxAssumption DEF NoMailbox, MessageMutationGroup

LEMMA FreshContextTypes ==
  ASSUME FreshContext
  PROVE  /\ session' \in [condition: Condition, mailbox: MessageMutationGroup \cup {NoMailbox}]
         /\ selected' = NoMailbox /\ supports_move' = "unknown"
BY DEF FreshContext, Condition

LEMMA CreateOperationKeeps ==
  ASSUME Inv, create_operation
  PROVE  Inv'
<1>1. /\ pc = "validate_group" /\ pc' = "loop" /\ FreshContext
      /\ remaining' = group_message_ids(request.message_ids)
      /\ result_by_id' = [m \in request.message_ids |-> [status |-> "unreported", stage |-> "none"]]
      /\ UNCHANGED <<request, server, touched, meddled, faults>>
  BY DEF create_operation
<1>2. ~Accepted /\ Accepted' /\ DOMAIN result_by_id = {} /\ touched = {}
  BY <1>1 DEF Inv, Course, Ledger, Accepted, InGroup, Writes
<1>3. \A m \in request.message_ids : Pending(m)'
  BY <1>1, Messages DEF Inv, Pending
<1>4. remaining' \subseteq MessageMutationGroup
  BY <1>1, Messages DEF Inv, group_message_ids, MessageMutationGroup
<1>5. TypeOK'
  <2>1. [status |-> "unreported", stage |-> "none"] \in MessageResult
    BY DEF MessageResult, Stage
  <2>2. result_by_id' \in [request.message_ids -> MessageResult]
    BY <1>1, <2>1
  <2> QED BY <1>1, <1>4, <2>2, FreshContextTypes DEF Inv, TypeOK, ProgramCounter
<1>6. Course'
  <2>1. group_message_ids(request.message_ids)' = group_message_ids(request.message_ids)
    BY <1>1 DEF group_message_ids
  <2> QED BY <1>1, <1>2, <2>1 DEF Inv, Course, InGroup, Writes
<1>7. SelectedGroup'
  BY <1>1, <1>4, FreshContextTypes, NoMailboxIsNoGroup DEF SelectedGroup, Writes
<1>8. Ledger'
  BY <1>1, <1>2, <1>3 DEF Ledger
<1>9. \A m : Untouched(m) => Untouched(m)'
  BY <1>1 DEF Untouched, IsHeld, HasArrived
<1>10. \A m : ~Begun(m)'
  BY <1>1 DEF Begun
<1>11. MessagesAsReported'
  BY <1>1, <1>2, <1>3, <1>9, <1>10 DEF Inv, MessagesAsReported
<1>12. BeforeRequest'
  BY <1>1 DEF Inv, BeforeRequest
<1> QED BY <1>5, <1>6, <1>7, <1>8, <1>11, <1>12 DEF Inv

\* What a step of the run that leaves all messages alone has to show.
LEMMA WorldKept ==
  ASSUME Inv, Accepted, Accepted',
         UNCHANGED <<request, remaining, result_by_id, server, touched, meddled>>,
         pc' = pc \/ (pc' \notin BegunAt /\ pc \notin BegunAt)
  PROVE  Ledger' /\ MessagesAsReported' /\ BeforeRequest'
<1>1. \A m : SameView(m)
  BY DEF SameView, IsHeld, HasArrived
<1>2. Ledger' /\ MessagesAsReported'
  BY <1>1, ViewKept DEF Inv
<1>3. BeforeRequest'
  BY BeforeKept DEF Inv, Accepted, InGroup, Writes
<1> QED BY <1>2, <1>3

LEMMA ExecuteOperationStepKeeps ==
  ASSUME Inv, execute_operation_step
  PROVE  Inv'
<1>1. pc = "loop" /\ remaining # {} /\ selected \notin remaining /\ group \in remaining
  BY GroupRemains DEF Inv, SelectedGroup, execute_operation_step
<1>2. /\ \/ pc' = "connect"
         \/ session.condition # "none" /\ pc' = "select_mailbox_readwrite"
      /\ UNCHANGED <<request, remaining, result_by_id, session, selected, supports_move,
                     server, touched, meddled, faults>>
  BY <1>1 DEF execute_operation_step, AlreadySelected
<1>3. TypeOK'
  BY <1>2 DEF Inv, TypeOK, ProgramCounter
<1>4. Accepted /\ Accepted'
  BY <1>1, <1>2 DEF Accepted, InGroup
<1>5. Course'
  <2>1. group_message_ids(request.message_ids)' = group_message_ids(request.message_ids)
    BY <1>2 DEF group_message_ids
  <2> QED BY <1>1, <1>2, <1>4, <2>1 DEF Inv, Course
<1>6. SelectedGroup'
  BY <1>1, <1>2 DEF SelectedGroup, Writes
<1> QED BY <1>1, <1>2, <1>3, <1>4, <1>5, <1>6, WorldKept DEF Inv, BegunAt

LEMMA HandOverKeeps ==
  ASSUME Inv, HandOver
  PROVE  Inv'
<1>1. /\ pc = "loop" /\ FreshContext
      /\ UNCHANGED <<request, pc, remaining, result_by_id, server, touched, meddled, faults>>
  BY DEF HandOver
<1>2. TypeOK'
  BY <1>1, FreshContextTypes DEF Inv, TypeOK
<1>3. Accepted /\ Accepted'
  BY <1>1 DEF Accepted
<1>4. Course'
  <2>1. group_message_ids(request.message_ids)' = group_message_ids(request.message_ids)
    BY <1>1 DEF group_message_ids
  <2> QED BY <1>1, <1>3, <2>1 DEF Inv, Course
<1>5. SelectedGroup'
  BY <1>1, FreshContextTypes, NoMailboxIsNoGroup DEF Inv, TypeOK, SelectedGroup, Writes
<1> QED BY <1>1, <1>2, <1>3, <1>4, <1>5, WorldKept DEF Inv

LEMMA FinalizeOperationKeeps ==
  ASSUME Inv, finalize_operation
  PROVE  Inv'
<1>1. /\ pc = "loop" /\ pc' = "done" /\ remaining = {} /\ FreshContext
      /\ UNCHANGED <<request, remaining, result_by_id, server, touched, meddled, faults>>
  BY DEF finalize_operation
<1>2. TypeOK'
  BY <1>1, FreshContextTypes DEF Inv, TypeOK, ProgramCounter
<1>3. Accepted /\ Accepted'
  BY <1>1 DEF Accepted
<1>4. Course'
  <2>1. group_message_ids(request.message_ids)' = group_message_ids(request.message_ids)
    BY <1>1 DEF group_message_ids
  <2> QED BY <1>1, <1>3, <2>1 DEF Inv, Course, InGroup, Writes
<1>5. SelectedGroup'
  BY <1>1 DEF SelectedGroup, Writes
<1> QED BY <1>1, <1>2, <1>3, <1>4, <1>5, WorldKept DEF Inv, BegunAt

\* What is canceled was not begun: it is failed and untouched.
LEMMA AppendCanceledKeeps ==
  ASSUME Inv, append_canceled_message_results
  PROVE  Inv'
<1> DEFINE canceled == [status |-> "failed", stage |-> "canceled"]
<1>1. /\ pc = "loop" /\ remaining # {} /\ remaining' = {}
      /\ UNCHANGED <<request, pc, session, selected, supports_move, server, touched, meddled, faults>>
  BY DEF append_canceled_message_results
<1>2. Accepted /\ Accepted' /\ DOMAIN result_by_id = request.message_ids
      /\ \A m : ~Begun(m) /\ ~Begun(m)' /\ ~Pending(m)'
  BY <1>1 DEF Inv, Course, Accepted, Begun, Pending
<1>3. \A m \in request.message_ids : (\E g \in CanceledGroups : m \in entries(g)) <=> Pending(m)
  BY Messages DEF Inv, TypeOK, CanceledGroups, Pending
<1>4. result_by_id' = [m \in request.message_ids |->
                         IF Pending(m) THEN canceled ELSE result_by_id[m]]
  BY <1>2, <1>3 DEF append_canceled_message_results
<1>5. TypeOK'
  <2>1. canceled \in MessageResult
    BY DEF MessageResult, Stage
  <2>2. \A m \in request.message_ids : result_by_id[m] \in MessageResult
    BY <1>2 DEF Inv, TypeOK
  <2>3. result_by_id' \in [request.message_ids -> MessageResult]
    BY <1>4, <2>1, <2>2
  <2> QED BY <1>1, <2>3 DEF Inv, TypeOK
<1>6. Course'
  BY <1>1, <1>2, <1>4 DEF Inv, Course, InGroup, Writes
<1>7. SelectedGroup'
  BY <1>1 DEF SelectedGroup, Writes
<1>8. Ledger'
  BY <1>1, <1>2, <1>4 DEF Inv, Ledger
<1>9. \A m : /\ IsHeld(m)' <=> IsHeld(m)
             /\ HasArrived(m)' <=> HasArrived(m)
  BY <1>1 DEF IsHeld, HasArrived
<1>10. ASSUME NEW m \in request.message_ids, m \notin meddled
       PROVE  Settled(m)'
  <2>1. CASE Pending(m)
    <3>1. Untouched(m) /\ result_by_id'[m] = canceled
      BY <1>2, <1>4, <1>10, <2>1 DEF Inv, MessagesAsReported
    <3> QED BY <1>9, <3>1 DEF Untouched, Settled
  <2>2. CASE ~Pending(m)
    <3>1. Settled(m) /\ result_by_id'[m] = result_by_id[m]
      BY <1>2, <1>4, <1>10, <2>2 DEF Inv, MessagesAsReported
    <3> QED BY <1>1, <1>9, <3>1 DEF Settled, HasDestination
  <2> QED BY <2>1, <2>2
<1>11. MessagesAsReported'
  BY <1>1, <1>2, <1>10 DEF Inv, MessagesAsReported
<1>12. BeforeRequest'
  BY <1>1 DEF Inv, BeforeRequest
<1> QED BY <1>5, <1>6, <1>7, <1>8, <1>11, <1>12 DEF Inv

-----------------------------------------------------------------------------
(* Up to the first write of a group.                                       *)

\* A group that fails before its first write was not touched.
LEMMA FailedBeforeWrite ==
  ASSUME Inv, pc \in {"connect", "select_mailbox_readwrite", "capabilities"},
         NEW stage \in {"select_mailbox_readwrite", "capabilities"},
         failed_group_results(stage),
         UNCHANGED <<request, selected, supports_move, server, touched, meddled>>,
         session' \in [condition: Condition, mailbox: MessageMutationGroup \cup {NoMailbox}],
         session'.condition = "none" => session.condition = "none",
         faults' \in 0..MaxFaults
  PROVE  Inv'
<1> DEFINE results == [m \in entries(group) |-> [status |-> "failed", stage |-> stage]]
<1>1. /\ pc \in InGroup /\ Accepted /\ remaining # {} /\ ReportGroup(results)
      /\ \A m : ~Begun(m)
  BY DEF Inv, Course, InGroup, Accepted, failed_group_results, Begun
<1>2. DOMAIN result_by_id = request.message_ids
      /\ \A m \in entries(group) : m \in request.message_ids /\ Pending(m)
  BY <1>1, PendingGroup DEF Inv, Course, entries
<1>3. \A m \in entries(group) : results[m] = [status |-> "failed", stage |-> stage]
  OBVIOUS
<1> HIDE DEF results
<1>4. \A m : SameView(m)
  BY DEF SameView, IsHeld, HasArrived
<1>5. \A m \in entries(group) :
        /\ results[m] \in MessageResult /\ results[m].status # "unreported"
        /\ m \notin touched'
  BY <1>1, <1>2, <1>3 DEF MessageResult, Stage, Inv, Ledger
<1>6. ASSUME NEW m \in entries(group) \ meddled
      PROVE  /\ server'[m.mailbox].uidvalidity = server[m.mailbox].uidvalidity
             /\ result_by_id'[m] = results[m] => Settled(m)'
  <2>1. Untouched(m)
    BY <1>1, <1>2, <1>6 DEF Inv, MessagesAsReported
  <2>2. IsHeld(m)'
    BY <1>4, <2>1 DEF SameView, Untouched
  <2> QED BY <1>3, <2>2 DEF Settled
<1>7. /\ Course' /\ Ledger' /\ MessagesAsReported'
      /\ pc' = "loop" /\ remaining' = remaining \ {group}
      /\ result_by_id' \in [DOMAIN result_by_id' -> MessageResult]
      /\ DOMAIN result_by_id' = request.message_ids
  BY <1>1, <1>4, <1>5, <1>6, GroupReported DEF Inv
<1>8. TypeOK'
  BY <1>7 DEF Inv, TypeOK, ProgramCounter
<1>9. SelectedGroup'
  BY <1>7 DEF Inv, SelectedGroup, Writes
<1>10. BeforeRequest'
  BY <1>7, BeforeKept DEF Inv
<1> QED BY <1>7, <1>8, <1>9, <1>10 DEF Inv

LEMMA ConnectKeeps ==
  ASSUME Inv, connect
  PROVE  Inv'
<1>1. pc = "connect" /\ UNCHANGED <<request, server, touched, meddled, faults>>
  BY DEF connect
<1>2. CASE /\ session' = [condition |-> "sound", mailbox |-> NoMailbox]
           /\ selected' = NoMailbox /\ supports_move' = "unknown"
           /\ pc' = "select_mailbox_readwrite"
           /\ UNCHANGED <<remaining, result_by_id>>
  <2>1. session' \in [condition: Condition, mailbox: MessageMutationGroup \cup {NoMailbox}]
    BY <1>2 DEF Condition
  <2>2. TypeOK'
    BY <1>1, <1>2, <2>1 DEF Inv, TypeOK, ProgramCounter
  <2>3. Accepted /\ Accepted'
    BY <1>1, <1>2 DEF Accepted, InGroup
  <2>4. Course'
    <3>1. group_message_ids(request.message_ids)' = group_message_ids(request.message_ids)
      BY <1>1 DEF group_message_ids
    <3> QED BY <1>1, <1>2, <2>3, <3>1 DEF Inv, Course, InGroup
  <2>5. SelectedGroup'
    BY <1>2, NoMailboxIsNoGroup DEF Inv, TypeOK, SelectedGroup, Writes
  <2> QED BY <1>1, <1>2, <2>2, <2>3, <2>4, <2>5, WorldKept DEF Inv, BegunAt
<1>3. CASE failed_group_results("select_mailbox_readwrite")
           /\ UNCHANGED <<session, selected, supports_move>>
  BY <1>1, <1>3, FailedBeforeWrite DEF Inv, TypeOK
<1> QED BY <1>2, <1>3 DEF connect

\* The first command of an action, on the session that has its group selected.
LEMMA FirstCommandKeeps ==
  ASSUME Inv, pc \in {"select_mailbox_readwrite", "capabilities"},
         NEW moves \in {"unknown", "yes", "no"}, pc' = FirstCommand(moves),
         pc = "capabilities" => moves # "unknown",
         UNCHANGED <<request, remaining, result_by_id, server, touched, meddled, faults>>,
         session' = [condition |-> "sound", mailbox |-> group], selected' = group,
         supports_move' = moves
  PROVE  Inv'
<1>1. /\ pc \in InGroup /\ Accepted /\ remaining # {} /\ pc \notin BegunAt
      /\ \A m : ~Begun(m)
  BY DEF Inv, Course, InGroup, Accepted, Begun, BegunAt
<1>2. group' = group /\ group \in MessageMutationGroup
  BY <1>1, GroupRemains DEF Inv, group
<1>3. \/ pc' = "uid_copy" /\ request.action \in {"copy", "move"}
      \/ pc' = "uid_store_deleted" /\ request.action = "delete"
      \/ pc' = "uid_store_flags" /\ request.action = "flags"
      \/ pc' \in {"capabilities", "uid_move"} /\ request.action = "move"
  BY DEF FirstCommand, Inv, TypeOK, Action
<1>4. TypeOK'
  <2>1. session' \in [condition: Condition, mailbox: MessageMutationGroup \cup {NoMailbox}]
        /\ session'.condition # "none"
    BY <1>2 DEF Condition
  <2>2. pc' \in ProgramCounter
    BY <1>3 DEF ProgramCounter, Writes
  <2> QED BY <1>2, <2>1, <2>2 DEF Inv, TypeOK
<1>5. pc' \in InGroup /\ Accepted'
  BY <1>3 DEF InGroup, Writes, Accepted
<1>6. Course'
  <2>1. group_message_ids(request.message_ids)' = group_message_ids(request.message_ids)
    BY DEF group_message_ids
  <2> QED BY <1>1, <1>3, <1>5, <2>1 DEF Inv, Course, Accepted, InGroup
<1>7. SelectedGroup'
  BY <1>2, <1>3 DEF SelectedGroup
<1>8. BeforeRequest'
  BY <1>3, BeforeKept DEF Inv
<1>9. \A m : SameView(m)
  BY DEF SameView, IsHeld, HasArrived
<1>10. Ledger' /\ MessagesAsReported'
  <2>1. CASE pc' = "uid_store_deleted"
    <3>1. ASSUME NEW m \in entries(group) \ meddled
          PROVE  Underway(m)'
      <4>1. m \in request.message_ids /\ Pending(m)
        BY <1>1, PendingGroup DEF Inv, entries
      <4>2. Untouched(m)
        BY <1>1, <3>1, <4>1 DEF Inv, MessagesAsReported
      <4>3. IsHeld(m)'
        BY <1>9, <4>2 DEF SameView, Untouched
      <4> QED BY <1>3, <2>1, <4>3 DEF Underway
    <3> QED BY <1>1, <1>9, <2>1, <3>1, GroupGoesOn DEF Inv, BegunAt
  <2>2. CASE pc' # "uid_store_deleted"
    BY <1>1, <1>3, <1>5, <1>9, <2>2, ViewKept DEF Inv, BegunAt
  <2> QED BY <2>1, <2>2
<1> QED BY <1>4, <1>6, <1>7, <1>8, <1>10 DEF Inv

LEMMA SelectMailboxKeeps ==
  ASSUME Inv, select_mailbox_readwrite
  PROVE  Inv'
<1> DEFINE now == server[group.mailbox].uidvalidity
<1>1. /\ pc = "select_mailbox_readwrite" /\ UNCHANGED <<request, supports_move>>
      /\ Select(group.mailbox, TRUE, TRUE)
  BY DEF select_mailbox_readwrite, Select
<1>2. remaining # {} /\ session.condition # "none"
  BY <1>1 DEF Inv, Course, InGroup, TypeOK
<1>3. group.mailbox \in Mailboxes /\ group = [mailbox |-> group.mailbox, uidvalidity |-> group.uidvalidity]
  BY <1>2, GroupRemains DEF Inv, MessageMutationGroup
<1>4. /\ session' \in [condition: Condition, mailbox: MessageMutationGroup \cup {NoMailbox}]
      /\ session'.condition = "none" => session.condition = "none"
      /\ faults' \in 0..MaxFaults
      /\ UNCHANGED <<server, touched, meddled>>
  BY <1>1, <1>3, SelectTypes DEF Inv
<1>5. CASE failed_group_results("select_mailbox_readwrite") /\ UNCHANGED selected
  BY <1>1, <1>4, <1>5, FailedBeforeWrite
<1>6. CASE /\ now = group.uidvalidity
           /\ session' = [condition |-> "sound", mailbox |-> [mailbox |-> group.mailbox, uidvalidity |-> now]]
           /\ selected' = [mailbox |-> group.mailbox, uidvalidity |-> now]
           /\ pc' = FirstCommand(supports_move)
           /\ UNCHANGED <<remaining, result_by_id, faults>>
  <2>1. session' = [condition |-> "sound", mailbox |-> group] /\ selected' = group
    BY <1>3, <1>6
  <2>2. supports_move \in {"unknown", "yes", "no"}
    BY DEF Inv, TypeOK
  <2> QED BY <1>1, <1>4, <1>6, <2>1, <2>2, FirstCommandKeeps
<1> QED BY <1>5, <1>6 DEF select_mailbox_readwrite, Select, CheckSelection

LEMMA CapabilitiesKeeps ==
  ASSUME Inv, capabilities
  PROVE  Inv'
<1>1. /\ pc = "capabilities"
      /\ UNCHANGED <<request, selected, server, touched, meddled>>
      /\ selected = group /\ session = [condition |-> "sound", mailbox |-> group]
  BY DEF capabilities, Inquiry, Inv, SelectedGroup
<1>2. CASE /\ session' = [session EXCEPT !.condition = "sound"]
           /\ UNCHANGED faults
           /\ \E moves \in {"yes", "no"} : supports_move' = moves /\ pc' = FirstCommand(moves)
           /\ UNCHANGED <<remaining, result_by_id>>
  <2>1. session' = [condition |-> "sound", mailbox |-> group]
    BY <1>1, <1>2
  <2> QED BY <1>1, <1>2, <2>1, FirstCommandKeeps
<1>3. CASE AfterFailure /\ failed_group_results("capabilities") /\ UNCHANGED supports_move
  BY <1>1, <1>3, FailureTypes, FailedBeforeWrite DEF Inv
<1> QED BY <1>2, <1>3 DEF capabilities, Inquiry

-----------------------------------------------------------------------------
(* The writes.                                                             *)

\* A write on a group is sent with the mailbox of the group selected.
Writing == pc \in Writes \cup {"fetch_flags"}

LEMMA WritingGroup ==
  ASSUME Inv, Writing
  PROVE  /\ remaining # {} /\ pc \in InGroup /\ Accepted
         /\ group \in MessageMutationGroup /\ group # NoMailbox
         /\ session = [condition |-> "sound", mailbox |-> group] /\ selected = group
         /\ request.destination \in Mailboxes
         /\ DOMAIN result_by_id = request.message_ids
BY GroupRemains, MailboxAssumption
   DEF Inv, Writing, Course, SelectedGroup, InGroup, Accepted, Writes

\* The messages addressed are those of the group that are there.
LEMMA AddressedMessages ==
  ASSUME Inv, Writing
  PROVE  /\ Addressed \subseteq Uids
         /\ \A part \in SUBSET Addressed :
              /\ At(part) \subseteq entries(group)
              /\ \A m \in request.message_ids :
                   m \in At(part) <=> m \in entries(group) /\ m.uid \in part
         /\ \A m \in entries(group) \ meddled :
              /\ m \in request.message_ids /\ Pending(m)
              /\ m.mailbox = group.mailbox /\ m.uidvalidity = group.uidvalidity
              /\ server[m.mailbox].uidvalidity = m.uidvalidity
              /\ m.uid \in Addressed <=> IsHeld(m)
         /\ \A m \in request.message_ids \ meddled :
              m \notin entries(group) /\ m.mailbox = group.mailbox => Addressed = {}
<1>1. /\ session = [condition |-> "sound", mailbox |-> group] /\ remaining # {}
      /\ group \in MessageMutationGroup /\ group # NoMailbox
  BY WritingGroup
<1>2. /\ StillThere <=> server[group.mailbox].uidvalidity = group.uidvalidity
      /\ Addressed = IF StillThere
                     THEN {m.uid : m \in entries(group)} \cap server[group.mailbox].held ELSE {}
  BY <1>1 DEF StillThere, Addressed
<1>3. \A m \in entries(group) :
        /\ m \in request.message_ids /\ Pending(m)
        /\ m.mailbox = group.mailbox /\ m.uidvalidity = group.uidvalidity
        /\ m = [mailbox |-> group.mailbox, uidvalidity |-> group.uidvalidity, uid |-> m.uid]
        /\ m.uid \in Uids
  BY <1>1, Messages, PendingGroup DEF Inv, entries
<1>4. Addressed \subseteq Uids
  BY <1>2, <1>3
<1>5. ASSUME NEW part \in SUBSET Addressed
      PROVE  /\ At(part) \subseteq entries(group)
             /\ \A m \in request.message_ids :
                  m \in At(part) <=> m \in entries(group) /\ m.uid \in part
  <2>1. At(part) = {[mailbox |-> group.mailbox, uidvalidity |-> group.uidvalidity, uid |-> u]
                      : u \in part}
    BY <1>1 DEF At
  <2>2. \A u \in part : \E m \in entries(group) : m.uid = u
    BY <1>2
  <2>3. At(part) \subseteq entries(group)
    BY <1>3, <2>1, <2>2
  <2>4. \A m \in At(part) : m.uid \in part
    BY <2>1
  <2>5. \A m \in entries(group) : m.uid \in part => m \in At(part)
    BY <1>3, <2>1
  <2> QED BY <2>3, <2>4, <2>5
<1>6. \A m \in request.message_ids \ meddled : server[m.mailbox].uidvalidity = m.uidvalidity
  BY DEF Inv, MessagesAsReported
<1>7. \A m \in entries(group) \ meddled : m.uid \in Addressed <=> IsHeld(m)
  BY <1>2, <1>3, <1>6 DEF IsHeld
<1>8. ASSUME NEW m \in request.message_ids \ meddled,
             m \notin entries(group), m.mailbox = group.mailbox
      PROVE  Addressed = {}
  <2>1. m.uidvalidity # group.uidvalidity
    BY <1>8 DEF entries
  <2> QED BY <1>2, <1>6, <1>8, <2>1
<1> QED BY <1>3, <1>4, <1>5, <1>6, <1>7, <1>8

WithCopies(boxes, d, copies) == [boxes EXCEPT ![d].arrived = @ \cup copies]
WithMarks(boxes, d, uids) == [boxes EXCEPT ![d].deleted = @ \cup uids]
WithFlags(boxes, d, uids) == [boxes EXCEPT ![d].flagged = @ \cup uids]

\* Copies that come to a mailbox.
LEMMA ArrivedBoxes ==
  ASSUME NEW boxes \in [Mailboxes -> Mailbox], NEW d \in Mailboxes, NEW copies \in SUBSET MessageId
  PROVE  LET after == WithCopies(boxes, d, copies)
         IN  /\ after \in [Mailboxes -> Mailbox]
             /\ \A b \in Mailboxes :
                  /\ after[b].uidvalidity = boxes[b].uidvalidity /\ after[b].held = boxes[b].held
                  /\ after[b].deleted = boxes[b].deleted /\ after[b].flagged = boxes[b].flagged
                  /\ after[b].arrived = IF b = d THEN boxes[b].arrived \cup copies ELSE boxes[b].arrived
<1> DEFINE after == WithCopies(boxes, d, copies)
<1>1. after[d] = [boxes[d] EXCEPT !.arrived = @ \cup copies]
  BY DEF WithCopies
<1>2. boxes[d] \in Mailbox
  OBVIOUS
<1>3. /\ after[d] \in Mailbox
      /\ after[d].uidvalidity = boxes[d].uidvalidity /\ after[d].held = boxes[d].held
      /\ after[d].deleted = boxes[d].deleted /\ after[d].flagged = boxes[d].flagged
      /\ after[d].arrived = boxes[d].arrived \cup copies
  <2>1. boxes[d].arrived \cup copies \in SUBSET MessageId
    BY <1>2 DEF Mailbox
  <2> HIDE DEF after
  <2> QED BY <1>1, <1>2, <2>1 DEF Mailbox
<1>4. \A b \in Mailboxes : b # d => after[b] = boxes[b]
  BY DEF WithCopies
<1>5. after = [b \in Mailboxes |-> after[b]]
  BY DEF WithCopies
<1> HIDE DEF after
<1>6. after \in [Mailboxes -> Mailbox]
  BY <1>3, <1>4, <1>5
<1> QED BY <1>3, <1>4, <1>6 DEF after

LEMMA RemovedBoxes ==
  ASSUME NEW boxes \in [Mailboxes -> Mailbox], session.mailbox.mailbox \in Mailboxes, NEW uids
  PROVE  /\ Removed(boxes, uids) \in [Mailboxes -> Mailbox]
         /\ \A b \in Mailboxes :
              /\ Removed(boxes, uids)[b].uidvalidity = boxes[b].uidvalidity
              /\ Removed(boxes, uids)[b].arrived = boxes[b].arrived
              /\ b # session.mailbox.mailbox => Removed(boxes, uids)[b] = boxes[b]
              /\ b = session.mailbox.mailbox =>
                   /\ Removed(boxes, uids)[b].held = boxes[b].held \ uids
                   /\ Removed(boxes, uids)[b].deleted = boxes[b].deleted \ uids
                   /\ Removed(boxes, uids)[b].flagged = boxes[b].flagged \ uids
<1> DEFINE d == session.mailbox.mailbox
           after == Removed(boxes, uids)
<1>1. after[d] = [[[boxes[d] EXCEPT !.held = @ \ uids] EXCEPT !.deleted = @ \ uids]
                    EXCEPT !.flagged = @ \ uids]
  BY DEF Removed
<1>2. boxes[d] \in Mailbox
  OBVIOUS
<1>3. /\ after[d] \in Mailbox
      /\ after[d].uidvalidity = boxes[d].uidvalidity /\ after[d].arrived = boxes[d].arrived
      /\ after[d].held = boxes[d].held \ uids
      /\ after[d].deleted = boxes[d].deleted \ uids /\ after[d].flagged = boxes[d].flagged \ uids
  <2>1. /\ boxes[d].held \ uids \in SUBSET Uids
        /\ boxes[d].deleted \ uids \in SUBSET Uids /\ boxes[d].flagged \ uids \in SUBSET Uids
    BY <1>2 DEF Mailbox
  <2> HIDE DEF after
  <2> QED BY <1>1, <1>2, <2>1 DEF Mailbox
<1>4. \A b \in Mailboxes : b # d => after[b] = boxes[b]
  BY DEF Removed
<1>5. after = [b \in Mailboxes |-> after[b]]
  BY DEF Removed
<1> HIDE DEF after
<1>6. after \in [Mailboxes -> Mailbox]
  BY <1>3, <1>4, <1>5
<1> QED BY <1>3, <1>4, <1>6 DEF after

\* Likewise for the marks of STORE.
LEMMA MarkedBoxes ==
  ASSUME NEW boxes \in [Mailboxes -> Mailbox], NEW d \in Mailboxes, NEW uids \in SUBSET Uids
  PROVE  LET after == WithMarks(boxes, d, uids)
         IN  /\ after \in [Mailboxes -> Mailbox]
             /\ \A b \in Mailboxes :
                  /\ after[b].uidvalidity = boxes[b].uidvalidity /\ after[b].held = boxes[b].held
                  /\ after[b].arrived = boxes[b].arrived /\ after[b].flagged = boxes[b].flagged
                  /\ after[b].deleted = IF b = d THEN boxes[b].deleted \cup uids ELSE boxes[b].deleted
<1> DEFINE after == WithMarks(boxes, d, uids)
<1>1. after[d] = [boxes[d] EXCEPT !.deleted = @ \cup uids]
  BY DEF WithMarks
<1>2. boxes[d] \in Mailbox
  OBVIOUS
<1>3. /\ after[d] \in Mailbox
      /\ after[d].uidvalidity = boxes[d].uidvalidity /\ after[d].held = boxes[d].held
      /\ after[d].arrived = boxes[d].arrived /\ after[d].flagged = boxes[d].flagged
      /\ after[d].deleted = boxes[d].deleted \cup uids
  <2>1. boxes[d].deleted \cup uids \in SUBSET Uids
    BY <1>2 DEF Mailbox
  <2> HIDE DEF after
  <2> QED BY <1>1, <1>2, <2>1 DEF Mailbox
<1>4. \A b \in Mailboxes : b # d => after[b] = boxes[b]
  BY DEF WithMarks
<1>5. after = [b \in Mailboxes |-> after[b]]
  BY DEF WithMarks
<1> HIDE DEF after
<1>6. after \in [Mailboxes -> Mailbox]
  BY <1>3, <1>4, <1>5
<1> QED BY <1>3, <1>4, <1>6 DEF after

LEMMA FlaggedBoxes ==
  ASSUME NEW boxes \in [Mailboxes -> Mailbox], NEW d \in Mailboxes, NEW uids \in SUBSET Uids
  PROVE  LET after == WithFlags(boxes, d, uids)
         IN  /\ after \in [Mailboxes -> Mailbox]
             /\ \A b \in Mailboxes :
                  /\ after[b].uidvalidity = boxes[b].uidvalidity /\ after[b].held = boxes[b].held
                  /\ after[b].arrived = boxes[b].arrived /\ after[b].deleted = boxes[b].deleted
                  /\ after[b].flagged = IF b = d THEN boxes[b].flagged \cup uids ELSE boxes[b].flagged
<1> DEFINE after == WithFlags(boxes, d, uids)
<1>1. after[d] = [boxes[d] EXCEPT !.flagged = @ \cup uids]
  BY DEF WithFlags
<1>2. boxes[d] \in Mailbox
  OBVIOUS
<1>3. /\ after[d] \in Mailbox
      /\ after[d].uidvalidity = boxes[d].uidvalidity /\ after[d].held = boxes[d].held
      /\ after[d].arrived = boxes[d].arrived /\ after[d].deleted = boxes[d].deleted
      /\ after[d].flagged = boxes[d].flagged \cup uids
  <2>1. boxes[d].flagged \cup uids \in SUBSET Uids
    BY <1>2 DEF Mailbox
  <2> HIDE DEF after
  <2> QED BY <1>1, <1>2, <2>1 DEF Mailbox
<1>4. \A b \in Mailboxes : b # d => after[b] = boxes[b]
  BY DEF WithFlags
<1>5. after = [b \in Mailboxes |-> after[b]]
  BY DEF WithFlags
<1> HIDE DEF after
<1>6. after \in [Mailboxes -> Mailbox]
  BY <1>3, <1>4, <1>5
<1> QED BY <1>3, <1>4, <1>6 DEF after

\* What a write makes of the mailboxes: uids of the group's mailbox are gone,
\* have come to the destination, are marked as deleted or have their flags.
Written(boxes, gone, came, marked, flags) ==
  /\ boxes \in [Mailboxes -> Mailbox]
  /\ \A b \in Mailboxes :
       /\ boxes[b].uidvalidity = server[b].uidvalidity
       /\ \A u : u \in boxes[b].held
                   <=> u \in server[b].held /\ ~(b = group.mailbox /\ u \in gone)
       /\ \A m : m \in boxes[b].arrived
                   <=> m \in server[b].arrived \/ (b = request.destination /\ m \in At(came))
       /\ \A u : u \in boxes[b].deleted
                   <=> /\ u \in server[b].deleted \/ (b = group.mailbox /\ u \in marked)
                       /\ ~(b = group.mailbox /\ u \in gone)
       /\ \A u : u \in boxes[b].flagged
                   <=> /\ u \in server[b].flagged \/ (b = group.mailbox /\ u \in flags)
                       /\ ~(b = group.mailbox /\ u \in gone)

LEMMA EffectsWritten ==
  ASSUME Inv, Writing, NEW part \in SUBSET Addressed
  PROVE  /\ Written(Copied[part], {}, part, {}, {})
         /\ Written(Moved[part], part, part, {}, {})
         /\ Written(Marked[part], {}, {}, part, {})
         /\ Written(Expunged[part], part \cap server[group.mailbox].deleted, {}, {}, {})
         /\ Written(Flagged[part], {}, {}, {}, part)
<1>1. /\ server \in [Mailboxes -> Mailbox] /\ request.destination \in Mailboxes
      /\ session.mailbox = group /\ group.mailbox \in Mailboxes
  BY WritingGroup DEF Inv, TypeOK, MessageMutationGroup
<1>2. At(part) \subseteq MessageId
  BY AddressedMessages, Messages DEF Inv, entries
<1>3. part \subseteq Uids
  BY AddressedMessages
<1>4. At({}) = {}
  BY DEF At
<1>5. /\ Copied[part] \in [Mailboxes -> Mailbox]
      /\ \A b \in Mailboxes :
           /\ Copied[part][b].uidvalidity = server[b].uidvalidity
           /\ Copied[part][b].held = server[b].held
           /\ Copied[part][b].deleted = server[b].deleted
           /\ Copied[part][b].flagged = server[b].flagged
           /\ Copied[part][b].arrived = IF b = request.destination
                                        THEN server[b].arrived \cup At(part) ELSE server[b].arrived
  <2>1. Copied[part] = WithCopies(server, request.destination, At(part))
    BY DEF Copied, WithCopies
  <2> QED BY <1>1, <1>2, <2>1, ArrivedBoxes
<1>6. Written(Copied[part], {}, part, {}, {})
  BY <1>5 DEF Written
<1>7. Written(Moved[part], part, part, {}, {})
  <2>1. Moved[part] = Removed(Copied[part], part)
    BY DEF Moved
  <2>2. /\ Moved[part] \in [Mailboxes -> Mailbox]
        /\ \A b \in Mailboxes :
             /\ Moved[part][b].uidvalidity = Copied[part][b].uidvalidity
             /\ Moved[part][b].arrived = Copied[part][b].arrived
             /\ b # group.mailbox => Moved[part][b] = Copied[part][b]
             /\ b = group.mailbox =>
                  /\ Moved[part][b].held = Copied[part][b].held \ part
                  /\ Moved[part][b].deleted = Copied[part][b].deleted \ part
                  /\ Moved[part][b].flagged = Copied[part][b].flagged \ part
    BY <1>1, <1>5, <2>1, RemovedBoxes
  <2>3. ASSUME NEW b \in Mailboxes
        PROVE  /\ Moved[part][b].uidvalidity = server[b].uidvalidity
               /\ \A u : u \in Moved[part][b].held
                           <=> u \in server[b].held /\ ~(b = group.mailbox /\ u \in part)
               /\ \A m : m \in Moved[part][b].arrived
                           <=> m \in server[b].arrived \/ (b = request.destination /\ m \in At(part))
               /\ \A u : u \in Moved[part][b].deleted
                           <=> u \in server[b].deleted /\ ~(b = group.mailbox /\ u \in part)
               /\ \A u : u \in Moved[part][b].flagged
                           <=> u \in server[b].flagged /\ ~(b = group.mailbox /\ u \in part)
    <3>1. /\ Copied[part][b].uidvalidity = server[b].uidvalidity
          /\ Copied[part][b].held = server[b].held
          /\ Copied[part][b].deleted = server[b].deleted
          /\ Copied[part][b].flagged = server[b].flagged
          /\ \A m : m \in Copied[part][b].arrived
                      <=> m \in server[b].arrived \/ (b = request.destination /\ m \in At(part))
      BY <1>5
    <3>2. Moved[part][b].uidvalidity = Copied[part][b].uidvalidity
          /\ Moved[part][b].arrived = Copied[part][b].arrived
      BY <2>2
    <3>3. CASE b = group.mailbox
      <4>1. /\ Moved[part][b].held = Copied[part][b].held \ part
            /\ Moved[part][b].deleted = Copied[part][b].deleted \ part
            /\ Moved[part][b].flagged = Copied[part][b].flagged \ part
        BY <2>2, <3>3
      <4> QED BY <3>1, <3>2, <3>3, <4>1
    <3>4. CASE b # group.mailbox
      <4>1. Moved[part][b] = Copied[part][b]
        BY <2>2, <3>4
      <4> QED BY <3>1, <3>4, <4>1
    <3> QED BY <3>3, <3>4
  <2> QED BY <2>2, <2>3 DEF Written
<1>8. Written(Marked[part], {}, {}, part, {})
  <2>1. Marked[part] = WithMarks(server, group.mailbox, part)
    BY <1>1 DEF Marked, WithMarks
  <2>2. /\ Marked[part] \in [Mailboxes -> Mailbox]
        /\ \A b \in Mailboxes :
             /\ Marked[part][b].uidvalidity = server[b].uidvalidity
             /\ Marked[part][b].held = server[b].held
             /\ Marked[part][b].arrived = server[b].arrived
             /\ Marked[part][b].flagged = server[b].flagged
             /\ Marked[part][b].deleted = IF b = group.mailbox
                                          THEN server[b].deleted \cup part ELSE server[b].deleted
    BY <1>1, <1>3, <2>1, MarkedBoxes
  <2> QED BY <1>4, <2>2 DEF Written
<1>9. Written(Expunged[part], part \cap server[group.mailbox].deleted, {}, {}, {})
  <2>1. Expunged[part] = Removed(server, part \cap server[group.mailbox].deleted)
    BY <1>1 DEF Expunged
  <2>2. /\ Expunged[part] \in [Mailboxes -> Mailbox]
        /\ \A b \in Mailboxes :
             /\ Expunged[part][b].uidvalidity = server[b].uidvalidity
             /\ Expunged[part][b].arrived = server[b].arrived
             /\ b # group.mailbox => Expunged[part][b] = server[b]
             /\ b = group.mailbox =>
                  /\ Expunged[part][b].held = server[b].held \ (part \cap server[group.mailbox].deleted)
                  /\ Expunged[part][b].deleted = server[b].deleted \ (part \cap server[group.mailbox].deleted)
                  /\ Expunged[part][b].flagged = server[b].flagged \ (part \cap server[group.mailbox].deleted)
    BY <1>1, <2>1, RemovedBoxes
  <2> QED BY <1>4, <2>2 DEF Written
<1>10. Written(Flagged[part], {}, {}, {}, part)
  <2>1. Flagged[part] = WithFlags(server, group.mailbox, part)
    BY <1>1 DEF Flagged, WithFlags
  <2>2. /\ Flagged[part] \in [Mailboxes -> Mailbox]
        /\ \A b \in Mailboxes :
             /\ Flagged[part][b].uidvalidity = server[b].uidvalidity
             /\ Flagged[part][b].held = server[b].held
             /\ Flagged[part][b].arrived = server[b].arrived
             /\ Flagged[part][b].deleted = server[b].deleted
             /\ Flagged[part][b].flagged = IF b = group.mailbox
                                           THEN server[b].flagged \cup part ELSE server[b].flagged
    <3>1. part \in SUBSET Uids
      BY <1>3
    <3>2. LET after == WithFlags(server, group.mailbox, part)
          IN  /\ after \in [Mailboxes -> Mailbox]
              /\ \A b \in Mailboxes :
                   /\ after[b].uidvalidity = server[b].uidvalidity /\ after[b].held = server[b].held
                   /\ after[b].arrived = server[b].arrived /\ after[b].deleted = server[b].deleted
                   /\ after[b].flagged = IF b = group.mailbox THEN server[b].flagged \cup part
                                                              ELSE server[b].flagged
      BY <1>1, <3>1, FlaggedBoxes
    <3> QED BY <2>1, <3>2
  <2> QED BY <1>4, <2>2 DEF Written
<1> QED BY <1>6, <1>7, <1>8, <1>9, <1>10

\* What a write does to the messages of its group, and to no other.
ViewAfter(gone, came, marked, flags) ==
  \A m \in request.message_ids \ meddled :
    /\ server'[m.mailbox].uidvalidity = server[m.mailbox].uidvalidity
    /\ m \notin entries(group) => SameView(m)
    /\ m \in entries(group) =>
         /\ IsHeld(m)' <=> IsHeld(m) /\ m.uid \notin gone
         /\ HasArrived(m)' <=> HasArrived(m) \/ m.uid \in came
         /\ m.uid \in server'[m.mailbox].deleted
              <=> (m.uid \in server[m.mailbox].deleted \/ m.uid \in marked) /\ m.uid \notin gone
         /\ m.uid \in server'[m.mailbox].flagged
              <=> (m.uid \in server[m.mailbox].flagged \/ m.uid \in flags) /\ m.uid \notin gone

LEMMA WriteView ==
  ASSUME Inv, Writing, UNCHANGED request,
         NEW gone \in SUBSET Addressed, NEW came \in SUBSET Addressed,
         NEW marked \in SUBSET Addressed, NEW flags \in SUBSET Addressed,
         Written(server', gone, came, marked, flags)
  PROVE  ViewAfter(gone, came, marked, flags)
<1> SUFFICES ASSUME NEW m \in request.message_ids \ meddled
    PROVE  /\ server'[m.mailbox].uidvalidity = server[m.mailbox].uidvalidity
           /\ m \notin entries(group) => SameView(m)
           /\ m \in entries(group) =>
                /\ IsHeld(m)' <=> IsHeld(m) /\ m.uid \notin gone
                /\ HasArrived(m)' <=> HasArrived(m) \/ m.uid \in came
                /\ m.uid \in server'[m.mailbox].deleted
                     <=> (m.uid \in server[m.mailbox].deleted \/ m.uid \in marked) /\ m.uid \notin gone
                /\ m.uid \in server'[m.mailbox].flagged
                     <=> (m.uid \in server[m.mailbox].flagged \/ m.uid \in flags) /\ m.uid \notin gone
  BY DEF ViewAfter
<1>1. m.mailbox \in Mailboxes /\ request.destination \in Mailboxes
  BY WritingGroup, Messages DEF Inv
<1>2. /\ server'[m.mailbox].uidvalidity = server[m.mailbox].uidvalidity
      /\ HasArrived(m)' <=> HasArrived(m) \/ m \in At(came)
      /\ IsHeld(m)' <=> IsHeld(m) /\ ~(m.mailbox = group.mailbox /\ m.uid \in gone)
      /\ m.uid \in server'[m.mailbox].deleted
           <=> /\ m.uid \in server[m.mailbox].deleted \/ (m.mailbox = group.mailbox /\ m.uid \in marked)
               /\ ~(m.mailbox = group.mailbox /\ m.uid \in gone)
      /\ m.uid \in server'[m.mailbox].flagged
           <=> /\ m.uid \in server[m.mailbox].flagged \/ (m.mailbox = group.mailbox /\ m.uid \in flags)
               /\ ~(m.mailbox = group.mailbox /\ m.uid \in gone)
  BY <1>1 DEF Written, IsHeld, HasArrived
<1>3. m \in At(came) <=> m \in entries(group) /\ m.uid \in came
  BY AddressedMessages
<1>4. CASE m \in entries(group)
  <2>1. m.mailbox = group.mailbox
    BY <1>4, AddressedMessages
  <2> QED BY <1>2, <1>3, <1>4, <2>1
<1>5. CASE m \notin entries(group)
  <2>1. m.mailbox = group.mailbox => gone = {} /\ came = {} /\ marked = {} /\ flags = {}
    BY <1>5, AddressedMessages
  <2> QED BY <1>2, <1>3, <1>5, <2>1 DEF SameView
<1> QED BY <1>4, <1>5

\* The session after a write.
LEMMA SessionAfterWrite ==
  ASSUME Inv, Writing, AfterFailure \/ (session' = [session EXCEPT !.condition = "sound"] /\ UNCHANGED faults)
  PROVE  /\ session' \in [condition: Condition, mailbox: MessageMutationGroup \cup {NoMailbox}]
         /\ session'.condition # "none" /\ faults' \in 0..MaxFaults
<1>1. CASE AfterFailure
  BY <1>1, FailureTypes, WritingGroup DEF Inv
<1>2. CASE session' = [session EXCEPT !.condition = "sound"] /\ UNCHANGED faults
  BY <1>2, WritingGroup DEF Inv, TypeOK, Condition
<1> QED BY <1>1, <1>2

\* The end of a group by a write, or by the FETCH after it.
LEMMA WriteReported ==
  ASSUME Inv, Writing, NEW results, ReportGroup(results),
         UNCHANGED <<request, meddled, selected, supports_move>>,
         NEW gone \in SUBSET Addressed, NEW came \in SUBSET Addressed,
         NEW marked \in SUBSET Addressed, NEW flags \in SUBSET Addressed,
         Written(server', gone, came, marked, flags),
         NEW part \in SUBSET Addressed, touched' = touched \cup At(part),
         AfterFailure \/ (session' = [session EXCEPT !.condition = "sound"] /\ UNCHANGED faults),
         \A m \in entries(group) :
           /\ results[m] \in MessageResult /\ results[m].status # "unreported"
           /\ results[m].status = "failed" => request.action = "flags",
         \A m \in entries(group) \ meddled : result_by_id'[m] = results[m] => Settled(m)'
  PROVE  Inv'
<1>0. /\ server' \in [Mailboxes -> Mailbox]
      /\ \A b \in Mailboxes : server'[b].uidvalidity = server[b].uidvalidity
      /\ \A m \in request.message_ids \ meddled : m \notin entries(group) => SameView(m)
  <2>1. \A m \in request.message_ids \ meddled : m \notin entries(group) => SameView(m)
    <3>1. ViewAfter(gone, came, marked, flags)
      BY WriteView
    <3> QED BY <3>1 DEF ViewAfter
  <2> QED BY <2>1 DEF Written
<1>1. /\ pc \in InGroup /\ remaining # {}
      /\ At(part) \subseteq entries(group)
      /\ \A m \in entries(group) \ meddled :
           server'[m.mailbox].uidvalidity = server[m.mailbox].uidvalidity
  BY <1>0, WritingGroup, AddressedMessages, Messages DEF Inv
<1>2. touched \subseteq touched' /\ touched' \subseteq touched \cup entries(group)
  BY <1>1
<1>3. /\ Course' /\ Ledger' /\ MessagesAsReported'
      /\ pc' = "loop" /\ remaining' = remaining \ {group}
      /\ result_by_id' \in [DOMAIN result_by_id' -> MessageResult]
      /\ DOMAIN result_by_id' = request.message_ids
  BY <1>0, <1>1, <1>2, GroupReported DEF Inv
<1>4. touched' \subseteq MessageId
  BY <1>2, Messages DEF Inv, TypeOK, entries
<1>5. TypeOK'
  BY <1>0, <1>3, <1>4, SessionAfterWrite DEF Inv, TypeOK, ProgramCounter
<1>6. SelectedGroup'
  BY <1>3, WritingGroup DEF SelectedGroup, Writes
<1>7. BeforeRequest'
  BY <1>0, <1>3, BeforeKept DEF Inv
<1> QED BY <1>3, <1>5, <1>6, <1>7 DEF Inv

\* A write that succeeded, and the command that comes next.
LEMMA WriteGoesOn ==
  ASSUME Inv, pc \in Writes, pc' \in BegunAt,
         pc' \in {"uid_store_deleted", "uid_expunge"} => request.action \in {"delete", "move"},
         pc' = "fetch_flags" => request.action = "flags",
         UNCHANGED <<request, remaining, result_by_id, meddled, selected, supports_move, faults>>,
         NEW gone \in SUBSET Addressed, NEW came \in SUBSET Addressed,
         NEW marked \in SUBSET Addressed, NEW flags \in SUBSET Addressed,
         Written(server', gone, came, marked, flags),
         NEW part \in SUBSET Addressed, touched' = touched \cup At(part),
         session' = [session EXCEPT !.condition = "sound"],
         \A m \in entries(group) \ meddled : Underway(m)'
  PROVE  Inv'
<1> USE DEF Writing
<1>0. /\ server' \in [Mailboxes -> Mailbox]
      /\ \A b \in Mailboxes : server'[b].uidvalidity = server[b].uidvalidity
      /\ \A m \in request.message_ids \ meddled : m \notin entries(group) => SameView(m)
  <2>1. \A m \in request.message_ids \ meddled : m \notin entries(group) => SameView(m)
    <3>1. ViewAfter(gone, came, marked, flags)
      BY WriteView
    <3> QED BY <3>1 DEF ViewAfter
  <2> QED BY <2>1 DEF Written
<1>1. /\ pc \in InGroup /\ Accepted /\ remaining # {}
      /\ session = [condition |-> "sound", mailbox |-> group] /\ selected = group
      /\ group \in MessageMutationGroup /\ DOMAIN result_by_id = request.message_ids
      /\ At(part) \subseteq entries(group)
      /\ \A m \in entries(group) \ meddled :
           server'[m.mailbox].uidvalidity = server[m.mailbox].uidvalidity
  BY <1>0, WritingGroup, AddressedMessages, Messages DEF Inv
<1>2. touched \subseteq touched' /\ touched' \subseteq touched \cup entries(group)
  BY <1>1
<1>3. Ledger' /\ MessagesAsReported'
  BY <1>0, <1>1, <1>2, GroupGoesOn DEF Inv
<1>4. touched' \subseteq MessageId
  BY <1>2, Messages DEF Inv, TypeOK, entries
<1>5. session' = [condition |-> "sound", mailbox |-> group] /\ group' = group
  BY <1>1 DEF group
<1>6. pc' \in InGroup /\ Accepted' /\ pc' \in ProgramCounter /\ pc' # "idle"
  BY DEF BegunAt, InGroup, Writes, Accepted, ProgramCounter
<1>7. TypeOK'
  <2>1. session' \in [condition: Condition, mailbox: MessageMutationGroup \cup {NoMailbox}]
        /\ session'.condition # "none"
    BY <1>1, <1>5 DEF Condition
  <2> QED BY <1>0, <1>4, <1>6, <2>1 DEF Inv, TypeOK
<1>8. Course'
  <2>1. group_message_ids(request.message_ids)' = group_message_ids(request.message_ids)
    BY DEF group_message_ids
  <2>2. pc \notin {"idle", "rejected"} /\ pc' \notin {"done", "capabilities", "uid_move", "uid_copy", "uid_store_flags"}
    BY DEF BegunAt, Writes
  <2> QED BY <1>1, <1>6, <2>1, <2>2 DEF Inv, Course
<1>9. SelectedGroup'
  BY <1>1, <1>5, <1>6 DEF SelectedGroup, BegunAt
<1>10. BeforeRequest'
  BY <1>0, <1>6, BeforeKept DEF Inv
<1> QED BY <1>3, <1>7, <1>8, <1>9, <1>10 DEF Inv

\* A write is carried out and goes on, or fails for some of the messages it
\* was carried out for.
Succeeded(effect) ==
  /\ server' = effect[Addressed] /\ touched' = touched \cup At(Addressed)
  /\ session' = [session EXCEPT !.condition = "sound"]
  /\ UNCHANGED faults

Failed(effect, part) ==
  /\ server' = effect[part] /\ touched' = touched \cup At(part)
  /\ AfterFailure

\* A message of the group whose first write is still to come.
LEMMA UntouchedBefore ==
  ASSUME Inv, Writing, pc \notin BegunAt, NEW m \in entries(group) \ meddled
  PROVE  m \in request.message_ids /\ Untouched(m) /\ m.uid \in Addressed
<1>1. m \in request.message_ids /\ Pending(m) /\ (m.uid \in Addressed <=> IsHeld(m))
  BY AddressedMessages
<1>2. Untouched(m)
  BY <1>1, WritingGroup DEF Inv, MessagesAsReported, Begun, BegunAt
<1> QED BY <1>1, <1>2 DEF Untouched

\* One that was begun.
LEMMA UnderwayBefore ==
  ASSUME Inv, Writing, pc \in BegunAt, NEW m \in entries(group) \ meddled
  PROVE  m \in request.message_ids /\ Underway(m) /\ m.uid \in Addressed
<1>1. m \in request.message_ids /\ (m.uid \in Addressed <=> IsHeld(m))
  BY AddressedMessages
<1>2. Underway(m)
  BY <1>1 DEF Inv, MessagesAsReported, Begun, BegunAt
<1> QED BY <1>1, <1>2 DEF Underway

\* The results of a write that completes its group, and of one that fails.
LEMMA WriteResults ==
  ASSUME NEW label \in Writes \cup {"fetch_flags"}
  PROVE  /\ [status |-> "ok", stage |-> "none"] \in MessageResult
         /\ [status |-> "partial", stage |-> label] \in MessageResult
         /\ [status |-> "failed", stage |-> label] \in MessageResult
         /\ AllDone => ReportGroup([m \in entries(group) |-> [status |-> "ok", stage |-> "none"]])
         /\ \A success \in BOOLEAN :
              finalize_group_results(label, success)
              => ReportGroup([m \in entries(group) |->
                   [status |-> IF success THEN "partial" ELSE "failed", stage |-> label]])
BY DEF MessageResult, Stage, Writes, AllDone, finalize_group_results, status_from_counts

LEMMA UidMoveKeeps ==
  ASSUME Inv, uid_move_sequence
  PROVE  Inv'
<1> DEFINE done == [m \in entries(group) |-> [status |-> "ok", stage |-> "none"]]
           half == [m \in entries(group) |-> [status |-> "partial", stage |-> "uid_move"]]
<1>1. /\ pc = "uid_move" /\ Writing /\ pc \notin BegunAt /\ request.action = "move"
      /\ UNCHANGED <<request, meddled, selected, supports_move>>
  BY DEF uid_move_sequence, Write, UidCommand, Writing, Writes, BegunAt, Inv, Course
<1>2. \A m \in entries(group) : done[m] = [status |-> "ok", stage |-> "none"]
                             /\ half[m] = [status |-> "partial", stage |-> "uid_move"]
  OBVIOUS
<1>3. \A part \in SUBSET Addressed : Written(Moved[part], part, part, {}, {})
  BY <1>1, EffectsWritten
<1>4. CASE Succeeded(Moved) /\ ReportGroup(done)
  <2> HIDE DEF done
  <2>1. /\ Written(server', Addressed, Addressed, {}, {})
        /\ ViewAfter(Addressed, Addressed, {}, {})
    <3>1. Written(server', Addressed, Addressed, {}, {})
      BY <1>3, <1>4 DEF Succeeded
    <3> QED BY <1>1, <3>1, WriteView
  <2>2. ASSUME NEW m \in entries(group) \ meddled, result_by_id'[m] = done[m]
        PROVE  Settled(m)'
    <3>1. m \in request.message_ids /\ Untouched(m) /\ m.uid \in Addressed
      BY <1>1, UntouchedBefore
    <3>2. ~IsHeld(m)' /\ HasArrived(m)'
      BY <1>1, <2>1, <3>1 DEF ViewAfter, Untouched
    <3> QED BY <1>1, <1>2, <2>2, <3>2 DEF Settled, HasDestination
  <2>3. \A m \in entries(group) :
          done[m] \in MessageResult /\ done[m].status # "unreported" /\ done[m].status # "failed"
    BY <1>2, WriteResults DEF Writes
  <2> QED BY <1>1, <1>4, <2>1, <2>2, <2>3, WriteReported DEF Succeeded
<1>5. CASE \E part \in SUBSET Addressed : Failed(Moved, part) /\ ReportGroup(half)
  <2>1. PICK part \in SUBSET Addressed : Failed(Moved, part) /\ ReportGroup(half)
    BY <1>5
  <2> HIDE DEF half
  <2>2. /\ Written(server', part, part, {}, {})
        /\ ViewAfter(part, part, {}, {})
    <3>1. Written(server', part, part, {}, {})
      BY <1>3, <2>1 DEF Failed
    <3> QED BY <1>1, <3>1, WriteView
  <2>3. ASSUME NEW m \in entries(group) \ meddled, result_by_id'[m] = half[m]
        PROVE  Settled(m)'
    <3>1. m \in request.message_ids /\ Untouched(m)
      BY <1>1, UntouchedBefore
    <3>2. (IsHeld(m)' <=> m.uid \notin part) /\ (HasArrived(m)' <=> m.uid \in part)
      BY <1>1, <2>2, <3>1 DEF ViewAfter, Untouched
    <3> QED BY <1>1, <1>2, <2>3, <3>2 DEF Settled
  <2>4. \A m \in entries(group) :
          half[m] \in MessageResult /\ half[m].status # "unreported" /\ half[m].status # "failed"
    BY <1>2, WriteResults DEF Writes
  <2> QED BY <1>1, <2>1, <2>2, <2>3, <2>4, WriteReported DEF Failed
<1>6. AllDone => ReportGroup(done)
  BY WriteResults
<1>7. finalize_group_results("uid_move", TRUE) => ReportGroup(half)
  BY WriteResults DEF Writes
<1> QED BY <1>1, <1>4, <1>5, <1>6, <1>7 DEF uid_move_sequence, Write, UidCommand, Succeeded, Failed

LEMMA UidCopyKeeps ==
  ASSUME Inv, uid_copy_sequence
  PROVE  Inv'
<1> DEFINE done == [m \in entries(group) |-> [status |-> "ok", stage |-> "none"]]
           half == [m \in entries(group) |-> [status |-> "partial", stage |-> "uid_copy"]]
<1>1. /\ pc = "uid_copy" /\ Writing /\ pc \in Writes /\ pc \notin BegunAt
      /\ request.action \in {"copy", "move"}
      /\ UNCHANGED <<request, meddled, selected, supports_move>>
  BY DEF uid_copy_sequence, Write, UidCommand, Writing, Writes, BegunAt, Inv, Course
<1>2. \A m \in entries(group) : done[m] = [status |-> "ok", stage |-> "none"]
                             /\ half[m] = [status |-> "partial", stage |-> "uid_copy"]
  OBVIOUS
<1>3. \A part \in SUBSET Addressed : Written(Copied[part], {}, part, {}, {})
  BY <1>1, EffectsWritten
<1>4. ASSUME Succeeded(Copied), NEW m \in entries(group) \ meddled
      PROVE  IsHeld(m)' /\ HasArrived(m)'
  <2>1. /\ Written(server', {}, Addressed, {}, {})
        /\ ViewAfter({}, Addressed, {}, {})
    <3>1. Written(server', {}, Addressed, {}, {})
      BY <1>3, <1>4 DEF Succeeded
    <3> QED BY <1>1, <3>1, WriteView
  <2>2. m \in request.message_ids /\ Untouched(m) /\ m.uid \in Addressed
    BY <1>1, UntouchedBefore
  <2> QED BY <1>1, <2>1, <2>2 DEF ViewAfter, Untouched
<1>5. CASE Succeeded(Copied) /\ request.action = "copy" /\ ReportGroup(done)
  <2> HIDE DEF done
  <2>1. /\ Written(server', {}, Addressed, {}, {})
        /\ ViewAfter({}, Addressed, {}, {})
    <3>1. Written(server', {}, Addressed, {}, {})
      BY <1>3, <1>5 DEF Succeeded
    <3> QED BY <1>1, <3>1, WriteView
  <2>2. ASSUME NEW m \in entries(group) \ meddled, result_by_id'[m] = done[m]
        PROVE  Settled(m)'
    BY <1>1, <1>2, <1>4, <1>5, <2>2 DEF Settled, HasDestination
  <2>3. \A m \in entries(group) :
          done[m] \in MessageResult /\ done[m].status # "unreported" /\ done[m].status # "failed"
    BY <1>2, WriteResults DEF Writes
  <2> QED BY <1>1, <1>5, <2>1, <2>2, <2>3, WriteReported DEF Succeeded
<1>6. CASE /\ Succeeded(Copied) /\ request.action = "move"
           /\ pc' = "uid_store_deleted" /\ UNCHANGED <<remaining, result_by_id>>
  <2>1. /\ Written(server', {}, Addressed, {}, {})
        /\ ViewAfter({}, Addressed, {}, {})
    <3>1. Written(server', {}, Addressed, {}, {})
      BY <1>3, <1>6 DEF Succeeded
    <3> QED BY <1>1, <3>1, WriteView
  <2>2. \A m \in entries(group) \ meddled : Underway(m)'
    BY <1>4, <1>6 DEF Underway
  <2> QED BY <1>1, <1>6, <2>1, <2>2, WriteGoesOn DEF Succeeded, BegunAt
<1>7. CASE \E part \in SUBSET Addressed : Failed(Copied, part) /\ ReportGroup(half)
  <2>1. PICK part \in SUBSET Addressed : Failed(Copied, part) /\ ReportGroup(half)
    BY <1>7
  <2> HIDE DEF half
  <2>2. /\ Written(server', {}, part, {}, {})
        /\ ViewAfter({}, part, {}, {})
    <3>1. Written(server', {}, part, {}, {})
      BY <1>3, <2>1 DEF Failed
    <3> QED BY <1>1, <3>1, WriteView
  <2>3. ASSUME NEW m \in entries(group) \ meddled, result_by_id'[m] = half[m]
        PROVE  Settled(m)'
    <3>1. m \in request.message_ids /\ Untouched(m)
      BY <1>1, UntouchedBefore
    <3>2. IsHeld(m)'
      BY <1>1, <2>2, <3>1 DEF ViewAfter, Untouched
    <3> QED BY <1>1, <1>2, <2>3, <3>2 DEF Settled
  <2>4. \A m \in entries(group) :
          half[m] \in MessageResult /\ half[m].status # "unreported" /\ half[m].status # "failed"
    BY <1>2, WriteResults DEF Writes
  <2> QED BY <1>1, <2>1, <2>2, <2>3, <2>4, WriteReported DEF Failed
<1>8. AllDone => ReportGroup(done)
  BY WriteResults
<1>9. finalize_group_results("uid_copy", TRUE) => ReportGroup(half)
  BY WriteResults DEF Writes
<1> QED BY <1>1, <1>5, <1>6, <1>7, <1>8, <1>9
        DEF uid_copy_sequence, Write, UidCommand, Succeeded, Failed, Then

LEMMA UidStoreDeletedKeeps ==
  ASSUME Inv, uid_store_deleted
  PROVE  Inv'
<1> DEFINE half == [m \in entries(group) |-> [status |-> "partial", stage |-> "uid_store_deleted"]]
<1>1. /\ pc = "uid_store_deleted" /\ Writing /\ pc \in Writes /\ pc \in BegunAt
      /\ request.action \in {"delete", "move"}
      /\ UNCHANGED <<request, meddled, selected, supports_move>>
  BY DEF uid_store_deleted, Write, UidCommand, Writing, Writes, BegunAt, Inv, Course
<1>2. \A m \in entries(group) : half[m] = [status |-> "partial", stage |-> "uid_store_deleted"]
  OBVIOUS
<1>3. \A part \in SUBSET Addressed : Written(Marked[part], {}, {}, part, {})
  BY <1>1, EffectsWritten
<1>4. CASE /\ Succeeded(Marked)
           /\ pc' = "uid_expunge" /\ UNCHANGED <<remaining, result_by_id>>
  <2>1. /\ Written(server', {}, {}, Addressed, {})
        /\ ViewAfter({}, {}, Addressed, {})
    <3>1. Written(server', {}, {}, Addressed, {})
      BY <1>3, <1>4 DEF Succeeded
    <3> QED BY <1>1, <3>1, WriteView
  <2>2. ASSUME NEW m \in entries(group) \ meddled
        PROVE  Underway(m)'
    <3>1. m \in request.message_ids /\ Underway(m) /\ m.uid \in Addressed
      BY <1>1, UnderwayBefore
    <3>2. /\ IsHeld(m)' /\ m.uid \in server'[m.mailbox].deleted
          /\ request.action = "move" => HasArrived(m)'
      BY <1>1, <2>1, <3>1 DEF ViewAfter, Underway
    <3> QED BY <1>1, <1>4, <3>2 DEF Underway
  <2> QED BY <1>1, <1>4, <2>1, <2>2, WriteGoesOn DEF Succeeded, BegunAt
<1>5. CASE \E part \in SUBSET Addressed : Failed(Marked, part) /\ ReportGroup(half)
  <2>1. PICK part \in SUBSET Addressed : Failed(Marked, part) /\ ReportGroup(half)
    BY <1>5
  <2> HIDE DEF half
  <2>2. /\ Written(server', {}, {}, part, {})
        /\ ViewAfter({}, {}, part, {})
    <3>1. Written(server', {}, {}, part, {})
      BY <1>3, <2>1 DEF Failed
    <3> QED BY <1>1, <3>1, WriteView
  <2>3. ASSUME NEW m \in entries(group) \ meddled, result_by_id'[m] = half[m]
        PROVE  Settled(m)'
    <3>1. m \in request.message_ids /\ Underway(m)
      BY <1>1, UnderwayBefore
    <3>2. IsHeld(m)' /\ (request.action = "move" => HasArrived(m)')
      BY <1>1, <2>2, <3>1 DEF ViewAfter, Underway
    <3> QED BY <1>1, <1>2, <2>3, <3>2 DEF Settled
  <2>4. \A m \in entries(group) :
          half[m] \in MessageResult /\ half[m].status # "unreported" /\ half[m].status # "failed"
    BY <1>2, WriteResults DEF Writes
  <2> QED BY <1>1, <2>1, <2>2, <2>3, <2>4, WriteReported DEF Failed
<1>6. finalize_group_results("uid_store_deleted", TRUE) => ReportGroup(half)
  BY WriteResults DEF Writes
<1> QED BY <1>1, <1>4, <1>5, <1>6
        DEF uid_store_deleted, Write, UidCommand, Succeeded, Failed, Then

LEMMA UidExpungeKeeps ==
  ASSUME Inv, uid_expunge_sequence
  PROVE  Inv'
<1> DEFINE done == [m \in entries(group) |-> [status |-> "ok", stage |-> "none"]]
           half == [m \in entries(group) |-> [status |-> "partial", stage |-> "uid_expunge"]]
           marked(part) == part \cap server[group.mailbox].deleted
<1>1. /\ pc = "uid_expunge" /\ Writing /\ pc \in Writes /\ pc \in BegunAt
      /\ request.action \in {"delete", "move"}
      /\ UNCHANGED <<request, meddled, selected, supports_move>>
  BY DEF uid_expunge_sequence, Write, UidCommand, Writing, Writes, BegunAt, Inv, Course
<1>2. \A m \in entries(group) : done[m] = [status |-> "ok", stage |-> "none"]
                             /\ half[m] = [status |-> "partial", stage |-> "uid_expunge"]
  OBVIOUS
<1>3. \A part \in SUBSET Addressed :
        marked(part) \in SUBSET Addressed /\ Written(Expunged[part], marked(part), {}, {}, {})
  BY <1>1, EffectsWritten
<1>4. CASE Succeeded(Expunged) /\ ReportGroup(done)
  <2> HIDE DEF done
  <2>1. /\ Written(server', marked(Addressed), {}, {}, {})
        /\ ViewAfter(marked(Addressed), {}, {}, {})
    <3>1. Written(server', marked(Addressed), {}, {}, {})
      BY <1>3, <1>4 DEF Succeeded
    <3> QED BY <1>1, <1>3, <3>1, WriteView
  <2>2. ASSUME NEW m \in entries(group) \ meddled, result_by_id'[m] = done[m]
        PROVE  Settled(m)'
    <3>1. m \in request.message_ids /\ Underway(m) /\ m.uid \in Addressed
      BY <1>1, UnderwayBefore
    <3>2. m.uid \in marked(Addressed)
      BY <1>1, <3>1, AddressedMessages DEF Underway
    <3> HIDE DEF marked
    <3>3. ~IsHeld(m)' /\ (request.action = "move" => HasArrived(m)')
      BY <1>1, <1>3, <2>1, <3>1, <3>2 DEF ViewAfter, Underway
    <3> QED BY <1>1, <1>2, <2>2, <3>3 DEF Settled, HasDestination
  <2>3. \A m \in entries(group) :
          done[m] \in MessageResult /\ done[m].status # "unreported" /\ done[m].status # "failed"
    BY <1>2, WriteResults DEF Writes
  <2> HIDE DEF marked
  <2> QED BY <1>1, <1>3, <1>4, <2>1, <2>2, <2>3, WriteReported DEF Succeeded
<1>5. CASE \E part \in SUBSET Addressed : Failed(Expunged, part) /\ ReportGroup(half)
  <2>1. PICK part \in SUBSET Addressed : Failed(Expunged, part) /\ ReportGroup(half)
    BY <1>5
  <2> HIDE DEF half, marked
  <2>2. /\ Written(server', marked(part), {}, {}, {})
        /\ ViewAfter(marked(part), {}, {}, {})
    <3>1. Written(server', marked(part), {}, {}, {})
      BY <1>3, <2>1 DEF Failed
    <3> QED BY <1>1, <1>3, <3>1, WriteView
  <2>3. ASSUME NEW m \in entries(group) \ meddled, result_by_id'[m] = half[m]
        PROVE  Settled(m)'
    <3>1. m \in request.message_ids /\ Underway(m)
      BY <1>1, UnderwayBefore
    <3>2. request.action = "move" => HasArrived(m)'
      BY <1>1, <1>3, <2>2, <3>1 DEF ViewAfter, Underway
    <3> QED BY <1>1, <1>2, <2>3, <3>2 DEF Settled
  <2>4. \A m \in entries(group) :
          half[m] \in MessageResult /\ half[m].status # "unreported" /\ half[m].status # "failed"
    BY <1>2, WriteResults DEF Writes
  <2> QED BY <1>1, <1>3, <2>1, <2>2, <2>3, <2>4, WriteReported DEF Failed
<1>6. AllDone => ReportGroup(done)
  BY WriteResults
<1>7. finalize_group_results("uid_expunge", TRUE) => ReportGroup(half)
  BY WriteResults DEF Writes
<1> QED BY <1>1, <1>4, <1>5, <1>6, <1>7 DEF uid_expunge_sequence, Write, UidCommand, Succeeded, Failed

LEMMA UidStoreFlagsKeeps ==
  ASSUME Inv, uid_store_flags
  PROVE  Inv'
<1> DEFINE none == [m \in entries(group) |-> [status |-> "failed", stage |-> "uid_store_flags"]]
<1>1. /\ pc = "uid_store_flags" /\ Writing /\ pc \in Writes /\ pc \notin BegunAt
      /\ request.action = "flags"
      /\ UNCHANGED <<request, meddled, selected, supports_move>>
  BY DEF uid_store_flags, Write, UidCommand, Writing, Writes, BegunAt, Inv, Course
<1>2. \A m \in entries(group) : none[m] = [status |-> "failed", stage |-> "uid_store_flags"]
  OBVIOUS
<1>3. \A part \in SUBSET Addressed : Written(Flagged[part], {}, {}, {}, part)
  BY <1>1, EffectsWritten
<1>4. CASE /\ Succeeded(Flagged)
           /\ pc' = "fetch_flags" /\ UNCHANGED <<remaining, result_by_id>>
  <2>1. /\ Written(server', {}, {}, {}, Addressed)
        /\ ViewAfter({}, {}, {}, Addressed)
    <3>1. Written(server', {}, {}, {}, Addressed)
      BY <1>3, <1>4 DEF Succeeded
    <3> QED BY <1>1, <3>1, WriteView
  <2>2. ASSUME NEW m \in entries(group) \ meddled
        PROVE  Underway(m)'
    <3>1. m \in request.message_ids /\ Untouched(m) /\ m.uid \in Addressed
      BY <1>1, UntouchedBefore
    <3>2. IsHeld(m)' /\ m.uid \in server'[m.mailbox].flagged
      BY <1>1, <2>1, <3>1 DEF ViewAfter, Untouched
    <3> QED BY <1>1, <1>4, <3>2 DEF Underway
  <2> QED BY <1>1, <1>4, <2>1, <2>2, WriteGoesOn DEF Succeeded, BegunAt
<1>5. CASE \E part \in SUBSET Addressed : Failed(Flagged, part) /\ ReportGroup(none)
  <2>1. PICK part \in SUBSET Addressed : Failed(Flagged, part) /\ ReportGroup(none)
    BY <1>5
  <2> HIDE DEF none
  <2>2. /\ Written(server', {}, {}, {}, part)
        /\ ViewAfter({}, {}, {}, part)
    <3>1. Written(server', {}, {}, {}, part)
      BY <1>3, <2>1 DEF Failed
    <3> QED BY <1>1, <3>1, WriteView
  <2>3. ASSUME NEW m \in entries(group) \ meddled, result_by_id'[m] = none[m]
        PROVE  Settled(m)'
    <3>1. m \in request.message_ids /\ Untouched(m)
      BY <1>1, UntouchedBefore
    <3>2. IsHeld(m)'
      BY <1>1, <2>2, <3>1 DEF ViewAfter, Untouched
    <3> QED BY <1>1, <1>2, <2>3, <3>2 DEF Settled
  <2>4. \A m \in entries(group) : none[m] \in MessageResult /\ none[m].status # "unreported"
    BY <1>2, WriteResults DEF Writes
  <2> QED BY <1>1, <2>1, <2>2, <2>3, <2>4, WriteReported DEF Failed
<1>6. finalize_group_results("uid_store_flags", FALSE) => ReportGroup(none)
  BY WriteResults DEF Writes
<1> QED BY <1>1, <1>4, <1>5, <1>6
        DEF uid_store_flags, Write, UidCommand, Succeeded, Failed, Then

\* The FETCH after a change of flags reads what is there and leaves it so.
LEMMA FetchFlagsKeeps ==
  ASSUME Inv, fetch_flags_by_uid_set
  PROVE  Inv'
<1> DEFINE seen == [m \in entries(group) |->
                      IF m.uid \in Addressed THEN [status |-> "ok", stage |-> "none"]
                      ELSE [status |-> "failed", stage |-> "fetch_flags"]]
           none == [m \in entries(group) |-> [status |-> "failed", stage |-> "fetch_flags"]]
<1>1. /\ pc = "fetch_flags" /\ Writing /\ pc \in BegunAt /\ request.action = "flags"
      /\ UNCHANGED <<request, meddled, selected, supports_move, server, touched>>
  BY DEF fetch_flags_by_uid_set, Inquiry, Writing, BegunAt, Inv, Course
<1>2. \A m \in entries(group) :
        /\ seen[m] \in {[status |-> "ok", stage |-> "none"],
                        [status |-> "failed", stage |-> "fetch_flags"]}
        /\ none[m] = [status |-> "failed", stage |-> "fetch_flags"]
  OBVIOUS
<1>3. /\ \/ ReportGroup(seen) /\ session' = [session EXCEPT !.condition = "sound"] /\ UNCHANGED faults
         \/ ReportGroup(none) /\ AfterFailure
  <2>1. finalize_group_results("fetch_flags", FALSE) => ReportGroup(none)
    BY WriteResults
  <2> QED BY <2>1 DEF fetch_flags_by_uid_set, Inquiry, status_from_counts
<1>4. PICK results \in {seen, none} :
        /\ ReportGroup(results)
        /\ AfterFailure \/ (session' = [session EXCEPT !.condition = "sound"] /\ UNCHANGED faults)
  BY <1>3
<1>5. \A m \in entries(group) : results[m] \in {[status |-> "ok", stage |-> "none"],
                                                [status |-> "failed", stage |-> "fetch_flags"]}
  BY <1>2, <1>4
<1> HIDE DEF seen, none
<1>6. \A m \in entries(group) : results[m] \in MessageResult /\ results[m].status # "unreported"
  <2>1. /\ [status |-> "ok", stage |-> "none"] \in MessageResult
        /\ [status |-> "failed", stage |-> "fetch_flags"] \in MessageResult
    BY WriteResults
  <2> QED BY <1>5, <2>1
<1>7. ASSUME NEW m \in entries(group) \ meddled, result_by_id'[m] = results[m]
      PROVE  Settled(m)'
  <2>1. Underway(m)
    BY <1>1, UnderwayBefore
  <2>2. IsHeld(m)' /\ m.uid \in server'[m.mailbox].flagged
    BY <1>1, <2>1 DEF Underway, IsHeld
  <2> QED BY <1>1, <1>5, <1>7, <2>2 DEF Settled, HasDestination
<1>8. Written(server', {}, {}, {}, {}) /\ touched' = touched \cup At({})
  BY <1>1 DEF Written, At, Inv, TypeOK
<1> QED BY <1>1, <1>4, <1>6, <1>7, <1>8, WriteReported

-----------------------------------------------------------------------------
(* Other clients.                                                          *)

\* What they do to a message that is named they are said to have done.
LEMMA OthersKept ==
  ASSUME Inv, UNCHANGED <<request, pc, remaining, result_by_id, session, selected, supports_move, touched>>,
         server' \in [Mailboxes -> Mailbox], faults' \in 0..MaxFaults,
         meddled \subseteq meddled', meddled' \subseteq MessageId,
         \A m \in request.message_ids \ meddled' : SameView(m),
         BeforeRequest'
  PROVE  Inv'
<1>1. Accepted' <=> Accepted
  BY DEF Accepted
<1>2. Ledger' /\ MessagesAsReported'
  BY <1>1, ViewKept DEF Inv
<1>3. TypeOK'
  BY DEF Inv, TypeOK
<1>4. Course'
  <2>1. group_message_ids(request.message_ids)' = group_message_ids(request.message_ids)
    BY DEF group_message_ids
  <2> QED BY <1>1, <2>1 DEF Inv, Course
<1>5. SelectedGroup'
  BY DEF Inv, SelectedGroup, group
<1> QED BY <1>2, <1>3, <1>4, <1>5 DEF Inv

LEMMA OtherClientKeeps ==
  ASSUME Inv, NEW n \in request.message_ids, OtherClientActs(n)
  PROVE  Inv'
<1> DEFINE d == n.mailbox
           removed == [server EXCEPT ![d].held = @ \ {n.uid}, ![d].deleted = @ \ {n.uid},
                                     ![d].flagged = @ \ {n.uid}]
           unmarked == [server EXCEPT ![d].deleted = @ \ {n.uid}]
<1>1. /\ n \in MessageId /\ d \in Mailboxes /\ server[d].uidvalidity = n.uidvalidity
      /\ UNCHANGED <<request, pc, remaining, result_by_id, session, selected, supports_move, touched>>
      /\ meddled' = meddled \cup {n} /\ server \in [Mailboxes -> Mailbox] /\ server[d] \in Mailbox
      /\ server' \in {removed, unmarked}
  BY Messages DEF Inv, TypeOK, OtherClientActs
<1>2. faults' \in 0..MaxFaults
  BY NumberAssumption DEF OtherClientActs, Fault, Inv, TypeOK
<1>3. pc # "idle"
  BY DEF Inv, Course
<1>4. /\ \A b \in Mailboxes : b # d => server'[b] = server[b]
      /\ server' = [b \in Mailboxes |-> server'[b]]
  BY <1>1
<1>5. /\ server'[d] \in Mailbox
      /\ server'[d].uidvalidity = server[d].uidvalidity
      /\ server'[d].arrived = server[d].arrived
      /\ \A u : u # n.uid => /\ u \in server'[d].held <=> u \in server[d].held
                             /\ u \in server'[d].deleted <=> u \in server[d].deleted
                             /\ u \in server'[d].flagged <=> u \in server[d].flagged
  <2>1. /\ server[d].held \ {n.uid} \in SUBSET Uids
        /\ server[d].deleted \ {n.uid} \in SUBSET Uids
        /\ server[d].flagged \ {n.uid} \in SUBSET Uids
    BY <1>1 DEF Mailbox
  <2>2. CASE server' = removed
    <3>1. server'[d] = [[[server[d] EXCEPT !.held = server[d].held \ {n.uid}]
                           EXCEPT !.deleted = server[d].deleted \ {n.uid}]
                           EXCEPT !.flagged = server[d].flagged \ {n.uid}]
      BY <1>1, <2>2
    <3> QED BY <1>1, <2>1, <3>1 DEF Mailbox
  <2>3. CASE server' = unmarked
    <3>1. server'[d] = [server[d] EXCEPT !.deleted = server[d].deleted \ {n.uid}]
      BY <1>1, <2>3
    <3> QED BY <1>1, <2>1, <3>1 DEF Mailbox
  <2> QED BY <1>1, <2>2, <2>3
<1>6. server' \in [Mailboxes -> Mailbox]
  BY <1>1, <1>4, <1>5
<1>7. ASSUME NEW m \in request.message_ids \ meddled'
      PROVE  SameView(m)
  <2>1. m \notin meddled /\ m # n /\ server[m.mailbox].uidvalidity = m.uidvalidity
    BY <1>1, <1>7 DEF Inv, MessagesAsReported
  <2>2. m.mailbox \in Mailboxes /\ request.destination \in Mailboxes
    BY <1>3, Messages, MailboxAssumption DEF Inv, Course
  <2>3. m.mailbox = d => m.uid # n.uid
    BY <1>1, <2>1, Messages DEF Inv
  <2>4. server'[request.destination].arrived = server[request.destination].arrived
    BY <1>4, <1>5, <2>2
  <2>5. CASE m.mailbox = d
    BY <1>1, <1>5, <2>3, <2>4, <2>5 DEF SameView, IsHeld, HasArrived
  <2>6. CASE m.mailbox # d
    BY <1>1, <1>4, <2>2, <2>4, <2>6 DEF SameView, IsHeld, HasArrived
  <2> QED BY <2>5, <2>6
<1>8. BeforeRequest'
  <2>1. \A b \in Mailboxes : server'[b].uidvalidity = server[b].uidvalidity
    BY <1>4, <1>5
  <2> QED BY <1>1, <1>3, <2>1 DEF Inv, BeforeRequest, MessageId
<1>9. meddled \subseteq meddled' /\ meddled' \subseteq MessageId
  BY <1>1 DEF Inv, TypeOK
<1> QED BY <1>1, <1>2, <1>6, <1>7, <1>8, <1>9, OthersKept

LEMMA MailboxReplacedKeeps ==
  ASSUME Inv, NEW d \in Mailboxes, MailboxReplaced(d)
  PROVE  Inv'
<1> DEFINE fresh == [uidvalidity |-> server[d].uidvalidity + 1, held |-> Uids,
                     arrived |-> {}, deleted |-> {}, flagged |-> {}]
           old == {m \in MessageId : m.mailbox = d /\ m.uidvalidity = server[d].uidvalidity}
<1>1. /\ UNCHANGED <<request, pc, remaining, result_by_id, session, selected, supports_move, touched>>
      /\ server' = [server EXCEPT ![d] = fresh]
      /\ meddled' = meddled \cup server[d].arrived \cup old
      /\ server \in [Mailboxes -> Mailbox] /\ server[d] \in Mailbox
      /\ server[d].uidvalidity < MaxUidValidity
  BY DEF Inv, TypeOK, MailboxReplaced
<1>2. faults' \in 0..MaxFaults
  BY NumberAssumption DEF MailboxReplaced, Fault, Inv, TypeOK
<1>3. \A b \in Mailboxes : server[b].uidvalidity \in UidValidity /\ server[b].arrived \subseteq MessageId
  BY <1>1 DEF Mailbox
<1>4. server[d].uidvalidity + 1 \in UidValidity
  BY <1>1, <1>3, NumberAssumption DEF UidValidity
<1>5. fresh \in Mailbox /\ fresh.uidvalidity = server[d].uidvalidity + 1
      /\ fresh.held = Uids /\ fresh.arrived = {}
  BY <1>4 DEF Mailbox
<1> HIDE DEF fresh
<1>6. server' \in [Mailboxes -> Mailbox] /\ server'[d] = fresh
      /\ \A b \in Mailboxes : b # d => server'[b] = server[b]
  BY <1>1, <1>5
<1>7. meddled \subseteq meddled' /\ meddled' \subseteq MessageId
  BY <1>1, <1>3 DEF Inv, TypeOK
<1>8. ASSUME NEW m \in request.message_ids \ meddled'
      PROVE  SameView(m)
  <2>1. m \notin meddled /\ server[m.mailbox].uidvalidity = m.uidvalidity /\ m \in MessageId
    BY <1>1, <1>8, Messages DEF Inv, MessagesAsReported
  <2>2. m.mailbox # d
    BY <1>1, <1>8, <2>1
  <2>3. m.mailbox \in Mailboxes /\ request.destination \in Mailboxes
    BY Messages, MailboxAssumption DEF Inv, Course
  <2>4. HasArrived(m)' <=> HasArrived(m)
    <3>1. m \notin server[d].arrived /\ m \notin server'[d].arrived
      BY <1>1, <1>5, <1>6, <1>8
    <3> QED BY <1>1, <1>6, <2>3, <3>1 DEF HasArrived
  <2> QED BY <1>1, <1>6, <2>2, <2>3, <2>4 DEF SameView, IsHeld
<1>9. BeforeRequest'
  <2>1. ASSUME NEW m \in MessageId, m.uidvalidity < server'[m.mailbox].uidvalidity
        PROVE  m \in meddled'
    <3>1. m.mailbox \in Mailboxes /\ m.uidvalidity \in UidValidity
      BY DEF MessageId
    <3>2. CASE m.mailbox = d
      <4>1. m.uidvalidity < server[d].uidvalidity \/ m.uidvalidity = server[d].uidvalidity
        BY <1>3, <1>5, <1>6, <2>1, <3>1, <3>2, NumberAssumption DEF UidValidity
      <4> QED BY <1>1, <3>2, <4>1 DEF Inv, BeforeRequest
    <3>3. CASE m.mailbox # d
      BY <1>6, <1>7, <2>1, <3>1, <3>3 DEF Inv, BeforeRequest
    <3> QED BY <3>2, <3>3
  <2>2. pc' = "idle" => \A b \in Mailboxes : server'[b].held = Uids /\ server'[b].arrived = {}
    BY <1>1, <1>5, <1>6 DEF Inv, BeforeRequest
  <2> QED BY <2>1, <2>2 DEF BeforeRequest
<1> QED BY <1>1, <1>2, <1>6, <1>7, <1>8, <1>9, OthersKept

-----------------------------------------------------------------------------
(* The invariant, and what it says.                                        *)

LEMMA StutterKeeps ==
  ASSUME Inv, UNCHANGED vars
  PROVE  Inv'
<1>1. \A m : SameView(m)
  BY DEF SameView, IsHeld, HasArrived
<1>2. BeforeRequest'
  BY DEF Inv, BeforeRequest
<1> QED BY <1>1, <1>2, OthersKept DEF Inv, TypeOK

LEMMA NextInv == Inv /\ [Next]_vars => Inv'
<1> SUFFICES ASSUME Inv, [Next]_vars PROVE Inv'
  OBVIOUS
<1>1. ASSUME NEW a \in Action, NEW ids \in Selections, NEW d \in Destinations, Request(a, ids, d)
      PROVE  Inv'
  BY <1>1, RequestKeeps
<1>2. CASE preflight_connect
  BY <1>2, PreflightConnectKeeps
<1>3. CASE examine_destination
  BY <1>3, ExamineDestinationKeeps
<1>4. CASE validate_group
  BY <1>4, ValidateGroupKeeps
<1>5. CASE create_operation
  BY <1>5, CreateOperationKeeps
<1>6. CASE execute_operation_step
  BY <1>6, ExecuteOperationStepKeeps
<1>7. CASE HandOver
  BY <1>7, HandOverKeeps
<1>8. CASE append_canceled_message_results
  BY <1>8, AppendCanceledKeeps
<1>9. CASE finalize_operation
  BY <1>9, FinalizeOperationKeeps
<1>10. CASE connect
  BY <1>10, ConnectKeeps
<1>11. CASE select_mailbox_readwrite
  BY <1>11, SelectMailboxKeeps
<1>12. CASE capabilities
  BY <1>12, CapabilitiesKeeps
<1>13. CASE uid_move_sequence
  BY <1>13, UidMoveKeeps
<1>14. CASE uid_copy_sequence
  BY <1>14, UidCopyKeeps
<1>15. CASE uid_store_deleted
  BY <1>15, UidStoreDeletedKeeps
<1>16. CASE uid_expunge_sequence
  BY <1>16, UidExpungeKeeps
<1>17. CASE uid_store_flags
  BY <1>17, UidStoreFlagsKeeps
<1>18. CASE fetch_flags_by_uid_set
  BY <1>18, FetchFlagsKeeps
<1>19. ASSUME NEW m \in request.message_ids, OtherClientActs(m)
       PROVE  Inv'
  BY <1>19, OtherClientKeeps
<1>20. ASSUME NEW b \in Mailboxes, MailboxReplaced(b)
       PROVE  Inv'
  BY <1>20, MailboxReplacedKeeps
<1>21. CASE UNCHANGED vars
  BY <1>21, StutterKeeps
<1> QED BY <1>1, <1>2, <1>3, <1>4, <1>5, <1>6, <1>7, <1>8, <1>9, <1>10, <1>11, <1>12, <1>13,
           <1>14, <1>15, <1>16, <1>17, <1>18, <1>19, <1>20, <1>21 DEF Next, Run

THEOREM GroupInvariant == Spec => []Inv
<1> QED BY InitInv, NextInv, PTL DEF Spec

\* A message that has its result is one whose group is done.
LEMMA ReportedMessages ==
  ASSUME Inv, NEW m \in DOMAIN result_by_id
  PROVE  /\ m \in request.message_ids /\ Accepted
         /\ m \notin meddled => /\ Pending(m) => IsHeld(m)
                                /\ ~Pending(m) => Settled(m)
         /\ result_by_id[m].status = "unreported" <=> Pending(m)
         /\ Pending(m) => result_by_id[m].stage = "none"
         /\ result_by_id[m].status = "failed" /\ request.action # "flags" => m \notin touched
<1>1. m \in request.message_ids /\ Accepted
  BY DEF Inv, Course
<1>2. ASSUME m \notin meddled, Pending(m)
      PROVE  IsHeld(m)
  BY <1>1, <1>2 DEF Inv, MessagesAsReported, Untouched, Underway
<1>3. ASSUME m \notin meddled, ~Pending(m)
      PROVE  Settled(m)
  BY <1>1, <1>3 DEF Inv, MessagesAsReported
<1> QED BY <1>1, <1>2, <1>3 DEF Inv, Ledger

\* Every variable keeps its type.
THEOREM TypeCorrect == Spec => []TypeOK
<1>1. Inv => TypeOK
  BY DEF Inv
<1> QED BY <1>1, GroupInvariant, PTL

\* Whatever mailboxes are replaced and whatever fails, no command acts on a
\* message that was not named.
THEOREM NamedTouched == Spec => []OnlyNamedTouched
<1>1. Inv => OnlyNamedTouched
  BY ReportedMessages DEF Inv, Ledger, OnlyNamedTouched
<1> QED BY <1>1, GroupInvariant, PTL

\* A write is only sent on a session in step that has the mailbox of its group
\* selected.
THEOREM WritesAlwaysInStep == Spec => []WritesInStep
<1>1. Inv => WritesInStep
  <2> SUFFICES ASSUME Inv, pc \in Writes \cup {"fetch_flags"}
               PROVE  session.condition # "unread" /\ session.mailbox = group
    BY DEF WritesInStep
  <2> QED BY WritingGroup DEF Writing
<1> QED BY <1>1, GroupInvariant, PTL

\* No message is lost, at whatever command a move fails.
THEOREM NeverLost == Spec => []NothingLost
<1>1. Inv => NothingLost
  BY ReportedMessages DEF NothingLost, Undisturbed, Settled
<1> QED BY <1>1, GroupInvariant, PTL

\* What is reported as ok was done.
THEOREM OkIsDone == Spec => []OkMeansDone
<1>1. Inv => OkMeansDone
  <2> SUFFICES ASSUME Inv, NEW m \in Undisturbed \cap Reported("ok")
               PROVE  /\ HasDestination => HasArrived(m)
                      /\ request.action \in {"move", "delete"} <=> ~IsHeld(m)
                      /\ request.action = "flags" => m.uid \in server[m.mailbox].flagged
    BY DEF OkMeansDone
  <2>1. m \in DOMAIN result_by_id /\ m \notin meddled /\ result_by_id[m].status = "ok"
    BY DEF Undisturbed, Reported
  <2>2. Settled(m)
    BY <2>1, ReportedMessages
  <2> QED BY <2>1, <2>2 DEF Settled
<1> QED BY <1>1, GroupInvariant, PTL

\* What is reported as failed may be asked for again.
THEOREM FailedIsUntouched == Spec => []FailedMeansUntouched
<1>1. Inv => FailedMeansUntouched
  BY ReportedMessages DEF FailedMeansUntouched, Reported
<1> QED BY <1>1, GroupInvariant, PTL

\* The stage of an issue tells how far the group came.
THEOREM StageIsProgress == Spec => []StageTellsProgress
<1>1. Inv => StageTellsProgress
  <2> SUFFICES ASSUME Inv PROVE StageTellsProgress
    OBVIOUS
  <2>1. ASSUME NEW m \in Undisturbed, result_by_id[m].stage # "none"
        PROVE  Settled(m)
    BY <2>1, ReportedMessages DEF Undisturbed
  <2>2. \A m \in Undisturbed \cap AtStage({"uid_copy", "uid_store_deleted"}) : IsHeld(m)
    BY <2>1 DEF AtStage, Settled
  <2>3. ASSUME request.action = "move",
               NEW m \in Undisturbed \cap AtStage({"uid_store_deleted", "uid_expunge"})
        PROVE  HasArrived(m)
    BY <2>1, <2>3 DEF AtStage, Settled
  <2>4. ASSUME request.action = "move", NEW m \in Undisturbed \cap AtStage({"uid_move"})
        PROVE  IsHeld(m) <=> ~HasArrived(m)
    BY <2>1, <2>4 DEF AtStage, Settled
  <2> QED BY <2>2, <2>3, <2>4 DEF StageTellsProgress
<1> QED BY <1>1, GroupInvariant, PTL

\* When an operation is done, every message named has its result.
THEOREM AllReported == Spec => []EveryMessageReported
<1>1. Inv => EveryMessageReported
  <2> SUFFICES ASSUME Inv, pc = "done"
               PROVE  DOMAIN result_by_id = request.message_ids /\ Reported("unreported") = {}
    BY DEF EveryMessageReported
  <2>1. remaining = {} /\ DOMAIN result_by_id = request.message_ids
    BY DEF Inv, Course, Accepted
  <2>2. \A m : ~Pending(m)
    BY <2>1 DEF Pending
  <2> QED BY <2>1, <2>2, ReportedMessages DEF Reported
<1> QED BY <1>1, GroupInvariant, PTL

-----------------------------------------------------------------------------
(* The steps as the engine sees them.                                      *)

\* A step between the boundaries of groups.
Quiet ==
  /\ UNCHANGED <<request, remaining, result_by_id>>
  /\ Accepted' <=> Accepted
  /\ pc' \in InGroup <=> pc \in InGroup
  /\ pc' = "done" <=> pc = "done"

\* A result has issues unless it is "ok", and no group is canceled that began.
GroupResults(results) ==
  \A m \in entries(group) :
    /\ results[m].status \in {"ok", "partial", "failed"}
    /\ results[m].stage # "canceled"
    /\ results[m].status = "ok" <=> results[m].stage = "none"

GroupEnds ==
  /\ pc \in InGroup /\ UNCHANGED request
  /\ \E results : GroupResults(results) /\ ReportGroup(results)

LEMMA FinalizedGroup ==
  ASSUME pc \in InGroup, UNCHANGED request, NEW stage, stage # "canceled",
         NEW success \in BOOLEAN, finalize_group_results(stage, success)
  PROVE  GroupEnds
<1> DEFINE results == [m \in entries(group) |->
                         [status |-> status_from_counts(stage = "none", success),
                          stage |-> stage]]
<1>1. GroupResults(results)
  BY DEF GroupResults, status_from_counts
<1>2. ReportGroup(results)
  BY Zenon DEF finalize_group_results
<1> QED BY <1>1, <1>2 DEF GroupEnds

LEMMA FailedGroup ==
  ASSUME pc \in InGroup, UNCHANGED request, NEW stage, stage \notin {"canceled", "none"},
         failed_group_results(stage)
  PROVE  GroupEnds
<1> DEFINE results == [m \in entries(group) |-> [status |-> "failed", stage |-> stage]]
<1>1. GroupResults(results)
  BY DEF GroupResults
<1>2. ReportGroup(results)
  BY Zenon DEF failed_group_results
<1> QED BY <1>1, <1>2 DEF GroupEnds

LEMMA InGroupSteps ==
  ASSUME UNCHANGED <<request, remaining, result_by_id>>, pc \in InGroup, pc' \in InGroup
  PROVE  Quiet
BY DEF Quiet, Accepted, InGroup, Writes

LEMMA FirstCommandInGroup ==
  ASSUME Inv, NEW moves \in {"unknown", "yes", "no"}
  PROVE  FirstCommand(moves) \in InGroup
<1>1. request.action \in Action
  BY DEF Inv, TypeOK
<1> QED BY <1>1 DEF Action, FirstCommand, InGroup, Writes

\* A write reports its group or goes on with it.
LEMMA WriteKinds ==
  ASSUME NEW label \in Writes, NEW effect,
         pc = label, UNCHANGED request,
         NEW next \in InGroup,
         UidCommand(effect, AllDone \/ Then(next),
                    finalize_group_results(label, request.action # "flags"))
  PROVE  Quiet \/ GroupEnds
<1>1. pc \in InGroup /\ label \notin {"canceled", "none"}
  BY DEF InGroup, Writes
<1>2. CASE AllDone
  BY <1>1, <1>2, FinalizedGroup DEF AllDone
<1>3. CASE Then(next)
  BY <1>1, <1>3, InGroupSteps DEF Then
<1>4. CASE finalize_group_results(label, request.action # "flags")
  BY <1>1, <1>4, FinalizedGroup
<1> QED BY <1>2, <1>3, <1>4 DEF UidCommand

LEMMA StepKinds ==
  ASSUME Inv, [Next]_vars
  PROVE  \/ \E a \in Action, ids \in Selections, d \in Destinations : Request(a, ids, d)
         \/ validate_group \/ create_operation \/ execute_operation_step
         \/ append_canceled_message_results \/ finalize_operation
         \/ GroupEnds \/ Quiet
<1>1. CASE preflight_connect
  BY <1>1 DEF preflight_connect, Quiet, Accepted, InGroup, Writes
<1>2. CASE examine_destination
  BY <1>2 DEF examine_destination, Select, Quiet, Accepted, InGroup, Writes
<1>3. CASE HandOver
  BY <1>3 DEF HandOver, Quiet, Accepted, InGroup, Writes
<1>4. CASE connect
  <2>1. pc \in InGroup /\ UNCHANGED request
    BY <1>4 DEF connect, InGroup
  <2>2. CASE failed_group_results("select_mailbox_readwrite")
    BY <2>1, <2>2, FailedGroup
  <2>3. CASE pc' = "select_mailbox_readwrite" /\ UNCHANGED <<remaining, result_by_id>>
    BY <2>1, <2>3, InGroupSteps DEF InGroup
  <2> QED BY <1>4, <2>2, <2>3 DEF connect
<1>5. CASE select_mailbox_readwrite
  <2>1. pc \in InGroup /\ UNCHANGED request
    BY <1>5 DEF select_mailbox_readwrite, InGroup
  <2>2. CASE failed_group_results("select_mailbox_readwrite")
    BY <2>1, <2>2, FailedGroup
  <2>3. CASE pc' = FirstCommand(supports_move) /\ UNCHANGED <<remaining, result_by_id>>
    BY <2>1, <2>3, FirstCommandInGroup, InGroupSteps DEF Inv, TypeOK
  <2> QED BY <1>5, <2>2, <2>3 DEF select_mailbox_readwrite, Select, CheckSelection
<1>6. CASE capabilities
  <2>1. pc \in InGroup /\ UNCHANGED request
    BY <1>6 DEF capabilities, InGroup
  <2>2. CASE failed_group_results("capabilities")
    BY <2>1, <2>2, FailedGroup
  <2>3. ASSUME NEW moves \in {"yes", "no"}, pc' = FirstCommand(moves),
               UNCHANGED <<remaining, result_by_id>>
        PROVE  Quiet
    BY <2>1, <2>3, FirstCommandInGroup, InGroupSteps
  <2> QED BY <1>6, <2>2, <2>3 DEF capabilities, Inquiry
<1>7. CASE uid_move_sequence
  BY <1>7, WriteKinds DEF uid_move_sequence, Write, UidCommand, Writes, InGroup
<1>8. CASE uid_copy_sequence
  BY <1>8, WriteKinds DEF uid_copy_sequence, Write, UidCommand, Writes, InGroup
<1>9. CASE uid_store_deleted
  BY <1>9, WriteKinds DEF uid_store_deleted, Write, UidCommand, Writes, InGroup
<1>10. CASE uid_expunge_sequence
  BY <1>10, WriteKinds DEF uid_expunge_sequence, Write, UidCommand, Writes, InGroup
<1>11. CASE uid_store_flags
  BY <1>11, WriteKinds DEF uid_store_flags, Write, UidCommand, Writes, InGroup
<1>12. CASE fetch_flags_by_uid_set
  <2>1. pc \in InGroup /\ UNCHANGED request
    BY <1>12 DEF fetch_flags_by_uid_set, InGroup
  <2>2. CASE finalize_group_results("fetch_flags", FALSE)
    BY <2>1, <2>2, FinalizedGroup
  <2> DEFINE results == [m \in entries(group) |->
               IF m.uid \in Addressed
               THEN [status |-> status_from_counts(TRUE, TRUE), stage |-> "none"]
               ELSE [status |-> status_from_counts(FALSE, FALSE), stage |-> "fetch_flags"]]
  <2>3. CASE ReportGroup(results)
    <3>1. GroupResults(results)
      BY DEF GroupResults, status_from_counts
    <3> HIDE DEF results
    <3> QED BY <2>1, <2>3, <3>1 DEF GroupEnds
  <2> QED BY <1>12, <2>2, <2>3, Zenon DEF fetch_flags_by_uid_set, Inquiry
<1>13. ASSUME NEW m \in request.message_ids, OtherClientActs(m)
       PROVE  Quiet
  BY <1>13 DEF OtherClientActs, Quiet, Accepted
<1>14. ASSUME NEW b \in Mailboxes, MailboxReplaced(b)
       PROVE  Quiet
  BY <1>14 DEF MailboxReplaced, Quiet, Accepted
<1>15. CASE UNCHANGED vars
  BY <1>15 DEF Quiet, Accepted
<1> QED BY <1>1, <1>2, <1>3, <1>4, <1>5, <1>6, <1>7, <1>8, <1>9, <1>10, <1>11, <1>12, <1>13,
           <1>14, <1>15 DEF Next, Run

-----------------------------------------------------------------------------
(* Groups come in turn, and have results when they are done.                 *)

\* An order that tells any two groups apart.
LEMMA GroupsInOrder ==
  /\ \A g, h \in MessageMutationGroup : Before(g, h) \/ Before(h, g)
  /\ \A g, h \in MessageMutationGroup : Before(g, h) /\ Before(h, g) => g = h
  /\ \A g, h, k \in MessageMutationGroup : Before(g, h) /\ Before(h, k) => Before(g, k)
<1>1. \A g \in MessageMutationGroup :
        /\ g = [mailbox |-> g.mailbox, uidvalidity |-> g.uidvalidity]
        /\ g.mailbox \in Nat /\ g.uidvalidity \in Nat
  <2>1. \A g \in MessageMutationGroup :
          /\ g = [mailbox |-> g.mailbox, uidvalidity |-> g.uidvalidity]
          /\ g.mailbox \in Mailboxes /\ g.uidvalidity \in UidValidity
    BY DEF MessageMutationGroup
  <2>2. UidValidity \subseteq Nat /\ Mailboxes \subseteq Nat
    BY MailboxAssumption, NumberAssumption DEF UidValidity
  <2> QED BY <2>1, <2>2
<1>2. \A g, h \in MessageMutationGroup :
        g.mailbox = h.mailbox /\ g.uidvalidity = h.uidvalidity => g = h
  BY <1>1
<1> QED BY <1>1, <1>2 DEF Before

\* Taking the first group leaves the others in turn.
LEMMA TurnTaken ==
  ASSUME Inv, Turns, remaining # {}
  PROVE  \A g \in group_message_ids(request.message_ids) \ (remaining \ {group}),
            h \in remaining \ {group} : Before(g, h)
BY GroupRemains DEF Inv, Turns

LEMMA GroupEndTurns ==
  ASSUME Inv, Turns, GroupEnds
  PROVE  Turns' /\ AtStage({"canceled"})' = {}
<1>1. PICK results : GroupResults(results) /\ ReportGroup(results)
  BY DEF GroupEnds
<1>2. /\ UNCHANGED request /\ remaining # {} /\ DOMAIN result_by_id = request.message_ids
      /\ remaining' = remaining \ {group}
      /\ result_by_id' = [m \in request.message_ids |->
           IF m \in entries(group) THEN results[m] ELSE result_by_id[m]]
  BY <1>1 DEF GroupEnds, ReportGroup, Inv, Course, Accepted
<1>3. \A m \in request.message_ids :
        /\ m \in entries(group) =>
             /\ result_by_id'[m].stage # "canceled"
             /\ result_by_id'[m].status = "ok" <=> result_by_id'[m].stage = "none"
        /\ m \notin entries(group) => result_by_id'[m] = result_by_id[m]
  BY <1>1, <1>2 DEF GroupResults
<1>4. \A m \in request.message_ids :
        /\ result_by_id[m].stage # "canceled"
        /\ result_by_id[m].status # "unreported" =>
             (result_by_id[m].status = "ok" <=> result_by_id[m].stage = "none")
  BY <1>2 DEF Turns, AtStage, Reported
<1>5. AtStage({"canceled"})' = {}
  BY <1>2, <1>3, <1>4 DEF AtStage
<1>6. \A m \in (DOMAIN result_by_id \ Reported("unreported"))' :
        m \in Reported("ok")' <=> m \in AtStage({"none"})'
  BY <1>2, <1>3, <1>4 DEF AtStage, Reported
<1>7. group_message_ids(request.message_ids)' = group_message_ids(request.message_ids)
  BY <1>2 DEF group_message_ids
<1> QED BY <1>2, <1>5, <1>6, <1>7, TurnTaken DEF Turns

LEMMA TurnsKept ==
  ASSUME Inv, Turns, [Next]_vars
  PROVE  Turns'
<1>0. ASSUME UNCHANGED <<request, result_by_id>>
      PROVE  /\ group_message_ids(request.message_ids)' = group_message_ids(request.message_ids)
             /\ AtStage({"canceled"})' = AtStage({"canceled"})
             /\ AtStage({"none"})' = AtStage({"none"})
             /\ Reported("ok")' = Reported("ok")
             /\ Reported("unreported")' = Reported("unreported")
  BY <1>0 DEF group_message_ids, AtStage, Reported
<1>1. ASSUME NEW a \in Action, NEW ids \in Selections, NEW d \in Destinations, Request(a, ids, d)
      PROVE  Turns'
  <2>1. /\ request'.message_ids = ids /\ remaining' = group_message_ids(ids)
        /\ DOMAIN result_by_id' = {}
    BY <1>1 DEF Request, Inv, Course, Accepted, InGroup, Writes
  <2>2. group_message_ids(request.message_ids)' = group_message_ids(ids)
    BY <2>1 DEF group_message_ids
  <2> QED BY <2>1, <2>2 DEF Turns, AtStage, Reported
<1>2. CASE validate_group
  <2>1. /\ UNCHANGED <<request, result_by_id>> /\ remaining # {} /\ DOMAIN result_by_id = {}
    BY <1>2 DEF validate_group, Inv, Course, Accepted, InGroup, Writes
  <2>2. remaining' = remaining \/ remaining' = remaining \ {group}
    BY <1>2 DEF validate_group, Select, CompareUidValidity
  <2>3. AtStage({"canceled"})' = {}
    BY <2>1 DEF AtStage
  <2>4. \A m \in (DOMAIN result_by_id \ Reported("unreported"))' :
          m \in Reported("ok")' <=> m \in AtStage({"none"})'
    BY <2>1
  <2>5. \A g \in group_message_ids(request.message_ids) \ remaining', h \in remaining' : Before(g, h)
    BY <2>1, <2>2, TurnTaken DEF Turns
  <2> QED BY <1>0, <2>1, <2>3, <2>4, <2>5 DEF Turns
<1>3. CASE create_operation
  <2>1. /\ UNCHANGED request /\ remaining' = group_message_ids(request.message_ids)
        /\ result_by_id' = [m \in request.message_ids |-> [status |-> "unreported", stage |-> "none"]]
    BY <1>3 DEF create_operation
  <2>2. group_message_ids(request.message_ids)' = group_message_ids(request.message_ids)
    BY <2>1 DEF group_message_ids
  <2> QED BY <2>1, <2>2 DEF Turns, AtStage, Reported
<1>4. CASE execute_operation_step \/ finalize_operation \/ Quiet
  <2>1. UNCHANGED <<request, remaining, result_by_id>>
    BY <1>4 DEF execute_operation_step, finalize_operation, Quiet
  <2> QED BY <1>0, <2>1 DEF Turns
<1>5. CASE append_canceled_message_results
  <2>1. /\ UNCHANGED request /\ remaining' = {}
        /\ result_by_id' = [m \in DOMAIN result_by_id |->
             IF \E g \in remaining : m \in entries(g)
             THEN [status |-> "failed", stage |-> "canceled"] ELSE result_by_id[m]]
    BY <1>5 DEF append_canceled_message_results, CanceledGroups
  <2>2. \A m \in (DOMAIN result_by_id \ Reported("unreported"))' :
          m \in Reported("ok")' <=> m \in AtStage({"none"})'
    BY <2>1 DEF Turns, AtStage, Reported
  <2> QED BY <2>1, <2>2 DEF Turns
<1> QED BY <1>1, <1>2, <1>3, <1>4, <1>5, GroupEndTurns, StepKinds

LEMMA InitTurns == Init => Turns
BY DEF Init, Turns, AtStage, Reported

FullInv == Inv /\ Turns

-----------------------------------------------------------------------------
(* Counting groups.                                                        *)

LEMMA GroupsFinite ==
  ASSUME NEW ids, IsFiniteSet(ids)
  PROVE  IsFiniteSet(group_message_ids(ids))
<1> DEFINE of == [m \in ids |-> [mailbox |-> m.mailbox, uidvalidity |-> m.uidvalidity]]
<1>1. of \in Surjection(ids, group_message_ids(ids))
  BY DEF Surjection, group_message_ids
<1> QED BY <1>1, FS_Surjection

Rank(g, S) == Cardinality({h \in S : Before(h, g)})

\* Each of n groups has a rank of its own in 1..n, and each rank is taken.
LEMMA Ranks ==
  ASSUME NEW S \in SUBSET MessageMutationGroup, IsFiniteSet(S)
  PROVE  /\ \A g \in S : Rank(g, S) \in 1..Cardinality(S)
         /\ \A i \in 1..Cardinality(S) : \E g \in S : Rank(g, S) = i
<1> DEFINE Upto(g) == {h \in S : Before(h, g)}
           rank == [g \in S |-> Rank(g, S)]
<1>1. Cardinality(S) \in Nat
  BY FS_CardinalityType
<1>2. \A g \in S : /\ Upto(g) \in SUBSET S /\ g \in Upto(g)
                   /\ Rank(g, S) = Cardinality(Upto(g))
  BY GroupsInOrder DEF Rank
<1> HIDE DEF Upto
<1>3. ASSUME NEW g \in S
      PROVE  Rank(g, S) \in 1..Cardinality(S)
  <2>1. IsFiniteSet(Upto(g)) /\ Cardinality(Upto(g)) <= Cardinality(S)
    BY <1>2, FS_Subset
  <2>2. Cardinality(Upto(g)) \in Nat /\ Cardinality(Upto(g)) # 0
    BY <1>2, <2>1, FS_CardinalityType, FS_EmptySet
  <2> QED BY <1>1, <1>2, <2>1, <2>2
<1>4. ASSUME NEW g \in S, NEW k \in S, Rank(g, S) = Rank(k, S), Before(g, k)
      PROVE  g = k
  <2>1. Upto(g) \in SUBSET Upto(k)
    BY <1>4, GroupsInOrder DEF Upto
  <2>2. IsFiniteSet(Upto(k))
    BY <1>2, FS_Subset
  <2>3. Upto(k) = Upto(g)
    BY <1>2, <1>4, <2>1, <2>2, FS_Subset
  <2>4. Before(k, g)
    BY <1>2, <2>3 DEF Upto
  <2> QED BY <1>4, <2>4, GroupsInOrder
<1>5. rank \in Injection(S, 1..Cardinality(S))
  <2>1. rank \in [S -> 1..Cardinality(S)]
    BY <1>3
  <2>2. \A g, k \in S : rank[g] = rank[k] => g = k
    BY <1>4, GroupsInOrder
  <2> QED BY <2>1, <2>2 DEF Injection, IsInjective
<1>6. rank \in Surjection(S, 1..Cardinality(S))
  <2>1. IsFiniteSet(1..Cardinality(S)) /\ Cardinality(1..Cardinality(S)) = Cardinality(S)
    BY <1>1, FS_Interval
  <2> HIDE DEF rank
  <2> QED BY <1>5, <2>1, FS_Injection
<1>7. \A i \in 1..Cardinality(S) : \E g \in S : rank[g] = i
  <2> HIDE DEF rank
  <2> QED BY <1>6 DEF Surjection
<1> QED BY <1>3, <1>7

\* The groups of an accepted operation, those executed among them.
LEMMA AcceptedGroups ==
  ASSUME Inv, Accepted
  PROVE  /\ request.message_ids \in Selections
         /\ DOMAIN result_by_id = request.message_ids
         /\ group_message_ids(request.message_ids) \in SUBSET MessageMutationGroup
         /\ IsFiniteSet(group_message_ids(request.message_ids))
         /\ remaining \subseteq group_message_ids(request.message_ids)
<1>1. request.message_ids \in Selections /\ request.message_ids \subseteq MessageId
  BY SelectionAssumption DEF Inv, Course, Accepted, InGroup, Writes
<1>2. group_message_ids(request.message_ids) \in SUBSET MessageMutationGroup
  BY <1>1 DEF group_message_ids, MessageId, MessageMutationGroup
<1> QED BY <1>1, <1>2, SelectionAssumption, GroupsFinite DEF Inv, Course

LEMMA ExecutedGroups ==
  ASSUME FullInv, Accepted, AtStage({"canceled"}) = {}
  PROVE  /\ Executed = {m \in request.message_ids : ~Pending(m)}
         /\ group_message_ids(Executed) = group_message_ids(request.message_ids) \ remaining
<1>1. DOMAIN result_by_id = request.message_ids
  BY AcceptedGroups DEF FullInv
<1>2. Executed = {m \in request.message_ids : ~Pending(m)}
  BY <1>1 DEF Executed, Reported, FullInv, Inv, Ledger
<1>3. group_message_ids(Executed) = group_message_ids(request.message_ids) \ remaining
  BY <1>2 DEF group_message_ids, Pending
<1> QED BY <1>2, <1>3

\* An outcome is what it was if the same messages are ok.
LEMMA OutcomeKept ==
  ASSUME UNCHANGED request, NEW i,
         \A m \in request.message_ids :
           Position(m) = i => (m \in Reported("ok")' <=> m \in Reported("ok"))
  PROVE  OutcomeOf({m \in request.message_ids : Position(m) = i})'
           = OutcomeOf({m \in request.message_ids : Position(m) = i})
<1>1. \A m : Position(m)' = Position(m)
  BY DEF Position, group_message_ids
<1> DEFINE ids == {m \in request.message_ids : Position(m) = i}
<1>2. ids' = ids
  BY <1>1
<1>3. /\ ids \subseteq Reported("ok")' <=> ids \subseteq Reported("ok")
      /\ ids \cap Reported("ok")' = {} <=> ids \cap Reported("ok") = {}
  OBVIOUS
<1> HIDE DEF ids
<1> QED BY <1>2, <1>3 DEF OutcomeOf, ids

\* The messages of the group at work come next after those executed.
LEMMA NextPosition ==
  ASSUME FullInv, Accepted, remaining # {}, NEW m \in entries(group)
  PROVE  Position(m) = Cardinality(group_message_ids(Executed)) + 1
<1> DEFINE groups == group_message_ids(request.message_ids)
           executed == group_message_ids(Executed)
<1>1. /\ group \in remaining /\ remaining \subseteq groups
      /\ groups \in SUBSET MessageMutationGroup /\ IsFiniteSet(groups)
      /\ \A h \in remaining : Before(group, h)
  BY AcceptedGroups, GroupRemains DEF FullInv, Inv
<1>2. executed = groups \ remaining
  BY ExecutedGroups DEF FullInv, Turns
<1>3. \A g : Before(g, m) <=> Before(g, group)
  BY DEF entries, Before
<1> HIDE DEF groups, executed
<1>4. {g \in groups : Before(g, group)} = executed \cup {group}
  <2>1. \A g \in executed : Before(g, group)
    BY <1>1, <1>2 DEF FullInv, Turns, groups
  <2>2. \A g \in remaining : Before(g, group) => g = group
    BY <1>1, GroupsInOrder
  <2>3. Before(group, group)
    BY <1>1
  <2> QED BY <1>1, <1>2, <2>1, <2>2, <2>3
<1>5. IsFiniteSet(executed) /\ group \notin executed
  BY <1>1, <1>2, FS_Subset
<1>6. Cardinality(executed \cup {group}) = Cardinality(executed) + 1
  BY <1>5, FS_AddElement
<1>7. Position(m) = Cardinality({g \in groups : Before(g, group)})
  <2>1. {g \in groups : Before(g, m)} = {g \in groups : Before(g, group)}
    BY <1>3
  <2> QED BY <2>1 DEF Position, groups
<1> QED BY <1>4, <1>6, <1>7 DEF executed

\* What Outcomes is a sequence of.
LEMMA OutcomesTypes ==
  ASSUME FullInv, Accepted
  PROVE  /\ Cardinality(group_message_ids(Executed)) \in Nat
         /\ Outcomes \in Seq({"ok", "failed", "mixed"})
         /\ Len(Outcomes) = Cardinality(group_message_ids(Executed))
<1>1. IsFiniteSet(group_message_ids(Executed))
  <2>1. Executed \in SUBSET request.message_ids
    BY AcceptedGroups DEF Executed, FullInv
  <2>2. IsFiniteSet(Executed)
    BY <2>1, AcceptedGroups, SelectionAssumption, FS_Subset DEF FullInv
  <2> QED BY <2>2, GroupsFinite
<1>2. Cardinality(group_message_ids(Executed)) \in Nat
  BY <1>1, FS_CardinalityType
<1>3. \A ids : OutcomeOf(ids) \in {"ok", "failed", "mixed"}
  BY DEF OutcomeOf
<1>4. Outcomes \in [1..Cardinality(group_message_ids(Executed)) -> {"ok", "failed", "mixed"}]
  BY <1>3 DEF Outcomes
<1> QED BY <1>2, <1>4

\* The end of a group adds its outcome to those there are.
LEMMA OutcomeAdded ==
  ASSUME FullInv, GroupEnds
  PROVE  \E outcome \in {"ok", "failed", "mixed"} : Outcomes' = Append(Outcomes, outcome)
<1> DEFINE n == Cardinality(group_message_ids(Executed))
           at(i) == {m \in request.message_ids : Position(m) = i}
<1>1. PICK results : GroupResults(results) /\ ReportGroup(results)
  BY DEF GroupEnds
<1>2. /\ UNCHANGED request /\ remaining # {} /\ Accepted
      /\ DOMAIN result_by_id = request.message_ids
      /\ result_by_id' = [m \in request.message_ids |->
           IF m \in entries(group) THEN results[m] ELSE result_by_id[m]]
  BY <1>1 DEF GroupEnds, ReportGroup, FullInv, Inv, Course, Accepted
<1>3. \A m \in entries(group) : m \in request.message_ids /\ Position(m) = n + 1
  BY <1>2, NextPosition DEF entries
<1>4. Executed' = Executed \cup entries(group)
  <2>1. \A m \in entries(group) :
          /\ m \in request.message_ids
          /\ result_by_id'[m].status # "unreported" /\ result_by_id'[m].stage # "canceled"
    BY <1>1, <1>2, <1>3 DEF GroupResults
  <2>2. \A m \in request.message_ids : m \notin entries(group) => result_by_id'[m] = result_by_id[m]
    BY <1>2
  <2> QED BY <1>2, <2>1, <2>2 DEF Executed, Reported, AtStage
<1>5. group_message_ids(Executed') = group_message_ids(Executed) \cup {group}
  <2>1. group \in group_message_ids(request.message_ids) /\ group \in MessageMutationGroup
    BY <1>2, AcceptedGroups, GroupRemains DEF FullInv, Inv
  <2>2. \E m \in request.message_ids :
          group = [mailbox |-> m.mailbox, uidvalidity |-> m.uidvalidity]
    BY <2>1 DEF group_message_ids
  <2>3. \E m \in entries(group) : TRUE
    BY <2>2 DEF entries
  <2>4. \A m \in entries(group) :
          [mailbox |-> m.mailbox, uidvalidity |-> m.uidvalidity] = group
    BY <2>1 DEF entries, MessageMutationGroup
  <2> QED BY <1>4, <2>3, <2>4 DEF group_message_ids
<1>6. /\ n \in Nat /\ Cardinality(group_message_ids(Executed')) = n + 1
      /\ Outcomes \in Seq({"ok", "failed", "mixed"}) /\ Len(Outcomes) = n
  <2>1. /\ IsFiniteSet(group_message_ids(Executed)) /\ group \notin group_message_ids(Executed)
    <3>1. /\ group_message_ids(Executed) = group_message_ids(request.message_ids) \ remaining
          /\ group \in remaining
      BY <1>2, ExecutedGroups, GroupRemains DEF FullInv, Inv, Turns
    <3> QED BY <3>1, <1>2, AcceptedGroups, FS_Subset DEF FullInv
  <2>2. Cardinality(group_message_ids(Executed) \cup {group}) = n + 1
    BY <2>1, FS_AddElement
  <2> QED BY <1>2, <1>5, <2>2, OutcomesTypes
<1>7. Outcomes' = [i \in 1..(n + 1) |-> OutcomeOf(at(i))']
  BY <1>6 DEF Outcomes
<1>8. ASSUME NEW i \in 1..n
      PROVE  OutcomeOf(at(i))' = OutcomeOf(at(i))
  <2>1. \A m \in request.message_ids :
          Position(m) = i => (m \in Reported("ok")' <=> m \in Reported("ok"))
    <3>1. \A m \in entries(group) : Position(m) # i
      BY <1>3, <1>6
    <3> QED BY <1>2, <3>1 DEF Reported
  <2> QED BY <1>2, <2>1, OutcomeKept
<1>9. PICK k \in Nat : k = n + 1
  BY <1>6
<1> DEFINE outcome == OutcomeOf(at(k))'
<1>10. outcome \in {"ok", "failed", "mixed"}
  BY DEF OutcomeOf
<1>11. /\ Outcomes' \in Seq({"ok", "failed", "mixed"}) /\ Len(Outcomes') = k
       /\ \A i \in 1..k : Outcomes'[i] = OutcomeOf(at(i))'
  <2>1. \A i \in 1..k : OutcomeOf(at(i))' \in {"ok", "failed", "mixed"}
    BY DEF OutcomeOf
  <2>2. Outcomes' = [i \in 1..k |-> OutcomeOf(at(i))']
    BY <1>7, <1>9
  <2>3. Outcomes' \in [1..k -> {"ok", "failed", "mixed"}]
    BY <2>1, <2>2
  <2>4. ASSUME NEW i \in 1..k
        PROVE  Outcomes'[i] = OutcomeOf(at(i))'
    BY <2>2, Zenon
  <2>5. Outcomes' \in Seq({"ok", "failed", "mixed"}) /\ Len(Outcomes') = k
    BY <2>3, <1>9
  <2> QED BY <2>4, <2>5
<1>12. \A i \in 1..n : Outcomes[i] = OutcomeOf(at(i))
  BY DEF Outcomes
<1> HIDE DEF n, outcome
<1>13. /\ Append(Outcomes, outcome) \in Seq({"ok", "failed", "mixed"})
       /\ Len(Append(Outcomes, outcome)) = k
       /\ \A i \in 1..n : Append(Outcomes, outcome)[i] = Outcomes[i]
       /\ Append(Outcomes, outcome)[k] = outcome
  BY <1>6, <1>9, <1>10, AppendProperties
<1>14. \A i \in 1..k : Outcomes'[i] = Append(Outcomes, outcome)[i]
  <2> SUFFICES ASSUME NEW i \in 1..k PROVE Outcomes'[i] = Append(Outcomes, outcome)[i]
    OBVIOUS
  <2>0. i = k \/ i \in 1..n
    BY <1>6, <1>9
  <2>1. CASE i = k
    BY <1>11, <1>13, <2>1 DEF outcome
  <2>2. CASE i \in 1..n
    BY <1>8, <1>11, <1>12, <1>13, <2>2
  <2> QED BY <2>0, <2>1, <2>2
<1>15. Outcomes' = Append(Outcomes, outcome)
  BY <1>9, <1>11, <1>13, <1>14, SeqEqual
<1> QED BY <1>10, <1>15

\* The state counted from the messages is the verdict of the outcomes.
LEMMA FinalVerdict ==
  ASSUME FullInv, Accepted, remaining = {}, AtStage({"canceled"}) = {}
  PROVE  /\ Len(Outcomes) = Cardinality(group_message_ids(request.message_ids))
         /\ Contract!Verdict(Outcomes)
              = status_from_counts(DOMAIN result_by_id \subseteq AtStage({"none"}),
                                   Reported("ok") # {})
<1> DEFINE groups == group_message_ids(request.message_ids)
           n == Cardinality(groups)
           at(i) == {m \in request.message_ids : Position(m) = i}
           ok == Reported("ok")
<1>1. /\ DOMAIN result_by_id = request.message_ids /\ request.message_ids \subseteq MessageId
      /\ groups \in SUBSET MessageMutationGroup /\ IsFiniteSet(groups)
  BY AcceptedGroups, SelectionAssumption DEF FullInv
<1>2. group_message_ids(Executed) = groups
  BY ExecutedGroups
<1>3. DOMAIN Outcomes = 1..n /\ Len(Outcomes) = n
  BY <1>2, OutcomesTypes DEF Outcomes
<1>4. ASSUME NEW i \in 1..n
      PROVE  Outcomes[i] = OutcomeOf(at(i))
  BY <1>2 DEF Outcomes
<1>5. \A m \in request.message_ids :
        LET g == [mailbox |-> m.mailbox, uidvalidity |-> m.uidvalidity]
        IN  g \in groups /\ Position(m) = Rank(g, groups)
  <2> SUFFICES ASSUME NEW m \in request.message_ids
               PROVE  LET g == [mailbox |-> m.mailbox, uidvalidity |-> m.uidvalidity]
                      IN  g \in groups /\ Position(m) = Rank(g, groups)
    OBVIOUS
  <2> DEFINE g == [mailbox |-> m.mailbox, uidvalidity |-> m.uidvalidity]
  <2>1. \A h : Before(h, m) <=> Before(h, g)
    BY DEF Before
  <2>2. {h \in groups : Before(h, m)} = {h \in groups : Before(h, g)}
    BY <2>1
  <2> QED BY <2>2 DEF Position, Rank, group_message_ids
<1>6. \A m \in request.message_ids : Position(m) \in 1..n /\ m \in at(Position(m))
  <2>1. \A g \in groups : Rank(g, groups) \in 1..n
    <3> HIDE DEF groups
    <3> QED BY <1>1, Ranks
  <2> QED BY <1>5, <2>1
<1>7. ASSUME NEW i \in 1..n
      PROVE  at(i) # {} /\ at(i) \subseteq request.message_ids
  <2>1. PICK g \in groups : Rank(g, groups) = i
    <3> HIDE DEF groups
    <3> QED BY <1>1, Ranks
  <2>2. PICK m \in request.message_ids :
          g = [mailbox |-> m.mailbox, uidvalidity |-> m.uidvalidity]
    BY DEF group_message_ids
  <2> QED BY <1>5, <2>1, <2>2
<1>8. request.message_ids \subseteq AtStage({"none"}) <=> request.message_ids \subseteq ok
  <2>1. \A m \in request.message_ids : ~Pending(m)
    BY DEF Pending
  <2>2. \A m \in request.message_ids : m \notin Reported("unreported")
    BY <1>1, <2>1 DEF FullInv, Inv, Ledger, Reported
  <2> QED BY <1>1, <2>2 DEF FullInv, Turns
<1>9. ok \subseteq request.message_ids
  BY <1>1 DEF Reported
<1> HIDE DEF groups, n, at, ok
<1>10. (\A i \in 1..n : Outcomes[i] = "ok") <=> request.message_ids \subseteq ok
  <2>1. \A i \in 1..n : Outcomes[i] = "ok" <=> at(i) \subseteq ok
    BY <1>4 DEF OutcomeOf, ok
  <2> QED BY <1>6, <1>7, <2>1
<1>11. (\A i \in 1..n : Outcomes[i] = "failed") <=> ok = {}
  <2>1. \A i \in 1..n : Outcomes[i] = "failed" <=> at(i) \cap ok = {}
    BY <1>4, <1>7 DEF OutcomeOf, ok
  <2> QED BY <1>6, <1>9, <2>1
<1> QED BY <1>1, <1>3, <1>8, <1>10, <1>11 DEF Contract!Verdict, status_from_counts, groups, n, ok

-----------------------------------------------------------------------------
(* The steps of the contract.                                              *)

LEMMA OneCardinality == \A S : Contract!Cardinality(S) = Cardinality(S)
BY DEF Contract!Cardinality, Cardinality, Contract!IsFiniteSet, IsFiniteSet

ContractStep == Contract!Next \/ UNCHANGED Contract!contractVars

\* What the contract sees of an operation.
SameToContract ==
  /\ Accepted' <=> Accepted
  /\ request'.message_ids = request.message_ids
  /\ Accepted => operation_state' = operation_state /\ Outcomes' = Outcomes
  /\ pc' \in InGroup <=> pc \in InGroup

LEMMA MapsToStutter ==
  ASSUME SameToContract
  PROVE  ContractStep
<1>1. UNCHANGED Phases
  BY DEF SameToContract, Phases, IsRequest
<1>2. UNCHANGED Logs
  BY DEF SameToContract, Logs, IsRequest
<1>3. UNCHANGED InFlight
  BY DEF SameToContract, InFlight, IsRequest, InGroup
<1> QED BY <1>1, <1>2, <1>3 DEF ContractStep, Contract!contractVars

LEMMA QuietContract ==
  ASSUME FullInv, Quiet
  PROVE  ContractStep
<1>1. UNCHANGED <<request, result_by_id>>
  BY DEF Quiet
<1>2. operation_state' = operation_state
  BY <1>1 DEF Quiet, operation_state, AtStage, Reported
<1>3. Outcomes' = Outcomes
  BY <1>1, Zenon DEF Outcomes, OutcomeOf, Position, Executed, AtStage, Reported, group_message_ids
<1> QED BY <1>1, <1>2, <1>3, MapsToStutter DEF SameToContract, Quiet

\* Before an operation is accepted the contract sees nothing of it.
LEMMA EarlyContract ==
  ASSUME ~Accepted, ~Accepted'
  PROVE  ContractStep
BY DEF ContractStep, Contract!contractVars, Phases, Logs, InFlight, IsRequest

\* The phases of the operations, their logs and which is with the server.
LEMMA Views ==
  ASSUME FullInv, Accepted, NEW ids, ids = request.message_ids
  PROVE  /\ ids \in Selections
         /\ Phases = [p \in Selections |-> IF p = ids THEN operation_state ELSE "none"]
         /\ Logs = [p \in Selections |-> IF p = ids THEN Outcomes ELSE <<>>]
         /\ InFlight = [p \in Selections |-> p = ids /\ pc \in InGroup]
<1>1. ids \in Selections
  BY AcceptedGroups DEF FullInv
<1> QED BY <1>1, Zenon DEF Phases, Logs, InFlight, IsRequest

LEMMA ViewsNext ==
  ASSUME Accepted', NEW ids, ids = request'.message_ids
  PROVE  /\ Phases' = [p \in Selections |-> IF p = ids THEN operation_state' ELSE "none"]
         /\ Logs' = [p \in Selections |-> IF p = ids THEN Outcomes' ELSE <<>>]
         /\ InFlight' = [p \in Selections |-> p = ids /\ pc' \in InGroup]
BY DEF Phases, Logs, InFlight, IsRequest, InGroup

\* create_operation accepts the operation: no group has been executed.
LEMMA CreateContract ==
  ASSUME FullInv, create_operation
  PROVE  ContractStep
<1>0. PICK ids : ids = request.message_ids
  OBVIOUS
<1>1. /\ ~Accepted /\ Accepted' /\ pc' = "loop" /\ pc' \notin InGroup /\ pc \notin InGroup
      /\ UNCHANGED request /\ ids \in Selections
      /\ result_by_id' = [m \in ids |-> [status |-> "unreported", stage |-> "none"]]
  BY <1>0 DEF create_operation, Accepted, InGroup, Writes, FullInv, Inv, Course
<1>2. operation_state' = "active"
  BY <1>1 DEF operation_state, AtStage
<1>3. Outcomes' = <<>>
  <2>1. Executed' = {}
    BY <1>1 DEF Executed, Reported
  <2>2. group_message_ids(Executed)' = {}
    BY <2>1 DEF group_message_ids
  <2>3. Cardinality(group_message_ids(Executed))' = 0
    BY <2>2, FS_EmptySet
  <2>4. 1..0 = {}
    OBVIOUS
  <2> QED BY <2>3, <2>4 DEF Outcomes
<1>4. /\ Phases = [p \in Selections |-> "none"]
      /\ Logs = [p \in Selections |-> <<>>]
      /\ InFlight = [p \in Selections |-> FALSE]
  BY <1>1, Zenon DEF Phases, Logs, InFlight, IsRequest
<1>5. /\ Phases' = [p \in Selections |-> IF p = ids THEN operation_state' ELSE "none"]
      /\ Logs' = [p \in Selections |-> IF p = ids THEN Outcomes' ELSE <<>>]
      /\ InFlight' = [p \in Selections |-> p = ids /\ pc' \in InGroup]
  BY <1>0, <1>1, ViewsNext
<1>6. Contract!Accept(ids)
  <2>1. Phases[ids] = "none"
    BY <1>1, <1>4
  <2>2. Phases' = [Phases EXCEPT ![ids] = "active"]
    BY <1>1, <1>2, <1>4, <1>5
  <2>3. Logs' = Logs
    BY <1>3, <1>4, <1>5
  <2>4. InFlight' = InFlight
    BY <1>1, <1>4, <1>5
  <2> QED BY <2>1, <2>2, <2>3, <2>4 DEF Contract!Accept
<1> QED BY <1>1, <1>6 DEF ContractStep, Contract!Next

\* An operation between groups is active unless groups of it were canceled.
LEMMA StateWhileRunning ==
  ASSUME FullInv, Accepted, remaining # {}
  PROVE  operation_state = "active"
BY DEF FullInv, Turns, Inv, Course, operation_state

LEMMA ExecuteContract ==
  ASSUME FullInv, execute_operation_step
  PROVE  ContractStep
<1>0. PICK ids : ids = request.message_ids
  OBVIOUS
<1>1. /\ pc = "loop" /\ remaining # {} /\ Accepted
      /\ UNCHANGED <<request, remaining, result_by_id>>
  BY DEF execute_operation_step, Accepted
<1>2. pc' \in InGroup /\ Accepted' /\ pc' # "done"
  <2>1. FirstCommand(supports_move) \in InGroup
    BY FirstCommandInGroup DEF FullInv, Inv, TypeOK
  <2> QED BY <2>1 DEF execute_operation_step, Accepted, InGroup, Writes
<1>3. operation_state = "active" /\ operation_state' = "active"
  <2>1. AtStage({"canceled"})' = AtStage({"canceled"})
    BY <1>1 DEF AtStage
  <2>2. AtStage({"canceled"}) = {}
    BY <1>1 DEF FullInv, Turns
  <2> QED BY <1>1, <1>2, <2>1, <2>2, StateWhileRunning DEF operation_state
<1>4. Outcomes' = Outcomes
  BY <1>1, Zenon DEF Outcomes, OutcomeOf, Position, Executed, AtStage, Reported, group_message_ids
<1>5. Len(Outcomes) < Cardinality(group_message_ids(ids))
  <2> DEFINE groups == group_message_ids(ids)
  <2>1. /\ IsFiniteSet(groups) /\ remaining \subseteq groups
        /\ group_message_ids(Executed) = groups \ remaining
    BY <1>0, <1>1, AcceptedGroups, ExecutedGroups DEF FullInv, Turns
  <2> HIDE DEF groups
  <2>2. /\ Cardinality(groups \ remaining) <= Cardinality(groups)
        /\ Cardinality(groups \ remaining) # Cardinality(groups)
        /\ Cardinality(groups \ remaining) \in Nat /\ Cardinality(groups) \in Nat
    <3>1. groups \ remaining \in SUBSET groups /\ groups \ remaining # groups
      BY <1>1, <2>1
    <3> QED BY <2>1, <3>1, FS_Subset, FS_CardinalityType
  <2> QED BY <1>1, <2>1, <2>2, OutcomesTypes DEF groups
<1>6. /\ ids \in Selections
      /\ Phases = [p \in Selections |-> IF p = ids THEN operation_state ELSE "none"]
      /\ Logs = [p \in Selections |-> IF p = ids THEN Outcomes ELSE <<>>]
      /\ InFlight = [p \in Selections |-> p = ids /\ pc \in InGroup]
  BY <1>0, <1>1, Views
<1>7. /\ Phases' = [p \in Selections |-> IF p = ids THEN operation_state' ELSE "none"]
      /\ Logs' = [p \in Selections |-> IF p = ids THEN Outcomes' ELSE <<>>]
      /\ InFlight' = [p \in Selections |-> p = ids /\ pc' \in InGroup]
  BY <1>0, <1>1, <1>2, ViewsNext
<1>8. Contract!BeginUnit(ids)
  <2>1. Phases[ids] = "active"
    BY <1>3, <1>6
  <2>2. Len(Logs[ids]) < [p \in Selections |-> Cardinality(group_message_ids(p))][ids]
    BY <1>5, <1>6
  <2>3. \A p \in Selections : ~InFlight[p]
    BY <1>1, <1>6 DEF InGroup, Writes
  <2>4. InFlight' = [InFlight EXCEPT ![ids] = TRUE]
    BY <1>2, <1>6, <1>7
  <2>5. /\ Phases' = Phases
        /\ Logs' = Logs
    BY <1>3, <1>4, <1>6, <1>7
  <2> QED BY <2>1, <2>2, <2>3, <2>4, <2>5 DEF Contract!BeginUnit
<1> QED BY <1>6, <1>8 DEF ContractStep, Contract!Next

\* The views before and after a step of an accepted operation.
LEMMA StepViews ==
  ASSUME FullInv, Accepted, Accepted', UNCHANGED request
  PROVE  \E ids \in Selections :
           /\ ids = request.message_ids
           /\ Phases = [p \in Selections |-> IF p = ids THEN operation_state ELSE "none"]
           /\ Logs = [p \in Selections |-> IF p = ids THEN Outcomes ELSE <<>>]
           /\ InFlight = [p \in Selections |-> p = ids /\ pc \in InGroup]
           /\ Phases' = [p \in Selections |-> IF p = ids THEN operation_state' ELSE "none"]
           /\ Logs' = [p \in Selections |-> IF p = ids THEN Outcomes' ELSE <<>>]
           /\ InFlight' = [p \in Selections |-> p = ids /\ pc' \in InGroup]
<1>1. PICK ids : ids = request.message_ids
  OBVIOUS
<1> QED BY <1>1, Views, ViewsNext

\* The result of a group adds its outcome to the log.
LEMMA GroupEndContract ==
  ASSUME FullInv, GroupEnds
  PROVE  ContractStep
<1>1. /\ pc \in InGroup /\ pc' = "loop" /\ pc' \notin InGroup /\ Accepted /\ Accepted'
      /\ remaining # {} /\ UNCHANGED request
  BY DEF GroupEnds, ReportGroup, Accepted, InGroup, Writes, FullInv, Inv, Course
<1>2. operation_state = "active" /\ operation_state' = "active"
  <2>1. AtStage({"canceled"})' = {}
    BY GroupEndTurns DEF FullInv
  <2> QED BY <1>1, <2>1, StateWhileRunning DEF operation_state
<1>3. PICK outcome \in {"ok", "failed", "mixed"} : Outcomes' = Append(Outcomes, outcome)
  BY OutcomeAdded
<1>4. PICK ids \in Selections :
        /\ Phases = [p \in Selections |-> IF p = ids THEN operation_state ELSE "none"]
        /\ Logs = [p \in Selections |-> IF p = ids THEN Outcomes ELSE <<>>]
        /\ InFlight = [p \in Selections |-> p = ids /\ pc \in InGroup]
        /\ Phases' = [p \in Selections |-> IF p = ids THEN operation_state' ELSE "none"]
        /\ Logs' = [p \in Selections |-> IF p = ids THEN Outcomes' ELSE <<>>]
        /\ InFlight' = [p \in Selections |-> p = ids /\ pc' \in InGroup]
  BY <1>1, StepViews
<1>5. Contract!EndUnit(ids)
  <2>1. InFlight[ids] /\ InFlight' = [InFlight EXCEPT ![ids] = FALSE]
    BY <1>1, <1>4
  <2>2. Logs' = [Logs EXCEPT ![ids] = Append(@, outcome)]
    BY <1>3, <1>4
  <2>3. Phases' = Phases
    BY <1>2, <1>4
  <2>4. outcome \in Contract!Outcomes
    BY DEF Contract!Outcomes
  <2> QED BY <2>1, <2>2, <2>3, <2>4 DEF Contract!EndUnit
<1> QED BY <1>5 DEF ContractStep, Contract!Next

\* Canceling what is left changes no outcome there is.
LEMMA CancelContract ==
  ASSUME FullInv, append_canceled_message_results
  PROVE  ContractStep
<1>1. /\ pc = "loop" /\ pc' = "loop" /\ Accepted /\ Accepted' /\ remaining # {}
      /\ pc \notin InGroup /\ pc' \notin InGroup /\ UNCHANGED request
      /\ result_by_id' = [m \in DOMAIN result_by_id |->
           IF \E g \in remaining : m \in entries(g)
           THEN [status |-> "failed", stage |-> "canceled"] ELSE result_by_id[m]]
  BY DEF append_canceled_message_results, CanceledGroups, Accepted, InGroup, Writes
<1>2. DOMAIN result_by_id = request.message_ids
  BY <1>1, AcceptedGroups DEF FullInv
<1>3. \A m \in request.message_ids : (\E g \in remaining : m \in entries(g)) <=> Pending(m)
  BY Messages DEF FullInv, Inv, TypeOK, Pending
<1>4. \A m \in request.message_ids :
        /\ Pending(m) => /\ result_by_id[m].status = "unreported"
                         /\ result_by_id'[m] = [status |-> "failed", stage |-> "canceled"]
        /\ ~Pending(m) => result_by_id'[m] = result_by_id[m]
  BY <1>1, <1>2, <1>3 DEF FullInv, Inv, Ledger
<1>5. Executed' = Executed
  <2>1. \A m \in request.message_ids :
          result_by_id'[m].status = "unreported" \/ result_by_id'[m].stage = "canceled"
            <=> result_by_id[m].status = "unreported" \/ result_by_id[m].stage = "canceled"
    BY <1>4
  <2> QED BY <1>1, <1>2, <2>1 DEF Executed, Reported, AtStage
<1>6. Outcomes' = Outcomes
  <2>1. \A m \in request.message_ids : m \in Reported("ok")' <=> m \in Reported("ok")
    BY <1>1, <1>2, <1>4 DEF Reported
  <2>2. ASSUME NEW i
        PROVE  OutcomeOf({m \in request.message_ids : Position(m) = i})'
                 = OutcomeOf({m \in request.message_ids : Position(m) = i})
    BY <1>1, <2>1, OutcomeKept
  <2>3. Cardinality(group_message_ids(Executed))' = Cardinality(group_message_ids(Executed))
    BY <1>5 DEF group_message_ids
  <2> QED BY <2>2, <2>3 DEF Outcomes
<1>7. operation_state = "active" /\ operation_state' = "canceling"
  <2>1. PICK m \in request.message_ids : Pending(m)
    BY <1>1, AcceptedGroups DEF FullInv, group_message_ids, Pending
  <2>2. m \in AtStage({"canceled"})'
    BY <1>1, <1>2, <1>4, <2>1 DEF AtStage
  <2> QED BY <1>1, <2>2, StateWhileRunning DEF operation_state
<1>8. PICK ids \in Selections :
        /\ Phases = [p \in Selections |-> IF p = ids THEN operation_state ELSE "none"]
        /\ Logs = [p \in Selections |-> IF p = ids THEN Outcomes ELSE <<>>]
        /\ InFlight = [p \in Selections |-> p = ids /\ pc \in InGroup]
        /\ Phases' = [p \in Selections |-> IF p = ids THEN operation_state' ELSE "none"]
        /\ Logs' = [p \in Selections |-> IF p = ids THEN Outcomes' ELSE <<>>]
        /\ InFlight' = [p \in Selections |-> p = ids /\ pc' \in InGroup]
  BY <1>1, StepViews
<1>9. Contract!Cancel(ids)
  BY <1>1, <1>6, <1>7, <1>8 DEF Contract!Cancel
<1> QED BY <1>9 DEF ContractStep, Contract!Next

\* The end of a run that canceled nothing is the verdict of its outcomes.
LEMMA FinishContract ==
  ASSUME FullInv, finalize_operation
  PROVE  ContractStep
<1>1. /\ pc = "loop" /\ pc' = "done" /\ Accepted /\ Accepted' /\ remaining = {}
      /\ pc \notin InGroup /\ pc' \notin InGroup
      /\ UNCHANGED <<request, remaining, result_by_id>>
  BY DEF finalize_operation, Accepted, InGroup, Writes
<1>2. Outcomes' = Outcomes
  BY <1>1, Zenon DEF Outcomes, OutcomeOf, Position, Executed, AtStage, Reported, group_message_ids
<1>3. PICK ids \in Selections :
        /\ ids = request.message_ids
        /\ Phases = [p \in Selections |-> IF p = ids THEN operation_state ELSE "none"]
        /\ Logs = [p \in Selections |-> IF p = ids THEN Outcomes ELSE <<>>]
        /\ InFlight = [p \in Selections |-> p = ids /\ pc \in InGroup]
        /\ Phases' = [p \in Selections |-> IF p = ids THEN operation_state' ELSE "none"]
        /\ Logs' = [p \in Selections |-> IF p = ids THEN Outcomes' ELSE <<>>]
        /\ InFlight' = [p \in Selections |-> p = ids /\ pc' \in InGroup]
  BY <1>1, StepViews
<1>4. /\ \/ operation_state = "canceling"
         \/ operation_state = "active" /\ Len(Outcomes) = Cardinality(group_message_ids(ids))
      /\ operation_state' = IF operation_state = "canceling" THEN "canceled"
                            ELSE Contract!Verdict(Outcomes)
  <2>1. /\ AtStage({"canceled"})' = AtStage({"canceled"}) /\ Reported("ok")' = Reported("ok")
        /\ AtStage({"none"})' = AtStage({"none"})
    BY <1>1 DEF AtStage, Reported
  <2>2. CASE AtStage({"canceled"}) # {}
    BY <1>1, <2>1, <2>2 DEF operation_state
  <2>3. CASE AtStage({"canceled"}) = {}
    BY <1>1, <1>3, <2>1, <2>3, FinalVerdict DEF operation_state
  <2> QED BY <2>2, <2>3
<1>5. operation_state' \in {"ok", "partial", "failed", "canceled"}
  BY <1>1 DEF operation_state, status_from_counts
<1> DEFINE finishes == [Phases EXCEPT ![ids] =
                          IF @ = "canceling" THEN "canceled" ELSE Contract!Verdict(Logs[ids])]
           done == {p \in Selections : finishes[p] \in Contract!Finished}
<1>6. finishes = Phases'
  BY <1>3, <1>4
<1>7. done = {ids}
  BY <1>3, <1>5, <1>6 DEF Contract!Finished
<1>8. /\ ~InFlight[ids] /\ InFlight' = InFlight /\ Logs' = Logs
      /\ \/ Phases[ids] = "canceling"
         \/ Phases[ids] = "active"
            /\ Len(Logs[ids]) = [p \in Selections |-> Cardinality(group_message_ids(p))][ids]
  BY <1>1, <1>2, <1>3, <1>4
<1>9. /\ Phases' = [p \in Selections |-> IF p \in {} THEN "forgotten" ELSE finishes[p]]
      /\ Logs' = [p \in Selections |-> IF p \in {} THEN <<>> ELSE Logs[p]]
  BY <1>3, <1>6, <1>8
<1>10. {} \in SUBSET done /\ Contract!Cardinality(done \ {}) <= 1
  BY <1>7, OneCardinality, FS_Singleton
<1> HIDE DEF finishes, done
<1>11. \E forgotten \in SUBSET done :
         /\ Contract!Cardinality(done \ forgotten) <= 1
         /\ forgotten # {} => Contract!Cardinality(done \ forgotten) = 1
         /\ Phases' = [p \in Selections |-> IF p \in forgotten THEN "forgotten" ELSE finishes[p]]
         /\ Logs' = [p \in Selections |-> IF p \in forgotten THEN <<>> ELSE Logs[p]]
  BY <1>9, <1>10
<1>12. Contract!Finish(ids)
  BY <1>8, <1>11, Zenon DEF Contract!Finish, finishes, done
<1> QED BY <1>12 DEF ContractStep, Contract!Next

LEMMA InitContract == Init => Contract!Init
<1> SUFFICES ASSUME Init PROVE Contract!Init
  OBVIOUS
<1>1. ~Accepted
  BY DEF Init, Accepted, InGroup, Writes
<1> QED BY <1>1 DEF Contract!Init, Phases, Logs, InFlight, IsRequest

LEMMA NextContract == FullInv /\ [Next]_vars => ContractStep
<1> SUFFICES ASSUME FullInv, [Next]_vars PROVE ContractStep
  OBVIOUS
<1>1. ASSUME NEW a \in Action, NEW ids \in Selections, NEW d \in Destinations, Request(a, ids, d)
      PROVE  ContractStep
  BY <1>1, EarlyContract DEF Request, Accepted, InGroup, Writes
<1>2. CASE validate_group
  BY <1>2, EarlyContract DEF validate_group, Select, CompareUidValidity, Accepted, InGroup, Writes
<1> QED BY <1>1, <1>2, StepKinds, CreateContract, ExecuteContract, CancelContract, FinishContract,
           GroupEndContract, QuietContract DEF FullInv

\* Groups are executed in order and once each, their outcomes stand, and the
\* state counted from the messages is the verdict of these outcomes.
THEOREM GroupsKeepContract == Spec => ImplementsContract
<1>1. Init => FullInv
  BY InitInv, InitTurns DEF FullInv
<1>2. FullInv /\ [Next]_vars => FullInv'
  BY NextInv, TurnsKept DEF FullInv
<1>3. FullInv /\ [Next]_vars => [Contract!Next]_Contract!contractVars
  BY NextContract DEF ContractStep
<1> QED BY <1>1, <1>2, <1>3, InitContract, PTL DEF Spec, ImplementsContract, Contract!Spec

=============================================================================
