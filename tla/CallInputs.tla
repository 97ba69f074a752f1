------------------------------ MODULE CallInputs ------------------------------
(***************************************************************************)
(* What the tools make of the data in a call, one call at a time: the      *)
(* messages an imap_apply_to_messages names, the query of an               *)
(* imap_search_messages, and the names by which mailboxes are shown and    *)
(* then addressed.                                                         *)
(***************************************************************************)
EXTENDS MessageIds, SearchInputs, MailboxNames

CONSTANTS
  BulkRequests,   \* values of message_ids
  SearchRequests, \* inputs of imap_search_messages
  NamesGiven,     \* mailbox names
  StoredIds,      \* identifiers of messages there may be
  StoredMessages  \* what there may be to search

ASSUME CallsAssumption ==
  /\ BulkRequests \subseteq Seq(Segments)
  /\ StoredIds \subseteq MessageId /\ \A id \in StoredIds : validate_mailbox(id.mailbox)
  /\ SearchRequests \subseteq SearchInput /\ StoredMessages \subseteq Searched
  /\ NamesGiven \subseteq Seq(Char)

VARIABLES
  call,  \* the tool that was called, with its input
  answer \* what came of it

callVars == <<call, answer>>

NoCall == [tool |-> "none"]

CallInit == call = NoCall /\ answer = NoCall

Answered(input, result) == call' = input /\ answer' = result

Rejected == [status |-> "rejected"]

-----------------------------------------------------------------------------

\* parse_bulk_message_ids in a call whose action is in order, and what the
\* operation then makes of the identifiers.
apply_to_messages(raws) ==
  Answered([tool |-> "apply_to_messages", message_ids |-> raws],
    IF ~BulkAccepted(raws) THEN Rejected
    ELSE LET ids    == dedupe_and_parse_message_ids(raws)
             groups == group_message_ids(ids)
         IN [status |-> "ok", ids |-> ids, groups |-> groups,
             uid_sets |-> [group \in DOMAIN groups |-> build_uid_set(groups[group])]])

\* With a cursor, the query is the one of the search it came from.
search_messages(input) ==
  Answered([tool |-> "search_messages", input |-> input],
    IF ~(validate_search_input(input) /\ validate_account_id(input.account_id)) THEN Rejected
    ELSE IF input.cursor THEN [status |-> "resumed"]
    ELSE IF ~QueryBuilds(input) THEN Rejected
    ELSE [status |-> "ok", query |-> build_search_query(input)])

\* A mailbox name in a call, and what a mailbox of that name is listed as.
name_mailbox(name) ==
  LET wire == encode_utf7_imap[name] IN
  Answered([tool |-> "name_mailbox", name |-> name],
    [status |-> "ok",
     command |-> encode_mailbox_name_for_command(name),
     identity |-> normalize_mailbox_name(name),
     listed |-> decode_mailbox_name_for_display(wire),
     wire |-> wire])

Return ==
  /\ call # NoCall
  /\ call' = NoCall /\ answer' = NoCall

CallNext ==
  \/ call = NoCall /\ \E raws \in BulkRequests : apply_to_messages(raws)
  \/ call = NoCall /\ \E input \in SearchRequests : search_messages(input)
  \/ call = NoCall /\ \E name \in NamesGiven : name_mailbox(name)
  \/ Return

\* Calls of tools that are modelled elsewhere.
OtherCall ==
  call'.tool \notin {"apply_to_messages", "search_messages", "name_mailbox"}

CallSpec == CallInit /\ [][CallNext \/ OtherCall]_callVars

-----------------------------------------------------------------------------
(* Properties.                                                             *)

\* The places at which a message is named.
NamedAt(raws, id) == {i \in DOMAIN raws : NamesMessage(raws[i], id)}

RejectedFairly(raws) ==
  \/ Len(raws) \notin 1..MAX_BULK_MESSAGE_IDS
  \/ \E i, j \in DOMAIN raws : raws[i][2] # raws[j][2]
  \/ \E i \in DOMAIN raws : \A id \in StoredIds : ~NamesMessage(raws[i], id)

ResolvedAsNamed(raws, ids, groups) ==
  /\ \A i \in DOMAIN raws : \E k \in DOMAIN ids : NamesMessage(raws[i], ids[k])
  /\ \A k \in DOMAIN ids :
       /\ NamedAt(raws, ids[k]) # {} /\ NamesMessage(encode(ids[k]), ids[k])
       /\ ids[k].account_id = ids[1].account_id
       /\ \A l \in (k + 1)..Len(ids) :
            /\ ids[k] # ids[l]
            /\ \E i \in NamedAt(raws, ids[k]) : \A j \in NamedAt(raws, ids[l]) : i < j
       /\ Cardinality({place \in (DOMAIN groups) \X (DOMAIN ids) :
             LET group == groups[place[1]] IN
             place[2] \in DOMAIN group /\ group[place[2]] = ids[k]}) = 1

\* A bulk call is about the messages its identifiers name, each once however
\* it was spelled, in the order they were first named, all of one account, and
\* each in the one group of its mailbox and UIDVALIDITY.  Its identifiers are
\* only rejected for a number of them out of bounds, for two accounts, or for a
\* text that is no message's identifier.
IdsResolved ==
  call.tool = "apply_to_messages" =>
    IF answer.status = "rejected"
    THEN RejectedFairly(call.message_ids)
    ELSE ResolvedAsNamed(call.message_ids, answer.ids, answer.groups)

\* The uid set sent for a group denotes the uids of its messages and no other,
\* and uid + 1 is never computed of the largest uid there is.
UidSetExact ==
  call.tool = "apply_to_messages" /\ answer.status = "ok" =>
    \A g \in DOMAIN answer.groups :
      LET built == answer.uid_sets[g] IN
      /\ Denoted(built.ranges) =
           {answer.groups[g][i].uid : i \in DOMAIN answer.groups[g]}
      /\ ~built.overflow

\* A search finds the messages its filters describe, both dates included; and
\* a search with well-formed fields, a limit, a snippet length and a number of
\* days in range and one period of time is not rejected.
SearchMeansFilters ==
  call.tool = "search_messages" /\ ~call.input.cursor =>
    LET input == call.input IN
    IF answer.status = "ok" THEN
      \A message \in StoredMessages :
        (\A term \in answer.query : MatchesTerm(message, term)) <=> Asked(message, input)
    ELSE
      \/ Malformed \in {input.account_id, input.mailbox, input.start_date, input.end_date}
      \/ \E field \in TextField : input.text[field] = Malformed
      \/ input.limit \notin 1..MAX_SEARCH_LIMIT
      \/ input.snippet_max_chars \notin (MinSnippet..MaxSnippet) \cup {Absent}
      \/ input.last_days # Absent /\ input.last_days \notin 1..MaxDays
      \/ input.last_days # Absent /\ {input.start_date, input.end_date} # {Absent}
      \/ /\ Absent \notin {input.start_date, input.end_date}
         /\ input.start_date > input.end_date

\* A name that is modified UTF-7 as it should be, or nothing of the kind.
Unambiguous(name) ==
  \/ is_canonical_modified_utf7(name)
  \/ decode_mailbox_name_inner[name] \in {None, Some(name)}

\* What goes out to the server always is modified UTF-7.  Of two Unambiguous
\* names (and of those only), they are compared equal exactly when commands
\* with them reach the same mailbox.
NamesAgree ==
  call.tool = "name_mailbox" =>
    /\ is_canonical_modified_utf7(answer.command)
    /\ Unambiguous(call.name) =>
         \A other \in NamesGiven :
           Unambiguous(other) =>
             (answer.identity = normalize_mailbox_name(other)
                <=> answer.command = encode_mailbox_name_for_command(other))

\* A mailbox is addressed by the name it was listed under.  ("normalizes names
\* for MCP responses and re-encodes user-facing mailbox names before issuing
\* IMAP commands", mailbox_codec.rs.)
NamesRoundTrip ==
  call.tool = "name_mailbox" => encode_mailbox_name_for_command(answer.listed) = answer.wire

=============================================================================
