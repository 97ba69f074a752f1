----------------------------- MODULE SearchInputs -----------------------------
(***************************************************************************)
(* The filters of imap_search_messages: what validate_search_input lets    *)
(* pass, and the IMAP query build_search_query makes of it.  Dates are     *)
(* days, and lie before the end of the calendar, after which there is no   *)
(* next day.                                                               *)
(***************************************************************************)
EXTENDS Integers

CONSTANTS
  Absent, Malformed, \* an optional field left out, or not of its form
  TextField,         \* query, from, to, subject
  Words,             \* texts to look for
  Today,             \* Utc::now().date_naive()
  MaxDays,           \* 365 days
  MinSnippet, MaxSnippet, \* 50 and 500 characters
  MAX_SEARCH_LIMIT

ASSUME FilterAssumption ==
  /\ \A value \in {Absent, Malformed} : value \notin Int \cup Words
  /\ Today \in Int /\ MaxDays \in Nat /\ MAX_SEARCH_LIMIT \in Nat
  /\ MinSnippet \in Nat /\ MaxSnippet \in Nat
  /\ TextField \cap {"UNSEEN", "SINCE", "BEFORE"} = {}

Optional(S) == S \cup {Absent, Malformed}

SearchInput ==
  [account_id: STRING \cup {Malformed}, mailbox: STRING \cup {Malformed}, limit: Nat,
   cursor: BOOLEAN, snippet_max_chars: Nat \cup {Absent},
   last_days: Nat \cup {Absent}, start_date: Optional(Int), end_date: Optional(Int),
   unread_only: BOOLEAN \cup {Absent}, text: [TextField -> Optional(Words)]]

\* What of a message a search looks at.
Searched == [day: Int, seen: BOOLEAN, text: [TextField -> SUBSET Words]]

-----------------------------------------------------------------------------

InRange(value, min, max) == value \in min..max

validate_account_id(account_id) == account_id # Malformed

\* With a cursor, everything but mailbox and limit goes unchecked.
validate_search_input(input) ==
  /\ input.mailbox # Malformed
  /\ InRange(input.limit, 1, MAX_SEARCH_LIMIT)
  /\ ~input.cursor =>
       /\ input.last_days # Absent => InRange(input.last_days, 1, MaxDays)
       /\ input.snippet_max_chars # Absent =>
            InRange(input.snippet_max_chars, MinSnippet, MaxSnippet)
       /\ \A field \in TextField : input.text[field] # Malformed
       /\ input.last_days # Absent => input.start_date = Absent /\ input.end_date = Absent
       /\ Absent \notin {input.start_date, input.end_date} =>
            /\ Malformed \notin {input.start_date, input.end_date}
            /\ input.start_date <= input.end_date

\* One date alone is first parsed for the query.
QueryBuilds(input) == Malformed \notin {input.start_date, input.end_date}

\* Faulty: the last day itself.
EndItself(end) == end

\* BEFORE leaves its day out.
end_exclusive(end) == end + 1

\* The terms of the query, all of which a message has to match; none is ALL.
build_search_query(input) ==
  {[key |-> field, arg |-> input.text[field]] :
     field \in {f \in TextField : input.text[f] # Absent}} \cup
  {[key |-> "UNSEEN"] : flag \in {input.unread_only} \cap {TRUE}} \cup
  {[key |-> "SINCE", arg |-> Today - days] : days \in {input.last_days} \ {Absent}} \cup
  {[key |-> "SINCE", arg |-> start] : start \in {input.start_date} \ {Absent}} \cup
  {[key |-> "BEFORE", arg |-> end_exclusive(end)] : end \in {input.end_date} \ {Absent}}

-----------------------------------------------------------------------------

\* What the server makes of a term (RFC 3501, SEARCH).
MatchesTerm(message, term) ==
  CASE term.key = "UNSEEN" -> ~message.seen
    [] term.key = "SINCE"  -> message.day >= term.arg
    [] term.key = "BEFORE" -> message.day < term.arg
    [] term.key \in TextField -> term.arg \in message.text[term.key]

\* What the client asked for: both dates are among the days searched.
Asked(message, input) ==
  /\ \A field \in TextField :
       input.text[field] # Absent => input.text[field] \in message.text[field]
  /\ input.unread_only = TRUE => ~message.seen
  /\ input.last_days # Absent => Today - message.day <= input.last_days
  /\ input.start_date # Absent => input.start_date <= message.day
  /\ input.end_date # Absent => message.day <= input.end_date

=============================================================================
