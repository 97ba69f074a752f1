----------------------------- MODULE MCToolInputs -----------------------------
(***************************************************************************)
(* Inputs for TLC: identifiers that name one message in two ways, none, or *)
(* one of a mailbox with a colon in its name; every combination of search  *)
(* filters; messages with up to three levels of parts; and every mailbox   *)
(* name of up to MaxNameLength characters.                                 *)
(***************************************************************************)
EXTENDS ToolInputs

CONSTANT MaxNameLength

Tuples(S, n) == [1..n -> S]
UpTo(S, n) == UNION {Tuples(S, i) : i \in 0..n}

-----------------------------------------------------------------------------

MCNumeral == [s \in {"0", "1", "2", "3", "03"} |->
  CASE s = "0" -> 0 [] s = "1" -> 1 [] s = "2" -> 2 [] OTHER -> 3]
MCDecimal == [n \in 0..3 |-> CASE n = 0 -> "0" [] n = 1 -> "1" [] n = 2 -> "2" [] n = 3 -> "3"]

MCStoredIds ==
  [account_id: {"a", "z"}, mailbox: {<<"b">>, <<"b", "1">>, <<"", "">>},
   uidvalidity: {1, 2}, uid: 0..3]

MCRawIds ==
  {<<"imap", "a", "b", "1", "1">>, <<"imap", "a", "b", "1", "2">>,
   <<"imap", "a", "b", "1", "3">>, <<"imap", "a", "b", "1", "03">>,
   <<"imap", "a", "b", "2", "3">>, <<"imap", "a", "b", "1", "1", "2">>,
   <<"imap", "a", "", "", "1", "2">>, <<"imap", "z", "b", "1", "2">>,
   <<"imap", "a", "", "1", "1">>, <<"imap", "a", "b", "1">>,
   <<"pop", "a", "b", "1", "1">>, <<"imap", "a", "b", "1", "x">>,
   <<"imap", "a", "b", "x", "1">>, <<"imap", "a", "ctl", "1", "1">>,
   <<"imap", "a", "b", "b", "1", "1">>}

\* A name may be too long while its segments are not.
MCOversized == {<<"b", "b">>}

MCBulkRequests ==
  UpTo(MCRawIds, MAX_BULK_MESSAGE_IDS) \cup
  {[i \in 1..(MAX_BULK_MESSAGE_IDS + 1) |-> raw] : raw \in MCRawIds}

-----------------------------------------------------------------------------

MCSearchRequests ==
  [account_id: {"a"}, snippet_max_chars: {Absent},
   mailbox: {"m", Malformed}, limit: {0, 1, MAX_SEARCH_LIMIT, MAX_SEARCH_LIMIT + 1},
   cursor: {FALSE}, last_days: {Absent, 0, 1, MaxDays, MaxDays + 1},
   start_date: Optional({2, 3, 4}), end_date: Optional({2, 3, 4}),
   unread_only: {Absent, FALSE, TRUE}, text: [TextField -> Optional(Words)]] \cup
  [account_id: {"a", Malformed}, snippet_max_chars: {Absent, MaxSnippet + 1},
   mailbox: {"m"}, limit: {1}, cursor: {TRUE}, last_days: {Absent, 0},
   start_date: Optional({3}), end_date: Optional({2}),
   unread_only: {TRUE}, text: [TextField -> Optional(Words)]] \cup
  [account_id: {"a", Malformed},
   snippet_max_chars: {Absent, MinSnippet - 1, MinSnippet, MaxSnippet, MaxSnippet + 1},
   mailbox: {"m", Malformed}, limit: {1}, cursor: {FALSE}, last_days: {Absent, 1},
   start_date: Optional({3}), end_date: Optional({2}),
   unread_only: {TRUE}, text: [TextField -> Optional(Words)]]

MCStoredMessages ==
  [day: 0..5, seen: BOOLEAN, text: [TextField -> SUBSET Words]]

-----------------------------------------------------------------------------

Leaf(type, is_attachment, body, size) ==
  [id \in {<<1>>} |-> [subparts |-> 0, type |-> type, is_attachment |-> is_attachment,
                      body |-> body, size |-> size]]

\* The message whose parts are the given messages.
Multipart(parts) ==
  LET Inner(i) == {<<1, i>> \o Tail(id) : id \in DOMAIN parts[i]} IN
  [id \in {<<1>>} \cup UNION {Inner(i) : i \in DOMAIN parts} |->
     IF Len(id) = 1
     THEN [subparts |-> Len(parts), type |-> "multipart", is_attachment |-> FALSE,
           body |-> "blank", size |-> 0]
     ELSE parts[id[2]][<<1>> \o SubSeq(id, 3, Len(id))]]

MCLeaves ==
  {Leaf("text/plain", FALSE, body, 1) : body \in {"words", "blank", "broken"}} \cup
  {Leaf("text/html", FALSE, body, 1) : body \in {"words", "blank"}} \cup
  {Leaf("text/plain", TRUE, "words", 1), Leaf("application/pdf", TRUE, "words", PdfLimit),
   Leaf("application/pdf", TRUE, "broken", 1),
   Leaf("application/pdf", TRUE, "broken", PdfLimit + 1)}

Nested == {Multipart(parts) : parts \in UNION {Tuples(MCLeaves, 2), Tuples(MCLeaves, 1)}}

MCRawMessages ==
  MCLeaves \cup Nested \cup
  {Multipart(parts) : parts \in Tuples(MCLeaves, 3)} \cup
  {Multipart(<<nested, leaf>>) : nested \in Nested, leaf \in MCLeaves} \cup
  {Multipart(<<leaf, nested>>) : nested \in Nested, leaf \in MCLeaves}

-----------------------------------------------------------------------------

\* "T" is the base64 text of a character outside ASCII, "A" that of "a".
MCBase64 == [t \in {"T", "A"} |-> IF t = "T" THEN "u" ELSE "a"]
MCNamesGiven == UpTo(Char, MaxNameLength)

=============================================================================
