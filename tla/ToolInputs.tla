------------------------------ MODULE ToolInputs ------------------------------
(***************************************************************************)
(* What the tools make of data: those of CallInputs of the data in a call, *)
(* and imap_get_message of the message the server has, of which it shows   *)
(* the body and the attachments.  The messages are ones that mailparse     *)
(* accepts; selecting the mailbox and fetching the message have succeeded. *)
(***************************************************************************)
EXTENDS CallInputs, MimeParts

vars == <<call, answer, pending, state>>

Walking == [status |-> "walking"]

Init == CallInit /\ NoWalk

-----------------------------------------------------------------------------

get_message(message, body_mode, attachment_mode) ==
  /\ Answered([tool |-> "get_message", message |-> message, body_mode |-> body_mode,
               attachment_mode |-> attachment_mode], Walking)
  /\ BeginWalk

WalkStep ==
  /\ answer = Walking
  /\ walk_parts(call.message, call.attachment_mode)
  /\ UNCHANGED callVars

status_from_issue_and_counts(issues, has_data) ==
  IF issues = {} THEN "ok" ELSE IF has_data THEN "partial" ELSE "failed"

\* The stages of the issues of a message that was parsed.
DetailIssues(flags_fetched) ==
  {"attachment_limit" : truncated \in {state.attachments_truncated} \cap {TRUE}} \cup
  {"fetch_flags" : failed \in {~flags_fetched} \cap {TRUE}}

\* parse_message with the answer made of what it returns; the flags are fetched
\* from the server after it, and may fail to come.
parse_message ==
  /\ answer = Walking
  /\ EndWalk
  /\ IF state.failed THEN answer' = [status |-> "failed", issues |-> {"parse_message"}]
     ELSE \E flags_fetched \in BOOLEAN :
            LET issues == DetailIssues(flags_fetched) IN
            answer' = [status |-> status_from_issue_and_counts(issues, TRUE), issues |-> issues,
                       flags_fetched |-> flags_fetched, parsed |-> ParsedMessage(call.body_mode)]
  /\ UNCHANGED call

Next ==
  \/ answer # Walking /\ CallNext /\ UNCHANGED walkVars
  \/ call = NoCall /\ \E message \in RawMessages :
       \E body_mode \in BodyMode, attachment_mode \in AttachmentMode :
         get_message(message, body_mode, attachment_mode)
  \/ WalkStep
  \/ parse_message

Spec == Init /\ [][Next]_vars

-----------------------------------------------------------------------------

\* As many attachments come before it as are shown.
Surplus(message, p) ==
  Cardinality({q \in AttachmentsOf(message) : Precedes(q, p)}) >= MAX_ATTACHMENTS

ShownAttachments(message, mode) ==
  {p \in AttachmentsOf(message) : mode # "none" /\ ~Surplus(message, p)}

\* Attachments that are shown with a text that cannot be had.
BrokenAttachments(message, mode) ==
  {p \in ShownAttachments(message, mode) :
     message[p].body = "broken" /\ Extracts(message[p], mode)}

TakenFrom(bodies) == {bodies[i].id : i \in DOMAIN bodies}

\* The attachments reported are the first of the message, each at its place in
\* the tree, and the answer says so when there are more; it is partial for that
\* and for flags that did not come only.  The HTML shown is the first, and the
\* text is that of the first plain text unless it is blank, and else that of
\* the first HTML.  Where a call fails, one of the attachments that would have
\* been shown is a PDF that cannot be decoded: ExtractionTolerated is about it.
PartsReported ==
  call.tool = "get_message" /\ answer # Walking =>
    LET message == call.message
        mode    == call.attachment_mode
        parsed  == answer.parsed
        plain   == FirstPath(BodiesOf(message, "text/plain"))
        html    == FirstPath(BodiesOf(message, "text/html"))
        more    == mode # "none" /\ Cardinality(AttachmentsOf(message)) > MAX_ATTACHMENTS
        WithWords(paths) == {p \in paths : message[p].body = "words"}
    IN IF answer.status = "failed" THEN BrokenAttachments(message, mode) # {}
       ELSE
         /\ Len(parsed.attachments) = Cardinality(ShownAttachments(message, mode))
         /\ \A i \in DOMAIN parsed.attachments :
              LET id == parsed.attachments[i].part_id IN
              /\ id \in AttachmentsOf(message)
              /\ Cardinality({q \in AttachmentsOf(message) : Precedes(q, id)}) = i - 1
         /\ "attachment_limit" \in answer.issues <=> more
         /\ answer.status = "partial" <=> more \/ ~answer.flags_fetched
         /\ call.body_mode # "text" => TakenFrom(parsed.body_html) = html
         /\ call.body_mode # "html" =>
              TakenFrom(parsed.body_text) =
                IF WithWords(plain) # {} THEN plain ELSE WithWords(html)

\* "extraction failures do not fail the whole tool call"
\* (docs/tool-contract.md): a message with a PDF whose text cannot be had is
\* still shown.
ExtractionTolerated ==
  call.tool = "get_message" /\ BrokenAttachments(call.message, call.attachment_mode) # {}
    => answer.status # "failed"

=============================================================================
