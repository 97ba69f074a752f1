------------------------------ MODULE MimeParts ------------------------------
(***************************************************************************)
(* parse_message: the walk over the tree of MIME parts that picks the body *)
(* of a message and lists its attachments.                                 *)
(*                                                                         *)
(* A message is the function from the ids of its parts to the parts: the   *)
(* id of a part is the way to it from the root, which is <<1>>.            *)
(*                                                                         *)
(* A body is "words", "blank", or "broken" when it cannot be decoded.  For *)
(* HTML, "blank" is a page without text; for a PDF, one without a text     *)
(* that can be extracted.  Bodies are known by the part they come from.    *)
(***************************************************************************)
EXTENDS Naturals, Sequences, FiniteSets

CONSTANTS
  RawMessages, \* messages there may be to read
  MAX_ATTACHMENTS,
  PdfLimit     \* 5_000_000

ContentType == {"text/plain", "text/html", "application/pdf", "other", "multipart"}
BodyMode == {"text", "html", "both"}
AttachmentMode == {"none", "metadata", "extract_text"}

\* Only parts without subparts have a body of their own.
MimePart ==
  [subparts: Nat, type: ContentType, is_attachment: BOOLEAN,
   body: {"words", "blank", "broken"}, size: Nat]

IsMessage(message) ==
  /\ IsFiniteSet(DOMAIN message) /\ <<1>> \in DOMAIN message
  /\ \A id \in DOMAIN message :
       /\ message[id] \in MimePart
       /\ id \in Seq(Nat \ {0}) /\ id # <<>> /\ id[1] = 1
       /\ \A i \in 1..message[id].subparts : Append(id, i) \in DOMAIN message
       /\ \A n \in 1..(Len(id) - 1) :
            LET outer == SubSeq(id, 1, n) IN
            outer \in DOMAIN message /\ id[n + 1] <= message[outer].subparts

ASSUME MimeAssumption ==
  /\ \A message \in RawMessages : IsMessage(message)
  /\ MAX_ATTACHMENTS \in Nat \ {0} /\ PdfLimit \in Nat

VARIABLES
  pending, \* ids of the parts walk_parts is still to be called for
  state    \* the WalkState

walkVars == <<pending, state>>

\* The bodies taken so far as [id, body], as sequences of at most one, and
\* failed when a "?" has ended the walk.
WalkState ==
  [body_text |-> <<>>, body_html |-> <<>>, attachments |-> <<>>,
   attachments_truncated |-> FALSE, failed |-> FALSE]

NoWalk == pending = <<>> /\ state = WalkState

-----------------------------------------------------------------------------
(* walk_parts.                                                             *)

\* Faulty: a body that cannot be decoded is taken for an empty one.
TakeAnyBody(taken, part, id) ==
  IF taken = <<>> THEN <<[id |-> id, body |-> part.body]>> ELSE taken

\* The first body of its type that can be decoded.
TakeBody(taken, part, id) ==
  IF taken = <<>> /\ part.body # "broken" THEN <<[id |-> id, body |-> part.body]>> ELSE taken

walk_body(part, id) ==
  CASE part.type = "text/plain" -> [state EXCEPT !.body_text = TakeBody(@, part, id)]
    [] part.type = "text/html"  -> [state EXCEPT !.body_html = TakeBody(@, part, id)]
    [] OTHER -> state

Extracts(part, mode) ==
  mode = "extract_text" /\ part.type = "application/pdf" /\ part.size <= PdfLimit

walk_attachment(part, id, mode) ==
  IF Len(state.attachments) >= MAX_ATTACHMENTS THEN [state EXCEPT !.attachments_truncated = TRUE]
  ELSE IF Extracts(part, mode) /\ part.body = "broken" THEN [state EXCEPT !.failed = TRUE]
  ELSE IF mode = "none" THEN state
  ELSE [state EXCEPT !.attachments =
          Append(@, [part_id |-> id, extracted |-> Extracts(part, mode) /\ part.body = "words"])]

SubpartIds(message, id) == [i \in 1..message[id].subparts |-> Append(id, i)]

\* One call of walk_parts, which leaves the calls for its subparts to be made.
walk_parts(message, mode) ==
  /\ pending # <<>> /\ ~state.failed
  /\ LET id == Head(pending) part == message[id] IN
     \/ /\ part.subparts # 0
        /\ pending' = SubpartIds(message, id) \o Tail(pending)
        /\ UNCHANGED state
     \/ /\ part.subparts = 0
        /\ pending' = Tail(pending)
        /\ state' = IF part.is_attachment THEN walk_attachment(part, id, mode)
                    ELSE walk_body(part, id)

-----------------------------------------------------------------------------
(* parse_message.                                                          *)

BeginWalk == NoWalk /\ pending' = <<<<1>>>> /\ UNCHANGED state

Meaningful(bodies) == IF bodies # <<>> /\ Head(bodies).body = "words" THEN bodies ELSE <<>>

select_body_text(body_text, body_html) ==
  IF Meaningful(body_text) # <<>> THEN Meaningful(body_text) ELSE Meaningful(body_html)

ParsedMessage(body_mode) ==
  [body_text |-> IF body_mode \in {"text", "both"}
                 THEN select_body_text(state.body_text, state.body_html) ELSE <<>>,
   body_html |-> IF body_mode \in {"html", "both"} THEN state.body_html ELSE <<>>,
   attachments |-> state.attachments,
   attachments_truncated |-> state.attachments_truncated]

EndWalk ==
  /\ pending = <<>> \/ state.failed
  /\ pending' = <<>> /\ state' = WalkState

-----------------------------------------------------------------------------
(* What there is in a message, read off its tree.                          *)

Leaves(message) == {p \in DOMAIN message : message[p].subparts = 0}

\* One leaf comes before another in the message.
Precedes(path, other) ==
  \E i \in DOMAIN path \cap DOMAIN other :
    path[i] < other[i] /\ \A j \in 1..(i - 1) : path[j] = other[j]

AttachmentsOf(message) == {p \in Leaves(message) : message[p].is_attachment}

\* The bodies of a type that can be shown.
BodiesOf(message, type) ==
  {p \in Leaves(message) :
     LET part == message[p] IN
     part.type = type /\ ~part.is_attachment /\ part.body # "broken"}

FirstPath(paths) == {p \in paths : \A q \in paths \ {p} : Precedes(p, q)}

=============================================================================
