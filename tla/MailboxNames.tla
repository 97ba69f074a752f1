----------------------------- MODULE MailboxNames -----------------------------
(***************************************************************************)
(* The mailbox name codec: modified UTF-7 on the wire, Unicode to clients. *)
(* A name is a sequence of characters.  The base64 text of a character is  *)
(* abstracted to one letter, and that of several is their letters in turn. *)
(***************************************************************************)
EXTENDS Naturals, Sequences

CONSTANTS
  Ascii,    \* ASCII characters besides "&" and "-"
  NonAscii, \* other characters
  Base64    \* what some letters of Ascii decode to in a shift "&...-"

Char == Ascii \cup NonAscii \cup {"&", "-"}

ASSUME CharAssumption ==
  /\ Ascii \cap NonAscii = {} /\ {"&", "-"} \cap (Ascii \cup NonAscii) = {}
  /\ DOMAIN Base64 \subseteq Ascii /\ Base64 \in [DOMAIN Base64 -> Char]
  /\ \A u \in NonAscii : \E t \in DOMAIN Base64 : Base64[t] = u
  /\ \A t1, t2 \in DOMAIN Base64 : Base64[t1] = Base64[t2] => t1 = t2

FirstOf(char, name) ==
  CHOOSE i \in DOMAIN name : name[i] = char /\ \A j \in 1..(i - 1) : name[j] # char

Occurs(char, name) == \E i \in DOMAIN name : name[i] = char

From(i, name) == SubSeq(name, i, Len(name))

-----------------------------------------------------------------------------

\* An Option<String>: None, or the only element of a sequence.
None == <<>>
Some(name) == <<name>>

\* The payload of a shift, between "&" and "-".
decode_modified_utf7_token(payload) ==
  IF payload = <<>> THEN Some(<<"&">>)
  ELSE IF \A i \in DOMAIN payload : payload[i] \in DOMAIN Base64
       THEN Some([i \in DOMAIN payload |-> Base64[payload[i]]])
       ELSE None

decode_mailbox_name_inner[name \in Seq(Char)] ==
  IF ~Occurs("&", name) THEN Some(name)
  ELSE LET start   == FirstOf("&", name)
           segment == From(start, name)
       IN IF ~Occurs("-", segment) THEN None
          ELSE LET end   == FirstOf("-", segment)
                   token == decode_modified_utf7_token(SubSeq(segment, 2, end - 1))
                   rest  == decode_mailbox_name_inner[From(end + 1, segment)]
               IN IF None \in {token, rest} THEN None
                  ELSE Some(SubSeq(name, 1, start - 1) \o token[1] \o rest[1])

DecodedOr(name) ==
  LET decoded == decode_mailbox_name_inner[name] IN IF decoded = None THEN name ELSE decoded[1]

decode_mailbox_name_for_display(name) == DecodedOr(name)

\* Faulty: names are compared as they were given.
NameAsGiven(name) == name

normalize_mailbox_name(name) == DecodedOr(name)

\* The crate utf7_imap: characters outside ASCII go into shifts, as many
\* together as follow each other, and "&" becomes "&-".
Together(name) ==
  IF name[1] \notin NonAscii THEN 1
  ELSE CHOOSE n \in DOMAIN name :
         /\ \A i \in 1..n : name[i] \in NonAscii
         /\ n < Len(name) => name[n + 1] \notin NonAscii

Letter(u) == CHOOSE t \in DOMAIN Base64 : Base64[t] = u

Shift(payload) == <<"&">> \o payload \o <<"-">>

EncodedStart(name) ==
  IF name[1] \in NonAscii THEN Shift([i \in 1..Together(name) |-> Letter(name[i])])
  ELSE IF name[1] = "&" THEN Shift(<<>>)
  ELSE <<name[1]>>

encode_utf7_imap[name \in Seq(Char)] ==
  IF name = <<>> THEN <<>>
  ELSE EncodedStart(name) \o encode_utf7_imap[From(Together(name) + 1, name)]

is_canonical_modified_utf7(name) ==
  LET decoded == decode_mailbox_name_inner[name] IN
  decoded # None /\ encode_utf7_imap[decoded[1]] = name

encode_mailbox_name_for_command(name) ==
  IF is_canonical_modified_utf7(name) THEN name ELSE encode_utf7_imap[name]

=============================================================================
