------------------------------ MODULE MessageIds ------------------------------
(***************************************************************************)
(* Message identifiers, "imap:account:mailbox:uidvalidity:uid": parsed,    *)
(* written, checked in bulk, grouped by mailbox and turned into the uid    *)
(* sets of IMAP commands.                                                  *)
(*                                                                         *)
(* A text is the sequence of its segments between colons.  A mailbox name  *)
(* may hold colons, so it is such a sequence too; and one number has many  *)
(* spellings ("7", "07", "+7"), of which Decimal gives the one written.    *)
(***************************************************************************)
EXTENDS Naturals, Sequences, FiniteSets, Functions

CONSTANTS
  MaxUid,               \* the largest u32
  Numeral,              \* the number each segment that parses as u32 stands for
  Decimal,              \* the segment each number is written as
  Unnameable,           \* segments with a control character
  Oversized,            \* mailbox names of more than 256 bytes
  MAX_BULK_MESSAGE_IDS

U32 == 0..MaxUid

\* A text, by its segments, and the identifier it stands for.
Segments == Seq(STRING)
MessageId == [account_id: STRING, mailbox: Segments, uidvalidity: U32, uid: U32]

ASSUME NumeralAssumption ==
  /\ MaxUid \in Nat /\ MAX_BULK_MESSAGE_IDS \in Nat
  /\ Numeral \in [DOMAIN Numeral -> U32]
  /\ Decimal \in [U32 -> DOMAIN Numeral]
  /\ \A n \in U32 : Numeral[Decimal[n]] = n

-----------------------------------------------------------------------------
(* MessageId::parse and MessageId::encode.                                 *)

validate_mailbox(mailbox) ==
  /\ mailbox \notin {<<>>, <<"">>} \cup Oversized
  /\ \A i \in DOMAIN mailbox : mailbox[i] \notin Unnameable

\* The texts parse_and_validate_message_id accepts.
Parses(raw) ==
  /\ Len(raw) >= 5
  /\ raw[1] = "imap"
  /\ {raw[Len(raw)], raw[Len(raw) - 1]} \subseteq DOMAIN Numeral
  /\ validate_mailbox(SubSeq(raw, 3, Len(raw) - 2))

parse(raw) ==
  [account_id |-> raw[2], mailbox |-> SubSeq(raw, 3, Len(raw) - 2),
   uidvalidity |-> Numeral[raw[Len(raw) - 1]], uid |-> Numeral[raw[Len(raw)]]]

encode(id) ==
  <<"imap", id.account_id>> \o id.mailbox \o <<Decimal[id.uidvalidity], Decimal[id.uid]>>

-----------------------------------------------------------------------------
(* parse_bulk_message_ids and group_message_ids.                           *)

BulkAccepted(raws) ==
  /\ Len(raws) \in 1..MAX_BULK_MESSAGE_IDS
  /\ \A i \in DOMAIN raws : Parses(raws[i]) /\ raws[i][2] = raws[1][2]

\* Faulty: two spellings of an identifier are taken for two.
DedupeBySpelling(raws) ==
  LET resolved[n \in 0..Len(raws)] ==
        IF n = 0 THEN <<>>
        ELSE IF \E i \in 1..(n - 1) : raws[i] = raws[n] THEN resolved[n - 1]
        ELSE Append(resolved[n - 1], parse(raws[n]))
  IN resolved[Len(raws)]

\* An identifier after those seen, unless its encoded form is among theirs.
Keep(seen, id) ==
  IF \E i \in DOMAIN seen : encode(seen[i]) = encode(id) THEN seen ELSE Append(seen, id)

dedupe_and_parse_message_ids(raws) ==
  LET resolved[n \in 0..Len(raws)] ==
        IF n = 0 THEN <<>> ELSE Keep(resolved[n - 1], parse(raws[n]))
  IN resolved[Len(raws)]

GroupOf(id) == <<id.mailbox, id.uidvalidity>>

\* An identifier at the end of its group, which is new if need be.
Push(groups, id) ==
  [key \in DOMAIN groups \cup {GroupOf(id)} |->
     IF key # GroupOf(id) THEN groups[key]
     ELSE IF key \in DOMAIN groups THEN Append(groups[key], id)
     ELSE <<id>>]

group_message_ids(ids) ==
  LET grouped[n \in 0..Len(ids)] ==
        IF n = 0 THEN <<>> ELSE Push(grouped[n - 1], ids[n])
  IN grouped[Len(ids)]

-----------------------------------------------------------------------------
(* build_uid_set: the uids of a group as ranges start:end.                 *)

UidRange(start, end) == [start |-> start, end |-> end]

\* Does uid follow end?  "end + 1" is computed in u32, and past MaxUid it
\* panics or wraps around, as the build has it.
Follows(uid, end) == end < MaxUid /\ uid = end + 1

\* The uids as far as they were gone through: the ranges that are complete, the
\* one under way, and overflow, which tells whether MaxUid + 1 was ever computed.
Extended(built, uid) ==
  [ranges |->
     IF Follows(uid, built.end) THEN built.ranges
     ELSE Append(built.ranges, UidRange(built.start, built.end)),
   start |-> IF Follows(uid, built.end) THEN built.start ELSE uid,
   end |-> uid,
   overflow |-> built.overflow \/ built.end = MaxUid]

RangesOf(sorted) ==
  LET built[n \in 1..Len(sorted)] ==
        IF n = 1
        THEN [ranges |-> <<>>, start |-> sorted[1], end |-> sorted[1], overflow |-> FALSE]
        ELSE Extended(built[n - 1], sorted[n])
      last == built[Len(sorted)]
  IN [ranges |-> Append(last.ranges, UidRange(last.start, last.end)), overflow |-> last.overflow]

Rearranged(uids) ==
  {[i \in DOMAIN uids |-> uids[place[i]]] : place \in Bijection(DOMAIN uids, DOMAIN uids)}

Nondecreasing(uids) == \A i, j \in DOMAIN uids : i < j => uids[i] <= uids[j]

sort_unstable(uids) == CHOOSE sorted \in Rearranged(uids) : Nondecreasing(sorted)

\* Faulty: the uids are taken in the order they were named in.
UnsortedUidSet(entries) == RangesOf([i \in DOMAIN entries |-> entries[i].uid])

build_uid_set(entries) == RangesOf(sort_unstable([i \in DOMAIN entries |-> entries[i].uid]))

-----------------------------------------------------------------------------
(* What identifiers mean.                                                  *)

\* The text names this message.
NamesMessage(raw, id) ==
  /\ Len(raw) = Len(id.mailbox) + 4
  /\ <<raw[1], raw[2]>> = <<"imap", id.account_id>>
  /\ \A i \in DOMAIN id.mailbox : raw[i + 2] = id.mailbox[i]
  /\ LET n == Len(raw) IN
     /\ raw[n - 1] \in DOMAIN Numeral /\ Numeral[raw[n - 1]] = id.uidvalidity
     /\ raw[n] \in DOMAIN Numeral /\ Numeral[raw[n]] = id.uid

\* The uids a sequence of ranges denotes.
Denoted(ranges) == UNION {ranges[i].start..ranges[i].end : i \in DOMAIN ranges}

=============================================================================
