---------------------------- MODULE SearchCursors ----------------------------
(***************************************************************************)
(* The cursors of imap_search_messages: the CursorStore behind its mutex,  *)
(* and the search requests that create, resume, move and delete a cursor   *)
(* in between talking to the IMAP server.  A request holds the store       *)
(* twice, to look its cursor up and to store where the next page begins,   *)
(* and fetches the page from the server in the meantime.                   *)
(*                                                                         *)
(* The uids a search matched are abstracted to their positions 1..total in *)
(* uids_desc.  A failed connect, EXAMINE or SEARCH ends a request before   *)
(* it has touched the store; a failed fetch of the headers does not: the   *)
(* request goes on with issues in place of messages.                       *)
(***************************************************************************)
EXTENDS Naturals, FiniteSets

CONSTANTS
  Mailboxes,     \* account and mailbox of a request
  Cursors,       \* cursor ids (UUIDs); the number bounds how many are created
  NoCursor,      \* a search without the cursor parameter
  Requests,      \* slots for concurrent calls
  Limits,        \* page sizes clients ask for, validated to be 1..100
  MaxMatches,    \* bound on the matches of a search
  MaxStored,     \* MAX_CURSOR_UIDS_STORED
  MaxEntries,    \* config.cursor_max_entries
  Ttl,           \* config.cursor_ttl_seconds
  MaxNow,        \* bound on the clock
  MaxEpoch,      \* bound on UIDVALIDITY
  SerialClient   \* clients wait for the answer before they use a cursor again

ASSUME CursorAssumption == NoCursor \notin Cursors /\ Mailboxes # {}
ASSUME LimitAssumption == Limits \subseteq Nat \ {0}
ASSUME NumbersAssumption ==
  /\ MaxMatches \in Nat /\ MaxStored \in Nat /\ MaxEntries \in Nat
  /\ Ttl \in Nat /\ MaxNow \in Nat /\ MaxEpoch \in Nat \ {0}
  /\ SerialClient \in BOOLEAN

VARIABLES
  uidvalidity,  \* the current UIDVALIDITY of each mailbox on the server
  now,          \* the clock of the store
  entries,      \* CursorStore.entries: a function on the ids stored
  pc,           \* where each request is
  call,         \* what each request holds in its local variables
  history,      \* history: what was handed out under each id ever created
  usage         \* history: when each of them was last used, and if it was ended

vars == <<uidvalidity, now, entries, pc, call, history, usage>>

Stored == DOMAIN entries
Created == DOMAIN history

CursorEntry ==
  [mailbox: Mailboxes, uidvalidity: 1..MaxEpoch, total: 0..MaxMatches,
   offset: 0..MaxMatches, expires_at: Nat]

\* input, SearchSnapshot and the size of the page built from them.
Call ==
  [mailbox: Mailboxes, cursor: Cursors \cup {NoCursor}, uidvalidity: 1..MaxEpoch,
   total: 0..MaxMatches, offset: 0..MaxMatches, len: 0..MaxMatches]

\* What a cursor's search found where, the positions handed out to clients
\* and the offsets at which the cursor was resumed.
History ==
  [mailbox: Mailboxes, uidvalidity: 1..MaxEpoch, total: 0..MaxMatches,
   handed: SUBSET (1..MaxMatches), resumed: SUBSET (0..MaxMatches)]

\* When a cursor was created, looked up or moved for the last time while it
\* was stored; and whether a request exhausted it or found it stale.
Usage == [last: Nat, ended: BOOLEAN]

-----------------------------------------------------------------------------
(* CursorStore, as functions from one map of entries to the next.          *)

KeepOnly(T, ids) == [c \in DOMAIN T \cap ids |-> T[c]]
Insert(T, id, entry) == [c \in DOMAIN T \cup {id} |-> IF c = id THEN entry ELSE T[c]]

Unexpired(T) == {c \in DOMAIN T : T[c].expires_at > now}

cleanup(T) == KeepOnly(T, Unexpired(T))

\* Faulty: the entries that expire last go first.
NewestGo(T) ==
  {ids \in SUBSET DOMAIN T :
     /\ Cardinality(ids) = Cardinality(DOMAIN T) - MaxEntries
     /\ \A c \in ids, d \in DOMAIN T \ ids : T[c].expires_at >= T[d].expires_at}

\* The sets evict_if_needed may remove: as many as exceed max_entries, those
\* that expire first; equal times come in the order of a HashMap.
OldestGo(T) ==
  {ids \in SUBSET DOMAIN T :
     /\ Cardinality(ids) = Cardinality(DOMAIN T) - MaxEntries
     /\ \A c \in ids, d \in DOMAIN T \ ids : T[c].expires_at <= T[d].expires_at}

Overflows(T) == Cardinality(DOMAIN T) > MaxEntries

\* entries' is T after evict_if_needed.
evict_if_needed(T) ==
  IF Overflows(T) THEN \E ids \in OldestGo(T) : entries' = KeepOnly(T, DOMAIN T \ ids)
  ELSE entries' = T

\* Faulty: an entry that is used keeps the time at which it expires.
NotRefreshed(e) == e

\* What get and update_offset do to the entry they find.
Refreshed(e) == [e EXCEPT !.expires_at = now + Ttl]

-----------------------------------------------------------------------------
Idle == [mailbox |-> CHOOSE m \in Mailboxes : TRUE, cursor |-> NoCursor, uidvalidity |-> 1,
         total |-> 0, offset |-> 0, len |-> 0]

\* The request answers and its local variables are gone.
Finish(r) ==
  /\ pc' = [pc EXCEPT ![r] = "idle"]
  /\ call' = [call EXCEPT ![r] = Idle]
  /\ UNCHANGED <<uidvalidity, now>>

Init ==
  /\ uidvalidity = [m \in Mailboxes |-> 1]
  /\ now = 0
  /\ entries = [c \in {} |-> 0]
  /\ pc = [r \in Requests |-> "idle"]
  /\ call = [r \in Requests |-> Idle]
  /\ history = [c \in {} |-> 0]
  /\ usage = [c \in {} |-> 0]

Tick ==
  /\ now < MaxNow
  /\ now' = now + 1
  /\ UNCHANGED <<uidvalidity, entries, pc, call, history, usage>>

\* Another client of the server deletes a mailbox and creates it again.
MailboxRecreated(m) ==
  /\ uidvalidity[m] < MaxEpoch
  /\ uidvalidity' = [uidvalidity EXCEPT ![m] = @ + 1]
  /\ UNCHANGED <<now, entries, pc, call, history, usage>>

Busy(c) == \E q \in Requests : pc[q] # "idle" /\ call[q].cursor = c

\* Bound: no more searches than there are ids left for their cursors.
RoomForSearch ==
  Cardinality(Created) + Cardinality({q \in Requests : pc[q] # "idle" /\ call[q].cursor = NoCursor})
    < Cardinality(Cursors)

\* A request arrives, checks a session out and selects its mailbox.
select_mailbox_readonly(r, m, c) ==
  /\ pc[r] = "idle"
  /\ IF c = NoCursor THEN RoomForSearch ELSE c \in Created /\ (SerialClient => ~Busy(c))
  /\ call' = [call EXCEPT ![r] = [mailbox |-> m, cursor |-> c, uidvalidity |-> uidvalidity[m],
                                  total |-> 0, offset |-> 0, len |-> 0]]
  /\ pc' = [pc EXCEPT ![r] = "snapshot"]
  /\ UNCHANGED <<uidvalidity, now, entries, history, usage>>

\* start_new_search: UID SEARCH; more matches than can be stored are refused.
start_new_search(r) ==
  /\ pc[r] = "snapshot" /\ call[r].cursor = NoCursor
  /\ \E total \in 0..MaxMatches :
       IF total > MaxStored THEN Finish(r)
       ELSE /\ call' = [call EXCEPT ![r].total = total]
            /\ pc' = [pc EXCEPT ![r] = "page"]
            /\ UNCHANGED <<uidvalidity, now>>
  /\ UNCHANGED <<entries, history, usage>>

\* Faulty: a cursor of another snapshot of the mailbox is accepted.
AnySnapshot(e, f) == TRUE

SameSnapshot(e, f) == e.uidvalidity = f.uidvalidity

\* resume_cursor_search, all of it with the store locked.
resume_cursor_search(r) ==
  LET c     == call[r].cursor
      alive == cleanup(entries)
      entry == Refreshed(alive[c])
      used  == [usage EXCEPT ![c].last = now]
  IN
  /\ pc[r] = "snapshot" /\ c # NoCursor
  /\ IF c \notin DOMAIN alive THEN entries' = alive /\ Finish(r) /\ UNCHANGED usage
     ELSE IF entry.mailbox # call[r].mailbox
     THEN entries' = Insert(alive, c, entry) /\ usage' = used /\ Finish(r)
     ELSE IF ~SameSnapshot(entry, call[r])
     THEN /\ entries' = KeepOnly(alive, DOMAIN alive \ {c})
          /\ usage' = [usage EXCEPT ![c].ended = TRUE]
          /\ Finish(r)
     ELSE /\ entries' = Insert(alive, c, entry)
          /\ usage' = used
          /\ call' = [call EXCEPT ![r].total = entry.total, ![r].offset = entry.offset]
          /\ pc' = [pc EXCEPT ![r] = "page"]
          /\ UNCHANGED <<uidvalidity, now>>
  /\ UNCHANGED history

\* Faulty: the page is taken to be as long as the limit.
WholeLimit(total, offset, limit) == limit

PageLength(total, offset, limit) == IF total - offset < limit THEN total - offset ELSE limit
Page(f) == (f.offset + 1)..(f.offset + f.len)

\* build_message_summaries of the page; its messages may all have failed.
build_message_summaries(r) ==
  LET c == call[r].cursor IN
  /\ pc[r] = "page"
  /\ IF call[r].offset > call[r].total THEN Finish(r) /\ UNCHANGED history
     ELSE \E limit \in Limits :
            LET len == PageLength(call[r].total, call[r].offset, limit) IN
            /\ call' = [call EXCEPT ![r].len = len]
            /\ pc' = [pc EXCEPT ![r] = "store"]
            /\ history' = IF c = NoCursor THEN history
                 ELSE [history EXCEPT
                         ![c].handed = @ \cup ((call[r].offset + 1)..(call[r].offset + len)),
                         ![c].resumed = @ \cup {call[r].offset}]
            /\ UNCHANGED <<uidvalidity, now>>
  /\ UNCHANGED <<entries, usage>>

\* Faulty: there is more although the page reached the end.
MoreAtTheEnd(f) == f.offset + f.len <= f.total

HasMore(f) == f.offset + f.len < f.total

\* Faulty: the next page begins where this one did.
SamePage(f) == f.offset

\* Faulty: the next page begins one message late.
OneLate(f) == f.offset + f.len + 1

NextOffset(f) == f.offset + f.len

\* The tail of search_messages_impl when messages are left for a new cursor.
create(r) ==
  LET f     == call[r]
      entry == [mailbox |-> f.mailbox, uidvalidity |-> f.uidvalidity, total |-> f.total,
                offset |-> NextOffset(f), expires_at |-> now + Ttl]
  IN
  /\ pc[r] = "store" /\ f.cursor = NoCursor /\ HasMore(f)
  /\ \E c \in Cursors \ Created :
       /\ evict_if_needed(Insert(cleanup(entries), c, entry))
       /\ history' = Insert(history, c,
            [mailbox |-> f.mailbox, uidvalidity |-> f.uidvalidity, total |-> f.total,
             handed |-> Page(f), resumed |-> {}])
       /\ usage' = Insert(usage, c, [last |-> now, ended |-> FALSE])
  /\ Finish(r)

\* Faulty: a cursor that is gone by now is stored again.
UpdateOrInsert(r) ==
  LET f == call[r] IN
  /\ pc[r] = "store" /\ f.cursor # NoCursor /\ HasMore(f)
  /\ entries' = Insert(entries, f.cursor,
       [mailbox |-> f.mailbox, uidvalidity |-> f.uidvalidity, total |-> f.total,
        offset |-> NextOffset(f), expires_at |-> now + Ttl])
  /\ usage' = [usage EXCEPT ![f.cursor].last = now]
  /\ Finish(r)
  /\ UNCHANGED history

\* ... when messages are left for the cursor the request came with: an id
\* that is gone by now is ignored.
update_offset(r) ==
  LET f == call[r] IN
  /\ pc[r] = "store" /\ f.cursor # NoCursor /\ HasMore(f)
  /\ IF f.cursor \notin Stored THEN UNCHANGED <<entries, usage>>
     ELSE /\ entries' = [entries EXCEPT
                           ![f.cursor] = [Refreshed(@) EXCEPT !.offset = NextOffset(f)]]
          /\ usage' = [usage EXCEPT ![f.cursor].last = now]
  /\ Finish(r)
  /\ UNCHANGED history

\* ... and when none is left: delete.
delete(r) ==
  /\ pc[r] = "store" /\ ~HasMore(call[r])
  /\ entries' = KeepOnly(entries, Stored \ {call[r].cursor})
  /\ usage' = IF call[r].cursor = NoCursor THEN usage
              ELSE [usage EXCEPT ![call[r].cursor].ended = TRUE]
  /\ Finish(r)
  /\ UNCHANGED history

Next ==
  \/ Tick
  \/ \E m \in Mailboxes : MailboxRecreated(m)
  \/ \E r \in Requests :
       \/ \E m \in Mailboxes, c \in Cursors \cup {NoCursor} : select_mailbox_readonly(r, m, c)
       \/ start_new_search(r)
       \/ resume_cursor_search(r)
       \/ build_message_summaries(r)
       \/ create(r)
       \/ update_offset(r)
       \/ delete(r)

Spec == Init /\ [][Next]_vars

-----------------------------------------------------------------------------
(* Properties.                                                             *)

TypeOK ==
  /\ uidvalidity \in [Mailboxes -> 1..MaxEpoch]
  /\ now \in Nat
  /\ Stored \subseteq Created /\ Created \subseteq Cursors
  /\ entries \in [Stored -> CursorEntry]
  /\ history \in [Created -> History]
  /\ usage \in [Created -> Usage]
  /\ pc \in [Requests -> {"idle", "snapshot", "page", "store"}]
  /\ call \in [Requests -> Call]

\* Whatever requests interleave on a cursor, and in whatever order they move
\* it: the messages before the place where it resumes, and before the place
\* where a request is about to move it or to end it, were all handed out.
\* The search never loses messages between two pages.
NothingSkipped ==
  /\ \A c \in Stored : 1..entries[c].offset \subseteq history[c].handed
  /\ \A r \in Requests :
       pc[r] = "store" /\ call[r].cursor # NoCursor
       => 1..(call[r].offset + call[r].len) \subseteq history[call[r].cursor].handed

\* A stored cursor has had a page and has a message left: resuming one gets
\* at least one message, and "cursor offset is out of range" is dead code.
OffsetsInside == \A c \in Stored : entries[c].offset \in 1..(entries[c].total - 1)

\* The page of a cursor comes from the mailbox, and from the UIDVALIDITY of
\* that mailbox, under which its uids were found; so the message ids built
\* from it name the messages the search matched.
PagesOfOneSnapshot ==
  \A r \in Requests :
    pc[r] \in {"page", "store"} /\ call[r].cursor # NoCursor =>
      LET found == history[call[r].cursor] IN
      /\ call[r].mailbox = found.mailbox
      /\ call[r].uidvalidity = found.uidvalidity
      /\ call[r].total = found.total

\* MAIL_IMAP_CURSOR_MAX_ENTRIES bounds the store.
StoreBounded == Cardinality(Stored) <= MaxEntries

\* "When exceeded, oldest unused cursors are evicted (LRU)": a cursor that
\* goes while it is neither expired, exhausted nor refused was last used no
\* later than any cursor that stays.
EvictsLeastRecentlyUsed ==
  [][\A c \in Stored :
       Created' # Created /\ c \notin DOMAIN entries' /\ entries[c].expires_at > now
       => \A d \in DOMAIN entries' : entries[c].expires_at <= entries'[d].expires_at]_vars

\* A client that uses its cursor within MAIL_IMAP_CURSOR_TTL_SECONDS finds it
\* again, unless it was exhausted, went with its mailbox, or had to make room:
\* then as many cursors as may be stored were used since.  No order of
\* creating, resuming, moving and evicting takes a cursor before its time.
KeptWhileUsed ==
  \A c \in Created \ Stored :
    \/ usage[c].ended
    \/ now >= usage[c].last + Ttl
    \/ \E others \in SUBSET (Created \ {c}) :
         /\ Cardinality(others) = MaxEntries
         /\ \A d \in others : usage[d].last >= usage[c].last

\* A cursor that went, exhausted, evicted or expired, while a request was
\* fetching a page of it is not brought back when the request moves it, nor by
\* anything else.  One whose time is over but that is still stored is renewed
\* only by a request that was fetching a page of it (update_offset does not
\* clean up); nobody who asks for it then gets hold of it.
GoneForGood ==
  [][\A c \in Created :
       IF c \notin Stored THEN c \notin DOMAIN entries'
       ELSE entries[c].expires_at <= now =>
              \/ c \notin DOMAIN entries' \/ entries'[c] = entries[c]
              \/ \E r \in Requests : pc[r] = "store" /\ call[r].cursor = c]_vars

\* A client that waits for each answer before it goes on is handed no
\* message twice.  (For requests that overlap on one cursor it is not so.)
NoRepeats ==
  [][\A r \in Requests :
       LET c == call[r].cursor IN
       pc[r] = "page" /\ pc'[r] = "store" /\ c # NoCursor
       => Page(call'[r]) \cap history[c].handed = {}]_vars

\* "Each cursor is for a specific page" (docs/cursor-pagination.md).
CursorIsForOnePage == \A c \in Created : Cardinality(history[c].resumed) <= 1

-----------------------------------------------------------------------------
(* The inductive invariant behind the first five.                          *)

\* The entry of a cursor still tells what its search found.
EntriesMatch ==
  \A c \in Stored :
    /\ entries[c].mailbox = history[c].mailbox
    /\ entries[c].uidvalidity = history[c].uidvalidity
    /\ entries[c].total = history[c].total

\* Where a request is in its snapshot, and what was handed out before it.
CallsInside ==
  \A r \in Requests :
    LET f == call[r] IN
    /\ f.cursor = NoCursor => f.offset = 0
    /\ f.cursor # NoCursor => f.cursor \in Created
    /\ pc[r] \in {"page", "store"} => f.offset <= f.total
    /\ pc[r] = "store" => /\ f.offset + f.len <= f.total
                          /\ f.len = 0 => f.offset = f.total
    /\ pc[r] \in {"page", "store"} /\ f.cursor # NoCursor =>
         1..f.offset \subseteq history[f.cursor].handed

\* Behind KeptWhileUsed: entries expire Ttl after their last use.
EntriesTellUsage ==
  /\ \A c \in Stored : entries[c].expires_at = usage[c].last + Ttl
  /\ \A c \in Created : usage[c].last <= now

Inv ==
  /\ TypeOK
  /\ EntriesMatch
  /\ EntriesTellUsage
  /\ CallsInside
  /\ NothingSkipped
  /\ OffsetsInside
  /\ PagesOfOneSnapshot

\* Behind NoRepeats, when clients wait for their answers: one request at a
\* time works with a cursor, and what was handed out under it is just what
\* comes before the place it resumes, or the place a request will move it to.
OneAtATime ==
  \A q, r \in Requests :
    /\ pc[q] # "idle" /\ pc[r] # "idle"
    /\ call[q].cursor = call[r].cursor /\ call[r].cursor # NoCursor
    => q = r

HandedExactly ==
  /\ \A c \in Stored :
       (\A r \in Requests : pc[r] = "store" => call[r].cursor # c)
       => history[c].handed = 1..entries[c].offset
  /\ \A r \in Requests :
       call[r].cursor # NoCursor =>
         /\ pc[r] = "page" => history[call[r].cursor].handed = 1..call[r].offset
         /\ pc[r] = "store" =>
              history[call[r].cursor].handed = 1..(call[r].offset + call[r].len)

Serial == OneAtATime /\ HandedExactly

=============================================================================
