------------------------- MODULE SearchCursorsProofs -------------------------
(* What holds of SearchCursors for every number of cursors and concurrent    *)
(* requests, every page size, every limit of the store and every ttl.        *)
EXTENDS SearchCursors, FiniteSetTheorems, TLAPS

\* The invariant, one entry and one request at a time.
EntryOk(e, h) ==
  /\ e \in CursorEntry
  /\ e.mailbox = h.mailbox /\ e.uidvalidity = h.uidvalidity /\ e.total = h.total
  /\ e.offset \in 1..(e.total - 1)
  /\ 1..e.offset \subseteq h.handed

CallOk(p, f, H) ==
  /\ f \in Call
  /\ f.cursor = NoCursor => f.offset = 0
  /\ f.cursor # NoCursor => f.cursor \in DOMAIN H
  /\ p \in {"page", "store"} => f.offset <= f.total
  /\ p = "store" => f.offset + f.len <= f.total /\ (f.len = 0 => f.offset = f.total)
  /\ p \in {"page", "store"} /\ f.cursor # NoCursor =>
       /\ 1..f.offset \subseteq H[f.cursor].handed
       /\ f.mailbox = H[f.cursor].mailbox
       /\ f.uidvalidity = H[f.cursor].uidvalidity
       /\ f.total = H[f.cursor].total
  /\ p = "store" /\ f.cursor # NoCursor => 1..(f.offset + f.len) \subseteq H[f.cursor].handed

Globals ==
  /\ uidvalidity \in [Mailboxes -> 1..MaxEpoch]
  /\ now \in Nat
  /\ Stored \subseteq Created /\ Created \subseteq Cursors
  /\ entries = [c \in Stored |-> entries[c]]
  /\ history \in [Created -> History]
  /\ pc \in [Requests -> {"idle", "snapshot", "page", "store"}]
  /\ call = [r \in Requests |-> call[r]]

Each ==
  /\ Globals
  /\ \A c \in Stored : EntryOk(entries[c], history[c])
  /\ \A r \in Requests : CallOk(pc[r], call[r], history)

\* What the entries and the history tell of the use of the cursors.
Tells == usage \in [Created -> Usage] /\ EntriesTellUsage

LEMMA EachIsInv == Inv <=> Each /\ Tells
<1>1. Inv => Each /\ Tells
  BY DEF Inv, Tells, Each, Globals, TypeOK, EntriesMatch, CallsInside, NothingSkipped, OffsetsInside,
         PagesOfOneSnapshot, EntryOk, CallOk
<1>2. Each /\ Tells => Inv
  <2> SUFFICES ASSUME Each, Tells PROVE Inv
    OBVIOUS
  <2>1. TypeOK
    BY DEF Each, Tells, Globals, TypeOK, EntryOk, CallOk
  <2>2. EntriesMatch /\ OffsetsInside
    BY DEF Each, EntriesMatch, OffsetsInside, EntryOk
  <2>3. CallsInside /\ PagesOfOneSnapshot
    BY DEF Each, CallsInside, PagesOfOneSnapshot, CallOk, Created
  <2>4. NothingSkipped
    BY DEF Each, NothingSkipped, EntryOk, CallOk
  <2> QED BY <2>1, <2>2, <2>3, <2>4 DEF Inv, Tells
<1> QED BY <1>1, <1>2

\* A history that only grows keeps what it says of entries and requests.
Grows(H, G) ==
  /\ DOMAIN H \subseteq DOMAIN G
  /\ \A c \in DOMAIN H :
       /\ G[c].mailbox = H[c].mailbox /\ G[c].uidvalidity = H[c].uidvalidity
       /\ G[c].total = H[c].total /\ H[c].handed \subseteq G[c].handed

LEMMA EntryStays ==
  ASSUME NEW H, NEW G, Grows(H, G), NEW c \in DOMAIN H, NEW e, EntryOk(e, H[c])
  PROVE  EntryOk(e, G[c])
BY DEF Grows, EntryOk

LEMMA CallStays ==
  ASSUME NEW H, NEW G, Grows(H, G), NEW p, NEW f, CallOk(p, f, H)
  PROVE  CallOk(p, f, G)
BY DEF Grows, CallOk

\* A request that is done holds nothing.
LEMMA IdleOk == \A H : Idle \in Call /\ CallOk("idle", Idle, H)
BY CursorAssumption, NumbersAssumption DEF Idle, Call, CallOk

\* Cleaning up, deleting and evicting leave the entries that stay as they are.
LEMMA Kept ==
  ASSUME NEW T, NEW ids
  PROVE  /\ DOMAIN KeepOnly(T, ids) = DOMAIN T \cap ids
         /\ \A c \in DOMAIN T \cap ids : KeepOnly(T, ids)[c] = T[c]
         /\ KeepOnly(T, ids) = [c \in DOMAIN KeepOnly(T, ids) |-> KeepOnly(T, ids)[c]]
BY DEF KeepOnly

LEMMA Inserted ==
  ASSUME NEW T, NEW id, NEW entry
  PROVE  /\ DOMAIN Insert(T, id, entry) = DOMAIN T \cup {id}
         /\ Insert(T, id, entry)[id] = entry
         /\ \A c \in DOMAIN T : c # id => Insert(T, id, entry)[c] = T[c]
         /\ Insert(T, id, entry) =
              [c \in DOMAIN Insert(T, id, entry) |-> Insert(T, id, entry)[c]]
BY DEF Insert

\* A step of request r that leaves history as it is, leaves the entries of
\* other cursors as they are or drops them, and other requests where they are.
LEMMA StepOfRequest ==
  ASSUME Each, NEW r \in Requests, history' = history,
         uidvalidity' = uidvalidity, now' = now,
         entries' = [c \in Stored' |-> entries'[c]], Stored' \subseteq Stored,
         \A c \in Stored' : entries'[c] = entries[c] \/ EntryOk(entries'[c], history[c]),
         NEW p \in {"idle", "snapshot", "page", "store"}, NEW f,
         pc' = [pc EXCEPT ![r] = p], call' = [call EXCEPT ![r] = f], CallOk(p, f, history)
  PROVE  Each'
<1>1. Globals'
  BY DEF Each, Globals, Created
<1>2. \A c \in Stored' : EntryOk(entries'[c], history'[c])
  BY DEF Each
<1>3. \A q \in Requests : CallOk(pc'[q], call'[q], history')
  BY DEF Each, Globals
<1> QED BY <1>1, <1>2, <1>3 DEF Each

LEMMA InitEach == Init => Each
<1> SUFFICES ASSUME Init PROVE Each
  OBVIOUS
<1>1. Globals
  BY NumbersAssumption DEF Init, Globals, Stored, Created
<1>2. Stored = {}
  BY DEF Init, Stored
<1>3. \A r \in Requests : CallOk(pc[r], call[r], history)
  BY IdleOk DEF Init
<1> QED BY <1>1, <1>2, <1>3 DEF Each

LEMMA EnvironmentEach ==
  ASSUME Each, \/ Tick \/ (\E m \in Mailboxes : MailboxRecreated(m)) \/ UNCHANGED vars
  PROVE  Each'
<1>1. /\ UNCHANGED <<entries, pc, call, history>>
      /\ Stored' = Stored /\ Created' = Created
  BY DEF Tick, MailboxRecreated, vars, Stored, Created
<1>2. uidvalidity' \in [Mailboxes -> 1..MaxEpoch] /\ now' \in Nat
  BY NumbersAssumption DEF Each, Globals, Tick, MailboxRecreated, vars
<1> QED BY <1>1, <1>2 DEF Each, Globals

LEMMA SelectEach ==
  ASSUME Each, NEW r \in Requests, NEW m \in Mailboxes, NEW c \in Cursors \cup {NoCursor},
         select_mailbox_readonly(r, m, c)
  PROVE  Each'
<1> DEFINE f == [mailbox |-> m, cursor |-> c, uidvalidity |-> uidvalidity[m],
                 total |-> 0, offset |-> 0, len |-> 0]
<1>1. CallOk("snapshot", f, history)
  BY NumbersAssumption DEF select_mailbox_readonly, CallOk, Call, Each, Globals, Created
<1>2. /\ UNCHANGED <<uidvalidity, now, entries, history>> /\ Stored' = Stored
      /\ pc' = [pc EXCEPT ![r] = "snapshot"] /\ call' = [call EXCEPT ![r] = f]
  BY DEF select_mailbox_readonly, Stored
<1>3. entries' = [d \in Stored' |-> entries'[d]]
  BY <1>2 DEF Each, Globals
<1> HIDE DEF f
<1> QED BY <1>1, <1>2, <1>3, StepOfRequest

\* The ends of requests that have changed at most the entries.
LEMMA FinishEach ==
  ASSUME Each, NEW r \in Requests, Finish(r), history' = history,
         entries' = [c \in Stored' |-> entries'[c]], Stored' \subseteq Stored,
         \A c \in Stored' : entries'[c] = entries[c] \/ EntryOk(entries'[c], history[c])
  PROVE  Each'
BY IdleOk, StepOfRequest DEF Finish

LEMMA NewSearchEach ==
  ASSUME Each, NEW r \in Requests, start_new_search(r)
  PROVE  Each'
<1>1. /\ history' = history /\ entries' = entries /\ Stored' = Stored
      /\ entries' = [c \in Stored' |-> entries'[c]]
  BY DEF start_new_search, Stored, Each, Globals
<1>2. CASE Finish(r)
  BY <1>1, <1>2, FinishEach
<1>3. CASE ~Finish(r)
  <2>1. PICK total \in 0..MaxMatches :
          /\ call' = [call EXCEPT ![r].total = total]
          /\ pc' = [pc EXCEPT ![r] = "page"]
          /\ UNCHANGED <<uidvalidity, now>>
    BY <1>3 DEF start_new_search
  <2> DEFINE f == [call[r] EXCEPT !.total = total]
  <2>2. call' = [call EXCEPT ![r] = f]
    BY <2>1
  <2>3. CallOk("page", f, history)
    BY NumbersAssumption DEF start_new_search, Each, CallOk, Call
  <2> HIDE DEF f
  <2> QED BY <1>1, <2>1, <2>2, <2>3, StepOfRequest
<1> QED BY <1>2, <1>3

LEMMA ResumeEach ==
  ASSUME Each, NEW r \in Requests, resume_cursor_search(r)
  PROVE  Each'
<1> DEFINE c == call[r].cursor
           alive == cleanup(entries)
           entry == Refreshed(alive[c])
           f == [call[r] EXCEPT !.total = entry.total, !.offset = entry.offset]
<1>1. /\ DOMAIN alive \subseteq Stored
      /\ \A d \in DOMAIN alive : alive[d] = entries[d]
      /\ alive = [d \in DOMAIN alive |-> alive[d]]
  BY DEF cleanup, KeepOnly, Stored
<1>2. history' = history /\ c # NoCursor
  BY DEF resume_cursor_search
<1>3. CASE c \notin DOMAIN alive
  <2>1. entries' = alive /\ Finish(r)
    BY <1>3 DEF resume_cursor_search
  <2> HIDE DEF alive
  <2> QED BY <1>1, <1>2, <2>1, FinishEach DEF Stored
<1>4. CASE c \in DOMAIN alive
  <2>1. EntryOk(entry, history[c])
    <3>1. alive[c] = entries[c] /\ c \in Stored
      BY <1>1, <1>4
    <3>2. EntryOk(entries[c], history[c]) /\ now + Ttl \in Nat
      BY <3>1, NumbersAssumption DEF Each, Globals
    <3> HIDE DEF alive
    <3>3. entry = [entries[c] EXCEPT !.expires_at = now + Ttl]
      BY <3>1 DEF Refreshed
    <3>4. entries[c] \in CursorEntry
      BY <3>2 DEF EntryOk
    <3>5. /\ entry \in CursorEntry /\ entry.mailbox = entries[c].mailbox
          /\ entry.uidvalidity = entries[c].uidvalidity
          /\ entry.total = entries[c].total /\ entry.offset = entries[c].offset
      BY <3>2, <3>3, <3>4 DEF CursorEntry
    <3> QED BY <3>2, <3>5 DEF EntryOk
  <2>2. /\ DOMAIN Insert(alive, c, entry) = DOMAIN alive
        /\ Insert(alive, c, entry)[c] = entry
        /\ \A d \in DOMAIN alive : d # c => Insert(alive, c, entry)[d] = entries[d]
        /\ Insert(alive, c, entry) =
             [d \in DOMAIN Insert(alive, c, entry) |-> Insert(alive, c, entry)[d]]
    <3> HIDE DEF alive, entry
    <3> QED BY <1>1, <1>4 DEF Insert
  <2>3. \/ entries' = Insert(alive, c, entry) /\ Finish(r)
        \/ entries' = KeepOnly(alive, DOMAIN alive \ {c}) /\ Finish(r)
        \/ /\ entry.mailbox = call[r].mailbox /\ SameSnapshot(entry, call[r])
           /\ entries' = Insert(alive, c, entry)
           /\ call' = [call EXCEPT ![r].total = entry.total, ![r].offset = entry.offset]
           /\ pc' = [pc EXCEPT ![r] = "page"]
           /\ UNCHANGED <<uidvalidity, now>>
    BY <1>4 DEF resume_cursor_search
  <2>4. CASE entries' = Insert(alive, c, entry) /\ Finish(r)
    <3> HIDE DEF alive, entry
    <3>1. /\ Stored' = DOMAIN alive
          /\ \A d \in Stored' : entries'[d] = entries[d] \/ EntryOk(entries'[d], history[d])
          /\ entries' = [d \in Stored' |-> entries'[d]]
      BY <2>1, <2>2, <2>4 DEF Stored
    <3> QED BY <3>1, <1>1, <1>2, <2>4, FinishEach
  <2>5. CASE entries' = KeepOnly(alive, DOMAIN alive \ {c}) /\ Finish(r)
    <3> HIDE DEF alive, entry
    <3>1. /\ Stored' \subseteq DOMAIN alive
          /\ \A d \in Stored' : entries'[d] = entries[d]
          /\ entries' = [d \in Stored' |-> entries'[d]]
      BY <1>1, <2>5 DEF Stored, KeepOnly
    <3> QED BY <3>1, <1>1, <1>2, <2>5, FinishEach
  <2>6. CASE /\ entry.mailbox = call[r].mailbox /\ SameSnapshot(entry, call[r])
             /\ entries' = Insert(alive, c, entry)
             /\ call' = [call EXCEPT ![r].total = entry.total, ![r].offset = entry.offset]
             /\ pc' = [pc EXCEPT ![r] = "page"]
             /\ UNCHANGED <<uidvalidity, now>>
    <3>1. CallOk("page", f, history)
      <4>1. CallOk(pc[r], call[r], history) /\ call[r] \in Call
        BY DEF Each, CallOk
      <4>2. entry \in CursorEntry /\ entry.offset <= entry.total
        BY <2>1 DEF EntryOk, CursorEntry
      <4>3. /\ f \in Call /\ f.cursor = c /\ f.mailbox = call[r].mailbox
            /\ f.uidvalidity = call[r].uidvalidity /\ f.total = entry.total
            /\ f.offset = entry.offset
        <5> HIDE DEF entry
        <5> QED BY <4>1, <4>2 DEF Call, CursorEntry
      <4>4. c \in DOMAIN history
        BY <4>1, <1>2 DEF CallOk
      <4> HIDE DEF f, entry
      <4> QED BY <4>2, <4>3, <4>4, <1>2, <2>1, <2>6 DEF CallOk, EntryOk, SameSnapshot
    <3>2. call' = [call EXCEPT ![r] = f]
      <4> HIDE DEF entry
      <4> QED BY <2>6
    <3> HIDE DEF alive, entry, f
    <3>3. /\ Stored' = DOMAIN alive
          /\ \A d \in Stored' : entries'[d] = entries[d] \/ EntryOk(entries'[d], history[d])
          /\ entries' = [d \in Stored' |-> entries'[d]]
      BY <2>1, <2>2, <2>6 DEF Stored
    <3> QED BY <3>1, <3>2, <3>3, <1>1, <1>2, <2>6, StepOfRequest
  <2> QED BY <2>3, <2>4, <2>5, <2>6
<1> QED BY <1>3, <1>4

LEMMA BuildEach ==
  ASSUME Each, NEW r \in Requests, build_message_summaries(r)
  PROVE  Each'
<1> DEFINE c == call[r].cursor
<1>1. /\ CallOk("page", call[r], history) /\ call[r] \in Call /\ entries' = entries
      /\ Stored' = Stored /\ entries' = [d \in Stored' |-> entries'[d]]
  BY DEF build_message_summaries, Each, Globals, CallOk, Stored
<1>2. CASE call[r].offset > call[r].total
  BY <1>1, <1>2, FinishEach DEF build_message_summaries
<1>3. CASE ~(call[r].offset > call[r].total)
  <2>1. PICK limit \in Limits :
          LET len == PageLength(call[r].total, call[r].offset, limit) IN
          /\ call' = [call EXCEPT ![r].len = len]
          /\ pc' = [pc EXCEPT ![r] = "store"]
          /\ history' = IF c = NoCursor THEN history
               ELSE [history EXCEPT
                       ![c].handed = @ \cup ((call[r].offset + 1)..(call[r].offset + len)),
                       ![c].resumed = @ \cup {call[r].offset}]
          /\ UNCHANGED <<uidvalidity, now>>
    BY <1>3 DEF build_message_summaries
  <2> DEFINE len == PageLength(call[r].total, call[r].offset, limit)
             f == [call[r] EXCEPT !.len = len]
             page == (call[r].offset + 1)..(call[r].offset + len)
  <2>2. /\ call[r].total \in 0..MaxMatches /\ call[r].offset \in 0..MaxMatches
        /\ call[r].offset <= call[r].total /\ limit \in Nat /\ limit > 0 /\ MaxMatches \in Nat
    BY <1>1, LimitAssumption, NumbersAssumption DEF Call, CallOk
  <2>3. /\ len \in 0..MaxMatches /\ call[r].offset + len <= call[r].total
        /\ len = 0 => call[r].offset = call[r].total
        /\ page \subseteq 1..MaxMatches
    BY <2>2 DEF PageLength
  <2> HIDE DEF len
  <2>4. /\ f \in Call /\ f.len = len /\ f.cursor = c /\ f.offset = call[r].offset
        /\ f.total = call[r].total /\ f.mailbox = call[r].mailbox
        /\ f.uidvalidity = call[r].uidvalidity
    BY <1>1, <2>3 DEF Call
  <2>5. /\ Created' = Created /\ history' \in [Created' -> History] /\ Grows(history, history')
        /\ c # NoCursor => page \subseteq history'[c].handed
    <3>1. CASE c = NoCursor
      BY <2>1, <3>1 DEF Each, Globals, Created, Grows
    <3>2. CASE c # NoCursor
      <4>1. c \in Created /\ history[c] \in History
        BY <1>1, <3>2 DEF CallOk, Each, Globals, Created
      <4> DEFINE h == [history[c] EXCEPT !.handed = @ \cup page, !.resumed = @ \cup {call[r].offset}]
      <4>2. /\ h \in History /\ h.handed = history[c].handed \cup page
            /\ h.mailbox = history[c].mailbox /\ h.uidvalidity = history[c].uidvalidity
            /\ h.total = history[c].total
        BY <4>1, <2>2, <2>3 DEF History
      <4>3. history' = [history EXCEPT ![c] = h]
        BY <2>1, <3>2 DEF len
      <4> HIDE DEF h, page
      <4> QED BY <4>1, <4>2, <4>3 DEF Each, Globals, Created, Grows
    <3> QED BY <3>1, <3>2
  <2>6. CallOk("store", f, history')
    <3>1. CallOk("page", call[r], history')
      BY <1>1, <2>5, CallStays
    <3>2. c # NoCursor => 1..(f.offset + f.len) \subseteq history'[c].handed
      <4> SUFFICES ASSUME c # NoCursor, NEW i \in 1..(f.offset + f.len)
                   PROVE  i \in history'[c].handed
        OBVIOUS
      <4>1. i \in 1..call[r].offset \/ i \in page
        BY <2>2, <2>3, <2>4
      <4> QED BY <4>1, <3>1, <2>5 DEF CallOk
    <3> HIDE DEF f
    <3> QED BY <3>1, <3>2, <2>3, <2>4 DEF CallOk
  <2>7. call' = [call EXCEPT ![r] = f]
    BY <2>1 DEF len
  <2> HIDE DEF f
  <2>8. Globals'
    BY <1>1, <2>1, <2>5, <2>7 DEF Each, Globals
  <2>9. \A d \in Stored' : EntryOk(entries'[d], history'[d])
    BY <1>1, <2>5, EntryStays DEF Each, Globals, Created
  <2>10. \A q \in Requests : CallOk(pc'[q], call'[q], history')
    BY <2>1, <2>5, <2>6, <2>7, CallStays DEF Each, Globals
  <2> QED BY <2>8, <2>9, <2>10 DEF Each
<1> QED BY <1>2, <1>3

\* Where the next page begins, when there is one.
LEMMA NextInside ==
  ASSUME NEW H, NEW f, CallOk("store", f, H), HasMore(f)
  PROVE  /\ NextOffset(f) \in 1..(f.total - 1) /\ NextOffset(f) \in 0..MaxMatches
         /\ NextOffset(f) = f.offset + f.len
BY NumbersAssumption DEF CallOk, Call, HasMore, NextOffset

LEMMA UpdateEach ==
  ASSUME Each, NEW r \in Requests, update_offset(r)
  PROVE  Each'
<1> DEFINE f == call[r]
           c == f.cursor
<1>1. CallOk("store", f, history) /\ HasMore(f) /\ c # NoCursor /\ Finish(r) /\ history' = history
  BY DEF update_offset, Each
<1>2. entries = [d \in Stored |-> entries[d]] /\ now + Ttl \in Nat
  BY NumbersAssumption DEF Each, Globals
<1>3. CASE c \notin Stored
  <2>1. entries' = entries
    BY <1>3 DEF update_offset
  <2> QED BY <1>1, <1>2, <2>1, FinishEach DEF Stored
<1>4. CASE c \in Stored
  <2> DEFINE e == [Refreshed(entries[c]) EXCEPT !.offset = NextOffset(f)]
  <2>1. EntryOk(entries[c], history[c]) /\ entries[c] \in CursorEntry
    BY <1>4 DEF Each, EntryOk
  <2>2. /\ NextOffset(f) \in 1..(f.total - 1) /\ NextOffset(f) \in 0..MaxMatches
        /\ NextOffset(f) = f.offset + f.len
    BY <1>1, NextInside
  <2>3. /\ e \in CursorEntry /\ e.mailbox = entries[c].mailbox
        /\ e.uidvalidity = entries[c].uidvalidity /\ e.total = entries[c].total
        /\ e.offset = NextOffset(f)
    BY <2>1, <2>2, <1>2 DEF CursorEntry, Refreshed
  <2>4. EntryOk(e, history[c])
    <3> HIDE DEF e
    <3> QED BY <1>1, <2>1, <2>2, <2>3 DEF EntryOk, CallOk
  <2>5. entries' = [entries EXCEPT ![c] = e]
    BY <1>4 DEF update_offset
  <2> HIDE DEF e
  <2>6. /\ Stored' = Stored /\ entries' = [d \in Stored' |-> entries'[d]]
        /\ \A d \in Stored' : entries'[d] = entries[d] \/ EntryOk(entries'[d], history[d])
    BY <1>2, <1>4, <2>4, <2>5 DEF Stored
  <2> QED BY <1>1, <2>6, FinishEach
<1> QED BY <1>3, <1>4

LEMMA DeleteEach ==
  ASSUME Each, NEW r \in Requests, delete(r)
  PROVE  Each'
<1>1. /\ Stored' \subseteq Stored
      /\ \A d \in Stored' : entries'[d] = entries[d]
      /\ entries' = [d \in Stored' |-> entries'[d]]
  BY DEF delete, KeepOnly, Stored
<1> QED BY <1>1, FinishEach DEF delete

LEMMA CreateEach ==
  ASSUME Each, NEW r \in Requests, create(r)
  PROVE  Each'
<1> DEFINE f == call[r]
           entry == [mailbox |-> f.mailbox, uidvalidity |-> f.uidvalidity, total |-> f.total,
                     offset |-> NextOffset(f), expires_at |-> now + Ttl]
           h == [mailbox |-> f.mailbox, uidvalidity |-> f.uidvalidity, total |-> f.total,
                 handed |-> Page(f), resumed |-> {}]
           alive == cleanup(entries)
<1>1. CallOk("store", f, history) /\ f \in Call /\ HasMore(f) /\ f.cursor = NoCursor /\ Finish(r)
  BY DEF create, Each, CallOk
<1>2. PICK c \in Cursors \ Created : /\ evict_if_needed(Insert(alive, c, entry))
                                     /\ history' = Insert(history, c, h)
  BY DEF create
<1>3. /\ DOMAIN alive \subseteq Stored
      /\ \A d \in DOMAIN alive : alive[d] = entries[d]
  BY DEF cleanup, KeepOnly, Stored
<1>4. EntryOk(entry, h) /\ h \in History
  <2>1. /\ NextOffset(f) \in 1..(f.total - 1) /\ NextOffset(f) \in 0..MaxMatches
        /\ NextOffset(f) = f.offset + f.len
    BY <1>1, NextInside
  <2>2. f.offset = 0 /\ f.len \in 0..MaxMatches /\ now + Ttl \in Nat
    BY <1>1, NumbersAssumption DEF CallOk, Call, Each, Globals
  <2>3. entry \in CursorEntry
    BY <1>1, <2>1, <2>2 DEF CursorEntry, Call
  <2>4. Page(f) = 1..f.len /\ NextOffset(f) = f.len
    BY <2>1, <2>2 DEF Page
  <2>5. h \in History
    BY <1>1, <2>2, <2>4, NumbersAssumption DEF History, Call
  <2> QED BY <2>1, <2>3, <2>4, <2>5 DEF EntryOk
<1> HIDE DEF entry, h, alive
<1>5. /\ Created' = Created \cup {c} /\ history'[c] = h
      /\ \A d \in Created : history'[d] = history[d]
      /\ history' = [d \in Created' |-> history'[d]]
  BY <1>2 DEF Insert, Created
<1>6. history' \in [Created' -> History] /\ Grows(history, history') /\ Created' \subseteq Cursors
  BY <1>2, <1>4, <1>5 DEF Each, Globals, Grows, Created
<1>7. /\ Stored' \subseteq DOMAIN alive \cup {c}
      /\ \A d \in Stored' : entries'[d] = IF d = c THEN entry ELSE entries[d]
      /\ entries' = [d \in Stored' |-> entries'[d]]
  <2> DEFINE T == Insert(alive, c, entry)
  <2>1. /\ DOMAIN T = DOMAIN alive \cup {c}
        /\ \A d \in DOMAIN T : T[d] = IF d = c THEN entry ELSE entries[d]
        /\ T = [d \in DOMAIN T |-> T[d]]
    BY <1>3 DEF Insert
  <2>2. evict_if_needed(T)
    BY <1>2
  <2> HIDE DEF T
  <2>3. entries' = T \/ \E ids \in OldestGo(T) : entries' = KeepOnly(T, DOMAIN T \ ids)
    BY <2>2 DEF evict_if_needed
  <2>4. /\ DOMAIN entries' \subseteq DOMAIN T
        /\ \A d \in DOMAIN entries' : entries'[d] = T[d]
        /\ entries' = [d \in DOMAIN entries' |-> entries'[d]]
    BY <2>1, <2>3 DEF KeepOnly
  <2> QED BY <2>1, <2>4 DEF Stored
<1>8. Globals'
  BY <1>1, <1>3, <1>5, <1>6, <1>7 DEF Finish, Each, Globals
<1>9. \A d \in Stored' : EntryOk(entries'[d], history'[d])
  <2>1. ASSUME NEW d \in Stored', d # c PROVE EntryOk(entries'[d], history'[d])
    BY <2>1, <1>3, <1>5, <1>7 DEF Each, Globals
  <2> QED BY <2>1, <1>4, <1>5, <1>7
<1>10. \A q \in Requests : CallOk(pc'[q], call'[q], history')
  BY <1>1, <1>6, IdleOk, CallStays DEF Finish, Each, Globals
<1> QED BY <1>8, <1>9, <1>10 DEF Each

LEMMA NextEach == Each /\ [Next]_vars => Each'
<1> SUFFICES ASSUME Each, [Next]_vars PROVE Each'
  OBVIOUS
<1>1. CASE Tick \/ (\E m \in Mailboxes : MailboxRecreated(m)) \/ UNCHANGED vars
  BY <1>1, EnvironmentEach
<1>2. ASSUME NEW r \in Requests, NEW m \in Mailboxes, NEW c \in Cursors \cup {NoCursor},
             select_mailbox_readonly(r, m, c)
      PROVE  Each'
  BY <1>2, SelectEach
<1>3. ASSUME NEW r \in Requests,
             \/ start_new_search(r) \/ resume_cursor_search(r) \/ build_message_summaries(r)
             \/ create(r) \/ update_offset(r) \/ delete(r)
      PROVE  Each'
  BY <1>3, NewSearchEach, ResumeEach, BuildEach, CreateEach, UpdateEach, DeleteEach
<1> QED BY <1>1, <1>2, <1>3 DEF Next

-----------------------------------------------------------------------------
(* Entries expire Ttl after the last use of their cursors.                 *)

\* A step that leaves the set of cursors ever created as it is, and at most
\* drops entries or refreshes them.
LEMMA TellsStays ==
  ASSUME Each, Tells, now' = now, Created' = Created, Stored' \subseteq Stored,
         usage' \in [Created -> Usage],
         \A d \in Created : usage'[d].last \in {usage[d].last, now},
         \A d \in Stored' :
           \/ entries'[d].expires_at = entries[d].expires_at /\ usage'[d].last = usage[d].last
           \/ entries'[d].expires_at = now + Ttl /\ usage'[d].last = now
  PROVE  Tells'
<1>1. \A d \in Created : usage[d].last \in Nat
  BY DEF Tells, Usage
<1>2. \A d \in Stored' : entries'[d].expires_at = usage'[d].last + Ttl
  BY DEF Tells, EntriesTellUsage
<1>3. \A d \in Created : usage'[d].last <= now
  BY <1>1 DEF Each, Globals, Tells, EntriesTellUsage
<1> QED BY <1>2, <1>3 DEF Tells, EntriesTellUsage

\* What resuming a cursor does to the store and to what is known of its use.
LEMMA ResumeUses ==
  ASSUME Each, Tells, NEW r \in Requests, resume_cursor_search(r)
  PROVE  /\ now' = now /\ history' = history /\ Stored' \subseteq Stored
         /\ call[r].cursor \in Created
         /\ \/ /\ usage' = usage
               /\ \A d \in Stored' : entries'[d] = entries[d]
               /\ \A d \in Stored \ Stored' : d \notin Unexpired(entries)
            \/ /\ usage' = [usage EXCEPT ![call[r].cursor].last = now]
               /\ call[r].cursor \in Stored
               /\ \A d \in Stored' : IF d = call[r].cursor
                                    THEN entries'[d].expires_at = now + Ttl
                                    ELSE entries'[d] = entries[d]
               /\ \A d \in Stored \ Stored' : d \notin Unexpired(entries) /\ d # call[r].cursor
            \/ /\ usage' = [usage EXCEPT ![call[r].cursor].ended = TRUE]
               /\ \A d \in Stored' : entries'[d] = entries[d]
               /\ \A d \in Stored \ Stored' : d \notin Unexpired(entries) \/ d = call[r].cursor
<1> DEFINE c == call[r].cursor
           alive == cleanup(entries)
           entry == Refreshed(alive[c])
<1>1. /\ DOMAIN alive = Unexpired(entries) /\ Unexpired(entries) \subseteq Stored
      /\ \A d \in DOMAIN alive : alive[d] = entries[d]
  BY DEF cleanup, KeepOnly, Unexpired, Stored
<1>2. now' = now /\ history' = history /\ c \in Created
  BY DEF resume_cursor_search, Finish, Each, CallOk, Created
<1>3. CASE c \notin DOMAIN alive
  <2>1. entries' = alive /\ usage' = usage
    BY <1>3 DEF resume_cursor_search
  <2> HIDE DEF alive
  <2> QED BY <1>1, <1>2, <2>1 DEF Stored
<1>4. CASE c \in DOMAIN alive
  <2>1. \/ /\ entries' = Insert(alive, c, entry)
           /\ usage' = [usage EXCEPT ![c].last = now]
        \/ /\ entries' = KeepOnly(alive, DOMAIN alive \ {c})
           /\ usage' = [usage EXCEPT ![c].ended = TRUE]
    BY <1>4 DEF resume_cursor_search
  <2>2. CASE /\ entries' = Insert(alive, c, entry)
             /\ usage' = [usage EXCEPT ![c].last = now]
    <3>1. entry.expires_at = now + Ttl
      <4>1. alive[c] \in CursorEntry
        BY <1>1, <1>4 DEF Each, EntryOk
      <4> HIDE DEF alive
      <4> QED BY <4>1 DEF Refreshed, CursorEntry
    <3> HIDE DEF alive, entry
    <3>2. /\ Stored' = DOMAIN alive /\ entries'[c] = entry
          /\ \A d \in Stored' : d # c => entries'[d] = entries[d]
      BY <1>1, <1>4, <2>2 DEF Insert, Stored
    <3> QED BY <1>1, <1>2, <1>4, <2>2, <3>1, <3>2
  <2>3. CASE /\ entries' = KeepOnly(alive, DOMAIN alive \ {c})
             /\ usage' = [usage EXCEPT ![c].ended = TRUE]
    <3> HIDE DEF alive
    <3>1. Stored' = DOMAIN alive \ {c} /\ \A d \in Stored' : entries'[d] = entries[d]
      BY <1>1, <2>3 DEF KeepOnly, Stored
    <3> QED BY <1>1, <1>2, <2>3, <3>1
  <2> QED BY <2>1, <2>2, <2>3
<1> QED BY <1>3, <1>4

LEMMA ResumeTells ==
  ASSUME Each, Tells, NEW r \in Requests, resume_cursor_search(r)
  PROVE  Tells'
<1> DEFINE c == call[r].cursor
<1>1. usage \in [Created -> Usage] /\ now \in Nat /\ Created' = Created
  BY ResumeUses DEF Tells, Each, Globals, Created
<1>2. c \in Created /\ usage[c] \in Usage
  BY <1>1, ResumeUses
<1>3. CASE usage' = usage /\ \A d \in Stored' : entries'[d] = entries[d]
  BY <1>1, <1>3, ResumeUses, TellsStays DEF Each, Globals
<1>4. CASE /\ usage' = [usage EXCEPT ![c].last = now]
           /\ \A d \in Stored' : IF d = c THEN entries'[d].expires_at = now + Ttl
                                ELSE entries'[d] = entries[d]
  <2>1. usage' \in [Created -> Usage]
    BY <1>1, <1>2, <1>4 DEF Usage
  <2>2. /\ usage'[c].last = now
        /\ \A d \in Created : d # c => usage'[d] = usage[d]
    BY <1>1, <1>2, <1>4 DEF Usage
  <2> QED BY <1>1, <1>4, <2>1, <2>2, ResumeUses, TellsStays DEF Each, Globals
<1>5. CASE /\ usage' = [usage EXCEPT ![c].ended = TRUE]
           /\ \A d \in Stored' : entries'[d] = entries[d]
  <2>1. usage' \in [Created -> Usage] /\ \A d \in Created : usage'[d].last = usage[d].last
    BY <1>1, <1>2, <1>5 DEF Usage
  <2> QED BY <1>1, <1>5, <2>1, ResumeUses, TellsStays DEF Each, Globals
<1> QED BY <1>3, <1>4, <1>5, ResumeUses

LEMMA UpdateTells ==
  ASSUME Each, Tells, NEW r \in Requests, update_offset(r)
  PROVE  /\ Tells' /\ now' = now /\ Created' = Created /\ Stored' = Stored
         /\ \A d \in Created \ Stored : usage'[d] = usage[d]
<1> DEFINE c == call[r].cursor
<1>1. /\ usage \in [Created -> Usage] /\ now \in Nat /\ now' = now
      /\ Created' = Created /\ Stored' = Stored /\ Stored \subseteq Created
  BY DEF Tells, Each, Globals, Created, Stored, update_offset, Finish
<1>2. CASE c \notin Stored
  <2>1. entries' = entries /\ usage' = usage
    BY <1>2 DEF update_offset
  <2> QED BY <1>1, <2>1, TellsStays
<1>3. CASE c \in Stored
  <2> DEFINE e == [Refreshed(entries[c]) EXCEPT !.offset = NextOffset(call[r])]
  <2>1. e.expires_at = now + Ttl
    BY <1>3 DEF Each, EntryOk, CursorEntry, Refreshed
  <2>2. entries' = [entries EXCEPT ![c] = e] /\ usage' = [usage EXCEPT ![c].last = now]
    BY <1>3 DEF update_offset
  <2> HIDE DEF e
  <2>3. \A d \in Stored : entries'[d] = IF d = c THEN e ELSE entries[d]
    BY <1>3, <2>2 DEF Stored
  <2>4. usage' \in [Created -> Usage] /\ usage'[c].last = now
    BY <1>1, <1>3, <2>2 DEF Usage
  <2>5. \A d \in Created : d # c => usage'[d] = usage[d]
    BY <1>1, <2>2
  <2> QED BY <1>1, <1>3, <2>1, <2>3, <2>4, <2>5, TellsStays
<1> QED BY <1>2, <1>3

LEMMA DeleteTells ==
  ASSUME Each, Tells, NEW r \in Requests, delete(r)
  PROVE  /\ Tells' /\ now' = now /\ Created' = Created /\ Stored' \subseteq Stored
         /\ \A d \in Created : usage'[d].last = usage[d].last
         /\ \A d \in Created : usage[d].ended => usage'[d].ended
         /\ \A d \in Stored \ Stored' : usage'[d].ended
<1> DEFINE c == call[r].cursor
<1>1. /\ usage \in [Created -> Usage] /\ now \in Nat /\ now' = now
      /\ Created' = Created /\ Stored' = Stored \ {c} /\ Stored \subseteq Created
      /\ \A d \in Stored' : entries'[d] = entries[d]
  BY DEF Tells, Each, Globals, Created, Stored, delete, KeepOnly, Finish
<1>2. usage' = IF c = NoCursor THEN usage ELSE [usage EXCEPT ![c].ended = TRUE]
  BY DEF delete
<1>3. c # NoCursor => c \in Created
  BY DEF Each, CallOk, Created
<1>4. /\ usage' \in [Created -> Usage] /\ \A d \in Created : usage'[d].last = usage[d].last
      /\ \A d \in Created : usage[d].ended => usage'[d].ended
      /\ c # NoCursor => usage'[c].ended
  BY <1>1, <1>2, <1>3 DEF Usage
<1>5. \A d \in Stored \ Stored' : d = c /\ d # NoCursor
  BY <1>1, CursorAssumption DEF Each, Globals
<1> QED BY <1>1, <1>4, <1>5, TellsStays

\* What creating cursor c does: T is the store before room is made.
Creates(c, T) ==
  /\ now' = now /\ Created' = Created \cup {c} /\ usage' \in [Created' -> Usage]
  /\ DOMAIN T = Unexpired(entries) \cup {c} /\ evict_if_needed(T)
  /\ usage'[c].last = now /\ T[c].expires_at = now + Ttl
  /\ \A d \in Created : usage'[d] = usage[d]
  /\ \A d \in Unexpired(entries) : T[d] = entries[d]

LEMMA CreateUses ==
  ASSUME Each, Tells, NEW r \in Requests, create(r)
  PROVE  \E c \in Cursors \ Created : \E T : Creates(c, T)
<1> DEFINE f == call[r]
           entry == [mailbox |-> f.mailbox, uidvalidity |-> f.uidvalidity, total |-> f.total,
                     offset |-> NextOffset(f), expires_at |-> now + Ttl]
           h == [mailbox |-> f.mailbox, uidvalidity |-> f.uidvalidity, total |-> f.total,
                 handed |-> Page(f), resumed |-> {}]
           alive == cleanup(entries)
           u == [last |-> now, ended |-> FALSE]
<1>1. PICK c \in Cursors \ Created : /\ evict_if_needed(Insert(alive, c, entry))
                                     /\ history' = Insert(history, c, h)
                                     /\ usage' = Insert(usage, c, u)
  BY DEF create
<1>2. /\ DOMAIN alive = Unexpired(entries) /\ Unexpired(entries) \subseteq Stored
      /\ \A d \in DOMAIN alive : alive[d] = entries[d]
  BY DEF cleanup, KeepOnly, Unexpired, Stored
<1>3. u \in Usage /\ u.last = now /\ entry.expires_at = now + Ttl /\ now' = now
  BY DEF Each, Globals, Usage, create, Finish
<1> HIDE DEF entry, h, alive, u
<1>4. Created' = Created \cup {c}
  BY <1>1 DEF Insert, Created
<1>5. /\ usage' \in [Created' -> Usage] /\ usage'[c] = u
      /\ \A d \in Created : usage'[d] = usage[d]
  BY <1>1, <1>3, <1>4 DEF Insert, Tells
<1>6. c \notin Unexpired(entries)
  BY <1>2 DEF Each, Globals
<1> DEFINE T == Insert(alive, c, entry)
<1>7. /\ DOMAIN T = Unexpired(entries) \cup {c} /\ T[c] = entry
      /\ \A d \in Unexpired(entries) : T[d] = entries[d]
  BY <1>2, <1>6 DEF Insert
<1>8. evict_if_needed(T)
  BY <1>1
<1> HIDE DEF T
<1>9. Creates(c, T)
  BY <1>3, <1>4, <1>5, <1>7, <1>8 DEF Creates
<1> QED BY <1>9

\* Making room leaves the entries that stay as they are.
LEMMA EvictionKeeps ==
  ASSUME NEW T, evict_if_needed(T)
  PROVE  Stored' \subseteq DOMAIN T /\ \A d \in Stored' : entries'[d] = T[d]
BY DEF evict_if_needed, KeepOnly, Stored

LEMMA CreateTells ==
  ASSUME Each, Tells, NEW r \in Requests, create(r)
  PROVE  Tells'
<1>0. PICK c \in Cursors \ Created : \E T : Creates(c, T)
  BY CreateUses
<1> PICK T : Creates(c, T)
  BY <1>0
<1>1. /\ now' = now /\ Created' = Created \cup {c} /\ usage' \in [Created' -> Usage]
      /\ DOMAIN T = Unexpired(entries) \cup {c} /\ evict_if_needed(T)
      /\ usage'[c].last = now /\ T[c].expires_at = now + Ttl
      /\ \A d \in Created : usage'[d] = usage[d]
      /\ \A d \in Unexpired(entries) : T[d] = entries[d]
  BY DEF Creates
<1>2. Stored' \subseteq DOMAIN T /\ \A d \in Stored' : entries'[d] = T[d]
  BY <1>1, EvictionKeeps
<1>3. Unexpired(entries) \subseteq Stored /\ Stored \subseteq Created /\ now \in Nat
  BY DEF Unexpired, Stored, Each, Globals
<1>4. \A d \in Stored' : entries'[d].expires_at = usage'[d].last + Ttl
  BY <1>1, <1>2, <1>3 DEF Tells, EntriesTellUsage
<1>5. \A d \in Created' : usage'[d].last <= now'
  BY <1>1, <1>3 DEF Tells, EntriesTellUsage
<1> QED BY <1>1, <1>4, <1>5 DEF Tells, EntriesTellUsage

\* The other steps leave the store and the use of the cursors as they are.
LEMMA OthersUse ==
  ASSUME Each,
         \/ Tick \/ (\E m \in Mailboxes : MailboxRecreated(m)) \/ UNCHANGED vars
         \/ \E r \in Requests :
              \/ \E m \in Mailboxes, c \in Cursors \cup {NoCursor} : select_mailbox_readonly(r, m, c)
              \/ start_new_search(r) \/ build_message_summaries(r)
  PROVE  /\ entries' = entries /\ usage' = usage /\ Created' = Created /\ Stored' = Stored
         /\ now' \in Nat /\ now' >= now
<1>1. entries' = entries /\ usage' = usage /\ Created' = Created
  BY DEF Tick, MailboxRecreated, vars, select_mailbox_readonly, start_new_search,
         build_message_summaries, Created
<1>2. now' = now \/ now' = now + 1
  BY DEF Tick, MailboxRecreated, vars, select_mailbox_readonly, start_new_search,
         build_message_summaries, Finish
<1>3. now \in Nat
  BY DEF Each, Globals
<1> QED BY <1>1, <1>2, <1>3 DEF Stored

LEMMA NextTells == Each /\ Tells /\ [Next]_vars => Tells'
<1> SUFFICES ASSUME Each, Tells, [Next]_vars PROVE Tells'
  OBVIOUS
<1>1. CASE \/ Tick \/ (\E m \in Mailboxes : MailboxRecreated(m)) \/ UNCHANGED vars
           \/ \E r \in Requests :
                \/ \E m \in Mailboxes, c \in Cursors \cup {NoCursor} : select_mailbox_readonly(r, m, c)
                \/ start_new_search(r) \/ build_message_summaries(r)
  <2>1. /\ entries' = entries /\ usage' = usage /\ Created' = Created /\ Stored' = Stored
        /\ now' \in Nat /\ now' >= now
    BY <1>1, OthersUse
  <2>2. \A c \in Created : usage[c].last \in Nat /\ now \in Nat
    BY DEF Tells, Usage, Each, Globals
  <2> QED BY <2>1, <2>2 DEF Tells, EntriesTellUsage
<1>2. ASSUME NEW r \in Requests,
             resume_cursor_search(r) \/ create(r) \/ update_offset(r) \/ delete(r)
      PROVE  Tells'
  BY <1>2, ResumeTells, CreateTells, UpdateTells, DeleteTells
<1> QED BY <1>1, <1>2 DEF Next

\* The invariant of the cursors holds in every reachable state.
THEOREM CursorInvariant == Spec => []Inv
<1>1. Init => Inv
  <2>1. Init => Tells
    BY DEF Init, Tells, EntriesTellUsage, Stored, Created
  <2> QED BY <2>1, InitEach, EachIsInv
<1>2. Inv /\ [Next]_vars => Inv'
  <2>1. Each' /\ Tells' => Inv'
    BY EachIsInv, PTL
  <2> QED BY <2>1, NextEach, NextTells, EachIsInv
<1> QED BY <1>1, <1>2, PTL DEF Spec

\* However requests overlap on a cursor, and whatever the store evicts, no
\* message before the place where a cursor resumes was left out of all pages.
THEOREM SearchesSkipNothing == Spec => []NothingSkipped
<1>1. Inv => NothingSkipped
  BY DEF Inv
<1> QED BY <1>1, CursorInvariant, PTL

\* A stored cursor always has a message left, so the error for an offset out
\* of range is never returned.
THEOREM OffsetsStayInside == Spec => []OffsetsInside
<1>1. Inv => OffsetsInside
  BY DEF Inv
<1> QED BY <1>1, CursorInvariant, PTL

\* A cursor's pages come from the mailbox and the UIDVALIDITY of its search.
THEOREM SnapshotsNeverMix == Spec => []PagesOfOneSnapshot
<1>1. Inv => PagesOfOneSnapshot
  BY DEF Inv
<1> QED BY <1>1, CursorInvariant, PTL

\* Every variable keeps its type.
THEOREM TypeCorrect == Spec => []TypeOK
<1>1. Inv => TypeOK
  BY DEF Inv
<1> QED BY <1>1, CursorInvariant, PTL

-----------------------------------------------------------------------------
(* The size of the store, and what goes first.                             *)

\* Eviction brings one entry too many back to the limit.
LEMMA EvictionBounds ==
  ASSUME NEW T, IsFiniteSet(DOMAIN T), evict_if_needed(T)
  PROVE  /\ IsFiniteSet(Stored') /\ Cardinality(Stored') <= MaxEntries
         /\ Overflows(T) => Cardinality(Stored') = MaxEntries
<1>0. Cardinality(DOMAIN T) \in Nat /\ MaxEntries \in Nat
  BY FS_CardinalityType, NumbersAssumption
<1>1. CASE ~Overflows(T)
  BY <1>0, <1>1 DEF evict_if_needed, Overflows, Stored
<1>2. CASE Overflows(T)
  <2>1. PICK ids \in OldestGo(T) : entries' = KeepOnly(T, DOMAIN T \ ids)
    BY <1>2 DEF evict_if_needed
  <2>2. ids \in SUBSET DOMAIN T /\ Cardinality(ids) = Cardinality(DOMAIN T) - MaxEntries
    BY <2>1 DEF OldestGo
  <2>3. Stored' = DOMAIN T \ ids
    BY <2>1 DEF KeepOnly, Stored
  <2>4. DOMAIN T \cap ids = ids
    BY <2>2
  <2>5. /\ IsFiniteSet(DOMAIN T \ ids)
        /\ Cardinality(DOMAIN T \ ids) = Cardinality(DOMAIN T) - Cardinality(ids)
    BY <2>4, FS_Difference
  <2> QED BY <1>0, <2>2, <2>3, <2>5
<1> QED BY <1>1, <1>2

Bounded == IsFiniteSet(Stored) /\ Cardinality(Stored) <= MaxEntries

LEMMA FewerBounded ==
  ASSUME Bounded, Stored' \subseteq Stored
  PROVE  Bounded'
<1>1. Cardinality(Stored) \in Nat /\ Cardinality(Stored') \in Nat /\ MaxEntries \in Nat
  BY FS_CardinalityType, FS_Subset, NumbersAssumption DEF Bounded
<1>2. IsFiniteSet(Stored') /\ Cardinality(Stored') <= Cardinality(Stored)
  BY FS_Subset DEF Bounded
<1> QED BY <1>1, <1>2 DEF Bounded

LEMMA NextBounded == Bounded /\ [Next]_vars => Bounded'
<1> SUFFICES ASSUME Bounded, [Next]_vars PROVE Bounded'
  OBVIOUS
<1>1. ASSUME NEW r \in Requests, create(r) PROVE Bounded'
  <2>1. PICK c, entry : evict_if_needed(Insert(cleanup(entries), c, entry))
    BY <1>1 DEF create
  <2>2. DOMAIN cleanup(entries) \in SUBSET Stored
    BY DEF cleanup, KeepOnly, Stored
  <2>3. IsFiniteSet(DOMAIN cleanup(entries))
    BY <2>2, FS_Subset DEF Bounded
  <2>4. IsFiniteSet(DOMAIN cleanup(entries) \cup {c})
    BY <2>3, FS_AddElement
  <2>5. DOMAIN Insert(cleanup(entries), c, entry) = DOMAIN cleanup(entries) \cup {c}
    BY DEF Insert
  <2> QED BY <2>1, <2>4, <2>5, EvictionBounds DEF Bounded
<1>2. ASSUME NEW r \in Requests, resume_cursor_search(r) PROVE Stored' \subseteq Stored
  BY <1>2 DEF resume_cursor_search, cleanup, KeepOnly, Insert, Stored
<1>3. ASSUME NEW r \in Requests,
             \/ \E m \in Mailboxes, c \in Cursors \cup {NoCursor} : select_mailbox_readonly(r, m, c)
             \/ start_new_search(r) \/ build_message_summaries(r)
             \/ update_offset(r) \/ delete(r)
      PROVE  Stored' \subseteq Stored
  BY <1>3 DEF select_mailbox_readonly, start_new_search, build_message_summaries,
     update_offset, delete, KeepOnly, Stored
<1>4. CASE Tick \/ (\E m \in Mailboxes : MailboxRecreated(m)) \/ UNCHANGED vars
  BY <1>4, FewerBounded DEF Tick, MailboxRecreated, vars, Stored
<1> QED BY <1>1, <1>2, <1>3, <1>4, FewerBounded DEF Next

\* However many searches there are, the store never holds more cursors than
\* cursor_max_entries.
THEOREM StoreStaysBounded == Spec => []StoreBounded
<1>1. Init => Bounded
  BY FS_EmptySet, NumbersAssumption DEF Init, Bounded, Stored
<1>2. Bounded => StoreBounded
  BY DEF Bounded, StoreBounded
<1> QED BY <1>1, <1>2, NextBounded, PTL DEF Spec

\* No cursor still in use goes before one that was used longer ago.
THEOREM LeastRecentlyUsedGoes == Spec => EvictsLeastRecentlyUsed
<1> DEFINE A == \A c \in Stored :
                  Created' # Created /\ c \notin DOMAIN entries' /\ entries[c].expires_at > now
                  => \A d \in DOMAIN entries' : entries[c].expires_at <= entries'[d].expires_at
<1>1. ASSUME Each, Next PROVE A
  <2> SUFFICES ASSUME NEW c \in Stored, Created' # Created, c \notin DOMAIN entries',
                      entries[c].expires_at > now, NEW d \in DOMAIN entries'
               PROVE  entries[c].expires_at <= entries'[d].expires_at
    OBVIOUS
  <2>1. PICK r \in Requests : create(r)
    <3>1. ASSUME NEW r \in Requests, build_message_summaries(r) PROVE Created' = Created
      BY <3>1 DEF build_message_summaries, Created
    <3> QED BY <1>1, <3>1 DEF Next, Tick, MailboxRecreated, select_mailbox_readonly,
            start_new_search, resume_cursor_search, update_offset, delete, Created
  <2>2. PICK new \in Cursors \ Created :
          \E entry : evict_if_needed(Insert(cleanup(entries), new, entry))
    BY <2>1 DEF create
  <2> PICK entry : evict_if_needed(Insert(cleanup(entries), new, entry))
    BY <2>2
  <2> DEFINE T == Insert(cleanup(entries), new, entry)
  <2>3. c # new /\ c \in DOMAIN cleanup(entries)
    BY <1>1, <2>2 DEF Each, Globals, cleanup, KeepOnly, Unexpired, Stored
  <2>4. c \in DOMAIN T /\ T[c] = entries[c]
    BY <2>3 DEF Insert, cleanup, KeepOnly
  <2> HIDE DEF T
  <2>5. PICK ids \in OldestGo(T) : entries' = KeepOnly(T, DOMAIN T \ ids)
    BY <2>2, <2>4 DEF evict_if_needed, T
  <2>6. c \in ids /\ d \in DOMAIN T \ ids /\ entries'[d] = T[d]
    BY <2>4, <2>5 DEF KeepOnly
  <2>7. T[c].expires_at <= T[d].expires_at
    BY <2>5, <2>6 DEF OldestGo
  <2> QED BY <2>4, <2>6, <2>7
<1>2. Inv /\ [Next]_vars => [A]_vars
  BY <1>1, EachIsInv
<1> QED BY <1>2, CursorInvariant, PTL DEF Spec, EvictsLeastRecentlyUsed

\* Whatever requests are doing with it, a cursor that went does not come back,
\* and only they renew one whose time is over.
THEOREM GoneStaysGone == Spec => GoneForGood
<1> DEFINE Stays(c) ==
      IF c \notin Stored THEN c \notin DOMAIN entries'
      ELSE entries[c].expires_at <= now =>
             \/ c \notin DOMAIN entries' \/ entries'[c] = entries[c]
             \/ \E r \in Requests : pc[r] = "store" /\ call[r].cursor = c
<1>1. ASSUME Each, Next, NEW c \in Created PROVE Stays(c)
  <2>1. CASE UNCHANGED entries
    BY <2>1 DEF Stored
  <2>alive. ASSUME NEW d \in DOMAIN cleanup(entries)
            PROVE  d \in Stored /\ ~(entries[d].expires_at <= now)
    <3>1. d \in Stored /\ entries[d].expires_at > now
      BY DEF cleanup, KeepOnly, Unexpired, Stored
    <3>2. entries[d].expires_at \in Nat /\ now \in Nat
      BY <1>1, <3>1 DEF Each, Globals, EntryOk, CursorEntry
    <3> QED BY <3>1, <3>2
  <2>2. ASSUME NEW r \in Requests, resume_cursor_search(r) PROVE Stays(c)
    <3>1. \A d \in DOMAIN cleanup(entries) : d \in Stored /\ cleanup(entries)[d] = entries[d]
      BY DEF cleanup, KeepOnly, Unexpired, Stored
    <3>2. \A d \in DOMAIN entries' \ {call[r].cursor} :
            d \in Stored /\ entries'[d] = entries[d]
      BY <2>2, <3>1 DEF resume_cursor_search, Insert, KeepOnly
    <3>3. call[r].cursor \in DOMAIN entries' => call[r].cursor \in DOMAIN cleanup(entries)
      BY <2>2 DEF resume_cursor_search, Insert, KeepOnly
    <3> QED BY <2>alive, <3>2, <3>3
  <2>3. ASSUME NEW r \in Requests, update_offset(r) PROVE Stays(c)
    BY <2>3 DEF update_offset, Stored
  <2>4. ASSUME NEW r \in Requests, delete(r) PROVE Stays(c)
    BY <2>4 DEF delete, KeepOnly, Stored
  <2>5. ASSUME NEW r \in Requests, create(r) PROVE Stays(c)
    <3>1. PICK new \in Cursors \ Created :
            \E entry : evict_if_needed(Insert(cleanup(entries), new, entry))
      BY <2>5 DEF create
    <3> PICK entry : evict_if_needed(Insert(cleanup(entries), new, entry))
      BY <3>1
    <3>2. c # new
      BY <3>1
    <3>3. c \in DOMAIN entries' => c \in DOMAIN Insert(cleanup(entries), new, entry)
      BY DEF evict_if_needed, KeepOnly
    <3>4. c \in DOMAIN entries' => c \in Stored /\ ~(entries[c].expires_at <= now)
      BY <2>alive, <3>2, <3>3 DEF Insert
    <3> QED BY <3>4
  <2> QED BY <1>1, <2>1, <2>2, <2>3, <2>4, <2>5
        DEF Next, Tick, MailboxRecreated, select_mailbox_readonly, start_new_search,
            build_message_summaries
<1>2. ASSUME vars' = vars, NEW c \in Created PROVE Stays(c)
  BY <1>2 DEF vars, Stored
<1>3. Inv /\ [Next]_vars => [\A c \in Created : Stays(c)]_vars
  BY <1>1, EachIsInv
<1> QED BY <1>3, CursorInvariant, PTL DEF Spec, GoneForGood

-----------------------------------------------------------------------------
(* A cursor that is used in time stays, unless it is ended or makes room.  *)

\* A step that creates no cursor; the entries it drops were ended or expired.
LEMMA KeptStays ==
  ASSUME Each, Tells, KeptWhileUsed, Created' = Created, now' \in Nat, now' >= now,
         usage' \in [Created -> Usage],
         \A d \in Created : usage'[d].last >= usage[d].last,
         \A d \in Created \ Stored' : usage'[d].last = usage[d].last,
         \A d \in Created : usage[d].ended => usage'[d].ended,
         \A d \in Stored \ Stored' : usage'[d].ended \/ now >= usage[d].last + Ttl
  PROVE  KeptWhileUsed'
<1> SUFFICES ASSUME NEW c \in Created \ Stored'
             PROVE  \/ usage'[c].ended
                    \/ now' >= usage'[c].last + Ttl
                    \/ \E others \in SUBSET (Created \ {c}) :
                         /\ Cardinality(others) = MaxEntries
                         /\ \A d \in others : usage'[d].last >= usage'[c].last
  BY DEF KeptWhileUsed
<1>1. /\ now \in Nat /\ Ttl \in Nat
      /\ \A d \in Created : usage[d].last \in Nat /\ usage'[d].last \in Nat
  BY NumbersAssumption DEF Each, Globals, Tells, Usage
<1>2. CASE c \in Stored
  BY <1>1, <1>2
<1>3. CASE c \notin Stored
  <2>1. \/ usage[c].ended
        \/ now >= usage[c].last + Ttl
        \/ \E others \in SUBSET (Created \ {c}) :
             /\ Cardinality(others) = MaxEntries
             /\ \A d \in others : usage[d].last >= usage[c].last
    BY <1>3 DEF KeptWhileUsed
  <2>2. ASSUME NEW others \in SUBSET (Created \ {c}),
               \A d \in others : usage[d].last >= usage[c].last
        PROVE  \A d \in others : usage'[d].last >= usage'[c].last
    BY <1>1, <2>2
  <2> QED BY <1>1, <2>1, <2>2
<1> QED BY <1>2, <1>3

\* The entries that cleanup removes were not used for Ttl.
LEMMA ExpiredUnused ==
  ASSUME Each, Tells, NEW d \in Stored, d \notin Unexpired(entries)
  PROVE  now >= usage[d].last + Ttl
<1>1. ~(entries[d].expires_at > now) /\ entries[d].expires_at = usage[d].last + Ttl
  BY DEF Unexpired, Stored, Tells, EntriesTellUsage
<1>2. now \in Nat /\ entries[d].expires_at \in Nat
  BY DEF Each, Globals, EntryOk, CursorEntry
<1> QED BY <1>1, <1>2

LEMMA CreateKept ==
  ASSUME Each, Tells, Bounded, KeptWhileUsed, NEW r \in Requests, create(r)
  PROVE  KeptWhileUsed'
<1>0. PICK new \in Cursors \ Created : \E T : Creates(new, T)
  BY CreateUses
<1> PICK T : Creates(new, T)
  BY <1>0
<1>1. /\ now' = now /\ Created' = Created \cup {new} /\ usage' \in [Created' -> Usage]
      /\ DOMAIN T = Unexpired(entries) \cup {new} /\ evict_if_needed(T)
      /\ usage'[new].last = now /\ T[new].expires_at = now + Ttl
      /\ \A d \in Created : usage'[d] = usage[d]
      /\ \A d \in Unexpired(entries) : T[d] = entries[d]
  BY DEF Creates
<1>2. /\ Stored \subseteq Created /\ now \in Nat /\ Ttl \in Nat
      /\ Unexpired(entries) \subseteq Stored
      /\ \A d \in Created' : usage'[d].last \in Nat
  BY <1>1, NumbersAssumption DEF Each, Globals, Unexpired, Stored, Usage
<1> SUFFICES ASSUME NEW c \in Created' \ Stored'
             PROVE  \/ usage'[c].ended
                    \/ now' >= usage'[c].last + Ttl
                    \/ \E others \in SUBSET (Created' \ {c}) :
                         /\ Cardinality(others) = MaxEntries
                         /\ \A d \in others : usage'[d].last >= usage'[c].last
  BY DEF KeptWhileUsed
<1>3. CASE c \in Created \ Stored
  <2>1. \/ usage[c].ended
        \/ now >= usage[c].last + Ttl
        \/ \E others \in SUBSET (Created \ {c}) :
             /\ Cardinality(others) = MaxEntries
             /\ \A d \in others : usage[d].last >= usage[c].last
    BY <1>3 DEF KeptWhileUsed
  <2> QED BY <1>1, <1>3, <2>1
<1>4. CASE c \in Stored /\ c \notin Unexpired(entries)
  BY <1>1, <1>2, <1>4, ExpiredUnused
<1>5. CASE c \in DOMAIN T
  <2>1. Overflows(T)
    BY <1>1, <1>5 DEF evict_if_needed, Stored
  <2>2. IsFiniteSet(DOMAIN T)
    <3>1. IsFiniteSet(Unexpired(entries))
      BY <1>2, FS_Subset DEF Bounded
    <3> QED BY <1>1, <3>1, FS_AddElement
  <2>3. Cardinality(Stored') = MaxEntries
    BY <1>1, <2>1, <2>2, EvictionBounds
  <2>4. \A d \in DOMAIN T : T[d].expires_at = usage'[d].last + Ttl
    BY <1>1, <1>2 DEF Tells, EntriesTellUsage
  <2>5. /\ Stored' \subseteq Created' \ {c}
        /\ \A d \in Stored' : d \in DOMAIN T /\ T[c].expires_at <= T[d].expires_at
    <3>1. PICK ids \in OldestGo(T) : entries' = KeepOnly(T, DOMAIN T \ ids)
      BY <1>1, <2>1 DEF evict_if_needed
    <3>2. Stored' = DOMAIN T \ ids /\ c \in ids
      BY <1>5, <3>1 DEF KeepOnly, Stored
    <3> QED BY <1>1, <1>2, <3>1, <3>2 DEF OldestGo
  <2>6. \A d \in Stored' : usage'[d].last >= usage'[c].last
    BY <1>2, <1>5, <2>4, <2>5
  <2> QED BY <2>3, <2>5, <2>6
<1> QED BY <1>1, <1>3, <1>4, <1>5

LEMMA NextKept == Each /\ Tells /\ Bounded /\ KeptWhileUsed /\ [Next]_vars => KeptWhileUsed'
<1> SUFFICES ASSUME Each, Tells, Bounded, KeptWhileUsed, [Next]_vars PROVE KeptWhileUsed'
  OBVIOUS
<1>1. /\ usage \in [Created -> Usage] /\ now \in Nat /\ Stored \subseteq Created
      /\ \A d \in Created : usage[d].last \in Nat /\ usage[d].last <= now
  BY DEF Tells, EntriesTellUsage, Each, Globals, Usage
<1>2. CASE \/ Tick \/ (\E m \in Mailboxes : MailboxRecreated(m)) \/ UNCHANGED vars
           \/ \E r \in Requests :
                \/ \E m \in Mailboxes, c \in Cursors \cup {NoCursor} : select_mailbox_readonly(r, m, c)
                \/ start_new_search(r) \/ build_message_summaries(r)
  BY <1>1, <1>2, OthersUse, KeptStays
<1>3. ASSUME NEW r \in Requests, resume_cursor_search(r) PROVE KeptWhileUsed'
  <2> DEFINE c == call[r].cursor
  <2>1. now' = now /\ Created' = Created /\ Stored' \subseteq Stored /\ c \in Created
    BY <1>3, ResumeUses DEF Created
  <2>2. usage' \in [Created -> Usage]
    BY <1>3, <2>1, ResumeTells DEF Tells
  <2>3. CASE usage' = usage /\ \A d \in Stored \ Stored' : d \notin Unexpired(entries)
    BY <1>1, <2>1, <2>2, <2>3, ExpiredUnused, KeptStays
  <2>4. CASE /\ usage' = [usage EXCEPT ![c].last = now] /\ c \in Stored
             /\ \A d \in Stored \ Stored' : d \notin Unexpired(entries) /\ d # c
    <3>1. /\ usage'[c].last = now /\ usage'[c].ended = usage[c].ended
          /\ \A d \in Created : d # c => usage'[d] = usage[d]
      BY <1>1, <2>1, <2>4 DEF Usage
    <3>2. c \in Stored'
      BY <2>4
    <3>3. \A d \in Created : usage'[d].last >= usage[d].last
      BY <1>1, <3>1
    <3> QED BY <1>1, <2>1, <2>2, <2>4, <3>1, <3>2, <3>3, ExpiredUnused, KeptStays
  <2>5. CASE /\ usage' = [usage EXCEPT ![c].ended = TRUE]
             /\ \A d \in Stored \ Stored' : d \notin Unexpired(entries) \/ d = c
    <3>1. /\ \A d \in Created : usage'[d].last = usage[d].last
          /\ \A d \in Created : usage[d].ended => usage'[d].ended
          /\ usage'[c].ended
      BY <1>1, <2>1, <2>5 DEF Usage
    <3> QED BY <1>1, <2>1, <2>2, <2>5, <3>1, ExpiredUnused, KeptStays
  <2> QED BY <1>3, <2>3, <2>4, <2>5, ResumeUses
<1>4. ASSUME NEW r \in Requests, update_offset(r) PROVE KeptWhileUsed'
  <2>1. /\ Tells' /\ now' = now /\ Created' = Created /\ Stored' = Stored
        /\ \A d \in Created \ Stored : usage'[d] = usage[d]
    BY <1>4, UpdateTells
  <2>2. usage' \in [Created -> Usage]
    BY <2>1 DEF Tells
  <2>3. /\ \A d \in Created : usage'[d].last >= usage[d].last
        /\ \A d \in Created : usage[d].ended => usage'[d].ended
    BY <1>1, <1>4 DEF update_offset, Usage
  <2> QED BY <1>1, <2>1, <2>2, <2>3, KeptStays
<1>5. ASSUME NEW r \in Requests, delete(r) PROVE KeptWhileUsed'
  <2>1. /\ Tells' /\ now' = now /\ Created' = Created /\ Stored' \subseteq Stored
        /\ \A d \in Created : usage'[d].last = usage[d].last
        /\ \A d \in Created : usage[d].ended => usage'[d].ended
        /\ \A d \in Stored \ Stored' : usage'[d].ended
    BY <1>5, DeleteTells
  <2> QED BY <1>1, <2>1, KeptStays DEF Tells
<1> QED BY <1>2, <1>3, <1>4, <1>5, CreateKept DEF Next

\* A cursor goes before its time only for as many as may be stored that were
\* used since, or because a request exhausted it or found its mailbox replaced.
THEOREM CursorsKeptWhileUsed == Spec => []KeptWhileUsed
<1>1. Init => Bounded /\ KeptWhileUsed
  BY FS_EmptySet, NumbersAssumption DEF Init, Bounded, KeptWhileUsed, Stored, Created
<1>2. Inv /\ Bounded /\ KeptWhileUsed /\ [Next]_vars => Bounded' /\ KeptWhileUsed'
  BY NextBounded, NextKept, EachIsInv
<1> QED BY <1>1, <1>2, CursorInvariant, PTL DEF Spec

-----------------------------------------------------------------------------
(* Clients that wait for each answer are handed no message twice.          *)

\* A request that ends or goes on with its cursor keeps requests apart.
LEMMA StaysAlone ==
  ASSUME Each, OneAtATime, NEW r \in Requests,
         NEW p \in {"idle", "snapshot", "page", "store"}, NEW f,
         pc' = [pc EXCEPT ![r] = p], call' = [call EXCEPT ![r] = f],
         p = "idle" \/ (pc[r] # "idle" /\ f.cursor = call[r].cursor)
  PROVE  OneAtATime'
<1>1. /\ pc'[r] = p /\ call'[r] = f
      /\ \A q \in Requests : q # r => pc'[q] = pc[q] /\ call'[q] = call[q]
  BY DEF Each, Globals
<1>2. \A q \in Requests : pc'[q] # "idle" => pc[q] # "idle" /\ call'[q].cursor = call[q].cursor
  BY <1>1
<1> QED BY <1>2 DEF OneAtATime

\* A request that has handed out nothing leaves things as they are, when the
\* places the cursors resume stay the same.
LEMMA NothingHanded ==
  ASSUME Each, Serial, NEW r \in Requests, pc[r] # "store", Finish(r), history' = history,
         Stored' \subseteq Stored, \A c \in Stored' : entries'[c].offset = entries[c].offset
  PROVE  Serial'
<1>1. /\ pc' = [pc EXCEPT ![r] = "idle"] /\ call' = [call EXCEPT ![r] = Idle]
      /\ pc'[r] = "idle"
      /\ \A q \in Requests : q # r => pc'[q] = pc[q] /\ call'[q] = call[q]
  BY DEF Finish, Each, Globals
<1>2. OneAtATime'
  BY <1>1, StaysAlone DEF Serial
<1>3. \A q \in Requests : pc'[q] # "idle" => pc'[q] = pc[q] /\ call'[q] = call[q]
  BY <1>1
<1>4. ASSUME NEW c \in Stored', \A q \in Requests : pc'[q] = "store" => call'[q].cursor # c
      PROVE  history'[c].handed = 1..entries'[c].offset
  <2>1. \A q \in Requests : pc[q] = "store" => call[q].cursor # c
    BY <1>1, <1>4
  <2> QED BY <2>1 DEF Serial, HandedExactly
<1>5. HandedExactly'
  BY <1>3, <1>4 DEF Serial, HandedExactly
<1> QED BY <1>2, <1>5 DEF Serial

LEMMA SelectSerial ==
  ASSUME Each, Serial, SerialClient, NEW r \in Requests, NEW m \in Mailboxes,
         NEW c \in Cursors \cup {NoCursor}, select_mailbox_readonly(r, m, c)
  PROVE  Serial'
<1>1. /\ pc[r] = "idle" /\ pc'[r] = "snapshot" /\ call'[r].cursor = c
      /\ \A q \in Requests : q # r => pc'[q] = pc[q] /\ call'[q] = call[q]
      /\ UNCHANGED <<entries, history>> /\ Stored' = Stored
  BY DEF select_mailbox_readonly, Each, Globals, Stored
<1>2. c # NoCursor => \A q \in Requests : pc[q] # "idle" => call[q].cursor # c
  BY DEF select_mailbox_readonly, Busy
<1>3. OneAtATime'
  BY <1>1, <1>2 DEF Serial, OneAtATime
<1>4. \A q \in Requests : pc'[q] \in {"page", "store"} <=> pc[q] \in {"page", "store"}
  BY <1>1
<1>5. \A q \in Requests : pc[q] \in {"page", "store"} => pc'[q] = pc[q] /\ call'[q] = call[q]
  BY <1>1
<1>6. HandedExactly'
  BY <1>1, <1>4, <1>5 DEF Serial, HandedExactly
<1> QED BY <1>3, <1>6 DEF Serial

LEMMA NewSearchSerial ==
  ASSUME Each, Serial, NEW r \in Requests, start_new_search(r)
  PROVE  Serial'
<1>1. pc[r] = "snapshot" /\ call[r].cursor = NoCursor /\ UNCHANGED <<entries, history>>
      /\ Stored' = Stored
  BY DEF start_new_search, Stored
<1>2. CASE Finish(r)
  BY <1>1, <1>2, NothingHanded
<1>3. CASE ~Finish(r)
  <2>1. PICK total \in 0..MaxMatches :
          call' = [call EXCEPT ![r].total = total] /\ pc' = [pc EXCEPT ![r] = "page"]
    BY <1>3 DEF start_new_search
  <2> DEFINE f == [call[r] EXCEPT !.total = total]
  <2>2. call' = [call EXCEPT ![r] = f] /\ f.cursor = NoCursor
    BY <1>1, <2>1 DEF Each, CallOk, Call
  <2> HIDE DEF f
  <2>3. OneAtATime'
    BY <1>1, <2>1, <2>2, StaysAlone DEF Serial
  <2>4. /\ pc'[r] = "page" /\ call'[r].cursor = NoCursor
        /\ \A q \in Requests : q # r => pc'[q] = pc[q] /\ call'[q] = call[q]
    BY <2>1, <2>2 DEF Each, Globals
  <2>5. \A q \in Requests : call'[q].cursor # NoCursor => pc'[q] = pc[q] /\ call'[q] = call[q]
    BY <2>4
  <2>6. \A q \in Requests : pc[q] = "store" => pc'[q] = "store" /\ call'[q] = call[q]
    BY <1>1, <2>4
  <2>7. HandedExactly'
    BY <1>1, <2>5, <2>6 DEF Serial, HandedExactly
  <2> QED BY <2>3, <2>7 DEF Serial
<1> QED BY <1>2, <1>3

LEMMA ResumeSerial ==
  ASSUME Each, Serial, NEW r \in Requests, resume_cursor_search(r)
  PROVE  Serial'
<1> DEFINE c == call[r].cursor
           alive == cleanup(entries)
           entry == Refreshed(alive[c])
           f == [call[r] EXCEPT !.total = entry.total, !.offset = entry.offset]
<1>1. /\ DOMAIN alive \subseteq Stored
      /\ \A d \in DOMAIN alive : alive[d] = entries[d] /\ entries[d] \in CursorEntry
  BY DEF cleanup, KeepOnly, Stored, Each, EntryOk
<1>2. history' = history /\ c # NoCursor /\ pc[r] = "snapshot" /\ call[r] \in Call
  BY DEF resume_cursor_search, Each, CallOk
<1>3. CASE c \notin DOMAIN alive
  <2>1. entries' = alive /\ Finish(r)
    BY <1>3 DEF resume_cursor_search
  <2> HIDE DEF alive
  <2> QED BY <1>1, <1>2, <2>1, NothingHanded DEF Stored
<1>4. CASE c \in DOMAIN alive
  <2>1. entry.offset = entries[c].offset
    BY <1>1, <1>4 DEF CursorEntry, Refreshed
  <2>2. \/ entries' = Insert(alive, c, entry) /\ Finish(r)
        \/ entries' = KeepOnly(alive, DOMAIN alive \ {c}) /\ Finish(r)
        \/ /\ entries' = Insert(alive, c, entry)
           /\ call' = [call EXCEPT ![r].total = entry.total, ![r].offset = entry.offset]
           /\ pc' = [pc EXCEPT ![r] = "page"]
    BY <1>4 DEF resume_cursor_search
  <2>3. call' = [call EXCEPT ![r].total = entry.total, ![r].offset = entry.offset]
        => call' = [call EXCEPT ![r] = f]
    OBVIOUS
  <2>4. f.cursor = c /\ f.offset = entries[c].offset
    <3> HIDE DEF entry
    <3> QED BY <1>2, <2>1 DEF Call
  <2> HIDE DEF alive, entry, f
  <2>5. Stored' \subseteq Stored /\ \A d \in Stored' : entries'[d].offset = entries[d].offset
    BY <1>1, <1>4, <2>1, <2>2 DEF Insert, KeepOnly, Stored
  <2>6. CASE Finish(r)
    BY <1>2, <2>5, <2>6, NothingHanded
  <2>7. CASE call' = [call EXCEPT ![r] = f] /\ pc' = [pc EXCEPT ![r] = "page"]
    <3>1. OneAtATime'
      BY <1>2, <2>4, <2>7, StaysAlone DEF Serial
    <3>2. /\ pc'[r] = "page" /\ call'[r] = f
          /\ \A q \in Requests : q # r => pc'[q] = pc[q] /\ call'[q] = call[q]
      BY <2>7 DEF Each, Globals
    <3>3. \A q \in Requests : pc[q] = "store" => pc'[q] = "store" /\ call'[q] = call[q]
      BY <1>2, <3>2
    <3>4. ASSUME NEW d \in Stored', \A q \in Requests : pc'[q] = "store" => call'[q].cursor # d
          PROVE  history'[d].handed = 1..entries'[d].offset
      BY <1>2, <2>5, <3>3, <3>4 DEF Serial, HandedExactly
    <3>5. history[c].handed = 1..entries[c].offset
      <4>1. \A q \in Requests : pc[q] = "store" => call[q].cursor # c
        BY <1>2 DEF Serial, OneAtATime
      <4> QED BY <1>1, <1>4, <4>1 DEF Serial, HandedExactly
    <3>6. ASSUME NEW q \in Requests, call'[q].cursor # NoCursor
          PROVE  /\ pc'[q] = "page" => history'[call'[q].cursor].handed = 1..call'[q].offset
                 /\ pc'[q] = "store" =>
                      history'[call'[q].cursor].handed = 1..(call'[q].offset + call'[q].len)
      <4>1. CASE q = r
        BY <1>2, <2>4, <3>2, <3>5, <4>1
      <4>2. CASE q # r
        BY <1>2, <3>2, <3>6, <4>2 DEF Serial, HandedExactly
      <4> QED BY <4>1, <4>2
    <3>7. HandedExactly'
      BY <3>4, <3>6 DEF HandedExactly
    <3> QED BY <3>1, <3>7 DEF Serial
  <2> QED BY <2>2, <2>3, <2>6, <2>7
<1> QED BY <1>3, <1>4

LEMMA BuildSerial ==
  ASSUME Each, Serial, NEW r \in Requests, build_message_summaries(r)
  PROVE  Serial'
<1> DEFINE c == call[r].cursor
<1>1. /\ CallOk("page", call[r], history) /\ call[r] \in Call /\ entries' = entries
      /\ Stored' = Stored /\ pc[r] = "page"
  BY DEF build_message_summaries, Each, CallOk, Stored
<1>2. CASE call[r].offset > call[r].total
  BY <1>1, <1>2, NothingHanded DEF build_message_summaries
<1>3. CASE ~(call[r].offset > call[r].total)
  <2>1. PICK limit \in Limits :
          LET len == PageLength(call[r].total, call[r].offset, limit) IN
          /\ call' = [call EXCEPT ![r].len = len]
          /\ pc' = [pc EXCEPT ![r] = "store"]
          /\ history' = IF c = NoCursor THEN history
               ELSE [history EXCEPT
                       ![c].handed = @ \cup ((call[r].offset + 1)..(call[r].offset + len)),
                       ![c].resumed = @ \cup {call[r].offset}]
    BY <1>3 DEF build_message_summaries
  <2> DEFINE len == PageLength(call[r].total, call[r].offset, limit)
             f == [call[r] EXCEPT !.len = len]
             page == (call[r].offset + 1)..(call[r].offset + len)
  <2>2. call[r].offset \in Nat /\ len \in Nat
    BY <1>1, <1>3, LimitAssumption, NumbersAssumption DEF Call, CallOk, PageLength
  <2>3. call' = [call EXCEPT ![r] = f] /\ f.cursor = c /\ f.offset = call[r].offset /\ f.len = len
    BY <1>1, <2>1 DEF Call
  <2>4. /\ \A d \in Created : d # c => history'[d] = history[d]
        /\ c # NoCursor => history'[c].handed = history[c].handed \cup page
    <3>1. CASE c = NoCursor
      BY <2>1, <3>1
    <3>2. CASE c # NoCursor
      <4>1. c \in Created /\ history[c] \in History
        BY <1>1, <3>2 DEF CallOk, Each, Globals, Created
      <4> DEFINE h == [history[c] EXCEPT !.handed = @ \cup page, !.resumed = @ \cup {call[r].offset}]
      <4>2. h.handed = history[c].handed \cup page
        BY <4>1 DEF History
      <4>3. history' = [history EXCEPT ![c] = h]
        BY <2>1, <3>2
      <4> HIDE DEF h, page
      <4> QED BY <4>1, <4>2, <4>3 DEF Each, Globals, Created
    <3> QED BY <3>1, <3>2
  <2>5. c # NoCursor => history'[c].handed = 1..(call[r].offset + len)
    <3>1. 1..call[r].offset \cup page = 1..(call[r].offset + len)
      BY <2>2
    <3> HIDE DEF page, len
    <3> QED BY <1>1, <2>4, <3>1 DEF Serial, HandedExactly
  <2>6. OneAtATime'
    <3> HIDE DEF f
    <3> QED BY <1>1, <2>1, <2>3, StaysAlone DEF Serial
  <2> HIDE DEF len, page, f
  <2>7. /\ pc'[r] = "store" /\ call'[r] = f
        /\ \A q \in Requests : q # r => pc'[q] = pc[q] /\ call'[q] = call[q]
    BY <2>1, <2>3 DEF Each, Globals
  <2>8. ASSUME NEW d \in Stored', \A q \in Requests : pc'[q] = "store" => call'[q].cursor # d
        PROVE  history'[d].handed = 1..entries'[d].offset
    <3>1. d # c /\ d \in Created
      BY <1>1, <2>3, <2>7, <2>8 DEF Each, Globals
    <3>2. \A q \in Requests : pc[q] = "store" => call[q].cursor # d
      BY <1>1, <2>7, <2>8
    <3> QED BY <1>1, <2>4, <3>1, <3>2 DEF Serial, HandedExactly
  <2>9. ASSUME NEW q \in Requests, call'[q].cursor # NoCursor
        PROVE  /\ pc'[q] = "page" => history'[call'[q].cursor].handed = 1..call'[q].offset
               /\ pc'[q] = "store" =>
                    history'[call'[q].cursor].handed = 1..(call'[q].offset + call'[q].len)
    <3>1. CASE q = r
      BY <2>3, <2>5, <2>7, <2>9, <3>1
    <3>2. CASE q # r
      <4>1. pc'[q] = pc[q] /\ call'[q] = call[q] /\ call[q].cursor \in Created
        BY <2>7, <2>9, <3>2 DEF Each, CallOk, Created
      <4>2. pc[q] \in {"page", "store"} => call[q].cursor # c
        BY <1>1, <2>9, <3>2, <4>1 DEF Serial, OneAtATime
      <4> QED BY <2>4, <2>9, <4>1, <4>2 DEF Serial, HandedExactly
    <3> QED BY <3>1, <3>2
  <2>10. HandedExactly'
    BY <2>8, <2>9 DEF HandedExactly
  <2> QED BY <2>6, <2>10 DEF Serial
<1> QED BY <1>2, <1>3

\* The tail of a search: it was alone with its cursor, and the cursor resumes
\* where it stopped, or is gone.
LEMMA TailSerial ==
  ASSUME Each, Serial, NEW r \in Requests, pc[r] = "store", Finish(r), history' = history,
         Stored' \subseteq Stored,
         \A c \in Stored' : \/ c # call[r].cursor /\ entries'[c] = entries[c]
                            \/ c = call[r].cursor /\ entries'[c].offset = NextOffset(call[r])
  PROVE  Serial'
<1>1. /\ pc' = [pc EXCEPT ![r] = "idle"] /\ call' = [call EXCEPT ![r] = Idle]
      /\ pc'[r] = "idle"
      /\ \A q \in Requests : q # r => pc'[q] = pc[q] /\ call'[q] = call[q]
  BY DEF Finish, Each, Globals
<1>2. OneAtATime'
  BY <1>1, StaysAlone DEF Serial
<1>3. \A q \in Requests : pc'[q] # "idle" => pc'[q] = pc[q] /\ call'[q] = call[q]
  BY <1>1
<1>4. ASSUME NEW c \in Stored', \A q \in Requests : pc'[q] = "store" => call'[q].cursor # c
      PROVE  history'[c].handed = 1..entries'[c].offset
  <2>1. CASE c = call[r].cursor
    <3>1. c # NoCursor
      BY CursorAssumption DEF Each, Globals
    <3> QED BY <2>1, <3>1 DEF Serial, HandedExactly, NextOffset
  <2>2. CASE c # call[r].cursor
    <3>1. \A q \in Requests : pc[q] = "store" => call[q].cursor # c
      BY <1>1, <1>4, <2>2
    <3> QED BY <2>2, <3>1 DEF Serial, HandedExactly
  <2> QED BY <2>1, <2>2
<1>5. HandedExactly'
  BY <1>3, <1>4 DEF Serial, HandedExactly
<1> QED BY <1>2, <1>5 DEF Serial

LEMMA UpdateSerial ==
  ASSUME Each, Serial, NEW r \in Requests, update_offset(r)
  PROVE  Serial'
<1> DEFINE c == call[r].cursor
<1>1. pc[r] = "store" /\ Finish(r) /\ history' = history
  BY DEF update_offset
<1>2. Stored' = Stored
  BY DEF update_offset, Stored
<1>3. ASSUME NEW d \in Stored
      PROVE  \/ d # c /\ entries'[d] = entries[d]
             \/ d = c /\ entries'[d].offset = NextOffset(call[r])
  <2>1. CASE c \notin Stored
    BY <2>1 DEF update_offset
  <2>2. CASE c \in Stored
    <3> DEFINE e == [Refreshed(entries[c]) EXCEPT !.offset = NextOffset(call[r])]
    <3>1. entries' = [entries EXCEPT ![c] = e]
      BY <2>2 DEF update_offset
    <3>2. e.offset = NextOffset(call[r])
      BY <2>2 DEF Each, EntryOk, CursorEntry, Refreshed
    <3> HIDE DEF e
    <3> QED BY <2>2, <3>1, <3>2 DEF Stored
  <2> QED BY <2>1, <2>2
<1> QED BY <1>1, <1>2, <1>3, TailSerial

LEMMA DeleteSerial ==
  ASSUME Each, Serial, NEW r \in Requests, delete(r)
  PROVE  Serial'
<1>1. pc[r] = "store" /\ Finish(r) /\ history' = history
  BY DEF delete
<1>2. /\ Stored' \subseteq Stored
      /\ \A c \in Stored' : c # call[r].cursor /\ entries'[c] = entries[c]
  BY DEF delete, KeepOnly, Stored
<1> QED BY <1>1, <1>2, TailSerial

LEMMA CreateSerial ==
  ASSUME Each, Serial, NEW r \in Requests, create(r)
  PROVE  Serial'
<1> DEFINE f == call[r]
           entry == [mailbox |-> f.mailbox, uidvalidity |-> f.uidvalidity, total |-> f.total,
                     offset |-> NextOffset(f), expires_at |-> now + Ttl]
           h == [mailbox |-> f.mailbox, uidvalidity |-> f.uidvalidity, total |-> f.total,
                 handed |-> Page(f), resumed |-> {}]
           alive == cleanup(entries)
<1>1. CallOk("store", f, history) /\ f \in Call /\ pc[r] = "store" /\ f.cursor = NoCursor /\ Finish(r)
  BY DEF create, Each, CallOk
<1>2. PICK c \in Cursors \ Created : /\ evict_if_needed(Insert(alive, c, entry))
                                     /\ history' = Insert(history, c, h)
  BY DEF create
<1>3. h.handed = 1..entry.offset
  BY <1>1 DEF CallOk, Call, Page, NextOffset
<1>4. /\ DOMAIN alive \subseteq Stored
      /\ \A d \in DOMAIN alive : alive[d] = entries[d]
  BY DEF cleanup, KeepOnly, Stored
<1> HIDE DEF entry, h, alive
<1>5. /\ Stored' \subseteq Stored \cup {c}
      /\ \A d \in Stored' : entries'[d] = IF d = c THEN entry ELSE entries[d]
  <2> DEFINE T == Insert(alive, c, entry)
  <2>1. DOMAIN T = DOMAIN alive \cup {c} /\ \A d \in DOMAIN T : T[d] = IF d = c THEN entry ELSE entries[d]
    BY <1>4 DEF Insert
  <2>2. evict_if_needed(T)
    BY <1>2
  <2> HIDE DEF T
  <2>3. DOMAIN entries' \subseteq DOMAIN T /\ \A d \in DOMAIN entries' : entries'[d] = T[d]
    BY <2>2 DEF evict_if_needed, KeepOnly
  <2> QED BY <1>4, <2>1, <2>3 DEF Stored
<1>6. history'[c] = h /\ \A d \in Created : d # c /\ history'[d] = history[d]
  BY <1>2 DEF Insert, Created
<1>7. /\ pc' = [pc EXCEPT ![r] = "idle"] /\ call' = [call EXCEPT ![r] = Idle]
      /\ pc'[r] = "idle"
      /\ \A q \in Requests : q # r => pc'[q] = pc[q] /\ call'[q] = call[q]
  BY <1>1 DEF Finish, Each, Globals
<1>8. OneAtATime'
  BY <1>7, StaysAlone DEF Serial
<1>9. ASSUME NEW d \in Stored', \A q \in Requests : pc'[q] = "store" => call'[q].cursor # d
      PROVE  history'[d].handed = 1..entries'[d].offset
  <2>1. CASE d = c
    BY <1>3, <1>5, <1>6, <2>1
  <2>2. CASE d # c
    <3>1. d \in Stored /\ d \in Created /\ d # NoCursor
      BY <1>5, <2>2, CursorAssumption DEF Each, Globals
    <3>2. \A q \in Requests : pc[q] = "store" => call[q].cursor # d
      BY <1>1, <1>7, <1>9, <3>1
    <3> QED BY <1>5, <1>6, <2>2, <3>1, <3>2 DEF Serial, HandedExactly
  <2> QED BY <2>1, <2>2
<1>10. ASSUME NEW q \in Requests, call'[q].cursor # NoCursor
       PROVE  /\ pc'[q] = "page" => history'[call'[q].cursor].handed = 1..call'[q].offset
              /\ pc'[q] = "store" =>
                   history'[call'[q].cursor].handed = 1..(call'[q].offset + call'[q].len)
  <2>1. CASE q = r
    BY <1>7, <2>1
  <2>2. CASE q # r
    <3>1. pc'[q] = pc[q] /\ call'[q] = call[q] /\ call[q].cursor \in Created
      BY <1>7, <1>10, <2>2 DEF Each, CallOk, Created
    <3> QED BY <1>6, <1>10, <3>1 DEF Serial, HandedExactly
  <2> QED BY <2>1, <2>2
<1>11. HandedExactly'
  BY <1>9, <1>10 DEF HandedExactly
<1> QED BY <1>8, <1>11 DEF Serial

LEMMA NextSerial == SerialClient /\ Each /\ Serial /\ [Next]_vars => Serial'
<1> SUFFICES ASSUME SerialClient, Each, Serial, [Next]_vars PROVE Serial'
  OBVIOUS
<1>1. CASE Tick \/ (\E m \in Mailboxes : MailboxRecreated(m)) \/ UNCHANGED vars
  <2>1. UNCHANGED <<entries, pc, call, history>> /\ Stored' = Stored
    BY <1>1 DEF Tick, MailboxRecreated, vars, Stored
  <2> QED BY <2>1 DEF Serial, OneAtATime, HandedExactly
<1>2. ASSUME NEW r \in Requests, NEW m \in Mailboxes, NEW c \in Cursors \cup {NoCursor},
             select_mailbox_readonly(r, m, c)
      PROVE  Serial'
  BY <1>2, SelectSerial
<1>3. ASSUME NEW r \in Requests,
             \/ start_new_search(r) \/ resume_cursor_search(r) \/ build_message_summaries(r)
             \/ create(r) \/ update_offset(r) \/ delete(r)
      PROVE  Serial'
  BY <1>3, NewSearchSerial, ResumeSerial, BuildSerial, CreateSerial, UpdateSerial, DeleteSerial
<1> QED BY <1>1, <1>2, <1>3 DEF Next

\* When clients wait for the answer before they use a cursor again, nothing is
\* handed out that was handed out under the same cursor before.
THEOREM WaitingClientsSeeNoRepeats == SerialClient => (Spec => NoRepeats)
<1> SUFFICES ASSUME SerialClient PROVE Spec => NoRepeats
  OBVIOUS
<1> DEFINE A == \A r \in Requests :
                  LET c == call[r].cursor IN
                  pc[r] = "page" /\ pc'[r] = "store" /\ c # NoCursor
                  => Page(call'[r]) \cap history[c].handed = {}
<1>1. ASSUME Each, Serial, Next PROVE A
  <2> SUFFICES ASSUME NEW r \in Requests, pc[r] = "page", pc'[r] = "store",
                      call[r].cursor # NoCursor
               PROVE  Page(call'[r]) \cap history[call[r].cursor].handed = {}
    OBVIOUS
  <2>1. pc \in [Requests -> {"idle", "snapshot", "page", "store"}] /\ call[r] \in Call
        /\ call = [q \in Requests |-> call[q]]
    BY <1>1 DEF Each, Globals, CallOk
  <2>2. build_message_summaries(r)
    <3>1. ASSUME NEW q \in Requests,
                 \/ \E m \in Mailboxes, c \in Cursors \cup {NoCursor} : select_mailbox_readonly(q, m, c)
                 \/ start_new_search(q) \/ resume_cursor_search(q)
          PROVE  pc[q] # "page" /\ \E p : pc' = [pc EXCEPT ![q] = p]
      BY <3>1 DEF select_mailbox_readonly, start_new_search, resume_cursor_search, Finish
    <3>2. ASSUME NEW q \in Requests, create(q) \/ update_offset(q) \/ delete(q)
          PROVE  pc' = [pc EXCEPT ![q] = "idle"]
      BY <3>2 DEF create, update_offset, delete, Finish
    <3>3. ASSUME NEW q \in Requests, build_message_summaries(q)
          PROVE  \E p : pc' = [pc EXCEPT ![q] = p]
      BY <3>3 DEF build_message_summaries, Finish
    <3>4. ~Tick /\ \A m \in Mailboxes : ~MailboxRecreated(m)
      BY DEF Tick, MailboxRecreated
    <3> QED BY <1>1, <2>1, <3>1, <3>2, <3>3, <3>4 DEF Next
  <2>3. PICK len : call' = [call EXCEPT ![r].len = len]
    BY <2>1, <2>2 DEF build_message_summaries, Finish
  <2>4. call'[r].offset = call[r].offset /\ call[r].offset \in Nat
    BY <2>1, <2>3, NumbersAssumption DEF Call
  <2>5. history[call[r].cursor].handed = 1..call[r].offset
    BY <1>1 DEF Serial, HandedExactly
  <2> QED BY <2>4, <2>5 DEF Page
<1>2. Init => Serial
  <2> SUFFICES ASSUME Init PROVE Serial
    OBVIOUS
  <2>1. Stored = {} /\ \A r \in Requests : pc[r] = "idle" /\ call[r].cursor = NoCursor
    BY DEF Init, Stored, Idle
  <2> QED BY <2>1 DEF Serial, OneAtATime, HandedExactly
<1>3. Inv /\ Serial /\ [Next]_vars => Serial' /\ [A]_vars
  BY <1>1, EachIsInv, NextSerial
<1> QED BY <1>2, <1>3, CursorInvariant, PTL DEF Spec, NoRepeats

=============================================================================
