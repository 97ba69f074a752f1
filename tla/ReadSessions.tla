----------------------------- MODULE ReadSessions -----------------------------
(***************************************************************************)
(* The authenticated IMAP sessions of the read tools: the IdleSessionCache *)
(* behind its mutex, the loop that checks a session out of it or connects, *)
(* the commands each of the four read tools sends on its session, and the  *)
(* release that puts the session back or logs it out.                      *)
(*                                                                         *)
(* A command that is given up at its time-out leaves its answer in the     *)
(* stream, where the next command on that session would read it; the       *)
(* handlers decide by the outcome of their commands whether the session    *)
(* may be kept.  The server may drop any connection at any time.           *)
(***************************************************************************)
EXTENDS Naturals, Sequences, FiniteSets

CONSTANTS
  Accounts,       \* configured accounts
  Sessions,       \* names for sessions, used again once closed
  NoSession,
  Requests,       \* slots for concurrent calls of read tools
  Tools,          \* the tools called, among the four of ReadTool
  MaxPerAccount,  \* config.read_session_cache_max_per_account
  Ttl,            \* config.read_session_cache_ttl_seconds
  MaxNow,         \* bound on the clock
  MaxFaults       \* bound on connections dropped and commands timed out

ReadTool == {"list_mailboxes", "search_messages", "get_message", "get_message_raw"}

ASSUME SessionAssumption == NoSession \notin Sessions
ASSUME ToolAssumption == Tools \subseteq ReadTool
ASSUME NumberAssumption == {MaxPerAccount, Ttl, MaxNow, MaxFaults} \subseteq Nat

VARIABLES
  now,       \* Instant::now()
  faults,    \* how many faults there were
  sessions,  \* each session's account and the condition of its connection
  cache,     \* sessions_by_account; an empty bucket is a missing one
  pc,        \* where each request is
  call       \* the account, tool and session of each request

vars == <<now, faults, sessions, cache, pc, call>>

\* "unread": the answer to an abandoned command is still to come;
\* "dropped": the server has closed the connection.
Condition == {"sound", "unread", "dropped", "closed"}
Session == [account: Accounts, condition: Condition]
CachedSession == [session: Sessions, last_used_at: Nat]

\* Where a request awaits the server's answer to a command of its handler.
Commands == {"list_all_mailboxes", "select_mailbox_readonly", "uid_search",
             "fetch_headers_and_flags", "fetch_raw_message", "fetch_flags",
             "fetch_message_size", "fetch_raw_message_range", "existence_query"}
ProgramCounter ==
  {"idle", "checkout", "noop", "discard", "connect", "put_back", "logout"} \cup Commands

Goto(r, label) == pc' = [pc EXCEPT ![r] = label]

-----------------------------------------------------------------------------
(* IdleSessionCache, as functions on the bucket of one account.            *)

\* Faulty: the comparison admits an entry at the end of its time.
FreshThrough(cached) == now - cached.last_used_at <= Ttl

Fresh(cached) == now - cached.last_used_at < Ttl

\* retain keeps the fresh ones in their order; kept[n] is what it keeps of
\* the first n.
prune_account(bucket) ==
  LET kept[n \in 0..Len(bucket)] ==
        IF n = 0 THEN <<>>
        ELSE IF Fresh(bucket[n]) THEN Append(kept[n - 1], bucket[n])
        ELSE kept[n - 1]
  IN kept[Len(bucket)]

\* pop takes the end of the Vec.
Popped(bucket) == Len(bucket)

\* Faulty: the session taken out is left in the bucket.
StaysIn(bucket, i) == bucket

Without(bucket, i) == SubSeq(bucket, 1, i - 1) \o SubSeq(bucket, i + 1, Len(bucket))

\* Faulty: a bucket may grow to one more than its capacity.
NoRoomBeyond(bucket) == Len(bucket) > MaxPerAccount

NoRoom(bucket) == Len(bucket) >= MaxPerAccount

NamesIn(bucket) == {bucket[i].session : i \in DOMAIN bucket}

\* Sessions that leave a bucket without having been taken out are dropped,
\* which closes their connections.
Drop(gone) ==
  [s \in Sessions |->
     IF s \in gone THEN [sessions[s] EXCEPT !.condition = "closed"] ELSE sessions[s]]

SetCondition(s, condition) == sessions' = [sessions EXCEPT ![s].condition = condition]

-----------------------------------------------------------------------------
(* The environment.                                                        *)

Closed == {s \in Sessions : sessions[s].condition = "closed"}

Init ==
  /\ now = 0
  /\ faults = 0
  /\ \E a \in Accounts : sessions = [s \in Sessions |-> [account |-> a, condition |-> "closed"]]
  /\ cache = [a \in Accounts |-> <<>>]
  /\ pc = [r \in Requests |-> "idle"]
  /\ \E a \in Accounts, t \in Tools :
       call = [r \in Requests |-> [account |-> a, tool |-> t, session |-> NoSession]]

Tick ==
  /\ now < MaxNow
  /\ now' = now + 1
  /\ UNCHANGED <<faults, sessions, cache, pc, call>>

\* The server closes a connection, or the network loses it.
ConnectionDropped(s) ==
  /\ faults < MaxFaults
  /\ sessions[s].condition \in {"sound", "unread"}
  /\ faults' = faults + 1
  /\ SetCondition(s, "dropped")
  /\ UNCHANGED <<now, cache, pc, call>>

-----------------------------------------------------------------------------
(* checkout_read_session.                                                  *)

\* A read tool is called, and its input is valid.
Call(r, a, t) ==
  /\ pc[r] = "idle"
  /\ call' = [call EXCEPT ![r] = [account |-> a, tool |-> t, session |-> NoSession]]
  /\ Goto(r, "checkout")
  /\ UNCHANGED <<now, faults, sessions, cache>>

checkout(r) ==
  LET a       == call[r].account
      bucket  == prune_account(cache[a])
      expired == NamesIn(cache[a]) \ NamesIn(bucket)
  IN
  /\ pc[r] = "checkout"
  /\ IF MaxPerAccount = 0 THEN Goto(r, "connect") /\ UNCHANGED <<sessions, cache, call>>
     ELSE /\ sessions' = Drop(expired)
          /\ IF bucket = <<>> THEN
               /\ cache' = [cache EXCEPT ![a] = <<>>]
               /\ Goto(r, "connect")
               /\ UNCHANGED call
             ELSE
               /\ cache' = [cache EXCEPT ![a] = Without(bucket, Popped(bucket))]
               /\ call' = [call EXCEPT ![r].session = bucket[Popped(bucket)].session]
               /\ Goto(r, "noop")
  /\ UNCHANGED <<now, faults>>

\* The first command of a handler on the session it was given.
FirstCommand(r) ==
  IF call[r].tool = "list_mailboxes" THEN "list_all_mailboxes" ELSE "select_mailbox_readonly"

\* A command succeeds, is refused or finds the connection gone, or is given
\* up.  A server never refuses NOOP.
Answers(r) == sessions[call[r].session].condition \notin {"dropped", "closed"}

Succeeds(r) == Answers(r) /\ UNCHANGED <<sessions, faults>>

TimesOut(r) ==
  /\ Answers(r) /\ faults < MaxFaults
  /\ faults' = faults + 1
  /\ SetCondition(call[r].session, "unread")

Fails(r) == TimesOut(r) \/ UNCHANGED <<sessions, faults>>

noop_session(r) ==
  /\ pc[r] = "noop"
  /\ \/ Succeeds(r) /\ Goto(r, FirstCommand(r))
     \/ (TimesOut(r) \/ (~Answers(r) /\ UNCHANGED <<sessions, faults>>)) /\ Goto(r, "discard")
  /\ UNCHANGED <<now, cache, call>>

\* The session is logged out and the loop starts over.
discard(r) ==
  /\ pc[r] = "discard"
  /\ SetCondition(call[r].session, "closed")
  /\ call' = [call EXCEPT ![r].session = NoSession]
  /\ Goto(r, "checkout")
  /\ UNCHANGED <<now, faults, cache>>

\* Faulty: a failure to connect goes unnoticed.
ConnectionAssumed(r) ==
  /\ pc[r] = "connect"
  /\ Goto(r, FirstCommand(r))
  /\ UNCHANGED <<now, faults, sessions, cache, call>>

\* A failure to connect answers the call.
connect_authenticated(r) ==
  /\ pc[r] = "connect"
  /\ \/ /\ Goto(r, "idle")
        /\ UNCHANGED <<sessions, call>>
     \/ \E s \in Closed :
          /\ sessions' = [sessions EXCEPT ![s] = [account |-> call[r].account,
                                                  condition |-> "sound"]]
          /\ call' = [call EXCEPT ![r].session = s]
          /\ Goto(r, FirstCommand(r))
  /\ UNCHANGED <<now, faults, cache>>

-----------------------------------------------------------------------------
(* The handlers: what each does with the outcome of a command.             *)

\* ReadSessionLease.finish: log out what is not reusable.
release_read_session(r, reusable) ==
  Goto(r, IF reusable THEN "put_back" ELSE "logout")

list_all_mailboxes(r) ==
  /\ pc[r] = "list_all_mailboxes"
  /\ \/ Succeeds(r) /\ release_read_session(r, TRUE)
     \/ Fails(r) /\ release_read_session(r, FALSE)
  /\ UNCHANGED <<now, cache, call>>

\* What follows EXAMINE: get_message and get_message_raw give up on another
\* UIDVALIDITY; search_messages goes on with a cursor, which is refused, past
\* its end or good for a page, or searches.
AfterExamine(r) ==
  CASE call[r].tool = "search_messages" ->
         \/ release_read_session(r, TRUE)
         \/ Goto(r, "fetch_headers_and_flags")
         \/ Goto(r, "uid_search")
    [] call[r].tool = "get_message" ->
         release_read_session(r, FALSE) \/ Goto(r, "fetch_raw_message")
    [] OTHER ->
         release_read_session(r, FALSE) \/ Goto(r, "fetch_message_size")

select_mailbox_readonly(r) ==
  /\ pc[r] = "select_mailbox_readonly"
  /\ \/ Succeeds(r) /\ AfterExamine(r)
     \/ Fails(r) /\ release_read_session(r, FALSE)
  /\ UNCHANGED <<now, cache, call>>

\* A search matches too much, nothing, or something to fetch.
uid_search(r) ==
  /\ pc[r] = "uid_search"
  /\ \/ /\ Succeeds(r)
        /\ \/ release_read_session(r, FALSE)
           \/ release_read_session(r, TRUE)
           \/ Goto(r, "fetch_headers_and_flags")
     \/ Fails(r) /\ release_read_session(r, FALSE)
  /\ UNCHANGED <<now, cache, call>>

\* Faulty: issues do not count as long as the page was attempted.
ReusableIfAttempted(failed, attempted) == attempted > 0

\* reusable of search_messages, of a page of attempted > 0 messages: issues
\* are one for each failed message.
ReusableAfterPage(failed, attempted) == failed = 0 \/ failed < attempted

\* One fetch for the page; a message may be missing or unreadable by itself.
fetch_headers_and_flags(r) ==
  /\ pc[r] = "fetch_headers_and_flags"
  /\ \/ Succeeds(r) /\ \E failed \in 0..2 : release_read_session(r, ReusableAfterPage(failed, 2))
     \/ Fails(r) /\ release_read_session(r, ReusableAfterPage(2, 2))
  /\ UNCHANGED <<now, cache, call>>

\* UID FETCH of one message is done once its stream has ended; when that
\* brought nothing, a search for the uid follows.
FetchOneFails(r) ==
  \/ Fails(r) /\ release_read_session(r, FALSE)
  \/ Succeeds(r) /\ Goto(r, "existence_query")

\* Whatever the search tells, fetch_one fails; only its error differs.
existence_query(r) ==
  /\ pc[r] = "existence_query"
  /\ Succeeds(r) \/ Fails(r)
  /\ release_read_session(r, FALSE)
  /\ UNCHANGED <<now, cache, call>>

\* The message fetched may not parse.
fetch_raw_message(r) ==
  /\ pc[r] = "fetch_raw_message"
  /\ \/ Succeeds(r) /\ (release_read_session(r, TRUE) \/ Goto(r, "fetch_flags"))
     \/ FetchOneFails(r)
  /\ UNCHANGED <<now, cache, call>>

\* Attachments left out are an issue too.
fetch_flags(r) ==
  /\ pc[r] = "fetch_flags"
  /\ \/ Succeeds(r) /\ (release_read_session(r, TRUE) \/ release_read_session(r, FALSE))
     \/ FetchOneFails(r)
  /\ UNCHANGED <<now, cache, call>>

\* The client's offset may lie past the end of the message.
fetch_message_size(r) ==
  /\ pc[r] = "fetch_message_size"
  /\ \/ Succeeds(r) /\ (release_read_session(r, TRUE) \/ Goto(r, "fetch_raw_message_range"))
     \/ FetchOneFails(r)
  /\ UNCHANGED <<now, cache, call>>

fetch_raw_message_range(r) ==
  /\ pc[r] = "fetch_raw_message_range"
  /\ \/ Succeeds(r) /\ release_read_session(r, TRUE)
     \/ FetchOneFails(r)
  /\ UNCHANGED <<now, cache, call>>

-----------------------------------------------------------------------------
(* The end of ReadSessionLease.finish.                                     *)

put_back(r) ==
  LET a       == call[r].account
      bucket  == prune_account(cache[a])
      expired == NamesIn(cache[a]) \ NamesIn(bucket)
  IN
  /\ pc[r] = "put_back"
  /\ IF MaxPerAccount = 0 \/ Ttl = 0 THEN
       /\ Goto(r, "logout")
       /\ UNCHANGED <<sessions, cache, call>>
     ELSE
       /\ sessions' = Drop(expired)
       /\ IF NoRoom(bucket) THEN
            /\ cache' = [cache EXCEPT ![a] = bucket]
            /\ Goto(r, "logout")
            /\ UNCHANGED call
          ELSE
            /\ cache' = [cache EXCEPT ![a] =
                           Append(bucket, [session |-> call[r].session, last_used_at |-> now])]
            /\ call' = [call EXCEPT ![r].session = NoSession]
            /\ Goto(r, "idle")
  /\ UNCHANGED <<now, faults>>

\* Whether or not the server answers, the connection is closed.
logout_session_best_effort(r) ==
  /\ pc[r] = "logout"
  /\ SetCondition(call[r].session, "closed")
  /\ call' = [call EXCEPT ![r].session = NoSession]
  /\ Goto(r, "idle")
  /\ UNCHANGED <<now, faults, cache>>

Handler(r) ==
  \/ checkout(r)
  \/ noop_session(r)
  \/ discard(r)
  \/ connect_authenticated(r)
  \/ list_all_mailboxes(r)
  \/ select_mailbox_readonly(r)
  \/ uid_search(r)
  \/ fetch_headers_and_flags(r)
  \/ fetch_raw_message(r)
  \/ fetch_flags(r)
  \/ fetch_message_size(r)
  \/ fetch_raw_message_range(r)
  \/ existence_query(r)
  \/ put_back(r)
  \/ logout_session_best_effort(r)

Next ==
  \/ Tick
  \/ \E s \in Sessions : ConnectionDropped(s)
  \/ \E r \in Requests, a \in Accounts, t \in Tools : Call(r, a, t)
  \/ \E r \in Requests : Handler(r)

Spec == Init /\ [][Next]_vars

\* The runtime polls every task that can go on, and every await of a command
\* ends at its time-out.
FairSpec == Spec /\ \A r \in Requests : WF_vars(Handler(r))

-----------------------------------------------------------------------------
(* Properties.                                                             *)

Holds(r) == pc[r] \notin {"idle", "checkout", "connect"}

TypeOK ==
  /\ now \in 0..MaxNow /\ faults \in 0..MaxFaults
  /\ sessions \in [Sessions -> Session]
  /\ cache \in [Accounts -> Seq(CachedSession)]
  /\ pc \in [Requests -> ProgramCounter]
  /\ call \in [Requests -> [account: Accounts, tool: Tools, session: Sessions \cup {NoSession}]]
  /\ \A r \in Requests : Holds(r) <=> call[r].session # NoSession

\* However the commands of a handler end, no session with an answer still to
\* come is kept for another call or gets another command of its own: no read
\* tool ever takes the answer to one command for the answer to another.
NeverOutOfStep ==
  /\ \A a \in Accounts : \A i \in DOMAIN cache[a] :
       sessions[cache[a][i].session].condition # "unread"
  /\ \A r \in Requests :
       pc[r] \in Commands \cup {"noop", "put_back"}
       => sessions[call[r].session].condition # "unread"

\* Every open session is in one place, a bucket or a call, and that place is
\* of the account it is logged in to: no call reads another account's mail
\* and no connection stays behind when its call is over.
CachedOnce ==
  \A a \in Accounts :
    /\ \A i, j \in DOMAIN cache[a] : cache[a][i].session = cache[a][j].session => i = j
    /\ \A s \in NamesIn(cache[a]) : s \notin Closed /\ sessions[s].account = a

HeldOnce ==
  \A r \in Requests : LET s == call[r].session IN
    s # NoSession
    => /\ s \notin Closed /\ sessions[s].account = call[r].account
       /\ s \notin NamesIn(cache[call[r].account])
       /\ \A other \in Requests : call[other].session = s => other = r

NoneLeftBehind ==
  \A s \in Sessions \ Closed :
    \/ \E a \in Accounts : s \in NamesIn(cache[a])
    \/ \E r \in Requests : call[r].session = s

OnePlacePerSession == CachedOnce /\ HeldOnce /\ NoneLeftBehind

\* MAIL_IMAP_READ_SESSION_CACHE_MAX_PER_ACCOUNT bounds the idle sessions of
\* an account, whatever number of calls come to an end at once.
IdleSessionsBounded == \A a \in Accounts : Len(cache[a]) <= MaxPerAccount

CheckedOut(r) == pc[r] = "checkout" /\ pc'[r] = "noop"
EntryOf(r) == CHOOSE i \in DOMAIN cache[call[r].account] :
                cache[call[r].account][i].session = call'[r].session

\* A session is used again only if it was idle for less than the TTL, though
\* nothing but the next call on its account ever looks at its age.
FreshWhenReused ==
  [][\A r \in Requests :
       CheckedOut(r) => now - cache[call[r].account][EntryOf(r)].last_used_at < Ttl]_vars

\* Every call of a read tool is answered: the loop that looks for a session
\* ends even when cached ones turn out to be dead.
EveryReadFinishes == \A r \in Requests : pc[r] # "idle" ~> pc[r] = "idle"

=============================================================================
