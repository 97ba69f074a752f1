-------------------------- MODULE ReadSessionsProofs --------------------------
(* For any number of accounts, sessions and concurrent calls: every open     *)
(* session is in one place, of its own account, in step and within the       *)
(* bounds, and none is used again beyond its time.                           *)
EXTENDS ReadSessions, SequenceTheorems, WellFoundedInduction, TLAPS

USE DEF vars, Goto

\* The invariant that is inductive: the four invariants together.
Inv == TypeOK /\ NeverOutOfStep /\ OnePlacePerSession /\ IdleSessionsBounded

-----------------------------------------------------------------------------
(* What the operations on a bucket return.                                 *)

LEMMA LeastNatural ==
  ASSUME NEW S \in SUBSET Nat, S # {}
  PROVE  \E x \in S : \A y \in S : x <= y
<1>1. \E x \in S : \A y \in S : ~(<<y, x>> \in OpToRel(<, Nat))
  BY NatLessThanWellFounded, WFMin
<1>2. PICK x \in S : \A y \in S : ~(y < x)
  BY <1>1, Zenon DEF OpToRel
<1>3. \A y \in S : x <= y
  BY <1>2
<1> QED BY <1>3

\* The recursive definition of what retain keeps has a solution.
LEMMA KeptExists ==
  ASSUME NEW bucket \in Seq(CachedSession)
  PROVE  \E kept : kept = [n \in 0..Len(bucket) |->
           IF n = 0 THEN <<>>
           ELSE IF Fresh(bucket[n]) THEN Append(kept[n - 1], bucket[n])
           ELSE kept[n - 1]]
<1> DEFINE Step(F, n) == IF n = 0 THEN <<>>
                         ELSE IF Fresh(bucket[n]) THEN Append(F[n - 1], bucket[n])
                         ELSE F[n - 1]
           Upto(m) == \E F : F = [n \in 0..m |-> Step(F, n)]
           without == {m \in 0..Len(bucket) : ~Upto(m)}
<1>1. Len(bucket) \in Nat
  OBVIOUS
<1>2. Upto(0)
  <2> DEFINE F == [n \in 0..0 |-> <<>>]
  <2>1. F = [n \in 0..0 |-> Step(F, n)]
    OBVIOUS
  <2> QED BY <2>1
<1>3. ASSUME NEW m \in Nat, Upto(m)
      PROVE  Upto(m + 1)
  <2>1. PICK F : F = [n \in 0..m |-> Step(F, n)]
    BY <1>3
  <2> DEFINE G == [n \in 0..(m + 1) |-> IF n <= m THEN F[n] ELSE Step(F, n)]
  <2>2. ASSUME NEW n \in 0..(m + 1)
        PROVE  G[n] = Step(G, n)
    <3>1. n # 0 => n - 1 \in 0..m /\ G[n - 1] = F[n - 1]
      OBVIOUS
    <3>2. n <= m => F[n] = Step(F, n)
      <4> HIDE DEF Step
      <4> QED BY <2>1
    <3>3. G[n] = Step(F, n)
      BY <3>2
    <3> QED BY <3>1, <3>3
  <2> HIDE DEF Step
  <2>3. G = [n \in 0..(m + 1) |-> Step(G, n)]
    BY <2>2
  <2> QED BY <2>3
<1> HIDE DEF Upto
<1>4. without = {}
  <2> SUFFICES ASSUME without # {} PROVE FALSE
    OBVIOUS
  <2>1. without \in SUBSET Nat
    BY <1>1
  <2>2. PICK m \in without : \A y \in without : m <= y
    BY <2>1, LeastNatural
  <2>3. m \in Nat /\ m # 0 /\ m <= Len(bucket) /\ ~Upto(m)
    BY <1>1, <1>2, <2>2
  <2>4. m - 1 \in 0..Len(bucket) /\ m - 1 \notin without /\ (m - 1) + 1 = m
    BY <1>1, <2>2, <2>3
  <2>5. Upto(m - 1) /\ m - 1 \in Nat
    BY <2>3, <2>4
  <2>6. Upto((m - 1) + 1)
    BY <1>3, <2>5
  <2> QED BY <2>3, <2>4, <2>6
<1>5. Upto(Len(bucket))
  BY <1>1, <1>4
<1> QED BY <1>5 DEF Upto

\* What is left after pruning are entries of the bucket, all fresh, and as
\* distinct as they were.
LEMMA PruneKeepsFresh ==
  ASSUME NEW bucket \in Seq(CachedSession)
  PROVE  LET left == prune_account(bucket) IN
         /\ left \in Seq(CachedSession)
         /\ Len(left) <= Len(bucket)
         /\ \A i \in DOMAIN left : Fresh(left[i]) /\ \E j \in DOMAIN bucket : left[i] = bucket[j]
         /\ (\A i, j \in DOMAIN bucket : bucket[i].session = bucket[j].session => i = j)
            => \A i, j \in DOMAIN left : left[i].session = left[j].session => i = j
<1> DEFINE Step(F, n) == IF n = 0 THEN <<>>
                         ELSE IF Fresh(bucket[n]) THEN Append(F[n - 1], bucket[n])
                         ELSE F[n - 1]
           kept == CHOOSE F : F = [n \in 0..Len(bucket) |-> Step(F, n)]
           Distinct(b) == \A i, j \in DOMAIN b : b[i].session = b[j].session => i = j
           Good(n) ==
             /\ kept[n] \in Seq(CachedSession)
             /\ Len(kept[n]) <= n
             /\ \A i \in DOMAIN kept[n] :
                  Fresh(kept[n][i]) /\ \E j \in 1..n : kept[n][i] = bucket[j]
             /\ Distinct(bucket) => Distinct(kept[n])
           bad == {n \in 0..Len(bucket) : ~Good(n)}
<1>0. Len(bucket) \in Nat /\ DOMAIN bucket = 1..Len(bucket)
  OBVIOUS
<1>1. kept = [n \in 0..Len(bucket) |-> Step(kept, n)]
  BY KeptExists
<1>2. prune_account(bucket) = kept[Len(bucket)]
  BY DEF prune_account
<1>3. \A n \in 0..Len(bucket) : kept[n] = Step(kept, n)
  <2> HIDE DEF kept, Step
  <2> QED BY <1>1
<1> HIDE DEF kept
<1>4. Good(0)
  <2>1. kept[0] = <<>>
    BY <1>0, <1>3
  <2> QED BY <2>1
<1>5. ASSUME NEW n \in 1..Len(bucket), Good(n - 1)
      PROVE  Good(n)
  <2>1. n - 1 \in Nat /\ bucket[n] \in CachedSession /\ n \in DOMAIN bucket
    BY <1>0
  <2>2. CASE ~Fresh(bucket[n])
    <3>1. kept[n] = kept[n - 1]
      BY <1>0, <1>3, <2>2
    <3> QED BY <1>5, <2>1, <3>1
  <2>3. CASE Fresh(bucket[n])
    <3>1. kept[n] = Append(kept[n - 1], bucket[n])
      <4>1. n \in 0..Len(bucket) /\ n # 0
        BY <1>0
      <4>2. kept[n] = Step(kept, n)
        BY <1>3, <4>1
      <4> QED BY <2>3, <4>1, <4>2, Zenon
    <3> DEFINE old == kept[n - 1]
               new == Append(old, bucket[n])
    <3>2. old \in Seq(CachedSession) /\ Len(old) \in Nat /\ Len(old) <= n - 1
      BY <1>5
    <3>3. /\ new \in Seq(CachedSession) /\ Len(new) = Len(old) + 1
          /\ DOMAIN new = 1..(Len(old) + 1) /\ DOMAIN old = 1..Len(old)
          /\ new[Len(old) + 1] = bucket[n]
          /\ \A i \in DOMAIN old : new[i] = old[i]
      BY <2>1, <3>2
    <3>4. \A i \in DOMAIN old : Fresh(old[i]) /\ \E j \in 1..(n - 1) : old[i] = bucket[j]
      BY <1>5
    <3>5. Distinct(bucket) => Distinct(old)
      BY <1>5
    <3> HIDE DEF old, new
    <3>6. \A i \in DOMAIN new : Fresh(new[i]) /\ \E j \in 1..n : new[i] = bucket[j]
      BY <2>1, <2>3, <3>2, <3>3, <3>4
    <3>7. ASSUME Distinct(bucket) PROVE Distinct(new)
      <4>1. \A i \in DOMAIN old : old[i].session # bucket[n].session
        BY <1>0, <2>1, <3>4, <3>7
      <4> QED BY <3>2, <3>3, <3>5, <3>7, <4>1
    <3>8. Len(new) <= n
      BY <2>1, <3>2, <3>3
    <3>9. kept[n] = new
      BY <3>1 DEF old, new
    <3> QED BY <3>3, <3>6, <3>7, <3>8, <3>9
  <2> QED BY <2>2, <2>3
<1> HIDE DEF Good
<1>6. bad = {}
  <2> SUFFICES ASSUME bad # {} PROVE FALSE
    OBVIOUS
  <2>1. bad \in SUBSET Nat
    BY <1>0
  <2>2. PICK m \in bad : \A y \in bad : m <= y
    BY <2>1, LeastNatural
  <2>3. m \in 1..Len(bucket) /\ ~Good(m)
    BY <1>0, <1>4, <2>2
  <2>4. m - 1 \in 0..Len(bucket) /\ m - 1 \notin bad
    BY <1>0, <2>2, <2>3
  <2> QED BY <1>5, <2>3, <2>4
<1>7. Good(Len(bucket))
  BY <1>0, <1>6
<1> QED BY <1>0, <1>2, <1>7 DEF Good

\* pop leaves all but the last entry.
LEMMA PopTakesTheLast ==
  ASSUME NEW bucket \in Seq(CachedSession), bucket # <<>>
  PROVE  LET left == Without(bucket, Popped(bucket)) IN
         /\ left \in Seq(CachedSession)
         /\ Len(left) = Len(bucket) - 1
         /\ \A i \in DOMAIN left : i \in DOMAIN bucket /\ left[i] = bucket[i]
<1>1. Len(bucket) \in Nat /\ Len(bucket) # 0
  OBVIOUS
<1>2. SubSeq(bucket, Len(bucket) + 1, Len(bucket)) = <<>>
  BY <1>1
<1> DEFINE front == SubSeq(bucket, 1, Len(bucket) - 1)
<1>3. /\ front \in Seq(CachedSession) /\ Len(front) = Len(bucket) - 1
      /\ \A i \in 1..(Len(bucket) - 1) : front[i] = bucket[i]
  <2>1. /\ 1 \in 1..(Len(bucket) + 1) /\ Len(bucket) - 1 \in 0..Len(bucket)
        /\ \A i \in 1..(Len(bucket) - 1) : bucket[i] \in CachedSession
    BY <1>1
  <2>2. front \in Seq(CachedSession)
    BY <1>1, <2>1, SubSeqProperties
  <2>3. Len(front) = Len(bucket) - 1
    <3>1. CASE 1 <= Len(bucket) - 1
      <4>1. Len(front) = Len(bucket) - 1 - 1 + 1
        BY <1>1, <2>1, <3>1, SubSeqProperties
      <4> HIDE DEF front
      <4> QED BY <1>1, <4>1
    <3>2. CASE ~(1 <= Len(bucket) - 1)
      <4>1. Len(bucket) = 1
        BY <1>1, <3>2
      <4>2. front = <<>>
        BY <1>1, <4>1, SubSeqEmpty
      <4> QED BY <4>1, <4>2
    <3> QED BY <3>1, <3>2
  <2>4. \A i \in 1..(Len(bucket) - 1) : front[i] = bucket[i]
    BY <1>1
  <2> QED BY <2>2, <2>3, <2>4
<1>4. Without(bucket, Popped(bucket)) = front \o <<>>
  BY <1>2 DEF Without, Popped
<1> HIDE DEF front
<1>5. front \o <<>> = front
  BY <1>3
<1> QED BY <1>1, <1>3, <1>4, <1>5

-----------------------------------------------------------------------------
(* The invariant, step by step.                                            *)

\* What a handler's command does, however it ends: the call keeps its
\* session, and one with an answer still to come goes to be logged out.
CommandStep(r) ==
  /\ pc[r] \in Commands \cup {"noop"}
  /\ \/ /\ UNCHANGED <<sessions, faults>>
        /\ \E l \in Commands \cup {"put_back", "logout", "discard"} : Goto(r, l)
     \/ /\ TimesOut(r)
        /\ \E l \in {"logout", "discard"} : Goto(r, l)
  /\ UNCHANGED <<now, cache, call>>

LEMMA CommandSteps ==
  ASSUME TypeOK, NEW r \in Requests,
         \/ noop_session(r) \/ list_all_mailboxes(r) \/ select_mailbox_readonly(r)
         \/ uid_search(r) \/ fetch_headers_and_flags(r) \/ fetch_raw_message(r)
         \/ fetch_flags(r) \/ fetch_message_size(r) \/ fetch_raw_message_range(r)
         \/ existence_query(r)
  PROVE  CommandStep(r)
<1> USE DEF CommandStep, Commands, Succeeds, Fails, release_read_session
<1>1. CASE noop_session(r)
  BY <1>1 DEF noop_session, FirstCommand
<1>2. CASE list_all_mailboxes(r)
  BY <1>2 DEF list_all_mailboxes
<1>3. CASE select_mailbox_readonly(r)
  BY <1>3 DEF select_mailbox_readonly, AfterExamine
<1>4. CASE uid_search(r)
  BY <1>4 DEF uid_search
<1>5. CASE fetch_headers_and_flags(r)
  <2>1. ~ReusableAfterPage(2, 2)
    BY DEF ReusableAfterPage
  <2> QED BY <1>5, <2>1 DEF fetch_headers_and_flags
<1>6. CASE fetch_raw_message(r)
  BY <1>6 DEF fetch_raw_message, FetchOneFails
<1>7. CASE fetch_flags(r)
  BY <1>7 DEF fetch_flags, FetchOneFails
<1>8. CASE fetch_message_size(r)
  BY <1>8 DEF fetch_message_size, FetchOneFails
<1>9. CASE fetch_raw_message_range(r)
  BY <1>9 DEF fetch_raw_message_range, FetchOneFails
<1>10. CASE existence_query(r)
  BY <1>10 DEF existence_query
<1> QED BY <1>1, <1>2, <1>3, <1>4, <1>5, <1>6, <1>7, <1>8, <1>9, <1>10

LEMMA CachedTyped ==
  ASSUME TypeOK, NEW a \in Accounts
  PROVE  /\ \A i \in DOMAIN cache[a] : cache[a][i].session \in Sessions
         /\ NamesIn(cache[a]) \in SUBSET Sessions
<1>1. cache[a] \in Seq(CachedSession)
  BY DEF TypeOK
<1>2. \A i \in DOMAIN cache[a] : cache[a][i] \in CachedSession
  BY <1>1
<1> QED BY <1>2 DEF CachedSession, NamesIn

\* Another condition of an open session that stays open moves nothing.
LEMMA StaysInPlace ==
  ASSUME TypeOK, OnePlacePerSession, NEW s \in Sessions, s \notin Closed,
         NEW c \in Condition, c # "closed", SetCondition(s, c),
         UNCHANGED <<cache, call>>
  PROVE  /\ sessions' \in [Sessions -> Session]
         /\ OnePlacePerSession'
<1>1. sessions' \in [Sessions -> Session]
  BY DEF TypeOK, SetCondition, Session
<1>2. /\ Closed' = Closed
      /\ \A t \in Sessions : sessions'[t].account = sessions[t].account
  BY DEF TypeOK, SetCondition, Session, Closed
<1>3. \A r \in Requests : call[r].session \in Sessions \cup {NoSession}
  BY DEF TypeOK
<1>4. CachedOnce'
  <2>1. \A a \in Accounts : NamesIn(cache[a]) \in SUBSET Sessions
    BY CachedTyped
  <2> QED BY <1>2, <2>1 DEF OnePlacePerSession, CachedOnce
<1>5. HeldOnce'
  BY <1>2, <1>3 DEF OnePlacePerSession, HeldOnce
<1>6. NoneLeftBehind'
  BY <1>2 DEF OnePlacePerSession, NoneLeftBehind
<1> QED BY <1>1, <1>4, <1>5, <1>6 DEF OnePlacePerSession

LEMMA HeldSession ==
  ASSUME TypeOK, OnePlacePerSession, NEW r \in Requests, Holds(r)
  PROVE  /\ call[r].session \in Sessions /\ call[r].session \notin Closed
         /\ \A other \in Requests : other # r => call[other].session # call[r].session
         /\ \A a \in Accounts : \A i \in DOMAIN cache[a] : cache[a][i].session # call[r].session
<1> DEFINE s == call[r].session
<1>1. s \in Sessions /\ s # NoSession /\ call[r].account \in Accounts
  BY DEF TypeOK
<1>2. /\ s \notin Closed /\ sessions[s].account = call[r].account
      /\ s \notin NamesIn(cache[call[r].account])
      /\ \A other \in Requests : call[other].session = s => other = r
  BY <1>1 DEF OnePlacePerSession, HeldOnce
<1>3. \A a \in Accounts : s \in NamesIn(cache[a]) => sessions[s].account = a
  BY DEF OnePlacePerSession, CachedOnce
<1> QED BY <1>1, <1>2, <1>3 DEF NamesIn

LEMMA CommandInv ==
  ASSUME Inv, NEW r \in Requests, CommandStep(r)
  PROVE  Inv'
<1> USE DEF Inv
<1>1. Holds(r)
  BY DEF Holds, CommandStep, Commands
<1>2. Holds(r)' /\ pc' \in [Requests -> ProgramCounter]
  BY DEF Holds, CommandStep, Commands, TypeOK, ProgramCounter
<1>3. \A q \in Requests : Holds(q)' <=> Holds(q)
  BY <1>1, <1>2 DEF Holds, CommandStep, TypeOK
<1>4. IdleSessionsBounded'
  BY DEF IdleSessionsBounded, CommandStep
<1>5. CASE UNCHANGED <<sessions, faults>>
  <2>1. TypeOK'
    BY <1>2, <1>3, <1>5 DEF TypeOK, CommandStep
  <2>2. NeverOutOfStep'
    BY <1>5 DEF NeverOutOfStep, CommandStep, TypeOK
  <2>3. OnePlacePerSession'
    BY <1>5 DEF OnePlacePerSession, CachedOnce, HeldOnce, NoneLeftBehind, Closed, CommandStep
  <2> QED BY <1>4, <2>1, <2>2, <2>3
<1>6. CASE TimesOut(r) /\ \E l \in {"logout", "discard"} : Goto(r, l)
  <2> DEFINE s == call[r].session
  <2>1. UNCHANGED <<now, cache, call>>
    BY DEF CommandStep
  <2>2. s \in Sessions /\ s \notin Closed
    BY <1>1, HeldSession
  <2>3. sessions' \in [Sessions -> Session] /\ OnePlacePerSession'
    BY <1>6, <2>1, <2>2, StaysInPlace DEF TimesOut, Condition
  <2>4. faults' \in 0..MaxFaults
    BY <1>6, NumberAssumption DEF TimesOut, TypeOK
  <2>5. TypeOK'
    BY <1>2, <1>3, <2>1, <2>3, <2>4 DEF TypeOK
  <2>6. \A t \in Sessions : t # s => sessions'[t] = sessions[t]
    BY <1>6 DEF TimesOut, SetCondition, TypeOK
  <2>7. \A a \in Accounts : \A i \in DOMAIN cache[a] :
          sessions'[cache[a][i].session].condition # "unread"
    <3>1. \A a \in Accounts : \A i \in DOMAIN cache[a] : cache[a][i].session \in Sessions \ {s}
      BY <1>1, HeldSession, CachedTyped
    <3> QED BY <2>6, <3>1 DEF NeverOutOfStep
  <2>8. ASSUME NEW q \in Requests, pc'[q] \in Commands \cup {"noop", "put_back"}
        PROVE  sessions'[call[q].session].condition # "unread"
    <3>1. q # r /\ pc'[q] = pc[q]
      BY <1>6, <2>8 DEF TypeOK, Commands
    <3>2. Holds(q)
      BY <2>8, <3>1 DEF Holds, Commands
    <3>3. call[q].session \in Sessions /\ call[q].session # s
      BY <1>1, <3>1, <3>2, HeldSession
    <3> QED BY <2>6, <2>8, <3>1, <3>3 DEF NeverOutOfStep
  <2>9. NeverOutOfStep'
    BY <2>1, <2>7, <2>8 DEF NeverOutOfStep
  <2> QED BY <1>4, <2>3, <2>5, <2>9
<1> QED BY <1>5, <1>6 DEF CommandStep

LEMMA TickInv ==
  ASSUME Inv, Tick
  PROVE  Inv'
<1> USE DEF Inv, Tick
<1>1. TypeOK'
  BY NumberAssumption DEF TypeOK, Holds
<1>2. NeverOutOfStep'
  BY DEF NeverOutOfStep
<1>3. OnePlacePerSession'
  BY DEF OnePlacePerSession, CachedOnce, HeldOnce, NoneLeftBehind, Closed
<1>4. IdleSessionsBounded'
  BY DEF IdleSessionsBounded
<1> QED BY <1>1, <1>2, <1>3, <1>4

LEMMA ConnectionDroppedInv ==
  ASSUME Inv, NEW s \in Sessions, ConnectionDropped(s)
  PROVE  Inv'
<1> USE DEF Inv
<1>1. s \notin Closed /\ UNCHANGED <<now, cache, pc, call>> /\ SetCondition(s, "dropped")
  BY DEF ConnectionDropped, Closed
<1>2. sessions' \in [Sessions -> Session] /\ OnePlacePerSession'
  BY <1>1, StaysInPlace DEF Condition
<1>3. faults' \in 0..MaxFaults
  BY NumberAssumption DEF ConnectionDropped, TypeOK
<1>4. TypeOK'
  BY <1>1, <1>2, <1>3 DEF TypeOK, Holds
<1>5. \A t \in Sessions : sessions[t].condition # "unread" => sessions'[t].condition # "unread"
  BY <1>1 DEF SetCondition, TypeOK, Session
<1>6. \A q \in Requests : pc[q] \in Commands \cup {"noop", "put_back"} => call[q].session \in Sessions
  BY DEF TypeOK, Holds, Commands
<1>7. NeverOutOfStep'
  BY <1>1, <1>5, <1>6, CachedTyped DEF NeverOutOfStep
<1>8. IdleSessionsBounded'
  BY <1>1 DEF IdleSessionsBounded
<1> QED BY <1>2, <1>4, <1>7, <1>8

LEMMA CallInv ==
  ASSUME Inv, NEW r \in Requests, NEW a \in Accounts, NEW t \in Tools, Call(r, a, t)
  PROVE  Inv'
<1> USE DEF Inv, Call
<1>1. call[r].session = NoSession
  BY DEF TypeOK, Holds
<1>2. /\ call' \in [Requests -> [account: Accounts, tool: Tools, session: Sessions \cup {NoSession}]]
      /\ pc' \in [Requests -> ProgramCounter]
      /\ \A q \in Requests : call'[q].session = call[q].session /\ (q # r => call'[q] = call[q])
  BY <1>1 DEF TypeOK, ProgramCounter
<1>3. TypeOK'
  BY <1>1, <1>2 DEF TypeOK, Holds
<1>4. NeverOutOfStep'
  BY <1>2 DEF NeverOutOfStep, TypeOK, Commands
<1>5. OnePlacePerSession'
  BY <1>1, <1>2 DEF OnePlacePerSession, CachedOnce, HeldOnce, NoneLeftBehind, Closed
<1>6. IdleSessionsBounded'
  BY DEF IdleSessionsBounded
<1> QED BY <1>3, <1>4, <1>5, <1>6

\* discard and logout_session_best_effort close the session of the call.
LEMMA CloseInv ==
  ASSUME Inv, NEW r \in Requests, discard(r) \/ logout_session_best_effort(r)
  PROVE  Inv'
<1> DEFINE s == call[r].session
<1> USE DEF Inv
<1>1. /\ UNCHANGED <<now, faults, cache>>
      /\ SetCondition(s, "closed")
      /\ call' = [call EXCEPT ![r].session = NoSession]
      /\ pc[r] \in {"discard", "logout"}
      /\ \E l \in {"checkout", "idle"} : pc' = [pc EXCEPT ![r] = l]
  BY DEF discard, logout_session_best_effort
<1>2. Holds(r)
  BY <1>1 DEF Holds
<1>3. /\ s \in Sessions /\ s \notin Closed
      /\ \A other \in Requests : other # r => call[other].session # s
      /\ \A a \in Accounts : \A i \in DOMAIN cache[a] : cache[a][i].session # s
  BY <1>2, HeldSession
<1>4. /\ sessions' \in [Sessions -> Session]
      /\ Closed' = Closed \cup {s}
      /\ \A t \in Sessions : t # s => sessions'[t] = sessions[t]
      /\ sessions'[s].condition = "closed"
  <2>1. /\ sessions' \in [Sessions -> Session]
        /\ \A t \in Sessions : t # s => sessions'[t] = sessions[t]
        /\ sessions'[s].condition = "closed"
    BY <1>1, <1>3 DEF SetCondition, TypeOK, Session, Condition
  <2>2. Closed' = Closed \cup {s}
    BY <1>3, <2>1 DEF Closed
  <2> QED BY <2>1, <2>2
<1>5. /\ call' \in [Requests -> [account: Accounts, tool: Tools, session: Sessions \cup {NoSession}]]
      /\ call'[r].session = NoSession
      /\ \A q \in Requests : q # r => call'[q] = call[q] /\ pc'[q] = pc[q]
      /\ pc' \in [Requests -> ProgramCounter]
      /\ ~Holds(r)'
  BY <1>1 DEF TypeOK, ProgramCounter, Holds
<1>6. TypeOK'
  BY <1>1, <1>4, <1>5 DEF TypeOK, Holds
<1>7. NeverOutOfStep'
  <2>1. \A a \in Accounts : \A i \in DOMAIN cache[a] :
          sessions'[cache[a][i].session].condition # "unread"
    BY <1>3, <1>4, CachedTyped DEF NeverOutOfStep
  <2>2. ASSUME NEW q \in Requests, pc'[q] \in Commands \cup {"noop", "put_back"}
        PROVE  sessions'[call'[q].session].condition # "unread"
    <3>1. q # r
      BY <1>5, <2>2 DEF Holds, Commands
    <3>2. call'[q] = call[q] /\ pc'[q] = pc[q]
      BY <1>5, <3>1
    <3>3. call[q].session \in Sessions
      BY <2>2, <3>2 DEF TypeOK, Holds, Commands
    <3> QED BY <1>3, <1>4, <2>2, <3>1, <3>2, <3>3 DEF NeverOutOfStep
  <2> QED BY <1>1, <2>1, <2>2 DEF NeverOutOfStep
<1>8. CachedOnce'
  <2>1. \A a \in Accounts : NamesIn(cache[a]) \in SUBSET (Sessions \ {s})
    BY <1>3, CachedTyped DEF NamesIn
  <2> QED BY <1>1, <1>4, <2>1 DEF OnePlacePerSession, CachedOnce
<1>9. HeldOnce'
  <2>1. \A q \in Requests : q # r => call[q].session \in (Sessions \ {s}) \cup {NoSession}
    BY <1>3 DEF TypeOK
  <2> QED BY <1>1, <1>4, <1>5, <2>1 DEF OnePlacePerSession, HeldOnce
<1>10. NoneLeftBehind'
  BY <1>1, <1>4, <1>5 DEF OnePlacePerSession, NoneLeftBehind
<1>11. IdleSessionsBounded'
  BY <1>1 DEF IdleSessionsBounded
<1> QED BY <1>6, <1>7, <1>8, <1>9, <1>10, <1>11 DEF OnePlacePerSession

LEMMA ConnectInv ==
  ASSUME Inv, NEW r \in Requests, connect_authenticated(r)
  PROVE  Inv'
<1> USE DEF Inv
<1>0. pc[r] = "connect" /\ call[r].session = NoSession /\ UNCHANGED <<now, faults, cache>>
  BY DEF connect_authenticated, TypeOK, Holds
<1>1. CASE Goto(r, "idle") /\ UNCHANGED <<sessions, call>>
  <2>1. TypeOK'
    BY <1>0, <1>1 DEF TypeOK, Holds, ProgramCounter
  <2>2. NeverOutOfStep'
    BY <1>0, <1>1 DEF NeverOutOfStep, Commands, TypeOK
  <2>3. OnePlacePerSession'
    BY <1>0, <1>1 DEF OnePlacePerSession, CachedOnce, HeldOnce, NoneLeftBehind, Closed
  <2>4. IdleSessionsBounded'
    BY <1>0 DEF IdleSessionsBounded
  <2> QED BY <2>1, <2>2, <2>3, <2>4
<1>2. ASSUME NEW s \in Closed,
             sessions' = [sessions EXCEPT ![s] = [account |-> call[r].account,
                                                  condition |-> "sound"]],
             call' = [call EXCEPT ![r].session = s],
             Goto(r, FirstCommand(r))
      PROVE  Inv'
  <2>1. /\ s \in Sessions
        /\ \A q \in Requests : call[q].session # s
        /\ \A a \in Accounts : s \notin NamesIn(cache[a])
    BY SessionAssumption DEF Closed, OnePlacePerSession, CachedOnce, HeldOnce
  <2>2. /\ sessions' \in [Sessions -> Session]
        /\ \A t \in Sessions : t # s => sessions'[t] = sessions[t]
        /\ sessions'[s] = [account |-> call[r].account, condition |-> "sound"]
    BY <1>2, <2>1 DEF TypeOK, Session, Condition
  <2>3. Closed' = Closed \ {s}
    BY <2>2 DEF Closed
  <2>4. /\ call' \in [Requests -> [account: Accounts, tool: Tools, session: Sessions \cup {NoSession}]]
        /\ call'[r].session = s /\ call'[r].account = call[r].account
        /\ \A q \in Requests : q # r => call'[q] = call[q] /\ pc'[q] = pc[q]
        /\ pc'[r] \in Commands
        /\ pc' \in [Requests -> ProgramCounter]
    BY <1>2, <2>1 DEF TypeOK, ProgramCounter, FirstCommand, Commands
  <2>5. Holds(r)'
    BY <2>4 DEF Holds, Commands
  <2>6. TypeOK'
    BY <1>0, <2>1, <2>2, <2>4, <2>5, SessionAssumption DEF TypeOK, Holds
  <2>7. NeverOutOfStep'
    <3>1. \A a \in Accounts : \A i \in DOMAIN cache[a] :
            sessions'[cache[a][i].session].condition # "unread"
      BY <2>1, <2>2, CachedTyped DEF NeverOutOfStep, NamesIn
    <3>2. ASSUME NEW q \in Requests, pc'[q] \in Commands \cup {"noop", "put_back"}
          PROVE  sessions'[call'[q].session].condition # "unread"
      <4>1. CASE q = r
        BY <2>2, <2>4, <4>1
      <4>2. CASE q # r
        <5>1. call'[q] = call[q] /\ pc'[q] = pc[q]
          BY <2>4, <4>2
        <5>2. call[q].session \in Sessions /\ call[q].session # s
          BY <2>1, <3>2, <5>1 DEF TypeOK, Holds, Commands
        <5> QED BY <2>2, <3>2, <5>1, <5>2 DEF NeverOutOfStep
      <4> QED BY <4>1, <4>2
    <3> QED BY <1>0, <3>1, <3>2 DEF NeverOutOfStep
  <2>8. CachedOnce'
    <3>1. \A a \in Accounts : NamesIn(cache[a]) \in SUBSET (Sessions \ {s})
      BY <2>1, CachedTyped
    <3> QED BY <1>0, <2>2, <2>3, <3>1 DEF OnePlacePerSession, CachedOnce
  <2>9. HeldOnce'
    <3>1. \A q \in Requests : q # r => call[q].session \in (Sessions \ {s}) \cup {NoSession}
      BY <2>1 DEF TypeOK
    <3>2. call[r].account \in Accounts
      BY DEF TypeOK
    <3> QED BY <1>0, <2>1, <2>2, <2>3, <2>4, <3>1, <3>2 DEF OnePlacePerSession, HeldOnce
  <2>10. NoneLeftBehind'
    <3>1. ASSUME NEW t \in Sessions \ Closed'
          PROVE  \/ \E a \in Accounts : t \in NamesIn(cache[a])
                 \/ \E q \in Requests : call'[q].session = t
      BY <1>0, <2>3, <2>4, <3>1, SessionAssumption DEF OnePlacePerSession, NoneLeftBehind
    <3> QED BY <1>0, <3>1 DEF NoneLeftBehind
  <2>11. IdleSessionsBounded'
    BY <1>0 DEF IdleSessionsBounded
  <2> QED BY <2>6, <2>7, <2>8, <2>9, <2>10, <2>11 DEF OnePlacePerSession
<1> QED BY <1>1, <1>2 DEF connect_authenticated

Swept(a) == NamesIn(cache[a]) \ NamesIn(prune_account(cache[a]))

Distinct(bucket) == \A i, j \in DOMAIN bucket : bucket[i].session = bucket[j].session => i = j

\* Pruning a bucket closes the sessions it takes out, which are nowhere else.
LEMMA SweepFacts ==
  ASSUME Inv, NEW a \in Accounts, sessions' = Drop(Swept(a))
  PROVE  LET bucket == prune_account(cache[a]) IN
         /\ bucket \in Seq(CachedSession) /\ Len(bucket) <= Len(cache[a]) /\ Distinct(bucket)
         /\ NamesIn(bucket) \in SUBSET NamesIn(cache[a])
         /\ \A i \in DOMAIN bucket : bucket[i].session \in Sessions \ Swept(a)
         /\ Swept(a) \in SUBSET Sessions
         /\ sessions' \in [Sessions -> Session]
         /\ \A s \in Sessions : sessions'[s].account = sessions[s].account
         /\ \A s \in Sessions \ Swept(a) : sessions'[s] = sessions[s]
         /\ Closed' = Closed \cup Swept(a)
         /\ \A b \in Accounts : b # a => NamesIn(cache[b]) \in SUBSET (Sessions \ Swept(a))
         /\ \A q \in Requests : call[q].session \in (Sessions \ Swept(a)) \cup {NoSession}
         /\ \A i \in DOMAIN bucket :
              /\ bucket[i].session \in Sessions \ Closed'
              /\ sessions'[bucket[i].session].account = a
              /\ sessions'[bucket[i].session].condition # "unread"
              /\ bucket[i].session \in NamesIn(cache[a])
         /\ \A q \in Requests : pc[q] \in Commands \cup {"noop", "put_back"}
              => sessions'[call[q].session].condition # "unread"
<1> DEFINE bucket == prune_account(cache[a])
<1> USE DEF Inv
<1>1. cache[a] \in Seq(CachedSession) /\ Distinct(cache[a])
  BY DEF TypeOK, OnePlacePerSession, CachedOnce, Distinct
<1>2. /\ bucket \in Seq(CachedSession) /\ Len(bucket) <= Len(cache[a]) /\ Distinct(bucket)
      /\ \A i \in DOMAIN bucket : \E j \in DOMAIN cache[a] : bucket[i] = cache[a][j]
  BY <1>1, PruneKeepsFresh DEF Distinct
<1>3. NamesIn(bucket) \in SUBSET NamesIn(cache[a])
  BY <1>2 DEF NamesIn
<1>4. NamesIn(cache[a]) \in SUBSET Sessions
  BY CachedTyped
<1>5. Swept(a) = NamesIn(cache[a]) \ NamesIn(bucket)
  BY DEF Swept
<1> HIDE DEF bucket
<1>6. \A i \in DOMAIN bucket : bucket[i].session \in Sessions \ Swept(a)
  <2>1. \A i \in DOMAIN bucket : bucket[i].session \in NamesIn(bucket)
    BY DEF NamesIn
  <2> QED BY <1>3, <1>4, <1>5, <2>1
<1>7. Swept(a) \in SUBSET Sessions
  BY <1>4, <1>5
<1>8. /\ sessions' \in [Sessions -> Session]
      /\ \A s \in Sessions : sessions'[s].account = sessions[s].account
      /\ \A s \in Sessions \ Swept(a) : sessions'[s] = sessions[s]
      /\ \A s \in Swept(a) : sessions'[s].condition = "closed"
  <2>1. \A s \in Sessions :
          sessions'[s] = IF s \in Swept(a) THEN [sessions[s] EXCEPT !.condition = "closed"]
                         ELSE sessions[s]
    BY DEF Drop
  <2>2. \A s \in Sessions : sessions[s] \in Session
    BY DEF TypeOK
  <2>3. \A s \in Sessions : s \in Swept(a) =>
          /\ sessions'[s] \in Session /\ sessions'[s].account = sessions[s].account
          /\ sessions'[s].condition = "closed"
    BY <2>1, <2>2 DEF Session, Condition
  <2>4. sessions' = [s \in Sessions |-> sessions'[s]]
    BY DEF Drop
  <2> QED BY <1>7, <2>1, <2>2, <2>3, <2>4
<1>9. Closed' = Closed \cup Swept(a)
  BY <1>7, <1>8 DEF Closed
<1>10. \A s \in Swept(a) : s \notin Closed /\ sessions[s].account = a
  BY <1>5 DEF OnePlacePerSession, CachedOnce
<1>11. ASSUME NEW b \in Accounts, b # a
       PROVE  NamesIn(cache[b]) \in SUBSET (Sessions \ Swept(a))
  <2>1. \A s \in NamesIn(cache[b]) : sessions[s].account = b
    BY DEF OnePlacePerSession, CachedOnce
  <2> QED BY <1>10, <1>11, <2>1, CachedTyped
<1>12. ASSUME NEW q \in Requests
       PROVE  call[q].session \in (Sessions \ Swept(a)) \cup {NoSession}
  <2>1. call[q].session \in Sessions \cup {NoSession}
    BY DEF TypeOK
  <2>2. CASE call[q].session \in Swept(a)
    <3>1. call[q].session # NoSession
      BY <1>7, <2>2, SessionAssumption
    <3>2. sessions[call[q].session].account = call[q].account
      BY <3>1 DEF OnePlacePerSession, HeldOnce
    <3>3. call[q].session \notin NamesIn(cache[call[q].account])
      BY <3>1 DEF OnePlacePerSession, HeldOnce
    <3> QED BY <1>5, <1>10, <2>2, <3>2, <3>3
  <2> QED BY <2>1, <2>2
<1>13. ASSUME NEW i \in DOMAIN bucket
       PROVE  /\ bucket[i].session \in Sessions \ Closed'
              /\ sessions'[bucket[i].session].account = a
              /\ sessions'[bucket[i].session].condition # "unread"
              /\ bucket[i].session \in NamesIn(cache[a])
  <2>1. PICK j \in DOMAIN cache[a] : bucket[i] = cache[a][j]
    BY <1>2
  <2>2. /\ cache[a][j].session \in Sessions \ Closed
        /\ sessions[cache[a][j].session].account = a
        /\ sessions[cache[a][j].session].condition # "unread"
        /\ cache[a][j].session \in NamesIn(cache[a])
    BY CachedTyped DEF OnePlacePerSession, CachedOnce, NeverOutOfStep, NamesIn
  <2> QED BY <1>6, <1>8, <1>9, <2>1, <2>2
<1>14. \A q \in Requests : pc[q] \in Commands \cup {"noop", "put_back"}
         => sessions'[call[q].session].condition # "unread"
  <2>1. \A q \in Requests : pc[q] \in Commands \cup {"noop", "put_back"} => call[q].session # NoSession
    BY DEF TypeOK, Holds, Commands
  <2> QED BY <1>8, <1>12, <2>1 DEF NeverOutOfStep
<1> QED BY <1>2, <1>3, <1>6, <1>7, <1>8, <1>9, <1>11, <1>12, <1>13, <1>14 DEF bucket

\* After a sweep, with a part of what it left in the bucket: the other buckets
\* are as they were, and what the bucket has is in order.
LEMMA SweptBuckets ==
  ASSUME Inv, NEW a \in Accounts, sessions' = Drop(Swept(a)),
         NEW part \in Seq(CachedSession), Len(part) <= MaxPerAccount, Distinct(part),
         \A i \in DOMAIN part :
           /\ part[i].session \in Sessions \ Closed'
           /\ sessions'[part[i].session].account = a
           /\ sessions'[part[i].session].condition # "unread",
         cache' = [cache EXCEPT ![a] = part]
  PROVE  /\ cache' \in [Accounts -> Seq(CachedSession)]
         /\ cache'[a] = part /\ \A b \in Accounts : b # a => cache'[b] = cache[b]
         /\ CachedOnce'
         /\ IdleSessionsBounded'
         /\ \A b \in Accounts : \A i \in DOMAIN cache'[b] :
              sessions'[cache'[b][i].session].condition # "unread"
<1> USE DEF Inv
<1>1. /\ cache' \in [Accounts -> Seq(CachedSession)]
      /\ cache'[a] = part /\ \A b \in Accounts : b # a => cache'[b] = cache[b]
  BY DEF TypeOK
<1>2. IdleSessionsBounded'
  BY <1>1 DEF IdleSessionsBounded
<1>3. /\ \A s \in Sessions : sessions'[s].account = sessions[s].account
      /\ \A s \in Sessions \ Swept(a) : sessions'[s] = sessions[s]
      /\ Closed' = Closed \cup Swept(a)
      /\ \A b \in Accounts : b # a => NamesIn(cache[b]) \in SUBSET (Sessions \ Swept(a))
  BY SweepFacts
<1>4. ASSUME NEW b \in Accounts
      PROVE  /\ Distinct(cache'[b])
             /\ \A s \in NamesIn(cache'[b]) : s \notin Closed' /\ sessions'[s].account = b
             /\ \A i \in DOMAIN cache'[b] : sessions'[cache'[b][i].session].condition # "unread"
  <2>1. CASE b = a
    BY <1>1, <2>1 DEF NamesIn
  <2>2. CASE b # a
    <3>1. cache'[b] = cache[b]
      BY <1>1, <2>2
    <3>2. Distinct(cache[b]) /\ \A s \in NamesIn(cache[b]) : s \notin Closed /\ sessions[s].account = b
      BY DEF OnePlacePerSession, CachedOnce, Distinct
    <3>3. \A i \in DOMAIN cache[b] : sessions[cache[b][i].session].condition # "unread"
      BY DEF NeverOutOfStep
    <3>4. \A i \in DOMAIN cache[b] : cache[b][i].session \in NamesIn(cache[b])
      BY DEF NamesIn
    <3> QED BY <1>3, <2>2, <3>1, <3>2, <3>3, <3>4
  <2> QED BY <2>1, <2>2
<1>5. CachedOnce'
  BY <1>4 DEF CachedOnce, Distinct
<1> QED BY <1>1, <1>2, <1>4, <1>5

LEMMA CheckoutInv ==
  ASSUME Inv, NEW r \in Requests, checkout(r)
  PROVE  Inv'
<1> DEFINE a == call[r].account
           bucket == prune_account(cache[a])
<1> USE DEF Inv
<1>0. /\ a \in Accounts /\ pc[r] = "checkout" /\ call[r].session = NoSession
      /\ UNCHANGED <<now, faults>>
  BY DEF checkout, TypeOK, Holds
<1>1. CASE Goto(r, "connect") /\ UNCHANGED <<sessions, cache, call>>
  <2>1. TypeOK'
    BY <1>0, <1>1 DEF TypeOK, Holds, ProgramCounter
  <2>2. NeverOutOfStep'
    BY <1>0, <1>1 DEF NeverOutOfStep, Commands, TypeOK
  <2>3. OnePlacePerSession'
    BY <1>0, <1>1 DEF OnePlacePerSession, CachedOnce, HeldOnce, NoneLeftBehind, Closed
  <2>4. IdleSessionsBounded'
    BY <1>1 DEF IdleSessionsBounded
  <2> QED BY <2>1, <2>2, <2>3, <2>4
<1>2. CASE sessions' = Drop(Swept(a))
  <2>1. /\ bucket \in Seq(CachedSession) /\ Len(bucket) <= Len(cache[a]) /\ Distinct(bucket)
        /\ NamesIn(bucket) \in SUBSET NamesIn(cache[a])
        /\ \A i \in DOMAIN bucket : bucket[i].session \in Sessions \ Swept(a)
        /\ Swept(a) = NamesIn(cache[a]) \ NamesIn(bucket)
        /\ sessions' \in [Sessions -> Session]
        /\ \A s \in Sessions : sessions'[s].account = sessions[s].account
        /\ \A s \in Sessions \ Swept(a) : sessions'[s] = sessions[s]
        /\ Closed' = Closed \cup Swept(a)
        /\ \A q \in Requests : call[q].session \in (Sessions \ Swept(a)) \cup {NoSession}
    BY <1>0, <1>2, SweepFacts DEF Swept
  <2>2. Len(cache[a]) \in Nat /\ Len(cache[a]) <= MaxPerAccount /\ MaxPerAccount \in Nat
    BY <1>0, NumberAssumption DEF IdleSessionsBounded, TypeOK
  <2>3. \A i \in DOMAIN bucket :
           /\ bucket[i].session \in Sessions \ Closed'
           /\ sessions'[bucket[i].session].account = a
           /\ sessions'[bucket[i].session].condition # "unread"
           /\ bucket[i].session \in NamesIn(cache[a])
    BY <1>0, <1>2, SweepFacts
  <2>4. \A q \in Requests : pc[q] \in Commands \cup {"noop", "put_back"}
          => sessions'[call[q].session].condition # "unread"
    BY <1>0, <1>2, SweepFacts
  <2> HIDE DEF bucket, a
  <2>5. CASE /\ bucket = <<>> /\ cache' = [cache EXCEPT ![a] = <<>>]
             /\ Goto(r, "connect") /\ UNCHANGED call
    <3>1. Len(bucket) <= MaxPerAccount
      BY <2>1, <2>2
    <3>2. /\ cache' \in [Accounts -> Seq(CachedSession)]
          /\ cache'[a] = bucket /\ \A b \in Accounts : b # a => cache'[b] = cache[b]
          /\ CachedOnce' /\ IdleSessionsBounded'
          /\ \A b \in Accounts : \A i \in DOMAIN cache'[b] :
               sessions'[cache'[b][i].session].condition # "unread"
      BY <1>0, <1>2, <2>1, <2>3, <2>5, <3>1, SweptBuckets
    <3>3. TypeOK'
      BY <1>0, <2>1, <2>5, <3>2 DEF TypeOK, Holds, ProgramCounter
    <3>4. NeverOutOfStep'
      BY <1>0, <2>4, <2>5, <3>2 DEF NeverOutOfStep, TypeOK, Commands
    <3>5. HeldOnce'
      <4>1. \A q \in Requests : call[q].account \in Accounts
        BY DEF TypeOK
      <4>2. NamesIn(bucket) = {}
        BY <2>5 DEF NamesIn
      <4>3. \A b \in Accounts : NamesIn(cache'[b]) \in SUBSET NamesIn(cache[b])
        BY <2>1, <3>2
      <4> QED BY <2>1, <2>5, <4>1, <4>3 DEF OnePlacePerSession, HeldOnce
    <3>6. NoneLeftBehind'
      <4>1. NamesIn(cache'[a]) = NamesIn(bucket)
        BY <3>2
      <4> QED BY <2>1, <2>5, <3>2, <4>1 DEF OnePlacePerSession, NoneLeftBehind
    <3> QED BY <3>2, <3>3, <3>4, <3>5, <3>6 DEF OnePlacePerSession
  <2>6. CASE /\ bucket # <<>> /\ cache' = [cache EXCEPT ![a] = Without(bucket, Popped(bucket))]
             /\ call' = [call EXCEPT ![r].session = bucket[Popped(bucket)].session]
             /\ Goto(r, "noop")
    <3> DEFINE part == Without(bucket, Popped(bucket))
               s == bucket[Popped(bucket)].session
    <3>1. /\ part \in Seq(CachedSession) /\ Len(part) = Len(bucket) - 1
          /\ \A i \in DOMAIN part : i \in DOMAIN bucket /\ part[i] = bucket[i]
      BY <2>1, <2>6, PopTakesTheLast
    <3>2. /\ Popped(bucket) = Len(bucket) /\ Len(bucket) \in DOMAIN bucket /\ Len(bucket) \in Nat
          /\ DOMAIN bucket = 1..Len(bucket) /\ DOMAIN part = 1..(Len(bucket) - 1)
      BY <2>1, <2>6, <3>1 DEF Popped
    <3>3. /\ s \in Sessions \ Closed' /\ sessions'[s].account = a
          /\ sessions'[s].condition # "unread" /\ s \in NamesIn(cache[a])
      BY <2>3, <3>2
    <3>4. s \notin NamesIn(part)
      BY <2>1, <3>1, <3>2 DEF NamesIn, Distinct
    <3>5. NamesIn(bucket) \in SUBSET (NamesIn(part) \cup {s})
      <4>1. ASSUME NEW i \in DOMAIN bucket
            PROVE  bucket[i].session \in NamesIn(part) \cup {s}
        <5>1. CASE i = Len(bucket)
          BY <3>2, <5>1
        <5>2. CASE i # Len(bucket)
          <6>1. i \in DOMAIN part
            BY <3>2, <5>2
          <6> QED BY <3>1, <6>1 DEF NamesIn
        <5> QED BY <5>1, <5>2
      <4> HIDE DEF part, s
      <4> QED BY <4>1 DEF NamesIn
    <3>6. call'[r].session = s /\ call'[r].account = a /\ \A q \in Requests : q # r => call'[q] = call[q]
      BY <2>6 DEF TypeOK, a
    <3>7. cache' = [cache EXCEPT ![a] = part]
      BY <2>6
    <3>8. /\ NamesIn(part) \in SUBSET NamesIn(bucket) /\ Distinct(part) /\ Len(part) <= MaxPerAccount
      BY <2>1, <2>2, <3>1, <3>2 DEF NamesIn, Distinct
    <3>9. /\ call' \in [Requests -> [account: Accounts, tool: Tools, session: Sessions \cup {NoSession}]]
          /\ pc' \in [Requests -> ProgramCounter] /\ pc'[r] = "noop"
          /\ \A q \in Requests : q # r => pc'[q] = pc[q]
      BY <2>6, <3>3 DEF TypeOK, ProgramCounter
    <3> HIDE DEF part, s
    <3>10. /\ cache' \in [Accounts -> Seq(CachedSession)]
           /\ cache'[a] = part /\ \A b \in Accounts : b # a => cache'[b] = cache[b]
           /\ CachedOnce' /\ IdleSessionsBounded'
           /\ \A b \in Accounts : \A i \in DOMAIN cache'[b] :
                sessions'[cache'[b][i].session].condition # "unread"
      <4>1. \A i \in DOMAIN part :
              /\ part[i].session \in Sessions \ Closed'
              /\ sessions'[part[i].session].account = a
              /\ sessions'[part[i].session].condition # "unread"
        BY <2>3, <3>1
      <4> QED BY <1>0, <1>2, <3>1, <3>7, <3>8, <4>1, SweptBuckets
    <3>11. TypeOK'
      <4>1. Holds(r)' /\ s # NoSession
        BY <3>3, <3>9, SessionAssumption DEF Holds
      <4>2. \A q \in Requests : Holds(q)' <=> call'[q].session # NoSession
        BY <3>6, <3>9, <4>1 DEF TypeOK, Holds
      <4>3. cache' \in [Accounts -> Seq(CachedSession)]
        BY <3>10
      <4> QED BY <1>0, <2>1, <3>9, <4>2, <4>3 DEF TypeOK
    <3>12. NeverOutOfStep'
      <4>1. \A b \in Accounts : \A i \in DOMAIN cache'[b] :
              sessions'[cache'[b][i].session].condition # "unread"
        BY <3>10
      <4>2. ASSUME NEW q \in Requests, pc'[q] \in Commands \cup {"noop", "put_back"}
            PROVE  sessions'[call'[q].session].condition # "unread"
        <5>1. CASE q = r
          BY <3>3, <3>6, <5>1
        <5>2. CASE q # r
          BY <2>4, <3>6, <3>9, <4>2, <5>2
        <5> QED BY <5>1, <5>2
      <4> QED BY <4>1, <4>2 DEF NeverOutOfStep
    <3>13. HeldOnce'
      <4>1. \A q \in Requests : call[q].account \in Accounts /\ call[q].session # s
        <5>1. \A q \in Requests : call[q].account \in Accounts
          BY DEF TypeOK
        <5>2. sessions[s].account = a
          BY <2>1, <3>3
        <5>3. s # NoSession
          BY <3>3, SessionAssumption
        <5> QED BY <3>3, <5>1, <5>2, <5>3 DEF OnePlacePerSession, HeldOnce
      <4>2. \A b \in Accounts : NamesIn(cache'[b]) \in SUBSET NamesIn(cache[b])
        BY <2>1, <3>8, <3>10
      <4>3. ASSUME NEW q \in Requests, q # r, call[q].session # NoSession
            PROVE  /\ call[q].session \notin Closed'
                   /\ sessions'[call[q].session].account = call[q].account
                   /\ call[q].session \notin NamesIn(cache'[call[q].account])
                   /\ \A other \in Requests : call'[other].session = call[q].session => other = q
        <5>1. call[q].session \in Sessions \ Swept(a)
          BY <2>1, <4>3
        <5>2. call[q].session \notin Closed /\ sessions[call[q].session].account = call[q].account
              /\ call[q].session \notin NamesIn(cache[call[q].account])
              /\ \A other \in Requests : call[other].session = call[q].session => other = q
          BY <4>3 DEF OnePlacePerSession, HeldOnce
        <5> QED BY <2>1, <3>6, <4>1, <4>2, <5>1, <5>2
      <4>4. \A other \in Requests : call'[other].session = s => other = r
        BY <3>6, <4>1
      <4> QED BY <3>3, <3>4, <3>6, <3>10, <4>3, <4>4 DEF HeldOnce
    <3>14. NoneLeftBehind'
      <4>1. ASSUME NEW t \in Sessions \ Closed'
            PROVE  \/ \E b \in Accounts : t \in NamesIn(cache'[b])
                   \/ \E q \in Requests : call'[q].session = t
        <5>1. t \notin Closed /\ t \notin Swept(a)
          BY <2>1
        <5>2. CASE \E b \in Accounts : t \in NamesIn(cache[b])
          BY <1>0, <2>1, <3>5, <3>6, <3>10, <5>1, <5>2
        <5>3. CASE \E q \in Requests : call[q].session = t
          BY <1>0, <3>6, <5>3, SessionAssumption
        <5> QED BY <5>1, <5>2, <5>3 DEF OnePlacePerSession, NoneLeftBehind
      <4> QED BY <4>1 DEF NoneLeftBehind
    <3>15. CachedOnce' /\ IdleSessionsBounded'
      BY <3>10
    <3> QED BY <3>11, <3>12, <3>13, <3>14, <3>15 DEF OnePlacePerSession
  <2>7. \/ /\ bucket = <<>> /\ cache' = [cache EXCEPT ![a] = <<>>]
           /\ Goto(r, "connect") /\ UNCHANGED call
        \/ /\ bucket # <<>> /\ cache' = [cache EXCEPT ![a] = Without(bucket, Popped(bucket))]
           /\ call' = [call EXCEPT ![r].session = bucket[Popped(bucket)].session]
           /\ Goto(r, "noop")
        \/ Goto(r, "connect") /\ UNCHANGED <<sessions, cache, call>>
    BY DEF checkout, bucket, a
  <2> QED BY <1>1, <2>5, <2>6, <2>7
<1> QED BY <1>1, <1>2 DEF checkout, Swept

LEMMA PutBackInv ==
  ASSUME Inv, NEW r \in Requests, put_back(r)
  PROVE  Inv'
<1> DEFINE a == call[r].account
           s == call[r].session
           bucket == prune_account(cache[a])
           entry == [session |-> s, last_used_at |-> now]
<1> USE DEF Inv
<1>0. /\ a \in Accounts /\ pc[r] = "put_back" /\ Holds(r) /\ UNCHANGED <<now, faults>>
      /\ now \in Nat
  BY NumberAssumption DEF put_back, TypeOK, Holds
<1>1. CASE Goto(r, "logout") /\ UNCHANGED <<sessions, cache, call>>
  <2>1. TypeOK'
    BY <1>0, <1>1 DEF TypeOK, Holds, ProgramCounter
  <2>2. NeverOutOfStep'
    BY <1>0, <1>1 DEF NeverOutOfStep, Commands, TypeOK
  <2>3. OnePlacePerSession'
    BY <1>0, <1>1 DEF OnePlacePerSession, CachedOnce, HeldOnce, NoneLeftBehind, Closed
  <2>4. IdleSessionsBounded'
    BY <1>1 DEF IdleSessionsBounded
  <2> QED BY <2>1, <2>2, <2>3, <2>4
<1>2. CASE sessions' = Drop(Swept(a))
  <2>1. /\ bucket \in Seq(CachedSession) /\ Len(bucket) <= Len(cache[a]) /\ Distinct(bucket)
        /\ NamesIn(bucket) \in SUBSET NamesIn(cache[a])
        /\ \A i \in DOMAIN bucket : bucket[i].session \in Sessions \ Swept(a)
        /\ Swept(a) = NamesIn(cache[a]) \ NamesIn(bucket)
        /\ sessions' \in [Sessions -> Session]
        /\ \A t \in Sessions : sessions'[t].account = sessions[t].account
        /\ \A t \in Sessions \ Swept(a) : sessions'[t] = sessions[t]
        /\ Closed' = Closed \cup Swept(a)
        /\ \A q \in Requests : call[q].session \in (Sessions \ Swept(a)) \cup {NoSession}
    BY <1>0, <1>2, SweepFacts DEF Swept
  <2>2. Len(cache[a]) \in Nat /\ Len(cache[a]) <= MaxPerAccount /\ MaxPerAccount \in Nat
    BY <1>0, NumberAssumption DEF IdleSessionsBounded, TypeOK
  <2>3. \A i \in DOMAIN bucket :
           /\ bucket[i].session \in Sessions \ Closed'
           /\ sessions'[bucket[i].session].account = a
           /\ sessions'[bucket[i].session].condition # "unread"
           /\ bucket[i].session \in NamesIn(cache[a])
    BY <1>0, <1>2, SweepFacts
  <2>4. \A q \in Requests : pc[q] \in Commands \cup {"noop", "put_back"}
          => sessions'[call[q].session].condition # "unread"
    BY <1>0, <1>2, SweepFacts
  <2>5. ASSUME NEW q \in Requests, call[q].session # NoSession
        PROVE  /\ call[q].session \in Sessions
               /\ call[q].session \notin Closed' /\ call[q].session \notin Swept(a)
               /\ sessions'[call[q].session].account = call[q].account
               /\ call[q].session \notin NamesIn(cache[call[q].account])
               /\ \A other \in Requests : call[other].session = call[q].session => other = q
    <3>1. call[q].session \in Sessions \ Swept(a)
      BY <2>1, <2>5
    <3>2. call[q].session \notin Closed /\ sessions[call[q].session].account = call[q].account
          /\ call[q].session \notin NamesIn(cache[call[q].account])
          /\ \A other \in Requests : call[other].session = call[q].session => other = q
      BY <2>5 DEF OnePlacePerSession, HeldOnce
    <3> QED BY <2>1, <3>1, <3>2
  <2>6. s \in Sessions /\ s # NoSession
    BY <1>0 DEF TypeOK
  <2>7. \A q \in Requests : call[q].account \in Accounts
    BY DEF TypeOK
  <2> HIDE DEF bucket
  <2>8. CASE cache' = [cache EXCEPT ![a] = bucket] /\ Goto(r, "logout") /\ UNCHANGED call
    <3>1. Len(bucket) <= MaxPerAccount
      BY <2>1, <2>2
    <3>2. /\ cache' \in [Accounts -> Seq(CachedSession)]
          /\ cache'[a] = bucket /\ \A b \in Accounts : b # a => cache'[b] = cache[b]
          /\ CachedOnce' /\ IdleSessionsBounded'
          /\ \A b \in Accounts : \A i \in DOMAIN cache'[b] :
               sessions'[cache'[b][i].session].condition # "unread"
      BY <1>0, <1>2, <2>1, <2>3, <2>8, <3>1, SweptBuckets
    <3>3. TypeOK'
      BY <1>0, <2>1, <2>8, <3>2 DEF TypeOK, Holds, ProgramCounter
    <3>4. NeverOutOfStep'
      BY <1>0, <2>4, <2>8, <3>2 DEF NeverOutOfStep, TypeOK, Commands
    <3>5. HeldOnce'
      <4>1. \A b \in Accounts : NamesIn(cache'[b]) \in SUBSET NamesIn(cache[b])
        BY <2>1, <3>2
      <4> QED BY <2>5, <2>7, <2>8, <4>1 DEF HeldOnce
    <3>6. NoneLeftBehind'
      <4>1. NamesIn(cache'[a]) = NamesIn(bucket)
        BY <3>2
      <4> QED BY <2>1, <2>8, <3>2, <4>1 DEF OnePlacePerSession, NoneLeftBehind
    <3> QED BY <3>2, <3>3, <3>4, <3>5, <3>6 DEF OnePlacePerSession
  <2>9. CASE /\ ~NoRoom(bucket) /\ cache' = [cache EXCEPT ![a] = Append(bucket, entry)]
             /\ call' = [call EXCEPT ![r].session = NoSession] /\ Goto(r, "idle")
    <3> DEFINE part == Append(bucket, entry)
    <3>1. entry \in CachedSession /\ entry.session = s
      BY <1>0, <2>6 DEF CachedSession
    <3> HIDE DEF entry
    <3>2. Len(bucket) \in Nat /\ Len(bucket) < MaxPerAccount /\ DOMAIN bucket = 1..Len(bucket)
      BY <2>1, <2>2, <2>9 DEF NoRoom
    <3>3. /\ part \in Seq(CachedSession) /\ Len(part) = Len(bucket) + 1
          /\ DOMAIN part = 1..(Len(bucket) + 1) /\ part[Len(bucket) + 1] = entry
          /\ \A i \in DOMAIN bucket : part[i] = bucket[i]
      BY <2>1, <3>1
    <3>4. s \notin NamesIn(bucket)
      BY <2>1, <2>5, <2>6
    <3> HIDE DEF part
    <3>5. \A i \in DOMAIN part : i \in DOMAIN bucket \/ i = Len(bucket) + 1
      BY <3>2, <3>3
    <3>6. Distinct(part)
      <4>1. \A i \in DOMAIN bucket : part[i].session # s /\ part[i].session = bucket[i].session
        BY <3>3, <3>4 DEF NamesIn
      <4> QED BY <2>1, <3>1, <3>3, <3>5, <4>1 DEF Distinct
    <3>7. NamesIn(part) = NamesIn(bucket) \cup {s}
      <4>1. NamesIn(bucket) \in SUBSET NamesIn(part)
        BY <3>2, <3>3 DEF NamesIn
      <4>2. s \in NamesIn(part)
        BY <3>1, <3>2, <3>3 DEF NamesIn
      <4>3. NamesIn(part) \in SUBSET (NamesIn(bucket) \cup {s})
        BY <3>1, <3>3, <3>5 DEF NamesIn
      <4> QED BY <4>1, <4>2, <4>3
    <3>8. s \notin Closed' /\ sessions'[s].account = a /\ sessions'[s].condition # "unread"
      BY <1>0, <2>4, <2>5, <2>6
    <3>9. \A i \in DOMAIN part :
            /\ part[i].session \in Sessions \ Closed'
            /\ sessions'[part[i].session].account = a
            /\ sessions'[part[i].session].condition # "unread"
      BY <2>3, <2>6, <3>1, <3>3, <3>5, <3>8
    <3>10. Len(part) <= MaxPerAccount /\ cache' = [cache EXCEPT ![a] = part]
      BY <2>2, <2>9, <3>2, <3>3 DEF part
    <3>11. /\ cache' \in [Accounts -> Seq(CachedSession)]
           /\ cache'[a] = part /\ \A b \in Accounts : b # a => cache'[b] = cache[b]
           /\ CachedOnce' /\ IdleSessionsBounded'
           /\ \A b \in Accounts : \A i \in DOMAIN cache'[b] :
                sessions'[cache'[b][i].session].condition # "unread"
      BY <1>0, <1>2, <3>3, <3>6, <3>9, <3>10, SweptBuckets
    <3>12. /\ call' \in [Requests -> [account: Accounts, tool: Tools, session: Sessions \cup {NoSession}]]
           /\ pc' \in [Requests -> ProgramCounter] /\ pc'[r] = "idle"
           /\ call'[r].session = NoSession
           /\ \A q \in Requests : q # r => pc'[q] = pc[q] /\ call'[q] = call[q]
      BY <2>9 DEF TypeOK, ProgramCounter
    <3>13. TypeOK'
      <4>1. \A q \in Requests : Holds(q)' <=> call'[q].session # NoSession
        BY <3>12 DEF TypeOK, Holds
      <4>2. cache' \in [Accounts -> Seq(CachedSession)]
        BY <3>11
      <4> QED BY <1>0, <2>1, <3>12, <4>1, <4>2 DEF TypeOK
    <3>14. NeverOutOfStep'
      <4>1. \A b \in Accounts : \A i \in DOMAIN cache'[b] :
              sessions'[cache'[b][i].session].condition # "unread"
        BY <3>11
      <4>2. ASSUME NEW q \in Requests, pc'[q] \in Commands \cup {"noop", "put_back"}
            PROVE  sessions'[call'[q].session].condition # "unread"
        <5>1. q # r
          BY <3>12, <4>2 DEF Commands
        <5> QED BY <2>4, <3>12, <4>2, <5>1
      <4> QED BY <4>1, <4>2 DEF NeverOutOfStep
    <3>15. HeldOnce'
      <4>1. ASSUME NEW q \in Requests, call'[q].session # NoSession
            PROVE  /\ q # r /\ call'[q] = call[q] /\ call[q].session # NoSession
                   /\ call[q].session # s
                   /\ call[q].session \notin NamesIn(cache'[call[q].account])
                   /\ \A other \in Requests : call'[other].session = call[q].session => other = q
        <5>1. q # r /\ call'[q] = call[q] /\ call[q].session # NoSession
          BY <3>12, <4>1
        <5>2. call[q].session # s
          BY <2>5, <5>1
        <5>3. call[q].session \notin NamesIn(cache'[call[q].account])
          BY <2>1, <2>5, <2>7, <3>7, <3>11, <5>1, <5>2
        <5>4. \A other \in Requests : call'[other].session = call[q].session => other = q
          BY <2>5, <3>12, <5>1
        <5> QED BY <5>1, <5>2, <5>3, <5>4
      <4> QED BY <2>5, <4>1 DEF HeldOnce
    <3>16. NoneLeftBehind'
      <4>1. ASSUME NEW t \in Sessions \ Closed'
            PROVE  \/ \E b \in Accounts : t \in NamesIn(cache'[b])
                   \/ \E q \in Requests : call'[q].session = t
        <5>1. t \notin Closed /\ t \notin Swept(a)
          BY <2>1
        <5>2. CASE \E b \in Accounts : t \in NamesIn(cache[b])
          BY <1>0, <2>1, <3>7, <3>11, <5>1, <5>2
        <5>3. CASE \E q \in Requests : call[q].session = t
          <6>1. PICK q \in Requests : call[q].session = t
            BY <5>3
          <6>2. CASE q = r
            BY <1>0, <3>7, <3>11, <6>1, <6>2
          <6>3. CASE q # r
            BY <3>12, <6>1, <6>3
          <6> QED BY <6>2, <6>3
        <5> QED BY <5>1, <5>2, <5>3 DEF OnePlacePerSession, NoneLeftBehind
      <4> QED BY <4>1 DEF NoneLeftBehind
    <3>17. CachedOnce' /\ IdleSessionsBounded'
      BY <3>11
    <3> QED BY <3>13, <3>14, <3>15, <3>16, <3>17 DEF OnePlacePerSession
  <2>10. \/ cache' = [cache EXCEPT ![a] = bucket] /\ Goto(r, "logout") /\ UNCHANGED call
         \/ /\ ~NoRoom(bucket) /\ cache' = [cache EXCEPT ![a] = Append(bucket, entry)]
            /\ call' = [call EXCEPT ![r].session = NoSession] /\ Goto(r, "idle")
         \/ Goto(r, "logout") /\ UNCHANGED <<sessions, cache, call>>
    BY DEF put_back, bucket
  <2> QED BY <1>1, <2>8, <2>9, <2>10
<1> QED BY <1>1, <1>2 DEF put_back, Swept

LEMMA InitInv ==
  ASSUME Init
  PROVE  Inv
<1> USE DEF Init
<1>1. TypeOK
  <2>1. /\ now \in 0..MaxNow /\ faults \in 0..MaxFaults
    BY NumberAssumption
  <2>2. sessions \in [Sessions -> Session] /\ Closed = Sessions
    BY DEF Session, Condition, Closed
  <2>3. cache \in [Accounts -> Seq(CachedSession)]
    OBVIOUS
  <2>4. /\ pc \in [Requests -> ProgramCounter]
        /\ call \in [Requests -> [account: Accounts, tool: Tools, session: Sessions \cup {NoSession}]]
        /\ \A r \in Requests : Holds(r) <=> call[r].session # NoSession
    BY DEF ProgramCounter, Holds
  <2> QED BY <2>1, <2>2, <2>3, <2>4 DEF TypeOK
<1>2. NeverOutOfStep
  BY DEF NeverOutOfStep, Commands
<1>3. OnePlacePerSession
  <2>1. \A a \in Accounts : cache[a] = <<>> /\ NamesIn(cache[a]) = {}
    BY DEF NamesIn
  <2>2. \A s \in Sessions : s \in Closed
    BY DEF Closed
  <2>3. \A r \in Requests : call[r].session = NoSession
    OBVIOUS
  <2> QED BY <2>1, <2>2, <2>3 DEF OnePlacePerSession, CachedOnce, HeldOnce, NoneLeftBehind
<1>4. IdleSessionsBounded
  BY NumberAssumption DEF IdleSessionsBounded
<1> QED BY <1>1, <1>2, <1>3, <1>4 DEF Inv

LEMMA NextInv ==
  ASSUME Inv, [Next]_vars
  PROVE  Inv'
<1>1. CASE UNCHANGED vars
  BY <1>1 DEF Inv, TypeOK, Holds, NeverOutOfStep, OnePlacePerSession, CachedOnce, HeldOnce,
     NoneLeftBehind, Closed, IdleSessionsBounded
<1>2. CASE Tick
  BY <1>2, TickInv
<1>3. CASE \E s \in Sessions : ConnectionDropped(s)
  BY <1>3, ConnectionDroppedInv
<1>4. CASE \E r \in Requests, a \in Accounts, t \in Tools : Call(r, a, t)
  BY <1>4, CallInv
<1>5. ASSUME NEW r \in Requests, Handler(r)
      PROVE  Inv'
  <2>1. CASE checkout(r)
    BY <2>1, CheckoutInv
  <2>2. CASE discard(r) \/ logout_session_best_effort(r)
    BY <2>2, CloseInv
  <2>3. CASE connect_authenticated(r)
    BY <2>3, ConnectInv
  <2>4. CASE put_back(r)
    BY <2>4, PutBackInv
  <2>5. CASE CommandStep(r)
    BY <2>5, CommandInv
  <2>6. TypeOK
    BY DEF Inv
  <2> QED BY <1>5, <2>1, <2>2, <2>3, <2>4, <2>5, <2>6, CommandSteps DEF Handler
<1> QED BY <1>1, <1>2, <1>3, <1>4, <1>5 DEF Next

-----------------------------------------------------------------------------
(* The theorems.                                                           *)

\* Whatever the numbers of accounts, sessions and calls, the four invariants
\* of the cache and its calls hold together.
THEOREM SessionInvariant == Spec => []Inv
<1>1. Init => Inv
  BY InitInv
<1>2. Inv /\ [Next]_vars => Inv'
  BY NextInv
<1> QED BY <1>1, <1>2, PTL DEF Spec

\* Every variable of the read tools keeps its type, and a call has a session
\* exactly while its handler works with one.
THEOREM TypeCorrect == Spec => []TypeOK
<1>1. Inv => TypeOK
  BY DEF Inv
<1> QED BY <1>1, SessionInvariant, PTL

\* No read tool takes the answer to an abandoned command for its own.
THEOREM AnswersInStep == Spec => []NeverOutOfStep
<1>1. Inv => NeverOutOfStep
  BY DEF Inv
<1> QED BY <1>1, SessionInvariant, PTL

\* Every open session is in one bucket or one call, of its own account, and
\* none is left behind.
THEOREM SessionsInOnePlace == Spec => []OnePlacePerSession
<1>1. Inv => OnePlacePerSession
  BY DEF Inv
<1> QED BY <1>1, SessionInvariant, PTL

\* No account ever has more idle sessions than the configured maximum.
THEOREM IdleStaysBounded == Spec => []IdleSessionsBounded
<1>1. Inv => IdleSessionsBounded
  BY DEF Inv
<1> QED BY <1>1, SessionInvariant, PTL

\* A session taken out of the cache was idle for less than the TTL.
THEOREM ReusedFresh == Spec => FreshWhenReused
<1> DEFINE A == \A r \in Requests :
                  CheckedOut(r) => now - cache[call[r].account][EntryOf(r)].last_used_at < Ttl
<1>1. ASSUME Inv, Next PROVE A
  <2> SUFFICES ASSUME NEW r \in Requests, CheckedOut(r)
               PROVE  now - cache[call[r].account][EntryOf(r)].last_used_at < Ttl
    OBVIOUS
  <2> DEFINE a == call[r].account
             bucket == prune_account(cache[a])
  <2>0. pc \in [Requests -> ProgramCounter] /\ a \in Accounts /\ TypeOK
    BY <1>1 DEF Inv, TypeOK
  <2>1. checkout(r)
    <3>1. ASSUME NEW q \in Requests, Handler(q) PROVE q = r
      <4>1. CASE CommandStep(q)
        BY <2>0, <4>1 DEF CommandStep, CheckedOut, Commands
      <4>2. CASE \/ checkout(q) \/ discard(q) \/ logout_session_best_effort(q)
                 \/ connect_authenticated(q) \/ put_back(q)
        BY <2>0, <4>2 DEF checkout, discard, logout_session_best_effort, connect_authenticated,
           put_back, CheckedOut
      <4> QED BY <2>0, <3>1, <4>1, <4>2, CommandSteps DEF Handler
    <3>2. \E q \in Requests : Handler(q)
      BY <1>1, <2>0 DEF Next, Tick, ConnectionDropped, Call, CheckedOut
    <3>3. Handler(r)
      BY <3>1, <3>2
    <3>4. CASE CommandStep(r)
      BY <3>4 DEF CommandStep, CheckedOut, Commands
    <3> QED BY <2>0, <3>3, <3>4, CommandSteps DEF Handler, discard, logout_session_best_effort,
            connect_authenticated, put_back, CheckedOut
  <2>2. bucket # <<>> /\ call'[r].session = bucket[Len(bucket)].session
    <3>1. pc'[r] = "noop"
      BY DEF CheckedOut
    <3>2. call \in [Requests -> [account: Accounts, tool: Tools, session: Sessions \cup {NoSession}]]
      BY <2>0 DEF TypeOK
    <3> QED BY <2>0, <2>1, <3>1, <3>2 DEF checkout, Popped
  <2>3. cache[a] \in Seq(CachedSession) /\ Distinct(cache[a])
    BY <1>1, <2>0 DEF TypeOK, Inv, OnePlacePerSession, CachedOnce, Distinct
  <2>4. /\ bucket \in Seq(CachedSession)
        /\ \A i \in DOMAIN bucket : Fresh(bucket[i]) /\ \E j \in DOMAIN cache[a] : bucket[i] = cache[a][j]
    BY <2>3, PruneKeepsFresh
  <2> HIDE DEF bucket, a
  <2>5. Len(bucket) \in DOMAIN bucket
    BY <2>2, <2>4
  <2>6. PICK j \in DOMAIN cache[a] : bucket[Len(bucket)] = cache[a][j]
    BY <2>4, <2>5
  <2>7. \A i \in DOMAIN cache[a] : cache[a][i].session = call'[r].session <=> i = j
    BY <2>2, <2>3, <2>6 DEF Distinct
  <2>8. EntryOf(r) = j
    BY <2>6, <2>7 DEF EntryOf, a
  <2>9. Fresh(cache[a][j])
    BY <2>4, <2>5, <2>6
  <2> QED BY <2>8, <2>9 DEF Fresh, a
<1>2. Inv /\ [Next]_vars => [A]_vars
  BY <1>1
<1> QED BY <1>2, SessionInvariant, PTL DEF Spec, FreshWhenReused

=============================================================================
