--------------------------- MODULE CallInputsProofs ---------------------------
(* For all lists of identifiers, search filters and mailbox names, and for   *)
(* every size of numbers: what the tools make of a call is what it means.    *)
(* See IdsResolved, UidSetExact, SearchMeansFilters and NamesAgree.          *)
EXTENDS CallInputs, FiniteSetTheorems, SequenceTheorems, WellFoundedInduction, TLAPS

LEMMA LeastNatural ==
  ASSUME NEW S \in SUBSET Nat, S # {}
  PROVE  \E x \in S : \A y \in S : x <= y
<1>1. \E x \in S : \A y \in S : ~(<<y, x>> \in OpToRel(<, Nat))
  BY NatLessThanWellFounded, WFMin
<1>2. PICK x \in S : \A y \in S : ~(y < x)
  BY <1>1, Zenon DEF OpToRel
<1>3. \A y \in S : x <= y
  BY <1>2
<1> QED BY <1>3

-----------------------------------------------------------------------------
(* Recursion along a chain: f[s] is base[s], or what step makes of the value *)
(* at next[s], whose rank is smaller.                                        *)

IsChain(S, V, rank, more, next, base, step) ==
  /\ rank \in [S -> Nat] /\ more \in SUBSET S /\ next \in [more -> S]
  /\ \A s \in more : rank[next[s]] < rank[s]
  /\ base \in [S -> V] /\ step \in [S \X V -> V]

LEMMA ChainRecursion ==
  ASSUME NEW S, NEW V, NEW rank, NEW more, NEW next, NEW base, NEW step,
         IsChain(S, V, rank, more, next, base, step)
  PROVE  \E f \in [S -> V] :
           \A s \in S : f[s] = IF s \in more THEN step[<<s, f[next[s]]>>] ELSE base[s]
<1> USE DEF IsChain
<1> DEFINE Made(F, s) == IF s \in more THEN step[<<s, F[next[s]]>>] ELSE base[s]
           Good(n, F) == \A s \in S : rank[s] < n => F[s] = Made(F, s)
<1>1. ASSUME NEW F \in [S -> V], NEW G \in [S -> V], NEW n \in Nat, Good(n, F), Good(n, G),
             NEW s \in S, rank[s] < n
      PROVE  F[s] = G[s]
  <2> DEFINE apart == {r \in Nat : r < n /\ \E x \in S : rank[x] = r /\ F[x] # G[x]}
  <2> SUFFICES ASSUME F[s] # G[s] PROVE FALSE
    OBVIOUS
  <2>1. rank[s] \in apart
    BY <1>1
  <2>2. PICK r \in apart : \A q \in apart : r <= q
    BY <2>1, LeastNatural
  <2>3. PICK x \in S : rank[x] = r /\ F[x] # G[x]
    BY <2>2
  <2>4. F[x] = Made(F, x) /\ G[x] = Made(G, x)
    BY <1>1, <2>2, <2>3
  <2>5. x \in more
    BY <2>3, <2>4
  <2>6. next[x] \in S /\ rank[next[x]] \in Nat /\ rank[next[x]] < r /\ r \in Nat /\ r < n
    BY <2>2, <2>3, <2>5
  <2>7. rank[next[x]] \notin apart
    BY <2>2, <2>6
  <2>8. F[next[x]] = G[next[x]]
    BY <2>6, <2>7
  <2> QED BY <2>3, <2>4, <2>5, <2>8
<1> DEFINE Has(n) == \E F \in [S -> V] : Good(n, F)
           without == {n \in Nat : ~Has(n)}
<1>2. Has(0)
  <2>1. Good(0, base)
    OBVIOUS
  <2> QED BY <2>1
<1>3. ASSUME NEW n \in Nat, Has(n) PROVE Has(n + 1)
  <2>1. PICK F \in [S -> V] : Good(n, F)
    BY <1>3
  <2> DEFINE G == [s \in S |-> IF rank[s] < n THEN F[s] ELSE Made(F, s)]
  <2>2. \A s \in S : Made(F, s) \in V
    OBVIOUS
  <2>3. G \in [S -> V]
    BY <2>2
  <2>4. ASSUME NEW s \in S, rank[s] < n + 1 PROVE G[s] = Made(G, s)
    <3>1. G[s] = Made(F, s)
      BY <2>1
    <3>2. CASE s \in more
      <4>1. next[s] \in S /\ rank[next[s]] < n
        BY <2>4, <3>2
      <4>2. G[next[s]] = F[next[s]]
        BY <4>1
      <4> QED BY <3>1, <3>2, <4>2
    <3> QED BY <3>1, <3>2
  <2>5. Good(n + 1, G)
    BY <2>4
  <2> QED BY <2>3, <2>5
<1> HIDE DEF Has
<1>4. \A n \in Nat : Has(n)
  <2> SUFFICES ASSUME without # {} PROVE FALSE
    OBVIOUS
  <2>1. PICK n \in without : \A m \in without : n <= m
    BY LeastNatural
  <2>2. n \in Nat /\ n # 0 /\ ~Has(n)
    BY <1>2, <2>1
  <2>3. n - 1 \in Nat /\ (n - 1) + 1 = n /\ n - 1 \notin without
    BY <2>1, <2>2
  <2> QED BY <1>3, <2>2, <2>3
<1> USE DEF Has
<1> DEFINE Solved(n) == CHOOSE F \in [S -> V] : Good(n, F)
<1>5. \A n \in Nat : Solved(n) \in [S -> V] /\ Good(n, Solved(n))
  <2> HIDE DEF Good
  <2> QED BY <1>4
<1> HIDE DEF Solved
<1> DEFINE f == [s \in S |-> Solved(rank[s] + 1)[s]]
<1>6. f \in [S -> V]
  BY <1>5
<1>7. ASSUME NEW s \in S PROVE f[s] = Made(f, s)
  <2> DEFINE n == rank[s] + 1
  <2>1. n \in Nat /\ Solved(n) \in [S -> V] /\ Good(n, Solved(n)) /\ rank[s] < n
    BY <1>5
  <2>2. f[s] = Made(Solved(n), s)
    BY <2>1
  <2>3. CASE s \in more
    <3> DEFINE t == next[s]
               m == rank[t] + 1
    <3>1. t \in S /\ m \in Nat /\ rank[t] < m /\ m <= n
      BY <2>3
    <3>2. Solved(m) \in [S -> V] /\ Good(m, Solved(m))
      BY <1>5, <3>1
    <3>3. Good(m, Solved(n))
      BY <2>1, <3>1
    <3>4. Solved(m)[t] = Solved(n)[t]
      <4> HIDE DEF Good, m, n
      <4> QED BY <1>1, <2>1, <3>1, <3>2, <3>3
    <3>5. f[t] = Solved(n)[t]
      BY <3>1, <3>4
    <3> QED BY <2>2, <2>3, <3>5
  <2> QED BY <2>2, <2>3
<1> QED BY <1>6, <1>7

\* In a loop over lo..hi.
IsLoop(lo, hi, V, start, step) ==
  lo \in Nat /\ hi \in Nat /\ start \in V /\ step \in [(lo..hi) \X V -> V]

LEMMA LoopRecursion ==
  ASSUME NEW lo, NEW hi, NEW V, NEW start, NEW step, IsLoop(lo, hi, V, start, step)
  PROVE  \E f \in [lo..hi -> V] :
           \A n \in lo..hi : f[n] = IF n = lo THEN start ELSE step[<<n, f[n - 1]>>]
<1> USE DEF IsLoop
<1> DEFINE S == lo..hi
           more == (lo + 1)..hi
           next == [n \in more |-> n - 1]
           rank == [n \in S |-> n]
           base == [n \in S |-> start]
<1>1. /\ rank \in [S -> Nat] /\ more \in SUBSET S /\ next \in [more -> S]
      /\ \A n \in more : rank[next[n]] < rank[n]
      /\ base \in [S -> V]
  OBVIOUS
<1>2. \E f \in [S -> V] :
        \A n \in S : f[n] = IF n \in more THEN step[<<n, f[next[n]]>>] ELSE base[n]
  <2> HIDE DEF S, more, next, rank, base
  <2>1. IsChain(S, V, rank, more, next, base, step)
    BY <1>1 DEF S, IsChain
  <2> QED BY <2>1, ChainRecursion
<1>3. PICK f \in [S -> V] :
        \A n \in S : f[n] = IF n \in more THEN step[<<n, f[next[n]]>>] ELSE base[n]
  BY <1>2
<1>4. ASSUME NEW n \in S PROVE f[n] = IF n = lo THEN start ELSE step[<<n, f[n - 1]>>]
  <2>1. CASE n = lo
    <3>1. n \notin more /\ base[n] = start
      BY <2>1
    <3> HIDE DEF more, next, base
    <3> QED BY <1>3, <2>1, <3>1
  <2>2. CASE n # lo
    <3>1. n \in more /\ next[n] = n - 1
      BY <2>2
    <3>2. f[n] = step[<<n, f[next[n]]>>]
      <4> HIDE DEF more, next, base
      <4> QED BY <1>3, <3>1
    <3> QED BY <2>2, <3>1, <3>2
  <2> QED BY <2>1, <2>2
<1> QED BY <1>4

\* What holds at the start of a loop and is kept by every step holds at the end.
LEMMA LoopInduction ==
  ASSUME NEW lo \in Nat, NEW hi \in Nat, NEW S, lo \in S,
         \A n \in (lo + 1)..hi : n - 1 \in S => n \in S
  PROVE  \A n \in lo..hi : n \in S
<1> DEFINE missed == {n \in lo..hi : n \notin S}
<1> SUFFICES ASSUME missed # {} PROVE FALSE
  OBVIOUS
<1>1. missed \in SUBSET Nat
  OBVIOUS
<1>2. PICK n \in missed : \A m \in missed : n <= m
  BY <1>1, LeastNatural
<1>3. n \in (lo + 1)..hi /\ n - 1 \in lo..hi /\ n - 1 \notin missed
  BY <1>2
<1> QED BY <1>2, <1>3

-----------------------------------------------------------------------------
(* Texts and identifiers.                                                    *)

LEMMA ParseTyped ==
  ASSUME NEW raw \in Segments, Parses(raw)
  PROVE  /\ parse(raw) \in MessageId
         /\ Len(parse(raw).mailbox) = Len(raw) - 4
         /\ \A i \in 1..(Len(raw) - 4) : parse(raw).mailbox[i] = raw[i + 2]
<1> DEFINE n == Len(raw)
           mailbox == SubSeq(raw, 3, n - 2)
<1>1. n \in Nat /\ n >= 5 /\ \A i \in 1..n : raw[i] \in STRING
  BY DEF Segments, Parses
<1>2. /\ mailbox \in Seq(STRING) /\ Len(mailbox) = n - 4
      /\ \A i \in 1..(n - 4) : mailbox[i] = raw[i + 2]
  <2>1. \A i \in 3..(n - 2) : raw[i] \in STRING
    BY <1>1
  <2>2. 3 \in Int /\ n - 2 \in Int /\ 3 <= n - 2 /\ (n - 2) - 3 + 1 = n - 4
    BY <1>1
  <2>3. /\ mailbox \in Seq(STRING) /\ Len(mailbox) = (n - 2) - 3 + 1
        /\ \A i \in 1..((n - 2) - 3 + 1) : mailbox[i] = raw[3 + i - 1]
    <3> HIDE DEF n
    <3> QED BY <2>1, <2>2, SubSeqProperties
  <2>4. \A i \in 1..(n - 4) : 3 + i - 1 = i + 2
    BY <1>1
  <2> HIDE DEF mailbox, n
  <2> QED BY <2>2, <2>3, <2>4
<1>3. raw[2] \in STRING /\ Numeral[raw[n - 1]] \in U32 /\ Numeral[raw[n]] \in U32
  <2>1. raw[n - 1] \in DOMAIN Numeral /\ raw[n] \in DOMAIN Numeral
    BY Zenon DEF Parses
  <2>2. \A word \in DOMAIN Numeral : Numeral[word] \in U32
    BY NumeralAssumption
  <2>3. 2 \in 1..n
    BY <1>1
  <2> HIDE DEF n
  <2> QED BY <1>1, <2>1, <2>2, <2>3
<1>4. parse(raw) = [account_id |-> raw[2], mailbox |-> mailbox,
                    uidvalidity |-> Numeral[raw[n - 1]], uid |-> Numeral[raw[n]]]
  BY DEF parse
<1> HIDE DEF mailbox, n
<1>5. parse(raw) \in MessageId /\ parse(raw).mailbox = mailbox
  BY <1>2, <1>3, <1>4 DEF MessageId, Segments
<1> QED BY <1>2, <1>5 DEF n

\* A text that parses names the message parse gives, and no other.
LEMMA ParseNames ==
  ASSUME NEW raw \in Segments, Parses(raw), NEW id \in MessageId
  PROVE  NamesMessage(raw, id) <=> parse(raw) = id
<1> DEFINE n == Len(raw)
           p == parse(raw)
<1>1. n \in Nat /\ n >= 5 /\ raw[1] = "imap" /\ {raw[n], raw[n - 1]} \subseteq DOMAIN Numeral
  BY DEF Segments, Parses
<1>2. /\ p \in MessageId /\ Len(p.mailbox) = n - 4
      /\ \A i \in 1..(n - 4) : p.mailbox[i] = raw[i + 2]
  BY ParseTyped
<1>3. /\ p.account_id = raw[2] /\ p.uidvalidity = Numeral[raw[n - 1]] /\ p.uid = Numeral[raw[n]]
  BY DEF parse
<1>4. id.mailbox \in Seq(STRING) /\ p.mailbox \in Seq(STRING)
  BY <1>2 DEF MessageId, Segments
<1> HIDE DEF p
<1>5. p.mailbox = id.mailbox <=> n = Len(id.mailbox) + 4
                                 /\ \A i \in DOMAIN id.mailbox : raw[i + 2] = id.mailbox[i]
  <2>1. ASSUME p.mailbox = id.mailbox
        PROVE  n = Len(id.mailbox) + 4 /\ \A i \in DOMAIN id.mailbox : raw[i + 2] = id.mailbox[i]
    <3>1. Len(id.mailbox) = n - 4 /\ \A i \in 1..(n - 4) : id.mailbox[i] = raw[i + 2]
      BY <1>2, <2>1
    <3>2. n = Len(id.mailbox) + 4 /\ DOMAIN id.mailbox = 1..(n - 4)
      BY <1>1, <1>4, <3>1
    <3> QED BY <3>1, <3>2
  <2>2. ASSUME n = Len(id.mailbox) + 4, \A i \in DOMAIN id.mailbox : raw[i + 2] = id.mailbox[i]
        PROVE  p.mailbox = id.mailbox
    <3>1. Len(p.mailbox) = Len(id.mailbox) /\ Len(id.mailbox) = n - 4
      BY <1>1, <1>2, <1>4, <2>2
    <3>2. ASSUME NEW i \in 1..Len(p.mailbox) PROVE p.mailbox[i] = id.mailbox[i]
      <4>1. i \in 1..(n - 4) /\ i \in DOMAIN id.mailbox
        BY <1>4, <3>1
      <4> QED BY <1>2, <2>2, <4>1
    <3> HIDE DEF n
    <3> QED BY <1>4, <3>1, <3>2, SeqEqual
  <2> QED BY <2>1, <2>2
<1>6. p = id <=> /\ p.account_id = id.account_id /\ p.mailbox = id.mailbox
                 /\ p.uidvalidity = id.uidvalidity /\ p.uid = id.uid
  BY <1>2 DEF MessageId
<1>7. NamesMessage(raw, id) <=>
        /\ n = Len(id.mailbox) + 4
        /\ \A i \in DOMAIN id.mailbox : raw[i + 2] = id.mailbox[i]
        /\ raw[2] = id.account_id
        /\ Numeral[raw[n - 1]] = id.uidvalidity /\ Numeral[raw[n]] = id.uid
  BY <1>1 DEF NamesMessage
<1> QED BY <1>3, <1>5, <1>6, <1>7 DEF p

\* A text that names a message there may be parses.
LEMMA NamesParses ==
  ASSUME NEW raw \in Segments, NEW id \in MessageId, validate_mailbox(id.mailbox),
         NamesMessage(raw, id)
  PROVE  Parses(raw)
<1> DEFINE n == Len(raw)
           mailbox == SubSeq(raw, 3, n - 2)
<1>1. /\ n \in Nat /\ n = Len(id.mailbox) + 4 /\ raw[1] = "imap"
      /\ \A i \in DOMAIN id.mailbox : raw[i + 2] = id.mailbox[i]
      /\ {raw[n], raw[n - 1]} \subseteq DOMAIN Numeral
  BY DEF Segments, NamesMessage
<1>2. id.mailbox \in Seq(STRING) /\ Len(id.mailbox) # 0
  <2>1. id.mailbox \in Seq(STRING) /\ id.mailbox # <<>>
    BY DEF MessageId, Segments, validate_mailbox
  <2> QED BY <2>1, EmptySeq
<1>3. n >= 5 /\ n - 2 \in Int /\ (n - 2) - 3 + 1 = Len(id.mailbox) /\ 3 <= n - 2
  BY <1>1, <1>2
<1>4. \A i \in 3..(n - 2) : raw[i] \in STRING
  BY <1>1, <1>3 DEF Segments
<1>5. /\ mailbox \in Seq(STRING) /\ Len(mailbox) = Len(id.mailbox)
      /\ \A i \in 1..Len(id.mailbox) : mailbox[i] = raw[3 + i - 1]
  <2> HIDE DEF n
  <2> QED BY <1>3, <1>4, SubSeqProperties
<1>6. \A i \in 1..Len(mailbox) : mailbox[i] = id.mailbox[i]
  <2> HIDE DEF n, mailbox
  <2>1. ASSUME NEW i \in 1..Len(mailbox) PROVE mailbox[i] = id.mailbox[i]
    <3>1. i \in DOMAIN id.mailbox /\ 3 + i - 1 = i + 2
      BY <1>2, <1>5
    <3> QED BY <1>1, <1>5, <3>1
  <2> QED BY <2>1
<1>7. mailbox = id.mailbox
  <2> HIDE DEF n, mailbox
  <2> QED BY <1>2, <1>5, <1>6, SeqEqual
<1> QED BY <1>1, <1>3, <1>7 DEF Parses

LEMMA EncodeNames ==
  ASSUME NEW id \in MessageId
  PROVE  NamesMessage(encode(id), id)
<1> DEFINE T == {"imap"} \cup STRING \cup DOMAIN Numeral
           head == <<"imap", id.account_id>>
           tail == <<Decimal[id.uidvalidity], Decimal[id.uid]>>
           m == Len(id.mailbox)
<1>1. /\ id.mailbox \in Seq(STRING) /\ id.account_id \in STRING
      /\ id.uidvalidity \in U32 /\ id.uid \in U32
  BY DEF MessageId, Segments
<1>2. /\ Decimal[id.uidvalidity] \in DOMAIN Numeral /\ Decimal[id.uid] \in DOMAIN Numeral
      /\ Numeral[Decimal[id.uidvalidity]] = id.uidvalidity /\ Numeral[Decimal[id.uid]] = id.uid
  BY <1>1, NumeralAssumption
<1>3. head \in Seq(T) /\ id.mailbox \in Seq(T) /\ tail \in Seq(T) /\ m \in Nat
      /\ Len(head) = 2 /\ Len(tail) = 2
  <2>1. head \in Seq(T) /\ tail \in Seq(T) /\ Len(head) = 2 /\ Len(tail) = 2
    <3>1. /\ "imap" \in T /\ id.account_id \in T
          /\ Decimal[id.uidvalidity] \in T /\ Decimal[id.uid] \in T
      BY <1>1, <1>2, Zenon
    <3> HIDE DEF T
    <3> QED BY <3>1
  <2>2. id.mailbox \in Seq(T)
    <3>1. STRING \subseteq T
      OBVIOUS
    <3> HIDE DEF T
    <3> QED BY <1>1, <3>1, SeqMonotonic
  <2>3. m \in Nat
    BY <1>1
  <2> QED BY <2>1, <2>2, <2>3
<1>4. /\ head \o id.mailbox \in Seq(T) /\ Len(head \o id.mailbox) = m + 2
      /\ \A i \in 1..(m + 2) : (head \o id.mailbox)[i] = IF i <= 2 THEN head[i] ELSE id.mailbox[i - 2]
  BY <1>3, ConcatProperties
<1>5. /\ Len(encode(id)) = m + 4
      /\ \A i \in 1..(m + 4) :
           encode(id)[i] = IF i <= m + 2 THEN (head \o id.mailbox)[i] ELSE tail[i - (m + 2)]
  BY <1>3, <1>4, ConcatProperties DEF encode
<1>6. encode(id)[1] = "imap" /\ encode(id)[2] = id.account_id
  BY <1>3, <1>4, <1>5
<1>7. \A i \in DOMAIN id.mailbox : encode(id)[i + 2] = id.mailbox[i]
  <2>1. ASSUME NEW i \in 1..m PROVE encode(id)[i + 2] = id.mailbox[i]
    <3>1. i + 2 \in 1..(m + 2) /\ i + 2 \in 1..(m + 4) /\ ~(i + 2 <= 2) /\ (i + 2) - 2 = i
          /\ i + 2 <= m + 2
      BY <1>3
    <3> HIDE DEF head, tail, m
    <3> QED BY <1>4, <1>5, <3>1
  <2> QED BY <1>1, <2>1
<1>8. encode(id)[m + 3] = Decimal[id.uidvalidity] /\ encode(id)[m + 4] = Decimal[id.uid]
  <2>1. /\ m + 3 \in 1..(m + 4) /\ m + 4 \in 1..(m + 4)
        /\ ~(m + 3 <= m + 2) /\ ~(m + 4 <= m + 2) /\ (m + 3) - (m + 2) = 1 /\ (m + 4) - (m + 2) = 2
    BY <1>3
  <2>2. encode(id)[m + 3] = tail[1] /\ encode(id)[m + 4] = tail[2]
    <3> HIDE DEF head, tail, m
    <3> QED BY <1>5, <2>1
  <2> QED BY <2>2
<1>9. (m + 4) - 1 = m + 3
  BY <1>3
<1> QED BY <1>2, <1>5, <1>6, <1>7, <1>8, <1>9 DEF NamesMessage

LEMMA EncodeInjective ==
  ASSUME NEW id \in MessageId, NEW other \in MessageId, encode(id) = encode(other)
  PROVE  id = other
<1>1. NamesMessage(encode(id), id) /\ NamesMessage(encode(id), other)
  BY EncodeNames
<1>2. /\ id.mailbox \in Seq(STRING) /\ other.mailbox \in Seq(STRING)
      /\ Len(id.mailbox) = Len(other.mailbox)
      /\ \A i \in 1..Len(id.mailbox) : id.mailbox[i] = other.mailbox[i]
  BY <1>1 DEF MessageId, Segments, NamesMessage
<1>3. id.mailbox = other.mailbox
  BY <1>2, SeqEqual
<1>4. /\ id.account_id = other.account_id
      /\ id.uidvalidity = other.uidvalidity /\ id.uid = other.uid
  BY <1>1 DEF NamesMessage
<1> QED BY <1>3, <1>4 DEF MessageId

-----------------------------------------------------------------------------
(* Duplicates.                                                               *)

LEMMA KeepsOnce ==
  ASSUME NEW seen \in Seq(MessageId), NEW id \in MessageId
  PROVE  Keep(seen, id) = IF \E i \in DOMAIN seen : seen[i] = id THEN seen ELSE Append(seen, id)
<1>1. \A i \in DOMAIN seen : seen[i] \in MessageId /\ (encode(seen[i]) = encode(id) <=> seen[i] = id)
  <2>1. ASSUME NEW i \in DOMAIN seen, encode(seen[i]) = encode(id) PROVE seen[i] = id
    <3>1. seen[i] \in MessageId
      OBVIOUS
    <3> QED BY <2>1, <3>1, EncodeInjective
  <2> QED BY <2>1
<1> QED BY <1>1 DEF Keep

\* The loop has a value at each of its steps.
LEMMA ResolvedExists ==
  ASSUME NEW raws \in Seq(Segments), \A i \in DOMAIN raws : Parses(raws[i])
  PROVE  \E f : f = [n \in 0..Len(raws) |->
                       IF n = 0 THEN <<>> ELSE Keep(f[n - 1], parse(raws[n]))]
<1> DEFINE N == Len(raws)
           V == Seq(MessageId)
           step == [p \in (0..N) \X V |-> IF p[1] = 0 THEN <<>> ELSE Keep(p[2], parse(raws[p[1]]))]
<1>1. N \in Nat /\ 0 \in Nat /\ DOMAIN raws = 1..N
  OBVIOUS
<1>2. ASSUME NEW n \in 1..N, NEW seen \in V PROVE Keep(seen, parse(raws[n])) \in V
  <2>1. parse(raws[n]) \in MessageId
    BY ParseTyped
  <2>2. Append(seen, parse(raws[n])) \in V
    BY <2>1
  <2> QED BY <2>1, <2>2, KeepsOnce
<1>3. <<>> \in V
  OBVIOUS
<1>4. step \in [(0..N) \X V -> V]
  <2> HIDE DEF V, N
  <2>1. \A p \in (0..N) \X V : (IF p[1] = 0 THEN <<>> ELSE Keep(p[2], parse(raws[p[1]]))) \in V
    BY <1>1, <1>2, <1>3
  <2> QED BY <2>1
<1>5. \E f \in [0..N -> V] : \A n \in 0..N : f[n] = IF n = 0 THEN <<>> ELSE step[<<n, f[n - 1]>>]
  <2> HIDE DEF V, N, step
  <2>1. IsLoop(0, N, V, <<>>, step)
    BY <1>1, <1>3, <1>4 DEF IsLoop
  <2> QED BY <2>1, LoopRecursion
<1>6. PICK f \in [0..N -> V] :
        \A n \in 0..N : f[n] = IF n = 0 THEN <<>> ELSE step[<<n, f[n - 1]>>]
  BY <1>5
<1>7. \A n \in 0..N : f[n] = IF n = 0 THEN <<>> ELSE Keep(f[n - 1], parse(raws[n]))
  <2> HIDE DEF V
  <2>1. ASSUME NEW n \in 0..N, n # 0 PROVE f[n] = Keep(f[n - 1], parse(raws[n]))
    <3>1. n - 1 \in 0..N /\ f[n - 1] \in V /\ <<n, f[n - 1]>> \in (0..N) \X V
      BY <1>1, <2>1
    <3>2. f[n] = step[<<n, f[n - 1]>>]
      BY <1>6, <2>1
    <3> QED BY <2>1, <3>1, <3>2
  <2> QED BY <1>6, <2>1
<1> HIDE DEF V, step
<1>8. f = [n \in 0..N |-> IF n = 0 THEN <<>> ELSE Keep(f[n - 1], parse(raws[n]))]
  BY <1>7
<1> QED BY <1>8

\* What is left are the messages named, each once, in the order they were
\* first named.
LEMMA Deduped ==
  ASSUME NEW raws \in Seq(Segments), \A i \in DOMAIN raws : Parses(raws[i])
  PROVE  LET ids == dedupe_and_parse_message_ids(raws) IN
         /\ ids \in Seq(MessageId)
         /\ \A i \in DOMAIN raws : \E k \in DOMAIN ids : ids[k] = parse(raws[i])
         /\ \A k \in DOMAIN ids : \E i \in DOMAIN raws : parse(raws[i]) = ids[k]
         /\ \A k, l \in DOMAIN ids : k < l =>
              /\ ids[k] # ids[l]
              /\ \E i \in DOMAIN raws : parse(raws[i]) = ids[k]
                   /\ \A j \in DOMAIN raws : parse(raws[j]) = ids[l] => i < j
<1> DEFINE N == Len(raws)
           Step(F, n) == IF n = 0 THEN <<>> ELSE Keep(F[n - 1], parse(raws[n]))
           kept == CHOOSE F : F = [n \in 0..Len(raws) |-> Step(F, n)]
           Covers(ids, n) == \A i \in 1..n : \E k \in DOMAIN ids : ids[k] = parse(raws[i])
           Named(ids, n) == \A k \in DOMAIN ids : \E i \in 1..n : parse(raws[i]) = ids[k]
           InOrder(ids, n) ==
             \A k, l \in DOMAIN ids : k < l =>
               /\ ids[k] # ids[l]
               /\ \E i \in 1..n : parse(raws[i]) = ids[k]
                    /\ \A j \in 1..n : parse(raws[j]) = ids[l] => i < j
           Good(n) == /\ kept[n] \in Seq(MessageId)
                      /\ Covers(kept[n], n) /\ Named(kept[n], n) /\ InOrder(kept[n], n)
           good == {n \in 0..N : Good(n)}
<1>0. N \in Nat /\ DOMAIN raws = 1..N
  OBVIOUS
<1>1. kept = [n \in 0..N |-> Step(kept, n)]
  BY ResolvedExists
<1>2. dedupe_and_parse_message_ids(raws) = kept[N]
  BY DEF dedupe_and_parse_message_ids
<1>3. \A n \in 0..N : kept[n] = Step(kept, n)
  <2> HIDE DEF kept, Step
  <2> QED BY <1>1
<1> HIDE DEF kept
<1>4. 0 \in good
  <2>1. kept[0] = <<>>
    BY <1>0, <1>3
  <2>2. Covers(<<>>, 0) /\ Named(<<>>, 0) /\ InOrder(<<>>, 0) /\ <<>> \in Seq(MessageId)
    <3>1. DOMAIN <<>> = {} /\ 1..0 = {}
      OBVIOUS
    <3> QED BY <3>1
  <2> HIDE DEF Covers, Named, InOrder
  <2>3. Good(0)
    BY <2>1, <2>2, Zenon
  <2>4. 0 \in 0..N
    BY <1>0
  <2> HIDE DEF Good
  <2> QED BY <2>3, <2>4
<1>5. ASSUME NEW n \in (0 + 1)..N, n - 1 \in good
      PROVE  n \in good
  <2> DEFINE old == kept[n - 1]
             id == parse(raws[n])
  <2>1. /\ n \in 0..N /\ n # 0 /\ n - 1 \in Nat /\ n \in DOMAIN raws
        /\ \A i \in 1..n : i \in 1..(n - 1) \/ i = n
    BY <1>0
  <2>2. id \in MessageId
    BY <2>1, ParseTyped
  <2>3. Good(n - 1)
    BY <1>5
  <2>4. kept[n] = Keep(old, id)
    BY <1>3, <2>1
  <2> HIDE DEF id
  <2>5. CASE \E i \in DOMAIN old : old[i] = id
    <3>1. kept[n] = old
      BY <2>2, <2>3, <2>4, <2>5, KeepsOnce
    <3>2. Covers(old, n)
      BY <2>1, <2>3, <2>5 DEF id
    <3>3. Named(old, n)
      BY <2>1, <2>3
    <3>4. ASSUME NEW k \in DOMAIN old, NEW l \in DOMAIN old, k < l
          PROVE  /\ old[k] # old[l]
                 /\ \E i \in 1..n : parse(raws[i]) = old[k]
                      /\ \A j \in 1..n : parse(raws[j]) = old[l] => i < j
      <4>1. PICK i \in 1..(n - 1) : parse(raws[i]) = old[k]
                   /\ \A j \in 1..(n - 1) : parse(raws[j]) = old[l] => i < j
        BY <2>3, <3>4
      <4>2. i \in 1..n /\ \A j \in 1..n : parse(raws[j]) = old[l] => i < j
        BY <2>1, <4>1
      <4> QED BY <2>3, <3>4, <4>1, <4>2
    <3>5. InOrder(old, n)
      BY <3>4
    <3> HIDE DEF Covers, Named, InOrder
    <3> QED BY <2>1, <2>3, <3>1, <3>2, <3>3, <3>5
  <2>6. CASE ~\E i \in DOMAIN old : old[i] = id
    <3> DEFINE new == Append(old, id)
               last == Len(old) + 1
    <3>1. kept[n] = new
      BY <2>2, <2>3, <2>4, <2>6, KeepsOnce
    <3>2. /\ old \in Seq(MessageId) /\ new \in Seq(MessageId) /\ last \in Nat
          /\ DOMAIN old = 1..(last - 1) /\ DOMAIN new = 1..last /\ new[last] = id
          /\ \A k \in DOMAIN old : new[k] = old[k]
      <4>1. old \in Seq(MessageId)
        BY <2>3
      <4> HIDE DEF old
      <4> QED BY <2>2, <4>1
    <3>3. \A k \in DOMAIN new : k \in DOMAIN old \/ k = last
      BY <3>2
    <3>4. Covers(old, n - 1) /\ Named(old, n - 1) /\ InOrder(old, n - 1)
      BY <2>3
    <3> HIDE DEF old, new, last, kept, Good
    <3>5. Covers(new, n)
      <4>1. ASSUME NEW i \in 1..(n - 1) PROVE \E k \in DOMAIN new : new[k] = parse(raws[i])
        <5>1. PICK k \in DOMAIN old : old[k] = parse(raws[i])
          BY <3>4
        <5>2. k \in DOMAIN new /\ new[k] = parse(raws[i])
          BY <3>2, <5>1
        <5> QED BY <5>2
      <4>2. last \in DOMAIN new /\ new[last] = parse(raws[n])
        BY <3>2 DEF id, last
      <4> QED BY <2>1, <4>1, <4>2
    <3>6. Named(new, n)
      <4>1. ASSUME NEW k \in DOMAIN old PROVE \E i \in 1..n : parse(raws[i]) = new[k]
        <5>1. PICK i \in 1..(n - 1) : parse(raws[i]) = old[k]
          BY <3>4
        <5>2. i \in 1..n /\ new[k] = old[k]
          BY <2>1, <3>2
        <5> QED BY <5>1, <5>2
      <4>2. n \in 1..n /\ new[last] = parse(raws[n])
        BY <2>1, <3>2 DEF id
      <4> QED BY <3>3, <4>1, <4>2
    <3>7. ASSUME NEW k \in DOMAIN new, NEW l \in DOMAIN new, k < l
          PROVE  /\ new[k] # new[l]
                 /\ \E i \in 1..n : parse(raws[i]) = new[k]
                      /\ \A j \in 1..n : parse(raws[j]) = new[l] => i < j
      <4>1. k \in DOMAIN old
        BY <3>2, <3>3, <3>7
      <4>2. CASE l \in DOMAIN old
        <5>1. PICK i \in 1..(n - 1) : parse(raws[i]) = old[k]
                     /\ \A j \in 1..(n - 1) : parse(raws[j]) = old[l] => i < j
          BY <3>4, <3>7, <4>1, <4>2
        <5>2. old[k] # old[l]
          BY <3>4, <3>7, <4>1, <4>2
        <5>3. i \in 1..n /\ \A j \in 1..n : parse(raws[j]) = old[l] => i < j
          BY <2>1, <2>6, <4>2, <5>1 DEF id
        <5> QED BY <3>2, <4>1, <4>2, <5>1, <5>2, <5>3
      <4>3. CASE l = last
        <5>1. PICK i \in 1..(n - 1) : parse(raws[i]) = old[k]
          BY <3>4, <4>1
        <5>2. new[l] = id /\ new[k] = old[k] /\ old[k] # id
          BY <2>6, <3>2, <4>1, <4>3
        <5>3. \A j \in 1..(n - 1) : parse(raws[j]) # id
          BY <2>6, <3>4
        <5>4. i \in 1..n /\ \A j \in 1..n : parse(raws[j]) = id => i < j
          BY <2>1, <5>1, <5>3
        <5> QED BY <5>1, <5>2, <5>4
      <4> QED BY <3>3, <4>2, <4>3
    <3>8. InOrder(new, n)
      BY <3>7
    <3> HIDE DEF Covers, Named, InOrder
    <3> QED BY <2>1, <3>1, <3>2, <3>5, <3>6, <3>8 DEF Good
  <2> QED BY <2>5, <2>6
<1> HIDE DEF Good
<1>6. \A n \in 0..N : n \in good
  <2> HIDE DEF good, N
  <2> QED BY <1>0, <1>4, <1>5, LoopInduction
<1>7. Good(N)
  BY <1>0, <1>6
<1> DEFINE ids == dedupe_and_parse_message_ids(raws)
<1>8. ids \in Seq(MessageId) /\ Covers(ids, N) /\ Named(ids, N) /\ InOrder(ids, N)
  <2> HIDE DEF Covers, Named, InOrder
  <2> QED BY <1>2, <1>7 DEF Good
<1> HIDE DEF ids
<1>9. /\ ids \in Seq(MessageId)
      /\ \A i \in DOMAIN raws : \E k \in DOMAIN ids : ids[k] = parse(raws[i])
      /\ \A k \in DOMAIN ids : \E i \in DOMAIN raws : parse(raws[i]) = ids[k]
      /\ \A k, l \in DOMAIN ids : k < l =>
           /\ ids[k] # ids[l]
           /\ \E i \in DOMAIN raws : parse(raws[i]) = ids[k]
                /\ \A j \in DOMAIN raws : parse(raws[j]) = ids[l] => i < j
  <2>1. DOMAIN raws = 1..N
    BY <1>0
  <2> HIDE DEF N
  <2>2. \A k, l \in DOMAIN ids : k < l =>
           /\ ids[k] # ids[l]
           /\ \E i \in 1..N : parse(raws[i]) = ids[k]
                /\ \A j \in 1..N : parse(raws[j]) = ids[l] => i < j
    BY <1>8
  <2>3. ASSUME NEW k \in DOMAIN ids, NEW l \in DOMAIN ids, k < l
        PROVE  /\ ids[k] # ids[l]
               /\ \E i \in DOMAIN raws : parse(raws[i]) = ids[k]
                    /\ \A j \in DOMAIN raws : parse(raws[j]) = ids[l] => i < j
    <3>1. ids[k] # ids[l]
      BY <2>2, <2>3
    <3>2. PICK i \in 1..N : parse(raws[i]) = ids[k]
                  /\ \A j \in 1..N : parse(raws[j]) = ids[l] => i < j
      BY <2>2, <2>3
    <3>3. i \in DOMAIN raws /\ \A j \in DOMAIN raws : parse(raws[j]) = ids[l] => i < j
      BY <2>1, <3>2
    <3> QED BY <3>1, <3>2, <3>3
  <2>4. /\ \A i \in DOMAIN raws : \E k \in DOMAIN ids : ids[k] = parse(raws[i])
        /\ \A k \in DOMAIN ids : \E i \in DOMAIN raws : parse(raws[i]) = ids[k]
    BY <1>8, <2>1
  <2> QED BY <1>8, <2>3, <2>4, Zenon
<1> QED BY <1>9 DEF ids

-----------------------------------------------------------------------------
(* Groups.                                                                   *)

LEMMA GroupedExists ==
  ASSUME NEW ids \in Seq(MessageId)
  PROVE  \E f : f = [n \in 0..Len(ids) |-> IF n = 0 THEN <<>> ELSE Push(f[n - 1], ids[n])]
<1> DEFINE N == Len(ids)
           Keys == {GroupOf(ids[i]) : i \in DOMAIN ids}
           V == UNION {[K -> Seq(MessageId)] : K \in SUBSET Keys}
           step == [p \in (0..N) \X V |-> IF p[1] = 0 THEN <<>> ELSE Push(p[2], ids[p[1]])]
<1>1. N \in Nat /\ DOMAIN ids = 1..N
  OBVIOUS
<1>2. <<>> \in V
  <2>1. <<>> \in Seq(MessageId) /\ Len(<<>>) = 0 /\ 1..0 = {}
    OBVIOUS
  <2>2. <<>> \in [{} -> Seq(MessageId)]
    <3>1. <<>> \in Seq(Seq(MessageId))
      OBVIOUS
    <3> QED BY <2>1, <3>1, LenProperties
  <2>3. {} \in SUBSET Keys
    OBVIOUS
  <2> HIDE DEF Keys
  <2> QED BY <2>2, <2>3
<1>3. ASSUME NEW n \in 1..N, NEW groups \in V PROVE Push(groups, ids[n]) \in V
  <2> DEFINE key == GroupOf(ids[n])
  <2>1. ids[n] \in MessageId /\ key \in Keys
    BY <1>1
  <2> HIDE DEF key, Keys
  <2>2. PICK K \in SUBSET Keys : groups \in [K -> Seq(MessageId)]
    OBVIOUS
  <2>3. DOMAIN groups \cup {key} \in SUBSET Keys
    BY <2>1, <2>2
  <2>4. \A k \in DOMAIN groups : groups[k] \in Seq(MessageId) /\ Append(groups[k], ids[n]) \in Seq(MessageId)
    BY <2>1, <2>2
  <2>5. <<ids[n]>> \in Seq(MessageId)
    BY <2>1
  <2>6. Push(groups, ids[n]) \in [DOMAIN groups \cup {key} -> Seq(MessageId)]
    BY <2>4, <2>5 DEF Push, key
  <2> QED BY <2>3, <2>6
<1>4. step \in [(0..N) \X V -> V]
  <2> HIDE DEF V, N
  <2>1. \A p \in (0..N) \X V : (IF p[1] = 0 THEN <<>> ELSE Push(p[2], ids[p[1]])) \in V
    BY <1>1, <1>2, <1>3
  <2> QED BY <2>1
<1>5. \E f \in [0..N -> V] : \A n \in 0..N : f[n] = IF n = 0 THEN <<>> ELSE step[<<n, f[n - 1]>>]
  <2> HIDE DEF V, N, step
  <2>1. IsLoop(0, N, V, <<>>, step)
    BY <1>1, <1>2, <1>4 DEF IsLoop
  <2> QED BY <2>1, LoopRecursion
<1>6. PICK f \in [0..N -> V] :
        \A n \in 0..N : f[n] = IF n = 0 THEN <<>> ELSE step[<<n, f[n - 1]>>]
  BY <1>5
<1>7. \A n \in 0..N : f[n] = IF n = 0 THEN <<>> ELSE Push(f[n - 1], ids[n])
  <2> HIDE DEF V
  <2>1. ASSUME NEW n \in 0..N, n # 0 PROVE f[n] = Push(f[n - 1], ids[n])
    <3>1. n - 1 \in 0..N /\ f[n - 1] \in V /\ <<n, f[n - 1]>> \in (0..N) \X V
      BY <1>1, <2>1
    <3>2. f[n] = step[<<n, f[n - 1]>>]
      BY <1>6, <2>1
    <3> QED BY <2>1, <3>1, <3>2
  <2> QED BY <1>6, <2>1
<1> HIDE DEF V, step
<1>8. f = [n \in 0..N |-> IF n = 0 THEN <<>> ELSE Push(f[n - 1], ids[n])]
  BY <1>7
<1> QED BY <1>8

\* Each identifier is in the group of its mailbox and UIDVALIDITY, and nothing
\* else is in a group; identifiers that differ stay so.
Grouping(groups, ids, n) ==
  /\ DOMAIN groups = {GroupOf(ids[i]) : i \in 1..n}
  /\ \A g \in DOMAIN groups :
       /\ groups[g] \in Seq(MessageId) /\ groups[g] # <<>> /\ Len(groups[g]) <= n
       /\ \A i \in DOMAIN groups[g] :
            GroupOf(groups[g][i]) = g /\ \E k \in 1..n : ids[k] = groups[g][i]
       /\ \A i, j \in DOMAIN groups[g] : i < j => groups[g][i] # groups[g][j]
  /\ \A k \in 1..n : \E i \in DOMAIN groups[GroupOf(ids[k])] : groups[GroupOf(ids[k])][i] = ids[k]

LEMMA PushGroups ==
  ASSUME NEW ids \in Seq(MessageId), \A k, l \in DOMAIN ids : k < l => ids[k] # ids[l],
         NEW n \in 1..Len(ids), NEW groups, Grouping(groups, ids, n - 1)
  PROVE  Grouping(Push(groups, ids[n]), ids, n)
<1> DEFINE id == ids[n]
           key == GroupOf(id)
           new == Push(groups, id)
<1>1. /\ id \in MessageId /\ n \in Nat /\ n - 1 \in Nat
      /\ \A k \in 1..n : k \in 1..(n - 1) \/ k = n
      /\ \A k \in 1..(n - 1) : k \in 1..n /\ ids[k] # id
  OBVIOUS
<1>2. DOMAIN new = DOMAIN groups \cup {key} /\ \A g \in DOMAIN groups : g # key => new[g] = groups[g]
  BY DEF Push
<1>3. DOMAIN new = {GroupOf(ids[i]) : i \in 1..n}
  BY <1>1, <1>2 DEF Grouping
<1>4. ASSUME NEW g \in DOMAIN groups
      PROVE  /\ groups[g] \in Seq(MessageId) /\ groups[g] # <<>> /\ Len(groups[g]) <= n - 1
             /\ \A i \in DOMAIN groups[g] :
                  GroupOf(groups[g][i]) = g /\ \E k \in 1..(n - 1) : ids[k] = groups[g][i]
             /\ \A i, j \in DOMAIN groups[g] : i < j => groups[g][i] # groups[g][j]
  BY DEF Grouping
<1>5. ASSUME NEW k \in 1..(n - 1)
      PROVE  /\ GroupOf(ids[k]) \in DOMAIN groups
             /\ \E i \in DOMAIN groups[GroupOf(ids[k])] : groups[GroupOf(ids[k])][i] = ids[k]
  BY DEF Grouping
<1> DEFINE old == IF key \in DOMAIN groups THEN groups[key] ELSE <<>>
           last == Len(old) + 1
<1>6. /\ old \in Seq(MessageId) /\ Len(old) <= n - 1
      /\ \A i \in DOMAIN old : GroupOf(old[i]) = key /\ \E k \in 1..(n - 1) : ids[k] = old[i]
      /\ \A i, j \in DOMAIN old : i < j => old[i] # old[j]
  <2>1. CASE key \in DOMAIN groups
    <3>1. old = groups[key]
      BY <2>1
    <3> HIDE DEF old, key
    <3> QED BY <1>4, <2>1, <3>1
  <2>2. CASE key \notin DOMAIN groups
    <3>1. old = <<>> /\ DOMAIN <<>> = {} /\ Len(<<>>) = 0
      BY <2>2
    <3> HIDE DEF old
    <3> QED BY <1>1, <3>1
  <2> QED BY <2>1, <2>2
<1>7. new[key] = Append(old, id)
  <2>1. new[key] = IF key \in DOMAIN groups THEN Append(groups[key], id) ELSE <<id>>
    BY <1>2 DEF Push
  <2>2. Append(<<>>, id) = <<id>>
    OBVIOUS
  <2> HIDE DEF new, id, key
  <2> QED BY <2>1, <2>2
<1> HIDE DEF old
<1>8. /\ new[key] \in Seq(MessageId) /\ last \in Nat \ {0} /\ last <= n /\ Len(new[key]) = last
      /\ DOMAIN old = 1..(last - 1) /\ DOMAIN new[key] = 1..last /\ new[key][last] = id
      /\ \A i \in DOMAIN old : new[key][i] = old[i]
  <2> DEFINE longer == Append(old, id)
  <2>1. /\ longer \in Seq(MessageId) /\ Len(longer) = Len(old) + 1 /\ Len(old) \in Nat
        /\ DOMAIN old = 1..Len(old) /\ longer[Len(old) + 1] = id
        /\ \A i \in DOMAIN old : longer[i] = old[i]
    BY <1>1, <1>6
  <2> HIDE DEF longer, id, key, new
  <2>2. new[key] = longer
    BY <1>7 DEF longer
  <2> QED BY <1>1, <1>6, <2>1, <2>2
<1>9. \A i \in DOMAIN new[key] : i \in DOMAIN old \/ i = last
  BY <1>8
<1> HIDE DEF new, last, id
<1>10. ASSUME NEW g \in DOMAIN new
       PROVE  /\ new[g] \in Seq(MessageId) /\ new[g] # <<>> /\ Len(new[g]) <= n
              /\ \A i \in DOMAIN new[g] :
                   GroupOf(new[g][i]) = g /\ \E k \in 1..n : ids[k] = new[g][i]
              /\ \A i, j \in DOMAIN new[g] : i < j => new[g][i] # new[g][j]
  <2>1. CASE g # key
    <3>1. g \in DOMAIN groups /\ new[g] = groups[g]
      BY <1>2, <2>1
    <3>2. Len(groups[g]) \in Nat /\ Len(groups[g]) <= n
      BY <1>1, <1>4, <3>1
    <3> QED BY <1>1, <1>4, <3>1, <3>2
  <2>2. CASE g = key
    <3>1. new[key] # <<>> /\ Len(new[key]) <= n
      <4>1. Len(new[key]) # 0 /\ Len(<<>>) = 0
        BY <1>8
      <4> QED BY <1>8, <4>1
    <3>2. ASSUME NEW i \in DOMAIN new[key]
          PROVE  GroupOf(new[key][i]) = key /\ \E k \in 1..n : ids[k] = new[key][i]
      <4>1. CASE i \in DOMAIN old
        <5>1. new[key][i] = old[i] /\ GroupOf(old[i]) = key
          BY <1>6, <1>8, <4>1
        <5>2. PICK k \in 1..(n - 1) : ids[k] = old[i]
          BY <1>6, <4>1
        <5>3. k \in 1..n
          BY <1>1
        <5> QED BY <5>1, <5>2, <5>3
      <4>2. CASE i = last
        <5>1. new[key][i] = id
          BY <1>8, <4>2
        <5>2. n \in 1..n /\ ids[n] = id
          BY <1>1 DEF id
        <5> QED BY <5>1, <5>2
      <4> QED BY <1>9, <4>1, <4>2
    <3>3. ASSUME NEW i \in DOMAIN new[key], NEW j \in DOMAIN new[key], i < j
          PROVE  new[key][i] # new[key][j]
      <4>1. i \in DOMAIN old
        BY <1>8, <3>3
      <4>2. CASE j \in DOMAIN old
        BY <1>6, <1>8, <3>3, <4>1, <4>2
      <4>3. CASE j = last
        BY <1>1, <1>6, <1>8, <4>1, <4>3
      <4> QED BY <1>9, <4>2, <4>3
    <3> QED BY <1>8, <2>2, <3>1, <3>2, <3>3
  <2> QED BY <2>1, <2>2
<1>11. ASSUME NEW k \in 1..n
       PROVE  \E i \in DOMAIN new[GroupOf(ids[k])] : new[GroupOf(ids[k])][i] = ids[k]
  <2>1. CASE k = n
    <3>1. ids[k] = id
      BY <2>1 DEF id
    <3>2. last \in DOMAIN new[key] /\ new[key][last] = id
      BY <1>8
    <3> QED BY <3>1, <3>2
  <2>2. CASE k # n
    <3> DEFINE g == GroupOf(ids[k])
    <3>1. k \in 1..(n - 1)
      BY <1>1, <2>2
    <3>2. PICK i \in DOMAIN groups[g] : groups[g][i] = ids[k]
      BY <1>5, <3>1
    <3>3. g \in DOMAIN groups
      BY <1>5, <3>1
    <3>4. CASE g # key
      BY <1>2, <3>2, <3>3, <3>4
    <3>5. CASE g = key
      <4>1. old = groups[g]
        BY <3>3, <3>5 DEF old
      <4>2. i \in DOMAIN new[key] /\ new[key][i] = ids[k]
        BY <1>8, <3>2, <4>1
      <4> QED BY <3>5, <4>2
    <3> QED BY <3>4, <3>5
  <2> QED BY <2>1, <2>2
<1> QED BY <1>3, <1>10, <1>11 DEF Grouping, new, id

LEMMA Grouped ==
  ASSUME NEW ids \in Seq(MessageId), \A k, l \in DOMAIN ids : k < l => ids[k] # ids[l]
  PROVE  Grouping(group_message_ids(ids), ids, Len(ids))
<1> DEFINE N == Len(ids)
           Step(F, n) == IF n = 0 THEN <<>> ELSE Push(F[n - 1], ids[n])
           grouped == CHOOSE F : F = [n \in 0..Len(ids) |-> Step(F, n)]
           good == {n \in 0..N : Grouping(grouped[n], ids, n)}
<1>0. N \in Nat
  OBVIOUS
<1>1. grouped = [n \in 0..N |-> Step(grouped, n)]
  BY GroupedExists
<1>2. group_message_ids(ids) = grouped[N]
  BY DEF group_message_ids
<1>3. \A n \in 0..N : grouped[n] = Step(grouped, n)
  <2> HIDE DEF grouped, Step
  <2> QED BY <1>1
<1> HIDE DEF grouped
<1>4. 0 \in good
  <2>1. grouped[0] = <<>>
    BY <1>0, <1>3
  <2>2. Grouping(<<>>, ids, 0)
    <3>1. DOMAIN <<>> = {} /\ 1..0 = {}
      OBVIOUS
    <3>2. {GroupOf(ids[i]) : i \in 1..0} = {}
      BY <3>1
    <3> QED BY <3>1, <3>2 DEF Grouping
  <2> QED BY <1>0, <2>1, <2>2
<1>5. ASSUME NEW n \in (0 + 1)..N, n - 1 \in good PROVE n \in good
  <2>1. n \in 0..N /\ n # 0 /\ n \in 1..Len(ids)
    BY <1>0
  <2>2. grouped[n] = Push(grouped[n - 1], ids[n])
    BY <1>3, <2>1
  <2>3. Grouping(grouped[n - 1], ids, n - 1)
    BY <1>5
  <2>4. Grouping(grouped[n], ids, n)
    BY <2>1, <2>2, <2>3, PushGroups
  <2> QED BY <2>1, <2>4
<1>6. \A n \in 0..N : n \in good
  <2> HIDE DEF good, N
  <2> QED BY <1>0, <1>4, <1>5, LoopInduction
<1> QED BY <1>0, <1>2, <1>6

-----------------------------------------------------------------------------
(* Sorting.                                                                  *)

\* An insertion keeps an order of the first uids an order of one more.
LEMMA Inserted ==
  ASSUME NEW uids \in Seq(U32), NEW n \in 1..Len(uids),
         NEW q \in Bijection(1..(n - 1), 1..(n - 1)),
         \A i, j \in 1..(n - 1) : i < j => uids[q[i]] <= uids[q[j]]
  PROVE  \E p \in Bijection(1..n, 1..n) : \A i, j \in 1..n : i < j => uids[p[i]] <= uids[p[j]]
<1> DEFINE S == 1..(n - 1)
           T == 1..n
<1>1. /\ n \in Nat /\ n - 1 \in Nat /\ T = S \cup {n} /\ n \notin S /\ n \in T
      /\ \A i \in T : uids[i] \in Nat
  BY NumeralAssumption DEF U32
<1>2. /\ q \in [S -> S] /\ \A i, j \in S : q[i] = q[j] => i = j
      /\ \A t \in S : \E i \in S : q[i] = t
  BY DEF Bijection, Injection, Surjection, IsInjective
<1> DEFINE greater == {p \in T : p = n \/ uids[q[p]] > uids[n]}
<1>3. PICK at \in greater : \A p \in greater : at <= p
  <2>1. n \in greater /\ greater \in SUBSET Nat
    BY <1>1
  <2> HIDE DEF greater
  <2> QED BY <2>1, LeastNatural
<1> DEFINE p == [i \in T |-> IF i < at THEN q[i] ELSE IF i = at THEN n ELSE q[i - 1]]
<1>4. at \in T /\ at \in Nat /\ (at = n \/ uids[q[at]] > uids[n])
  BY <1>1, <1>3
<1>5. \A i \in T : i < at => i \in S /\ p[i] = q[i] /\ uids[q[i]] <= uids[n]
  <2>1. ASSUME NEW i \in T, i < at PROVE i \in S /\ i \notin greater
    BY <1>1, <1>3, <2>1
  <2>2. \A i \in S : q[i] \in S /\ uids[q[i]] \in Nat
    BY <1>1, <1>2
  <2>3. ASSUME NEW i \in T, i < at PROVE uids[q[i]] <= uids[n]
    BY <1>1, <2>1, <2>2, <2>3
  <2> QED BY <2>1, <2>3
<1>6. \A i \in T : i > at => /\ i - 1 \in S /\ p[i] = q[i - 1] /\ i - 1 >= at /\ at \in S
                             /\ uids[q[i - 1]] >= uids[n]
  <2>1. ASSUME NEW i \in T, i > at
        PROVE  i - 1 \in S /\ p[i] = q[i - 1] /\ i - 1 >= at /\ at \in S /\ at # n
    BY <1>1, <1>4, <2>1
  <2>2. ASSUME NEW i \in T, i > at PROVE uids[q[i - 1]] >= uids[n]
    <3>1. (i - 1 = at \/ at < i - 1)
          /\ uids[q[at]] \in Nat /\ uids[q[i - 1]] \in Nat /\ uids[n] \in Nat
      <4>1. i - 1 = at \/ at < i - 1
        BY <1>1, <1>4, <2>1, <2>2
      <4>2. q[at] \in T /\ q[i - 1] \in T /\ n \in T
        BY <1>1, <1>2, <2>1, <2>2
      <4> HIDE DEF S, T, greater
      <4> QED BY <1>1, <4>1, <4>2
    <3>2. uids[q[at]] > uids[n]
      BY <1>4, <2>1, <2>2
    <3>3. at < i - 1 => uids[q[at]] <= uids[q[i - 1]]
      BY <2>1, <2>2
    <3> QED BY <3>1, <3>2, <3>3
  <2> QED BY <2>1, <2>2
<1>7. p[at] = n
  BY <1>4
<1>8. \A i \in T : i < at \/ i = at \/ i > at
  BY <1>1, <1>4
<1>9. p \in [T -> T]
  <2>1. \A i \in T : p[i] \in T
    BY <1>1, <1>2, <1>5, <1>6, <1>7, <1>8
  <2> QED BY <2>1
<1> HIDE DEF p, greater
<1>10. ASSUME NEW i \in T, NEW j \in T, p[i] = p[j] PROVE i = j
  <2>1. \A k \in S : q[k] \in S /\ q[k] # n
    BY <1>1, <1>2
  <2>2. i \in Nat /\ j \in Nat
    BY <1>1
  <2>3. CASE i = at
    BY <1>5, <1>6, <1>7, <1>8, <1>10, <2>1, <2>3
  <2>4. CASE i < at
    <3>1. j < at => i = j
      BY <1>2, <1>5, <1>10, <2>4
    <3>2. j # at
      BY <1>5, <1>7, <1>10, <2>1, <2>4
    <3>3. ~(j > at)
      <4>1. j > at => i = j - 1
        BY <1>2, <1>5, <1>6, <1>10, <2>4
      <4> QED BY <1>4, <1>6, <2>2, <2>4, <4>1
    <3> QED BY <1>8, <3>1, <3>2, <3>3
  <2>5. CASE i > at
    <3>1. j > at => i - 1 = j - 1
      BY <1>2, <1>6, <1>10, <2>5
    <3>2. j # at
      BY <1>6, <1>7, <1>10, <2>1, <2>5
    <3>3. ~(j < at)
      <4>1. j < at => j = i - 1
        BY <1>2, <1>5, <1>6, <1>10, <2>5
      <4> QED BY <1>4, <1>6, <2>2, <2>5, <4>1
    <3> QED BY <1>8, <2>2, <3>1, <3>2, <3>3
  <2> QED BY <1>8, <2>3, <2>4, <2>5
<1>11. ASSUME NEW t \in T PROVE \E i \in T : p[i] = t
  <2>1. CASE t = n
    BY <1>4, <1>7, <2>1
  <2>2. CASE t # n
    <3>1. PICK i \in S : q[i] = t
      BY <1>1, <1>2, <2>2
    <3>2. CASE i < at
      <4>1. i \in T
        BY <1>1
      <4> QED BY <1>5, <3>1, <3>2, <4>1
    <3>3. CASE ~(i < at)
      <4>1. i + 1 \in T /\ i + 1 > at /\ (i + 1) - 1 = i
        BY <1>1, <1>4, <3>3
      <4> QED BY <1>6, <3>1, <4>1
    <3> QED BY <3>2, <3>3
  <2> QED BY <2>1, <2>2
<1>12. ASSUME NEW i \in T, NEW j \in T, i < j PROVE uids[p[i]] <= uids[p[j]]
  <2>1. \A k \in S : q[k] \in S /\ uids[q[k]] \in Nat
    BY <1>1, <1>2
  <2>2. i \in Nat /\ j \in Nat /\ uids[n] \in Nat
    BY <1>1
  <2>3. CASE i < at /\ j < at
    BY <1>5, <1>12, <2>3
  <2>4. CASE i < at /\ j = at
    BY <1>5, <1>7, <2>4
  <2>5. CASE i < at /\ j > at
    <3>1. p[i] = q[i] /\ p[j] = q[j - 1] /\ i \in S /\ j - 1 \in S
      BY <1>5, <1>6, <2>5
    <3>2. uids[q[i]] <= uids[n] /\ uids[q[j - 1]] >= uids[n]
      BY <1>5, <1>6, <2>5
    <3> QED BY <2>1, <2>2, <3>1, <3>2
  <2>6. CASE i = at
    <3>1. j > at
      BY <1>12, <2>6
    <3>2. p[i] = n /\ p[j] = q[j - 1] /\ j - 1 \in S /\ uids[q[j - 1]] >= uids[n]
      BY <1>6, <1>7, <2>6, <3>1
    <3> QED BY <2>1, <2>2, <3>2
  <2>7. CASE i > at
    <3>1. j > at /\ i - 1 < j - 1
      BY <1>4, <1>12, <2>2, <2>7
    <3>2. p[i] = q[i - 1] /\ p[j] = q[j - 1] /\ i - 1 \in S /\ j - 1 \in S
      BY <1>6, <2>7, <3>1
    <3> QED BY <3>1, <3>2
  <2> QED BY <1>8, <2>3, <2>4, <2>5, <2>6, <2>7
<1>13. p \in Bijection(T, T)
  BY <1>9, <1>10, <1>11 DEF Bijection, Injection, Surjection, IsInjective
<1> QED BY <1>12, <1>13

LEMMA SortExists ==
  ASSUME NEW uids \in Seq(U32)
  PROVE  \E sorted \in Rearranged(uids) : Nondecreasing(sorted)
<1> DEFINE N == Len(uids)
           Orders(n) == \E p \in Bijection(1..n, 1..n) :
                          \A i, j \in 1..n : i < j => uids[p[i]] <= uids[p[j]]
           ordered == {n \in 0..N : Orders(n)}
<1>0. N \in Nat /\ DOMAIN uids = 1..N
  OBVIOUS
<1>1. 0 \in ordered
  <2>1. 1..0 = {}
    OBVIOUS
  <2>2. [i \in {} |-> i] \in Bijection({}, {})
    BY DEF Bijection, Injection, Surjection, IsInjective
  <2>3. Orders(0)
    BY <2>1, <2>2
  <2> QED BY <1>0, <2>3
<1>2. ASSUME NEW n \in (0 + 1)..N, n - 1 \in ordered PROVE n \in ordered
  <2>1. n \in 1..Len(uids) /\ n \in 0..N
    BY <1>0
  <2>2. PICK q \in Bijection(1..(n - 1), 1..(n - 1)) :
          \A i, j \in 1..(n - 1) : i < j => uids[q[i]] <= uids[q[j]]
    BY <1>2
  <2>3. Orders(n)
    BY <2>1, <2>2, Inserted
  <2> HIDE DEF Orders
  <2> QED BY <2>1, <2>3
<1>3. \A n \in 0..N : n \in ordered
  <2> HIDE DEF ordered, N
  <2> QED BY <1>0, <1>1, <1>2, LoopInduction
<1>4. PICK p \in Bijection(1..N, 1..N) : \A i, j \in 1..N : i < j => uids[p[i]] <= uids[p[j]]
  BY <1>0, <1>3
<1> DEFINE sorted == [i \in DOMAIN uids |-> uids[p[i]]]
<1>5. sorted \in Rearranged(uids)
  BY <1>0, <1>4 DEF Rearranged
<1>6. Nondecreasing(sorted)
  BY <1>0, <1>4 DEF Nondecreasing
<1> QED BY <1>5, <1>6

\* Distinct uids are in strictly increasing order once sorted, and the same uids.
LEMMA Sorted ==
  ASSUME NEW uids \in Seq(U32),
         \A i, j \in DOMAIN uids : i < j => uids[i] # uids[j]
  PROVE  LET sorted == sort_unstable(uids) IN
         /\ sorted \in Seq(U32) /\ Len(sorted) = Len(uids)
         /\ {sorted[i] : i \in DOMAIN sorted} = {uids[i] : i \in DOMAIN uids}
         /\ \A i, j \in DOMAIN sorted : i < j => sorted[i] < sorted[j]
<1> DEFINE N == Len(uids)
           sorted == sort_unstable(uids)
<1>0. N \in Nat /\ DOMAIN uids = 1..N /\ \A i \in 1..N : uids[i] \in U32
  OBVIOUS
<1>1. sorted \in Rearranged(uids) /\ Nondecreasing(sorted)
  BY SortExists DEF sort_unstable
<1> HIDE DEF sorted
<1>2. PICK p \in Bijection(1..N, 1..N) : sorted = [i \in 1..N |-> uids[p[i]]]
  BY <1>0, <1>1 DEF Rearranged
<1>3. /\ p \in [1..N -> 1..N] /\ \A i, j \in 1..N : p[i] = p[j] => i = j
      /\ \A t \in 1..N : \E i \in 1..N : p[i] = t
  BY DEF Bijection, Injection, Surjection, IsInjective
<1>4. /\ DOMAIN sorted = 1..N /\ \A i \in 1..N : p[i] \in 1..N /\ sorted[i] = uids[p[i]]
      /\ \A i \in 1..N : sorted[i] \in U32
  BY <1>0, <1>2, <1>3
<1>5. sorted \in Seq(U32) /\ Len(sorted) = N
  <2>1. sorted \in [1..N -> U32]
    BY <1>2, <1>4
  <2> QED BY <1>0, <2>1
<1>6. {sorted[i] : i \in DOMAIN sorted} = {uids[i] : i \in DOMAIN uids}
  BY <1>0, <1>3, <1>4
<1>7. ASSUME NEW i \in 1..N, NEW j \in 1..N, i < j PROVE sorted[i] < sorted[j]
  <2>1. sorted[i] <= sorted[j]
    BY <1>1, <1>4, <1>7 DEF Nondecreasing
  <2>2. p[i] \in 1..N /\ p[j] \in 1..N /\ p[i] # p[j]
    BY <1>0, <1>3, <1>7
  <2>3. uids[p[i]] # uids[p[j]]
    BY <1>0, <2>2
  <2>4. sorted[i] \in Nat /\ sorted[j] \in Nat
    BY <1>4, NumeralAssumption DEF U32
  <2> QED BY <1>4, <2>1, <2>3, <2>4
<1> QED BY <1>4, <1>5, <1>6, <1>7 DEF sorted

-----------------------------------------------------------------------------
(* Ranges.                                                                   *)

Range32 == [start: U32, end: U32]
Built == [ranges: Seq(Range32), start: U32, end: U32, overflow: BOOLEAN]

LEMMA ExtendedTyped ==
  ASSUME NEW built \in Built, NEW uid \in U32
  PROVE  Extended(built, uid) \in Built
<1>1. UidRange(built.start, built.end) \in Range32
  BY DEF UidRange, Range32, Built
<1>2. /\ built.ranges \in Seq(Range32) /\ built.start \in U32 /\ built.end \in U32
      /\ built.overflow \in BOOLEAN
  BY DEF Built
<1>3. Append(built.ranges, UidRange(built.start, built.end)) \in Seq(Range32)
  BY <1>1, <1>2
<1> DEFINE ranges == IF Follows(uid, built.end) THEN built.ranges
                     ELSE Append(built.ranges, UidRange(built.start, built.end))
           start == IF Follows(uid, built.end) THEN built.start ELSE uid
           overflow == built.overflow \/ built.end = MaxUid
<1>4. ranges \in Seq(Range32) /\ start \in U32
  BY <1>2, <1>3
<1>5. Extended(built, uid) = [ranges |-> ranges, start |-> start, end |-> uid, overflow |-> overflow]
  BY DEF Extended
<1>6. overflow \in BOOLEAN
  OBVIOUS
<1> HIDE DEF ranges, start, overflow
<1> QED BY <1>4, <1>5, <1>6 DEF Built

LEMMA BuiltExists ==
  ASSUME NEW sorted \in Seq(U32), sorted # <<>>
  PROVE  \E f : f = [n \in 1..Len(sorted) |->
           IF n = 1
           THEN [ranges |-> <<>>, start |-> sorted[1], end |-> sorted[1], overflow |-> FALSE]
           ELSE Extended(f[n - 1], sorted[n])]
<1> DEFINE N == Len(sorted)
           first == [ranges |-> <<>>, start |-> sorted[1], end |-> sorted[1], overflow |-> FALSE]
           step == [p \in (1..N) \X Built |-> Extended(p[2], sorted[p[1]])]
<1>1. N \in Nat /\ 1 \in 1..N /\ \A n \in 1..N : sorted[n] \in U32
  <2>1. N # 0
    BY EmptySeq
  <2> QED BY <2>1
<1>2. first \in Built
  <2>1. <<>> \in Seq(Range32)
    OBVIOUS
  <2> QED BY <1>1, <2>1 DEF Built
<1>3. step \in [(1..N) \X Built -> Built]
  BY <1>1, ExtendedTyped
<1>4. \E f \in [1..N -> Built] : \A n \in 1..N : f[n] = IF n = 1 THEN first ELSE step[<<n, f[n - 1]>>]
  <2> HIDE DEF N, first, step
  <2>1. IsLoop(1, N, Built, first, step)
    BY <1>1, <1>2, <1>3 DEF IsLoop
  <2> QED BY <2>1, LoopRecursion
<1>5. PICK f \in [1..N -> Built] :
        \A n \in 1..N : f[n] = IF n = 1 THEN first ELSE step[<<n, f[n - 1]>>]
  BY <1>4
<1> HIDE DEF first
<1>6. \A n \in 1..N : f[n] = IF n = 1 THEN first ELSE Extended(f[n - 1], sorted[n])
  <2>1. ASSUME NEW n \in 1..N, n # 1 PROVE f[n] = Extended(f[n - 1], sorted[n])
    <3>1. n - 1 \in 1..N /\ f[n - 1] \in Built /\ <<n, f[n - 1]>> \in (1..N) \X Built
      BY <1>1, <2>1
    <3>2. f[n] = step[<<n, f[n - 1]>>]
      BY <1>5, <2>1
    <3> QED BY <3>1, <3>2
  <2> QED BY <1>5, <2>1
<1> HIDE DEF step
<1>7. f = [n \in 1..N |-> IF n = 1 THEN first ELSE Extended(f[n - 1], sorted[n])]
  BY <1>6
<1> QED BY <1>7 DEF first

LEMMA DenotedAppended ==
  ASSUME NEW ranges \in Seq(Range32), NEW range \in Range32
  PROVE  Denoted(Append(ranges, range)) = Denoted(ranges) \cup (range.start..range.end)
<1> DEFINE longer == Append(ranges, range)
           n == Len(ranges)
<1>1. /\ n \in Nat /\ DOMAIN ranges = 1..n /\ DOMAIN longer = (1..n) \cup {n + 1}
      /\ longer[n + 1] = range /\ \A i \in 1..n : longer[i] = ranges[i]
  OBVIOUS
<1> HIDE DEF longer, n
<1>2. \A x : x \in Denoted(longer) <=> x \in Denoted(ranges) \/ x \in range.start..range.end
  BY <1>1 DEF Denoted
<1>3. Denoted(longer) = Denoted(ranges) \cup (range.start..range.end)
  BY <1>2
<1> QED BY <1>3 DEF longer

\* Uids in strictly increasing order give ranges of just these uids, and what
\* follows the largest uid there is was never computed.
LEMMA RangesExact ==
  ASSUME NEW sorted \in Seq(U32), sorted # <<>>,
         \A i, j \in DOMAIN sorted : i < j => sorted[i] < sorted[j]
  PROVE  /\ Denoted(RangesOf(sorted).ranges) = {sorted[i] : i \in DOMAIN sorted}
         /\ ~RangesOf(sorted).overflow
<1> DEFINE N == Len(sorted)
           first == [ranges |-> <<>>, start |-> sorted[1], end |-> sorted[1], overflow |-> FALSE]
           Step(F, n) == IF n = 1 THEN first ELSE Extended(F[n - 1], sorted[n])
           built == CHOOSE F : F = [n \in 1..Len(sorted) |-> Step(F, n)]
           Good(b, n) == /\ b \in Built /\ b.end = sorted[n] /\ b.start <= b.end /\ ~b.overflow
                         /\ Denoted(b.ranges) \cup (b.start..b.end) = {sorted[i] : i \in 1..n}
           good == {n \in 1..N : Good(built[n], n)}
<1>0. N \in Nat /\ 1 \in 1..N /\ DOMAIN sorted = 1..N /\ \A n \in 1..N : sorted[n] \in U32
  <2>1. N # 0
    BY EmptySeq
  <2> QED BY <2>1
<1>1. built = [n \in 1..N |-> Step(built, n)]
  BY BuiltExists
<1>2. RangesOf(sorted) = [ranges |-> Append(built[N].ranges, UidRange(built[N].start, built[N].end)),
                          overflow |-> built[N].overflow]
  BY DEF RangesOf
<1>3. \A n \in 1..N : built[n] = Step(built, n)
  <2> HIDE DEF built, Step
  <2> QED BY <1>1
<1> HIDE DEF built
<1>4. 1 \in good
  <2>1. built[1] = first
    BY <1>0, <1>3
  <2>2. sorted[1] \in U32 /\ sorted[1] \in Nat
    BY <1>0, NumeralAssumption DEF U32
  <2>3. Denoted(<<>>) = {} /\ <<>> \in Seq(Range32)
    <3>1. DOMAIN <<>> = {}
      OBVIOUS
    <3> QED BY <3>1 DEF Denoted
  <2>4. first \in Built
    BY <2>2, <2>3 DEF Built
  <2>5. {sorted[i] : i \in 1..1} = {sorted[1]} /\ sorted[1]..sorted[1] = {sorted[1]}
    BY <2>2
  <2>6. first.ranges = <<>> /\ first.start = sorted[1] /\ first.end = sorted[1] /\ ~first.overflow
    OBVIOUS
  <2> HIDE DEF first
  <2>7. Good(first, 1)
    BY <2>2, <2>3, <2>4, <2>5, <2>6
  <2> HIDE DEF Good
  <2> QED BY <1>0, <2>1, <2>7
<1>5. ASSUME NEW n \in (1 + 1)..N, n - 1 \in good PROVE n \in good
  <2> DEFINE b == built[n - 1]
             uid == sorted[n]
             next == Extended(b, uid)
  <2>1. n \in 1..N /\ n # 1 /\ n - 1 \in 1..N /\ n - 1 < n /\ n \in Nat
    BY <1>0
  <2>2. Good(b, n - 1)
    BY <1>5
  <2>3. built[n] = next
    BY <1>3, <2>1
  <2> HIDE DEF b
  <2>4. /\ b.ranges \in Seq(Range32) /\ b.start \in Nat /\ b.end \in Nat /\ uid \in Nat
        /\ b.start \in U32 /\ b.end \in U32 /\ uid \in U32 /\ uid <= MaxUid /\ MaxUid \in Nat
    BY <1>0, <2>1, <2>2, NumeralAssumption DEF Built, U32
  <2>5. b.end < uid
    BY <1>0, <2>1, <2>2
  <2>6. next \in Built /\ next.end = uid
    BY <2>2, <2>4, ExtendedTyped DEF Extended
  <2>7. ~next.overflow
    <3>1. ~b.overflow /\ b.end # MaxUid
      <4>1. b.end < uid /\ uid <= MaxUid /\ b.end \in Nat /\ uid \in Nat /\ MaxUid \in Nat
        BY <2>4, <2>5
      <4> HIDE DEF uid
      <4> QED BY <2>2, <4>1
    <3>2. next.overflow = (b.overflow \/ b.end = MaxUid)
      <4> HIDE DEF uid
      <4> QED BY Zenon DEF Extended
    <3> HIDE DEF next
    <3> QED BY <3>1, <3>2
  <2> DEFINE before == {sorted[i] : i \in 1..(n - 1)}
  <2>8. {sorted[i] : i \in 1..n} = before \cup {uid}
    <3>1. \A i \in 1..n : i \in 1..(n - 1) \/ i = n
      BY <2>1
    <3>2. \A i \in 1..(n - 1) : i \in 1..n
      BY <2>1
    <3>3. n \in 1..n
      BY <2>1
    <3> QED BY <3>1, <3>2, <3>3
  <2> HIDE DEF uid
  <2>9. CASE Follows(uid, b.end)
    <3>1. next.ranges = b.ranges /\ next.start = b.start /\ uid = b.end + 1
      BY <2>9 DEF Extended, Follows
    <3>2. b.start..uid = (b.start..b.end) \cup {uid} /\ b.start <= uid
      BY <2>2, <2>4, <3>1
    <3>3. Denoted(b.ranges) \cup (b.start..b.end) = before
      BY <2>2
    <3>4. Denoted(next.ranges) \cup (next.start..next.end) = before \cup {uid}
      <4> HIDE DEF next, before
      <4> QED BY <2>6, <3>1, <3>2, <3>3
    <3>5. Good(next, n)
      <4> HIDE DEF next, before
      <4> QED BY <2>6, <2>7, <2>8, <3>1, <3>2, <3>4 DEF uid
    <3> HIDE DEF Good, next
    <3> QED BY <2>1, <2>3, <3>5
  <2>10. CASE ~Follows(uid, b.end)
    <3> DEFINE range == UidRange(b.start, b.end)
    <3>1. next.ranges = Append(b.ranges, range) /\ next.start = uid
      BY <2>10 DEF Extended
    <3>2. range \in Range32 /\ range.start = b.start /\ range.end = b.end
      BY <2>4 DEF UidRange, Range32
    <3> HIDE DEF range
    <3>3. Denoted(next.ranges) = Denoted(b.ranges) \cup (b.start..b.end)
      BY <2>4, <3>1, <3>2, DenotedAppended
    <3>4. Denoted(next.ranges) = before /\ uid..uid = {uid}
      BY <2>2, <2>4, <3>3
    <3>5. Good(next, n)
      <4> HIDE DEF next, before
      <4> QED BY <2>4, <2>6, <2>7, <2>8, <3>1, <3>4 DEF uid
    <3> HIDE DEF Good, next
    <3> QED BY <2>1, <2>3, <3>5
  <2> QED BY <2>9, <2>10
<1>6. \A n \in 1..N : n \in good
  <2> HIDE DEF good, N
  <2> QED BY <1>0, <1>4, <1>5, LoopInduction
<1> DEFINE b == built[N]
<1>7. Good(b, N)
  BY <1>0, <1>6
<1> HIDE DEF b
<1>8. /\ b.ranges \in Seq(Range32) /\ UidRange(b.start, b.end) \in Range32
      /\ UidRange(b.start, b.end).start = b.start /\ UidRange(b.start, b.end).end = b.end
  BY <1>7 DEF Built, UidRange, Range32
<1>9. Denoted(Append(b.ranges, UidRange(b.start, b.end))) = Denoted(b.ranges) \cup (b.start..b.end)
  BY <1>8, DenotedAppended
<1>10. RangesOf(sorted).ranges = Append(b.ranges, UidRange(b.start, b.end))
       /\ RangesOf(sorted).overflow = b.overflow
  BY <1>2 DEF b
<1> QED BY <1>0, <1>7, <1>9, <1>10

\* The uid set of a group of different messages of one mailbox.
LEMMA UidSetOfGroup ==
  ASSUME NEW entries \in Seq(MessageId), entries # <<>>,
         \A i, j \in DOMAIN entries : i < j => entries[i].uid # entries[j].uid
  PROVE  /\ Denoted(build_uid_set(entries).ranges) = {entries[i].uid : i \in DOMAIN entries}
         /\ ~build_uid_set(entries).overflow
<1> DEFINE uids == [i \in DOMAIN entries |-> entries[i].uid]
           sorted == sort_unstable(uids)
<1>1. /\ uids \in Seq(U32) /\ DOMAIN uids = DOMAIN entries /\ Len(uids) = Len(entries)
      /\ \A i \in DOMAIN entries : uids[i] = entries[i].uid
  <2>1. DOMAIN entries = 1..Len(entries) /\ Len(entries) \in Nat
    OBVIOUS
  <2>2. \A i \in DOMAIN entries : entries[i].uid \in U32
    <3>1. \A i \in DOMAIN entries : entries[i] \in MessageId
      <4> HIDE DEF uids
      <4> QED BY <2>1
    <3> QED BY <3>1 DEF MessageId
  <2> QED BY <2>1, <2>2
<1>2. build_uid_set(entries) = RangesOf(sorted)
  BY DEF build_uid_set
<1> HIDE DEF uids
<1>3. \A i, j \in DOMAIN uids : i < j => uids[i] # uids[j]
  BY <1>1
<1>4. /\ sorted \in Seq(U32) /\ Len(sorted) = Len(uids)
      /\ {sorted[i] : i \in DOMAIN sorted} = {uids[i] : i \in DOMAIN uids}
      /\ \A i, j \in DOMAIN sorted : i < j => sorted[i] < sorted[j]
  BY <1>1, <1>3, Sorted
<1> HIDE DEF sorted
<1>5. sorted # <<>>
  <2>1. Len(entries) # 0
    BY EmptySeq
  <2>2. Len(sorted) # 0 /\ Len(<<>>) = 0
    BY <1>1, <1>4, <2>1
  <2> QED BY <2>2
<1>6. {uids[i] : i \in DOMAIN uids} = {entries[i].uid : i \in DOMAIN entries}
  BY <1>1
<1> QED BY <1>2, <1>4, <1>5, <1>6, RangesExact

-----------------------------------------------------------------------------
(* build_search_query.                                                     *)

\* What each term of a query asks of a message.
LEMMA TermMeans ==
  ASSUME NEW message
  PROVE  /\ MatchesTerm(message, [key |-> "UNSEEN"]) <=> ~message.seen
         /\ \A day : MatchesTerm(message, [key |-> "SINCE", arg |-> day]) <=> message.day >= day
         /\ \A day : MatchesTerm(message, [key |-> "BEFORE", arg |-> day]) <=> message.day < day
         /\ \A field \in TextField : \A word :
              MatchesTerm(message, [key |-> field, arg |-> word]) <=> word \in message.text[field]
<1>1. ASSUME NEW field \in TextField, NEW word
      PROVE  MatchesTerm(message, [key |-> field, arg |-> word]) <=> word \in message.text[field]
  <2> field # "UNSEEN" /\ field # "SINCE" /\ field # "BEFORE"
    BY FilterAssumption
  <2> QED BY DEF MatchesTerm
<1>2. MatchesTerm(message, [key |-> "UNSEEN"]) <=> ~message.seen
  BY FilterAssumption DEF MatchesTerm
<1>3. ASSUME NEW day
      PROVE  /\ MatchesTerm(message, [key |-> "SINCE", arg |-> day]) <=> message.day >= day
             /\ MatchesTerm(message, [key |-> "BEFORE", arg |-> day]) <=> message.day < day
  BY FilterAssumption DEF MatchesTerm
<1> QED BY <1>1, <1>2, <1>3

\* A query finds what was asked for: it has a term for each of the filters that
\* were given, and no other.
LEMMA QueryMeansAsked ==
  ASSUME NEW input \in SearchInput, NEW message \in Searched, QueryBuilds(input)
  PROVE  (\A term \in build_search_query(input) : MatchesTerm(message, term))
           <=> Asked(message, input)
<1>1. /\ input.start_date \in Int \cup {Absent} /\ input.end_date \in Int \cup {Absent}
      /\ input.last_days \in Nat \cup {Absent} /\ message.day \in Int /\ Today \in Int
  BY FilterAssumption DEF QueryBuilds, SearchInput, Optional, Searched
<1> DEFINE Match(term) == MatchesTerm(message, term)
<1>2. (\A term \in build_search_query(input) : Match(term)) <=>
        /\ \A field \in TextField :
             input.text[field] # Absent => Match([key |-> field, arg |-> input.text[field]])
        /\ input.unread_only = TRUE => Match([key |-> "UNSEEN"])
        /\ input.last_days # Absent => Match([key |-> "SINCE", arg |-> Today - input.last_days])
        /\ input.start_date # Absent => Match([key |-> "SINCE", arg |-> input.start_date])
        /\ input.end_date # Absent =>
             Match([key |-> "BEFORE", arg |-> end_exclusive(input.end_date)])
  <2> HIDE DEF Match
  <2> QED BY Zenon DEF build_search_query
<1>3. input.last_days # Absent =>
        (Match([key |-> "SINCE", arg |-> Today - input.last_days])
           <=> Today - message.day <= input.last_days)
  <2>1. Match([key |-> "SINCE", arg |-> Today - input.last_days])
          <=> message.day >= Today - input.last_days
    BY TermMeans
  <2> HIDE DEF Match
  <2> QED BY <1>1, <2>1
<1>4. input.start_date # Absent =>
        (Match([key |-> "SINCE", arg |-> input.start_date]) <=> input.start_date <= message.day)
  <2>1. Match([key |-> "SINCE", arg |-> input.start_date]) <=> message.day >= input.start_date
    BY TermMeans
  <2> HIDE DEF Match
  <2> QED BY <1>1, <2>1
<1>5. input.end_date # Absent =>
        (Match([key |-> "BEFORE", arg |-> end_exclusive(input.end_date)])
           <=> message.day <= input.end_date)
  <2>1. Match([key |-> "BEFORE", arg |-> end_exclusive(input.end_date)])
          <=> message.day < end_exclusive(input.end_date)
    BY TermMeans
  <2> HIDE DEF Match
  <2> QED BY <1>1, <2>1 DEF end_exclusive
<1>6. /\ Match([key |-> "UNSEEN"]) <=> ~message.seen
      /\ \A field \in TextField : \A word :
           Match([key |-> field, arg |-> word]) <=> word \in message.text[field]
  BY TermMeans
<1> HIDE DEF Match
<1>7. (\A term \in build_search_query(input) : Match(term)) <=> Asked(message, input)
  BY <1>2, <1>3, <1>4, <1>5, <1>6 DEF Asked
<1> QED BY <1>7 DEF Match

\* A search that is rejected, and why.
LEMMA RejectedForAReason ==
  ASSUME NEW input \in SearchInput, ~input.cursor,
         \/ ~validate_search_input(input) \/ ~validate_account_id(input.account_id)
         \/ ~QueryBuilds(input)
  PROVE  \/ Malformed \in {input.account_id, input.mailbox, input.start_date, input.end_date}
         \/ \E field \in TextField : input.text[field] = Malformed
         \/ input.limit \notin 1..MAX_SEARCH_LIMIT
         \/ input.snippet_max_chars \notin (MinSnippet..MaxSnippet) \cup {Absent}
         \/ input.last_days # Absent /\ input.last_days \notin 1..MaxDays
         \/ input.last_days # Absent /\ {input.start_date, input.end_date} # {Absent}
         \/ /\ Absent \notin {input.start_date, input.end_date}
            /\ input.start_date > input.end_date
<1>1. CASE ~QueryBuilds(input) \/ ~validate_account_id(input.account_id)
  BY <1>1 DEF QueryBuilds, validate_account_id
<1>2. CASE QueryBuilds(input) /\ ~validate_search_input(input)
  <2>1. input.start_date \in Int \cup {Absent} /\ input.end_date \in Int \cup {Absent}
    BY <1>2 DEF QueryBuilds, SearchInput, Optional
  <2>2. CASE Absent \notin {input.start_date, input.end_date}
             /\ ~(input.start_date <= input.end_date)
    BY <2>1, <2>2
  <2>3. CASE ~(Absent \notin {input.start_date, input.end_date}
               /\ ~(input.start_date <= input.end_date))
    BY <1>2, <2>3 DEF validate_search_input, QueryBuilds, InRange
  <2> QED BY <2>2, <2>3
<1> QED BY <1>1, <1>2

-----------------------------------------------------------------------------
(* imap_apply_to_messages.                                                 *)

\* The texts that are accepted are identifiers, of one account.
LEMMA AcceptedParse ==
  ASSUME NEW raws \in Seq(Segments), BulkAccepted(raws)
  PROVE  /\ \A i \in DOMAIN raws : raws[i] \in Segments /\ Parses(raws[i])
         /\ \A i \in DOMAIN raws : parse(raws[i]).account_id = raws[1][2]
<1>1. \A i \in DOMAIN raws : Parses(raws[i]) /\ raws[i][2] = raws[1][2]
  BY DEF BulkAccepted
<1>2. \A i \in DOMAIN raws : raws[i] \in Segments
  OBVIOUS
<1>3. \A i \in DOMAIN raws : parse(raws[i]).account_id = raws[i][2]
  BY DEF parse
<1> QED BY <1>1, <1>2, <1>3

\* A message is in one group, and there once.
LEMMA OnePlace ==
  ASSUME NEW ids \in Seq(MessageId), NEW groups, Grouping(groups, ids, Len(ids)),
         NEW k \in DOMAIN ids
  PROVE  Cardinality({place \in (DOMAIN groups) \X (DOMAIN ids) :
           LET group == groups[place[1]] IN
           place[2] \in DOMAIN group /\ group[place[2]] = ids[k]}) = 1
<1> DEFINE places == {place \in (DOMAIN groups) \X (DOMAIN ids) :
                        LET group == groups[place[1]] IN
                        place[2] \in DOMAIN group /\ group[place[2]] = ids[k]}
           g == GroupOf(ids[k])
<1>1. DOMAIN ids = 1..Len(ids) /\ Len(ids) \in Nat /\ ids[k] \in MessageId
  OBVIOUS
<1>2. g \in DOMAIN groups
  BY <1>1 DEF Grouping
<1>3. PICK i \in DOMAIN groups[g] : groups[g][i] = ids[k]
  BY <1>1 DEF Grouping
<1>4. groups[g] \in Seq(MessageId) /\ Len(groups[g]) <= Len(ids)
      /\ \A m, j \in DOMAIN groups[g] : m < j => groups[g][m] # groups[g][j]
  BY <1>2 DEF Grouping
<1>5. DOMAIN groups[g] = 1..Len(groups[g]) /\ Len(groups[g]) \in Nat
  BY <1>4
<1>6. i \in DOMAIN ids
  BY <1>1, <1>3, <1>4, <1>5
<1>7. <<g, i>> \in places
  BY <1>2, <1>3, <1>6
<1>8. ASSUME NEW place \in places PROVE place = <<g, i>>
  <2>1. place = <<place[1], place[2]>> /\ place[1] \in DOMAIN groups
        /\ place[2] \in DOMAIN groups[place[1]] /\ groups[place[1]][place[2]] = ids[k]
    BY <1>8
  <2>2. GroupOf(groups[place[1]][place[2]]) = place[1]
    BY <2>1 DEF Grouping
  <2>3. place[1] = g
    BY <2>1, <2>2
  <2> HIDE DEF places
  <2>4. place[2] \in DOMAIN groups[g] /\ groups[g][place[2]] = groups[g][i]
    BY <1>3, <2>1, <2>3
  <2>5. place[2] = i
    BY <1>3, <1>4, <1>5, <2>4
  <2> QED BY <2>1, <2>3, <2>5
<1>9. places = {<<g, i>>}
  BY <1>7, <1>8
<1>10. Cardinality(places) = 1
  BY <1>9, FS_Singleton
<1> QED BY <1>10

\* What an accepted call is about.
LEMMA AcceptedResolved ==
  ASSUME NEW raws \in Seq(Segments), BulkAccepted(raws),
         NEW ids, ids = dedupe_and_parse_message_ids(raws), NEW k \in DOMAIN ids
  PROVE  /\ \E i \in DOMAIN raws : NamesMessage(raws[i], ids[k])
         /\ NamesMessage(encode(ids[k]), ids[k])
         /\ ids[k].account_id = ids[1].account_id
         /\ \A l \in (k + 1)..Len(ids) :
              /\ ids[k] # ids[l]
              /\ \E i \in DOMAIN raws : NamesMessage(raws[i], ids[k]) /\
                   \A j \in DOMAIN raws : NamesMessage(raws[j], ids[l]) => i < j
<1>1. /\ ids \in Seq(MessageId)
      /\ \A m \in DOMAIN ids : \E i \in DOMAIN raws : parse(raws[i]) = ids[m]
      /\ \A m, l \in DOMAIN ids : m < l =>
           /\ ids[m] # ids[l]
           /\ \E i \in DOMAIN raws : parse(raws[i]) = ids[m]
                /\ \A j \in DOMAIN raws : parse(raws[j]) = ids[l] => i < j
  BY AcceptedParse, Deduped
<1>2. DOMAIN ids = 1..Len(ids) /\ Len(ids) \in Nat /\ \A m \in DOMAIN ids : ids[m] \in MessageId
  BY <1>1
<1>3. 1 \in DOMAIN ids
  BY <1>2
<1>4. \A i \in DOMAIN raws, m \in DOMAIN ids :
        NamesMessage(raws[i], ids[m]) <=> parse(raws[i]) = ids[m]
  BY <1>2, AcceptedParse, ParseNames
<1>5. \E i \in DOMAIN raws : NamesMessage(raws[i], ids[k])
  BY <1>1, <1>4
<1>6. \A m \in DOMAIN ids : ids[m].account_id = raws[1][2]
  BY <1>1, AcceptedParse
<1>7. NamesMessage(encode(ids[k]), ids[k])
  BY <1>2, EncodeNames
<1>8. ASSUME NEW l \in (k + 1)..Len(ids)
      PROVE  /\ ids[k] # ids[l]
             /\ \E i \in DOMAIN raws : NamesMessage(raws[i], ids[k]) /\
                  \A j \in DOMAIN raws : NamesMessage(raws[j], ids[l]) => i < j
  <2>1. l \in DOMAIN ids /\ k < l
    BY <1>2
  <2> QED BY <1>1, <1>4, <2>1
<1> QED BY <1>3, <1>5, <1>6, <1>7, <1>8

\* Why one is rejected.
LEMMA BulkRejected ==
  ASSUME NEW raws \in Seq(Segments), ~BulkAccepted(raws)
  PROVE  \/ Len(raws) \notin 1..MAX_BULK_MESSAGE_IDS
         \/ \E i, j \in DOMAIN raws : raws[i][2] # raws[j][2]
         \/ \E i \in DOMAIN raws :
              \A id \in MessageId : validate_mailbox(id.mailbox) => ~NamesMessage(raws[i], id)
<1>1. ASSUME Len(raws) \in 1..MAX_BULK_MESSAGE_IDS
      PROVE  1 \in DOMAIN raws /\ \A i \in DOMAIN raws : raws[i] \in Segments
  BY <1>1, NumeralAssumption
<1>2. ASSUME NEW i \in DOMAIN raws, raws[i] \in Segments, ~Parses(raws[i]),
             NEW id \in MessageId, validate_mailbox(id.mailbox)
      PROVE  ~NamesMessage(raws[i], id)
  BY <1>2, NamesParses
<1> QED BY <1>1, <1>2 DEF BulkAccepted

\* The messages of a group differ in their uids.
LEMMA GroupUids ==
  ASSUME NEW raws \in Seq(Segments), BulkAccepted(raws),
         NEW ids, ids = dedupe_and_parse_message_ids(raws),
         NEW groups, groups = group_message_ids(ids), NEW g \in DOMAIN groups
  PROVE  /\ Denoted(build_uid_set(groups[g]).ranges) =
              {groups[g][i].uid : i \in DOMAIN groups[g]}
         /\ ~build_uid_set(groups[g]).overflow
<1>1. ids \in Seq(MessageId) /\ \A k, l \in DOMAIN ids : k < l => ids[k] # ids[l]
  BY AcceptedParse, Deduped
<1>2. Grouping(groups, ids, Len(ids))
  BY <1>1, Grouped
<1>3. \A k \in DOMAIN ids : ids[k].account_id = ids[1].account_id
  BY AcceptedResolved
<1>4. /\ groups[g] \in Seq(MessageId) /\ groups[g] # <<>>
      /\ \A i \in DOMAIN groups[g] :
           GroupOf(groups[g][i]) = g /\ \E k \in 1..Len(ids) : ids[k] = groups[g][i]
      /\ \A i, j \in DOMAIN groups[g] : i < j => groups[g][i] # groups[g][j]
  BY <1>2 DEF Grouping
<1>5. ASSUME NEW i \in DOMAIN groups[g], NEW j \in DOMAIN groups[g], i < j
      PROVE  groups[g][i].uid # groups[g][j].uid
  <2> DEFINE x == groups[g][i]
             y == groups[g][j]
  <2>1. x \in MessageId /\ y \in MessageId
    BY <1>4
  <2>2. x # y /\ GroupOf(x) = GroupOf(y)
    BY <1>4, <1>5
  <2>3. x.account_id = y.account_id
    <3>1. \A k \in 1..Len(ids) : k \in DOMAIN ids
      BY <1>1
    <3>2. PICK k \in DOMAIN ids : ids[k] = x
      BY <1>4, <3>1
    <3>3. PICK l \in DOMAIN ids : ids[l] = y
      BY <1>4, <3>1
    <3> HIDE DEF x, y
    <3> QED BY <1>3, <3>2, <3>3
  <2> HIDE DEF x, y
  <2>4. x.mailbox = y.mailbox /\ x.uidvalidity = y.uidvalidity
    BY <2>2 DEF GroupOf
  <2>5. x.uid # y.uid
    BY <2>1, <2>2, <2>3, <2>4 DEF MessageId
  <2> QED BY <2>5 DEF x, y
<1> QED BY <1>4, <1>5, UidSetOfGroup

-----------------------------------------------------------------------------
(* The theorems about calls.                                               *)

\* A step is a call of one of the three tools, or leaves none of them called.
LEMMA CallSteps ==
  ASSUME [CallNext \/ OtherCall]_callVars
  PROVE  \/ UNCHANGED callVars
         \/ call'.tool \notin {"apply_to_messages", "search_messages", "name_mailbox"}
         \/ \E raws \in BulkRequests : apply_to_messages(raws)
         \/ \E input \in SearchRequests : search_messages(input)
         \/ \E name \in NamesGiven : name_mailbox(name)
<1>1. Return => call'.tool \notin {"apply_to_messages", "search_messages", "name_mailbox"}
  BY DEF Return, NoCall
<1> QED BY <1>1, Zenon DEF CallNext, OtherCall

\* The answer to a bulk call is about the messages that its texts name, each
\* once, in the order they were named in, in the one group it belongs to; and
\* only a call that names too many, two accounts or no message is rejected.
THEOREM BulkCallsResolve == CallSpec => []IdsResolved
<1>1. CallInit => IdsResolved
  BY DEF CallInit, NoCall, IdsResolved
<1>2. ASSUME IdsResolved, [CallNext \/ OtherCall]_callVars PROVE IdsResolved'
  <2>1. CASE UNCHANGED callVars
    BY <1>2, <2>1 DEF callVars, IdsResolved
  <2>2. CASE call'.tool # "apply_to_messages"
    BY <2>2 DEF IdsResolved
  <2>3. ASSUME NEW raws \in BulkRequests, apply_to_messages(raws) PROVE IdsResolved'
    <3>0. raws \in Seq(Segments) /\ call'.message_ids = raws
      BY <2>3, CallsAssumption DEF apply_to_messages, Answered
    <3>1. CASE ~BulkAccepted(raws)
      <4>1. answer' = Rejected
        BY <2>3, <3>1 DEF apply_to_messages, Answered
      <4>2. RejectedFairly(raws)
        <5>1. \A id \in StoredIds : id \in MessageId /\ validate_mailbox(id.mailbox)
          BY CallsAssumption
        <5> QED BY <3>0, <3>1, <5>1, BulkRejected DEF RejectedFairly
      <4> QED BY <3>0, <4>1, <4>2 DEF IdsResolved, Rejected
    <3>2. CASE BulkAccepted(raws)
      <4> DEFINE ids == dedupe_and_parse_message_ids(raws)
                 groups == group_message_ids(ids)
      <4>1. answer'.status = "ok" /\ answer'.ids = ids /\ answer'.groups = groups
        BY <2>3, <3>2 DEF apply_to_messages, Answered
      <4>2. ids \in Seq(MessageId) /\ \A k, l \in DOMAIN ids : k < l => ids[k] # ids[l]
        BY <3>0, <3>2, AcceptedParse, Deduped
      <4>3. Grouping(groups, ids, Len(ids))
        BY <4>2, Grouped
      <4>4. \A i \in DOMAIN raws : \E k \in DOMAIN ids : NamesMessage(raws[i], ids[k])
        <5>1. \A i \in DOMAIN raws : raws[i] \in Segments /\ Parses(raws[i])
              /\ \E k \in DOMAIN ids : ids[k] = parse(raws[i])
          BY <3>0, <3>2, AcceptedParse, Deduped
        <5>2. \A k \in DOMAIN ids : ids[k] \in MessageId
          BY <4>2
        <5> HIDE DEF ids
        <5> QED BY <5>1, <5>2, ParseNames
      <4>5. \A k \in DOMAIN ids :
              /\ \E i \in DOMAIN raws : NamesMessage(raws[i], ids[k])
              /\ NamesMessage(encode(ids[k]), ids[k])
              /\ ids[k].account_id = ids[1].account_id
              /\ \A l \in (k + 1)..Len(ids) :
                   /\ ids[k] # ids[l]
                   /\ \E i \in DOMAIN raws : NamesMessage(raws[i], ids[k]) /\
                        \A j \in DOMAIN raws : NamesMessage(raws[j], ids[l]) => i < j
        BY <3>0, <3>2, AcceptedResolved
      <4> HIDE DEF ids, groups
      <4>6. \A k \in DOMAIN ids :
              Cardinality({place \in (DOMAIN groups) \X (DOMAIN ids) :
                LET group == groups[place[1]] IN
                place[2] \in DOMAIN group /\ group[place[2]] = ids[k]}) = 1
        BY <4>2, <4>3, OnePlace
      <4>7. \A k \in DOMAIN ids :
              /\ NamedAt(raws, ids[k]) # {}
              /\ \A l \in (k + 1)..Len(ids) :
                   \E i \in NamedAt(raws, ids[k]) : \A j \in NamedAt(raws, ids[l]) : i < j
        BY <4>5 DEF NamedAt
      <4>8. ResolvedAsNamed(raws, ids, groups)
        BY <4>4, <4>5, <4>6, <4>7 DEF ResolvedAsNamed
      <4> QED BY <3>0, <4>1, <4>8 DEF IdsResolved
    <3> QED BY <3>1, <3>2
  <2>4. ASSUME NEW input \in SearchRequests, search_messages(input) PROVE IdsResolved'
    BY <2>4 DEF search_messages, Answered, IdsResolved
  <2>5. ASSUME NEW name \in NamesGiven, name_mailbox(name) PROVE IdsResolved'
    BY <2>5 DEF name_mailbox, Answered, IdsResolved
  <2> QED BY <1>2, <2>1, <2>2, <2>3, <2>4, <2>5, CallSteps
<1> QED BY <1>1, <1>2, PTL DEF CallSpec

\* The uid set of a group denotes the uids of its messages and no other, and no
\* uid overflows while it is built.
THEOREM UidSetsExact == CallSpec => []UidSetExact
<1>1. CallInit => UidSetExact
  BY DEF CallInit, NoCall, UidSetExact
<1>2. ASSUME UidSetExact, [CallNext \/ OtherCall]_callVars PROVE UidSetExact'
  <2>1. CASE UNCHANGED callVars
    BY <1>2, <2>1 DEF callVars, UidSetExact
  <2>2. CASE call'.tool # "apply_to_messages"
    BY <2>2 DEF UidSetExact
  <2>3. ASSUME NEW raws \in BulkRequests, apply_to_messages(raws) PROVE UidSetExact'
    <3>0. raws \in Seq(Segments)
      BY CallsAssumption
    <3>1. CASE ~BulkAccepted(raws)
      <4>1. answer' = Rejected
        BY <2>3, <3>1 DEF apply_to_messages, Answered
      <4> QED BY <4>1 DEF UidSetExact, Rejected
    <3>2. CASE BulkAccepted(raws)
      <4> DEFINE ids == dedupe_and_parse_message_ids(raws)
                 groups == group_message_ids(ids)
      <4>1. answer'.groups = groups
            /\ \A g \in DOMAIN groups : answer'.uid_sets[g] = build_uid_set(groups[g])
        BY <2>3, <3>2 DEF apply_to_messages, Answered
      <4>2. ASSUME NEW g \in DOMAIN groups
            PROVE  /\ Denoted(build_uid_set(groups[g]).ranges) =
                        {groups[g][i].uid : i \in DOMAIN groups[g]}
                   /\ ~build_uid_set(groups[g]).overflow
        BY <3>0, <3>2, GroupUids
      <4> HIDE DEF ids, groups
      <4> QED BY <4>1, <4>2 DEF UidSetExact
    <3> QED BY <3>1, <3>2
  <2>4. ASSUME NEW input \in SearchRequests, search_messages(input) PROVE UidSetExact'
    BY <2>4 DEF search_messages, Answered, UidSetExact
  <2>5. ASSUME NEW name \in NamesGiven, name_mailbox(name) PROVE UidSetExact'
    BY <2>5 DEF name_mailbox, Answered, UidSetExact
  <2> QED BY <1>2, <2>1, <2>2, <2>3, <2>4, <2>5, CallSteps
<1> QED BY <1>1, <1>2, PTL DEF CallSpec

\* The query of a search that is accepted finds the messages its filters
\* describe, whatever they are; and every search that is rejected deserves it.
THEOREM SearchesMeanFilters == CallSpec => []SearchMeansFilters
<1>1. CallInit => SearchMeansFilters
  BY DEF CallInit, NoCall, SearchMeansFilters
<1>2. ASSUME SearchMeansFilters, [CallNext \/ OtherCall]_callVars PROVE SearchMeansFilters'
  <2>1. CASE UNCHANGED callVars
    BY <1>2, <2>1 DEF callVars, SearchMeansFilters
  <2>2. CASE call'.tool # "search_messages"
    BY <2>2 DEF SearchMeansFilters
  <2>3. ASSUME NEW raws \in BulkRequests, apply_to_messages(raws) PROVE SearchMeansFilters'
    BY <2>3 DEF apply_to_messages, Answered, SearchMeansFilters
  <2>4. ASSUME NEW input \in SearchRequests, search_messages(input) PROVE SearchMeansFilters'
    <3>0. input \in SearchInput /\ call'.input = input
      BY <2>4, CallsAssumption DEF search_messages, Answered
    <3>1. CASE input.cursor
      BY <3>0, <3>1 DEF SearchMeansFilters
    <3>2. CASE /\ ~input.cursor
               /\ \/ ~validate_search_input(input) \/ ~validate_account_id(input.account_id)
                  \/ ~QueryBuilds(input)
      <4>1. answer' = Rejected
        BY <2>4, <3>2 DEF search_messages, Answered
      <4> QED BY <3>0, <3>2, <4>1, RejectedForAReason DEF SearchMeansFilters, Rejected
    <3>3. CASE /\ ~input.cursor /\ QueryBuilds(input)
               /\ validate_search_input(input) /\ validate_account_id(input.account_id)
      <4>1. answer' = [status |-> "ok", query |-> build_search_query(input)]
        BY <2>4, <3>3 DEF search_messages, Answered
      <4>2. \A message \in StoredMessages :
              (\A term \in build_search_query(input) : MatchesTerm(message, term))
                <=> Asked(message, input)
        BY <3>0, <3>3, CallsAssumption, QueryMeansAsked
      <4> QED BY <3>0, <4>1, <4>2 DEF SearchMeansFilters
    <3> QED BY <3>1, <3>2, <3>3
  <2>5. ASSUME NEW name \in NamesGiven, name_mailbox(name) PROVE SearchMeansFilters'
    BY <2>5 DEF name_mailbox, Answered, SearchMeansFilters
  <2> QED BY <1>2, <2>1, <2>2, <2>3, <2>4, <2>5, CallSteps
<1> QED BY <1>1, <1>2, PTL DEF CallSpec

-----------------------------------------------------------------------------
(* Parts of mailbox names.                                                 *)

LEMMA FromTyped ==
  ASSUME NEW T, NEW s \in Seq(T), NEW i \in 1..(Len(s) + 1)
  PROVE  /\ From(i, s) \in Seq(T) /\ Len(From(i, s)) = Len(s) - i + 1
         /\ \A j \in 1..(Len(s) - i + 1) : From(i, s)[j] = s[i + j - 1]
<1>1. Len(s) \in Nat /\ i \in Nat /\ \A j \in i..Len(s) : s[j] \in T
  OBVIOUS
<1>2. /\ SubSeq(s, i, Len(s)) \in Seq(T)
      /\ Len(SubSeq(s, i, Len(s))) = IF i <= Len(s) THEN Len(s) - i + 1 ELSE 0
      /\ \A j \in 1..(Len(s) - i + 1) : SubSeq(s, i, Len(s))[j] = s[i + j - 1]
  BY <1>1, SubSeqProperties
<1>3. (IF i <= Len(s) THEN Len(s) - i + 1 ELSE 0) = Len(s) - i + 1
  BY <1>1
<1> QED BY <1>2, <1>3 DEF From

LEMMA UpToTyped ==
  ASSUME NEW T, NEW s \in Seq(T), NEW n \in 0..Len(s)
  PROVE  /\ SubSeq(s, 1, n) \in Seq(T) /\ Len(SubSeq(s, 1, n)) = n
         /\ \A j \in 1..n : SubSeq(s, 1, n)[j] = s[j]
<1>1. Len(s) \in Nat /\ n \in Nat /\ \A j \in 1..n : s[j] \in T
  OBVIOUS
<1>2. /\ SubSeq(s, 1, n) \in Seq(T)
      /\ Len(SubSeq(s, 1, n)) = IF 1 <= n THEN n - 1 + 1 ELSE 0
      /\ \A j \in 1..(n - 1 + 1) : SubSeq(s, 1, n)[j] = s[1 + j - 1]
  BY <1>1, SubSeqProperties
<1>3. (IF 1 <= n THEN n - 1 + 1 ELSE 0) = n /\ n - 1 + 1 = n
      /\ \A j \in 1..n : 1 + j - 1 = j
  BY <1>1
<1> QED BY <1>2, <1>3

\* A name is its start and what follows.
LEMMA Cut ==
  ASSUME NEW T, NEW s \in Seq(T), NEW n \in 0..Len(s)
  PROVE  SubSeq(s, 1, n) \o From(n + 1, s) = s
<1> DEFINE head == SubSeq(s, 1, n)
           rest == From(n + 1, s)
<1>1. n \in Nat /\ Len(s) \in Nat /\ n + 1 \in 1..(Len(s) + 1) /\ Len(s) - (n + 1) + 1 = Len(s) - n
  OBVIOUS
<1>2. head \in Seq(T) /\ Len(head) = n /\ \A j \in 1..n : head[j] = s[j]
  BY UpToTyped
<1>3. rest \in Seq(T) /\ Len(rest) = Len(s) - n
      /\ \A j \in 1..(Len(s) - n) : rest[j] = s[n + 1 + j - 1]
  BY <1>1, FromTyped
<1> HIDE DEF head, rest
<1>4. /\ head \o rest \in Seq(T) /\ Len(head \o rest) = Len(s)
      /\ \A i \in 1..Len(s) : (head \o rest)[i] = IF i <= n THEN head[i] ELSE rest[i - n]
  <2>1. Len(head) + Len(rest) = Len(s)
    BY <1>1, <1>2, <1>3
  <2> QED BY <1>2, <1>3, <2>1, ConcatProperties
<1>5. ASSUME NEW i \in 1..Len(s) PROVE (head \o rest)[i] = s[i]
  <2>1. CASE i <= n
    <3>1. i \in 1..n
      BY <1>1, <2>1
    <3> QED BY <1>2, <1>4, <2>1, <3>1
  <2>2. CASE ~(i <= n)
    <3>1. i - n \in 1..(Len(s) - n) /\ n + 1 + (i - n) - 1 = i
      BY <1>1, <2>2
    <3> QED BY <1>3, <1>4, <2>2, <3>1
  <2> QED BY <2>1, <2>2
<1>6. head \o rest = s
  BY <1>4, <1>5, SeqEqual
<1> QED BY <1>6 DEF head, rest

LEMMA FirstIs ==
  ASSUME NEW s \in Seq(Char), NEW c, NEW i \in 1..Len(s), s[i] = c,
         \A j \in 1..(i - 1) : s[j] # c
  PROVE  Occurs(c, s) /\ FirstOf(c, s) = i
<1>1. DOMAIN s = 1..Len(s) /\ Len(s) \in Nat
  OBVIOUS
<1>2. i \in DOMAIN s /\ s[i] = c /\ \A j \in 1..(i - 1) : s[j] # c
  BY <1>1
<1>3. ASSUME NEW k \in DOMAIN s, s[k] = c, \A j \in 1..(k - 1) : s[j] # c PROVE k = i
  BY <1>1, <1>2, <1>3
<1> QED BY <1>2, <1>3 DEF Occurs, FirstOf

LEMMA FirstOccurs ==
  ASSUME NEW s \in Seq(Char), NEW c, Occurs(c, s)
  PROVE  /\ FirstOf(c, s) \in 1..Len(s) /\ s[FirstOf(c, s)] = c
         /\ \A j \in 1..(FirstOf(c, s) - 1) : s[j] # c
<1> DEFINE at == {i \in DOMAIN s : s[i] = c}
<1>1. DOMAIN s = 1..Len(s) /\ Len(s) \in Nat
  OBVIOUS
<1>2. at \in SUBSET Nat /\ at # {}
  BY <1>1 DEF Occurs
<1>3. PICK i \in at : \A j \in at : i <= j
  BY <1>2, LeastNatural
<1>4. ASSUME NEW j \in 1..(i - 1) PROVE s[j] # c
  <2>1. j \in DOMAIN s /\ ~(i <= j)
    BY <1>1, <1>2, <1>3
  <2> QED BY <1>3, <2>1
<1>5. i \in 1..Len(s) /\ s[i] = c
  BY <1>1, <1>3
<1>6. FirstOf(c, s) = i
  BY <1>4, <1>5, FirstIs
<1> QED BY <1>4, <1>5, <1>6

\* Induction over the length of names.
LEMMA LengthInduction ==
  ASSUME NEW T, NEW good,
         \A s \in Seq(T) : (\A t \in Seq(T) : Len(t) < Len(s) => t \in good) => s \in good
  PROVE  \A s \in Seq(T) : s \in good
<1> DEFINE bad == {n \in Nat : \E s \in Seq(T) : Len(s) = n /\ s \notin good}
<1> SUFFICES ASSUME bad # {} PROVE FALSE
  <2>1. \A s \in Seq(T) : Len(s) \in Nat
    OBVIOUS
  <2> QED BY <2>1
<1>1. PICK n \in bad : \A m \in bad : n <= m
  BY LeastNatural
<1>2. PICK s \in Seq(T) : Len(s) = n /\ s \notin good
  BY <1>1
<1>3. ASSUME NEW t \in Seq(T), Len(t) < Len(s) PROVE t \in good
  <2>1. Len(t) \in Nat /\ n \in Nat
    BY <1>1
  <2>2. Len(t) \notin bad
    BY <1>1, <1>2, <1>3, <2>1
  <2> QED BY <2>1, <2>2
<1> QED BY <1>2, <1>3

\* None is no name.
LEMMA NoneOrSome ==
  /\ \A text : Some(text) # None /\ Some(text)[1] = text
  /\ \A text, other : Some(text) = Some(other) => text = other
<1>1. \A text : Len(<<text>>) = 1 /\ <<text>>[1] = text /\ Len(<<>>) = 0
  OBVIOUS
<1> QED BY <1>1 DEF Some, None

-----------------------------------------------------------------------------
(* encode_utf7_imap.                                                       *)

\* Characters from outside ASCII that follow each other at the start of a name.
LEMMA TogetherTyped ==
  ASSUME NEW name \in Seq(Char), name # <<>>
  PROVE  /\ Together(name) \in 1..Len(name)
         /\ name[1] \in NonAscii => \A i \in 1..Together(name) : name[i] \in NonAscii
         /\ name[1] \notin NonAscii => Together(name) = 1
<1>1. Len(name) \in Nat /\ DOMAIN name = 1..Len(name) /\ 1 \in 1..Len(name)
  <2>1. Len(name) \in Nat \ {0}
    BY EmptySeq
  <2> QED BY <2>1
<1>2. CASE name[1] \notin NonAscii
  BY <1>1, <1>2 DEF Together
<1>3. CASE name[1] \in NonAscii
  <2> DEFINE ends == {n \in DOMAIN name : n < Len(name) => name[n + 1] \notin NonAscii}
  <2>1. Len(name) \in ends /\ ends \in SUBSET Nat
    BY <1>1
  <2>2. PICK n \in ends : \A m \in ends : n <= m
    BY <2>1, LeastNatural
  <2>3. ASSUME NEW i \in 1..n PROVE name[i] \in NonAscii
    <3>1. CASE i = 1
      BY <1>3, <3>1
    <3>2. CASE i # 1
      <4>1. i - 1 \in DOMAIN name /\ ~(n <= i - 1) /\ (i - 1) + 1 = i
        BY <1>1, <2>2, <3>2
      <4>2. i - 1 \notin ends
        BY <2>2, <4>1
      <4> QED BY <4>1, <4>2
    <3> QED BY <3>1, <3>2
  <2>4. Together(name) = CHOOSE m \in DOMAIN name :
                           /\ \A i \in 1..m : name[i] \in NonAscii
                           /\ m < Len(name) => name[m + 1] \notin NonAscii
    BY <1>3 DEF Together
  <2>5. \E m \in DOMAIN name : /\ \A i \in 1..m : name[i] \in NonAscii
                               /\ m < Len(name) => name[m + 1] \notin NonAscii
    BY <2>2, <2>3
  <2>6. Together(name) \in DOMAIN name /\ \A i \in 1..Together(name) : name[i] \in NonAscii
    BY <2>4, <2>5, Zenon
  <2> QED BY <1>1, <1>3, <2>6
<1> QED BY <1>2, <1>3

LEMMA ShiftTyped ==
  ASSUME NEW payload \in Seq(Char)
  PROVE  /\ Shift(payload) \in Seq(Char) /\ Len(Shift(payload)) = Len(payload) + 2
         /\ Shift(payload)[1] = "&" /\ Shift(payload)[Len(payload) + 2] = "-"
         /\ \A i \in 1..Len(payload) : Shift(payload)[i + 1] = payload[i]
<1> DEFINE n == Len(payload)
           opened == <<"&">> \o payload
<1>1. n \in Nat /\ <<"&">> \in Seq(Char) /\ <<"-">> \in Seq(Char)
      /\ Len(<<"&">>) = 1 /\ Len(<<"-">>) = 1 /\ <<"&">>[1] = "&" /\ <<"-">>[1] = "-"
  <2>1. "&" \in Char /\ "-" \in Char
    BY DEF Char
  <2> QED BY <2>1
<1>2. /\ opened \in Seq(Char) /\ Len(opened) = 1 + n
      /\ \A i \in 1..(1 + n) : opened[i] = IF i <= 1 THEN <<"&">>[i] ELSE payload[i - 1]
  BY <1>1, ConcatProperties
<1> HIDE DEF opened, n
<1>3. /\ opened \o <<"-">> \in Seq(Char) /\ Len(opened \o <<"-">>) = (1 + n) + 1
      /\ \A i \in 1..((1 + n) + 1) :
           (opened \o <<"-">>)[i] = IF i <= 1 + n THEN opened[i] ELSE <<"-">>[i - (1 + n)]
  BY <1>1, <1>2, ConcatProperties
<1>4. Shift(payload) = opened \o <<"-">>
  BY DEF Shift, opened
<1>5. (1 + n) + 1 = n + 2 /\ 1 \in 1..(1 + n) /\ 1 \in 1..((1 + n) + 1) /\ 1 <= 1 + n
      /\ n + 2 \in 1..((1 + n) + 1) /\ ~(n + 2 <= 1 + n) /\ (n + 2) - (1 + n) = 1
  BY <1>1
<1>6. Shift(payload)[1] = "&" /\ Shift(payload)[n + 2] = "-"
  BY <1>1, <1>2, <1>3, <1>4, <1>5
<1>7. ASSUME NEW i \in 1..n PROVE Shift(payload)[i + 1] = payload[i]
  <2>1. i + 1 \in 1..((1 + n) + 1) /\ i + 1 \in 1..(1 + n) /\ i + 1 <= 1 + n
        /\ ~(i + 1 <= 1) /\ (i + 1) - 1 = i
    BY <1>1
  <2> QED BY <1>2, <1>3, <1>4, <2>1
<1> QED BY <1>3, <1>4, <1>5, <1>6, <1>7 DEF n

\* The first characters are written as they are, or as a shift that decodes to
\* them.
LEMMA StartTyped ==
  ASSUME NEW name \in Seq(Char), name # <<>>
  PROVE  /\ EncodedStart(name) \in Seq(Char)
         /\ \/ EncodedStart(name) = <<name[1]>> /\ name[1] # "&" /\ Together(name) = 1
            \/ \E payload \in Seq(DOMAIN Base64) :
                 /\ EncodedStart(name) = Shift(payload)
                 /\ decode_modified_utf7_token(payload) =
                      Some(SubSeq(name, 1, Together(name)))
<1> DEFINE n == Together(name)
<1>1. /\ n \in 1..Len(name) /\ Len(name) \in Nat /\ name[1] \in Char
      /\ SubSeq(name, 1, n) \in Seq(Char) /\ Len(SubSeq(name, 1, n)) = n
      /\ \A j \in 1..n : SubSeq(name, 1, n)[j] = name[j]
  <2>1. n \in 1..Len(name) /\ Len(name) \in Nat
    BY TogetherTyped
  <2>2. n \in 0..Len(name)
    BY <2>1
  <2>3. 1 \in 1..Len(name)
    BY <2>1
  <2>4. name[1] \in Char
    BY <2>3, ElementOfSeq
  <2> HIDE DEF n
  <2> QED BY <2>1, <2>2, <2>4, UpToTyped
<1>2. CASE name[1] \in NonAscii
  <2> DEFINE payload == [i \in 1..n |-> Letter(name[i])]
  <2>1. \A i \in 1..n : name[i] \in NonAscii
    BY <1>2, TogetherTyped
  <2>2. ASSUME NEW i \in 1..n
        PROVE  Letter(name[i]) \in DOMAIN Base64 /\ Base64[Letter(name[i])] = name[i]
    BY <2>1, CharAssumption DEF Letter
  <2>3. n \in Nat
    BY <1>1
  <2> HIDE DEF n
  <2>4. payload \in Seq(DOMAIN Base64) /\ Len(payload) = n /\ DOMAIN payload = 1..n
    BY <2>2, <2>3
  <2>5. payload # <<>>
    <3>1. Len(<<>>) = 0 /\ n # 0
      BY <1>1
    <3> QED BY <2>4, <3>1
  <2>6. [i \in DOMAIN payload |-> Base64[payload[i]]] = SubSeq(name, 1, n)
    <3> DEFINE text == [i \in DOMAIN payload |-> Base64[payload[i]]]
    <3>1. \A i \in 1..n : text[i] = name[i] /\ name[i] \in Char
      <4>1. \A i \in 1..n : payload[i] = Letter(name[i])
        OBVIOUS
      <4>2. \A i \in 1..n : name[i] \in Char
        BY <2>1 DEF Char
      <4> QED BY <2>2, <2>4, <4>1, <4>2
    <3>2. text \in Seq(Char) /\ Len(text) = n
      <4>1. DOMAIN text = 1..n
        BY <2>4
      <4> QED BY <2>3, <2>4, <3>1, <4>1
    <3> HIDE DEF text, payload
    <3>3. \A i \in 1..Len(text) : text[i] = SubSeq(name, 1, n)[i]
      BY <1>1, <3>1, <3>2
    <3>4. text = SubSeq(name, 1, n)
      BY <1>1, <3>2, <3>3, SeqEqual
    <3> QED BY <3>4 DEF text
  <2>7. \A i \in DOMAIN payload : payload[i] \in DOMAIN Base64
    BY <2>2
  <2>8. EncodedStart(name) = Shift(payload)
    BY <1>2 DEF EncodedStart, n
  <2> HIDE DEF payload
  <2>9. decode_modified_utf7_token(payload) = Some(SubSeq(name, 1, n))
    BY <2>5, <2>6, <2>7 DEF decode_modified_utf7_token
  <2>10. payload \in Seq(Char)
    <3>1. DOMAIN Base64 \subseteq Char
      BY CharAssumption DEF Char
    <3> QED BY <2>4, <3>1, SeqMonotonic
  <2> QED BY <2>4, <2>8, <2>9, <2>10, ShiftTyped DEF n
<1>3. CASE name[1] \notin NonAscii /\ name[1] = "&"
  <2>1. EncodedStart(name) = Shift(<<>>)
    BY <1>3 DEF EncodedStart
  <2>2. n = 1
    BY <1>3, TogetherTyped
  <2>3. SubSeq(name, 1, n) = <<"&">>
    <3>1. <<"&">> \in Seq(Char) /\ Len(<<"&">>) = 1 /\ <<"&">>[1] = "&"
      BY <1>1, <1>3
    <3> HIDE DEF n
    <3>2. \A i \in 1..Len(SubSeq(name, 1, n)) : SubSeq(name, 1, n)[i] = <<"&">>[i]
      BY <1>1, <1>3, <2>2, <3>1
    <3> QED BY <1>1, <2>2, <3>1, <3>2, SeqEqual
  <2>4. decode_modified_utf7_token(<<>>) = Some(<<"&">>)
    BY DEF decode_modified_utf7_token
  <2>5. <<>> \in Seq(DOMAIN Base64) /\ <<>> \in Seq(Char)
    OBVIOUS
  <2> QED BY <2>1, <2>3, <2>4, <2>5, ShiftTyped DEF n
<1>4. CASE name[1] \notin NonAscii /\ name[1] # "&"
  <2>1. EncodedStart(name) = <<name[1]>>
    BY <1>4 DEF EncodedStart
  <2>2. <<name[1]>> \in Seq(Char)
    BY <1>1
  <2> QED BY <1>4, <2>1, <2>2, TogetherTyped
<1> QED BY <1>2, <1>3, <1>4

\* The recursion has a value for every name.
LEMMA EncodeRecursion ==
  /\ encode_utf7_imap \in [Seq(Char) -> Seq(Char)]
  /\ \A name \in Seq(Char) :
       encode_utf7_imap[name] =
         IF name = <<>> THEN <<>>
         ELSE EncodedStart(name) \o encode_utf7_imap[From(Together(name) + 1, name)]
<1> DEFINE S == Seq(Char)
           more == S \ {<<>>}
           rank == [s \in S |-> Len(s)]
           next == [s \in more |-> From(Together(s) + 1, s)]
           base == [s \in S |-> <<>>]
           step == [p \in S \X S |-> IF p[1] \in more THEN EncodedStart(p[1]) \o p[2] ELSE <<>>]
           Step(F, name) ==
             IF name = <<>> THEN <<>> ELSE EncodedStart(name) \o F[From(Together(name) + 1, name)]
<1>1. rank \in [S -> Nat] /\ base \in [S -> S] /\ more \in SUBSET S
  OBVIOUS
<1>2. ASSUME NEW s \in more PROVE next[s] \in S /\ rank[next[s]] < rank[s]
  <2>1. s \in Seq(Char) /\ s # <<>>
    OBVIOUS
  <2>2. Together(s) \in 1..Len(s) /\ Len(s) \in Nat
    BY <2>1, TogetherTyped
  <2>3. Together(s) + 1 \in 1..(Len(s) + 1) /\ Len(s) - (Together(s) + 1) + 1 < Len(s)
    BY <2>2
  <2>4. From(Together(s) + 1, s) \in Seq(Char)
        /\ Len(From(Together(s) + 1, s)) = Len(s) - (Together(s) + 1) + 1
    BY <2>1, <2>3, FromTyped
  <2> QED BY <2>1, <2>3, <2>4
<1>3. step \in [S \X S -> S]
  <2>1. ASSUME NEW p \in S \X S
        PROVE  (IF p[1] \in more THEN EncodedStart(p[1]) \o p[2] ELSE <<>>) \in S
    <3>1. p[1] \in S /\ p[2] \in S
      OBVIOUS
    <3>2. CASE p[1] \in more
      <4>1. EncodedStart(p[1]) \in Seq(Char)
        BY <3>1, <3>2, StartTyped
      <4> QED BY <3>1, <3>2, <4>1, ConcatProperties
    <3> QED BY <3>2
  <2> HIDE DEF S, more
  <2> QED BY <2>1
<1>4. IsChain(S, S, rank, more, next, base, step)
  <2>1. next \in [more -> S]
    BY <1>2
  <2> HIDE DEF S, more, rank, next, base, step
  <2> QED BY <1>1, <1>2, <1>3, <2>1 DEF IsChain
<1>5. \E f \in [S -> S] :
        \A s \in S : f[s] = IF s \in more THEN step[<<s, f[next[s]]>>] ELSE base[s]
  <2> HIDE DEF S, more, rank, next, base, step
  <2> QED BY <1>4, ChainRecursion
<1>6. PICK f \in [S -> S] :
        \A s \in S : f[s] = IF s \in more THEN step[<<s, f[next[s]]>>] ELSE base[s]
  BY <1>5
<1>7. \A s \in S : f[s] = Step(f, s)
  <2>1. ASSUME NEW s \in more PROVE f[s] = EncodedStart(s) \o f[From(Together(s) + 1, s)]
    <3>1. s \in S /\ next[s] = From(Together(s) + 1, s) /\ next[s] \in S
      BY <1>2
    <3>2. f[next[s]] \in S /\ f[s] = step[<<s, f[next[s]]>>]
      BY <1>6, <3>1
    <3>3. \A t \in S : step[<<s, t>>] = EncodedStart(s) \o t
      BY <3>1
    <3> HIDE DEF S, more, next, step
    <3> QED BY <3>1, <3>2, <3>3
  <2>2. f[<<>>] = <<>>
    <3>1. <<>> \in S /\ <<>> \notin more /\ base[<<>>] = <<>>
      OBVIOUS
    <3> HIDE DEF S, more, base, step, next
    <3> QED BY <1>6, <3>1
  <2>3. \A s \in S : s = <<>> \/ s \in more
    OBVIOUS
  <2> HIDE DEF S, more
  <2> QED BY <2>1, <2>2, <2>3
<1> HIDE DEF more, rank, next, base, step
<1>8. f = [name \in S |-> Step(f, name)]
  <2> HIDE DEF S, Step
  <2> QED BY <1>7
<1> DEFINE F == encode_utf7_imap
           good == {s \in S : F[s] \in S}
<1>9. F = [name \in S |-> Step(F, name)]
  BY <1>8 DEF encode_utf7_imap
<1> HIDE DEF F
<1>10. \A s \in S : F[s] = Step(F, s)
  <2> HIDE DEF S, Step
  <2> QED BY <1>9
<1>11. ASSUME NEW s \in Seq(Char), \A t \in Seq(Char) : Len(t) < Len(s) => t \in good
       PROVE  s \in good
  <2>1. CASE s = <<>>
    BY <1>10, <2>1
  <2>2. CASE s # <<>>
    <3> DEFINE t == From(Together(s) + 1, s)
    <3>1. t \in Seq(Char) /\ Len(t) < Len(s)
      <4>1. Together(s) \in 1..Len(s) /\ Len(s) \in Nat
        BY <2>2, TogetherTyped
      <4>2. Together(s) + 1 \in 1..(Len(s) + 1) /\ Len(s) - (Together(s) + 1) + 1 < Len(s)
        BY <4>1
      <4> QED BY <4>2, FromTyped
    <3>2. F[t] \in Seq(Char)
      BY <1>11, <3>1
    <3>3. F[s] = EncodedStart(s) \o F[t]
      BY <1>10, <2>2
    <3>4. EncodedStart(s) \in Seq(Char)
      BY <2>2, StartTyped
    <3> HIDE DEF t
    <3> QED BY <3>2, <3>3, <3>4, ConcatProperties
  <2> QED BY <2>1, <2>2
<1>12. \A s \in Seq(Char) : s \in good
  <2> HIDE DEF good
  <2> QED BY <1>11, LengthInduction
<1>13. F \in [S -> S]
  <2> HIDE DEF Step, S
  <2> QED BY <1>9, <1>12 DEF S
<1> QED BY <1>10, <1>13 DEF F

-----------------------------------------------------------------------------
(* decode_mailbox_name_inner.                                              *)

\* A name from its first "&" on, the payload of the shift there, and what
\* follows the shift.
Opened(name) == From(FirstOf("&", name), name)
Payload(name) == SubSeq(Opened(name), 2, FirstOf("-", Opened(name)) - 1)
Rest(name) == From(FirstOf("-", Opened(name)) + 1, Opened(name))
Token(name) == decode_modified_utf7_token(Payload(name))

\* The name, with the rest decoded.
Decoded(name, rest) ==
  IF None \in {Token(name), rest} THEN None
  ELSE Some(SubSeq(name, 1, FirstOf("&", name) - 1) \o Token(name)[1] \o rest[1])

Texts == {None} \cup {Some(text) : text \in Seq(Char)}

LEMMA TokenTyped ==
  ASSUME NEW payload \in Seq(Char)
  PROVE  decode_modified_utf7_token(payload) \in Texts
<1> DEFINE text == [i \in DOMAIN payload |-> Base64[payload[i]]]
<1>1. CASE payload = <<>>
  <2>1. "&" \in Char
    BY DEF Char
  <2>2. <<"&">> \in Seq(Char)
    BY <2>1
  <2> QED BY <1>1, <2>2 DEF decode_modified_utf7_token, Texts
<1>2. CASE payload # <<>> /\ \A i \in DOMAIN payload : payload[i] \in DOMAIN Base64
  <2>1. Len(payload) \in Nat /\ DOMAIN payload = 1..Len(payload)
    OBVIOUS
  <2>2. \A i \in 1..Len(payload) : Base64[payload[i]] \in Char
    BY <1>2, <2>1, CharAssumption
  <2>3. text \in Seq(Char)
    BY <2>1, <2>2
  <2>4. decode_modified_utf7_token(payload) = Some(text)
    BY <1>2 DEF decode_modified_utf7_token
  <2> HIDE DEF text
  <2> QED BY <2>3, <2>4 DEF Texts
<1>3. CASE payload # <<>> /\ ~\A i \in DOMAIN payload : payload[i] \in DOMAIN Base64
  BY <1>3 DEF decode_modified_utf7_token, Texts
<1> QED BY <1>1, <1>2, <1>3

\* Parts of a name with a shift.
LEMMA PartsTyped ==
  ASSUME NEW name \in Seq(Char), Occurs("&", name), Occurs("-", Opened(name))
  PROVE  /\ SubSeq(name, 1, FirstOf("&", name) - 1) \in Seq(Char) /\ Payload(name) \in Seq(Char)
         /\ Rest(name) \in Seq(Char) /\ Len(Rest(name)) < Len(name)
<1> DEFINE start == FirstOf("&", name)
           segment == Opened(name)
           end == FirstOf("-", segment)
<1>1. start \in 1..Len(name) /\ Len(name) \in Nat
  BY FirstOccurs
<1>2. segment \in Seq(Char) /\ Len(segment) = Len(name) - start + 1
  <2>1. start \in 1..(Len(name) + 1)
    BY <1>1
  <2> HIDE DEF start
  <2> QED BY <2>1, FromTyped DEF Opened, start
<1>3. SubSeq(name, 1, start - 1) \in Seq(Char)
  <2>1. start - 1 \in 0..Len(name)
    BY <1>1
  <2> HIDE DEF start
  <2> QED BY <2>1, UpToTyped
<1> HIDE DEF segment
<1>4. end \in 1..Len(segment)
  BY <1>2, FirstOccurs DEF segment
<1> HIDE DEF start, end
<1>5. Payload(name) \in Seq(Char)
  <2>1. 2 \in Int /\ end - 1 \in Int /\ \A j \in 2..(end - 1) : segment[j] \in Char
    BY <1>1, <1>2, <1>4
  <2>2. SubSeq(segment, 2, end - 1) \in Seq(Char)
    BY <2>1, SubSeqProperties
  <2> QED BY <2>2 DEF Payload, segment, end
<1>6. From(end + 1, segment) \in Seq(Char) /\ Len(From(end + 1, segment)) < Len(name)
  <2>1. end + 1 \in 1..(Len(segment) + 1) /\ Len(segment) - (end + 1) + 1 < Len(name)
    BY <1>1, <1>2, <1>4
  <2> QED BY <1>2, <2>1, FromTyped
<1>7. Rest(name) = From(end + 1, segment)
  BY DEF Rest, end, segment
<1> QED BY <1>3, <1>5, <1>6, <1>7 DEF start

LEMMA DecodedTyped ==
  ASSUME NEW name \in Seq(Char), Occurs("&", name), Occurs("-", Opened(name)),
         NEW rest \in Texts
  PROVE  Decoded(name, rest) \in Texts
<1>1. CASE None \in {Token(name), rest}
  BY <1>1 DEF Decoded, Texts
<1>2. CASE None \notin {Token(name), rest}
  <2> DEFINE start == SubSeq(name, 1, FirstOf("&", name) - 1)
  <2>1. start \in Seq(Char) /\ Token(name) \in Texts
    BY PartsTyped, TokenTyped DEF Token
  <2>2. Token(name)[1] \in Seq(Char) /\ rest[1] \in Seq(Char)
    BY <1>2, <2>1, NoneOrSome DEF Texts
  <2>3. Decoded(name, rest) = Some(start \o Token(name)[1] \o rest[1])
    BY <1>2 DEF Decoded
  <2> HIDE DEF start
  <2>4. start \o Token(name)[1] \o rest[1] \in Seq(Char)
    BY <2>1, <2>2, ConcatProperties
  <2> QED BY <2>3, <2>4 DEF Texts
<1> QED BY <1>1, <1>2

\* The recursion has a value for every name.
LEMMA DecodeRecursion ==
  ASSUME NEW name \in Seq(Char)
  PROVE  decode_mailbox_name_inner[name] =
           IF ~Occurs("&", name) THEN Some(name)
           ELSE IF ~Occurs("-", Opened(name)) THEN None
           ELSE Decoded(name, decode_mailbox_name_inner[Rest(name)])
<1> DEFINE S == Seq(Char)
           more == {s \in S : Occurs("&", s) /\ Occurs("-", Opened(s))}
           rank == [s \in S |-> Len(s)]
           next == [s \in more |-> Rest(s)]
           base == [s \in S |-> IF ~Occurs("&", s) THEN Some(s) ELSE None]
           step == [p \in S \X Texts |-> IF p[1] \in more THEN Decoded(p[1], p[2]) ELSE None]
           Step(F, s) == IF ~Occurs("&", s) THEN Some(s)
                         ELSE IF ~Occurs("-", Opened(s)) THEN None
                         ELSE Decoded(s, F[Rest(s)])
<1>1. rank \in [S -> Nat] /\ more \in SUBSET S
  OBVIOUS
<1>2. base \in [S -> Texts]
  <2>1. \A s \in S : (IF ~Occurs("&", s) THEN Some(s) ELSE None) \in Texts
    BY DEF Texts
  <2> HIDE DEF S
  <2> QED BY <2>1
<1>3. ASSUME NEW s \in more PROVE s \in S /\ next[s] \in S /\ rank[next[s]] < rank[s]
  BY PartsTyped
<1>4. step \in [S \X Texts -> Texts]
  <2>1. ASSUME NEW p \in S \X Texts
        PROVE  (IF p[1] \in more THEN Decoded(p[1], p[2]) ELSE None) \in Texts
    <3>1. p[2] \in Texts
      OBVIOUS
    <3>2. CASE p[1] \in more
      BY <3>1, <3>2, DecodedTyped
    <3>3. CASE p[1] \notin more
      <4> HIDE DEF more
      <4> QED BY <3>3 DEF Texts
    <3> QED BY <3>2, <3>3
  <2> HIDE DEF S, more
  <2> QED BY <2>1
<1>5. IsChain(S, Texts, rank, more, next, base, step)
  <2>1. next \in [more -> S]
    BY <1>3
  <2> HIDE DEF S, more, rank, next, base, step
  <2> QED BY <1>1, <1>2, <1>3, <1>4, <2>1 DEF IsChain
<1>6. \E f \in [S -> Texts] :
        \A s \in S : f[s] = IF s \in more THEN step[<<s, f[next[s]]>>] ELSE base[s]
  <2> HIDE DEF S, more, rank, next, base, step
  <2> QED BY <1>5, ChainRecursion
<1>7. PICK f \in [S -> Texts] :
        \A s \in S : f[s] = IF s \in more THEN step[<<s, f[next[s]]>>] ELSE base[s]
  BY <1>6
<1>8. \A s \in S : f[s] = Step(f, s)
  <2>1. ASSUME NEW s \in more PROVE f[s] = Decoded(s, f[Rest(s)])
    <3>1. s \in S /\ next[s] = Rest(s) /\ next[s] \in S
      BY <1>3
    <3>2. f[next[s]] \in Texts /\ f[s] = step[<<s, f[next[s]]>>]
      BY <1>7, <3>1
    <3>3. \A t \in Texts : step[<<s, t>>] = Decoded(s, t)
      BY <3>1
    <3> HIDE DEF S, more, next, step
    <3> QED BY <3>1, <3>2, <3>3
  <2>2. ASSUME NEW s \in S, s \notin more PROVE f[s] = IF ~Occurs("&", s) THEN Some(s) ELSE None
    <3>1. base[s] = IF ~Occurs("&", s) THEN Some(s) ELSE None
      OBVIOUS
    <3> HIDE DEF S, more, base, step, next
    <3> QED BY <1>7, <2>2, <3>1
  <2>3. \A s \in S : s \in more <=> Occurs("&", s) /\ Occurs("-", Opened(s))
    OBVIOUS
  <2> HIDE DEF S, more
  <2> QED BY <2>1, <2>2, <2>3
<1> HIDE DEF more, rank, next, base, step
<1>9. f = [s \in S |-> Step(f, s)]
  <2> HIDE DEF S, Step
  <2> QED BY <1>8
<1> DEFINE F == decode_mailbox_name_inner
<1>10. F = [s \in S |-> Step(F, s)]
  BY <1>9 DEF decode_mailbox_name_inner, Decoded, Token, Payload, Rest, Opened
<1> HIDE DEF F
<1>11. F[name] = Step(F, name)
  <2> HIDE DEF Step
  <2> QED BY <1>10
<1> QED BY <1>11 DEF F

LEMMA DecodeTyped ==
  \A name \in Seq(Char) : decode_mailbox_name_inner[name] \in Texts
<1> DEFINE good == {s \in Seq(Char) : decode_mailbox_name_inner[s] \in Texts}
<1>1. ASSUME NEW s \in Seq(Char), \A t \in Seq(Char) : Len(t) < Len(s) => t \in good
      PROVE  s \in good
  <2>1. CASE ~Occurs("&", s)
    BY <2>1, DecodeRecursion DEF Texts
  <2>2. CASE Occurs("&", s) /\ ~Occurs("-", Opened(s))
    BY <2>2, DecodeRecursion DEF Texts
  <2>3. CASE Occurs("&", s) /\ Occurs("-", Opened(s))
    <3>1. Rest(s) \in good
      BY <1>1, <2>3, PartsTyped
    <3> QED BY <2>3, <3>1, DecodeRecursion, DecodedTyped
  <2> QED BY <2>1, <2>2, <2>3
<1>2. \A s \in Seq(Char) : s \in good
  <2> HIDE DEF good
  <2> QED BY <1>1, LengthInduction
<1> QED BY <1>2

\* A character that opens no shift stands for itself.
LEMMA DecodePlain ==
  ASSUME NEW c \in Char, c # "&", NEW s \in Seq(Char), NEW text \in Seq(Char),
         decode_mailbox_name_inner[s] = Some(text)
  PROVE  decode_mailbox_name_inner[<<c>> \o s] = Some(<<c>> \o text)
<1> DEFINE l == <<c>> \o s
           D == decode_mailbox_name_inner
<1>1. <<c>> \in Seq(Char) /\ Len(<<c>>) = 1 /\ <<c>>[1] = c /\ Len(s) \in Nat
  OBVIOUS
<1>2. /\ l \in Seq(Char) /\ Len(l) = 1 + Len(s)
      /\ \A i \in 1..(1 + Len(s)) : l[i] = IF i <= 1 THEN <<c>>[i] ELSE s[i - 1]
  BY <1>1, ConcatProperties
<1>3. l[1] = c /\ \A i \in 1..Len(s) : l[i + 1] = s[i]
  <2> HIDE DEF l
  <2>1. 1 \in 1..(1 + Len(s)) /\ 1 <= 1
    BY <1>1
  <2>2. \A i \in 1..Len(s) : i + 1 \in 1..(1 + Len(s)) /\ ~(i + 1 <= 1) /\ (i + 1) - 1 = i
    BY <1>1
  <2> QED BY <1>1, <1>2, <2>1, <2>2
<1> HIDE DEF l, D
<1>4. \A j \in 2..Len(l) : j - 1 \in 1..Len(s) /\ l[j] = s[j - 1]
  <2>1. ASSUME NEW j \in 2..Len(l) PROVE j - 1 \in 1..Len(s) /\ l[j] = s[j - 1]
    <3>1. j - 1 \in 1..Len(s) /\ (j - 1) + 1 = j
      BY <1>1, <1>2
    <3> QED BY <1>3, <3>1
  <2> QED BY <2>1
<1>5. CASE ~Occurs("&", s)
  <2>1. D[s] = Some(s)
    BY <1>5, DecodeRecursion DEF D
  <2>2. s = text
    BY <2>1, NoneOrSome DEF D
  <2>3. \A i \in 1..Len(s) : s[i] # "&"
    BY <1>5 DEF Occurs
  <2>4. \A j \in 1..Len(l) : l[j] # "&"
    <3>1. \A j \in 1..Len(l) : j = 1 \/ j \in 2..Len(l)
      BY <1>1, <1>2
    <3> QED BY <1>3, <1>4, <2>3, <3>1
  <2>5. ~Occurs("&", l)
    BY <1>2, <2>4 DEF Occurs
  <2>6. D[l] = Some(l)
    BY <1>2, <2>5, DecodeRecursion DEF D
  <2> QED BY <2>2, <2>6 DEF l, D
<1>6. CASE Occurs("&", s)
  <2> DEFINE a == FirstOf("&", s)
             start == SubSeq(s, 1, a - 1)
             rest == D[Rest(s)]
  <2>1. a \in 1..Len(s) /\ s[a] = "&" /\ \A j \in 1..(a - 1) : s[j] # "&"
    BY <1>6, FirstOccurs
  <2>2. Occurs("-", Opened(s)) /\ D[s] = Decoded(s, rest)
    BY <1>6, DecodeRecursion, NoneOrSome DEF D
  <2>3. None \notin {Token(s), rest}
        /\ Some(text) = Some(start \o Token(s)[1] \o rest[1])
    BY <2>2, NoneOrSome DEF Decoded, D
  <2>4. text = start \o Token(s)[1] \o rest[1]
    BY <2>3, NoneOrSome
  <2>5. start \in Seq(Char) /\ Token(s)[1] \in Seq(Char) /\ rest[1] \in Seq(Char)
    <3>1. start \in Seq(Char) /\ Token(s) \in Texts /\ rest \in Texts
      BY <1>6, <2>2, PartsTyped, TokenTyped, DecodeTyped DEF Token, D
    <3> HIDE DEF start, rest
    <3> QED BY <2>3, <3>1, NoneOrSome DEF Texts
  <2> HIDE DEF rest
  <2>6. Occurs("&", l) /\ FirstOf("&", l) = a + 1
    <3> HIDE DEF a
    <3>1. a + 1 \in 1..Len(l) /\ l[a + 1] = "&"
      BY <1>1, <1>2, <1>3, <2>1
    <3>2. \A j \in 1..((a + 1) - 1) : l[j] # "&"
      <4>1. \A j \in 1..((a + 1) - 1) : j = 1 \/ (j \in 2..Len(l) /\ j - 1 \in 1..(a - 1))
        BY <1>1, <1>2, <2>1
      <4> QED BY <1>3, <1>4, <2>1, <4>1
    <3> QED BY <1>2, <3>1, <3>2, FirstIs
  <2>7. Opened(l) = Opened(s)
    <3> HIDE DEF a, start
    <3>1. a \in 1..(Len(s) + 1) /\ a + 1 \in 1..(Len(l) + 1)
          /\ Len(l) - (a + 1) + 1 = Len(s) - a + 1
      BY <1>1, <1>2, <2>1
    <3>2. /\ From(a, s) \in Seq(Char) /\ Len(From(a, s)) = Len(s) - a + 1
          /\ \A j \in 1..(Len(s) - a + 1) : From(a, s)[j] = s[a + j - 1]
      BY <3>1, FromTyped
    <3>3. /\ From(a + 1, l) \in Seq(Char) /\ Len(From(a + 1, l)) = Len(s) - a + 1
          /\ \A j \in 1..(Len(s) - a + 1) : From(a + 1, l)[j] = l[(a + 1) + j - 1]
      <4>1. /\ From(a + 1, l) \in Seq(Char) /\ Len(From(a + 1, l)) = Len(l) - (a + 1) + 1
            /\ \A j \in 1..(Len(l) - (a + 1) + 1) : From(a + 1, l)[j] = l[(a + 1) + j - 1]
        BY <1>2, <3>1, FromTyped
      <4> QED BY <3>1, <4>1
    <3>4. ASSUME NEW j \in 1..(Len(s) - a + 1) PROVE l[(a + 1) + j - 1] = s[a + j - 1]
      <4>1. a + j - 1 \in 1..Len(s) /\ (a + j - 1) + 1 = (a + 1) + j - 1
        BY <1>1, <2>1
      <4> QED BY <1>3, <4>1
    <3>5. From(a + 1, l) = From(a, s)
      BY <3>2, <3>3, <3>4, SeqEqual
    <3> QED BY <2>6, <3>5 DEF Opened, a
  <2>8. SubSeq(l, 1, a) = <<c>> \o start
    <3>0. start \in Seq(Char) /\ Len(start) = a - 1 /\ \A j \in 1..(a - 1) : start[j] = s[j]
      <4>1. a - 1 \in 0..Len(s)
        BY <1>1, <2>1
      <4> HIDE DEF a
      <4> QED BY <4>1, UpToTyped
    <3> HIDE DEF a, start
    <3>1. /\ SubSeq(l, 1, a) \in Seq(Char) /\ Len(SubSeq(l, 1, a)) = a
          /\ \A j \in 1..a : SubSeq(l, 1, a)[j] = l[j]
      <4>1. a \in 0..Len(l)
        BY <1>1, <1>2, <2>1
      <4> QED BY <1>2, <4>1, UpToTyped
    <3>2. /\ <<c>> \o start \in Seq(Char) /\ Len(<<c>> \o start) = 1 + (a - 1)
          /\ \A j \in 1..(1 + (a - 1)) :
               (<<c>> \o start)[j] = IF j <= 1 THEN <<c>>[j] ELSE start[j - 1]
      BY <1>1, <3>0, ConcatProperties
    <3>3. 1 + (a - 1) = a
      BY <2>1
    <3>4. ASSUME NEW j \in 1..a PROVE SubSeq(l, 1, a)[j] = (<<c>> \o start)[j]
      <4>1. CASE j = 1
        BY <1>1, <1>3, <3>1, <3>2, <3>3, <4>1
      <4>2. CASE j # 1
        <5>1. j - 1 \in 1..(a - 1) /\ ~(j <= 1) /\ j \in 2..Len(l)
          BY <1>1, <1>2, <2>1, <4>2
        <5>2. l[j] = s[j - 1]
          BY <1>4, <5>1
        <5> QED BY <3>0, <3>1, <3>2, <3>3, <5>1, <5>2
      <4> QED BY <4>1, <4>2
    <3> QED BY <3>1, <3>2, <3>3, <3>4, SeqEqual
  <2> HIDE DEF start
  <2>9. Decoded(l, rest) = Some((<<c>> \o start) \o Token(s)[1] \o rest[1])
    <3>1. Token(l) = Token(s)
      BY <2>7 DEF Token, Payload
    <3>2. FirstOf("&", l) - 1 = a
      BY <2>1, <2>6
    <3> HIDE DEF a
    <3> QED BY <2>3, <2>8, <3>1, <3>2 DEF Decoded
  <2>10. (<<c>> \o start) \o Token(s)[1] \o rest[1] = <<c>> \o text
    <3>0. \A x, y, z \in Seq(Char) : (x \o y) \o z = x \o (y \o z)
      BY ConcatAssociative
    <3>1. (<<c>> \o start) \o Token(s)[1] = <<c>> \o (start \o Token(s)[1])
      BY <1>1, <2>5, <3>0, Zenon
    <3>2. start \o Token(s)[1] \in Seq(Char)
      BY <2>5, ConcatProperties
    <3>3. (<<c>> \o (start \o Token(s)[1])) \o rest[1] = <<c>> \o ((start \o Token(s)[1]) \o rest[1])
      <4> DEFINE x == <<c>>
                 y == start \o Token(s)[1]
                 z == rest[1]
      <4>1. x \in Seq(Char) /\ y \in Seq(Char) /\ z \in Seq(Char)
        BY <1>1, <2>5, <3>2
      <4> HIDE DEF x, y, z
      <4>2. (x \o y) \o z = x \o (y \o z)
        BY <3>0, <4>1, Zenon
      <4> QED BY <4>2 DEF x, y, z
    <3> QED BY <2>4, <3>1, <3>3
  <2>11. D[l] = Decoded(l, rest)
    <3>1. Rest(l) = Rest(s)
      BY <2>7 DEF Rest
    <3> QED BY <1>2, <2>2, <2>6, <2>7, <3>1, DecodeRecursion DEF D, rest
  <2> QED BY <2>9, <2>10, <2>11 DEF l, D
<1> QED BY <1>5, <1>6

\* A shift stands for what its payload decodes to.
LEMMA DecodeShift ==
  ASSUME NEW payload \in Seq(DOMAIN Base64), NEW word \in Seq(Char),
         decode_modified_utf7_token(payload) = Some(word),
         NEW s \in Seq(Char), NEW text \in Seq(Char), decode_mailbox_name_inner[s] = Some(text)
  PROVE  decode_mailbox_name_inner[Shift(payload) \o s] = Some(word \o text)
<1> DEFINE n == Len(payload)
           shift == Shift(payload)
           l == shift \o s
           D == decode_mailbox_name_inner
<1>1. payload \in Seq(Char) /\ n \in Nat /\ Len(s) \in Nat
      /\ \A i \in 1..n : payload[i] # "-"
  <2>1. DOMAIN Base64 \subseteq Char /\ "-" \notin DOMAIN Base64
    BY CharAssumption DEF Char
  <2>2. \A i \in 1..n : payload[i] \in DOMAIN Base64
    OBVIOUS
  <2> QED BY <2>1, <2>2, SeqMonotonic
<1>2. /\ shift \in Seq(Char) /\ Len(shift) = n + 2 /\ shift[1] = "&" /\ shift[n + 2] = "-"
      /\ \A i \in 1..n : shift[i + 1] = payload[i]
  BY <1>1, ShiftTyped
<1> HIDE DEF shift, n, D
<1>3. /\ l \in Seq(Char) /\ Len(l) = (n + 2) + Len(s)
      /\ \A i \in 1..((n + 2) + Len(s)) : l[i] = IF i <= n + 2 THEN shift[i] ELSE s[i - (n + 2)]
  <2>1. /\ l \in Seq(Char) /\ Len(l) = Len(shift) + Len(s)
        /\ \A i \in 1..(Len(shift) + Len(s)) :
             l[i] = IF i <= Len(shift) THEN shift[i] ELSE s[i - Len(shift)]
    BY <1>2, ConcatProperties
  <2> HIDE DEF l
  <2> QED BY <1>2, <2>1
<1> HIDE DEF l
<1>4. /\ l[1] = "&" /\ l[n + 2] = "-" /\ \A i \in 1..n : l[i + 1] = payload[i]
      /\ \A i \in 1..Len(s) : l[(n + 2) + i] = s[i]
  <2>1. /\ 1 \in 1..((n + 2) + Len(s)) /\ 1 <= n + 2
        /\ n + 2 \in 1..((n + 2) + Len(s)) /\ n + 2 <= n + 2
    BY <1>1
  <2>2. \A i \in 1..n : i + 1 \in 1..((n + 2) + Len(s)) /\ i + 1 <= n + 2
    BY <1>1
  <2>3. \A i \in 1..Len(s) : /\ (n + 2) + i \in 1..((n + 2) + Len(s))
                             /\ ~((n + 2) + i <= n + 2) /\ ((n + 2) + i) - (n + 2) = i
    BY <1>1
  <2> QED BY <1>2, <1>3, <2>1, <2>2, <2>3
<1>5. Occurs("&", l) /\ FirstOf("&", l) = 1
  <2>1. 1 \in 1..Len(l) /\ \A j \in 1..(1 - 1) : l[j] # "&"
    BY <1>1, <1>3
  <2> QED BY <1>3, <1>4, <2>1, FirstIs
<1>6. Opened(l) = l
  BY <1>3, <1>5, SubSeqFull DEF Opened, From
<1>7. Occurs("-", l) /\ FirstOf("-", l) = n + 2
  <2>1. n + 2 \in 1..Len(l)
    BY <1>1, <1>3
  <2>2. ASSUME NEW j \in 1..((n + 2) - 1) PROVE l[j] # "-"
    <3>1. CASE j = 1
      BY <1>4, <3>1
    <3>2. CASE j # 1
      <4>1. j - 1 \in 1..n /\ (j - 1) + 1 = j
        BY <1>1, <3>2
      <4> QED BY <1>1, <1>4, <4>1
    <3> QED BY <3>1, <3>2
  <2> QED BY <1>3, <1>4, <2>1, <2>2, FirstIs
<1>8. Payload(l) = payload
  <2> DEFINE m == (n + 2) - 1
  <2>1. Payload(l) = SubSeq(l, 2, m)
    BY <1>6, <1>7 DEF Payload
  <2>2. (IF 2 <= m THEN m - 2 + 1 ELSE 0) = n /\ m - 2 + 1 = n
        /\ \A i \in 1..n : 2 + i - 1 = i + 1
    BY <1>1
  <2>3. m \in Int /\ 2 \in Int /\ \A i \in 2..m : l[i] \in Char
    BY <1>1, <1>3
  <2> HIDE DEF m
  <2>4. /\ SubSeq(l, 2, m) \in Seq(Char)
        /\ Len(SubSeq(l, 2, m)) = IF 2 <= m THEN m - 2 + 1 ELSE 0
        /\ \A i \in 1..(m - 2 + 1) : SubSeq(l, 2, m)[i] = l[2 + i - 1]
    BY <2>3, SubSeqProperties
  <2>6. Len(SubSeq(l, 2, m)) = n /\ \A i \in 1..n : SubSeq(l, 2, m)[i] = payload[i]
    BY <1>4, <2>2, <2>4
  <2>5. Len(payload) = n
    BY DEF n
  <2> QED BY <1>1, <2>1, <2>4, <2>5, <2>6, SeqEqual
<1>9. Rest(l) = s
  <2>1. Rest(l) = From(n + 3, l)
    <3>1. (n + 2) + 1 = n + 3
      BY <1>1
    <3> QED BY <1>6, <1>7, <3>1 DEF Rest
  <2>2. n + 3 \in 1..(Len(l) + 1) /\ Len(l) - (n + 3) + 1 = Len(s)
    BY <1>1, <1>3
  <2>3. /\ From(n + 3, l) \in Seq(Char) /\ Len(From(n + 3, l)) = Len(l) - (n + 3) + 1
        /\ \A i \in 1..(Len(l) - (n + 3) + 1) : From(n + 3, l)[i] = l[(n + 3) + i - 1]
    BY <1>3, <2>2, FromTyped
  <2>4. \A i \in 1..Len(s) : (n + 3) + i - 1 = (n + 2) + i
    BY <1>1
  <2>5. Len(From(n + 3, l)) = Len(s) /\ \A i \in 1..Len(s) : From(n + 3, l)[i] = s[i]
    BY <1>4, <2>2, <2>3, <2>4
  <2> QED BY <2>1, <2>3, <2>5, SeqEqual
<1>10. D[l] = Decoded(l, Some(text))
  BY <1>3, <1>5, <1>6, <1>7, <1>9, DecodeRecursion DEF D
<1>11. Decoded(l, Some(text)) = Some(<<>> \o word \o text)
  <2>1. Token(l) = Some(word)
    BY <1>8 DEF Token
  <2>2. SubSeq(l, 1, FirstOf("&", l) - 1) = <<>>
    BY <1>5, SubSeqEmpty
  <2> QED BY <2>1, <2>2, NoneOrSome DEF Decoded
<1>12. <<>> \o word = word
  BY ConcatEmptySeq
<1> QED BY <1>10, <1>11, <1>12 DEF D, l, shift

\* A name that was encoded decodes to itself.
LEMMA EncodeDecodes ==
  ASSUME NEW name \in Seq(Char)
  PROVE  decode_mailbox_name_inner[encode_utf7_imap[name]] = Some(name)
<1> DEFINE E == encode_utf7_imap
           D == decode_mailbox_name_inner
           good == {s \in Seq(Char) : D[E[s]] = Some(s)}
<1>1. ASSUME NEW s \in Seq(Char), \A t \in Seq(Char) : Len(t) < Len(s) => t \in good
      PROVE  s \in good
  <2>1. CASE s = <<>>
    <3>1. E[s] = <<>>
      BY <2>1, EncodeRecursion
    <3>2. ~Occurs("&", <<>>)
      BY DEF Occurs
    <3>3. <<>> \in Seq(Char)
      OBVIOUS
    <3>4. D[<<>>] = Some(<<>>)
      BY <3>2, <3>3, DecodeRecursion
    <3> QED BY <2>1, <3>1, <3>4
  <2>2. CASE s # <<>>
    <3> DEFINE n == Together(s)
               head == SubSeq(s, 1, n)
               t == From(n + 1, s)
    <3>1. n \in 1..Len(s) /\ Len(s) \in Nat
      BY <2>2, TogetherTyped
    <3>2. n \in 0..Len(s) /\ n + 1 \in 1..(Len(s) + 1) /\ Len(s) - (n + 1) + 1 < Len(s)
      BY <3>1
    <3>3. t \in Seq(Char) /\ Len(t) < Len(s)
      BY <3>2, FromTyped
    <3>4. head \in Seq(Char) /\ Len(head) = n /\ \A j \in 1..n : head[j] = s[j]
      BY <3>2, UpToTyped
    <3>5. head \o t = s
      BY <3>2, Cut
    <3>6. D[E[t]] = Some(t) /\ E[t] \in Seq(Char)
      <4>1. t \in good
        BY <1>1, <3>3
      <4> QED BY <4>1, EncodeRecursion
    <3>7. E[s] = EncodedStart(s) \o E[t]
      BY <2>2, EncodeRecursion
    <3> HIDE DEF head, t, E, D
    <3>8. CASE EncodedStart(s) = <<s[1]>> /\ s[1] # "&" /\ n = 1
      <4>1. s[1] \in Char
        BY <3>1
      <4>2. D[<<s[1]>> \o E[t]] = Some(<<s[1]>> \o t)
        BY <3>3, <3>6, <3>8, <4>1, DecodePlain DEF D
      <4>3. head = <<s[1]>>
        <5>1. <<s[1]>> \in Seq(Char) /\ Len(<<s[1]>>) = 1 /\ <<s[1]>>[1] = s[1]
          BY <4>1
        <5>2. \A i \in 1..Len(head) : head[i] = <<s[1]>>[i]
          BY <3>4, <3>8, <5>1
        <5> QED BY <3>4, <3>8, <5>1, <5>2, SeqEqual
      <4> QED BY <3>5, <3>7, <3>8, <4>2, <4>3
    <3>9. ASSUME NEW payload \in Seq(DOMAIN Base64), EncodedStart(s) = Shift(payload),
                 decode_modified_utf7_token(payload) = Some(head)
          PROVE  D[E[s]] = Some(s)
      <4>1. D[Shift(payload) \o E[t]] = Some(head \o t)
        BY <3>3, <3>4, <3>6, <3>9, DecodeShift DEF D
      <4> QED BY <3>5, <3>7, <3>9, <4>1
    <3>10. D[E[s]] = Some(s)
      BY <2>2, <3>8, <3>9, StartTyped DEF head
    <3> QED BY <3>10
  <2> QED BY <2>1, <2>2
<1>2. \A s \in Seq(Char) : s \in good
  <2> HIDE DEF good
  <2> QED BY <1>1, LengthInduction
<1> QED BY <1>2

\* What is sent is modified UTF-7.
LEMMA CommandCanonical ==
  ASSUME NEW name \in Seq(Char)
  PROVE  is_canonical_modified_utf7(encode_mailbox_name_for_command(name))
<1>1. CASE is_canonical_modified_utf7(name)
  BY <1>1 DEF encode_mailbox_name_for_command
<1>2. CASE ~is_canonical_modified_utf7(name)
  <2> DEFINE wire == encode_utf7_imap[name]
  <2>1. decode_mailbox_name_inner[wire] = Some(name)
    BY EncodeDecodes
  <2> HIDE DEF wire
  <2>2. decode_mailbox_name_inner[wire] # None /\ decode_mailbox_name_inner[wire][1] = name
    BY <2>1, NoneOrSome
  <2>3. is_canonical_modified_utf7(wire)
    BY <2>2 DEF is_canonical_modified_utf7, wire
  <2> QED BY <1>2, <2>3 DEF encode_mailbox_name_for_command, wire
<1> QED BY <1>1, <1>2

\* Each of the name compared and the name sent gives the other.
LEMMA IdentityAndCommand ==
  ASSUME NEW name \in Seq(Char), Unambiguous(name)
  PROVE  /\ encode_mailbox_name_for_command(name) =
              encode_utf7_imap[normalize_mailbox_name(name)]
         /\ normalize_mailbox_name(name) =
              decode_mailbox_name_inner[encode_mailbox_name_for_command(name)][1]
<1> DEFINE decoded == decode_mailbox_name_inner[name]
<1>1. CASE is_canonical_modified_utf7(name)
  <2>1. decoded # None /\ encode_utf7_imap[decoded[1]] = name
    BY <1>1 DEF is_canonical_modified_utf7
  <2>2. normalize_mailbox_name(name) = decoded[1]
    BY <2>1 DEF normalize_mailbox_name, DecodedOr
  <2> QED BY <1>1, <2>1, <2>2 DEF encode_mailbox_name_for_command
<1>2. CASE ~is_canonical_modified_utf7(name)
  <2>1. decoded = None \/ decoded = Some(name)
    BY <1>2 DEF Unambiguous
  <2>2. normalize_mailbox_name(name) = name
    <3> HIDE DEF decoded
    <3>1. normalize_mailbox_name(name) = IF decoded = None THEN name ELSE decoded[1]
      BY DEF normalize_mailbox_name, DecodedOr, decoded
    <3> QED BY <2>1, <3>1, NoneOrSome
  <2>3. encode_mailbox_name_for_command(name) = encode_utf7_imap[name]
    BY <1>2 DEF encode_mailbox_name_for_command
  <2> QED BY <2>2, <2>3, EncodeDecodes, NoneOrSome
<1> QED BY <1>1, <1>2

\* Two unambiguous names are taken for the same mailbox exactly when commands
\* with them address the same one, and every name sent is modified UTF-7.
THEOREM NamesAgreeAlways == CallSpec => []NamesAgree
<1>1. CallInit => NamesAgree
  BY DEF CallInit, NoCall, NamesAgree
<1>2. ASSUME NamesAgree, [CallNext \/ OtherCall]_callVars PROVE NamesAgree'
  <2>1. CASE UNCHANGED callVars
    BY <1>2, <2>1 DEF callVars, NamesAgree
  <2>2. CASE call'.tool # "name_mailbox"
    BY <2>2 DEF NamesAgree
  <2>3. ASSUME NEW raws \in BulkRequests, apply_to_messages(raws) PROVE NamesAgree'
    BY <2>3 DEF apply_to_messages, Answered, NamesAgree
  <2>4. ASSUME NEW input \in SearchRequests, search_messages(input) PROVE NamesAgree'
    BY <2>4 DEF search_messages, Answered, NamesAgree
  <2>5. ASSUME NEW name \in NamesGiven, name_mailbox(name) PROVE NamesAgree'
    <3>1. /\ call'.name = name
          /\ answer'.command = encode_mailbox_name_for_command(name)
          /\ answer'.identity = normalize_mailbox_name(name)
      BY <2>5 DEF name_mailbox, Answered
    <3>2. \A given \in NamesGiven : given \in Seq(Char)
      BY CallsAssumption
    <3>3. ASSUME Unambiguous(name), NEW other \in NamesGiven, Unambiguous(other)
          PROVE  normalize_mailbox_name(name) = normalize_mailbox_name(other)
                   <=> encode_mailbox_name_for_command(name) =
                         encode_mailbox_name_for_command(other)
      BY <3>2, <3>3, IdentityAndCommand, Zenon
    <3>4. is_canonical_modified_utf7(encode_mailbox_name_for_command(name))
      BY <3>2, CommandCanonical
    <3> QED BY <3>1, <3>3, <3>4 DEF NamesAgree
  <2> QED BY <1>2, <2>1, <2>2, <2>3, <2>4, <2>5, CallSteps
<1> QED BY <1>1, <1>2, PTL DEF CallSpec

=============================================================================
