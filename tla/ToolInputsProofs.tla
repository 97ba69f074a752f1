--------------------------- MODULE ToolInputsProofs ---------------------------
(* For every message, whatever its tree of parts, imap_get_message reports   *)
(* the attachments and the bodies it has: see PartsAlwaysReported.  And the  *)
(* calls of CallInputs keep their properties beside it.                      *)
EXTENDS ToolInputs, CallInputsProofs

-----------------------------------------------------------------------------
(* Ways into a tree of parts.                                              *)

Path == Seq(Nat \ {0})

\* The part at q is the one at p, or inside it.
Below(q, p) == \A i \in 1..Len(p) : i \in 1..Len(q) /\ q[i] = p[i]

LEMMA PathDomain ==
  ASSUME NEW p \in Path
  PROVE  /\ Len(p) \in Nat /\ DOMAIN p = 1..Len(p)
         /\ \A i \in 1..Len(p) : p[i] \in Nat
BY DEF Path

\* What is inside comes before what is inside a later part.
LEMMA PrecedesInside ==
  ASSUME NEW p \in Path, NEW q \in Path, Precedes(p, q),
         NEW p1 \in Path, NEW q1 \in Path, Below(p1, p), Below(q1, q)
  PROVE  Precedes(p1, q1)
<1>1. PICK i \in 1..Len(p) \cap 1..Len(q) :
        p[i] < q[i] /\ \A j \in 1..(i - 1) : p[j] = q[j]
  BY PathDomain DEF Precedes
<1>2. i \in DOMAIN p1 \cap DOMAIN q1 /\ p1[i] < q1[i]
  BY <1>1, PathDomain DEF Below
<1>3. \A j \in 1..(i - 1) : p1[j] = q1[j]
  <2>1. \A j \in 1..(i - 1) : j \in 1..Len(p) /\ j \in 1..Len(q)
    BY <1>1, PathDomain
  <2> QED BY <1>1, <2>1 DEF Below
<1> QED BY <1>2, <1>3 DEF Precedes

\* Parts in order are apart, and not the other way round.
LEMMA PrecedesApart ==
  ASSUME NEW p \in Path, NEW q \in Path, Precedes(p, q)
  PROVE  ~Precedes(q, p) /\ ~Below(p, q) /\ ~Below(q, p) /\ p # q
<1>1. PICK i \in 1..Len(p) \cap 1..Len(q) :
        p[i] < q[i] /\ \A j \in 1..(i - 1) : p[j] = q[j]
  BY PathDomain DEF Precedes
<1>2. p[i] \in Nat /\ q[i] \in Nat /\ p[i] # q[i]
  BY <1>1, PathDomain
<1>3. ~Precedes(q, p)
  <2>1. SUFFICES ASSUME NEW k \in 1..Len(p) \cap 1..Len(q),
                        q[k] < p[k], \A j \in 1..(k - 1) : q[j] = p[j]
                 PROVE  FALSE
    BY PathDomain DEF Precedes
  <2>2. CASE k < i
    BY <2>1, <2>2, <1>1, PathDomain
  <2>3. CASE i < k
    BY <2>1, <2>3, <1>1, PathDomain
  <2>4. CASE i = k
    BY <2>1, <2>4, <1>1, PathDomain
  <2> QED BY <2>2, <2>3, <2>4, <1>1, PathDomain
<1>4. ~Below(p, q) /\ ~Below(q, p)
  BY <1>1, <1>2 DEF Below
<1> QED BY <1>2, <1>3, <1>4

LEMMA BelowItself == ASSUME NEW p \in Path PROVE Below(p, p)
BY DEF Below

-----------------------------------------------------------------------------
(* The parts of one message.                                               *)

LEMMA PartTyped ==
  ASSUME NEW m, IsMessage(m), NEW p \in DOMAIN m
  PROVE  p \in Path /\ m[p] \in MimePart /\ Len(p) # 0 /\ p[1] = 1
BY DEF IsMessage, Path

\* A part that comes inside another is inside one of its subparts.
LEMMA InsideSubpart ==
  ASSUME NEW m, IsMessage(m), NEW p \in DOMAIN m, NEW q \in DOMAIN m, Below(q, p), q # p
  PROVE  \E i \in 1..m[p].subparts : Append(p, i) \in DOMAIN m /\ Below(q, Append(p, i))
<1>1. p \in Path /\ q \in Path /\ m[p] \in MimePart /\ Len(p) # 0
  BY PartTyped
<1> DEFINE n == Len(p)
<1>2. n \in Nat \ {0} /\ Len(q) \in Nat /\ n <= Len(q) /\ \A i \in 1..n : q[i] = p[i]
  <2>1. n \in Nat \ {0} /\ Len(q) \in Nat
    BY <1>1, PathDomain
  <2>2. n \in 1..n
    BY <2>1
  <2> QED BY <2>1, <2>2 DEF Below
<1>3. n < Len(q)
  <2>1. ASSUME Len(q) = n PROVE FALSE
    BY <2>1, <1>1, <1>2, SeqEqual DEF Path
  <2> QED BY <1>2, <2>1
<1>4. SubSeq(q, 1, n) = p
  <2>1. \A i \in 1..n : q[i] \in Nat \ {0}
    BY <1>1, <1>2 DEF Path
  <2>2. /\ SubSeq(q, 1, n) \in Path /\ Len(SubSeq(q, 1, n)) = n
        /\ \A i \in 1..n : SubSeq(q, 1, n)[i] = q[i]
    BY <2>1, <1>2, SubSeqProperties DEF Path
  <2> QED BY <2>2, <1>1, <1>2, SeqEqual DEF Path
<1>5. q[n + 1] <= m[p].subparts
  <2>1. n \in 1..(Len(q) - 1)
    BY <1>2, <1>3
  <2> HIDE DEF n
  <2> QED BY <2>1, <1>4 DEF IsMessage
<1>6. q[n + 1] \in 1..m[p].subparts
  BY <1>1, <1>2, <1>3, <1>5 DEF Path, MimePart
<1>7. Append(p, q[n + 1]) \in DOMAIN m
  BY <1>6 DEF IsMessage
<1>8. Below(q, Append(p, q[n + 1]))
  <2>1. \A x : Len(Append(p, x)) = n + 1
              /\ \A i \in 1..(n + 1) : Append(p, x)[i] = IF i = n + 1 THEN x ELSE p[i]
    BY <1>1 DEF Path
  <2> HIDE DEF n
  <2> QED BY <2>1, <1>2, <1>3 DEF Below
<1> QED BY <1>6, <1>7, <1>8

LEMMA InsideLeaf ==
  ASSUME NEW m, IsMessage(m), NEW p \in Leaves(m), NEW q \in DOMAIN m, Below(q, p)
  PROVE  q = p
<1>1. p \in DOMAIN m /\ m[p].subparts = 0
  BY DEF Leaves
<1> QED BY <1>1, InsideSubpart

\* The subparts of a part are inside it, in order.
LEMMA SubpartsInside ==
  ASSUME NEW m, IsMessage(m), NEW p \in DOMAIN m
  PROVE  /\ \A i \in 1..m[p].subparts : Append(p, i) \in DOMAIN m /\ Below(Append(p, i), p)
         /\ \A i, j \in 1..m[p].subparts : i < j => Precedes(Append(p, i), Append(p, j))
<1>1. p \in Path /\ m[p].subparts \in Nat /\ Len(p) \in Nat
  BY PartTyped, PathDomain DEF MimePart
<1>2. \A i \in 1..m[p].subparts : Append(p, i) \in DOMAIN m
  BY DEF IsMessage
<1> DEFINE n == Len(p)
<1>3. \A x : /\ Len(Append(p, x)) = n + 1 /\ DOMAIN Append(p, x) = 1..(n + 1)
             /\ \A i \in 1..(n + 1) : Append(p, x)[i] = IF i = n + 1 THEN x ELSE p[i]
  BY <1>1 DEF Path
<1>4. n \in Nat
  BY <1>1
<1> HIDE DEF n
<1>5. \A x : Below(Append(p, x), p)
  BY <1>3, <1>4 DEF Below, n
<1>6. ASSUME NEW i \in Nat, NEW j \in Nat, i < j PROVE Precedes(Append(p, i), Append(p, j))
  <2>1. n + 1 \in DOMAIN Append(p, i) \cap DOMAIN Append(p, j)
    BY <1>3, <1>4
  <2>2. Append(p, i)[n + 1] < Append(p, j)[n + 1]
    BY <1>3, <1>4, <1>6
  <2>3. \A k \in 1..((n + 1) - 1) : Append(p, i)[k] = Append(p, j)[k]
    BY <1>3, <1>4
  <2> QED BY <2>1, <2>2, <2>3 DEF Precedes
<1> QED BY <1>1, <1>2, <1>5, <1>6

-----------------------------------------------------------------------------
(* The invariant of the walk.                                              *)

\* The leaves that have been walked when these parts are still to be.
Walked(m, ids) == {q \in Leaves(m) : \A k \in DOMAIN ids : ~Below(q, ids[k])}

\* The parts to be walked are in order, and all that has been walked is before.
InOrder(m, ids) ==
  /\ ids \in Seq(DOMAIN m)
  /\ \A k, l \in DOMAIN ids : k < l => Precedes(ids[k], ids[l])
  /\ \A q \in Walked(m, ids) : \A k \in DOMAIN ids : Precedes(q, ids[k])

TakenBody(m) == [id: DOMAIN m, body: {"words", "blank", "broken"}]
ListedAttachment(m) == [part_id: DOMAIN m, extracted: BOOLEAN]

StateOf(m) ==
  [body_text: Seq(TakenBody(m)), body_html: Seq(TakenBody(m)),
   attachments: Seq(ListedAttachment(m)), attachments_truncated: BOOLEAN, failed: BOOLEAN]

\* The first of these bodies has been taken.
FirstTaken(m, taken, bodies) ==
  \/ taken = <<>> /\ bodies = {}
  \/ \E p \in FirstPath(bodies) : taken = <<[id |-> p, body |-> m[p].body]>>

EarlierThan(m, p) == {q \in AttachmentsOf(m) : Precedes(q, p)}

\* What the state holds of the leaves in seen.
Collected(m, mode, seen, st) ==
  LET here  == AttachmentsOf(m) \cap seen
      shown == ShownAttachments(m, mode) \cap seen
  IN /\ FirstTaken(m, st.body_text, BodiesOf(m, "text/plain") \cap seen)
     /\ FirstTaken(m, st.body_html, BodiesOf(m, "text/html") \cap seen)
     /\ Len(st.attachments) = Cardinality(shown)
     /\ \A i \in DOMAIN st.attachments :
          LET id == st.attachments[i].part_id IN
          id \in AttachmentsOf(m) /\ Cardinality(EarlierThan(m, id)) = i - 1
     /\ st.attachments_truncated <=> mode # "none" /\ shown # here
     /\ st.attachments_truncated => Len(st.attachments) >= MAX_ATTACHMENTS

WalkInv(m, mode) ==
  LET seen == Walked(m, pending) IN
  /\ InOrder(m, pending)
  /\ state \in StateOf(m)
  /\ state.failed <=> BrokenAttachments(m, mode) \cap seen # {}
  /\ ~state.failed => Collected(m, mode, seen, state)

MessageCall ==
  [tool: {"get_message"}, message: RawMessages, body_mode: BodyMode,
   attachment_mode: AttachmentMode]

WalkInvariant ==
  /\ call.tool = "get_message" => call \in MessageCall
  /\ IF answer = Walking
     THEN call.tool = "get_message" /\ WalkInv(call.message, call.attachment_mode)
     ELSE NoWalk

-----------------------------------------------------------------------------
(* A step of the walk.                                                     *)

LEMMA Popped ==
  ASSUME NEW S, NEW ids \in Seq(S), ids # <<>>
  PROVE  /\ Head(ids) = ids[1] /\ ids[1] \in S /\ 1 \in DOMAIN ids
         /\ Tail(ids) \in Seq(S) /\ DOMAIN ids = 1..Len(ids)
         /\ \A k \in DOMAIN Tail(ids) : k + 1 \in DOMAIN ids /\ Tail(ids)[k] = ids[k + 1]
         /\ \A k \in DOMAIN ids : k # 1 => k - 1 \in DOMAIN Tail(ids) /\ ids[k] = Tail(ids)[k - 1]
<1>1. Len(ids) \in Nat \ {0}
  BY EmptySeq
<1>2. /\ Tail(ids) \in Seq(S) /\ Len(Tail(ids)) = Len(ids) - 1
      /\ \A i \in 1..Len(Tail(ids)) : Tail(ids)[i] = ids[i + 1]
  BY HeadTailProperties
<1>3. Head(ids) = ids[1] /\ DOMAIN ids = 1..Len(ids) /\ DOMAIN Tail(ids) = 1..(Len(ids) - 1)
  BY <1>2
<1>4. ids[1] \in S
  BY <1>1
<1> QED BY <1>1, <1>2, <1>3, <1>4

\* A leaf is walked after all that come before it in the message.
LEMMA LeafWalked ==
  ASSUME NEW m, IsMessage(m), NEW ids, InOrder(m, ids), ids # <<>>,
         m[Head(ids)].subparts = 0
  PROVE  /\ Head(ids) \in Leaves(m) \ Walked(m, ids)
         /\ InOrder(m, Tail(ids))
         /\ Walked(m, Tail(ids)) = Walked(m, ids) \cup {Head(ids)}
         /\ \A q \in Leaves(m) : q \in Walked(m, ids) <=> Precedes(q, Head(ids))
<1> DEFINE p == Head(ids) t == Tail(ids)
<1>0. ids \in Seq(DOMAIN m)
  BY DEF InOrder
<1>1. /\ p = ids[1] /\ p \in DOMAIN m /\ 1 \in DOMAIN ids
      /\ t \in Seq(DOMAIN m) /\ DOMAIN ids \subseteq Nat \ {0}
      /\ \A k \in DOMAIN t : k + 1 \in DOMAIN ids /\ t[k] = ids[k + 1]
      /\ \A k \in DOMAIN ids : k # 1 => k - 1 \in DOMAIN t /\ ids[k] = t[k - 1]
  BY <1>0, Popped
<1>2. p \in Leaves(m)
  BY <1>1 DEF Leaves
<1>3. DOMAIN t \subseteq Nat \ {0}
  BY <1>1
<1> HIDE DEF p, t
<1>4. \A k \in DOMAIN ids : ids[k] \in DOMAIN m /\ ids[k] \in Path
  BY <1>0, PartTyped
<1>5. \A k \in DOMAIN t : Precedes(p, t[k]) /\ t[k] \in Path
  BY <1>1, <1>3, <1>4 DEF InOrder
<1>6. \A q \in Leaves(m) : q \in Path /\ q \in DOMAIN m
  BY PartTyped DEF Leaves
<1>7. p \notin Walked(m, ids)
  BY <1>1, <1>2, <1>6, BelowItself DEF Walked
<1>8. Walked(m, t) = Walked(m, ids) \cup {p}
  <2>1. ASSUME NEW q \in Walked(m, ids) PROVE q \in Walked(m, t)
    BY <2>1, <1>1 DEF Walked
  <2>2. p \in Walked(m, t)
    BY <1>2, <1>5, <1>6, PrecedesApart DEF Walked
  <2>3. ASSUME NEW q \in Walked(m, t), q # p PROVE q \in Walked(m, ids)
    <3>1. q \in Leaves(m) /\ \A k \in DOMAIN t : ~Below(q, t[k])
      BY <2>3 DEF Walked
    <3>2. ~Below(q, p)
      BY <2>3, <3>1, <1>2, <1>6, InsideLeaf
    <3>3. \A k \in DOMAIN ids : ~Below(q, ids[k])
      BY <3>1, <3>2, <1>1
    <3> QED BY <3>1, <3>3 DEF Walked
  <2> QED BY <2>1, <2>2, <2>3
<1>9. InOrder(m, t)
  <2>1. \A k, l \in DOMAIN t : k < l => Precedes(t[k], t[l])
    <3> SUFFICES ASSUME NEW k \in DOMAIN t, NEW l \in DOMAIN t, k < l PROVE Precedes(t[k], t[l])
      OBVIOUS
    <3>1. k + 1 \in DOMAIN ids /\ l + 1 \in DOMAIN ids /\ k + 1 < l + 1
      BY <1>1, <1>3
    <3> QED BY <3>1, <1>1 DEF InOrder
  <2>2. \A q \in Walked(m, ids) : \A k \in DOMAIN t : Precedes(q, t[k])
    BY <1>1 DEF InOrder
  <2> QED BY <1>1, <1>5, <1>8, <2>1, <2>2 DEF InOrder
<1>10. \A q \in Walked(m, ids) : Precedes(q, p)
  BY <1>1 DEF InOrder
<1>11. ASSUME NEW q \in Leaves(m), Precedes(q, p) PROVE q \in Walked(m, ids)
  <2>1. SUFFICES ASSUME NEW k \in DOMAIN ids, Below(q, ids[k]) PROVE FALSE
    BY DEF Walked
  <2>2. CASE k = 1
    BY <2>1, <2>2, <1>1, <1>2, <1>6, <1>11, InsideLeaf, PrecedesApart
  <2>3. CASE k # 1
    <3>1. Precedes(p, ids[k])
      BY <2>3, <1>1, <1>5
    <3>2. Precedes(p, q)
      BY <2>1, <3>1, <1>2, <1>4, <1>6, BelowItself, PrecedesInside
    <3> QED BY <3>2, <1>2, <1>6, <1>11, PrecedesApart
  <2> QED BY <2>2, <2>3
<1> QED BY <1>2, <1>7, <1>8, <1>9, <1>10, <1>11 DEF p, t, Walked

\* The parts of a part are left to be walked in its place.
LEMMA SubpartsPushed ==
  ASSUME NEW m, IsMessage(m), NEW ids, InOrder(m, ids), ids # <<>>,
         m[Head(ids)].subparts # 0
  PROVE  LET next == SubpartIds(m, Head(ids)) \o Tail(ids) IN
         InOrder(m, next) /\ Walked(m, next) = Walked(m, ids)
<1> DEFINE p == Head(ids) t == Tail(ids) c == SubpartIds(m, p) n == m[p].subparts
           next == c \o t
<1>0. ids \in Seq(DOMAIN m)
  BY DEF InOrder
<1>1. /\ p = ids[1] /\ p \in DOMAIN m /\ 1 \in DOMAIN ids
      /\ t \in Seq(DOMAIN m) /\ DOMAIN ids \subseteq Nat \ {0}
      /\ \A k \in DOMAIN t : k + 1 \in DOMAIN ids /\ t[k] = ids[k + 1]
      /\ \A k \in DOMAIN ids : k # 1 => k - 1 \in DOMAIN t /\ ids[k] = t[k - 1]
  BY <1>0, Popped
<1>2. n \in Nat /\ n # 0
  BY <1>1, PartTyped DEF MimePart
<1>3. /\ \A i \in 1..n : Append(p, i) \in DOMAIN m /\ Below(Append(p, i), p)
      /\ \A i, j \in 1..n : i < j => Precedes(Append(p, i), Append(p, j))
  BY <1>1, SubpartsInside
<1>4. c \in Seq(DOMAIN m) /\ Len(c) = n /\ \A i \in 1..n : c[i] = Append(p, i)
  <2>1. c \in [1..n -> DOMAIN m] /\ \A i \in 1..n : c[i] = Append(p, i)
    BY <1>3 DEF SubpartIds
  <2> HIDE DEF c, n
  <2> QED BY <2>1, <1>2
<1>5. Len(t) \in Nat /\ DOMAIN t = 1..Len(t)
  BY <1>1
<1>6. /\ next \in Seq(DOMAIN m) /\ DOMAIN next = 1..(n + Len(t))
      /\ \A i \in 1..n : next[i] = Append(p, i)
      /\ \A i \in (n + 1)..(n + Len(t)) : next[i] = t[i - n]
  <2> HIDE DEF c, t, n
  <2>1. /\ c \o t \in Seq(DOMAIN m) /\ Len(c \o t) = Len(c) + Len(t)
        /\ \A i \in 1..(Len(c) + Len(t)) :
             (c \o t)[i] = IF i <= Len(c) THEN c[i] ELSE t[i - Len(c)]
    <3>1. c \in Seq(DOMAIN m) /\ t \in Seq(DOMAIN m)
      BY <1>1, <1>4
    <3> QED BY ONLY <3>1, ConcatProperties, Zenon
  <2> QED BY <2>1, <1>2, <1>4, <1>5
<1>7. \A q \in DOMAIN m : q \in Path
  BY PartTyped
<1>8. p \notin Leaves(m)
  BY <1>2 DEF Leaves
<1> HIDE DEF p, t, c, n, next
<1>9. \A k \in DOMAIN t : Precedes(p, t[k]) /\ t[k] \in DOMAIN m
  BY <1>1, <1>5 DEF InOrder
<1>10. Walked(m, next) = Walked(m, ids)
  <2>1. ASSUME NEW q \in Walked(m, ids) PROVE q \in Walked(m, next)
    <3>1. q \in Leaves(m) /\ \A k \in DOMAIN ids : ~Below(q, ids[k])
      BY DEF Walked
    <3>2. q \in Path
      BY <3>1, <1>7 DEF Leaves
    <3>3. ASSUME NEW k \in DOMAIN next PROVE ~Below(q, next[k])
      <4>1. CASE k \in 1..n
        <5>1. next[k] = Append(p, k) /\ Below(Append(p, k), p)
          BY <4>1, <1>3, <1>6
        <5>2. ~Below(q, p)
          BY <3>1, <1>1
        <5>3. Append(p, k) \in Path
          BY <4>1, <1>3, <1>7
        <5> QED BY <5>1, <5>2, <5>3, <3>2, PathDomain DEF Below
      <4>2. CASE k \in (n + 1)..(n + Len(t))
        <5>1. k - n \in DOMAIN t
          BY <4>2, <1>2, <1>5
        <5> QED BY <5>1, <4>2, <3>1, <1>1, <1>6
      <4> QED BY <4>1, <4>2, <1>2, <1>5, <1>6
    <3> QED BY <3>1, <3>3 DEF Walked
  <2>2. ASSUME NEW q \in Walked(m, next) PROVE q \in Walked(m, ids)
    <3>1. q \in Leaves(m) /\ \A k \in DOMAIN next : ~Below(q, next[k])
      BY DEF Walked
    <3>2. ~Below(q, p)
      <4>1. SUFFICES ASSUME Below(q, p) PROVE FALSE
        OBVIOUS
      <4>2. PICK i \in 1..n : Below(q, Append(p, i))
        BY <4>1, <3>1, <1>1, <1>8, InsideSubpart DEF n, Leaves
      <4>3. i \in DOMAIN next /\ next[i] = Append(p, i)
        BY <1>2, <1>5, <1>6
      <4> QED BY <4>2, <4>3, <3>1
    <3>3. ASSUME NEW k \in DOMAIN t PROVE ~Below(q, t[k])
      <4>1. k + n \in (n + 1)..(n + Len(t)) /\ (k + n) - n = k
        BY <1>2, <1>5
      <4>2. k + n \in DOMAIN next
        BY <1>2, <1>5, <1>6
      <4> QED BY <4>1, <4>2, <3>1, <1>6
    <3>4. \A k \in DOMAIN ids : ~Below(q, ids[k])
      BY <3>2, <3>3, <1>1
    <3> QED BY <3>1, <3>4 DEF Walked
  <2> QED BY <2>1, <2>2
<1>11. ASSUME NEW k \in DOMAIN next, NEW l \in DOMAIN next, k < l
       PROVE  Precedes(next[k], next[l])
  <2>1. CASE l \in 1..n
    <3>1. k \in 1..n
      BY <2>1, <1>2, <1>5, <1>6, <1>11
    <3> QED BY <2>1, <3>1, <1>3, <1>6, <1>11
  <2>2. CASE k \in 1..n /\ l \in (n + 1)..(n + Len(t))
    <3>1. l - n \in DOMAIN t
      BY <2>2, <1>2, <1>5
    <3>2. next[k] = Append(p, k) /\ next[l] = t[l - n]
      BY <2>2, <1>6
    <3>3. Precedes(p, t[l - n]) /\ p \in Path /\ t[l - n] \in Path /\ Append(p, k) \in Path
      BY <2>2, <3>1, <1>1, <1>3, <1>7, <1>9
    <3>4. Below(Append(p, k), p) /\ Below(t[l - n], t[l - n])
      BY <2>2, <3>3, <1>3, BelowItself
    <3> QED BY <3>2, <3>3, <3>4, PrecedesInside
  <2>3. CASE k \in (n + 1)..(n + Len(t))
    <3>1. l \in (n + 1)..(n + Len(t)) /\ k - n \in DOMAIN t /\ l - n \in DOMAIN t
      BY <2>3, <1>2, <1>5, <1>6, <1>11
    <3>2. (k - n) + 1 \in DOMAIN ids /\ (l - n) + 1 \in DOMAIN ids /\ (k - n) + 1 < (l - n) + 1
      BY <3>1, <2>3, <1>1, <1>2, <1>5, <1>11
    <3>3. next[k] = ids[(k - n) + 1] /\ next[l] = ids[(l - n) + 1]
      BY <3>1, <2>3, <1>1, <1>6
    <3> QED BY <3>2, <3>3 DEF InOrder
  <2> QED BY <2>1, <2>2, <2>3, <1>2, <1>5, <1>6
<1>12. ASSUME NEW q \in Walked(m, ids), NEW k \in DOMAIN next PROVE Precedes(q, next[k])
  <2>0. q \in Path
    BY <1>7 DEF Walked, Leaves
  <2>1. CASE k \in 1..n
    <3>1. Precedes(q, p)
      BY <1>1 DEF InOrder
    <3>2. next[k] = Append(p, k) /\ Below(Append(p, k), p) /\ Append(p, k) \in Path
      BY <2>1, <1>3, <1>6, <1>7
    <3>3. Below(q, q) /\ p \in Path
      BY <2>0, <1>1, <1>7, BelowItself
    <3> QED BY <2>0, <3>1, <3>2, <3>3, PrecedesInside
  <2>2. CASE k \in (n + 1)..(n + Len(t))
    <3>1. k - n \in DOMAIN t
      BY <2>2, <1>2, <1>5
    <3>2. (k - n) + 1 \in DOMAIN ids /\ next[k] = ids[(k - n) + 1]
      BY <3>1, <2>2, <1>1, <1>6
    <3> QED BY <3>2 DEF InOrder
  <2> QED BY <2>1, <2>2, <1>2, <1>5, <1>6
<1>13. InOrder(m, next)
  BY <1>6, <1>10, <1>11, <1>12 DEF InOrder
<1> QED BY <1>10, <1>13 DEF next, c, t, p

-----------------------------------------------------------------------------
(* What a leaf adds to the state.                                          *)

\* The leaf p is the next after those in seen.
NextLeaf(m, seen, p) ==
  /\ IsMessage(m) /\ seen \subseteq Leaves(m) /\ p \in Leaves(m) \ seen
  /\ \A q \in Leaves(m) : q \in seen <=> Precedes(q, p)

Found(m, p) == [id |-> p, body |-> m[p].body]

LEMMA FirstAdded ==
  ASSUME NEW m, NEW bodies, NEW p, NEW taken,
         \A q \in bodies : Precedes(q, p), FirstTaken(m, taken, bodies)
  PROVE  FirstTaken(m, IF taken = <<>> THEN <<Found(m, p)>> ELSE taken, bodies \cup {p})
<1>1. CASE taken = <<>>
  <2>1. bodies = {}
    BY <1>1 DEF FirstTaken
  <2>2. p \in FirstPath(bodies \cup {p})
    BY <2>1 DEF FirstPath
  <2> QED BY <1>1, <2>2 DEF FirstTaken, Found
<1>2. CASE taken # <<>>
  <2>1. PICK r \in FirstPath(bodies) : taken = <<[id |-> r, body |-> m[r].body]>>
    BY <1>2 DEF FirstTaken
  <2>2. r \in FirstPath(bodies \cup {p})
    BY <2>1 DEF FirstPath
  <2> QED BY <1>2, <2>1, <2>2 DEF FirstTaken
<1> QED BY <1>1, <1>2

LEMMA AttachmentsFinite ==
  ASSUME NEW m, IsMessage(m), NEW S \in SUBSET AttachmentsOf(m)
  PROVE  /\ IsFiniteSet(S) /\ Cardinality(S) \in Nat
         /\ Cardinality(S) <= Cardinality(AttachmentsOf(m))
         /\ Cardinality(AttachmentsOf(m)) \in Nat /\ IsFiniteSet(AttachmentsOf(m))
<1>1. IsFiniteSet(DOMAIN m) /\ AttachmentsOf(m) \subseteq DOMAIN m
  BY DEF IsMessage, AttachmentsOf, Leaves
<1>2. IsFiniteSet(AttachmentsOf(m))
  BY <1>1, FS_Subset
<1> QED BY <1>2, FS_Subset, FS_CardinalityType

LEMMA EarlierSeen ==
  ASSUME NEW m, NEW seen, NEW p, NextLeaf(m, seen, p)
  PROVE  EarlierThan(m, p) = AttachmentsOf(m) \cap seen
BY DEF NextLeaf, EarlierThan, AttachmentsOf

\* A leaf that is no attachment leaves those that have been found as they are.
LEMMA BodyWalked ==
  ASSUME NEW m, NEW mode, NEW seen, NEW p, NextLeaf(m, seen, p), ~m[p].is_attachment,
         state \in StateOf(m), ~state.failed, Collected(m, mode, seen, state)
  PROVE  LET st == walk_body(m[p], p) IN
         st \in StateOf(m) /\ ~st.failed /\ Collected(m, mode, seen \cup {p}, st)
<1> DEFINE st == walk_body(m[p], p)
           plain == BodiesOf(m, "text/plain")
           html == BodiesOf(m, "text/html")
<1>1. p \in DOMAIN m /\ p \in Leaves(m) /\ m[p] \in MimePart /\ p \in Path /\ p \notin seen
  BY PartTyped DEF NextLeaf, Leaves
<1>2. Found(m, p) \in TakenBody(m)
  BY <1>1 DEF Found, TakenBody, MimePart
<1>3. \A taken \in Seq(TakenBody(m)) :
        /\ TakeBody(taken, m[p], p) \in Seq(TakenBody(m))
        /\ TakeBody(taken, m[p], p) =
             IF m[p].body # "broken" THEN IF taken = <<>> THEN <<Found(m, p)>> ELSE taken
             ELSE taken
  BY <1>2 DEF TakeBody, Found
<1>4. /\ st \in StateOf(m) /\ st.failed = state.failed
      /\ st.attachments = state.attachments
      /\ st.attachments_truncated = state.attachments_truncated
      /\ st.body_text = IF m[p].type = "text/plain" THEN TakeBody(state.body_text, m[p], p)
                        ELSE state.body_text
      /\ st.body_html = IF m[p].type = "text/html" THEN TakeBody(state.body_html, m[p], p)
                        ELSE state.body_html
  BY <1>3 DEF walk_body, StateOf
<1>5. /\ AttachmentsOf(m) \cap (seen \cup {p}) = AttachmentsOf(m) \cap seen
      /\ ShownAttachments(m, mode) \cap (seen \cup {p}) = ShownAttachments(m, mode) \cap seen
  BY DEF AttachmentsOf, ShownAttachments
<1>6. \A q \in seen : Precedes(q, p)
  BY DEF NextLeaf
<1>7. state.body_text \in Seq(TakenBody(m)) /\ state.body_html \in Seq(TakenBody(m))
  BY DEF StateOf
<1>8. FirstTaken(m, st.body_text, plain \cap (seen \cup {p}))
  <2>0. FirstTaken(m, state.body_text, plain \cap seen)
    BY DEF Collected
  <2>1. CASE m[p].type = "text/plain" /\ m[p].body # "broken"
    <3>1. plain \cap (seen \cup {p}) = (plain \cap seen) \cup {p}
      BY <2>1, <1>1 DEF BodiesOf
    <3>2. st.body_text = IF state.body_text = <<>> THEN <<Found(m, p)>> ELSE state.body_text
      BY <2>1, <1>3, <1>4, <1>7
    <3> HIDE DEF plain, st
    <3>3. \A q \in plain \cap seen : Precedes(q, p)
      BY <1>6
    <3>4. FirstTaken(m, IF state.body_text = <<>> THEN <<Found(m, p)>> ELSE state.body_text,
                     (plain \cap seen) \cup {p})
      BY <2>0, <3>3, FirstAdded, Zenon
    <3> QED BY <3>1, <3>2, <3>4, Zenon
  <2>2. CASE ~(m[p].type = "text/plain" /\ m[p].body # "broken")
    <3>1. plain \cap (seen \cup {p}) = plain \cap seen
      BY <2>2, <1>1 DEF BodiesOf
    <3>2. st.body_text = state.body_text
      BY <2>2, <1>3, <1>4, <1>7
    <3> HIDE DEF plain, st
    <3> QED BY <2>0, <3>1, <3>2
  <2> QED BY <2>1, <2>2
<1>9. FirstTaken(m, st.body_html, html \cap (seen \cup {p}))
  <2>0. FirstTaken(m, state.body_html, html \cap seen)
    BY DEF Collected
  <2>1. CASE m[p].type = "text/html" /\ m[p].body # "broken"
    <3>1. html \cap (seen \cup {p}) = (html \cap seen) \cup {p}
      BY <2>1, <1>1 DEF BodiesOf
    <3>2. st.body_html = IF state.body_html = <<>> THEN <<Found(m, p)>> ELSE state.body_html
      BY <2>1, <1>3, <1>4, <1>7
    <3> HIDE DEF html, st
    <3>3. \A q \in html \cap seen : Precedes(q, p)
      BY <1>6
    <3>4. FirstTaken(m, IF state.body_html = <<>> THEN <<Found(m, p)>> ELSE state.body_html,
                     (html \cap seen) \cup {p})
      BY <2>0, <3>3, FirstAdded, Zenon
    <3> QED BY <3>1, <3>2, <3>4, Zenon
  <2>2. CASE ~(m[p].type = "text/html" /\ m[p].body # "broken")
    <3>1. html \cap (seen \cup {p}) = html \cap seen
      BY <2>2, <1>1 DEF BodiesOf
    <3>2. st.body_html = state.body_html
      BY <2>2, <1>3, <1>4, <1>7
    <3> HIDE DEF html, st
    <3> QED BY <2>0, <3>1, <3>2
  <2> QED BY <2>1, <2>2
<1> HIDE DEF st, plain, html
<1>10. Collected(m, mode, seen \cup {p}, st)
  BY <1>4, <1>5, <1>8, <1>9 DEF Collected, plain, html
<1> QED BY <1>4, <1>10 DEF st

\* An attachment is shown, unless there is no room for it.
LEMMA AttachmentWalked ==
  ASSUME NEW m, NEW mode, NEW seen, NEW p, NextLeaf(m, seen, p), m[p].is_attachment,
         state \in StateOf(m), ~state.failed, BrokenAttachments(m, mode) \cap seen = {},
         Collected(m, mode, seen, state)
  PROVE  LET st == walk_attachment(m[p], p, mode) IN
         /\ st \in StateOf(m)
         /\ st.failed <=> BrokenAttachments(m, mode) \cap (seen \cup {p}) # {}
         /\ ~st.failed => Collected(m, mode, seen \cup {p}, st)
<1> DEFINE st == walk_attachment(m[p], p, mode)
           all == AttachmentsOf(m)
           here == all \cap seen
           shown == ShownAttachments(m, mode)
           listed == state.attachments
           item == [part_id |-> p, extracted |-> Extracts(m[p], mode) /\ m[p].body = "words"]
<1>1. p \in DOMAIN m /\ p \in all /\ m[p] \in MimePart /\ p \notin seen /\ IsMessage(m)
  BY PartTyped DEF NextLeaf, Leaves, AttachmentsOf
<1>2. EarlierThan(m, p) = here
  BY EarlierSeen
<1>3. /\ IsFiniteSet(shown \cap seen) /\ Cardinality(shown \cap seen) \in Nat
      /\ IsFiniteSet(here) /\ Cardinality(here) \in Nat
      /\ Cardinality(shown \cap seen) <= Cardinality(here)
  <2>1. here \in SUBSET AttachmentsOf(m) /\ shown \cap seen \in SUBSET here
    BY DEF ShownAttachments
  <2>2. IsFiniteSet(here) /\ Cardinality(here) \in Nat
    BY <2>1, <1>1, AttachmentsFinite
  <2> HIDE DEF here
  <2> QED BY <2>1, <2>2, FS_Subset, FS_CardinalityType
<1>4. p \in shown <=> mode # "none" /\ Cardinality(here) < MAX_ATTACHMENTS
  <2>1. Surplus(m, p) <=> Cardinality(here) >= MAX_ATTACHMENTS
    BY <1>2 DEF Surplus, EarlierThan
  <2> HIDE DEF here
  <2> QED BY <2>1, <1>1, <1>3, MimeAssumption DEF ShownAttachments
<1>5. /\ Len(listed) = Cardinality(shown \cap seen)
      /\ state.attachments_truncated <=> mode # "none" /\ shown \cap seen # here
      /\ state.attachments_truncated => Len(listed) >= MAX_ATTACHMENTS
      /\ \A i \in DOMAIN listed :
           LET id == listed[i].part_id IN id \in all /\ Cardinality(EarlierThan(m, id)) = i - 1
      /\ FirstTaken(m, state.body_text, BodiesOf(m, "text/plain") \cap seen)
      /\ FirstTaken(m, state.body_html, BodiesOf(m, "text/html") \cap seen)
  BY DEF Collected
<1>6. /\ BodiesOf(m, "text/plain") \cap (seen \cup {p}) = BodiesOf(m, "text/plain") \cap seen
      /\ BodiesOf(m, "text/html") \cap (seen \cup {p}) = BodiesOf(m, "text/html") \cap seen
  BY DEF BodiesOf
<1>7. all \cap (seen \cup {p}) = here \cup {p}
  BY <1>1
<1>8. mode = "none" => shown = {}
  BY DEF ShownAttachments
<1>9. listed \in Seq(ListedAttachment(m)) /\ Len(listed) \in Nat /\ item \in ListedAttachment(m)
  BY <1>1 DEF StateOf, ListedAttachment
<1>10. BrokenAttachments(m, mode) \cap (seen \cup {p}) # {} <=> p \in BrokenAttachments(m, mode)
  OBVIOUS
<1> HIDE DEF shown
<1>11. CASE Len(listed) >= MAX_ATTACHMENTS
  <2>1. st = [state EXCEPT !.attachments_truncated = TRUE]
    BY <1>11 DEF walk_attachment
  <2>2. p \notin shown
    BY <1>3, <1>4, <1>5, <1>11, MimeAssumption
  <2>3. p \notin BrokenAttachments(m, mode)
    BY <2>2 DEF BrokenAttachments, shown
  <2>4. mode # "none"
    <3>1. Len(listed) # 0
      BY <1>9, <1>11, MimeAssumption
    <3>2. mode = "none" => shown \cap seen = {}
      BY <1>8
    <3>3. Cardinality({}) = 0
      BY FS_EmptySet
    <3> HIDE DEF listed
    <3> QED BY <3>1, <3>2, <3>3, <1>5, Zenon
  <2>5. shown \cap (seen \cup {p}) = shown \cap seen /\ shown \cap seen # here \cup {p}
    BY <2>2
  <2>6. /\ st \in StateOf(m) /\ ~st.failed /\ st.attachments_truncated
        /\ st.attachments = listed
        /\ st.body_text = state.body_text /\ st.body_html = state.body_html
    BY <2>1 DEF StateOf
  <2> HIDE DEF st, here, listed, all
  <2>7. Collected(m, mode, seen \cup {p}, st)
    BY <2>4, <2>5, <2>6, <1>5, <1>6, <1>7, <1>11 DEF Collected, shown, all
  <2> QED BY <2>3, <2>6, <2>7, <1>10 DEF st
<1>12. CASE Len(listed) < MAX_ATTACHMENTS
  <2>1. mode # "none" => shown \cap seen = here /\ p \in shown /\ Cardinality(here) = Len(listed)
    <3>1. ~state.attachments_truncated
      BY <1>5, <1>9, <1>12, MimeAssumption
    <3> QED BY <3>1, <1>4, <1>5, <1>12
  <2>2. CASE Extracts(m[p], mode) /\ m[p].body = "broken"
    <3>1. st = [state EXCEPT !.failed = TRUE]
      BY <2>2, <1>9, <1>12, MimeAssumption DEF walk_attachment
    <3>2. p \in BrokenAttachments(m, mode)
      BY <2>1, <2>2 DEF BrokenAttachments, Extracts, shown
    <3>3. st \in StateOf(m) /\ st.failed
      BY <3>1 DEF StateOf
    <3> QED BY <3>2, <3>3, <1>10
  <2>3. ASSUME ~(Extracts(m[p], mode) /\ m[p].body = "broken")
        PROVE  p \notin BrokenAttachments(m, mode)
    BY <2>3 DEF BrokenAttachments
  <2>4. CASE ~(Extracts(m[p], mode) /\ m[p].body = "broken") /\ mode = "none"
    <3>1. st = state
      BY <2>4, <1>9, <1>12, MimeAssumption DEF walk_attachment
    <3>2. shown \cap (seen \cup {p}) = shown \cap seen
      BY <2>4, <1>8
    <3> HIDE DEF st, here, listed, all
    <3>3. Collected(m, mode, seen \cup {p}, st)
      BY <2>4, <3>1, <3>2, <1>5, <1>6 DEF Collected, shown, all, listed
    <3> QED BY <2>3, <2>4, <3>1, <3>3, <1>10 DEF st
  <2>5. CASE ~(Extracts(m[p], mode) /\ m[p].body = "broken") /\ mode # "none"
    <3>1. st = [state EXCEPT !.attachments = Append(listed, item)]
      BY <2>5, <1>9, <1>12, MimeAssumption DEF walk_attachment
    <3>2. Append(listed, item) \in Seq(ListedAttachment(m))
      BY <1>9
    <3>3. /\ st \in StateOf(m) /\ ~st.failed /\ ~st.attachments_truncated
          /\ st.attachments = Append(listed, item)
          /\ st.body_text = state.body_text /\ st.body_html = state.body_html
      <4>1. ~state.attachments_truncated
        BY <1>5, <1>9, <1>12, MimeAssumption
      <4> HIDE DEF item, listed
      <4> QED BY <3>1, <3>2, <4>1 DEF StateOf
    <3>4. shown \cap (seen \cup {p}) = here \cup {p} /\ p \notin here
      BY <2>1, <2>5, <1>1
    <3>5. Cardinality(here \cup {p}) = Len(listed) + 1
      BY <2>1, <2>5, <3>4, <1>3, FS_AddElement
    <3>6. /\ Len(Append(listed, item)) = Len(listed) + 1
          /\ DOMAIN Append(listed, item) = 1..(Len(listed) + 1)
          /\ DOMAIN listed = 1..Len(listed)
          /\ \A i \in 1..Len(listed) : Append(listed, item)[i] = listed[i]
          /\ Append(listed, item)[Len(listed) + 1] = item
      BY <1>9
    <3>7. item.part_id = p
      OBVIOUS
    <3> HIDE DEF st, here, listed, all, item
    <3>8. ASSUME NEW i \in 1..(Len(listed) + 1)
          PROVE  LET id == Append(listed, item)[i].part_id IN
                 id \in all /\ Cardinality(EarlierThan(m, id)) = i - 1
      <4>1. CASE i = Len(listed) + 1
        <5>1. Append(listed, item)[i].part_id = p /\ i - 1 = Len(listed)
          BY <4>1, <3>6, <3>7, <1>9
        <5> QED BY <5>1, <2>1, <2>5, <1>1, <1>2
      <4>2. CASE i # Len(listed) + 1
        <5>1. i \in 1..Len(listed)
          BY <4>2, <1>9
        <5> QED BY <5>1, <3>6, <1>5
      <4> QED BY <4>1, <4>2
    <3>9. Collected(m, mode, seen \cup {p}, st)
      BY <2>5, <3>3, <3>4, <3>5, <3>6, <3>8, <1>5, <1>6, <1>7 DEF Collected, shown, all
    <3> QED BY <2>3, <2>5, <3>3, <3>9, <1>10 DEF st
  <2> QED BY <2>2, <2>4, <2>5
<1> QED BY <1>9, <1>11, <1>12, MimeAssumption

-----------------------------------------------------------------------------
(* What the state is when the walk begins and when it has ended.           *)

LEMMA WalkBegun ==
  ASSUME NEW m, IsMessage(m), NEW mode
  PROVE  LET ids == <<<<1>>>> IN
         /\ InOrder(m, ids) /\ Walked(m, ids) = {} /\ WalkState \in StateOf(m)
         /\ ~WalkState.failed /\ Collected(m, mode, {}, WalkState)
<1> DEFINE ids == <<<<1>>>> root == <<1>>
<1>1. root \in DOMAIN m /\ Len(root) = 1 /\ root[1] = 1
  BY DEF IsMessage
<1>2. \A q \in Leaves(m) : q \in DOMAIN m /\ q \in Path /\ Len(q) \in Nat \ {0} /\ q[1] = 1
  BY PartTyped, PathDomain DEF Leaves
<1>3. \A q \in Leaves(m) : Below(q, root)
  BY <1>1, <1>2 DEF Below
<1> HIDE DEF root
<1>4. ids \in Seq(DOMAIN m) /\ DOMAIN ids = {1} /\ ids[1] = root
  BY <1>1 DEF root
<1> HIDE DEF ids
<1>5. Walked(m, ids) = {}
  BY <1>3, <1>4 DEF Walked
<1>6. InOrder(m, ids)
  BY <1>4, <1>5 DEF InOrder
<1>7. WalkState \in StateOf(m) /\ ~WalkState.failed
  BY DEF WalkState, StateOf
<1>8. Collected(m, mode, {}, WalkState)
  <2>1. Cardinality({}) = 0 /\ Len(<<>>) = 0 /\ DOMAIN <<>> = {}
    BY FS_EmptySet
  <2>2. \A S : S \cap {} = {}
    OBVIOUS
  <2>3. FirstTaken(m, <<>>, {})
    BY DEF FirstTaken
  <2>4. /\ WalkState.body_text = <<>> /\ WalkState.body_html = <<>>
        /\ WalkState.attachments = <<>> /\ ~WalkState.attachments_truncated
    BY DEF WalkState
  <2> QED BY <2>1, <2>2, <2>3, <2>4 DEF Collected
<1> QED BY <1>5, <1>6, <1>7, <1>8 DEF ids, root

\* What has been taken is the first body, and its text is shown unless blank.
LEMMA TakenIsFirst ==
  ASSUME NEW m, IsMessage(m), NEW bodies \in SUBSET DOMAIN m, NEW taken,
         FirstTaken(m, taken, bodies)
  PROVE  LET words == {p \in FirstPath(bodies) : m[p].body = "words"} IN
         /\ TakenFrom(taken) = FirstPath(bodies)
         /\ Meaningful(taken) = IF words # {} THEN taken ELSE <<>>
         /\ words # {} => words = FirstPath(bodies) /\ taken # <<>>
<1> DEFINE words == {p \in FirstPath(bodies) : m[p].body = "words"}
<1>1. CASE taken = <<>> /\ bodies = {}
  <2>1. FirstPath(bodies) = {}
    BY <1>1 DEF FirstPath
  <2>2. TakenFrom(taken) = {} /\ Meaningful(taken) = <<>>
    BY <1>1 DEF TakenFrom, Meaningful
  <2> QED BY <1>1, <2>1, <2>2
<1>2. CASE \E p \in FirstPath(bodies) : taken = <<[id |-> p, body |-> m[p].body]>>
  <2>1. PICK p \in FirstPath(bodies) : taken = <<[id |-> p, body |-> m[p].body]>>
    BY <1>2
  <2>2. FirstPath(bodies) = {p}
    <3>1. ASSUME NEW q \in FirstPath(bodies), q # p PROVE FALSE
      <4>1. Precedes(p, q) /\ Precedes(q, p) /\ p \in DOMAIN m /\ q \in DOMAIN m
        BY <3>1, <2>1 DEF FirstPath
      <4> QED BY <4>1, PartTyped, PrecedesApart
    <3> QED BY <2>1, <3>1
  <2>3. DOMAIN taken = {1} /\ taken[1].id = p /\ taken # <<>> /\ Head(taken).body = m[p].body
    BY <2>1
  <2>4. TakenFrom(taken) = {p}
    BY <2>3 DEF TakenFrom
  <2>5. Meaningful(taken) = IF m[p].body = "words" THEN taken ELSE <<>>
    BY <2>3 DEF Meaningful
  <2>6. words = IF m[p].body = "words" THEN {p} ELSE {}
    BY <2>2
  <2> HIDE DEF words
  <2> QED BY <2>2, <2>3, <2>4, <2>5, <2>6 DEF words
<1> QED BY <1>1, <1>2 DEF FirstTaken

LEMMA AllCollected ==
  ASSUME NEW m, IsMessage(m), NEW mode, NEW st \in StateOf(m),
         Collected(m, mode, Leaves(m), st)
  PROVE  /\ Len(st.attachments) = Cardinality(ShownAttachments(m, mode))
         /\ st.attachments_truncated <=>
              mode # "none" /\ Cardinality(AttachmentsOf(m)) > MAX_ATTACHMENTS
         /\ FirstTaken(m, st.body_text, BodiesOf(m, "text/plain"))
         /\ FirstTaken(m, st.body_html, BodiesOf(m, "text/html"))
<1> DEFINE all == AttachmentsOf(m) shown == ShownAttachments(m, mode)
<1>1. /\ all \cap Leaves(m) = all /\ shown \cap Leaves(m) = shown /\ shown \subseteq all
      /\ BodiesOf(m, "text/plain") \cap Leaves(m) = BodiesOf(m, "text/plain")
      /\ BodiesOf(m, "text/html") \cap Leaves(m) = BodiesOf(m, "text/html")
  BY DEF AttachmentsOf, ShownAttachments, BodiesOf
<1>2. /\ FirstTaken(m, st.body_text, BodiesOf(m, "text/plain"))
      /\ FirstTaken(m, st.body_html, BodiesOf(m, "text/html"))
      /\ Len(st.attachments) = Cardinality(shown)
      /\ \A i \in DOMAIN st.attachments :
           LET id == st.attachments[i].part_id IN id \in all /\ Cardinality(EarlierThan(m, id)) = i - 1
      /\ st.attachments_truncated <=> mode # "none" /\ shown # all
      /\ st.attachments_truncated => Len(st.attachments) >= MAX_ATTACHMENTS
  BY <1>1 DEF Collected
<1>3. IsFiniteSet(all) /\ Cardinality(all) \in Nat
  BY AttachmentsFinite
<1>4. \A S \in SUBSET all : /\ IsFiniteSet(S) /\ Cardinality(S) \in Nat
                            /\ Cardinality(S) <= Cardinality(all)
                            /\ Cardinality(S) = Cardinality(all) => S = all
  BY <1>3, FS_Subset, FS_CardinalityType
<1> HIDE DEF shown, all
<1>5. ASSUME shown # all, mode # "none" PROVE Cardinality(all) > MAX_ATTACHMENTS
  <2>1. Cardinality(shown) < Cardinality(all) /\ Cardinality(shown) \in Nat
    BY <1>1, <1>3, <1>4, <1>5
  <2>2. Cardinality(shown) >= MAX_ATTACHMENTS
    BY <1>2, <1>5
  <2> QED BY <2>1, <2>2, <1>3, MimeAssumption
<1>6. ASSUME shown = all PROVE Cardinality(all) <= MAX_ATTACHMENTS
  <2> DEFINE n == Cardinality(all)
  <2>1. CASE n = 0
    BY <2>1, MimeAssumption
  <2>2. CASE n # 0
    <3>1. n \in DOMAIN st.attachments
      BY <2>2, <1>2, <1>3, <1>6 DEF StateOf
    <3> DEFINE id == st.attachments[n].part_id
    <3>2. id \in shown /\ Cardinality(EarlierThan(m, id)) = n - 1
      BY <3>1, <1>2, <1>6
    <3>3. ~(Cardinality(EarlierThan(m, id)) >= MAX_ATTACHMENTS)
      BY <3>2 DEF shown, ShownAttachments, Surplus, EarlierThan
    <3> HIDE DEF id
    <3> QED BY <3>2, <3>3, <1>3, MimeAssumption
  <2> QED BY <2>1, <2>2
<1>7. st.attachments_truncated <=> mode # "none" /\ Cardinality(all) > MAX_ATTACHMENTS
  BY <1>2, <1>3, <1>5, <1>6, MimeAssumption
<1> QED BY <1>2, <1>7 DEF shown, all

-----------------------------------------------------------------------------
(* The theorems.                                                           *)

LEMMA OtherCallsApart ==
  ASSUME CallNext
  PROVE  call'.tool # "get_message" /\ answer' # Walking
<1>1. ASSUME NEW raws \in BulkRequests, apply_to_messages(raws)
      PROVE  call'.tool = "apply_to_messages" /\ answer'.status \in {"ok", "rejected"}
  BY <1>1 DEF apply_to_messages, Answered, Rejected
<1>2. ASSUME NEW input \in SearchRequests, search_messages(input)
      PROVE  call'.tool = "search_messages" /\ answer'.status \in {"ok", "rejected", "resumed"}
  BY <1>2 DEF search_messages, Answered, Rejected
<1>3. ASSUME NEW name \in NamesGiven, name_mailbox(name)
      PROVE  call'.tool = "name_mailbox" /\ answer'.status = "ok"
  BY <1>3 DEF name_mailbox, Answered
<1>4. Return => call'.tool = "none" /\ answer'.tool = "none" /\ DOMAIN answer' = {"tool"}
  BY DEF Return, NoCall
<1>5. Walking.status = "walking" /\ DOMAIN Walking = {"status"}
  BY DEF Walking
<1> QED BY <1>1, <1>2, <1>3, <1>4, <1>5 DEF CallNext

\* A step of the walk, and the end of it, by the call that is under way.
LEMMA WalkStepped ==
  ASSUME WalkInvariant, WalkStep
  PROVE  WalkInvariant'
<1> DEFINE m == call.message mode == call.attachment_mode seen == Walked(m, pending)
           p == Head(pending)
<1>1. /\ answer = Walking /\ UNCHANGED <<call, answer>> /\ call.tool = "get_message"
      /\ call \in MessageCall /\ WalkInv(m, mode)
  BY DEF WalkInvariant, WalkStep, callVars
<1>2. m \in RawMessages /\ IsMessage(m)
  BY <1>1, MimeAssumption DEF MessageCall
<1>3. pending # <<>> /\ ~state.failed
  BY DEF WalkStep, walk_parts
<1>4. /\ InOrder(m, pending) /\ state \in StateOf(m)
      /\ BrokenAttachments(m, mode) \cap seen = {} /\ Collected(m, mode, seen, state)
  BY <1>1, <1>3 DEF WalkInv
<1>5. \/ /\ m[p].subparts # 0
         /\ pending' = SubpartIds(m, p) \o Tail(pending)
         /\ state' = state
      \/ /\ m[p].subparts = 0
         /\ pending' = Tail(pending)
         /\ state' = IF m[p].is_attachment THEN walk_attachment(m[p], p, mode)
                     ELSE walk_body(m[p], p)
  BY DEF WalkStep, walk_parts
<1> DEFINE after == Walked(m, pending')
<1>6. SUFFICES /\ InOrder(m, pending') /\ state' \in StateOf(m)
               /\ state'.failed <=> BrokenAttachments(m, mode) \cap after # {}
               /\ ~state'.failed => Collected(m, mode, after, state')
  BY <1>1 DEF WalkInvariant, WalkInv
<1>7. CASE m[p].subparts # 0
  <2>1. pending' = SubpartIds(m, p) \o Tail(pending) /\ state' = state
    BY <1>5, <1>7
  <2>2. InOrder(m, pending') /\ after = seen
    BY <2>1, <1>2, <1>3, <1>4, <1>7, SubpartsPushed
  <2> HIDE DEF after, seen, m, mode
  <2> QED BY <2>1, <2>2, <1>3, <1>4
<1>8. CASE m[p].subparts = 0
  <2>1. /\ pending' = Tail(pending)
        /\ state' = IF m[p].is_attachment THEN walk_attachment(m[p], p, mode)
                    ELSE walk_body(m[p], p)
    BY <1>5, <1>8
  <2>2. /\ p \in Leaves(m) \ seen /\ InOrder(m, pending') /\ after = seen \cup {p}
        /\ \A q \in Leaves(m) : q \in seen <=> Precedes(q, p)
    BY <2>1, <1>2, <1>3, <1>4, <1>8, LeafWalked
  <2>3. NextLeaf(m, seen, p)
    BY <2>2, <1>2 DEF NextLeaf, Walked
  <2>4. CASE m[p].is_attachment
    <3> HIDE DEF after, seen, m, mode, p
    <3>1. state' = walk_attachment(m[p], p, mode)
      BY <2>1, <2>4
    <3>2. /\ state' \in StateOf(m)
          /\ state'.failed <=> BrokenAttachments(m, mode) \cap (seen \cup {p}) # {}
          /\ ~state'.failed => Collected(m, mode, seen \cup {p}, state')
      BY <3>1, <2>3, <2>4, <1>3, <1>4, AttachmentWalked, Zenon
    <3> QED BY <3>2, <2>2
  <2>5. CASE ~m[p].is_attachment
    <3>0. p \notin BrokenAttachments(m, mode)
      BY <2>5 DEF BrokenAttachments, ShownAttachments, AttachmentsOf
    <3> HIDE DEF after, seen, m, mode, p
    <3>1. state' = walk_body(m[p], p)
      BY <2>1, <2>5
    <3>2. state' \in StateOf(m) /\ ~state'.failed /\ Collected(m, mode, seen \cup {p}, state')
      BY <3>1, <2>3, <2>5, <1>3, <1>4, BodyWalked, Zenon
    <3> QED BY <3>0, <3>2, <2>2, <1>4
  <2> QED BY <2>4, <2>5
<1> QED BY <1>7, <1>8

\* While a message is walked, the state holds the first body of each type and
\* the first attachments of what has been walked, no more and no less; and the
\* parts still to be walked come after.
THEOREM WalkIsInOrder == Spec => []WalkInvariant
<1>1. Init => WalkInvariant
  BY DEF Init, CallInit, NoCall, NoWalk, WalkInvariant, Walking
<1>2. ASSUME WalkInvariant, [Next]_vars PROVE WalkInvariant'
  <2>1. CASE answer # Walking /\ CallNext /\ UNCHANGED walkVars
    <3>1. NoWalk'
      BY <1>2, <2>1 DEF WalkInvariant, NoWalk, walkVars
    <3>2. call'.tool # "get_message" /\ answer' # Walking
      BY <2>1, OtherCallsApart
    <3> QED BY <3>1, <3>2 DEF WalkInvariant
  <2>2. ASSUME NEW message \in RawMessages, NEW body_mode \in BodyMode,
               NEW attachment_mode \in AttachmentMode,
               get_message(message, body_mode, attachment_mode)
        PROVE  WalkInvariant'
    <3>1. /\ call' \in MessageCall /\ call'.tool = "get_message" /\ answer' = Walking
          /\ call'.message = message /\ call'.attachment_mode = attachment_mode
          /\ pending' = <<<<1>>>> /\ state' = WalkState
      BY <2>2 DEF get_message, Answered, MessageCall, BeginWalk, NoWalk
    <3>2. /\ InOrder(message, <<<<1>>>>) /\ Walked(message, <<<<1>>>>) = {}
          /\ WalkState \in StateOf(message) /\ ~WalkState.failed
          /\ Collected(message, attachment_mode, {}, WalkState)
      BY WalkBegun, MimeAssumption
    <3>3. BrokenAttachments(message, attachment_mode) \cap {} = {}
      OBVIOUS
    <3>4. WalkInv(message, attachment_mode)'
      BY <3>1, <3>2, <3>3 DEF WalkInv
    <3> QED BY <3>1, <3>4 DEF WalkInvariant
  <2>3. CASE WalkStep
    BY <1>2, <2>3, WalkStepped
  <2>4. CASE parse_message
    <3>1. NoWalk' /\ answer' # Walking /\ UNCHANGED call
      <4>1. NoWalk' /\ UNCHANGED call /\ answer'.status \in {"failed", "partial", "ok"}
        BY <2>4 DEF parse_message, EndWalk, NoWalk, status_from_issue_and_counts
      <4> QED BY <4>1 DEF Walking
    <3> QED BY <1>2, <3>1 DEF WalkInvariant
  <2>5. CASE UNCHANGED vars
    BY <1>2, <2>5 DEF vars, WalkInvariant, WalkInv, NoWalk
  <2> QED BY <1>2, <2>1, <2>2, <2>3, <2>4, <2>5 DEF Next
<1> QED BY <1>1, <1>2, PTL DEF Spec

\* An answered imap_get_message shows the first attachments of its message, each
\* with its place in the tree, says whether there are more, is partial for that
\* and for missing flags only, and shows the first body of each type; where it
\* fails, an attachment asked for its text is broken.  This holds for every
\* message, however deep and wide.
THEOREM PartsAlwaysReported == Spec => []PartsReported
<1>1. Init => PartsReported
  BY DEF Init, CallInit, NoCall, PartsReported
<1>2. ASSUME WalkInvariant, PartsReported, [Next]_vars PROVE PartsReported'
  <2>1. CASE answer # Walking /\ CallNext /\ UNCHANGED walkVars
    BY <2>1, OtherCallsApart DEF PartsReported
  <2>2. ASSUME NEW message \in RawMessages, NEW body_mode \in BodyMode,
               NEW attachment_mode \in AttachmentMode,
               get_message(message, body_mode, attachment_mode)
        PROVE  PartsReported'
    BY <2>2 DEF get_message, Answered, PartsReported
  <2>3. CASE WalkStep
    <3>1. answer' = Walking
      BY <2>3 DEF WalkStep, callVars
    <3> QED BY <3>1 DEF PartsReported, Walking
  <2>4. CASE parse_message
    <3> DEFINE m == call.message mode == call.attachment_mode
               plain == FirstPath(BodiesOf(m, "text/plain"))
               html == FirstPath(BodiesOf(m, "text/html"))
               WithWords(paths) == {q \in paths : m[q].body = "words"}
               parsed == ParsedMessage(call.body_mode)
    <3>1. /\ answer = Walking /\ call' = call /\ call \in MessageCall
          /\ WalkInv(m, mode) /\ (pending = <<>> \/ state.failed)
      BY <1>2, <2>4 DEF WalkInvariant, parse_message, EndWalk
    <3>2. IsMessage(m) /\ call.body_mode \in BodyMode
      BY <3>1, MimeAssumption DEF MessageCall
    <3>3. CASE state.failed
      <4>1. answer'.status = "failed"
        BY <2>4, <3>3 DEF parse_message
      <4>2. BrokenAttachments(m, mode) # {}
        BY <3>1, <3>3 DEF WalkInv
      <4> QED BY <3>1, <4>1, <4>2 DEF PartsReported
    <3>4. CASE ~state.failed
      <4>0. PICK flags_fetched \in BOOLEAN :
              LET issues == DetailIssues(flags_fetched) IN
              answer' = [status |-> status_from_issue_and_counts(issues, TRUE), issues |-> issues,
                         flags_fetched |-> flags_fetched, parsed |-> parsed]
        BY <2>4, <3>4 DEF parse_message
      <4>1. /\ answer'.status \in {"ok", "partial"} /\ answer'.parsed = parsed
            /\ answer'.flags_fetched = flags_fetched
            /\ "attachment_limit" \in answer'.issues <=> state.attachments_truncated = TRUE
            /\ answer'.status = "partial" <=> state.attachments_truncated = TRUE \/ ~flags_fetched
        <5> HIDE DEF parsed
        <5> QED BY <4>0 DEF DetailIssues, status_from_issue_and_counts
      <4>2. Walked(m, pending) = Leaves(m)
        <5>1. pending = <<>> /\ DOMAIN <<>> = {}
          BY <3>1, <3>4
        <5> QED BY <5>1 DEF Walked
      <4>3. /\ state \in StateOf(m) /\ Collected(m, mode, Leaves(m), state)
        BY <3>1, <3>4, <4>2 DEF WalkInv
      <4>4. state.attachments_truncated \in BOOLEAN
        BY <4>3 DEF StateOf
      <4>5. /\ Len(state.attachments) = Cardinality(ShownAttachments(m, mode))
            /\ state.attachments_truncated <=>
                 mode # "none" /\ Cardinality(AttachmentsOf(m)) > MAX_ATTACHMENTS
            /\ FirstTaken(m, state.body_text, BodiesOf(m, "text/plain"))
            /\ FirstTaken(m, state.body_html, BodiesOf(m, "text/html"))
        <5> HIDE DEF m, mode
        <5> QED BY <3>2, <4>3, AllCollected
      <4>6. \A i \in DOMAIN state.attachments :
              LET id == state.attachments[i].part_id IN
              /\ id \in AttachmentsOf(m)
              /\ Cardinality({q \in AttachmentsOf(m) : Precedes(q, id)}) = i - 1
        BY <4>3 DEF Collected, EarlierThan
      <4>7. /\ TakenFrom(state.body_text) = plain /\ TakenFrom(state.body_html) = html
            /\ Meaningful(state.body_text) =
                 IF WithWords(plain) # {} THEN state.body_text ELSE <<>>
            /\ Meaningful(state.body_html) =
                 IF WithWords(html) # {} THEN state.body_html ELSE <<>>
            /\ WithWords(plain) # {} => state.body_text # <<>>
            /\ WithWords(html) # {} => WithWords(html) = html
        <5>1. /\ BodiesOf(m, "text/plain") \subseteq DOMAIN m
              /\ BodiesOf(m, "text/html") \subseteq DOMAIN m
          BY DEF BodiesOf, Leaves
        <5> HIDE DEF m
        <5> QED BY <3>2, <4>5, <5>1, TakenIsFirst
      <4>8. TakenFrom(select_body_text(state.body_text, state.body_html)) =
              IF WithWords(plain) # {} THEN plain ELSE WithWords(html)
        <5>1. TakenFrom(<<>>) = {}
          BY DEF TakenFrom
        <5> HIDE DEF plain, html, WithWords
        <5> QED BY <4>7, <5>1 DEF select_body_text
      <4>9. /\ parsed.attachments = state.attachments
            /\ call.body_mode # "text" => TakenFrom(parsed.body_html) = html
            /\ call.body_mode # "html" =>
                 TakenFrom(parsed.body_text) =
                   IF WithWords(plain) # {} THEN plain ELSE WithWords(html)
        <5> HIDE DEF plain, html, WithWords
        <5> QED BY <3>2, <4>7, <4>8 DEF ParsedMessage, BodyMode
      <4> DEFINE more == mode # "none" /\ Cardinality(AttachmentsOf(m)) > MAX_ATTACHMENTS
      <4>10. /\ "attachment_limit" \in answer'.issues <=> more
             /\ answer'.status = "partial" <=> more \/ ~answer'.flags_fetched
             /\ answer'.status # "failed"
        BY <4>1, <4>4, <4>5
      <4> HIDE DEF parsed
      <4> QED BY <3>1, <4>1, <4>5, <4>6, <4>9, <4>10 DEF PartsReported
    <3> QED BY <3>3, <3>4
  <2>5. CASE UNCHANGED vars
    BY <1>2, <2>5 DEF vars, PartsReported
  <2> QED BY <1>2, <2>1, <2>2, <2>3, <2>4, <2>5 DEF Next
<1> QED BY <1>1, <1>2, WalkIsInOrder, PTL DEF Spec

\* Beside imap_get_message, the calls of CallInputs are as they are by themselves.
THEOREM CallsComposed == Spec => CallSpec
<1>1. Init => CallInit
  BY DEF Init
<1>2. ASSUME WalkInvariant, [Next]_vars PROVE [CallNext \/ OtherCall]_callVars
  <2>1. ASSUME NEW message \in RawMessages, NEW body_mode \in BodyMode,
               NEW attachment_mode \in AttachmentMode,
               get_message(message, body_mode, attachment_mode)
        PROVE  OtherCall
    BY <2>1 DEF get_message, Answered, OtherCall
  <2>2. CASE WalkStep
    BY <2>2 DEF WalkStep
  <2>3. CASE parse_message
    <3>1. call' = call /\ call.tool = "get_message"
      BY <1>2, <2>3 DEF WalkInvariant, parse_message
    <3> QED BY <3>1 DEF OtherCall
  <2>4. CASE UNCHANGED vars
    BY <2>4 DEF vars, callVars
  <2> QED BY <1>2, <2>1, <2>2, <2>3, <2>4 DEF Next
<1> QED BY <1>1, <1>2, WalkIsInOrder, PTL DEF Spec, CallSpec

\* So what CallInputs promises holds of the calls of all these tools.
THEOREM CallsKeepTheirPromises ==
  Spec => []IdsResolved /\ []UidSetExact /\ []SearchMeansFilters /\ []NamesAgree
BY CallsComposed, BulkCallsResolve, UidSetsExact, SearchesMeanFilters, NamesAgreeAlways, PTL

=============================================================================
