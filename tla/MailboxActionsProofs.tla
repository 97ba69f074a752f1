------------------------- MODULE MailboxActionsProofs -------------------------
(* For any names, sessions and faults: the tree of mailboxes stays one, an   *)
(* action that answers ok has done what was asked for, and one that fails    *)
(* has a reason.                                                             *)
EXTENDS MailboxActions, SequenceTheorems, TLAPS

USE DEF vars, progress, others

-----------------------------------------------------------------------------
(* Names and their parents.                                                *)

Levels == UNION {{name[i] : i \in DOMAIN name} : name \in Names}

LEMMA NamesAreSequences ==
  ASSUME NEW name \in Names
  PROVE  /\ name \in Seq(Levels) /\ Len(name) \in Nat \ {0} /\ DOMAIN name = 1..Len(name)
         /\ ParentsOf(name) \subseteq Names
<1> DEFINE own == {name[i] : i \in DOMAIN name}
<1>1. name \in Seq(own) /\ Len(name) > 0 /\ ParentsOf(name) \subseteq Names
  BY NamesAssumption
<1>2. own \subseteq Levels
  BY DEF Levels
<1> HIDE DEF own
<1>3. Len(name) \in Nat /\ DOMAIN name = 1..Len(name) /\ name \in [1..Len(name) -> own]
  BY <1>1, LenProperties
<1>4. name \in Seq(Levels)
  <2>1. name \in [1..Len(name) -> Levels]
    BY <1>2, <1>3
  <2> QED BY <1>3, <2>1
<1> QED BY <1>1, <1>3, <1>4

LEMMA Prefix ==
  ASSUME NEW name \in Names, NEW i \in 0..Len(name)
  PROVE  /\ SubSeq(name, 1, i) \in Seq(Levels) /\ Len(SubSeq(name, 1, i)) = i
         /\ \A j \in 1..i : SubSeq(name, 1, i)[j] = name[j]
<1>1. /\ Len(name) \in Nat /\ i \in Int /\ 1 \in Int
      /\ \A j \in 1..Len(name) : name[j] \in Levels
  BY NamesAreSequences, ElementOfSeq
<1>2. \A j \in 1..i : name[j] \in Levels
  BY <1>1
<1>3. /\ SubSeq(name, 1, i) \in Seq(Levels)
      /\ Len(SubSeq(name, 1, i)) = IF 1 <= i THEN i - 1 + 1 ELSE 0
      /\ \A j \in 1..(i - 1 + 1) : SubSeq(name, 1, i)[j] = name[1 + j - 1]
  BY <1>1, <1>2, SubSeqProperties
<1> QED BY <1>1, <1>3

\* Parents are the shorter names that agree with a name from its first level.
LEMMA ParentMeans ==
  ASSUME NEW name \in Names, NEW p \in Seq(Levels)
  PROVE  p \in ParentsOf(name)
           <=> Len(p) \in 1..(Len(name) - 1) /\ \A j \in 1..Len(p) : p[j] = name[j]
<1>1. Len(name) \in Nat /\ Len(p) \in Nat
  BY NamesAreSequences, LenProperties
<1>2. ASSUME p \in ParentsOf(name)
      PROVE  Len(p) \in 1..(Len(name) - 1) /\ \A j \in 1..Len(p) : p[j] = name[j]
  <2>1. PICK i \in 1..(Len(name) - 1) : p = SubSeq(name, 1, i)
    BY <1>2 DEF ParentsOf
  <2>2. i \in 0..Len(name)
    BY <1>1
  <2> QED BY <2>1, <2>2, Prefix
<1>3. ASSUME Len(p) \in 1..(Len(name) - 1), \A j \in 1..Len(p) : p[j] = name[j]
      PROVE  p \in ParentsOf(name)
  <2>1. Len(p) \in 0..Len(name)
    BY <1>1, <1>3
  <2>2. p = SubSeq(name, 1, Len(p))
    BY <1>3, <2>1, Prefix, SeqEqual
  <2> QED BY <1>3, <2>2 DEF ParentsOf
<1> QED BY <1>2, <1>3

LEMMA SameName ==
  ASSUME NEW m \in Seq(Levels), NEW n \in Seq(Levels), Len(m) = Len(n),
         \A j \in 1..Len(n) : m[j] = n[j]
  PROVE  m = n
BY SeqEqual

\* A parent of a parent is a parent; of two parents the shorter is one of the
\* longer.
LEMMA ParentsOfParents ==
  ASSUME NEW name \in Names, NEW p \in ParentsOf(name)
  PROVE  /\ p \in Names /\ p # name /\ Len(p) < Len(name) /\ Len(p) \in 1..(Len(name) - 1)
         /\ ParentsOf(p) \subseteq ParentsOf(name)
         /\ \A q \in ParentsOf(name) : Len(q) < Len(p) => q \in ParentsOf(p)
         /\ \A q \in ParentsOf(name) : Len(q) = Len(p) => q = p
<1>1. /\ p \in Names /\ p \in Seq(Levels) /\ Len(p) \in Nat /\ Len(name) \in Nat
      /\ ParentsOf(p) \subseteq Names /\ ParentsOf(name) \subseteq Names
  BY NamesAreSequences
<1>2. Len(p) \in 1..(Len(name) - 1) /\ \A j \in 1..Len(p) : p[j] = name[j]
  BY <1>1, ParentMeans
<1>3. ASSUME NEW q \in ParentsOf(p)
      PROVE  q \in ParentsOf(name)
  <2>1. q \in Seq(Levels) /\ Len(q) \in Nat
    BY <1>1, NamesAreSequences
  <2>2. Len(q) \in 1..(Len(p) - 1) /\ \A j \in 1..Len(q) : q[j] = p[j]
    BY <1>1, <2>1, ParentMeans
  <2>3. Len(q) \in 1..(Len(name) - 1) /\ \A j \in 1..Len(q) : q[j] = name[j]
    BY <1>1, <1>2, <2>1, <2>2
  <2> QED BY <2>1, <2>3, ParentMeans
<1>4. ASSUME NEW q \in ParentsOf(name)
      PROVE  /\ Len(q) < Len(p) => q \in ParentsOf(p)
             /\ Len(q) = Len(p) => q = p
  <2>1. q \in Seq(Levels) /\ Len(q) \in Nat
    BY <1>1, NamesAreSequences
  <2>2. Len(q) \in 1..(Len(name) - 1) /\ \A j \in 1..Len(q) : q[j] = name[j]
    BY <2>1, ParentMeans
  <2>3. ASSUME Len(q) < Len(p) PROVE q \in ParentsOf(p)
    <3>1. Len(q) \in 1..(Len(p) - 1) /\ \A j \in 1..Len(q) : q[j] = p[j]
      BY <1>1, <1>2, <2>1, <2>2, <2>3
    <3> QED BY <1>1, <2>1, <3>1, ParentMeans
  <2>4. ASSUME Len(q) = Len(p) PROVE q = p
    <3>1. \A j \in 1..Len(p) : q[j] = p[j]
      BY <1>2, <2>2, <2>4
    <3> QED BY <1>1, <2>1, <2>4, <3>1, SameName
  <2> QED BY <2>3, <2>4
<1> QED BY <1>1, <1>2, <1>3, <1>4

\* A name that a renamed mailbox takes along.
LEMMA NewNameMeans ==
  ASSUME NEW from \in Names, NEW to \in Names, NEW n \in Names, n = from \/ from \in ParentsOf(n)
  PROVE  /\ NewName(from, to, n) \in Seq(Levels)
         /\ Len(from) <= Len(n)
         /\ Len(NewName(from, to, n)) = Len(to) + Len(n) - Len(from)
         /\ \A i \in 1..Len(to) : NewName(from, to, n)[i] = to[i]
         /\ \A i \in (Len(from) + 1)..Len(n) :
              NewName(from, to, n)[i - Len(from) + Len(to)] = n[i]
<1>1. /\ from \in Seq(Levels) /\ to \in Seq(Levels) /\ n \in Seq(Levels)
      /\ Len(from) \in Nat /\ Len(to) \in Nat /\ Len(n) \in Nat
      /\ \A j \in 1..Len(n) : n[j] \in Levels
  BY NamesAreSequences, ElementOfSeq
<1>2. Len(from) <= Len(n)
  BY <1>1, ParentMeans
<1> DEFINE rest == SubSeq(n, Len(from) + 1, Len(n))
<1>3. /\ rest \in Seq(Levels) /\ Len(rest) = Len(n) - Len(from)
      /\ \A i \in 1..(Len(n) - Len(from)) : rest[i] = n[Len(from) + i]
  <2>1. Len(from) + 1 \in Int /\ Len(n) \in Int
        /\ \A j \in (Len(from) + 1)..Len(n) : n[j] \in Levels
    BY <1>1
  <2>2. /\ rest \in Seq(Levels)
        /\ Len(rest) = IF Len(from) + 1 <= Len(n) THEN Len(n) - (Len(from) + 1) + 1 ELSE 0
        /\ \A i \in 1..(Len(n) - (Len(from) + 1) + 1) : rest[i] = n[Len(from) + 1 + i - 1]
    BY <2>1, SubSeqProperties
  <2> HIDE DEF rest
  <2>3. Len(rest) = Len(n) - Len(from)
    BY <1>1, <1>2, <2>2
  <2>4. ASSUME NEW i \in 1..(Len(n) - Len(from))
        PROVE  rest[i] = n[Len(from) + i]
    BY <1>1, <2>2
  <2> QED BY <2>2, <2>3, <2>4
<1> HIDE DEF rest
<1>4. NewName(from, to, n) = to \o rest
  BY DEF NewName, rest
<1>5. /\ to \o rest \in Seq(Levels) /\ Len(to \o rest) = Len(to) + Len(rest)
      /\ \A i \in 1..(Len(to) + Len(rest)) :
           (to \o rest)[i] = IF i <= Len(to) THEN to[i] ELSE rest[i - Len(to)]
  BY <1>1, <1>3, ConcatProperties
<1>6. \A i \in 1..Len(to) : NewName(from, to, n)[i] = to[i]
  BY <1>1, <1>2, <1>3, <1>4, <1>5
<1>7. ASSUME NEW i \in (Len(from) + 1)..Len(n)
      PROVE  NewName(from, to, n)[i - Len(from) + Len(to)] = n[i]
  <2>1. /\ i - Len(from) + Len(to) \in 1..(Len(to) + Len(rest))
        /\ ~(i - Len(from) + Len(to) <= Len(to))
        /\ i - Len(from) + Len(to) - Len(to) = i - Len(from)
        /\ i - Len(from) \in 1..(Len(n) - Len(from)) /\ Len(from) + (i - Len(from)) = i
    BY <1>1, <1>2, <1>3
  <2>2. NewName(from, to, n)[i - Len(from) + Len(to)] = rest[i - Len(from)]
    BY <1>4, <1>5, <2>1
  <2> QED BY <1>3, <2>1, <2>2
<1> QED BY <1>1, <1>2, <1>3, <1>4, <1>5, <1>6, <1>7

LEMMA NewNameInjective ==
  ASSUME NEW from \in Names, NEW to \in Names,
         NEW m \in Names, m = from \/ from \in ParentsOf(m),
         NEW n \in Names, n = from \/ from \in ParentsOf(n),
         NewName(from, to, m) = NewName(from, to, n)
  PROVE  m = n
<1>1. /\ from \in Seq(Levels) /\ m \in Seq(Levels) /\ n \in Seq(Levels)
      /\ Len(from) \in Nat /\ Len(to) \in Nat /\ Len(m) \in Nat /\ Len(n) \in Nat
  BY NamesAreSequences
<1>2. /\ Len(from) <= Len(m)
      /\ Len(NewName(from, to, m)) = Len(to) + Len(m) - Len(from)
      /\ \A i \in (Len(from) + 1)..Len(m) :
           NewName(from, to, m)[i - Len(from) + Len(to)] = m[i]
  BY NewNameMeans
<1>3. /\ Len(from) <= Len(n)
      /\ Len(NewName(from, to, n)) = Len(to) + Len(n) - Len(from)
      /\ \A i \in (Len(from) + 1)..Len(n) :
           NewName(from, to, n)[i - Len(from) + Len(to)] = n[i]
  BY NewNameMeans
<1>4. Len(m) = Len(n)
  BY <1>1, <1>2, <1>3
<1>5. ASSUME NEW j \in 1..Len(n) PROVE m[j] = n[j]
  <2>1. CASE j <= Len(from)
    <3>1. j \in 1..Len(from)
      BY <1>1, <2>1
    <3>2. m[j] = from[j] /\ n[j] = from[j]
      BY <1>1, <3>1, ParentMeans
    <3> QED BY <3>2
  <2>2. CASE ~(j <= Len(from))
    <3>1. j \in (Len(from) + 1)..Len(n) /\ j \in (Len(from) + 1)..Len(m)
      BY <1>1, <1>4, <2>2
    <3> QED BY <1>2, <1>3, <3>1
  <2> QED BY <2>1, <2>2
<1> QED BY <1>1, <1>4, <1>5, SameName

LEMMA NewNameOfSelf ==
  ASSUME NEW from \in Names, NEW to \in Names
  PROVE  NewName(from, to, from) = to
<1>1. /\ NewName(from, to, from) \in Seq(Levels)
      /\ Len(NewName(from, to, from)) = Len(to) + Len(from) - Len(from)
      /\ \A i \in 1..Len(to) : NewName(from, to, from)[i] = to[i]
  BY NewNameMeans
<1>2. to \in Seq(Levels) /\ Len(to) \in Nat /\ Len(from) \in Nat
  BY NamesAreSequences
<1>3. Len(NewName(from, to, from)) = Len(to)
  BY <1>1, <1>2
<1> QED BY <1>1, <1>2, <1>3, SameName

LEMMA NewNameBelow ==
  ASSUME NEW from \in Names, NEW to \in Names, NEW n \in Names, from \in ParentsOf(n)
  PROVE  /\ NewName(from, to, n) \in Seq(Levels)
         /\ Len(NewName(from, to, n)) = Len(to) + Len(n) - Len(from)
         /\ \A i \in 1..Len(to) : NewName(from, to, n)[i] = to[i]
         /\ \A i \in (Len(from) + 1)..Len(n) :
              NewName(from, to, n)[i - Len(from) + Len(to)] = n[i]
<1>1. NewName(from, to, n) \in Seq(Levels)
  BY NewNameMeans
<1>2. Len(NewName(from, to, n)) = Len(to) + Len(n) - Len(from)
  BY NewNameMeans
<1>3. \A i \in 1..Len(to) : NewName(from, to, n)[i] = to[i]
  BY NewNameMeans
<1>4. \A i \in (Len(from) + 1)..Len(n) :
        NewName(from, to, n)[i - Len(from) + Len(to)] = n[i]
  BY NewNameMeans
<1> QED BY <1>1, <1>2, <1>3, <1>4

\* What is above a mailbox taken along: what is above the new place, the new
\* place, and what was between the old place and the mailbox, taken along.
LEMMA NewNameParents ==
  ASSUME NEW from \in Names, NEW to \in Names, NEW n \in Names, from \in ParentsOf(n),
         NewName(from, to, n) \in Names
  PROVE  /\ to \in ParentsOf(NewName(from, to, n))
         /\ \A p \in ParentsOf(NewName(from, to, n)) :
              \/ p \in ParentsOf(to) \/ p = to
              \/ \E m \in ParentsOf(n) : from \in ParentsOf(m) /\ p = NewName(from, to, m)
<1> DEFINE new == NewName(from, to, n)
<1>1. /\ from \in Seq(Levels) /\ to \in Seq(Levels) /\ n \in Seq(Levels) /\ new \in Seq(Levels)
      /\ Len(from) \in Nat /\ Len(to) \in Nat \ {0} /\ Len(n) \in Nat /\ Len(new) \in Nat
      /\ ParentsOf(new) \subseteq Names
  BY NamesAreSequences
<1>2. /\ Len(new) = Len(to) + Len(n) - Len(from)
      /\ \A i \in 1..Len(to) : new[i] = to[i]
      /\ \A i \in (Len(from) + 1)..Len(n) : new[i - Len(from) + Len(to)] = n[i]
  BY NewNameMeans
<1>3. Len(from) < Len(n)
  BY <1>1, ParentMeans
<1>4. to \in ParentsOf(new)
  <2>1. Len(to) \in 1..(Len(new) - 1) /\ \A j \in 1..Len(to) : to[j] = new[j]
    BY <1>1, <1>2, <1>3
  <2> QED BY <1>1, <2>1, ParentMeans
<1>5. ASSUME NEW p \in ParentsOf(new), p \notin ParentsOf(to), p # to
      PROVE  \E m \in ParentsOf(n) : from \in ParentsOf(m) /\ p = NewName(from, to, m)
  <2>1. /\ Len(p) \in 1..(Len(new) - 1) /\ p \in Seq(Levels)
        /\ \A j \in 1..Len(p) : p[j] = new[j]
    <3>1. p \in Names /\ p \in Seq(Levels)
      BY <1>1, NamesAreSequences
    <3> QED BY <3>1, ParentMeans
  <2>2. Len(p) > Len(to)
    BY <1>1, <1>4, <1>5, <2>1, ParentsOfParents
  <2> DEFINE k == Len(p) - Len(to) + Len(from)
             m == SubSeq(n, 1, k)
  <2>3. k \in (Len(from) + 1)..(Len(n) - 1) /\ k \in 1..(Len(n) - 1) /\ k \in 0..Len(n)
    BY <1>1, <1>2, <2>1, <2>2
  <2>4. /\ m \in ParentsOf(n) /\ m \in Names /\ m \in Seq(Levels) /\ Len(m) = k
        /\ \A j \in 1..k : m[j] = n[j]
    BY <2>3, Prefix, NamesAreSequences DEF ParentsOf
  <2>5. from \in ParentsOf(m)
    <3>1. \A q \in ParentsOf(n) : Len(q) < Len(m) => q \in ParentsOf(m)
      BY <2>4, ParentsOfParents
    <3>2. Len(from) < Len(m)
      BY <1>1, <2>3, <2>4
    <3> QED BY <3>1, <3>2
  <2>6. /\ NewName(from, to, m) \in Seq(Levels)
        /\ Len(NewName(from, to, m)) = Len(to) + Len(m) - Len(from)
        /\ \A i \in 1..Len(to) : NewName(from, to, m)[i] = to[i]
        /\ \A i \in (Len(from) + 1)..Len(m) :
             NewName(from, to, m)[i - Len(from) + Len(to)] = m[i]
    <3> HIDE DEF m, k
    <3> QED BY <2>4, <2>5, NewNameBelow, Zenon
  <2>7. Len(NewName(from, to, m)) = Len(p)
    BY <1>1, <2>1, <2>4, <2>6
  <2>8. ASSUME NEW j \in 1..Len(p) PROVE p[j] = NewName(from, to, m)[j]
    <3>1. CASE j <= Len(to)
      <4>1. j \in 1..Len(to)
        BY <1>1, <3>1
      <4> QED BY <1>2, <2>1, <2>6, <4>1
    <3>2. CASE ~(j <= Len(to))
      <4> DEFINE i == j - Len(to) + Len(from)
      <4>1. /\ i \in (Len(from) + 1)..Len(m) /\ i \in (Len(from) + 1)..Len(n) /\ i \in 1..k
            /\ i - Len(from) + Len(to) = j
        BY <1>1, <2>1, <2>3, <2>4, <3>2
      <4> HIDE DEF i, m, k
      <4>2. p[j] = n[i] /\ NewName(from, to, m)[j] = m[i] /\ m[i] = n[i]
        BY <1>2, <2>1, <2>4, <2>6, <4>1
      <4> QED BY <4>2
    <3> QED BY <3>1, <3>2
  <2> HIDE DEF m, k
  <2>9. p = NewName(from, to, m)
    BY <2>1, <2>6, <2>7, <2>8, SameName
  <2> QED BY <2>4, <2>5, <2>9
<1> QED BY <1>4, <1>5

-----------------------------------------------------------------------------
(* What the server's commands make of a tree of mailboxes.                 *)

GoodTree(tree) ==
  /\ DOMAIN tree \subseteq Names
  /\ \A n \in DOMAIN tree : tree[n] \in Content
  /\ Closed(tree)

\* One tree after another: a mailbox that stays is what it was.
TreeAfter(tree, after) ==
  /\ GoodTree(after)
  /\ \A n \in DOMAIN tree \cap DOMAIN after : after[n] = tree[n]

LEMMA AboveMeans ==
  ASSUME style \in Style, NEW name \in Names
  PROVE  /\ Above(name) \subseteq ParentsOf(name) /\ Above(name) \subseteq Names
         /\ name \notin Above(name)
         /\ style # "flat" => Above(name) = ParentsOf(name)
         /\ \A p \in Above(name) : Above(p) \subseteq Above(name)
<1>1. ParentsOf(name) \subseteq Names /\ name \notin ParentsOf(name)
      /\ \A p \in ParentsOf(name) : ParentsOf(p) \subseteq ParentsOf(name)
  BY NamesAreSequences, ParentsOfParents
<1> QED BY <1>1 DEF Above

LEMMA ExtendMeans ==
  ASSUME NEW tree, NEW names
  PROVE  /\ DOMAIN Extend(tree, names) = DOMAIN tree \cup names
         /\ \A n \in DOMAIN tree : Extend(tree, names)[n] = tree[n]
         /\ \A n \in names \ DOMAIN tree : Extend(tree, names)[n] = <<>>
BY DEF Extend, Exists

LEMMA Created ==
  ASSUME style \in Style, NEW tree, GoodTree(tree), NEW name \in Names
  PROVE  TreeAfter(tree, Extend(tree, {name} \cup Above(name)))
<1> DEFINE names == {name} \cup Above(name)
           after == Extend(tree, names)
<1>1. /\ DOMAIN after = DOMAIN tree \cup names
      /\ \A n \in DOMAIN tree : after[n] = tree[n]
      /\ \A n \in names \ DOMAIN tree : after[n] = <<>>
  BY ExtendMeans
<1>2. names \subseteq Names /\ \A n \in names : Above(n) \subseteq names
  BY AboveMeans
<1> HIDE DEF names, after
<1>3. DOMAIN after \subseteq Names /\ \A n \in DOMAIN after : after[n] \in Content
  BY <1>1, <1>2 DEF GoodTree, Content
<1>4. Closed(after)
  BY <1>1, <1>2 DEF GoodTree, Closed
<1>5. TreeAfter(tree, after)
  BY <1>1, <1>3, <1>4 DEF TreeAfter, GoodTree
<1> QED BY <1>5 DEF after, names

LEMMA Deleted ==
  ASSUME style \in Style, NEW tree, GoodTree(tree), NEW name \in Names, Below(tree, name) = {}
  PROVE  TreeAfter(tree, [n \in DOMAIN tree \ {name} |-> tree[n]])
<1> DEFINE after == [n \in DOMAIN tree \ {name} |-> tree[n]]
<1>1. DOMAIN after = DOMAIN tree \ {name} /\ \A n \in DOMAIN after : after[n] = tree[n]
  OBVIOUS
<1>2. \A n \in DOMAIN tree : name \notin Above(n)
  BY DEF Below
<1> HIDE DEF after
<1>3. Closed(after)
  BY <1>1, <1>2 DEF GoodTree, Closed
<1>4. TreeAfter(tree, after)
  BY <1>1, <1>3 DEF TreeAfter, GoodTree
<1> QED BY <1>4 DEF after

\* A mailbox moves to a place where nothing was, with all that is below it.
LEMMA Renamed ==
  ASSUME style \in Style, NEW tree, GoodTree(tree), NEW from \in DOMAIN tree, NEW to \in Names,
         to \notin DOMAIN tree, from \notin Above(to),
         \A n \in Below(tree, from) : NewName(from, to, n) \in Names
  PROVE  LET after == MoveTree(tree, from, to) IN
         /\ TreeAfter(tree, after)
         /\ {to} \cup Above(to) \subseteq DOMAIN after
         /\ from \notin DOMAIN after
         /\ after[to] = tree[from]
<1> DEFINE moved == {from} \cup Below(tree, from)
           New(n) == NewName(from, to, n)
           taken == {New(n) : n \in moved}
           kept  == [n \in DOMAIN tree \ moved |-> tree[n]]
           rest  == Extend(kept, Above(to))
           after == MoveTree(tree, from, to)
<1>1. from \in Names /\ DOMAIN tree \subseteq Names /\ \A n \in DOMAIN tree : Above(n) \subseteq DOMAIN tree
  BY DEF GoodTree, Closed
<1>2. \A n : n \in moved <=> n \in DOMAIN tree /\ (n = from \/ from \in Above(n))
  BY DEF Below
<1>3. \A n : n \in taken <=> \E m \in moved : n = New(m)
  OBVIOUS
<1>4. /\ \A n : n \in DOMAIN rest <=> (n \in DOMAIN tree /\ n \notin moved) \/ n \in Above(to)
      /\ \A n \in DOMAIN tree \ moved : rest[n] = tree[n]
      /\ \A n \in Above(to) : n \in DOMAIN tree \ moved \/ rest[n] = <<>>
  <2>1. DOMAIN kept = DOMAIN tree \ moved /\ \A n \in DOMAIN kept : kept[n] = tree[n]
    OBVIOUS
  <2> HIDE DEF kept
  <2>2. /\ DOMAIN rest = DOMAIN kept \cup Above(to)
        /\ \A n \in DOMAIN kept : rest[n] = kept[n]
        /\ \A n \in Above(to) \ DOMAIN kept : rest[n] = <<>>
    BY ExtendMeans
  <2> QED BY <2>1, <2>2
<1>5. /\ DOMAIN after = DOMAIN rest \cup taken
      /\ \A n \in taken : after[n] = tree[CHOOSE m \in moved : New(m) = n]
      /\ \A n \in DOMAIN rest \ taken : after[n] = rest[n]
  BY DEF MoveTree
<1>6. /\ New(from) = to
      /\ \A n \in moved : n \in Names /\ New(n) \in Names /\ (n = from \/ from \in ParentsOf(n))
  BY <1>1, <1>2, NewNameOfSelf, AboveMeans DEF Below
<1>7. \A m \in moved : \A n \in moved : New(m) = New(n) => m = n
  BY <1>1, <1>6, NewNameInjective
<1> HIDE DEF moved, taken, rest, after
\* Nothing is where the mailboxes go.
<1>8. ASSUME NEW m \in moved PROVE New(m) \notin DOMAIN tree /\ to \in {New(m)} \cup Above(New(m))
  <2>1. CASE m = from
    BY <1>6, <2>1
  <2>2. CASE from \in Above(m)
    <3>1. style # "flat" /\ from \in ParentsOf(m) /\ m \in Names /\ New(m) \in Names
      BY <1>6, <2>2 DEF Above
    <3>2. to \in Above(New(m))
      BY <1>1, <3>1, NewNameParents DEF Above
    <3> QED BY <1>1, <3>2
  <2> QED BY <1>2, <2>1, <2>2
<1>9. \A n \in taken : n \notin DOMAIN tree
  BY <1>3, <1>8
<1>10. \A n \in Above(to) : n \notin moved
  BY <1>2, AboveMeans
<1>11. ASSUME NEW n \in DOMAIN tree \cap DOMAIN after PROVE after[n] = tree[n]
  BY <1>4, <1>5, <1>9, <1>10
<1>12. to \in taken /\ Above(to) \subseteq DOMAIN after /\ from \notin DOMAIN after
  <2>1. from \in moved
    BY <1>2
  <2>2. to \in taken
    BY <1>3, <1>6, <2>1
  <2> QED BY <1>4, <1>5, <1>9, <2>1, <2>2
<1>13. after[to] = tree[from]
  <2>1. from \in moved /\ New(from) = to
    BY <1>2, <1>6
  <2> DEFINE m == CHOOSE m \in moved : New(m) = to
  <2>2. m \in moved /\ New(m) = to
    BY <2>1
  <2>3. m = from
    BY <1>7, <2>1, <2>2
  <2> QED BY <1>5, <1>12, <2>3
<1>14. DOMAIN after \subseteq Names
  BY <1>1, <1>3, <1>4, <1>5, <1>6, AboveMeans
<1>15. ASSUME NEW n \in DOMAIN after PROVE after[n] \in Content
  <2>1. CASE n \in taken
    <3> DEFINE m == CHOOSE m \in moved : New(m) = n
    <3>1. m \in moved
      BY <1>3, <2>1
    <3> QED BY <1>2, <1>5, <2>1, <3>1 DEF GoodTree
  <2>2. CASE n \notin taken
    BY <1>4, <1>5, <2>2 DEF GoodTree, Content
  <2> QED BY <2>1, <2>2
<1>16. ASSUME NEW n \in DOMAIN after, NEW p \in Above(n) PROVE p \in DOMAIN after
  <2>1. CASE n \in DOMAIN tree /\ n \notin moved
    <3>1. p \in DOMAIN tree
      BY <1>1, <2>1
    <3>2. p \notin moved
      BY <1>1, <1>2, <2>1, AboveMeans
    <3> QED BY <1>4, <1>5, <3>1, <3>2
  <2>2. CASE n \in Above(to)
    BY <1>4, <1>5, <2>2, AboveMeans
  <2>3. CASE n = to
    BY <1>12, <2>3
  <2>4. CASE n \in taken /\ n # to
    <3>1. PICK m \in moved : n = New(m)
      BY <1>3, <2>4
    <3>2. from \in Above(m) /\ from \in ParentsOf(m) /\ m \in DOMAIN tree /\ m \in Names /\ n \in Names
      BY <1>2, <1>6, <2>4, <3>1 DEF Above
    <3>3. style # "flat" /\ p \in ParentsOf(n)
      BY <3>2 DEF Above
    <3>4. \/ p \in ParentsOf(to) \/ p = to
          \/ \E o \in ParentsOf(m) : from \in ParentsOf(o) /\ p = New(o)
      BY <1>1, <3>1, <3>2, <3>3, NewNameParents
    <3>5. ASSUME NEW o \in ParentsOf(m), from \in ParentsOf(o), p = New(o)
          PROVE  p \in taken
      <4>1. o \in DOMAIN tree /\ from \in Above(o)
        BY <1>1, <3>2, <3>3, <3>5 DEF Above
      <4> QED BY <1>2, <1>3, <3>5, <4>1
    <3>6. Above(to) = ParentsOf(to)
      BY <3>3 DEF Above
    <3> QED BY <1>5, <1>12, <3>4, <3>5, <3>6
  <2> QED BY <1>4, <1>5, <2>1, <2>2, <2>3, <2>4
<1>17. TreeAfter(tree, after)
  BY <1>11, <1>14, <1>15, <1>16 DEF TreeAfter, GoodTree, Closed
<1>18. {to} \cup Above(to) \subseteq DOMAIN after
  BY <1>5, <1>12
<1> QED BY <1>12, <1>13, <1>17, <1>18 DEF after

LEMMA CarriedOut ==
  ASSUME style \in Style, NEW tree, GoodTree(tree), NEW command \in MailboxAction, Admits(tree, command)
  PROVE  TreeAfter(tree, CarryOut(tree, command))
<1>1. CASE command.verb = "create"
  <2>1. command.mailbox \in Names
    BY DEF MailboxAction
  <2> QED BY <1>1, <2>1, Created DEF CarryOut
<1>2. CASE command.verb = "delete"
  <2>1. command.mailbox \in Names /\ Below(tree, command.mailbox) = {}
    BY <1>2 DEF MailboxAction, Admits
  <2> QED BY <1>2, <2>1, Deleted DEF CarryOut
<1>3. CASE command.verb = "rename"
  <2> DEFINE from == command.mailbox
             to   == command.destination_mailbox
  <2>1. to \in Names
    BY <1>3 DEF MailboxAction
  <2>2. /\ from \in DOMAIN tree /\ to \notin DOMAIN tree /\ from \notin Above(to)
        /\ \A n \in Below(tree, from) : NewName(from, to, n) \in Names
    BY <1>3 DEF Admits, HasPlace, Exists
  <2>3. CarryOut(tree, command) = MoveTree(tree, from, to)
    BY <1>3 DEF CarryOut
  <2> HIDE DEF from, to
  <2> QED BY <2>1, <2>2, <2>3, Renamed
<1> QED BY <1>1, <1>2, <1>3 DEF MailboxAction

-----------------------------------------------------------------------------
(* What a step leaves of the invariant for sessions it is not about.       *)

LEMMA StyleStays ==
  ASSUME style' = style
  PROVE  /\ \A name : Above(name)' = Above(name)
         /\ \A tree, name : Below(tree, name)' = Below(tree, name)
         /\ \A tree, command : Admits(tree, command)' = Admits(tree, command)
<1>1. \A name : Above(name)' = Above(name)
  BY DEF Above
<1>2. \A tree, name : Below(tree, name)' = Below(tree, name)
  BY <1>1 DEF Below
<1>3. \A tree, name : HasPlace(tree, name)' = HasPlace(tree, name)
  BY <1>1 DEF HasPlace, Exists
<1>4. \A tree, command : Admits(tree, command)' = Admits(tree, command)
  BY <1>1, <1>2, <1>3 DEF Admits, Exists
<1> QED BY <1>1, <1>2, <1>4

LEMMA ReasonStays ==
  ASSUME style' = style, NEW s \in McpSessions, action'[s] = action[s], before'[s] = before[s],
         removed[s] \subseteq removed'[s], added[s] \subseteq added'[s], HasReason(s)
  PROVE  HasReason(s)'
<1>1. /\ \A name : Above(name)' = Above(name)
      /\ \A tree, command : Admits(tree, command)' = Admits(tree, command)
  BY StyleStays
<1> QED BY <1>1 DEF HasReason, RenamedToItself, Wanted, Extend, Exists

\* A change of the tree, and how it is booked for all but the session own.
TreeStep(own) ==
  /\ style' = style
  /\ TreeAfter(mailboxes, mailboxes')
  /\ removed' \in [McpSessions -> SUBSET Names] /\ added' \in [McpSessions -> SUBSET Names]
  /\ \A s \in McpSessions \ own :
       /\ removed[s] \subseteq removed'[s] /\ added[s] \subseteq added'[s]
       /\ DOMAIN mailboxes \ DOMAIN mailboxes' \subseteq removed'[s]
       /\ DOMAIN mailboxes' \ DOMAIN mailboxes \subseteq added'[s]

Untouched(s) ==
  /\ action'[s] = action[s] /\ pc'[s] = pc[s] /\ parents'[s] = parents[s]
  /\ status'[s] = status[s] /\ excused'[s] = excused[s] /\ before'[s] = before[s]

LEMMA TreeIsGood ==
  ASSUME Inv
  PROVE  style \in Style /\ GoodTree(mailboxes)
BY DEF Inv, TypeOK, GoodTree

LEMMA Unchanging ==
  ASSUME Inv, style' = style, mailboxes' = mailboxes, others' = others, NEW own
  PROVE  TreeStep(own)
<1>1. TreeAfter(mailboxes, mailboxes)
  BY TreeIsGood DEF TreeAfter
<1>2. {removed, added} \subseteq [McpSessions -> SUBSET Names]
  BY DEF Inv, TypeOK
<1> QED BY <1>1, <1>2 DEF TreeStep

LEMMA Becoming ==
  ASSUME Inv, style' = style, NEW command \in MailboxAction, Admits(mailboxes, command), NEW own,
         Become(CarryOut(mailboxes, command), own)
  PROVE  /\ TreeStep(own)
         /\ mailboxes' = CarryOut(mailboxes, command)
         /\ \A s \in own \cap McpSessions : removed'[s] = removed[s] /\ added'[s] = added[s]
<1>1. /\ {removed, added} \subseteq [McpSessions -> SUBSET Names]
      /\ DOMAIN mailboxes \subseteq Names
  BY DEF Inv, TypeOK
<1>2. /\ mailboxes' = CarryOut(mailboxes, command)
      /\ removed' = [s \in McpSessions |->
           IF s \in own THEN removed[s] ELSE removed[s] \cup (DOMAIN mailboxes \ DOMAIN mailboxes')]
      /\ added' = [s \in McpSessions |->
           IF s \in own THEN added[s] ELSE added[s] \cup (DOMAIN mailboxes' \ DOMAIN mailboxes)]
  BY DEF Become
<1>3. TreeAfter(mailboxes, mailboxes')
  BY <1>2, TreeIsGood, CarriedOut
<1>4. DOMAIN mailboxes' \subseteq Names
  BY <1>3 DEF TreeAfter, GoodTree
<1> QED BY <1>1, <1>2, <1>3, <1>4 DEF TreeStep

\* A name that was there or whose removal was another's stays that.
LEMMA ThereOrRemoved ==
  ASSUME NEW own, TreeStep(own), NEW s \in McpSessions \ own, NEW n \in DOMAIN mailboxes \cup removed[s]
  PROVE  n \in DOMAIN mailboxes' \cup removed'[s]
BY DEF TreeStep

LEMMA AccountStays ==
  ASSUME NEW own, TreeStep(own), NEW s \in McpSessions \ own, Untouched(s), Accounted(s)
  PROVE  Accounted(s)'
<1>1. /\ \A n \in DOMAIN before[s] \ removed[s] :
           n \in DOMAIN mailboxes /\ mailboxes[n] = before[s][n]
      /\ DOMAIN mailboxes \subseteq DOMAIN before[s] \cup added[s] \cup Above(Wanted(action[s]))
  BY DEF Accounted, Exists
<1>2. /\ \A n \in DOMAIN before[s] \ removed'[s] :
           n \in DOMAIN mailboxes' /\ mailboxes'[n] = before[s][n]
      /\ DOMAIN mailboxes' \subseteq DOMAIN before[s] \cup added'[s] \cup Above(Wanted(action[s]))
  BY <1>1 DEF TreeStep, TreeAfter
<1>3. \A name : Above(name)' = Above(name)
  BY StyleStays DEF TreeStep
<1> QED BY <1>2, <1>3 DEF Accounted, Exists, Untouched, Wanted

LEMMA ParentsStay ==
  ASSUME NEW own, TreeStep(own), NEW s \in McpSessions \ own, Untouched(s), ParentsMade(s)
  PROVE  ParentsMade(s)'
<1>1. /\ style' = style /\ \A name : Above(name)' = Above(name)
  BY StyleStays DEF TreeStep
<1>2. \A n \in DOMAIN mailboxes \cup removed[s] : n \in DOMAIN mailboxes' \cup removed'[s]
  BY ThereOrRemoved
<1>3. Wanted(action[s])' = Wanted(action[s])
  BY DEF Untouched, Wanted
<1>4. ASSUME NEW k, ParentsUpTo(s, k)
      PROVE  ParentsUpTo(s, k)'
  BY <1>1, <1>2, <1>3, <1>4 DEF ParentsUpTo, Untouched
<1> QED BY <1>1, <1>2, <1>3, <1>4 DEF ParentsMade, Untouched

LEMMA DoneStays ==
  ASSUME NEW own, TreeStep(own), NEW s \in McpSessions \ own, Untouched(s), Done(s)
  PROVE  Done(s)'
<1> DEFINE a == action[s]
<1>1. \A name : Above(name)' = Above(name)
  BY StyleStays DEF TreeStep
<1>2. \A n \in DOMAIN mailboxes \cup removed[s] : n \in DOMAIN mailboxes' \cup removed'[s]
  BY ThereOrRemoved
<1>3. /\ \A n \in DOMAIN mailboxes' : n \in DOMAIN mailboxes \/ n \in added'[s]
      /\ \A n \in DOMAIN mailboxes \cap DOMAIN mailboxes' : mailboxes'[n] = mailboxes[n]
      /\ removed[s] \subseteq removed'[s] /\ added[s] \subseteq added'[s]
  BY DEF TreeStep, TreeAfter
<1>4. SUFFICES ASSUME status[s] = "ok"
               PROVE  Done(s)'
  BY DEF Done, Untouched
<1>5. pc'[s] = "idle"
  BY <1>4 DEF Done, Untouched
<1>6. Wanted(a)' = Wanted(a) /\ a' = a
  BY DEF Untouched, Wanted
<1>7. a.verb # "delete" =>
        {Wanted(a)} \cup Above(Wanted(a)) \subseteq DOMAIN mailboxes' \cup removed'[s]
  BY <1>2, <1>4 DEF Done
<1>8. a.verb # "create" => a.mailbox \notin DOMAIN mailboxes' \/ a.mailbox \in added'[s]
  BY <1>3, <1>4 DEF Done, Exists
<1>9. a.verb = "rename" =>
        \/ a.mailbox \in removed'[s] \cup added'[s]
        \/ Wanted(a) \in removed'[s]
        \/ mailboxes'[Wanted(a)] = before[s][a.mailbox]
  <2> SUFFICES ASSUME a.verb = "rename", Wanted(a) \notin removed'[s],
                      a.mailbox \notin removed'[s] \cup added'[s]
               PROVE  mailboxes'[Wanted(a)] = before[s][a.mailbox]
    OBVIOUS
  <2>1. Wanted(a) \in DOMAIN mailboxes' /\ Wanted(a) \in DOMAIN mailboxes
    BY <1>3, <1>4, <1>7 DEF Done
  <2>2. mailboxes[Wanted(a)] = before[s][a.mailbox]
    BY <1>3, <1>4 DEF Done
  <2> QED BY <1>3, <2>1, <2>2
<1> QED BY <1>1, <1>5, <1>6, <1>7, <1>8, <1>9 DEF Done, Exists, Untouched

LEMMA Bystander ==
  ASSUME Inv, NEW own, TreeStep(own), NEW s \in McpSessions \ own, Untouched(s)
  PROVE  /\ SessionOK(s)'
         /\ status'[s] \in {"failed", "rejected"} /\ ~excused'[s] => HasReason(s)'
<1>1. SessionOK(s) /\ (status[s] \in {"failed", "rejected"} /\ ~excused[s] => HasReason(s))
  BY DEF Inv, FailsForAReason
<1>2. Course(s)'
  BY <1>1 DEF SessionOK, Course, Untouched, RenamedToItself
<1>3. HasReason(s) => HasReason(s)'
  BY ReasonStays DEF TreeStep, Untouched
<1> QED
  BY <1>1, <1>2, <1>3, AccountStays, ParentsStay, DoneStays DEF SessionOK, Untouched

-----------------------------------------------------------------------------
(* Steps of a session.                                                     *)

LEMMA Typed ==
  ASSUME Inv
  PROVE  /\ late \subseteq MailboxAction
         /\ action \in [McpSessions -> MailboxAction] /\ pc \in [McpSessions -> ProgramCounter]
         /\ parents \in [McpSessions -> Seq(Names)] /\ status \in [McpSessions -> Status]
         /\ faults \in 0..MaxFaults /\ asked \in 0..MaxActions
         /\ excused \in [McpSessions -> BOOLEAN]
         /\ removed \in [McpSessions -> SUBSET Names] /\ added \in [McpSessions -> SUBSET Names]
         /\ before = [s \in McpSessions |-> before[s]]
         /\ \A s \in McpSessions : DOMAIN before[s] \subseteq Names
BY DEF Inv, TypeOK, SequencesOK

\* The parts of the invariant that a step has to restore.
LEMMA Assembled ==
  ASSUME Inv, NEW own, TreeStep(own),
         late' \subseteq MailboxAction,
         action' \in [McpSessions -> MailboxAction], pc' \in [McpSessions -> ProgramCounter],
         parents' \in [McpSessions -> Seq(Names)], status' \in [McpSessions -> Status],
         faults' \in 0..MaxFaults, asked' \in 0..MaxActions,
         excused' \in [McpSessions -> BOOLEAN],
         before' = [s \in McpSessions |-> before'[s]],
         \A s \in McpSessions : DOMAIN before'[s] \subseteq Names,
         \A s \in McpSessions \ own : Untouched(s),
         \A s \in McpSessions \cap own :
           /\ SessionOK(s)'
           /\ status'[s] \in {"failed", "rejected"} /\ ~excused'[s] => HasReason(s)'
  PROVE  Inv'
<1>1. \A name : Above(name)' = Above(name)
  BY StyleStays DEF TreeStep
<1>2. Closed(mailboxes)'
  BY <1>1 DEF TreeStep, TreeAfter, GoodTree, Closed
<1>3. \A s \in McpSessions : \A i \in DOMAIN parents'[s] : parents'[s][i] \in Names
  <2>1. \A s \in McpSessions : parents'[s] \in Seq(Names)
    OBVIOUS
  <2> QED BY <2>1, ElementOfSeq, LenProperties
<1>4. TypeOK'
  <2>1. /\ DOMAIN mailboxes' \subseteq Names /\ style' \in Style
        /\ \A n \in DOMAIN mailboxes' : mailboxes'[n] \in Content
        /\ {removed', added'} \subseteq [McpSessions -> SUBSET Names]
    BY DEF TreeStep, TreeAfter, GoodTree, Inv, TypeOK
  <2> QED BY <1>3, <2>1 DEF TypeOK, Content
<1>5. SequencesOK'
  BY DEF SequencesOK
<1>6. \A s \in McpSessions :
        /\ SessionOK(s)'
        /\ status'[s] \in {"failed", "rejected"} /\ ~excused'[s] => HasReason(s)'
  BY Bystander
<1> QED BY <1>2, <1>4, <1>5, <1>6 DEF Inv, FailsForAReason

LEMMA ManageMailboxStep ==
  ASSUME Inv, NEW s \in McpSessions, NEW request \in MailboxAction, manage_mailbox(s, request)
  PROVE  Inv'
<1>1. /\ style' = style /\ mailboxes' = mailboxes /\ late' = late /\ parents' = parents
      /\ faults' = faults /\ asked' = asked + 1 /\ asked < MaxActions
      /\ action' = [action EXCEPT ![s] = request]
      /\ pc' = [pc EXCEPT ![s] = "preflight_connect"]
      /\ status' = [status EXCEPT ![s] = "none"] /\ excused' = [excused EXCEPT ![s] = FALSE]
      /\ removed' = [removed EXCEPT ![s] = {}] /\ added' = [added EXCEPT ![s] = {}]
      /\ before' = [before EXCEPT ![s] = mailboxes]
  BY DEF manage_mailbox, Goto
<1>2. DOMAIN mailboxes \subseteq Names
  BY DEF Inv, TypeOK
<1>3. TreeStep({s})
  <2>1. TreeAfter(mailboxes, mailboxes)
    BY TreeIsGood DEF TreeAfter
  <2>2. removed' \in [McpSessions -> SUBSET Names] /\ added' \in [McpSessions -> SUBSET Names]
    BY <1>1, Typed
  <2>3. \A t \in McpSessions \ {s} : removed'[t] = removed[t] /\ added'[t] = added[t]
    BY <1>1, Typed
  <2> QED BY <1>1, <2>1, <2>2, <2>3 DEF TreeStep
<1>4. \A t \in McpSessions \ {s} : Untouched(t)
  BY <1>1, Typed DEF Untouched
<1>5. /\ pc'[s] = "preflight_connect" /\ status'[s] = "none" /\ before'[s] = mailboxes
      /\ removed'[s] = {} /\ added'[s] = {}
  BY <1>1, Typed
<1>6. SessionOK(s)'
  BY <1>1, <1>5 DEF SessionOK, Accounted, Course, ParentsMade, Done, Exists
<1>7. status'[s] \notin {"failed", "rejected"}
  BY <1>5
<1>8. /\ action' \in [McpSessions -> MailboxAction] /\ pc' \in [McpSessions -> ProgramCounter]
      /\ status' \in [McpSessions -> Status] /\ excused' \in [McpSessions -> BOOLEAN]
      /\ asked' \in 0..MaxActions
  BY <1>1, Typed, NumberAssumption DEF ProgramCounter, Status
<1>9. /\ before' = [t \in McpSessions |-> before'[t]]
      /\ \A t \in McpSessions : DOMAIN before'[t] \subseteq Names
  BY <1>1, <1>2, Typed
<1>10. /\ late' \subseteq MailboxAction /\ parents' \in [McpSessions -> Seq(Names)]
       /\ faults' \in 0..MaxFaults
  BY <1>1, Typed
<1>11. \A t \in McpSessions \cap {s} :
         /\ SessionOK(t)'
         /\ status'[t] \in {"failed", "rejected"} /\ ~excused'[t] => HasReason(t)'
  BY <1>6, <1>7
<1> QED BY <1>3, <1>4, <1>8, <1>9, <1>10, <1>11, Assembled

\* A step of s within its action.
OwnStep(s) ==
  /\ TreeStep({s})
  /\ removed'[s] = removed[s] /\ added'[s] = added[s]
  /\ late' \subseteq MailboxAction /\ faults' \in 0..MaxFaults
  /\ action' = action /\ asked' = asked /\ before' = before
  /\ pc' \in [McpSessions -> ProgramCounter] /\ status' \in [McpSessions -> Status]
  /\ parents' \in [McpSessions -> Seq(Names)] /\ excused' \in [McpSessions -> BOOLEAN]
  /\ \A t \in McpSessions \ {s} :
       /\ pc'[t] = pc[t] /\ status'[t] = status[t] /\ parents'[t] = parents[t]
       /\ excused'[t] = excused[t]

LEMMA OwnStepKeeps ==
  ASSUME Inv, NEW s \in McpSessions, OwnStep(s), SessionOK(s)',
         status'[s] \in {"failed", "rejected"} /\ ~excused'[s] => HasReason(s)'
  PROVE  Inv'
<1>1. /\ TreeStep({s}) /\ late' \subseteq MailboxAction /\ faults' \in 0..MaxFaults
      /\ pc' \in [McpSessions -> ProgramCounter] /\ status' \in [McpSessions -> Status]
      /\ parents' \in [McpSessions -> Seq(Names)] /\ excused' \in [McpSessions -> BOOLEAN]
  BY DEF OwnStep
<1>2. /\ action' \in [McpSessions -> MailboxAction] /\ asked' \in 0..MaxActions
      /\ before' = [t \in McpSessions |-> before'[t]]
      /\ \A t \in McpSessions : DOMAIN before'[t] \subseteq Names
  BY Typed DEF OwnStep
<1>3. \A t \in McpSessions \ {s} : Untouched(t)
  BY DEF OwnStep, Untouched
<1>4. \A t \in McpSessions \cap {s} :
        /\ SessionOK(t)'
        /\ status'[t] \in {"failed", "rejected"} /\ ~excused'[t] => HasReason(t)'
  OBVIOUS
<1> QED BY <1>1, <1>2, <1>3, <1>4, Assembled

\* It gives up its action: for a fault, or for a reason.
LEMMA GivesUp ==
  ASSUME Inv, NEW s \in McpSessions, OwnStep(s), pc'[s] = "idle",
         status'[s] \in {"rejected", "canceled", "failed"},
         status'[s] = "canceled" \/ excused'[s] \/ HasReason(s)
  PROVE  Inv'
<1>1. SessionOK(s)'
  BY DEF SessionOK, Course, ParentsMade, Done
<1>2. HasReason(s) => HasReason(s)'
  BY ReasonStays DEF OwnStep, TreeStep
<1>3. status'[s] \in {"failed", "rejected"} /\ ~excused'[s] => HasReason(s)'
  BY <1>2
<1> QED BY <1>1, <1>3, OwnStepKeeps

\* It goes on with it.
LEMMA GoesOn ==
  ASSUME Inv, NEW s \in McpSessions, OwnStep(s), pc[s] # "idle", status'[s] = status[s],
         Accounted(s)', Course(s)', ParentsMade(s)'
  PROVE  Inv'
<1>1. status'[s] = "none"
  BY DEF Inv, SessionOK
<1>2. SessionOK(s)'
  BY <1>1 DEF SessionOK, Done
<1>3. status'[s] \notin {"failed", "rejected"}
  BY <1>1
<1> QED BY <1>2, <1>3, OwnStepKeeps

\* It has done what was asked for.
LEMMA Succeeds ==
  ASSUME Inv, NEW s \in McpSessions, OwnStep(s), pc'[s] = "idle", status'[s] = "ok", Done(s)'
  PROVE  Inv'
<1>1. SessionOK(s)'
  BY DEF SessionOK, Course, ParentsMade
<1> QED BY <1>1, OwnStepKeeps

LEMMA FaultMeans ==
  ASSUME Inv, NEW s \in McpSessions, (faults' = faults /\ excused' = excused) \/ Fault(s)
  PROVE  /\ faults' \in 0..MaxFaults /\ excused' \in [McpSessions -> BOOLEAN]
         /\ \A t \in McpSessions \ {s} : excused'[t] = excused[t]
         /\ Fault(s) => excused'[s]
<1>1. faults \in 0..MaxFaults /\ excused \in [McpSessions -> BOOLEAN] /\ MaxFaults \in Nat
  BY Typed, NumberAssumption
<1>2. CASE faults' = faults /\ excused' = excused
  BY <1>1, <1>2 DEF Fault
<1>3. CASE Fault(s)
  <2>1. faults < MaxFaults /\ faults' = faults + 1 /\ excused' = [excused EXCEPT ![s] = TRUE]
    BY <1>3 DEF Fault
  <2>2. faults' \in 0..MaxFaults
    BY <1>1, <2>1
  <2>3. excused' \in [McpSessions -> BOOLEAN]
    BY <1>1, <2>1
  <2>4. excused'[s]
    BY <1>1, <2>1
  <2>5. \A t \in McpSessions \ {s} : excused'[t] = excused[t]
    BY <1>1, <2>1
  <2> QED BY <2>2, <2>3, <2>4, <2>5
<1> QED BY <1>2, <1>3

\* What a step changes of its session.
Local(s) ==
  /\ style' = style /\ action' = action /\ asked' = asked /\ before' = before
  /\ pc' \in [McpSessions -> ProgramCounter] /\ status' \in [McpSessions -> Status]
  /\ parents' \in [McpSessions -> Seq(Names)]
  /\ \A t \in McpSessions \ {s} :
       pc'[t] = pc[t] /\ status'[t] = status[t] /\ parents'[t] = parents[t]

LEMMA QuietStep ==
  ASSUME Inv, NEW s \in McpSessions, Local(s), mailboxes' = mailboxes, others' = others,
         late' \subseteq MailboxAction,
         (faults' = faults /\ excused' = excused) \/ Fault(s)
  PROVE  OwnStep(s)
<1>1. TreeStep({s})
  BY Unchanging DEF Local
<1> QED BY <1>1, FaultMeans DEF OwnStep, Local

\* Where the tree stays as it is, so does what an action has done to it.
LEMMA QuietAccount ==
  ASSUME Inv, NEW s \in McpSessions, Local(s), mailboxes' = mailboxes, others' = others, pc[s] # "idle"
  PROVE  Accounted(s)'
<1>1. Accounted(s)
  BY DEF Inv, SessionOK
<1>2. \A name : Above(name)' = Above(name)
  BY StyleStays DEF Local
<1> QED BY <1>1, <1>2 DEF Accounted, Exists, Local, Wanted

LEMMA LocalAnswer ==
  ASSUME Inv, NEW s \in McpSessions, NEW answer \in Status, Answer(s, answer),
         style' = style /\ action' = action /\ asked' = asked /\ before' = before,
         parents' = parents \/ parents' = [parents EXCEPT ![s] = <<>>]
  PROVE  Local(s) /\ pc'[s] = "idle" /\ status'[s] = answer
<1>1. /\ pc' = [pc EXCEPT ![s] = "idle"] /\ status' = [status EXCEPT ![s] = answer]
      /\ "idle" \in ProgramCounter
  BY DEF Answer, Goto, ProgramCounter
<1>2. parents \in [McpSessions -> Seq(Names)] /\ <<>> \in Seq(Names)
  BY Typed, EmptySeq
<1>3. /\ parents' \in [McpSessions -> Seq(Names)]
      /\ \A t \in McpSessions \ {s} : parents'[t] = parents[t]
  BY <1>2
<1> QED BY <1>1, <1>3, Typed DEF Local

LEMMA LocalMove ==
  ASSUME Inv, NEW s \in McpSessions, NEW label \in ProgramCounter, Goto(s, label), status' = status,
         style' = style /\ action' = action /\ asked' = asked /\ before' = before,
         \/ parents' = parents
         \/ \E rest \in Seq(Names) : parents' = [parents EXCEPT ![s] = rest]
  PROVE  Local(s) /\ pc'[s] = label /\ status'[s] = status[s]
BY Typed DEF Goto, Local

\* A session that gives up without having touched anything.
LEMMA QuietEnd ==
  ASSUME Inv, NEW s \in McpSessions, NEW answer \in {"rejected", "canceled", "failed"}, Answer(s, answer),
         style' = style /\ action' = action /\ asked' = asked /\ before' = before,
         parents' = parents \/ parents' = [parents EXCEPT ![s] = <<>>],
         mailboxes' = mailboxes /\ others' = others /\ late' \subseteq MailboxAction,
         (faults' = faults /\ excused' = excused) \/ Fault(s),
         answer = "canceled" \/ Fault(s) \/ HasReason(s)
  PROVE  Inv'
<1>1. Local(s) /\ pc'[s] = "idle" /\ status'[s] = answer
  BY LocalAnswer DEF Status
<1>2. OwnStep(s)
  BY <1>1, QuietStep
<1>3. status'[s] = "canceled" \/ excused'[s] \/ HasReason(s)
  BY <1>1, FaultMeans
<1> QED BY <1>1, <1>2, <1>3, GivesUp

\* One that goes on without having touched anything.
LEMMA QuietMove ==
  ASSUME Inv, NEW s \in McpSessions, NEW label \in ProgramCounter \ {"idle"}, pc[s] # "idle",
         Goto(s, label), status' = status,
         style' = style /\ action' = action /\ asked' = asked /\ before' = before,
         \/ parents' = parents
         \/ \E rest \in Seq(Names) : parents' = [parents EXCEPT ![s] = rest],
         mailboxes' = mailboxes /\ others' = others /\ late' \subseteq MailboxAction,
         faults' = faults /\ excused' = excused,
         Course(s)', ParentsMade(s)'
  PROVE  Inv'
<1>1. Local(s) /\ pc'[s] = label /\ status'[s] = status[s]
  BY LocalMove
<1>2. OwnStep(s) /\ Accounted(s)'
  BY <1>1, QuietStep, QuietAccount
<1> QED BY <1>1, <1>2, GoesOn

LEMMA PreflightConnectStep ==
  ASSUME Inv, NEW s \in McpSessions, preflight_connect(s)
  PROVE  Inv'
<1>1. /\ pc[s] = "preflight_connect"
      /\ style' = style /\ action' = action /\ asked' = asked /\ before' = before
      /\ parents' = parents /\ mailboxes' = mailboxes /\ others' = others /\ late' = late
  BY DEF preflight_connect, Ask
<1>2. late' \subseteq MailboxAction
  BY <1>1, Typed
<1>3. CASE Fault(s) /\ Answer(s, "rejected")
  BY <1>1, <1>2, <1>3, QuietEnd
<1>4. CASE faults' = faults /\ excused' = excused /\ RenamedToItself(action[s]) /\ Answer(s, "rejected")
  <2>1. HasReason(s)
    BY <1>4 DEF HasReason
  <2> QED BY <1>1, <1>2, <1>4, <2>1, QuietEnd
<1>5. CASE /\ faults' = faults /\ excused' = excused /\ ~RenamedToItself(action[s]) /\ status' = status
           /\ Goto(s, IF action[s].verb = "create" THEN "connect" ELSE "examine")
  <2> DEFINE label == IF action[s].verb = "create" THEN "connect" ELSE "examine"
  <2>1. label \in ProgramCounter \ {"idle"} /\ Goto(s, label)
    BY <1>5 DEF ProgramCounter
  <2>2. pc'[s] = label
    BY <2>1, Typed DEF Goto
  <2>3. Course(s)' /\ ParentsMade(s)'
    BY <1>1, <1>5, <2>2 DEF Course, ParentsMade, RenamedToItself
  <2> HIDE DEF label
  <2> QED BY <1>1, <1>2, <1>5, <2>1, <2>3, QuietMove
<1> QED BY <1>3, <1>4, <1>5 DEF preflight_connect, Ask

LEMMA ExamineStep ==
  ASSUME Inv, NEW s \in McpSessions, examine(s)
  PROVE  Inv'
<1>1. /\ pc[s] = "examine"
      /\ style' = style /\ action' = action /\ asked' = asked /\ before' = before
      /\ parents' = parents /\ mailboxes' = mailboxes /\ others' = others /\ late' = late
  BY DEF examine, Ask
<1>2. late' \subseteq MailboxAction
  BY <1>1, Typed
<1>3. Accounted(s) /\ Course(s)
  BY <1>1 DEF Inv, SessionOK
<1>4. CASE Fault(s) /\ Answer(s, "rejected")
  BY <1>1, <1>2, <1>4, QuietEnd
<1>5. CASE /\ faults' = faults /\ excused' = excused /\ Answer(s, "rejected")
           /\ ~Exists(mailboxes, action[s].mailbox)
  <2>1. HasReason(s)
    BY <1>1, <1>3, <1>5 DEF HasReason, Accounted, Course, Exists
  <2> QED BY <1>1, <1>2, <1>5, <2>1, QuietEnd
<1>6. CASE faults' = faults /\ excused' = excused /\ Goto(s, "connect") /\ status' = status
  <2>1. pc'[s] = "connect" /\ "connect" \in ProgramCounter \ {"idle"}
    BY <1>6, Typed DEF Goto, ProgramCounter
  <2>2. Course(s)' /\ ParentsMade(s)'
    BY <1>1, <1>3, <2>1 DEF Course, ParentsMade
  <2> QED BY <1>1, <1>2, <1>6, <2>1, <2>2, QuietMove
<1> QED BY <1>4, <1>5, <1>6 DEF examine, Ask

LEMMA CanceledStep ==
  ASSUME Inv, NEW s \in McpSessions, canceled_mailbox_result(s)
  PROVE  Inv'
<1>1. late' \subseteq MailboxAction
  BY Typed DEF canceled_mailbox_result, Unharmed
<1> QED BY <1>1, QuietEnd DEF canceled_mailbox_result, Unharmed

LEMMA ConnectStep ==
  ASSUME Inv, NEW s \in McpSessions, connect(s)
  PROVE  Inv'
<1>1. /\ pc[s] = "connect"
      /\ style' = style /\ action' = action /\ asked' = asked /\ before' = before
      /\ parents' = parents /\ mailboxes' = mailboxes /\ others' = others /\ late' = late
  BY DEF connect, Ask
<1>2. late' \subseteq MailboxAction
  BY <1>1, Typed
<1>3. CASE Fault(s) /\ Answer(s, "failed")
  BY <1>1, <1>2, <1>3, QuietEnd
<1>4. CASE /\ faults' = faults /\ excused' = excused /\ status' = status
           /\ Goto(s, IF action[s].verb = "delete" THEN "delete" ELSE "hierarchy_delimiter")
  <2> DEFINE label == IF action[s].verb = "delete" THEN "delete" ELSE "hierarchy_delimiter"
  <2>1. label \in ProgramCounter \ {"idle"} /\ Goto(s, label)
    BY <1>4 DEF ProgramCounter
  <2>2. pc'[s] = label
    BY <2>1, Typed DEF Goto
  <2>3. Course(s)
    BY DEF Inv, SessionOK
  <2>4. Course(s)' /\ ParentsMade(s)'
    BY <1>1, <2>2, <2>3 DEF Course, ParentsMade
  <2> HIDE DEF label
  <2> QED BY <1>1, <1>2, <1>4, <2>1, <2>4, QuietMove
<1> QED BY <1>3, <1>4 DEF connect, Ask

\* The parents of a path from the (k + 1)-th on.
Path(name, k) == [i \in 1..(Len(name) - 1 - k) |-> SubSeq(name, 1, k + i)]

LEMMA PathMeans ==
  ASSUME NEW name \in Names, NEW k \in 0..(Len(name) - 1)
  PROVE  /\ Path(name, k) \in Seq(Names)
         /\ Path(name, k) = <<>> <=> k = Len(name) - 1
         /\ k # Len(name) - 1 =>
              /\ Head(Path(name, k)) = SubSeq(name, 1, k + 1)
              /\ SubSeq(name, 1, k + 1) \in ParentsOf(name)
              /\ Tail(Path(name, k)) = Path(name, k + 1)
<1> DEFINE path == Path(name, k)
           len == Len(name) - 1 - k
<1>1. Len(name) \in Nat \ {0} /\ k \in Nat /\ len \in Nat /\ ParentsOf(name) \subseteq Names
  BY NamesAreSequences
<1>2. \A i \in 1..len : k + i \in 1..(Len(name) - 1)
  BY <1>1
<1>3. \A i \in 1..len : SubSeq(name, 1, k + i) \in ParentsOf(name)
  BY <1>2 DEF ParentsOf
<1>4. path \in [1..len -> Names] /\ \A i \in 1..len : path[i] = SubSeq(name, 1, k + i)
  BY <1>1, <1>3 DEF Path
<1> HIDE DEF path
<1>5. path \in Seq(Names) /\ Len(path) = len /\ DOMAIN path = 1..len
  <2>1. path \in Seq(Names)
    BY <1>1, <1>4
  <2> QED BY <1>1, <1>4, <2>1, LenProperties
<1>6. path = <<>> <=> k = Len(name) - 1
  <2>1. path = <<>> <=> Len(path) = 0
    BY <1>5, EmptySeq
  <2> QED BY <1>1, <1>5, <2>1
<1>7. ASSUME k # Len(name) - 1
      PROVE  /\ Head(path) = SubSeq(name, 1, k + 1)
             /\ SubSeq(name, 1, k + 1) \in ParentsOf(name)
             /\ Tail(path) = Path(name, k + 1)
  <2>1. path # <<>> /\ 1 \in 1..len
    BY <1>1, <1>6, <1>7
  <2>2. Head(path) = path[1] /\ Tail(path) = [i \in 1..(Len(path) - 1) |-> path[i + 1]]
    <3>1. Tail(path) \in Seq(Names) /\ Len(Tail(path)) = Len(path) - 1
          /\ \A i \in 1..Len(Tail(path)) : Tail(path)[i] = path[i + 1]
      BY <1>5, <2>1, HeadTailProperties
    <3>2. DOMAIN Tail(path) = 1..(Len(path) - 1) /\ Tail(path) = [i \in DOMAIN Tail(path) |-> Tail(path)[i]]
      BY <3>1, LenProperties
    <3> QED BY <1>5, <2>1, <3>1, <3>2, HeadTailProperties
  <2>3. Path(name, k + 1) = [i \in 1..(len - 1) |-> SubSeq(name, 1, k + 1 + i)]
    <3>1. Len(name) - 1 - (k + 1) = len - 1
      BY <1>1
    <3> QED BY <3>1 DEF Path
  <2>4. \A i \in 1..(len - 1) : path[i + 1] = SubSeq(name, 1, k + 1 + i)
    <3> TAKE i \in 1..(len - 1)
    <3>1. i + 1 \in 1..len /\ k + (i + 1) = k + 1 + i
      BY <1>1
    <3> QED BY <1>4, <3>1
  <2>5. Tail(path) = Path(name, k + 1)
    BY <1>5, <2>2, <2>3, <2>4
  <2> QED BY <1>3, <1>4, <2>1, <2>2, <2>5
<1> QED BY <1>5, <1>6, <1>7 DEF path

LEMMA WantedIsName ==
  ASSUME Inv, NEW s \in McpSessions, Course(s)
  PROVE  /\ Wanted(action[s]) \in Names /\ action[s] \in MailboxAction /\ action[s].mailbox \in Names
         /\ style \in Style
BY Typed, TreeIsGood DEF Wanted, MailboxAction

LEMMA HierarchyDelimiterStep ==
  ASSUME Inv, NEW s \in McpSessions, hierarchy_delimiter(s)
  PROVE  Inv'
<1> DEFINE name == Wanted(action[s])
           paths == IF style = "flat" THEN <<>> ELSE build_mailbox_parent_paths(name)
<1>1. /\ pc[s] = "hierarchy_delimiter"
      /\ style' = style /\ action' = action /\ asked' = asked /\ before' = before
      /\ mailboxes' = mailboxes /\ others' = others /\ late' = late
  BY DEF hierarchy_delimiter, Ask
<1>2. late' \subseteq MailboxAction
  BY <1>1, Typed
<1>3. Course(s) /\ name \in Names
  BY WantedIsName DEF Inv, SessionOK
<1>4. CASE Fault(s) /\ Answer(s, "failed") /\ parents' = parents
  BY <1>1, <1>2, <1>4, QuietEnd
<1>5. CASE /\ faults' = faults /\ excused' = excused /\ status' = status
           /\ Goto(s, "create_parent") /\ parents' = [parents EXCEPT ![s] = paths]
  <2>1. Len(name) \in Nat \ {0}
    BY <1>3, NamesAreSequences
  <2>2. PICK k \in 0..(Len(name) - 1) : k = IF style = "flat" THEN Len(name) - 1 ELSE 0
    BY <2>1
  <2>3. paths = Path(name, k)
    <3>1. CASE style = "flat"
      BY <1>3, <2>2, <3>1, PathMeans
    <3>2. CASE style # "flat"
      <4>1. Path(name, 0) = [i \in 1..(Len(name) - 1 - 0) |-> SubSeq(name, 1, 0 + i)]
        BY DEF Path
      <4>2. Len(name) - 1 - 0 = Len(name) - 1 /\ \A i \in 1..(Len(name) - 1) : 0 + i = i
        BY <2>1
      <4>3. build_mailbox_parent_paths(name) = [i \in 1..(Len(name) - 1) |-> SubSeq(name, 1, i)]
        BY DEF build_mailbox_parent_paths
      <4>4. build_mailbox_parent_paths(name) = Path(name, 0)
        BY <4>1, <4>2, <4>3
      <4> QED BY <2>2, <3>2, <4>4
    <3> QED BY <3>1, <3>2
  <2>4. paths \in Seq(Names)
    BY <1>3, <2>2, <2>3, PathMeans
  <2>5. /\ pc'[s] = "create_parent" /\ "create_parent" \in ProgramCounter \ {"idle"}
        /\ parents'[s] = paths
    BY <1>5, Typed DEF Goto, ProgramCounter
  <2>6. Course(s)'
    BY <1>1, <1>3, <2>5 DEF Course, RenamedToItself
  <2>7. \A n \in Above(name) : ~(Len(n) <= k)
    <3>1. \A n \in Above(name) : style # "flat" /\ Len(n) \in 1..(Len(name) - 1)
      BY <1>3, ParentsOfParents DEF Above
    <3> QED BY <2>1, <2>2, <3>1
  <2>8. ParentsUpTo(s, k)'
    <3>1. Wanted(action[s])' = name /\ \A n : Above(n)' = Above(n)
      BY <1>1, StyleStays DEF Wanted
    <3>2. /\ parents'[s] = [i \in 1..(Len(name) - 1 - k) |-> SubSeq(name, 1, k + i)]
          /\ style' = "flat" => parents'[s] = <<>>
      BY <1>1, <2>3, <2>5 DEF Path
    <3> HIDE DEF name, paths
    <3> QED BY <2>7, <3>1, <3>2 DEF ParentsUpTo
  <2>9. ParentsMade(s)'
    <3>1. Wanted(action[s])' = name
      BY <1>1 DEF Wanted
    <3> HIDE DEF name, paths
    <3> QED BY <2>2, <2>5, <2>8, <3>1 DEF ParentsMade
  <2>10. \E rest \in Seq(Names) : parents' = [parents EXCEPT ![s] = rest]
    BY <1>5, <2>4
  <2> HIDE DEF paths
  <2> QED BY <1>1, <1>2, <1>5, <2>5, <2>6, <2>9, <2>10, QuietMove
<1> QED BY <1>4, <1>5 DEF hierarchy_delimiter, Ask

-----------------------------------------------------------------------------
(* Steps that send a command.                                              *)

\* What a command to the server comes to: an OwnStep that changes the tree, or
\* leaves it as it is, with or without a fault.
LEMMA SentMeans ==
  ASSUME Inv, NEW s \in McpSessions, NEW command \in MailboxAction, Local(s)
  PROVE  /\ /\ Admits(mailboxes, command)
            /\ Become(CarryOut(mailboxes, command), {s})
            /\ late' = late /\ faults' = faults /\ excused' = excused
            => OwnStep(s) /\ mailboxes' = CarryOut(mailboxes, command)
         /\ Unharmed => OwnStep(s)
         /\ Fault(s) /\ mailboxes' = mailboxes /\ others' = others /\ late' = late
            => OwnStep(s) /\ excused'[s]
         /\ Fault(s) /\ mailboxes' = mailboxes /\ others' = others /\ late' = late \cup {command}
            => OwnStep(s) /\ excused'[s]
<1>1. late \subseteq MailboxAction
  BY Typed
<1>2. ASSUME Admits(mailboxes, command), Become(CarryOut(mailboxes, command), {s}),
             late' = late, faults' = faults, excused' = excused
      PROVE  OwnStep(s) /\ mailboxes' = CarryOut(mailboxes, command)
  <2>1. style' = style
    BY DEF Local
  <2>2. /\ TreeStep({s}) /\ mailboxes' = CarryOut(mailboxes, command)
        /\ removed'[s] = removed[s] /\ added'[s] = added[s]
    BY <1>2, <2>1, Becoming
  <2>3. faults' \in 0..MaxFaults /\ excused' \in [McpSessions -> BOOLEAN]
    BY <1>2, Typed
  <2> QED BY <1>1, <1>2, <2>2, <2>3 DEF OwnStep, Local
<1>3. Unharmed => OwnStep(s)
  BY <1>1, QuietStep DEF Unharmed
<1>4. Fault(s) /\ mailboxes' = mailboxes /\ others' = others /\ late' = late
      => OwnStep(s) /\ excused'[s]
  BY <1>1, QuietStep, FaultMeans
<1>5. Fault(s) /\ mailboxes' = mailboxes /\ others' = others /\ late' = late \cup {command}
      => OwnStep(s) /\ excused'[s]
  BY <1>1, QuietStep, FaultMeans
<1> QED BY <1>2, <1>3, <1>4, <1>5

\* A session that gives up for a fault.
LEMMA FaultyEnd ==
  ASSUME Inv, NEW s \in McpSessions, NEW command \in MailboxAction, Answer(s, "failed"),
         style' = style /\ action' = action /\ asked' = asked /\ before' = before,
         parents' = parents \/ parents' = [parents EXCEPT ![s] = <<>>],
         Fault(s), mailboxes' = mailboxes /\ others' = others,
         late' = late \/ late' = late \cup {command}
  PROVE  Inv'
<1>1. late' \subseteq MailboxAction
  BY Typed
<1> QED BY <1>1, QuietEnd

\* The tree holds what a creation is for.
LEMMA CreateMeans ==
  ASSUME NEW name, Admits(mailboxes, [verb |-> "create", mailbox |-> name])
  PROVE  LET after == CarryOut(mailboxes, [verb |-> "create", mailbox |-> name]) IN
         /\ DOMAIN after = DOMAIN mailboxes \cup ({name} \cup Above(name))
         /\ \A n \in DOMAIN mailboxes : after[n] = mailboxes[n]
<1> DEFINE command == [verb |-> "create", mailbox |-> name]
<1>1. command.verb = "create" /\ command.mailbox = name
  OBVIOUS
<1> HIDE DEF command
<1> DEFINE names == {name} \cup Above(name)
<1>2. CarryOut(mailboxes, command) = Extend(mailboxes, names)
  BY <1>1 DEF CarryOut
<1> HIDE DEF names
<1>3. /\ DOMAIN CarryOut(mailboxes, command) = DOMAIN mailboxes \cup names
      /\ \A n \in DOMAIN mailboxes : CarryOut(mailboxes, command)[n] = mailboxes[n]
  <2>1. /\ DOMAIN Extend(mailboxes, names) = DOMAIN mailboxes \cup names
        /\ \A n \in DOMAIN mailboxes : Extend(mailboxes, names)[n] = mailboxes[n]
    BY ExtendMeans
  <2> QED BY <1>2, <2>1
<1> QED BY <1>3 DEF command, names

LEMMA CreateRefused ==
  ASSUME NEW name, ~Admits(mailboxes, [verb |-> "create", mailbox |-> name]), name \notin DOMAIN mailboxes
  PROVE  \E n \in Above(name) : n \notin DOMAIN mailboxes
<1> DEFINE command == [verb |-> "create", mailbox |-> name]
<1>1. command.verb = "create" /\ command.mailbox = name
  OBVIOUS
<1> HIDE DEF command
<1>2. ~Admits(mailboxes, command)
  BY DEF command
<1> QED BY <1>1, <1>2 DEF Admits, HasPlace, Exists

\* The parent a session comes to next.
LEMMA NextParent ==
  ASSUME Inv, NEW s \in McpSessions, pc[s] = "create_parent", parents[s] # <<>>
  PROVE  LET name == Wanted(action[s])
             p    == Head(parents[s])
         IN \E k \in 0..(Len(name) - 2) :
              /\ ParentsUpTo(s, k)
              /\ p \in Names /\ p \in Above(name) /\ Len(p) = k + 1
              /\ Tail(parents[s]) = Path(name, k + 1) /\ Path(name, k + 1) \in Seq(Names)
              /\ style # "flat"
<1> DEFINE name == Wanted(action[s])
           p    == Head(parents[s])
<1>1. ParentsMade(s) /\ Course(s)
  BY DEF Inv, SessionOK
<1>2. name \in Names
  BY <1>1, WantedIsName
<1>3. PICK k \in 0..(Len(name) - 1) : ParentsUpTo(s, k)
  BY <1>1 DEF ParentsMade
<1>4. parents[s] = Path(name, k) /\ style # "flat"
  BY <1>3 DEF ParentsUpTo, Path
<1>5. Len(name) \in Nat \ {0} /\ ParentsOf(name) \subseteq Names
  BY <1>2, NamesAreSequences
<1> HIDE DEF name
<1>6. /\ k # Len(name) - 1
      /\ p = SubSeq(name, 1, k + 1) /\ p \in ParentsOf(name)
      /\ Tail(parents[s]) = Path(name, k + 1)
  BY <1>2, <1>4, PathMeans
<1>7. k \in 0..(Len(name) - 2) /\ k + 1 \in 0..(Len(name) - 1) /\ k + 1 \in 0..Len(name)
  BY <1>5, <1>6
<1>8. Path(name, k + 1) \in Seq(Names) /\ Len(p) = k + 1
  BY <1>2, <1>6, <1>7, PathMeans, Prefix
<1>9. p \in Above(name) /\ p \in Names
  BY <1>4, <1>5, <1>6 DEF Above
<1> QED BY <1>3, <1>4, <1>6, <1>7, <1>8, <1>9 DEF name

\* Once it is there, the next is its turn.
LEMMA ParentThere ==
  ASSUME Inv, NEW s \in McpSessions, pc[s] = "create_parent", parents[s] # <<>>,
         OwnStep(s), pc' = pc, status' = status,
         parents' = [parents EXCEPT ![s] = Tail(parents[s])],
         Head(parents[s]) \in DOMAIN mailboxes',
         DOMAIN mailboxes \subseteq DOMAIN mailboxes',
         \A n \in DOMAIN mailboxes' :
           n \in DOMAIN mailboxes \/ n = Head(parents[s]) \/ n \in Above(Head(parents[s]))
  PROVE  Inv'
<1> DEFINE name == Wanted(action[s])
           p    == Head(parents[s])
<1>1. /\ Course(s) /\ Accounted(s) /\ name \in Names /\ style \in Style
  BY WantedIsName DEF Inv, SessionOK
<1>2. PICK k \in 0..(Len(name) - 2) :
        /\ ParentsUpTo(s, k)
        /\ p \in Names /\ p \in Above(name) /\ Len(p) = k + 1
        /\ Tail(parents[s]) = Path(name, k + 1)
        /\ style # "flat"
  BY NextParent
<1>3. /\ style' = style /\ action' = action /\ before' = before
      /\ removed'[s] = removed[s] /\ added'[s] = added[s]
      /\ \A n \in DOMAIN mailboxes : n \in DOMAIN mailboxes' => mailboxes'[n] = mailboxes[n]
  BY DEF OwnStep, TreeStep, TreeAfter
<1>4. /\ name' = name /\ \A n : Above(n)' = Above(n)
  BY <1>3, StyleStays DEF Wanted
<1>5. Above(name) \subseteq ParentsOf(name) /\ Above(p) \subseteq Above(name)
  BY <1>1, <1>2, AboveMeans
<1>6. Accounted(s)'
  <2>1. /\ \A n \in DOMAIN before[s] \ removed[s] :
             n \in DOMAIN mailboxes' /\ mailboxes'[n] = before[s][n]
        /\ DOMAIN mailboxes' \subseteq DOMAIN before[s] \cup added[s] \cup Above(name)
    BY <1>1, <1>2, <1>3, <1>5 DEF Accounted, Exists
  <2> HIDE DEF name
  <2>2. Wanted(action[s])' = name
    BY <1>4 DEF name
  <2> QED BY <1>3, <1>4, <2>1, <2>2 DEF Accounted, Exists
<1>7. Course(s)'
  BY <1>1, <1>3 DEF Course, RenamedToItself
<1>8. ParentsMade(s)'
  <2>1. Len(name) \in Nat \ {0} /\ k + 1 \in 0..(Len(name) - 1)
    BY <1>1, NamesAreSequences
  <2>2. parents'[s] = Path(name, k + 1)
    BY <1>2, Typed
  <2>3. ASSUME NEW n \in Above(name), Len(n) <= k + 1
        PROVE  n \in DOMAIN mailboxes' \cup removed[s]
    <3>1. n \in ParentsOf(name) /\ p \in ParentsOf(name) /\ Len(n) \in Nat
      BY <1>1, <1>2, <1>5, ParentsOfParents
    <3>2. CASE Len(n) <= k
      BY <1>2, <3>2 DEF ParentsUpTo
    <3>3. CASE Len(n) = k + 1
      <4>1. n = p
        BY <1>1, <1>2, <3>1, <3>3, ParentsOfParents
      <4> QED BY <4>1
    <3> QED BY <2>1, <2>3, <3>1, <3>2, <3>3
  <2> HIDE DEF name
  <2>4. Wanted(action[s])' = name
    BY <1>4 DEF name
  <2>5. ParentsUpTo(s, k + 1)'
    BY <1>2, <1>3, <1>4, <2>2, <2>3, <2>4 DEF ParentsUpTo, Path
  <2> QED BY <2>1, <2>4, <2>5 DEF ParentsMade
<1> QED BY <1>6, <1>7, <1>8, GoesOn

LEMMA CreateParentStep ==
  ASSUME Inv, NEW s \in McpSessions, create_parent_mailboxes(s)
  PROVE  Inv'
<1> DEFINE name    == Wanted(action[s])
           p       == Head(parents[s])
           command == [verb |-> "create", mailbox |-> p]
<1>1. /\ pc[s] = "create_parent"
      /\ style' = style /\ action' = action /\ asked' = asked /\ before' = before
  BY DEF create_parent_mailboxes
<1>2. /\ Course(s) /\ ParentsMade(s) /\ name \in Names /\ action[s] \in MailboxAction
  BY WantedIsName DEF Inv, SessionOK
<1>3. CASE parents[s] = <<>>
  <2>1. Goto(s, action[s].verb) /\ Unharmed /\ parents' = parents /\ status' = status
    BY <1>3 DEF create_parent_mailboxes
  <2>2. action[s].verb \in {"create", "rename"}
    BY <1>1, <1>2 DEF Course, MailboxAction
  <2>3. action[s].verb \in ProgramCounter \ {"idle"} /\ pc'[s] = action[s].verb
    BY <2>1, <2>2, Typed DEF ProgramCounter, Goto
  <2>4. Course(s)'
    BY <1>1, <1>2, <2>2, <2>3 DEF Course, RenamedToItself
  <2>5. Above(name) \subseteq DOMAIN mailboxes \cup removed[s]
    <3>1. PICK k \in 0..(Len(name) - 1) : ParentsUpTo(s, k)
      BY <1>1, <1>2 DEF ParentsMade
    <3>2. parents[s] = Path(name, k)
      BY <3>1 DEF ParentsUpTo, Path
    <3> HIDE DEF name
    <3>3. k = Len(name) - 1
      BY <1>2, <1>3, <3>2, PathMeans
    <3>4. \A n \in Above(name) : Len(n) \in 1..(Len(name) - 1)
      BY <1>2, ParentsOfParents DEF Above
    <3>5. \A n \in Above(name) : Len(n) <= k
      BY <3>3, <3>4
    <3> QED BY <3>1, <3>5 DEF ParentsUpTo, name
  <2>6. ParentsMade(s)'
    <3>1. name' = name /\ \A n : Above(n)' = Above(n)
      BY <1>1, StyleStays DEF Wanted
    <3>2. mailboxes' = mailboxes /\ removed' = removed
      BY <2>1 DEF Unharmed
    <3>3. pc'[s] # "create_parent"
      BY <2>2, <2>3
    <3> QED BY <2>5, <3>1, <3>2, <3>3 DEF ParentsMade
  <2>7. mailboxes' = mailboxes /\ others' = others /\ late' \subseteq MailboxAction
        /\ faults' = faults /\ excused' = excused
    BY <2>1, Typed DEF Unharmed
  <2> QED BY <1>1, <2>1, <2>3, <2>4, <2>6, <2>7, QuietMove
<1>4. CASE parents[s] # <<>>
  <2> DEFINE Ok  == parents' = [parents EXCEPT ![s] = Tail(parents[s])] /\ pc' = pc /\ status' = status
             Err == parents' = [parents EXCEPT ![s] = <<>>] /\ Answer(s, "failed")
  <2>1. PICK k \in 0..(Len(name) - 2) :
          /\ ParentsUpTo(s, k)
          /\ p \in Names /\ p \in Above(name) /\ Len(p) = k + 1
          /\ Tail(parents[s]) = Path(name, k + 1) /\ Path(name, k + 1) \in Seq(Names)
          /\ style # "flat"
    BY <1>1, <1>4, NextParent
  <2>2. command \in MailboxAction
    BY <2>1 DEF MailboxAction
  <2>3. ASSUME Ok PROVE Local(s)
    BY <1>1, <2>1, <2>3, Typed DEF Local
  <2>4. \/ /\ Admits(mailboxes, command)
           /\ Become(CarryOut(mailboxes, command), {s})
           /\ late' = late /\ faults' = faults /\ excused' = excused
           /\ Ok
        \/ ~Admits(mailboxes, command) /\ Unharmed /\ p \in DOMAIN mailboxes /\ Ok
        \/ ~Admits(mailboxes, command) /\ Unharmed /\ p \notin DOMAIN mailboxes /\ Err
        \/ /\ Fault(s) /\ mailboxes' = mailboxes /\ others' = others
           /\ late' = late \/ late' = late \cup {command}
           /\ Err
    BY <1>4 DEF create_parent_mailboxes, create_mailbox_if_missing, Send, Exists
  <2>5. CASE /\ Admits(mailboxes, command)
             /\ Become(CarryOut(mailboxes, command), {s})
             /\ late' = late /\ faults' = faults /\ excused' = excused
             /\ Ok
    <3>1. OwnStep(s) /\ mailboxes' = CarryOut(mailboxes, command)
      BY <2>2, <2>3, <2>5, SentMeans
    <3>2. DOMAIN mailboxes' = DOMAIN mailboxes \cup ({p} \cup Above(p))
      BY <2>5, <3>1, CreateMeans
    <3> QED BY <1>1, <1>4, <2>5, <3>1, <3>2, ParentThere
  <2>6. CASE ~Admits(mailboxes, command) /\ Unharmed /\ p \in DOMAIN mailboxes /\ Ok
    <3>1. OwnStep(s) /\ mailboxes' = mailboxes
      BY <2>2, <2>3, <2>6, SentMeans DEF Unharmed
    <3> QED BY <1>1, <1>4, <2>6, <3>1, ParentThere
  <2>7. CASE ~Admits(mailboxes, command) /\ Unharmed /\ p \notin DOMAIN mailboxes /\ Err
    <3>1. PICK n \in Above(p) : n \notin DOMAIN mailboxes
      BY <2>7, CreateRefused
    <3>2. n \in Above(name) /\ n \in ParentsOf(p) /\ style \in Style
      BY <1>2, <2>1, <3>1, AboveMeans, TreeIsGood
    <3>3. Len(n) \in 1..(Len(p) - 1)
      BY <2>1, <3>2, ParentsOfParents
    <3>4. Len(n) <= k
      BY <2>1, <3>3
    <3>5. n \in removed[s]
      BY <2>1, <3>1, <3>2, <3>4 DEF ParentsUpTo
    <3>6. HasReason(s)
      BY <3>2, <3>5 DEF HasReason
    <3>7. mailboxes' = mailboxes /\ others' = others /\ late' \subseteq MailboxAction
          /\ faults' = faults /\ excused' = excused
      BY <2>7, Typed DEF Unharmed
    <3> QED BY <1>1, <2>7, <3>6, <3>7, QuietEnd
  <2>8. CASE /\ Fault(s) /\ mailboxes' = mailboxes /\ others' = others
             /\ late' = late \/ late' = late \cup {command}
             /\ Err
    <3> HIDE DEF command
    <3> QED BY <1>1, <2>2, <2>8, FaultyEnd
  <2> QED BY <2>4, <2>5, <2>6, <2>7, <2>8
<1> QED BY <1>3, <1>4

LEMMA CreateStep ==
  ASSUME Inv, NEW s \in McpSessions, create_mailbox_path(s)
  PROVE  Inv'
<1> DEFINE a       == action[s]
           name    == a.mailbox
           command == [verb |-> "create", mailbox |-> name]
<1>1. /\ pc[s] = "create"
      /\ style' = style /\ action' = action /\ asked' = asked /\ before' = before
      /\ parents' = parents
  BY DEF create_mailbox_path
<1>2. /\ Course(s) /\ ParentsMade(s) /\ name \in Names /\ a \in MailboxAction
  BY WantedIsName DEF Inv, SessionOK
<1>3. a.verb = "create" /\ Wanted(a) = name /\ command \in MailboxAction
  BY <1>1, <1>2 DEF Course, Wanted, MailboxAction
<1>4. \/ /\ Admits(mailboxes, command)
         /\ Become(CarryOut(mailboxes, command), {s})
         /\ late' = late /\ faults' = faults /\ excused' = excused
         /\ Answer(s, "ok")
      \/ ~Admits(mailboxes, command) /\ Unharmed /\ name \in DOMAIN mailboxes /\ Answer(s, "ok")
      \/ ~Admits(mailboxes, command) /\ Unharmed /\ name \notin DOMAIN mailboxes /\ Answer(s, "failed")
      \/ /\ Fault(s) /\ mailboxes' = mailboxes /\ others' = others
         /\ late' = late \/ late' = late \cup {command}
         /\ Answer(s, "failed")
  BY DEF create_mailbox_path, create_mailbox_if_missing, Send, Exists
<1>5. ASSUME Answer(s, "ok")
      PROVE  Local(s) /\ pc'[s] = "idle" /\ status'[s] = "ok"
  BY <1>1, <1>5, LocalAnswer DEF Status
<1>6. Closed(mailboxes)
  BY DEF Inv
<1>7. /\ a' = a /\ \A n : Above(n)' = Above(n)
  BY <1>1, StyleStays
<1>8. ASSUME Answer(s, "ok"), name \in DOMAIN mailboxes', Above(name) \subseteq DOMAIN mailboxes'
      PROVE  Done(s)'
  BY <1>3, <1>5, <1>7, <1>8 DEF Done, Wanted
<1>9. CASE /\ Admits(mailboxes, command)
           /\ Become(CarryOut(mailboxes, command), {s})
           /\ late' = late /\ faults' = faults /\ excused' = excused
           /\ Answer(s, "ok")
  <2>1. OwnStep(s) /\ mailboxes' = CarryOut(mailboxes, command)
    BY <1>3, <1>5, <1>9, SentMeans
  <2>2. DOMAIN mailboxes' = DOMAIN mailboxes \cup ({name} \cup Above(name))
    BY <1>9, <2>1, CreateMeans
  <2> QED BY <1>5, <1>8, <1>9, <2>1, <2>2, Succeeds
<1>10. CASE ~Admits(mailboxes, command) /\ Unharmed /\ name \in DOMAIN mailboxes /\ Answer(s, "ok")
  <2>1. OwnStep(s) /\ mailboxes' = mailboxes
    BY <1>3, <1>5, <1>10, SentMeans DEF Unharmed
  <2>2. Above(name) \subseteq DOMAIN mailboxes
    BY <1>6, <1>10 DEF Closed
  <2> QED BY <1>5, <1>8, <1>10, <2>1, <2>2, Succeeds
<1>11. CASE ~Admits(mailboxes, command) /\ Unharmed /\ name \notin DOMAIN mailboxes /\ Answer(s, "failed")
  <2>1. PICK n \in Above(name) : n \notin DOMAIN mailboxes
    BY <1>11, CreateRefused
  <2>2. n \in removed[s]
    BY <1>1, <1>2, <1>3, <2>1 DEF ParentsMade
  <2>3. HasReason(s)
    BY <1>3, <2>1, <2>2 DEF HasReason
  <2>4. mailboxes' = mailboxes /\ others' = others /\ late' \subseteq MailboxAction
        /\ faults' = faults /\ excused' = excused
    BY <1>11, Typed DEF Unharmed
  <2> QED BY <1>1, <1>11, <2>3, <2>4, QuietEnd
<1>12. CASE /\ Fault(s) /\ mailboxes' = mailboxes /\ others' = others
            /\ late' = late \/ late' = late \cup {command}
            /\ Answer(s, "failed")
  <2> HIDE DEF command
  <2> QED BY <1>1, <1>3, <1>12, FaultyEnd
<1> QED BY <1>4, <1>9, <1>10, <1>11, <1>12

\* A refusal the mailboxes admitted at first is somebody else's doing.
LEMMA RefusedForAReason ==
  ASSUME Inv, NEW s \in McpSessions, pc[s] \in {"rename", "delete"}, ~Admits(mailboxes, action[s])
  PROVE  HasReason(s)
<1> DEFINE a     == action[s]
           name  == a.mailbox
           above == Above(Wanted(a))
           begun == Extend(before[s], above)
<1>1. /\ Course(s) /\ ParentsMade(s) /\ Accounted(s) /\ a \in MailboxAction /\ name \in Names
      /\ style \in Style /\ Wanted(a) \in Names /\ DOMAIN mailboxes \subseteq Names
  BY WantedIsName DEF Inv, SessionOK, TypeOK
<1>2. a.verb = pc[s] /\ a.verb # "create"
  BY <1>1 DEF Course
<1>3. DOMAIN begun = DOMAIN before[s] \cup above
  BY ExtendMeans
<1> HIDE DEF begun
<1> SUFFICES ASSUME /\ above \cap removed[s] = {}
                    /\ name \in DOMAIN before[s] /\ Admits(begun, a)
                    /\ name \notin removed[s]
                    /\ \A n \in Names : name \in Above(n) => n \notin added[s]
                    /\ a.verb = "rename" => Wanted(a) \notin added[s]
             PROVE  Admits(mailboxes, a)
  BY <1>2 DEF HasReason, Exists, begun
<1>4. name \in DOMAIN mailboxes
  BY <1>1 DEF Accounted, Exists
<1>5. ASSUME NEW n \in Below(mailboxes, name)
      PROVE  n \in Below(begun, name)
  <2>1. n \in DOMAIN mailboxes /\ name \in Above(n) /\ n \in Names
    BY <1>1, <1>5 DEF Below
  <2>2. n \in DOMAIN before[s] \cup above
    BY <1>1, <2>1 DEF Accounted
  <2> QED BY <1>3, <2>1, <2>2 DEF Below
<1>6. CASE a.verb = "delete"
  <2>1. Below(begun, name) = {}
    BY <1>6 DEF Admits
  <2> QED BY <1>4, <1>5, <1>6, <2>1 DEF Admits, Exists
<1>7. CASE a.verb = "rename"
  <2> DEFINE to == a.destination_mailbox
  <2>1. to = Wanted(a)
    BY <1>7 DEF Wanted
  <2>2. /\ to \notin DOMAIN begun /\ name \notin Above(to)
        /\ \A n \in Below(begun, name) : NewName(name, to, n) \in Names
    BY <1>7 DEF Admits, HasPlace, Exists
  <2>3. to \notin DOMAIN mailboxes
    BY <1>1, <1>3, <1>7, <2>1, <2>2 DEF Accounted
  <2>4. Above(to) \subseteq DOMAIN mailboxes
    BY <1>1, <1>2, <1>7, <2>1 DEF ParentsMade
  <2>5. HasPlace(mailboxes, to)
    BY <2>3, <2>4 DEF HasPlace, Exists
  <2> QED BY <1>4, <1>5, <1>7, <2>2, <2>5 DEF Admits, Exists
<1> QED BY <1>1, <1>2, <1>6, <1>7

LEMMA RenameStep ==
  ASSUME Inv, NEW s \in McpSessions, rename_mailbox(s)
  PROVE  Inv'
<1> DEFINE a    == action[s]
           from == a.mailbox
           to   == a.destination_mailbox
<1>1. /\ pc[s] = "rename"
      /\ style' = style /\ action' = action /\ asked' = asked /\ before' = before
      /\ parents' = parents
  BY DEF rename_mailbox
<1>2. /\ Course(s) /\ Accounted(s) /\ from \in Names /\ a \in MailboxAction
  BY <1>1, WantedIsName DEF Inv, SessionOK
<1>3. a.verb = "rename" /\ Wanted(a) = to /\ to \in Names
  BY <1>1, <1>2 DEF Course, Wanted, MailboxAction
<1>4. \/ /\ Admits(mailboxes, a)
         /\ Become(CarryOut(mailboxes, a), {s})
         /\ late' = late /\ faults' = faults /\ excused' = excused
         /\ Answer(s, "ok")
      \/ ~Admits(mailboxes, a) /\ Unharmed /\ Answer(s, "failed")
      \/ /\ Fault(s) /\ mailboxes' = mailboxes /\ others' = others
         /\ late' = late \/ late' = late \cup {a}
         /\ Answer(s, "failed")
  BY DEF rename_mailbox, Send
<1>5. CASE /\ Admits(mailboxes, a)
           /\ Become(CarryOut(mailboxes, a), {s})
           /\ late' = late /\ faults' = faults /\ excused' = excused
           /\ Answer(s, "ok")
  <2>1. Local(s) /\ pc'[s] = "idle" /\ status'[s] = "ok"
    BY <1>1, <1>5, LocalAnswer DEF Status
  <2>2. OwnStep(s) /\ mailboxes' = CarryOut(mailboxes, a)
    BY <1>2, <1>5, <2>1, SentMeans
  <2>3. mailboxes' = MoveTree(mailboxes, from, to)
    BY <1>3, <2>2 DEF CarryOut
  <2>4. /\ from \in DOMAIN mailboxes /\ to \notin DOMAIN mailboxes /\ from \notin Above(to)
        /\ \A n \in Below(mailboxes, from) : NewName(from, to, n) \in Names
    BY <1>3, <1>5 DEF Admits, HasPlace, Exists
  <2>5. /\ {to} \cup Above(to) \subseteq DOMAIN mailboxes'
        /\ from \notin DOMAIN mailboxes' /\ mailboxes'[to] = mailboxes[from]
    BY <1>3, <2>3, <2>4, TreeIsGood, Renamed
  <2>6. from \in removed[s] \cup added[s] \/ mailboxes[from] = before[s][from]
    BY <1>2, <1>3, <2>4 DEF Accounted, Exists
  <2>7. /\ a' = a /\ \A n : Above(n)' = Above(n)
        /\ before'[s] = before[s] /\ removed'[s] = removed[s] /\ added'[s] = added[s]
    BY <1>1, <2>2, StyleStays DEF OwnStep
  <2>8. Done(s)'
    BY <1>3, <2>1, <2>5, <2>6, <2>7 DEF Done, Wanted, Exists
  <2> QED BY <2>1, <2>2, <2>8, Succeeds
<1>6. CASE ~Admits(mailboxes, a) /\ Unharmed /\ Answer(s, "failed")
  <2>1. HasReason(s)
    BY <1>1, <1>6, RefusedForAReason
  <2>2. mailboxes' = mailboxes /\ others' = others /\ late' \subseteq MailboxAction
        /\ faults' = faults /\ excused' = excused
    BY <1>6, Typed DEF Unharmed
  <2> QED BY <1>1, <1>6, <2>1, <2>2, QuietEnd
<1>7. CASE /\ Fault(s) /\ mailboxes' = mailboxes /\ others' = others
           /\ late' = late \/ late' = late \cup {a}
           /\ Answer(s, "failed")
  BY <1>1, <1>2, <1>7, FaultyEnd
<1> QED BY <1>4, <1>5, <1>6, <1>7

LEMMA DeleteStep ==
  ASSUME Inv, NEW s \in McpSessions, delete_mailbox(s)
  PROVE  Inv'
<1> DEFINE a    == action[s]
           name == a.mailbox
<1>1. /\ pc[s] = "delete"
      /\ style' = style /\ action' = action /\ asked' = asked /\ before' = before
      /\ parents' = parents
  BY DEF delete_mailbox
<1>2. /\ Course(s) /\ name \in Names /\ a \in MailboxAction
  BY WantedIsName DEF Inv, SessionOK
<1>3. a.verb = "delete"
  BY <1>1, <1>2 DEF Course
<1>4. \/ /\ Admits(mailboxes, a)
         /\ Become(CarryOut(mailboxes, a), {s})
         /\ late' = late /\ faults' = faults /\ excused' = excused
         /\ Answer(s, "ok")
      \/ ~Admits(mailboxes, a) /\ Unharmed /\ Answer(s, "failed")
      \/ /\ Fault(s) /\ mailboxes' = mailboxes /\ others' = others
         /\ late' = late \/ late' = late \cup {a}
         /\ Answer(s, "failed")
  BY DEF delete_mailbox, Send
<1>5. CASE /\ Admits(mailboxes, a)
           /\ Become(CarryOut(mailboxes, a), {s})
           /\ late' = late /\ faults' = faults /\ excused' = excused
           /\ Answer(s, "ok")
  <2>1. Local(s) /\ pc'[s] = "idle" /\ status'[s] = "ok"
    BY <1>1, <1>5, LocalAnswer DEF Status
  <2>2. OwnStep(s) /\ mailboxes' = CarryOut(mailboxes, a)
    BY <1>2, <1>5, <2>1, SentMeans
  <2>3. mailboxes' = [n \in DOMAIN mailboxes \ {name} |-> mailboxes[n]]
    BY <1>3, <2>2 DEF CarryOut
  <2>4. name \notin DOMAIN mailboxes' /\ a' = a
    BY <1>1, <2>3
  <2>5. Done(s)'
    BY <1>3, <2>1, <2>4 DEF Done, Exists
  <2> QED BY <2>1, <2>2, <2>5, Succeeds
<1>6. CASE ~Admits(mailboxes, a) /\ Unharmed /\ Answer(s, "failed")
  <2>1. HasReason(s)
    BY <1>1, <1>6, RefusedForAReason
  <2>2. mailboxes' = mailboxes /\ others' = others /\ late' \subseteq MailboxAction
        /\ faults' = faults /\ excused' = excused
    BY <1>6, Typed DEF Unharmed
  <2> QED BY <1>1, <1>6, <2>1, <2>2, QuietEnd
<1>7. CASE /\ Fault(s) /\ mailboxes' = mailboxes /\ others' = others
           /\ late' = late \/ late' = late \cup {a}
           /\ Answer(s, "failed")
  BY <1>1, <1>2, <1>7, FaultyEnd
<1> QED BY <1>4, <1>5, <1>6, <1>7

LEMMA LateStep ==
  ASSUME Inv, NEW command \in late, CarriedOutLate(command)
  PROVE  Inv'
<1>1. /\ late' = late \ {command} /\ Admits(mailboxes, command)
      /\ Become(CarryOut(mailboxes, command), {})
      /\ style' = style /\ action' = action /\ pc' = pc /\ parents' = parents /\ status' = status
      /\ faults' = faults /\ asked' = asked /\ excused' = excused /\ before' = before
  BY DEF CarriedOutLate
<1>2. command \in MailboxAction /\ late' \subseteq MailboxAction
  BY <1>1, Typed
<1>3. TreeStep({})
  BY <1>1, <1>2, Becoming
<1>4. \A s \in McpSessions \ {} : Untouched(s)
  BY <1>1 DEF Untouched
<1>5. /\ action' \in [McpSessions -> MailboxAction] /\ pc' \in [McpSessions -> ProgramCounter]
      /\ parents' \in [McpSessions -> Seq(Names)] /\ status' \in [McpSessions -> Status]
      /\ faults' \in 0..MaxFaults /\ asked' \in 0..MaxActions
      /\ excused' \in [McpSessions -> BOOLEAN]
      /\ before' = [s \in McpSessions |-> before'[s]]
      /\ \A s \in McpSessions : DOMAIN before'[s] \subseteq Names
  BY <1>1, Typed
<1> QED BY <1>2, <1>3, <1>4, <1>5, Assembled

-----------------------------------------------------------------------------
(* The theorems.                                                           *)

LEMMA InitInv == Init => Inv
<1> SUFFICES ASSUME Init PROVE Inv
  OBVIOUS
<1>1. /\ DOMAIN mailboxes = Existing /\ \A n \in Existing : mailboxes[n] = n
      /\ Existing \subseteq Names
  BY NamesAssumption DEF Init
<1>2. Closed(mailboxes)
  BY <1>1, NamesAssumption DEF Closed, Above
<1>3. action \in [McpSessions -> MailboxAction]
  BY <1>1 DEF Init, MailboxAction
<1>4. /\ parents \in [McpSessions -> Seq(Names)]
      /\ \A s \in McpSessions : \A i \in DOMAIN parents[s] : parents[s][i] \in Names
  <2>1. <<>> \in Seq(Names)
    BY EmptySeq
  <2> QED BY <2>1 DEF Init
<1>5. /\ before = [s \in McpSessions |-> before[s]]
      /\ \A s \in McpSessions : DOMAIN before[s] \subseteq Names
  BY <1>1 DEF Init
<1>6. /\ style \in Style /\ late \subseteq MailboxAction
      /\ pc \in [McpSessions -> ProgramCounter] /\ status \in [McpSessions -> Status]
      /\ faults \in 0..MaxFaults /\ asked \in 0..MaxActions
      /\ {removed, added} \subseteq [McpSessions -> SUBSET Names]
  BY NumberAssumption DEF Init, ProgramCounter, Status
<1>7. excused \in [McpSessions -> BOOLEAN]
  BY DEF Init
<1>8. \A n \in DOMAIN mailboxes : mailboxes[n] \in Content
  BY <1>1 DEF Content
<1>9. ASSUME NEW s \in McpSessions
      PROVE  pc[s] = "idle" /\ status[s] = "none"
  BY DEF Init
<1>10. \A s \in McpSessions : SessionOK(s)
  BY <1>9 DEF SessionOK, Course, ParentsMade, Done
<1>11. TypeOK
  BY <1>1, <1>3, <1>4, <1>5, <1>6, <1>7, <1>8 DEF TypeOK
<1>12. FailsForAReason
  BY <1>9 DEF FailsForAReason
<1> QED BY <1>2, <1>4, <1>5, <1>10, <1>11, <1>12 DEF Inv, SequencesOK

LEMMA Stuttering ==
  ASSUME Inv, UNCHANGED vars
  PROVE  Inv'
<1>1. /\ mailboxes' = mailboxes /\ style' = style /\ late' = late /\ action' = action /\ pc' = pc
      /\ parents' = parents /\ status' = status /\ faults' = faults /\ asked' = asked
      /\ excused' = excused /\ others' = others /\ before' = before
  OBVIOUS
<1>2. TreeStep({})
  BY <1>1, Unchanging
<1>3. \A s \in McpSessions \ {} : Untouched(s)
  BY <1>1 DEF Untouched
<1>4. /\ late' \subseteq MailboxAction
      /\ action' \in [McpSessions -> MailboxAction] /\ pc' \in [McpSessions -> ProgramCounter]
      /\ parents' \in [McpSessions -> Seq(Names)] /\ status' \in [McpSessions -> Status]
      /\ faults' \in 0..MaxFaults /\ asked' \in 0..MaxActions
      /\ excused' \in [McpSessions -> BOOLEAN]
      /\ before' = [s \in McpSessions |-> before'[s]]
      /\ \A s \in McpSessions : DOMAIN before'[s] \subseteq Names
  BY <1>1, Typed
<1> QED BY <1>2, <1>3, <1>4, Assembled

\* The inductive invariant: types, a tree where no mailbox is without its
\* parents, and for each session what became of the mailboxes since its action
\* was asked for.
THEOREM ActionsInvariant == Spec => []Inv
<1>1. Init => Inv
  BY InitInv
<1>2. Inv /\ [Next]_vars => Inv'
  <2> SUFFICES ASSUME Inv, [Next]_vars PROVE Inv'
    OBVIOUS
  <2>1. CASE UNCHANGED vars
    BY <2>1, Stuttering
  <2>2. ASSUME NEW command \in late, CarriedOutLate(command)
        PROVE  Inv'
    BY <2>2, LateStep
  <2>3. ASSUME NEW s \in McpSessions, Step(s)
        PROVE  Inv'
    <3>1. CASE \E request \in MailboxAction : manage_mailbox(s, request)
      BY <3>1, ManageMailboxStep
    <3>2. CASE preflight_connect(s)
      BY <3>2, PreflightConnectStep
    <3>3. CASE examine(s)
      BY <3>3, ExamineStep
    <3>4. CASE canceled_mailbox_result(s)
      BY <3>4, CanceledStep
    <3>5. CASE connect(s)
      BY <3>5, ConnectStep
    <3>6. CASE hierarchy_delimiter(s)
      BY <3>6, HierarchyDelimiterStep
    <3>7. CASE create_parent_mailboxes(s)
      BY <3>7, CreateParentStep
    <3>8. CASE create_mailbox_path(s)
      BY <3>8, CreateStep
    <3>9. CASE rename_mailbox(s)
      BY <3>9, RenameStep
    <3>10. CASE delete_mailbox(s)
      BY <3>10, DeleteStep
    <3> QED
      BY <2>3, <3>1, <3>2, <3>3, <3>4, <3>5, <3>6, <3>7, <3>8, <3>9, <3>10 DEF Step
  <2> QED BY <2>1, <2>2, <2>3 DEF Next
<1> QED BY <1>1, <1>2, PTL DEF Spec

\* Every variable keeps its type.
THEOREM TypeCorrect == Spec => []TypeOK
<1>1. Inv => TypeOK
  BY DEF Inv
<1> QED BY <1>1, ActionsInvariant, PTL

\* "ok" is what was asked for, but for what others did since (the answers of
\* execute_manage_mailbox_action).
THEOREM OkIsDone == Spec => []OkActionDone
<1>1. Inv => OkActionDone
  <2> SUFFICES ASSUME Inv, NEW s \in McpSessions, status[s] = "ok"
               PROVE  LET a == action[s] IN
                 /\ a.verb # "delete" => \A n \in ({Wanted(a)} \cup Above(Wanted(a))) \cap Own(s) :
                                           Exists(mailboxes, n)
                 /\ a.verb # "create" /\ a.mailbox \in Own(s) => ~Exists(mailboxes, a.mailbox)
                 /\ a.verb = "rename" /\ {a.mailbox, a.destination_mailbox} \subseteq Own(s) =>
                      mailboxes[a.destination_mailbox] = before[s][a.mailbox]
    BY DEF OkActionDone
  <2>1. Done(s)
    BY DEF Inv, SessionOK
  <2> QED BY <2>1 DEF Done, Own, Exists, Wanted
<1> QED BY <1>1, ActionsInvariant, PTL

\* An action fails for a fault, or because of what others did (the refusals that
\* create_mailbox_if_missing forgives, and those that it does not).
THEOREM FailuresExplained == Spec => []FailsForAReason
<1>1. Inv => FailsForAReason
  BY DEF Inv
<1> QED BY <1>1, ActionsInvariant, PTL

=============================================================================
