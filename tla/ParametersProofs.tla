-------------------------- MODULE ParametersProofs --------------------------
(***************************************************************************)
(* What holds of Parameters.tla for every set of names, of callbacks and   *)
(* of regular expressions, and every number of digits to a character: the  *)
(* trie keeps its shape through every order of inserts and removals, a     *)
(* pass and a search find what was put in, and the whole does what a plain *)
(* book of names does.                                                     *)
(***************************************************************************)
EXTENDS Parameters, DataLemmas

-----------------------------------------------------------------------------
(***************************************************************************)
(* The inductive invariant of a trie.                                      *)
(***************************************************************************)

\* Of the callbacks of one function only the first may be marked to be added
\* once.
Once(gets) == \A i, j \in DOMAIN gets :
                 i < j /\ gets[i].fn = gets[j].fn => ~gets[j].one
Values == {p \in ParameterValues : Once(p.gets)}

Nodes == [end   : Seq(Nat),
          chars : SUBSET Nat,
          key   : Names \cup {NoKey},
          value : Values \cup {NoValue}]

\* The digits a come first in b, which goes on.
Above(a, b) == IsPrefix(a, b) /\ Len(a) < Len(b)

Typed(t) == /\ DOMAIN t \in SUBSET Seq(Nat) /\ IsFiniteSet(DOMAIN t)
            /\ t \in [DOMAIN t -> Nodes]

Rooted(t) == <<>> \in DOMAIN t /\ t[<<>>].end = <<>> /\ t[<<>>].key = NoKey

\* A node's suffix begins at its place, an entry's key is what the suffix
\* ends in, and the whole characters match those of the keys.
Spelled(t) ==
  \A s \in DOMAIN t : /\ IsPrefix(s, t[s].end)
                      /\ t[s].key \in {NoKey, t[s].end}
                      /\ t[s].key # NoKey => t[s].value \in Values
                      /\ Matches(t[s])

\* A node on the way to another ends on the way to it, and the child it has
\* there is a node.
Laid(t) == \A s, r \in DOMAIN t :
              Above(s, r) => Above(t[s].end, r) /\ Slot(r, t[s].end) \in DOMAIN t

Trie(t) == Typed(t) /\ Rooted(t) /\ Spelled(t) /\ Laid(t) /\ NoIdleNode(t)

-----------------------------------------------------------------------------
(***************************************************************************)
(* Sequences of digits that begin with one another.                        *)
(***************************************************************************)

LEMMA PrefixMeaning ==
  \A a, b \in Seq(Nat) :
    IsPrefix(a, b) <=> Len(a) <= Len(b) /\ \A i \in 1 .. Len(a) : a[i] = b[i]
<1> SUFFICES ASSUME NEW a \in Seq(Nat), NEW b \in Seq(Nat), Len(a) <= Len(b)
             PROVE  IsPrefix(a, b) <=> \A i \in 1 .. Len(a) : a[i] = b[i]
  BY DEF IsPrefix
<1>1. Len(a) \in Nat /\ Len(b) \in Nat /\ DOMAIN a = 1 .. Len(a) /\ DOMAIN b = 1 .. Len(b)
  BY LenProperties
<1>2. \A i \in 1 .. Len(a) : a[i] \in Nat /\ b[i] \in Nat
  BY <1>1, ElementOfSeq
<1> DEFINE p == SubSeq(a, 1, Len(a))
           q == SubSeq(b, 1, Len(a))
<1>3. /\ p \in Seq(Nat) /\ Len(p) = Len(a) /\ \A i \in 1 .. Len(a) : p[i] = a[i]
      /\ q \in Seq(Nat) /\ Len(q) = Len(a) /\ \A i \in 1 .. Len(a) : q[i] = b[i]
  BY <1>1, <1>2, SubSeqProperties
<1> HIDE DEF p, q
<1>4. p = q <=> \A i \in 1 .. Len(a) : p[i] = q[i]
  BY <1>3, SeqEqual
<1> QED
  BY <1>3, <1>4 DEF IsPrefix, p, q

LEMMA PrefixSelf == \A a \in Seq(Nat) : IsPrefix(a, a) /\ IsPrefix(<<>>, a)
<1> SUFFICES ASSUME NEW a \in Seq(Nat) PROVE IsPrefix(a, a) /\ IsPrefix(<<>>, a)
  OBVIOUS
<1>1. <<>> \in Seq(Nat) /\ Len(<<>>) = 0 /\ Len(a) \in Nat
  BY EmptySeq, LenProperties
<1>2. Len(a) <= Len(a) /\ Len(<<>>) <= Len(a) /\ 1 .. Len(<<>>) = {}
  BY <1>1
<1> QED
  BY <1>1, <1>2, PrefixMeaning

LEMMA PrefixTrans ==
  \A a, b, c \in Seq(Nat) : IsPrefix(a, b) /\ IsPrefix(b, c) => IsPrefix(a, c)
<1> SUFFICES ASSUME NEW a \in Seq(Nat), NEW b \in Seq(Nat), NEW c \in Seq(Nat),
                    IsPrefix(a, b), IsPrefix(b, c)
             PROVE  IsPrefix(a, c)
  OBVIOUS
<1>1. Len(a) \in Nat /\ Len(b) \in Nat /\ Len(c) \in Nat
  BY LenProperties
<1> QED
  BY <1>1, PrefixMeaning

\* Of two that come first in a third the shorter comes first in the longer.
LEMMA PrefixBoth ==
  \A a, b, c \in Seq(Nat) :
    IsPrefix(a, c) /\ IsPrefix(b, c) /\ Len(a) <= Len(b) => IsPrefix(a, b)
<1> SUFFICES ASSUME NEW a \in Seq(Nat), NEW b \in Seq(Nat), NEW c \in Seq(Nat),
                    IsPrefix(a, c), IsPrefix(b, c), Len(a) <= Len(b)
             PROVE  IsPrefix(a, b)
  OBVIOUS
<1>1. Len(a) \in Nat /\ Len(b) \in Nat /\ Len(c) \in Nat
  BY LenProperties
<1> QED
  BY <1>1, PrefixMeaning

LEMMA PrefixEqual ==
  \A a, b \in Seq(Nat) :
    IsPrefix(a, b) => /\ Len(a) \in Nat /\ Len(b) \in Nat /\ Len(a) <= Len(b)
                      /\ Len(a) = Len(b) => a = b
<1> SUFFICES ASSUME NEW a \in Seq(Nat), NEW b \in Seq(Nat), IsPrefix(a, b)
             PROVE  /\ Len(a) \in Nat /\ Len(b) \in Nat /\ Len(a) <= Len(b)
                    /\ Len(a) = Len(b) => a = b
  OBVIOUS
<1>1. Len(a) \in Nat /\ Len(b) \in Nat
  BY LenProperties
<1> QED
  BY <1>1, PrefixMeaning, SeqEqual

\* The place of a child.
LEMMA SlotFacts ==
  \A key, end \in Seq(Nat) :
    Len(end) < Len(key) =>
      /\ Slot(key, end) \in Seq(Nat) /\ Len(Slot(key, end)) = Len(end) + 1
      /\ IsPrefix(Slot(key, end), key)
      /\ IsPrefix(end, key) => IsPrefix(end, Slot(key, end))
<1> SUFFICES ASSUME NEW key \in Seq(Nat), NEW end \in Seq(Nat), Len(end) < Len(key)
             PROVE  /\ Slot(key, end) \in Seq(Nat) /\ Len(Slot(key, end)) = Len(end) + 1
                    /\ IsPrefix(Slot(key, end), key)
                    /\ IsPrefix(end, key) => IsPrefix(end, Slot(key, end))
  OBVIOUS
<1>1. Len(key) \in Nat /\ Len(end) \in Nat /\ DOMAIN key = 1 .. Len(key)
  BY LenProperties
<1>2. \A i \in 1 .. Len(end) + 1 : key[i] \in Nat
  BY <1>1, ElementOfSeq
<1> DEFINE c == Slot(key, end)
<1>3. c \in Seq(Nat) /\ Len(c) = Len(end) + 1 /\ \A i \in 1 .. Len(end) + 1 : c[i] = key[i]
  BY <1>1, <1>2, SubSeqProperties DEF Slot
<1> HIDE DEF c
<1>4. IsPrefix(c, key)
  <2>1. Len(c) <= Len(key) /\ \A i \in 1 .. Len(c) : c[i] = key[i]
    BY <1>1, <1>3
  <2> QED
    BY <1>3, <2>1, PrefixMeaning
<1> QED
  BY <1>1, <1>3, <1>4, PrefixBoth DEF c

LEMMA SlotUnique ==
  \A c, key, end \in Seq(Nat) :
    IsPrefix(c, key) /\ Len(c) = Len(end) + 1 => c = Slot(key, end)
<1> SUFFICES ASSUME NEW c \in Seq(Nat), NEW key \in Seq(Nat), NEW end \in Seq(Nat),
                    IsPrefix(c, key), Len(c) = Len(end) + 1
             PROVE  c = Slot(key, end)
  OBVIOUS
<1>1. Len(key) \in Nat /\ Len(end) \in Nat /\ Len(c) <= Len(key)
  BY LenProperties, PrefixEqual
<1>2. /\ Slot(key, end) \in Seq(Nat) /\ Len(Slot(key, end)) = Len(end) + 1
      /\ IsPrefix(Slot(key, end), key)
  BY <1>1, SlotFacts
<1> QED
  BY <1>1, <1>2, PrefixBoth, PrefixEqual

\* A child is one digit longer than its parent's end.
LEMMA ChildFacts ==
  ASSUME NEW t, Typed(t), NEW s \in DOMAIN t, NEW c
  PROVE  c \in Children(t, s) <=> /\ c \in DOMAIN t /\ IsPrefix(t[s].end, c)
                                  /\ Len(c) = Len(t[s].end) + 1
<1> SUFFICES ASSUME c \in DOMAIN t
             PROVE  c # <<>> /\ Front(c) = t[s].end <=>
                      IsPrefix(t[s].end, c) /\ Len(c) = Len(t[s].end) + 1
  BY DEF Children
<1>1. c \in Seq(Nat) /\ t[s].end \in Seq(Nat)
  BY DEF Typed, Nodes
<1>2. Len(c) \in Nat /\ Len(t[s].end) \in Nat /\ (c = <<>> <=> Len(c) = 0)
  BY <1>1, LenProperties, EmptySeq
<1>3. c # <<>> => /\ Front(c) \in Seq(Nat) /\ Len(Front(c)) = Len(c) - 1
                  /\ \A i \in 1 .. Len(c) - 1 : Front(c)[i] = c[i]
  BY <1>1, PoppedList
<1>4. ASSUME c # <<>> PROVE IsPrefix(Front(c), c)
  <2>1. Len(Front(c)) <= Len(c) /\ \A i \in 1 .. Len(Front(c)) : Front(c)[i] = c[i]
    BY <1>2, <1>3, <1>4
  <2> QED
    BY <1>1, <1>3, <1>4, <2>1, PrefixMeaning
<1>5. ASSUME c # <<>>, Front(c) = t[s].end
      PROVE  IsPrefix(t[s].end, c) /\ Len(c) = Len(t[s].end) + 1
  BY <1>2, <1>3, <1>4, <1>5
<1>6. ASSUME IsPrefix(t[s].end, c), Len(c) = Len(t[s].end) + 1
      PROVE  c # <<>> /\ Front(c) = t[s].end
  <2>1. c # <<>>
    BY <1>2, <1>6
  <2>2. IsPrefix(Front(c), t[s].end) /\ Len(Front(c)) = Len(t[s].end)
    BY <1>1, <1>2, <1>3, <1>4, <1>6, <2>1, PrefixBoth
  <2> QED
    BY <1>1, <1>3, <2>1, <2>2, PrefixEqual
<1> QED
  BY <1>5, <1>6

-----------------------------------------------------------------------------
(***************************************************************************)
(* What the invariant says of the nodes.                                   *)
(***************************************************************************)

\* All of the invariant but that no node is idle, which the steps of an
\* insert and of a removal break and mend.
Frame(t) == Typed(t) /\ Rooted(t) /\ Spelled(t) /\ Laid(t)

LEMMA NodeFacts ==
  ASSUME NEW t, Typed(t), Spelled(t), NEW s \in DOMAIN t
  PROVE  /\ s \in Seq(Nat) /\ t[s] \in Nodes /\ t[s].end \in Seq(Nat)
         /\ Len(s) \in Nat /\ Len(t[s].end) \in Nat /\ Len(s) <= Len(t[s].end)
         /\ IsPrefix(s, t[s].end)
         /\ t[s].key \in {NoKey, t[s].end} /\ t[s].key \in Names \cup {NoKey}
         /\ t[s].key # NoKey => t[s].value \in Values
         /\ t[s].value \in Values \cup {NoValue}
         /\ t[s].chars \in SUBSET Nat /\ Matches(t[s])
<1>1. s \in Seq(Nat) /\ t[s] \in Nodes
  BY DEF Typed
<1>2. /\ t[s].end \in Seq(Nat) /\ t[s].chars \in SUBSET Nat
      /\ t[s].key \in Names \cup {NoKey} /\ t[s].value \in Values \cup {NoValue}
  BY <1>1 DEF Nodes
<1>3. /\ IsPrefix(s, t[s].end) /\ t[s].key \in {NoKey, t[s].end}
      /\ t[s].key # NoKey => t[s].value \in Values
      /\ Matches(t[s])
  BY DEF Spelled
<1> QED
  BY <1>1, <1>2, <1>3, PrefixEqual

\* No two nodes end at the same digits.
LEMMA EndsApart ==
  ASSUME NEW t, Frame(t), NEW s \in DOMAIN t, NEW r \in DOMAIN t, t[s].end = t[r].end
  PROVE  s = r
<1>1. /\ s \in Seq(Nat) /\ t[s].end \in Seq(Nat) /\ Len(s) \in Nat /\ Len(t[s].end) \in Nat
      /\ Len(s) <= Len(t[s].end) /\ IsPrefix(s, t[s].end)
  BY NodeFacts DEF Frame
<1>2. /\ r \in Seq(Nat) /\ Len(r) \in Nat
      /\ Len(r) <= Len(t[s].end) /\ IsPrefix(r, t[s].end)
  BY NodeFacts DEF Frame
<1>3. CASE Len(s) = Len(r)
  <2>1. IsPrefix(s, r)
    BY <1>1, <1>2, <1>3, PrefixBoth
  <2> QED
    BY <1>1, <1>2, <1>3, <2>1, PrefixEqual
<1>4. CASE Len(s) < Len(r)
  <2>1. Above(s, r)
    BY <1>1, <1>2, <1>4, PrefixBoth DEF Above
  <2>2. Above(t[s].end, r)
    BY <2>1 DEF Frame, Laid
  <2> QED
    BY <1>1, <1>2, <2>2 DEF Above
<1>5. CASE Len(r) < Len(s)
  <2>1. Above(r, s)
    BY <1>1, <1>2, <1>5, PrefixBoth DEF Above
  <2>2. Above(t[r].end, s)
    BY <2>1 DEF Frame, Laid
  <2> QED
    BY <1>1, <1>2, <2>2 DEF Above
<1> QED
  BY <1>1, <1>2, <1>3, <1>4, <1>5

\* A node is a child of one node only.
LEMMA OneParent ==
  ASSUME NEW t, Frame(t), NEW s \in DOMAIN t, NEW r \in DOMAIN t,
         NEW c \in Children(t, s), c \in Children(t, r)
  PROVE  s = r
BY EndsApart DEF Children

\* Of the nodes on the way to a key one is the deepest.
LEMMA DeepestFacts ==
  ASSUME NEW t, Frame(t), NEW key \in Seq(Nat)
  PROVE  /\ Deepest(t, key) \in DOMAIN t /\ IsPrefix(Deepest(t, key), key)
         /\ \A s \in DOMAIN t : IsPrefix(s, key) => Len(s) <= Len(Deepest(t, key))
<1> DEFINE L == {Len(s) : s \in OnTheWay(t, key)}
<1>1. \A s \in OnTheWay(t, key) : s \in DOMAIN t /\ Len(s) \in Nat /\ Len(s) <= Len(key)
  BY PrefixEqual DEF OnTheWay, Frame, Typed
<1>2. <<>> \in OnTheWay(t, key)
  BY PrefixSelf DEF OnTheWay, Frame, Rooted
<1>3. L \in SUBSET Nat /\ L # {} /\ \A n \in L : n <= Len(key)
  BY <1>1, <1>2
<1>4. Len(key) \in Nat
  BY LenProperties
<1> HIDE DEF L
<1>5. Max(L) \in L /\ \A n \in L : n <= Max(L)
  BY <1>3, <1>4, MaxFacts
<1>6. PICK s \in OnTheWay(t, key) : Max(L) = Len(s)
  BY <1>5 DEF L
<1>7. \A other \in OnTheWay(t, key) : Len(other) <= Len(s)
  BY <1>5, <1>6 DEF L
<1>8. /\ Deepest(t, key) \in OnTheWay(t, key)
      /\ \A other \in OnTheWay(t, key) : Len(other) <= Len(Deepest(t, key))
  BY <1>7 DEF Deepest
<1> QED
  BY <1>8 DEF OnTheWay

\* Every node below the root has a parent: the deepest of the nodes above it.
LEMMA ParentExists ==
  ASSUME NEW t, Frame(t), NEW s \in DOMAIN t, s # <<>>
  PROVE  \E up \in DOMAIN t : s \in Children(t, up)
<1> DEFINE A == {x \in DOMAIN t : Above(x, s)}
           L == {Len(x) : x \in A}
<1>1. s \in Seq(Nat) /\ Len(s) \in Nat /\ Len(s) # 0
  BY NodeFacts, EmptySeq DEF Frame
<1>2. \A x \in DOMAIN t : x \in Seq(Nat) /\ Len(x) \in Nat
  BY NodeFacts DEF Frame
<1>3. <<>> \in DOMAIN t /\ Above(<<>>, s)
  BY <1>1, PrefixSelf, EmptySeq DEF Frame, Rooted, Above
<1>4. L \in SUBSET Nat /\ L # {} /\ \A n \in L : n <= Len(s)
  <2>1. \A x \in A : Len(x) \in Nat /\ Len(x) <= Len(s)
    BY <1>1, <1>2 DEF Above
  <2>2. <<>> \in A
    BY <1>3
  <2> HIDE DEF A
  <2> QED
    BY <2>1, <2>2
<1> HIDE DEF L
<1>5. Max(L) \in L /\ \A n \in L : n <= Max(L)
  BY <1>1, <1>4, MaxFacts
<1>6. PICK up \in DOMAIN t : Above(up, s) /\ Max(L) = Len(up)
  BY <1>5 DEF L
<1>7. \A x \in DOMAIN t : Above(x, s) => Len(x) <= Len(up)
  BY <1>5, <1>6 DEF L
<1> DEFINE e == t[up].end
           c == Slot(s, t[up].end)
<1>8. Above(e, s) /\ c \in DOMAIN t
  BY <1>6 DEF Frame, Laid
<1>9. e \in Seq(Nat) /\ Len(e) \in Nat /\ Len(up) <= Len(e)
  BY NodeFacts DEF Frame
<1>10. c \in Seq(Nat) /\ Len(c) = Len(e) + 1 /\ IsPrefix(c, s) /\ IsPrefix(e, c)
  BY <1>1, <1>8, <1>9, SlotFacts DEF Above
<1> HIDE DEF c, e
<1>11. ~(Len(c) < Len(s))
  <2> SUFFICES ASSUME Len(c) < Len(s) PROVE FALSE
    OBVIOUS
  <2>1. Above(c, s)
    BY <1>10 DEF Above
  <2>2. Len(c) <= Len(up) /\ Len(up) \in Nat
    BY <1>2, <1>7, <1>8, <2>1
  <2> QED
    BY <1>9, <1>10, <2>2
<1>12. Len(c) = Len(s)
  BY <1>1, <1>9, <1>10, <1>11, PrefixEqual
<1>13. c = s
  BY <1>1, <1>10, <1>12, PrefixEqual
<1> QED
  BY <1>10, <1>13, ChildFacts DEF Frame, e

-----------------------------------------------------------------------------
(***************************************************************************)
(* Inserting: what cutting a node and adding a child leave.                *)
(***************************************************************************)

LEMMA NewNode ==
  ASSUME NEW start \in Seq(Nat), NEW end \in Seq(Nat),
         NEW key \in Names \cup {NoKey}, NEW value \in Values \cup {NoValue}
  PROVE  /\ Node(start, end, key, value) \in Nodes
         /\ Matches(Node(start, end, key, value))
<1>1. Len(start) \in Nat /\ Len(end) \in Nat /\ Group \in Nat \ {0}
  BY LenProperties, GroupAssumption
<1> DEFINE C == Compress(Len(start), Len(end), Len(start))
<1>2. ASSUME NEW p \in C PROVE p \in Nat /\ p % Group = 0
  <2>1. p \in Len(start) .. Len(end) - Group /\ (p - Len(start) + Len(start)) % Group = 0
    BY <1>2 DEF Compress
  <2>2. p \in Nat /\ p - Len(start) + Len(start) = p
    BY <1>1, <2>1
  <2> QED
    BY <2>1, <2>2
<1>3. C \in SUBSET Nat
  BY <1>2
<1> HIDE DEF C
<1>4. Node(start, end, key, value) = [end |-> end, chars |-> C, key |-> key, value |-> value]
  BY DEF Node, C
<1> QED
  BY <1>2, <1>3, <1>4 DEF Nodes, Matches

LEMMA PutTyped ==
  ASSUME NEW t, Typed(t), NEW s \in Seq(Nat), NEW node \in Nodes
  PROVE  Typed(Put(t, s, node))
<1>1. DOMAIN Put(t, s, node) = DOMAIN t \cup {s}
  BY DEF Put
<1>2. IsFiniteSet(DOMAIN t \cup {s})
  BY FS_AddElement DEF Typed
<1>3. Put(t, s, node) \in [DOMAIN t \cup {s} -> Nodes]
  BY DEF Put, Typed
<1> QED
  BY <1>1, <1>2, <1>3 DEF Typed

\* The node at s can be cut at end.
CutsAt(t, s, end) ==
  s \in DOMAIN t /\ end \in Seq(Nat) /\ IsPrefix(s, end) /\ Above(end, t[s].end)

\* u is t with the node at s cut at end and the rest of it at rest.
IsCut(u, t, s, end, rest) ==
  /\ rest \in Seq(Nat) /\ rest \notin DOMAIN t /\ s # <<>>
  /\ Above(end, rest) /\ Len(rest) = Len(end) + 1 /\ IsPrefix(rest, t[s].end)
  /\ DOMAIN u = DOMAIN t \cup {rest}
  /\ u[s] = Node(s, end, NoKey, NoValue)
  /\ u[rest] = Node(rest, t[s].end, t[s].key, t[s].value)
  /\ \A x \in DOMAIN t \ {s} : u[x] = t[x]

LEMMA CutNodes ==
  ASSUME NEW t, Frame(t), NEW s, NEW end, CutsAt(t, s, end)
  PROVE  IsCut(Cut(t, s, end), t, s, end, Slot(t[s].end, end))
<1> DEFINE rest == Slot(t[s].end, end)
           u == Cut(t, s, end)
<1>1. s \in DOMAIN t /\ end \in Seq(Nat) /\ IsPrefix(s, end) /\ Above(end, t[s].end)
  BY DEF CutsAt
<1>2. /\ s \in Seq(Nat) /\ Len(s) \in Nat
      /\ t[s].end \in Seq(Nat) /\ Len(t[s].end) \in Nat
  BY <1>1, NodeFacts DEF Frame
<1>3. Len(end) \in Nat /\ Len(s) <= Len(end) /\ Len(end) < Len(t[s].end) /\ IsPrefix(end, t[s].end)
  BY <1>1, <1>2, PrefixEqual DEF Above
<1>4. /\ rest \in Seq(Nat) /\ Len(rest) = Len(end) + 1
      /\ IsPrefix(rest, t[s].end) /\ IsPrefix(end, rest)
  BY <1>1, <1>2, <1>3, SlotFacts
<1> HIDE DEF rest
<1>5. rest \notin DOMAIN t
  <2> SUFFICES ASSUME rest \in DOMAIN t PROVE FALSE
    OBVIOUS
  <2>1. Above(s, rest)
    BY <1>1, <1>2, <1>3, <1>4, PrefixTrans DEF Above
  <2>2. Above(t[s].end, rest)
    BY <1>1, <2>1 DEF Frame, Laid
  <2> QED
    BY <1>2, <1>3, <1>4, <2>2, PrefixEqual DEF Above
<1>6. s # <<>>
  BY <1>2, <1>3, EmptySeq DEF Frame, Rooted
<1>7. u = Put(Put(t, s, Node(s, end, NoKey, NoValue)),
              rest, Node(rest, t[s].end, t[s].key, t[s].value))
  BY DEF Cut, rest
<1> HIDE DEF u
<1>8. rest # s
  BY <1>1, <1>5
<1>9. /\ DOMAIN u = DOMAIN t \cup {rest}
      /\ u[s] = Node(s, end, NoKey, NoValue)
      /\ u[rest] = Node(rest, t[s].end, t[s].key, t[s].value)
      /\ \A x \in DOMAIN t \ {s} : u[x] = t[x]
  BY <1>1, <1>5, <1>7, <1>8 DEF Put
<1>10. Above(end, rest)
  BY <1>3, <1>4 DEF Above
<1> QED
  BY <1>4, <1>5, <1>6, <1>9, <1>10 DEF IsCut, u, rest

LEMMA CutKeeps ==
  ASSUME NEW t, Frame(t), NEW s, NEW end, CutsAt(t, s, end)
  PROVE  Frame(Cut(t, s, end))
<1> DEFINE rest == Slot(t[s].end, end)
           u == Cut(t, s, end)
<1>1. s \in DOMAIN t /\ end \in Seq(Nat) /\ IsPrefix(s, end) /\ Above(end, t[s].end)
  BY DEF CutsAt
<1>2. /\ rest \in Seq(Nat) /\ rest \notin DOMAIN t /\ s # <<>>
      /\ Above(end, rest) /\ Len(rest) = Len(end) + 1 /\ IsPrefix(rest, t[s].end)
      /\ DOMAIN u = DOMAIN t \cup {rest}
      /\ u[s] = Node(s, end, NoKey, NoValue)
      /\ u[rest] = Node(rest, t[s].end, t[s].key, t[s].value)
      /\ \A x \in DOMAIN t \ {s} : u[x] = t[x]
  <2>1. IsCut(u, t, s, end, rest)
    BY CutNodes
  <2> HIDE DEF u, rest
  <2> QED
    BY <2>1 DEF IsCut
<1>3. /\ s \in Seq(Nat) /\ Len(s) \in Nat
      /\ t[s].end \in Seq(Nat) /\ Len(t[s].end) \in Nat
      /\ t[s].key \in {NoKey, t[s].end} /\ t[s].key \in Names \cup {NoKey}
      /\ t[s].key # NoKey => t[s].value \in Values
      /\ t[s].value \in Values \cup {NoValue}
  BY <1>1, NodeFacts DEF Frame
<1>4. /\ Node(s, end, NoKey, NoValue) \in Nodes
      /\ Matches(Node(s, end, NoKey, NoValue))
      /\ Node(rest, t[s].end, t[s].key, t[s].value) \in Nodes
      /\ Matches(Node(rest, t[s].end, t[s].key, t[s].value))
  BY <1>1, <1>2, <1>3, NewNode
<1>5. Typed(u)
  BY <1>2, <1>3, <1>4, PutTyped DEF Cut, Frame
<1>6. u[s].end = end /\ u[s].key = NoKey /\ u[rest].end = t[s].end
      /\ u[rest].key = t[s].key /\ u[rest].value = t[s].value
  BY <1>2 DEF Node
<1> HIDE DEF u, rest
<1>7. Rooted(u)
  BY <1>2 DEF Frame, Rooted
<1>8. Spelled(u)
  <2> SUFFICES ASSUME NEW x \in DOMAIN u
               PROVE  /\ IsPrefix(x, u[x].end)
                      /\ u[x].key \in {NoKey, u[x].end}
                      /\ u[x].key # NoKey => u[x].value \in Values
                      /\ Matches(u[x])
    BY DEF Spelled
  <2>1. CASE x = s
    BY <1>1, <1>2, <1>4, <1>6, <2>1
  <2>2. CASE x = rest
    BY <1>2, <1>3, <1>4, <1>6, <2>2
  <2>3. CASE x \in DOMAIN t \ {s}
    BY <1>2, <2>3, NodeFacts DEF Frame
  <2> QED
    BY <1>2, <2>1, <2>2, <2>3
<1>9. Laid(u)
  <2> SUFFICES ASSUME NEW a \in DOMAIN u, NEW b \in DOMAIN u, Above(a, b)
               PROVE  Above(u[a].end, b) /\ Slot(b, u[a].end) \in DOMAIN u
    BY DEF Laid
  <2>1. /\ a \in Seq(Nat) /\ b \in Seq(Nat) /\ Len(a) \in Nat /\ Len(b) \in Nat
        /\ IsPrefix(a, b) /\ Len(a) < Len(b)
    BY <1>2, <1>5, LenProperties DEF Above, Typed
  <2>2. Len(end) \in Nat /\ Len(rest) \in Nat /\ Len(s) <= Len(end) /\ IsPrefix(end, rest)
    BY <1>1, <1>2, <1>3, PrefixEqual DEF Above
  <2>3. CASE a \in DOMAIN t \ {s} /\ b \in DOMAIN t
    BY <1>2, <2>3 DEF Frame, Laid
  <2>4. CASE a = s /\ b \in DOMAIN t
    <3>1. IsPrefix(t[s].end, b) /\ Len(t[s].end) < Len(b)
      BY <1>1, <2>4 DEF Frame, Laid, Above
    <3>2. IsPrefix(end, b) /\ IsPrefix(rest, b) /\ Len(end) < Len(b)
      <4>1. IsPrefix(end, t[s].end) /\ Len(end) < Len(t[s].end)
        BY <1>1 DEF Above
      <4>2. IsPrefix(end, b) /\ IsPrefix(rest, b)
        BY <1>1, <1>2, <1>3, <2>1, <3>1, <4>1, PrefixTrans
      <4> QED
        BY <1>3, <2>1, <2>2, <3>1, <4>1, <4>2
    <3>3. rest = Slot(b, end)
      BY <1>1, <1>2, <2>1, <3>2, SlotUnique
    <3> QED
      BY <1>2, <1>6, <2>4, <3>2, <3>3 DEF Above
  <2>5. CASE a = s /\ b = rest
    <3>1. rest = Slot(rest, end)
      BY <1>1, <1>2, PrefixSelf, SlotUnique
    <3> QED
      BY <1>2, <1>6, <2>5, <3>1
  <2>6. CASE a = rest /\ b \in DOMAIN t
    <3>1. Above(s, b)
      BY <1>1, <1>2, <1>3, <2>1, <2>2, <2>6, PrefixTrans DEF Above
    <3>2. Above(t[s].end, b) /\ Slot(b, t[s].end) \in DOMAIN t
      BY <1>1, <2>6, <3>1 DEF Frame, Laid
    <3> QED
      BY <1>2, <1>6, <2>6, <3>2
  <2>7. CASE a \in DOMAIN t \ {s} /\ b = rest
    <3>1. IsPrefix(s, rest)
      BY <1>1, <1>2, <1>3, <2>2, PrefixTrans
    <3>2. CASE Len(a) < Len(s)
      <4>1. Above(a, s)
        BY <1>2, <1>3, <2>1, <2>7, <3>1, <3>2, PrefixBoth DEF Above
      <4>2. Above(t[a].end, s) /\ Slot(s, t[a].end) \in DOMAIN t
        BY <1>1, <2>7, <4>1 DEF Frame, Laid
      <4>3. t[a].end \in Seq(Nat) /\ Len(t[a].end) \in Nat
        BY <2>7, NodeFacts DEF Frame
      <4>4. Above(t[a].end, rest)
        <5>1. IsPrefix(t[a].end, s) /\ Len(t[a].end) < Len(s)
          BY <4>2 DEF Above
        <5>2. IsPrefix(t[a].end, rest)
          BY <1>2, <1>3, <2>2, <3>1, <4>3, <5>1, PrefixTrans
        <5>3. Len(s) \in Nat /\ Len(rest) \in Nat /\ Len(s) <= Len(rest)
          BY <1>2, <1>3, <2>2, <3>1, PrefixEqual
        <5> QED
          BY <4>3, <5>1, <5>2, <5>3 DEF Above
      <4>5. /\ Slot(s, t[a].end) \in Seq(Nat) /\ Len(Slot(s, t[a].end)) = Len(t[a].end) + 1
            /\ IsPrefix(Slot(s, t[a].end), s)
        BY <1>3, <4>2, <4>3, SlotFacts DEF Above
      <4>6. IsPrefix(Slot(s, t[a].end), rest)
        BY <1>2, <1>3, <3>1, <4>5, PrefixTrans
      <4>7. Slot(s, t[a].end) = Slot(rest, t[a].end)
        BY <1>2, <4>3, <4>5, <4>6, SlotUnique
      <4> QED
        BY <1>2, <2>7, <4>2, <4>4, <4>7
    <3>3. CASE Len(a) = Len(s)
      <4>1. a = s
        BY <1>2, <1>3, <2>1, <2>7, <3>1, <3>3, PrefixBoth, PrefixEqual
      <4> QED
        BY <2>7, <4>1
    <3>4. CASE Len(s) < Len(a)
      <4>1. Above(s, a)
        BY <1>2, <1>3, <2>1, <2>7, <3>1, <3>4, PrefixBoth DEF Above
      <4>2. Above(t[s].end, a)
        BY <1>1, <2>7, <4>1 DEF Frame, Laid
      <4>3. Len(rest) <= Len(t[s].end)
        BY <1>2, <1>3, PrefixEqual
      <4> QED
        BY <1>3, <2>1, <2>2, <2>7, <4>2, <4>3 DEF Above
    <3> QED
      BY <1>3, <2>1, <3>2, <3>3, <3>4
  <2>8. ~(a = rest /\ b = rest)
    BY <2>1
  <2> QED
    BY <1>2, <2>3, <2>4, <2>5, <2>6, <2>7, <2>8
<1> QED
  BY <1>5, <1>7, <1>8, <1>9 DEF Frame, u

-----------------------------------------------------------------------------
(***************************************************************************)
(* What a trie holds: its keys with their values.                          *)
(***************************************************************************)
Pairs(t) == {<<t[s].key, t[s].value>> : s \in Keyed(t)}

LEMMA PairFacts ==
  ASSUME NEW t, NEW n, NEW v
  PROVE  <<n, v>> \in Pairs(t) <=>
           \E s \in DOMAIN t : t[s].key # NoKey /\ t[s].key = n /\ t[s].value = v
BY DEF Pairs, Keyed

\* Two tries of which each entry of one is an entry of the other.
LEMMA SamePairs ==
  ASSUME NEW t, NEW u,
         \A s \in DOMAIN t : t[s].key # NoKey =>
            \E r \in DOMAIN u : u[r].key = t[s].key /\ u[r].value = t[s].value,
         \A r \in DOMAIN u : u[r].key # NoKey =>
            \E s \in DOMAIN t : t[s].key = u[r].key /\ t[s].value = u[r].value
  PROVE  Pairs(u) = Pairs(t)
BY DEF Pairs, Keyed

LEMMA KeyFacts ==
  ASSUME NEW t, Frame(t)
  PROVE  /\ \A n : n \in Keys(t) <=> \E v : <<n, v>> \in Pairs(t)
         /\ \A n : n \in Keys(t) <=> \E s \in DOMAIN t : t[s].key # NoKey /\ t[s].key = n
         /\ \A s \in DOMAIN t : t[s].key # NoKey => t[s].key = t[s].end
         /\ Keys(t) \subseteq Names /\ NoKey \notin Keys(t)
         /\ \A n, v : <<n, v>> \in Pairs(t) => n \in Names /\ v \in Values
         /\ \A n, v, w : <<n, v>> \in Pairs(t) /\ <<n, w>> \in Pairs(t) => v = w
<1>1. \A n, v : <<n, v>> \in Pairs(t) <=>
           \E s \in DOMAIN t : t[s].key # NoKey /\ t[s].key = n /\ t[s].value = v
  BY PairFacts
<1>2. \A n : n \in Keys(t) <=> \E s \in DOMAIN t : t[s].key # NoKey /\ t[s].key = n
  BY DEF Keys, Keyed
<1>3. \A s \in DOMAIN t : t[s].key # NoKey =>
         t[s].key = t[s].end /\ t[s].key \in Names /\ t[s].value \in Values
  BY NodeFacts DEF Frame
<1>4. \A s, r \in DOMAIN t : t[s].key # NoKey /\ t[r].key # NoKey /\ t[s].key = t[r].key => s = r
  BY <1>3, EndsApart
<1>5. \A n, v, w : <<n, v>> \in Pairs(t) /\ <<n, w>> \in Pairs(t) => v = w
  BY <1>1, <1>4
<1>6. \A n : n \in Keys(t) <=> \E v : <<n, v>> \in Pairs(t)
  <2>1. ASSUME NEW n, n \in Keys(t) PROVE \E v : <<n, v>> \in Pairs(t)
    <3>1. PICK s \in DOMAIN t : t[s].key # NoKey /\ t[s].key = n
      BY <1>2, <2>1
    <3>2. <<n, t[s].value>> \in Pairs(t)
      BY <1>1, <3>1
    <3> QED
      BY <3>2
  <2>2. ASSUME NEW n, NEW v, <<n, v>> \in Pairs(t) PROVE n \in Keys(t)
    BY <1>1, <1>2, <2>2
  <2> QED
    BY <2>1, <2>2
<1>7. Keys(t) \subseteq Names /\ NoKey \notin Keys(t)
  BY <1>2, <1>3
<1>8. \A n, v : <<n, v>> \in Pairs(t) => n \in Names /\ v \in Values
  BY <1>1, <1>3
<1> QED
  BY <1>2, <1>3, <1>5, <1>6, <1>7, <1>8

\* A node that has children is not idle for it; s may be.
BusyBut(t, s) == \A x \in DOMAIN t \ {<<>>, s} :
                    t[x].key = NoKey => \E c, d \in Children(t, x) : c # d

\* A search ends at the one node of the key.
LEMMA FindEntryFacts ==
  ASSUME NEW t, Frame(t), NEW n
  PROVE  FindEntry(t, n) = {s \in DOMAIN t : t[s].key # NoKey /\ t[s].key = n}
<1>1. ASSUME NEW s \in FindEntry(t, n)
      PROVE  s \in DOMAIN t /\ t[s].key # NoKey /\ t[s].key = n
  <2>1. s \in DOMAIN t /\ t[s].end = n /\ t[s].key # NoKey
    BY <1>1 DEF FindEntry, FindDict, OnTheWay
  <2> QED
    BY <2>1, NodeFacts DEF Frame
<1>2. ASSUME NEW s \in DOMAIN t, t[s].key # NoKey, t[s].key = n
      PROVE  s \in FindEntry(t, n)
  <2>1. IsPrefix(s, n) /\ t[s].end = n
    BY <1>2, NodeFacts DEF Frame
  <2>2. \A up \in OnTheWay(t, n) : Matches(t[up])
    BY DEF OnTheWay, Frame, Spelled
  <2> QED
    BY <1>2, <2>1, <2>2 DEF FindEntry, FindDict, OnTheWay
<1> QED
  BY <1>1, <1>2

-----------------------------------------------------------------------------
(***************************************************************************)
(* Inserting, once more.                                                   *)
(***************************************************************************)

\* A node gets its entry.
SetsEntry(u, t, s, key, value) ==
  /\ s \in DOMAIN t /\ key \in Names /\ value \in Values
  /\ t[s].end = key /\ t[s].key = NoKey
  /\ u = [t EXCEPT ![s].key = key, ![s].value = value]

LEMMA EntrySet ==
  ASSUME NEW t, Frame(t), NEW s, NEW key, NEW value, NEW u, SetsEntry(u, t, s, key, value)
  PROVE  /\ Frame(u) /\ Pairs(u) = Pairs(t) \cup {<<key, value>>}
         /\ BusyBut(t, s) => NoIdleNode(u)
<1>1. /\ s \in DOMAIN t /\ key \in Names /\ value \in Values
      /\ t[s].end = key /\ t[s].key = NoKey
      /\ t[s] \in Nodes /\ t \in [DOMAIN t -> Nodes] /\ key \in Seq(Nat) /\ key # <<>>
  BY NamesAssumption DEF Frame, Typed, SetsEntry
<1>2. /\ DOMAIN u = DOMAIN t /\ u[s] \in Nodes
      /\ u[s].end = key /\ u[s].chars = t[s].chars /\ u[s].key = key /\ u[s].value = value
      /\ \A x \in DOMAIN t \ {s} : u[x] = t[x]
      /\ u \in [DOMAIN t -> Nodes]
  BY <1>1 DEF Nodes, SetsEntry
<1>3. s # <<>>
  BY <1>1 DEF Frame, Rooted
<1>4. \A x \in DOMAIN t : u[x].end = t[x].end /\ u[x].chars = t[x].chars
  BY <1>1, <1>2
<1>5. Typed(u)
  BY <1>2 DEF Frame, Typed
<1>6. Rooted(u)
  BY <1>2, <1>3 DEF Frame, Rooted
<1>7. Spelled(u)
  <2> SUFFICES ASSUME NEW x \in DOMAIN u
               PROVE  /\ IsPrefix(x, u[x].end)
                      /\ u[x].key \in {NoKey, u[x].end}
                      /\ u[x].key # NoKey => u[x].value \in Values
                      /\ Matches(u[x])
    BY DEF Spelled
  <2>1. /\ x \in DOMAIN t /\ IsPrefix(x, t[x].end) /\ t[x].key \in {NoKey, t[x].end}
        /\ t[x].key # NoKey => t[x].value \in Values
        /\ Matches(t[x])
    BY <1>2, NodeFacts DEF Frame
  <2>2. Matches(u[x])
    BY <1>2, <1>4, <2>1 DEF Matches
  <2> QED
    BY <1>1, <1>2, <1>4, <2>1, <2>2
<1>8. Laid(u)
  BY <1>2, <1>4 DEF Frame, Laid
<1>9. Pairs(u) = Pairs(t) \cup {<<key, value>>}
  <2>1. ASSUME NEW x \in Keyed(u) PROVE <<u[x].key, u[x].value>> \in Pairs(t) \cup {<<key, value>>}
    BY <1>2, <2>1 DEF Pairs, Keyed
  <2>2. ASSUME NEW x \in Keyed(t) PROVE <<t[x].key, t[x].value>> \in Pairs(u)
    BY <1>1, <1>2, <2>2 DEF Pairs, Keyed
  <2>3. <<key, value>> \in Pairs(u)
    BY <1>1, <1>2 DEF Pairs, Keyed, NoKey
  <2> QED
    BY <2>1, <2>2, <2>3 DEF Pairs
<1>10. ASSUME BusyBut(t, s) PROVE NoIdleNode(u)
  <2>1. \A x \in DOMAIN t : Children(u, x) = Children(t, x)
    BY <1>2, <1>4 DEF Children
  <2> QED
    BY <1>1, <1>2, <1>10, <2>1 DEF NoIdleNode, BusyBut, NoKey
<1> QED
  BY <1>5, <1>6, <1>7, <1>8, <1>9, <1>10 DEF Frame

\* A new child goes to an unused slot.
AddsLeaf(u, t, s, key, value, c) ==
  /\ s \in DOMAIN t /\ key \in Names /\ value \in Values
  /\ Above(t[s].end, key) /\ c = Slot(key, t[s].end) /\ c \notin DOMAIN t
  /\ u = Put(t, c, Node(c, key, key, value))

LEMMA LeafAdded ==
  ASSUME NEW t, Frame(t), NEW s, NEW key, NEW value, NEW c, NEW u,
         AddsLeaf(u, t, s, key, value, c)
  PROVE  /\ Frame(u) /\ Pairs(u) = Pairs(t) \cup {<<key, value>>}
         /\ BusyBut(t, s) /\ (s # <<>> /\ t[s].key = NoKey => Children(t, s) # {})
            => NoIdleNode(u)
<1> DEFINE e == t[s].end
<1> USE DEF AddsLeaf
<1>1. /\ s \in DOMAIN t /\ key \in Names /\ value \in Values
      /\ Above(t[s].end, key) /\ c = Slot(key, t[s].end) /\ c \notin DOMAIN t
      /\ key \in Seq(Nat) /\ key # <<>> /\ Len(key) \in Nat
  BY NamesAssumption, LenProperties
<1>2. /\ s \in Seq(Nat) /\ e \in Seq(Nat) /\ Len(s) \in Nat /\ Len(e) \in Nat
      /\ Len(s) <= Len(e) /\ IsPrefix(s, e) /\ Len(e) < Len(key) /\ IsPrefix(e, key)
  BY <1>1, NodeFacts DEF Frame, Above
<1>3. c \in Seq(Nat) /\ Len(c) = Len(e) + 1 /\ IsPrefix(c, key) /\ IsPrefix(e, c)
  BY <1>1, <1>2, SlotFacts
<1>4. Node(c, key, key, value) \in Nodes /\ Matches(Node(c, key, key, value))
  BY <1>1, <1>3, NewNode
<1>5. /\ DOMAIN u = DOMAIN t \cup {c} /\ u[c] = Node(c, key, key, value)
      /\ \A x \in DOMAIN t : u[x] = t[x]
  BY DEF Put
<1>6. Typed(u)
  BY <1>3, <1>4, PutTyped DEF Frame
<1> HIDE DEF AddsLeaf
<1>7. u[c].end = key /\ u[c].key = key /\ u[c].value = value /\ Matches(u[c])
  BY <1>4, <1>5 DEF Node
<1> HIDE DEF e
<1>8. Rooted(u)
  BY <1>5 DEF Frame, Rooted
<1>9. Spelled(u)
  <2> SUFFICES ASSUME NEW x \in DOMAIN u
               PROVE  /\ IsPrefix(x, u[x].end)
                      /\ u[x].key \in {NoKey, u[x].end}
                      /\ u[x].key # NoKey => u[x].value \in Values
                      /\ Matches(u[x])
    BY DEF Spelled
  <2>1. CASE x = c
    BY <1>1, <1>3, <1>7, <2>1
  <2>2. CASE x \in DOMAIN t
    BY <1>5, <2>2, NodeFacts DEF Frame
  <2> QED
    BY <1>5, <2>1, <2>2
<1>10. Laid(u)
  <2> SUFFICES ASSUME NEW a \in DOMAIN u, NEW b \in DOMAIN u, Above(a, b)
               PROVE  Above(u[a].end, b) /\ Slot(b, u[a].end) \in DOMAIN u
    BY DEF Laid
  <2>1. /\ a \in Seq(Nat) /\ b \in Seq(Nat) /\ Len(a) \in Nat /\ Len(b) \in Nat
        /\ IsPrefix(a, b) /\ Len(a) < Len(b)
    BY <1>6, LenProperties DEF Above, Typed
  <2>2. CASE a \in DOMAIN t /\ b \in DOMAIN t
    BY <1>5, <2>2 DEF Frame, Laid
  <2>3. CASE a = c /\ b \in DOMAIN t
    <3>1. IsPrefix(s, b) /\ Len(s) < Len(b)
      BY <1>2, <1>3, <2>1, <2>3, PrefixTrans
    <3>2. Above(s, b)
      BY <3>1 DEF Above
    <3>3. Slot(b, e) \in DOMAIN t
      BY <1>1, <2>3, <3>2 DEF Frame, Laid, e
    <3>4. c = Slot(b, e)
      BY <1>2, <1>3, <2>1, <2>3, SlotUnique
    <3> QED
      BY <1>1, <3>3, <3>4
  <2>4. CASE a \in DOMAIN t /\ b = c
    <3>1. IsPrefix(s, c)
      BY <1>2, <1>3, PrefixTrans
    <3>2. CASE Len(a) < Len(s)
      <4>1. Above(a, s)
        BY <1>2, <1>3, <2>1, <2>4, <3>1, <3>2, PrefixBoth DEF Above
      <4>2. Above(t[a].end, s) /\ Slot(s, t[a].end) \in DOMAIN t
        BY <1>1, <2>4, <4>1 DEF Frame, Laid
      <4>3. t[a].end \in Seq(Nat) /\ Len(t[a].end) \in Nat
        BY <2>4, NodeFacts DEF Frame
      <4>4. Above(t[a].end, c)
        <5>1. IsPrefix(t[a].end, s) /\ Len(t[a].end) < Len(s)
          BY <4>2 DEF Above
        <5>2. IsPrefix(t[a].end, c)
          BY <1>2, <1>3, <3>1, <4>3, <5>1, PrefixTrans
        <5>3. Len(s) \in Nat /\ Len(c) \in Nat /\ Len(s) <= Len(c)
          BY <1>2, <1>3, <3>1, PrefixEqual
        <5> QED
          BY <4>3, <5>1, <5>2, <5>3 DEF Above
      <4>5. /\ Slot(s, t[a].end) \in Seq(Nat) /\ Len(Slot(s, t[a].end)) = Len(t[a].end) + 1
            /\ IsPrefix(Slot(s, t[a].end), s)
        BY <1>2, <4>2, <4>3, SlotFacts DEF Above
      <4>6. IsPrefix(Slot(s, t[a].end), c)
        BY <1>2, <1>3, <3>1, <4>5, PrefixTrans
      <4>7. Slot(s, t[a].end) = Slot(c, t[a].end)
        BY <1>3, <4>3, <4>5, <4>6, SlotUnique
      <4> QED
        BY <1>5, <2>4, <4>2, <4>4, <4>7
    <3>3. CASE Len(a) = Len(s)
      <4>1. a = s
        BY <1>2, <1>3, <2>1, <2>4, <3>1, <3>3, PrefixBoth, PrefixEqual
      <4>2. Slot(c, e) = c
        BY <1>2, <1>3, PrefixSelf, SlotUnique
      <4>3. Above(e, c)
        BY <1>2, <1>3 DEF Above
      <4> QED
        BY <1>5, <2>4, <4>1, <4>2, <4>3 DEF e
    <3>4. CASE Len(s) < Len(a)
      <4>1. Above(s, a)
        BY <1>2, <1>3, <2>1, <2>4, <3>1, <3>4, PrefixBoth DEF Above
      <4>2. Above(e, a)
        BY <1>1, <2>4, <4>1 DEF Frame, Laid, e
      <4> QED
        BY <1>2, <1>3, <2>1, <2>4, <4>2 DEF Above
    <3> QED
      BY <1>2, <2>1, <3>2, <3>3, <3>4
  <2>5. ~(a = c /\ b = c)
    BY <2>1
  <2> QED
    BY <1>5, <2>2, <2>3, <2>4, <2>5
<1>11. Pairs(u) = Pairs(t) \cup {<<key, value>>}
  <2>1. ASSUME NEW x \in Keyed(u) PROVE <<u[x].key, u[x].value>> \in Pairs(t) \cup {<<key, value>>}
    BY <1>5, <1>7, <2>1 DEF Pairs, Keyed
  <2>2. ASSUME NEW x \in Keyed(t) PROVE <<t[x].key, t[x].value>> \in Pairs(u)
    BY <1>5, <2>2 DEF Pairs, Keyed
  <2>3. <<key, value>> \in Pairs(u)
    BY <1>1, <1>5, <1>7 DEF Pairs, Keyed, NoKey
  <2> QED
    BY <2>1, <2>2, <2>3 DEF Pairs
<1>12. ASSUME BusyBut(t, s), s # <<>> /\ t[s].key = NoKey => Children(t, s) # {}
       PROVE  NoIdleNode(u)
  <2>1. \A x \in DOMAIN t : Children(t, x) \subseteq Children(u, x)
    BY <1>5 DEF Children
  <2>2. c \in Children(u, s)
    BY <1>1, <1>3, <1>5, <1>6, ChildFacts DEF e
  <2>3. c \notin Children(t, s)
    BY <1>1 DEF Children
  <2>4. ASSUME NEW x \in DOMAIN u \ {<<>>}, u[x].key = NoKey
        PROVE  \E y, z \in Children(u, x) : y # z
    <3>1. x # c
      BY <1>1, <1>7, <2>4 DEF NoKey
    <3>2. x \in DOMAIN t /\ t[x].key = NoKey
      BY <1>5, <2>4, <3>1
    <3>3. CASE x = s
      BY <1>12, <2>1, <2>2, <2>3, <2>4, <3>2, <3>3
    <3>4. CASE x # s
      BY <1>12, <2>1, <2>4, <3>2, <3>4 DEF BusyBut
    <3> QED
      BY <3>3, <3>4
  <2> QED
    BY <2>4 DEF NoIdleNode
<1> QED
  BY <1>6, <1>8, <1>9, <1>10, <1>11, <1>12 DEF Frame

\* A cut moves the entry, and the children, to the new node.
LEMMA CutHolds ==
  ASSUME NEW t, Frame(t), NEW s, NEW end, CutsAt(t, s, end)
  PROVE  /\ Pairs(Cut(t, s, end)) = Pairs(t)
         /\ NoIdleNode(t) => BusyBut(Cut(t, s, end), s)
         /\ Children(Cut(t, s, end), s) # {}
<1> DEFINE rest == Slot(t[s].end, end)
           u == Cut(t, s, end)
<1>1. IsCut(u, t, s, end, rest) /\ Frame(u)
  BY CutNodes, CutKeeps
<1> HIDE DEF u, rest
<1>2. /\ s \in DOMAIN t /\ rest \notin DOMAIN t /\ s # <<>> /\ rest \in Seq(Nat)
      /\ Above(end, rest) /\ Len(rest) = Len(end) + 1
      /\ DOMAIN u = DOMAIN t \cup {rest}
      /\ u[s].end = end /\ u[s].key = NoKey
      /\ u[rest].end = t[s].end /\ u[rest].key = t[s].key /\ u[rest].value = t[s].value
      /\ \A x \in DOMAIN t \ {s} : u[x] = t[x]
  BY <1>1 DEF IsCut, Node, CutsAt
<1>3. Pairs(u) = Pairs(t)
  <2>1. \A x \in DOMAIN t : t[x].key # NoKey =>
           \E r \in DOMAIN u : u[r].key = t[x].key /\ u[r].value = t[x].value
    BY <1>2
  <2>2. \A r \in DOMAIN u : u[r].key # NoKey =>
           \E x \in DOMAIN t : t[x].key = u[r].key /\ t[x].value = u[r].value
    BY <1>2
  <2> QED
    BY <2>1, <2>2, SamePairs
<1>4. rest \in Children(u, s)
  BY <1>1, <1>2, ChildFacts DEF Frame, Above
<1>5. ASSUME NoIdleNode(t) PROVE BusyBut(u, s)
  <2>1. \A x \in DOMAIN t \ {s} : Children(t, x) \subseteq Children(u, x)
    BY <1>2 DEF Children
  <2>2. Children(t, s) \subseteq Children(u, rest)
    BY <1>2 DEF Children
  <2> QED
    BY <1>2, <1>5, <2>1, <2>2 DEF NoIdleNode, BusyBut
<1> QED
  BY <1>3, <1>4, <1>5 DEF u

\* The digits two keys have in common.
LEMMA CommonPrefixFacts ==
  ASSUME NEW a \in Seq(Nat), NEW b \in Seq(Nat)
  PROVE  /\ CommonPrefix(a, b) \in Seq(Nat)
         /\ IsPrefix(CommonPrefix(a, b), a) /\ IsPrefix(CommonPrefix(a, b), b)
         /\ \A c \in Seq(Nat) : IsPrefix(c, a) /\ IsPrefix(c, b) =>
                                  IsPrefix(c, CommonPrefix(a, b))
<1> DEFINE same == {n \in 0 .. Len(a) : n <= Len(b) /\ \A i \in 1 .. n : a[i] = b[i]}
           m == CommonPrefix(a, b)
<1>1. Len(a) \in Nat /\ Len(b) \in Nat /\ DOMAIN a = 1 .. Len(a)
  BY LenProperties
<1>2. same \in SUBSET Nat /\ \A n \in same : n <= Len(a)
  BY <1>1
<1>3. 0 \in same
  BY <1>1
<1>4. Max(same) \in same /\ \A n \in same : n <= Max(same)
  <2> HIDE DEF same
  <2> QED
    BY <1>1, <1>2, <1>3, MaxFacts
<1>5. PICK n \in 0 .. Len(a) : /\ n = Max(same) /\ n <= Len(b)
                               /\ \A i \in 1 .. n : a[i] = b[i]
  BY <1>4
<1>6. m = SubSeq(a, 1, n)
  BY <1>5 DEF CommonPrefix
<1>7. \A i \in 1 .. n : a[i] \in Nat
  BY <1>1, <1>5, ElementOfSeq
<1> HIDE DEF m
<1>8. m \in Seq(Nat) /\ Len(m) = n /\ \A i \in 1 .. n : m[i] = a[i]
  <2>1. n \in Nat /\ 1 \in Nat
    BY <1>1
  <2>2. /\ SubSeq(a, 1, n) \in Seq(Nat)
        /\ Len(SubSeq(a, 1, n)) = IF 1 <= n THEN n - 1 + 1 ELSE 0
        /\ \A i \in 1 .. n - 1 + 1 : SubSeq(a, 1, n)[i] = a[1 + i - 1]
    BY <1>7, <2>1, SubSeqProperties
  <2> QED
    BY <1>6, <2>1, <2>2
<1>9. IsPrefix(m, a) /\ IsPrefix(m, b)
  <2>1. Len(m) <= Len(a) /\ Len(m) <= Len(b)
    BY <1>1, <1>5, <1>8
  <2>2. \A i \in 1 .. Len(m) : m[i] = a[i] /\ m[i] = b[i]
    BY <1>5, <1>8
  <2> QED
    BY <1>8, <2>1, <2>2, PrefixMeaning
<1>10. ASSUME NEW c \in Seq(Nat), IsPrefix(c, a), IsPrefix(c, b)
       PROVE  IsPrefix(c, m)
  <2>1. Len(c) \in Nat /\ Len(c) <= Len(a) /\ Len(c) <= Len(b)
    BY <1>10, PrefixEqual
  <2>2. \A i \in 1 .. Len(c) : a[i] = b[i]
    BY <1>10, PrefixMeaning
  <2>3. Len(c) \in same
    BY <2>1, <2>2
  <2>4. Len(c) <= Len(m)
    BY <1>4, <1>5, <1>8, <2>3
  <2> QED
    BY <1>8, <1>9, <1>10, <2>4, PrefixBoth
<1> QED
  BY <1>8, <1>9, <1>10 DEF m

\* A node where the key ends is the deepest on the way to it.
LEMMA DeepestAtEnd ==
  ASSUME NEW t, Frame(t), NEW key \in Seq(Nat), NEW r \in DOMAIN t, t[r].end = key
  PROVE  Deepest(t, key) = r
<1> DEFINE s == Deepest(t, key)
<1>1. /\ s \in DOMAIN t /\ IsPrefix(s, key)
      /\ \A x \in DOMAIN t : IsPrefix(x, key) => Len(x) <= Len(s)
  BY DeepestFacts
<1> HIDE DEF s
<1>2. r \in Seq(Nat) /\ Len(r) \in Nat /\ IsPrefix(r, key)
  BY NodeFacts DEF Frame
<1>3. s \in Seq(Nat) /\ Len(s) \in Nat /\ Len(key) \in Nat /\ Len(s) <= Len(key)
  BY <1>1, NodeFacts, PrefixEqual DEF Frame
<1>4. IsPrefix(r, s)
  BY <1>1, <1>2, <1>3, PrefixBoth
<1>5. CASE Len(r) = Len(s)
  BY <1>2, <1>3, <1>4, <1>5, PrefixEqual DEF s
<1>6. CASE Len(r) < Len(s)
  <2>1. Above(r, s)
    BY <1>4, <1>6 DEF Above
  <2>2. Above(key, s)
    BY <1>1, <2>1 DEF Frame, Laid
  <2> QED
    BY <1>3, <2>2 DEF Above
<1> QED
  BY <1>1, <1>2, <1>3, <1>5, <1>6

\* qsDictionaryInsert() adds the key if it is not there, and nothing else
\* becomes of the other keys.
LEMMA InsertedFacts ==
  ASSUME NEW t, Trie(t), NEW key \in Names, NEW value \in Values
  PROVE  /\ Trie(Inserted(t, key, value))
         /\ Pairs(Inserted(t, key, value)) =
              IF key \in Keys(t) THEN Pairs(t) ELSE Pairs(t) \cup {<<key, value>>}
<1> DEFINE s == Deepest(t, key)
           end == t[s].end
           meet == CommonPrefix(t[s].end, key)
           u == IF meet = end THEN t ELSE Cut(t, s, meet)
           c == Slot(key, meet)
           new == Inserted(t, key, value)
<1>1. Frame(t) /\ NoIdleNode(t)
  BY DEF Trie, Frame
<1>2. key \in Seq(Nat) /\ key # <<>> /\ Len(key) \in Nat
  BY NamesAssumption, LenProperties
<1>3. /\ s \in DOMAIN t /\ IsPrefix(s, key)
      /\ \A x \in DOMAIN t : IsPrefix(x, key) => Len(x) <= Len(s)
  BY <1>1, <1>2, DeepestFacts
<1>4. new = IF meet = key
            THEN IF u[s].key = NoKey
                 THEN [u EXCEPT ![s].key = key, ![s].value = value]
                 ELSE u
            ELSE Put(u, c, Node(c, key, key, value))
  BY DEF Inserted
<1> HIDE DEF s
<1>5. /\ s \in Seq(Nat) /\ Len(s) \in Nat /\ end \in Seq(Nat) /\ Len(end) \in Nat
      /\ IsPrefix(s, end) /\ t[s].key \in {NoKey, end}
  BY <1>1, <1>3, NodeFacts DEF Frame
<1>6. /\ meet \in Seq(Nat) /\ IsPrefix(meet, end) /\ IsPrefix(meet, key)
      /\ \A x \in Seq(Nat) : IsPrefix(x, end) /\ IsPrefix(x, key) => IsPrefix(x, meet)
  BY <1>2, <1>5, CommonPrefixFacts
<1> HIDE DEF meet, new
<1>7. IsPrefix(s, meet)
  BY <1>3, <1>5, <1>6
<1>8. /\ Len(meet) \in Nat /\ Len(meet) <= Len(end) /\ Len(meet) <= Len(key)
      /\ Len(s) <= Len(meet)
      /\ Len(meet) = Len(end) => meet = end
      /\ Len(meet) = Len(key) => meet = key
  BY <1>2, <1>5, <1>6, <1>7, PrefixEqual
<1>9. meet # end => CutsAt(t, s, meet)
  BY <1>3, <1>5, <1>6, <1>7, <1>8 DEF CutsAt, Above
<1>10. ASSUME key \in Keys(t) PROVE s \in DOMAIN t /\ end = key /\ t[s].key = key
  <2>1. PICK r \in DOMAIN t : t[r].key # NoKey /\ t[r].key = key
    BY <1>1, <1>10, KeyFacts
  <2>2. t[r].end = key
    BY <1>1, <2>1, KeyFacts
  <2>3. s = r
    BY <1>1, <1>2, <2>2, DeepestAtEnd DEF s
  <2> QED
    BY <2>1, <2>2, <2>3
<1>11. CASE key \in Keys(t)
  <2>1. end = key /\ t[s].key = key /\ key # NoKey
    BY <1>2, <1>10, <1>11 DEF NoKey
  <2>2. meet = key
    BY <1>2, <1>6, <2>1, PrefixSelf, PrefixEqual
  <2>3. u = t
    BY <2>1, <2>2
  <2>4. new = t
    BY <1>4, <2>1, <2>2, <2>3
  <2> QED
    BY <1>11, <2>4 DEF new
<1>12. CASE key \notin Keys(t)
  <2>1. /\ Frame(u) /\ Pairs(u) = Pairs(t) /\ BusyBut(u, s) /\ u[s].end = meet /\ s \in DOMAIN u
        /\ s # <<>> /\ u[s].key = NoKey => Children(u, s) # {}
    <3>1. CASE meet = end
      <4>1. u = t
        BY <3>1
      <4>2. BusyBut(t, s)
        BY <1>1 DEF NoIdleNode, BusyBut
      <4>3. s # <<>> /\ t[s].key = NoKey => Children(t, s) # {}
        BY <1>1, <1>3 DEF NoIdleNode
      <4> QED
        BY <1>1, <1>3, <3>1, <4>1, <4>2, <4>3
    <3>2. CASE meet # end
      <4>1. u = Cut(t, s, meet)
        BY <3>2
      <4>2. CutsAt(t, s, meet)
        BY <1>9, <3>2
      <4>3. Frame(u)
        BY <1>1, <4>1, <4>2, CutKeeps
      <4>4. Pairs(u) = Pairs(t) /\ BusyBut(u, s) /\ Children(u, s) # {}
        BY <1>1, <4>1, <4>2, CutHolds
      <4>5. IsCut(u, t, s, meet, Slot(t[s].end, meet))
        BY <1>1, <4>1, <4>2, CutNodes
      <4>6. u[s].end = meet /\ s \in DOMAIN u
        BY <1>3, <4>5 DEF IsCut, Node
      <4> QED
        BY <4>3, <4>4, <4>6
    <3> QED
      BY <3>1, <3>2
  <2>2. CASE meet = key
    <3>1. u[s].key = NoKey
      <4>1. CASE meet = end
        <5>1. t[s].key # key
          BY <1>1, <1>2, <1>3, <1>12, KeyFacts DEF NoKey
        <5> QED
          BY <1>5, <2>2, <4>1, <5>1
      <4>2. CASE meet # end
        <5>1. IsCut(Cut(t, s, meet), t, s, meet, Slot(t[s].end, meet))
          BY <1>1, <1>9, <4>2, CutNodes
        <5> QED
          BY <4>2, <5>1 DEF IsCut, Node
      <4> QED
        BY <4>1, <4>2
    <3>2. new = [u EXCEPT ![s].key = key, ![s].value = value]
      BY <1>4, <2>2, <3>1
    <3> HIDE DEF u
    <3>3. SetsEntry(new, u, s, key, value)
      BY <2>1, <2>2, <3>1, <3>2 DEF SetsEntry
    <3>4. Frame(new) /\ Pairs(new) = Pairs(u) \cup {<<key, value>>} /\ NoIdleNode(new)
      BY <2>1, <3>3, EntrySet
    <3> QED
      BY <1>12, <2>1, <3>4 DEF Trie, Frame, new
  <2>3. CASE meet # key
    <3>1. Above(meet, key)
      BY <1>2, <1>6, <1>8, <2>3 DEF Above
    <3>2. c \in Seq(Nat) /\ Len(c) = Len(meet) + 1 /\ IsPrefix(c, key)
      BY <1>2, <1>6, <1>8, <3>1, SlotFacts DEF Above
    <3> HIDE DEF c
    <3>3. c \notin DOMAIN t
      BY <1>3, <1>5, <1>8, <3>2
    <3>4. c \notin DOMAIN u
      <4>1. CASE meet = end
        BY <3>3, <4>1
      <4>2. CASE meet # end
        <5> DEFINE rest == Slot(t[s].end, meet)
        <5>1. IsCut(Cut(t, s, meet), t, s, meet, rest)
          BY <1>1, <1>9, <4>2, CutNodes
        <5> HIDE DEF rest
        <5>2. DOMAIN u = DOMAIN t \cup {rest} /\ IsPrefix(rest, end)
          BY <4>2, <5>1 DEF IsCut
        <5>3. c # rest
          <6> SUFFICES ASSUME c = rest PROVE FALSE
            OBVIOUS
          <6>1. IsPrefix(c, meet)
            BY <1>6, <3>2, <5>2
          <6> QED
            BY <1>6, <1>8, <3>2, <6>1, PrefixEqual
        <5> QED
          BY <3>3, <5>2, <5>3
      <4> QED
        BY <4>1, <4>2
    <3>5. new = Put(u, c, Node(c, key, key, value))
      BY <1>4, <2>3 DEF c
    <3>6. c = Slot(key, u[s].end) /\ Above(u[s].end, key)
      BY <2>1, <3>1 DEF c
    <3> HIDE DEF u
    <3>7. AddsLeaf(new, u, s, key, value, c)
      BY <2>1, <3>4, <3>5, <3>6 DEF AddsLeaf
    <3>8. Frame(new) /\ Pairs(new) = Pairs(u) \cup {<<key, value>>} /\ NoIdleNode(new)
      BY <2>1, <3>7, LeafAdded
    <3> QED
      BY <1>12, <2>1, <3>8 DEF Trie, Frame, new
  <2> QED
    BY <2>2, <2>3
<1> QED
  BY <1>11, <1>12

-----------------------------------------------------------------------------
(***************************************************************************)
(* Removing: what an absorbed child, a dropped leaf and a lost entry leave. *)
(***************************************************************************)

LEMMA Divided ==
  ASSUME NEW x \in Int, NEW g \in Nat \ {0}
  PROVE  x = g * (x \div g) + (x % g) /\ x % g \in 0 .. g - 1 /\ x \div g \in Int
OBVIOUS

LEMMA Multiple ==
  ASSUME NEW k \in Int, NEW g \in Nat \ {0}
  PROVE  (g * k) % g = 0
OBVIOUS

\* Counted from any point where a character starts, whole characters stand
\* where a key's characters start.
LEMMA CompressCounted ==
  ASSUME NEW first \in Nat, NEW last \in Nat, NEW start \in Nat, start % Group = 0
  PROVE  \A p \in Compress(first, last, Group - ((start - first) % Group)) :
           p \in Nat /\ p % Group = 0
<1> SUFFICES ASSUME NEW p \in Compress(first, last, Group - ((start - first) % Group))
             PROVE  p \in Nat /\ p % Group = 0
  OBVIOUS
<1> DEFINE g == Group
           r == (start - first) % g
           b == (start - first) \div g
           a == start \div g
           x == p - first + (g - r)
           c == x \div g
<1>1. g \in Nat \ {0}
  BY GroupAssumption
<1>2. p \in Int /\ p >= first /\ x % g = 0
  BY DEF Compress
<1> HIDE DEF g
<1>3. start - first = g * b + r /\ r \in Int /\ b \in Int
  BY <1>1, Divided
<1>4. start = g * a /\ a \in Int
  <2>1. start \in Int /\ start = g * a + (start % g) /\ a \in Int
    BY <1>1, Divided
  <2>2. start % g = 0
    BY DEF g
  <2> QED
    BY <1>1, <2>1, <2>2
<1> HIDE DEF r, b, a
<1>5. x \in Int
  BY <1>1, <1>2, <1>3
<1>6. x = g * c /\ c \in Int
  <2> HIDE DEF x
  <2>1. x = g * c + (x % g) /\ c \in Int
    BY <1>1, <1>5, Divided
  <2> QED
    BY <1>1, <1>2, <2>1
<1> HIDE DEF c
<1>7. p = g * (c - 1 + a - b)
  <2>1. p - first + (g - r) = g * c
    BY <1>6
  <2>2. p = g * c - g + g * a - g * b
    <3>1. /\ g \in Int /\ g * c \in Int /\ g * a \in Int /\ g * b \in Int
          /\ first \in Int /\ start \in Int
      BY <1>1, <1>3, <1>4, <1>6
    <3> QED
      BY <1>2, <1>3, <1>4, <2>1, <3>1
  <2>3. g * c - g + g * a - g * b = g * (c - 1 + a - b)
    BY <1>1, <1>3, <1>4, <1>6
  <2> QED
    BY <2>2, <2>3
<1>8. c - 1 + a - b \in Int
  BY <1>3, <1>4, <1>6
<1>9. p % g = 0
  BY <1>1, <1>7, <1>8, Multiple
<1> QED
  BY <1>2, <1>9 DEF g

LEMMA AbsorbedFacts ==
  ASSUME NEW first \in Nat, NEW last \in Nat, NEW chars \in SUBSET Nat, NEW hasKey \in BOOLEAN,
         \A p \in chars : p % Group = 0, hasKey => last % Group = 0
  PROVE  \A p \in Absorbed(first, last, chars, hasKey) : p \in Nat /\ p % Group = 0
<1>1. CASE chars # {}
  <2>1. Min(chars) \in Nat /\ Min(chars) % Group = 0
    BY <1>1, MinFacts
  <2>2. \A p \in Compress(first, last, Group - ((Min(chars) - first) % Group)) :
          p \in Nat /\ p % Group = 0
    BY <2>1, CompressCounted
  <2> QED
    BY <1>1, <2>2 DEF Absorbed
<1>2. CASE chars = {} /\ hasKey
  <2>1. \A p \in Compress(first, last, Group - ((last - first) % Group)) :
          p \in Nat /\ p % Group = 0
    BY <1>2, CompressCounted
  <2> QED
    BY <1>2, <2>1 DEF Absorbed
<1>3. CASE chars = {} /\ ~hasKey
  BY <1>3 DEF Absorbed
<1> QED
  BY <1>1, <1>2, <1>3

\* The node at s swallows its only child.
Swallows(u, t, s, child) ==
  /\ s \in DOMAIN t /\ s # <<>> /\ t[s].key = NoKey
  /\ Children(t, s) = {child}
  /\ u = AbsorbChild(t, s, child)

LEMMA ChildAbsorbed ==
  ASSUME NEW t, Frame(t), NEW s, NEW child, NEW u, Swallows(u, t, s, child)
  PROVE  /\ Frame(u) /\ Pairs(u) = Pairs(t) /\ DOMAIN u = DOMAIN t \ {child}
         /\ BusyBut(t, s) => NoIdleNode(u)
<1> DEFINE e == t[s].end
           f == t[child].end
           chars == Absorbed(Len(s), Len(t[child].end), t[s].chars \cup t[child].chars,
                             t[child].key # NoKey)
<1>1. s \in DOMAIN t /\ s # <<>> /\ t[s].key = NoKey /\ Children(t, s) = {child}
  BY DEF Swallows
<1>2. /\ s \in Seq(Nat) /\ Len(s) \in Nat /\ e \in Seq(Nat) /\ Len(e) \in Nat
      /\ Len(s) <= Len(e) /\ IsPrefix(s, e)
      /\ t[s].chars \in SUBSET Nat /\ Matches(t[s])
  BY <1>1, NodeFacts DEF Frame
<1>3. child \in DOMAIN t /\ IsPrefix(e, child) /\ Len(child) = Len(e) + 1
  BY <1>1, ChildFacts DEF Frame
<1>4. /\ child \in Seq(Nat) /\ t[child] \in Nodes
      /\ f \in Seq(Nat) /\ Len(f) \in Nat
      /\ Len(child) <= Len(f) /\ IsPrefix(child, f)
      /\ t[child].key \in {NoKey, f} /\ t[child].key \in Names \cup {NoKey}
      /\ t[child].key # NoKey => t[child].value \in Values
      /\ t[child].chars \in SUBSET Nat /\ Matches(t[child])
  BY <1>3, NodeFacts DEF Frame
<1>5. child # s /\ child # <<>>
  BY <1>2, <1>3, EmptySeq
<1>6. chars \in SUBSET Nat /\ \A p \in chars : p % Group = 0
  <2>1. t[child].key # NoKey => Len(f) % Group = 0
    BY <1>4, NamesAssumption
  <2>2. \A p \in t[s].chars \cup t[child].chars : p % Group = 0
    BY <1>2, <1>4 DEF Matches
  <2>3. (t[child].key # NoKey) \in BOOLEAN /\ t[s].chars \cup t[child].chars \in SUBSET Nat
    BY <1>2, <1>4
  <2>4. \A p \in chars : p \in Nat /\ p % Group = 0
    BY <1>2, <1>4, <2>1, <2>2, <2>3, AbsorbedFacts
  <2> HIDE DEF chars
  <2> QED
    BY <2>4
<1> DEFINE node == [t[child] EXCEPT !.chars = chars]
<1>7. /\ DOMAIN u = DOMAIN t \ {child}
      /\ u[s] = node
      /\ \A x \in DOMAIN t \ {s, child} : u[x] = t[x]
      /\ u \in [DOMAIN u -> {u[x] : x \in DOMAIN u}]
  BY <1>1, <1>3, <1>5 DEF Swallows, AbsorbChild, Restrict
<1> HIDE DEF chars
<1>8. /\ node \in Nodes /\ node.end = f /\ node.chars = chars
      /\ node.key = t[child].key /\ node.value = t[child].value
  BY <1>4, <1>6 DEF Nodes
<1>9. Matches(node)
  BY <1>6, <1>8 DEF Matches
<1> HIDE DEF node, e, f
<1>10. Typed(u)
  <2>1. DOMAIN u \in SUBSET Seq(Nat) /\ IsFiniteSet(DOMAIN u)
    BY <1>7, FS_Subset DEF Frame, Typed
  <2>2. \A x \in DOMAIN u : u[x] \in Nodes
    BY <1>7, <1>8 DEF Frame, Typed
  <2> QED
    BY <1>7, <2>1, <2>2 DEF Typed
<1>11. Rooted(u)
  BY <1>1, <1>5, <1>7 DEF Frame, Rooted
<1>12. Spelled(u)
  <2> SUFFICES ASSUME NEW x \in DOMAIN u
               PROVE  /\ IsPrefix(x, u[x].end)
                      /\ u[x].key \in {NoKey, u[x].end}
                      /\ u[x].key # NoKey => u[x].value \in Values
                      /\ Matches(u[x])
    BY DEF Spelled
  <2>1. CASE x = s
    <3>1. IsPrefix(s, f)
      BY <1>2, <1>3, <1>4, PrefixTrans
    <3> QED
      BY <1>4, <1>7, <1>8, <1>9, <2>1, <3>1 DEF f
  <2>2. CASE x # s
    BY <1>7, <2>2, NodeFacts DEF Frame
  <2> QED
    BY <2>1, <2>2
<1>13. Laid(u)
  <2> SUFFICES ASSUME NEW a \in DOMAIN u, NEW b \in DOMAIN u, Above(a, b)
               PROVE  Above(u[a].end, b) /\ Slot(b, u[a].end) \in DOMAIN u
    BY DEF Laid
  <2>1. /\ a \in DOMAIN t /\ b \in DOMAIN t /\ a # child /\ b # child
        /\ a \in Seq(Nat) /\ b \in Seq(Nat) /\ Len(a) \in Nat /\ Len(b) \in Nat
        /\ IsPrefix(a, b) /\ Len(a) < Len(b)
        /\ t[a].end \in Seq(Nat) /\ Len(t[a].end) \in Nat
    BY <1>7, NodeFacts DEF Above, Frame
  <2>2. Above(t[a].end, b) /\ Slot(b, t[a].end) \in DOMAIN t
    BY <2>1 DEF Frame, Laid
  <2>3. /\ Slot(b, t[a].end) \in Seq(Nat) /\ Len(Slot(b, t[a].end)) = Len(t[a].end) + 1
        /\ IsPrefix(Slot(b, t[a].end), b) /\ IsPrefix(t[a].end, Slot(b, t[a].end))
    BY <2>1, <2>2, SlotFacts DEF Above
  <2>4. Slot(b, t[a].end) \in Children(t, a)
    BY <2>1, <2>2, <2>3, ChildFacts DEF Frame
  <2>5. CASE a # s
    <3>1. Slot(b, t[a].end) # child
      BY <1>1, <2>1, <2>4, <2>5, OneParent
    <3> QED
      BY <1>7, <2>1, <2>2, <2>5, <3>1
  <2>6. CASE a = s
    <3>1. Slot(b, t[a].end) = child
      BY <1>1, <2>4, <2>6
    <3>2. Above(child, b)
      <4>1. IsPrefix(child, b) /\ Len(child) \in Nat /\ Len(child) <= Len(b) /\ Len(child) # Len(b)
        BY <1>4, <2>1, <2>3, <3>1, PrefixEqual
      <4> QED
        BY <2>1, <4>1 DEF Above
    <3>3. Above(f, b) /\ Slot(b, f) \in DOMAIN t
      BY <1>3, <2>1, <3>2 DEF Frame, Laid, f
    <3>4. Len(Slot(b, f)) = Len(f) + 1
      BY <1>4, <2>1, <3>3, SlotFacts DEF Above
    <3>5. Slot(b, f) # child
      BY <1>4, <3>4
    <3> QED
      BY <1>7, <1>8, <2>6, <3>3, <3>5
  <2> QED
    BY <2>5, <2>6
<1>14. Pairs(u) = Pairs(t)
  <2>1. \A x \in DOMAIN t : t[x].key # NoKey =>
           \E r \in DOMAIN u : u[r].key = t[x].key /\ u[r].value = t[x].value
    <3> SUFFICES ASSUME NEW x \in DOMAIN t, t[x].key # NoKey
                 PROVE  \E r \in DOMAIN u : u[r].key = t[x].key /\ u[r].value = t[x].value
      OBVIOUS
    <3>1. CASE x = child
      BY <1>1, <1>5, <1>7, <1>8, <3>1
    <3>2. CASE x # child
      BY <1>1, <1>7, <3>2
    <3> QED
      BY <3>1, <3>2
  <2>2. \A r \in DOMAIN u : u[r].key # NoKey =>
           \E x \in DOMAIN t : t[x].key = u[r].key /\ t[x].value = u[r].value
    BY <1>3, <1>7, <1>8
  <2> QED
    BY <2>1, <2>2, SamePairs
<1>15. ASSUME BusyBut(t, s) PROVE NoIdleNode(u)
  <2> SUFFICES ASSUME NEW x \in DOMAIN u \ {<<>>}, u[x].key = NoKey
               PROVE  \E c, d \in Children(u, x) : c # d
    BY DEF NoIdleNode
  <2>1. CASE x = s
    <3>1. \E c, d \in Children(t, child) : c # d
      BY <1>3, <1>5, <1>7, <1>8, <1>15, <2>1 DEF BusyBut
    <3>2. child \notin Children(t, child)
      <4>1. Len(child) # Len(f) + 1
        BY <1>4, LenProperties
      <4> QED
        BY <1>3, <4>1, ChildFacts DEF Frame, f
    <3>3. Children(t, child) \subseteq Children(u, s)
      BY <1>7, <1>8, <3>2 DEF Children, f
    <3> QED
      BY <2>1, <3>1, <3>3
  <2>2. CASE x # s
    <3>1. x \in DOMAIN t /\ u[x] = t[x]
      BY <1>7, <2>2
    <3>2. \E c, d \in Children(t, x) : c # d
      BY <1>15, <2>2, <3>1 DEF BusyBut
    <3>3. child \notin Children(t, x)
      BY <1>1, <2>2, <3>1, OneParent
    <3>4. Children(t, x) \subseteq Children(u, x)
      BY <1>7, <3>1, <3>3 DEF Children
    <3> QED
      BY <3>2, <3>4
  <2> QED
    BY <2>1, <2>2
<1> QED
  BY <1>7, <1>10, <1>11, <1>12, <1>13, <1>14, <1>15 DEF Frame

\* A node with no child goes.
Drops(u, t, s) ==
  /\ s \in DOMAIN t /\ s # <<>> /\ t[s].key # NoKey /\ Children(t, s) = {}
  /\ u = Restrict(t, DOMAIN t \ {s})

IsDropped(u, t, s) ==
  /\ Frame(u) /\ Pairs(u) = Pairs(t) \ {<<t[s].key, t[s].value>>}
  /\ DOMAIN u = DOMAIN t \ {s} /\ \A x \in DOMAIN u : u[x] = t[x]
  /\ \A x \in DOMAIN u : Children(u, x) = Children(t, x) \ {s}

LEMMA LeafDropped ==
  \A t, u, s : Frame(t) /\ Drops(u, t, s) => IsDropped(u, t, s)
<1> SUFFICES ASSUME NEW t, Frame(t), NEW s, NEW u, Drops(u, t, s)
             PROVE  IsDropped(u, t, s)
  OBVIOUS
<1>1. s \in DOMAIN t /\ s # <<>> /\ t[s].key # NoKey /\ Children(t, s) = {}
  BY DEF Drops
<1>2. /\ DOMAIN u = DOMAIN t \ {s} /\ \A x \in DOMAIN u : u[x] = t[x]
      /\ u \in [DOMAIN u -> {u[x] : x \in DOMAIN u}]
  BY DEF Drops, Restrict
<1>3. Typed(u)
  <2>1. DOMAIN u \in SUBSET Seq(Nat) /\ IsFiniteSet(DOMAIN u)
    BY <1>2, FS_Subset DEF Frame, Typed
  <2>2. \A x \in DOMAIN u : u[x] \in Nodes
    BY <1>2 DEF Frame, Typed
  <2> QED
    BY <1>2, <2>1, <2>2 DEF Typed
<1>4. Rooted(u)
  BY <1>1, <1>2 DEF Frame, Rooted
<1>5. Spelled(u)
  BY <1>2 DEF Frame, Spelled
<1>6. Laid(u)
  <2> SUFFICES ASSUME NEW a \in DOMAIN u, NEW b \in DOMAIN u, Above(a, b)
               PROVE  Above(u[a].end, b) /\ Slot(b, u[a].end) \in DOMAIN u
    BY DEF Laid
  <2>1. /\ a \in DOMAIN t /\ b \in DOMAIN t /\ b # s /\ u[a] = t[a]
        /\ a \in Seq(Nat) /\ b \in Seq(Nat) /\ Len(a) \in Nat /\ Len(b) \in Nat
        /\ t[a].end \in Seq(Nat) /\ Len(t[a].end) \in Nat
    BY <1>2, NodeFacts DEF Frame
  <2>2. Above(t[a].end, b) /\ Slot(b, t[a].end) \in DOMAIN t
    BY <2>1 DEF Frame, Laid
  <2>3. Slot(b, t[a].end) # s
    <3> SUFFICES ASSUME s = Slot(b, t[a].end) PROVE FALSE
      OBVIOUS
    <3>1. s \in Seq(Nat) /\ IsPrefix(s, b)
      BY <2>1, <2>2, SlotFacts DEF Above
    <3>2. Above(s, b)
      <4>1. Len(s) \in Nat /\ Len(s) <= Len(b) /\ Len(s) # Len(b)
        BY <2>1, <3>1, PrefixEqual
      <4> QED
        BY <2>1, <3>1, <4>1 DEF Above
    <3>3. Above(t[s].end, b) /\ Slot(b, t[s].end) \in DOMAIN t
      BY <1>1, <2>1, <3>2 DEF Frame, Laid
    <3>4. t[s].end \in Seq(Nat)
      BY <1>1, NodeFacts DEF Frame
    <3>5. /\ Len(Slot(b, t[s].end)) = Len(t[s].end) + 1
          /\ IsPrefix(t[s].end, Slot(b, t[s].end))
      BY <2>1, <3>3, <3>4, SlotFacts DEF Above
    <3>6. Slot(b, t[s].end) \in Children(t, s)
      BY <1>1, <3>3, <3>5, ChildFacts DEF Frame
    <3> QED
      BY <1>1, <3>6
  <2> QED
    BY <1>2, <2>1, <2>2, <2>3
<1>7. Pairs(u) = Pairs(t) \ {<<t[s].key, t[s].value>>}
  <2>1. \A x, y \in DOMAIN t : t[x].key # NoKey /\ t[x].key = t[y].key => x = y
    BY EndsApart, KeyFacts
  <2>2. ASSUME NEW x \in Keyed(u)
        PROVE  <<u[x].key, u[x].value>> \in Pairs(t) \ {<<t[s].key, t[s].value>>}
    <3>1. x \in DOMAIN t /\ x # s /\ u[x] = t[x] /\ t[x].key # NoKey
      BY <1>2, <2>2 DEF Keyed
    <3>2. t[x].key # t[s].key
      BY <1>1, <2>1, <3>1
    <3> QED
      BY <3>1, <3>2 DEF Pairs, Keyed
  <2>3. ASSUME NEW x \in Keyed(t), <<t[x].key, t[x].value>> # <<t[s].key, t[s].value>>
        PROVE  <<t[x].key, t[x].value>> \in Pairs(u)
    <3>1. x # s
      BY <2>3
    <3> QED
      BY <1>2, <3>1 DEF Pairs, Keyed
  <2>4. Pairs(u) \subseteq Pairs(t) \ {<<t[s].key, t[s].value>>}
    BY <2>2 DEF Pairs
  <2>5. Pairs(t) \ {<<t[s].key, t[s].value>>} \subseteq Pairs(u)
    BY <2>3 DEF Pairs
  <2> QED
    BY <2>4, <2>5
<1>8. \A x \in DOMAIN u : Children(u, x) = Children(t, x) \ {s}
  BY <1>2 DEF Children
<1> QED
  BY <1>2, <1>3, <1>4, <1>5, <1>6, <1>7, <1>8 DEF Frame, IsDropped

\* A node loses its entry.
Clears(u, t, s) ==
  /\ s \in DOMAIN t /\ t[s].key # NoKey
  /\ u = [t EXCEPT ![s].key = NoKey, ![s].value = NoValue]

LEMMA EntryCleared ==
  ASSUME NEW t, Frame(t), NEW s, NEW u, Clears(u, t, s)
  PROVE  /\ Frame(u) /\ Pairs(u) = Pairs(t) \ {<<t[s].key, t[s].value>>}
         /\ DOMAIN u = DOMAIN t /\ u[s].key = NoKey /\ \A x \in DOMAIN t \ {s} : u[x] = t[x]
         /\ \A x \in DOMAIN t : Children(u, x) = Children(t, x)
<1>1. /\ s \in DOMAIN t /\ t[s].key # NoKey
      /\ t[s] \in Nodes /\ t \in [DOMAIN t -> Nodes]
  BY DEF Frame, Typed, Clears
<1>2. /\ DOMAIN u = DOMAIN t /\ u[s] \in Nodes
      /\ u[s].end = t[s].end /\ u[s].chars = t[s].chars /\ u[s].key = NoKey
      /\ \A x \in DOMAIN t \ {s} : u[x] = t[x]
      /\ u \in [DOMAIN t -> Nodes]
  BY <1>1 DEF Nodes, Clears
<1>3. \A x \in DOMAIN t : u[x].end = t[x].end /\ u[x].chars = t[x].chars
  BY <1>1, <1>2
<1>4. Typed(u)
  BY <1>2 DEF Frame, Typed
<1>5. Rooted(u)
  BY <1>1, <1>2 DEF Frame, Rooted
<1>6. Spelled(u)
  <2> SUFFICES ASSUME NEW x \in DOMAIN u
               PROVE  /\ IsPrefix(x, u[x].end)
                      /\ u[x].key \in {NoKey, u[x].end}
                      /\ u[x].key # NoKey => u[x].value \in Values
                      /\ Matches(u[x])
    BY DEF Spelled
  <2>1. /\ x \in DOMAIN t /\ IsPrefix(x, t[x].end) /\ t[x].key \in {NoKey, t[x].end}
        /\ t[x].key # NoKey => t[x].value \in Values
        /\ Matches(t[x])
    BY <1>2, NodeFacts DEF Frame
  <2>2. Matches(u[x])
    BY <1>2, <1>3, <2>1 DEF Matches
  <2> QED
    BY <1>1, <1>2, <1>3, <2>1, <2>2
<1>7. Laid(u)
  BY <1>2, <1>3 DEF Frame, Laid
<1>8. Pairs(u) = Pairs(t) \ {<<t[s].key, t[s].value>>}
  <2>1. \A x, y \in DOMAIN t : t[x].key # NoKey /\ t[x].key = t[y].key => x = y
    BY EndsApart, KeyFacts
  <2>2. ASSUME NEW x \in Keyed(u)
        PROVE  <<u[x].key, u[x].value>> \in Pairs(t) \ {<<t[s].key, t[s].value>>}
    <3>1. x \in DOMAIN t /\ x # s /\ u[x] = t[x] /\ t[x].key # NoKey
      BY <1>2, <2>2 DEF Keyed
    <3>2. t[x].key # t[s].key
      BY <1>1, <2>1, <3>1
    <3> QED
      BY <3>1, <3>2 DEF Pairs, Keyed
  <2>3. ASSUME NEW x \in Keyed(t), <<t[x].key, t[x].value>> # <<t[s].key, t[s].value>>
        PROVE  <<t[x].key, t[x].value>> \in Pairs(u)
    <3>1. x # s
      BY <2>3
    <3> QED
      BY <1>2, <3>1 DEF Pairs, Keyed
  <2>4. Pairs(u) \subseteq Pairs(t) \ {<<t[s].key, t[s].value>>}
    BY <2>2 DEF Pairs
  <2>5. Pairs(t) \ {<<t[s].key, t[s].value>>} \subseteq Pairs(u)
    BY <2>3 DEF Pairs
  <2> QED
    BY <2>4, <2>5
<1>9. \A x \in DOMAIN t : Children(u, x) = Children(t, x)
  BY <1>2, <1>3 DEF Children
<1> QED
  BY <1>2, <1>4, <1>5, <1>6, <1>7, <1>8, <1>9 DEF Frame

\* Where no node is idle, there is nothing to prune.
LEMMA NothingToPrune ==
  ASSUME NEW t, NoIdleNode(t), NEW s \in DOMAIN t
  PROVE  Prune(t, s) = t
BY DEF Prune, NoIdleNode

\* A node that may be idle, but has a child, is pruned.
LEMMA Pruned ==
  ASSUME NEW t, Frame(t), NEW s \in DOMAIN t, BusyBut(t, s),
         s # <<>> /\ t[s].key = NoKey => Children(t, s) # {}
  PROVE  /\ Trie(Prune(t, s)) /\ Pairs(Prune(t, s)) = Pairs(t)
         /\ \A x \in DOMAIN t : x \notin Children(t, s) => x \in DOMAIN Prune(t, s)
<1>1. CASE s # <<>> /\ t[s].key = NoKey /\ \E c \in DOMAIN t : Children(t, s) = {c}
  <2> DEFINE child == CHOOSE c \in DOMAIN t : Children(t, s) = {c}
             u == Prune(t, s)
  <2>1. Children(t, s) = {child}
    BY <1>1
  <2>2. u = AbsorbChild(t, s, child)
    BY <1>1 DEF Prune
  <2> HIDE DEF child, u
  <2>3. Swallows(u, t, s, child)
    BY <1>1, <2>1, <2>2 DEF Swallows
  <2>4. Frame(u) /\ Pairs(u) = Pairs(t) /\ DOMAIN u = DOMAIN t \ {child} /\ NoIdleNode(u)
    BY <2>3, ChildAbsorbed
  <2> QED
    BY <2>1, <2>4 DEF Trie, Frame, u
<1>2. CASE ~(s # <<>> /\ t[s].key = NoKey /\ \E c \in DOMAIN t : Children(t, s) = {c})
  <2>1. Prune(t, s) = t
    BY <1>2 DEF Prune
  <2>2. ASSUME s # <<>>, t[s].key = NoKey PROVE \E c, d \in Children(t, s) : c # d
    <3>1. Children(t, s) # {} /\ Children(t, s) \subseteq DOMAIN t
      BY <2>2 DEF Children
    <3> QED
      BY <1>2, <2>2, <3>1
  <2>3. NoIdleNode(t)
    BY <2>2 DEF NoIdleNode, BusyBut
  <2> QED
    BY <2>1, <2>3 DEF Trie, Frame
<1> QED
  BY <1>1, <1>2

\* qsDictionaryRemove() removes the key if it is there, and nothing else
\* becomes of the other keys.
LEMMA RemovedFacts ==
  ASSUME NEW t, Trie(t), NEW key
  PROVE  /\ Trie(Removed(t, key)) /\ Pairs(Removed(t, key)) \subseteq Pairs(t)
         /\ \A n, v : <<n, v>> \in Pairs(Removed(t, key)) <=>
                        <<n, v>> \in Pairs(t) /\ n # key
<1>1. Frame(t) /\ NoIdleNode(t)
  BY DEF Trie, Frame
<1>2. FindEntry(t, key) = {x \in DOMAIN t : t[x].key # NoKey /\ t[x].key = key}
  BY <1>1, FindEntryFacts
<1>3. CASE FindEntry(t, key) = {}
  <2>1. Removed(t, key) = t
    BY <1>3 DEF Removed
  <2>2. \A n, v : <<n, v>> \in Pairs(t) => n # key
    BY <1>2, <1>3, PairFacts
  <2> QED
    BY <2>1, <2>2
<1>4. CASE FindEntry(t, key) # {}
  <2> DEFINE s == CHOOSE x \in FindEntry(t, key) : TRUE
             up == CHOOSE p \in DOMAIN t : s \in Children(t, p)
             w == Emptied(t, s)
             new == Removed(t, key)
  <2>1. s \in FindEntry(t, key)
    BY <1>4
  <2>2. new = Prune(w, up)
    BY <1>4 DEF Removed
  <2> HIDE DEF s
  <2>3. s \in DOMAIN t /\ t[s].key # NoKey /\ t[s].key = key
    BY <1>2, <2>1
  <2>4. s # <<>>
    BY <1>1, <2>3 DEF Frame, Rooted
  <2>5. up \in DOMAIN t /\ s \in Children(t, up)
    <3>1. \E p \in DOMAIN t : s \in Children(t, p)
      BY <1>1, <2>3, <2>4, ParentExists
    <3> QED
      BY <3>1
  <2> HIDE DEF up, w, new
  <2>6. up # s
    <3>1. s \in Seq(Nat) /\ Len(t[s].end) \in Nat /\ Len(s) <= Len(t[s].end) /\ Len(s) \in Nat
      BY <1>1, <2>3, NodeFacts DEF Frame
    <3>2. Len(s) = Len(t[up].end) + 1
      BY <1>1, <2>5, ChildFacts DEF Frame
    <3> QED
      BY <3>1, <3>2
  <2>7. Trie(new) /\ Pairs(new) = Pairs(t) \ {<<t[s].key, t[s].value>>}
    <3>1. CASE Children(t, s) = {}
      <4>1. Drops(w, t, s)
        BY <2>3, <2>4, <3>1 DEF Drops, Emptied, w
      <4>2. /\ Frame(w) /\ Pairs(w) = Pairs(t) \ {<<t[s].key, t[s].value>>}
            /\ DOMAIN w = DOMAIN t \ {s} /\ \A x \in DOMAIN w : w[x] = t[x]
            /\ \A x \in DOMAIN w : Children(w, x) = Children(t, x) \ {s}
        <5>1. IsDropped(w, t, s)
          BY <1>1, <4>1, LeafDropped
        <5> QED
          BY <5>1 DEF IsDropped
      <4>3. up \in DOMAIN w
        BY <2>5, <2>6, <4>2
      <4>4. BusyBut(w, up)
        <5> SUFFICES ASSUME NEW x \in DOMAIN w \ {<<>>, up}, w[x].key = NoKey
                     PROVE  \E c, d \in Children(w, x) : c # d
          BY DEF BusyBut
        <5>1. x \in DOMAIN t /\ t[x].key = NoKey /\ x # <<>> /\ x # up
          BY <4>2
        <5>2. \E c, d \in Children(t, x) : c # d
          BY <1>1, <5>1 DEF NoIdleNode
        <5>3. s \notin Children(t, x)
          BY <1>1, <2>5, <5>1, OneParent
        <5>4. Children(w, x) = Children(t, x)
          BY <4>2, <5>3
        <5> QED
          BY <5>2, <5>4
      <4>5. ASSUME up # <<>>, w[up].key = NoKey PROVE Children(w, up) # {}
        <5>1. \E c, d \in Children(t, up) : c # d
          BY <1>1, <2>5, <4>2, <4>3, <4>5 DEF NoIdleNode
        <5> QED
          BY <4>2, <4>3, <5>1
      <4>6. Trie(Prune(w, up)) /\ Pairs(Prune(w, up)) = Pairs(w)
        BY <4>2, <4>3, <4>4, <4>5, Pruned
      <4> QED
        BY <2>2, <4>2, <4>6
    <3>2. CASE Children(t, s) # {}
      <4> DEFINE x == [t EXCEPT ![s].key = NoKey, ![s].value = NoValue]
      <4>1. w = Prune(x, s)
        BY <3>2 DEF Emptied, w
      <4>2. Clears(x, t, s)
        BY <2>3 DEF Clears
      <4> HIDE DEF x
      <4>3. /\ Frame(x) /\ Pairs(x) = Pairs(t) \ {<<t[s].key, t[s].value>>}
            /\ DOMAIN x = DOMAIN t /\ x[s].key = NoKey /\ \A y \in DOMAIN t \ {s} : x[y] = t[y]
            /\ \A y \in DOMAIN t : Children(x, y) = Children(t, y)
        BY <1>1, <4>2, EntryCleared
      <4>4. BusyBut(x, s)
        BY <1>1, <4>3 DEF BusyBut, NoIdleNode
      <4>5. /\ Trie(w) /\ Pairs(w) = Pairs(x)
            /\ \A y \in DOMAIN x : y \notin Children(x, s) => y \in DOMAIN w
        BY <2>3, <3>2, <4>1, <4>3, <4>4, Pruned
      <4>6. up \notin Children(t, s)
        <5> SUFFICES ASSUME up \in Children(t, s) PROVE FALSE
          OBVIOUS
        <5>1. Len(up) = Len(t[s].end) + 1 /\ Len(s) = Len(t[up].end) + 1
          BY <1>1, <2>3, <2>5, ChildFacts DEF Frame
        <5>2. /\ Len(s) \in Nat /\ Len(t[s].end) \in Nat /\ Len(s) <= Len(t[s].end)
              /\ Len(up) \in Nat /\ Len(t[up].end) \in Nat /\ Len(up) <= Len(t[up].end)
          BY <1>1, <2>3, <2>5, NodeFacts DEF Frame
        <5> QED
          BY <5>1, <5>2
      <4>7. up \in DOMAIN w
        BY <2>3, <2>5, <4>3, <4>5, <4>6
      <4>8. new = w
        BY <2>2, <4>5, <4>7, NothingToPrune DEF Trie
      <4> QED
        BY <4>3, <4>5, <4>8
    <3> QED
      BY <3>1, <3>2
  <2>8. \A n, v : <<n, v>> \in Pairs(new) <=> <<n, v>> \in Pairs(t) /\ n # key
    <3>1. <<key, t[s].value>> \in Pairs(t)
      BY <2>3, PairFacts
    <3>2. \A v : <<key, v>> \in Pairs(t) => v = t[s].value
      BY <1>1, <3>1, KeyFacts
    <3> QED
      BY <2>3, <2>7, <3>2
  <2> QED
    BY <2>7, <2>8 DEF new
<1> QED
  BY <1>3, <1>4

-----------------------------------------------------------------------------
(***************************************************************************)
(* A dictionary that was just made, and one whose values change.           *)
(***************************************************************************)

LEMMA EmptyTrieFacts == Trie(EmptyTrie) /\ Pairs(EmptyTrie) = {}
<1> DEFINE t == EmptyTrie
<1>1. <<>> \in Seq(Nat) /\ Len(<<>>) = 0
  BY EmptySeq
<1>2. /\ DOMAIN t = {<<>>} /\ t[<<>>] = Node(<<>>, <<>>, NoKey, NoValue)
      /\ t \in [DOMAIN t -> {Node(<<>>, <<>>, NoKey, NoValue)}]
  BY DEF EmptyTrie
<1>3. Compress(0, 0, 0) = {}
  <2>1. 0 .. 0 - Group = {}
    BY GroupAssumption
  <2> QED
    BY <2>1 DEF Compress
<1>4. Node(<<>>, <<>>, NoKey, NoValue) = [end |-> <<>>, chars |-> {}, key |-> NoKey, value |-> NoValue]
  BY <1>1, <1>3 DEF Node
<1>5. Node(<<>>, <<>>, NoKey, NoValue) \in Nodes
  <2>1. \A end \in Seq(Nat), chars \in SUBSET Nat :
           [end |-> end, chars |-> chars, key |-> NoKey, value |-> NoValue] \in Nodes
    BY DEF Nodes
  <2>2. {} \in SUBSET Nat
    OBVIOUS
  <2> QED
    BY <1>1, <1>4, <2>1, <2>2
<1> HIDE DEF t
<1>6. t[<<>>].end = <<>> /\ t[<<>>].chars = {} /\ t[<<>>].key = NoKey
  BY <1>2, <1>4
<1>7. Typed(t)
  <2>1. IsFiniteSet(DOMAIN t)
    BY <1>2, FS_Singleton
  <2>2. t \in [DOMAIN t -> Nodes]
    BY <1>2, <1>5
  <2> QED
    BY <1>1, <1>2, <2>1, <2>2 DEF Typed
<1>8. Rooted(t)
  BY <1>2, <1>6 DEF Rooted
<1>9. Spelled(t)
  BY <1>1, <1>2, <1>6, PrefixSelf DEF Spelled, Matches
<1>10. Laid(t)
  BY <1>1, <1>2 DEF Laid, Above
<1>11. NoIdleNode(t)
  BY <1>2 DEF NoIdleNode
<1>12. Pairs(t) = {}
  BY <1>2, <1>6 DEF Pairs, Keyed
<1> QED
  BY <1>7, <1>8, <1>9, <1>10, <1>11, <1>12 DEF Trie, t

\* In u the nodes are those of t, with values that may be others.
Revalues(u, t) ==
  /\ DOMAIN u = DOMAIN t /\ u \in [DOMAIN t -> Nodes]
  /\ \A s \in DOMAIN t : /\ u[s].end = t[s].end
                         /\ u[s].chars = t[s].chars
                         /\ u[s].key = t[s].key
                         /\ t[s].key # NoKey => u[s].value \in Values

LEMMA Revalued ==
  \A t, u : Trie(t) /\ Revalues(u, t) => Trie(u) /\ Keyed(u) = Keyed(t) /\ Keys(u) = Keys(t)
<1> SUFFICES ASSUME NEW t, NEW u, Trie(t), Revalues(u, t)
             PROVE  Trie(u) /\ Keyed(u) = Keyed(t) /\ Keys(u) = Keys(t)
  OBVIOUS
<1>1. DOMAIN u = DOMAIN t /\ u \in [DOMAIN t -> Nodes]
  BY DEF Revalues
<1>2. \A s \in DOMAIN t : u[s].end = t[s].end /\ u[s].chars = t[s].chars /\ u[s].key = t[s].key
  BY DEF Revalues
<1>3. \A s \in DOMAIN t : t[s].key # NoKey => u[s].value \in Values
  BY DEF Revalues
<1>4. \A s \in DOMAIN t : Children(u, s) = Children(t, s)
  BY <1>1, <1>2 DEF Children
<1>5. Typed(u) /\ Rooted(u)
  BY <1>1, <1>2 DEF Trie, Typed, Rooted
<1>6. Spelled(u)
  BY <1>1, <1>2, <1>3 DEF Trie, Spelled, Matches
<1>7. Laid(u)
  BY <1>1, <1>2 DEF Trie, Laid
<1>8. NoIdleNode(u)
  BY <1>1, <1>2, <1>4 DEF Trie, NoIdleNode
<1>9. Keyed(u) = Keyed(t)
  BY <1>1, <1>2 DEF Keyed
<1>10. Keys(u) = Keys(t)
  BY <1>2, <1>9 DEF Keys, Keyed
<1> QED
  BY <1>5, <1>6, <1>7, <1>8, <1>9, <1>10 DEF Trie

\* What a get callback that is added leaves a parameter.
LEMMA AddedFacts ==
  ASSUME NEW p \in Values, NEW type, NEW cb \in Callbacks
  PROVE  Added(p, type, cb) \in Values
<1> DEFINE g == Append(p.gets, cb)
           q == [p EXCEPT !.gets = Append(@, cb), !.array = "live"]
<1>1. p \in ParameterValues /\ Once(p.gets) /\ p.gets \in Seq(Callbacks)
  BY DEF Values, ParameterValues
<1>2. CASE type \notin {AnyType, p.type} \/ Present(p, cb)
  BY <1>2 DEF Added
<1>3. CASE ~(type \notin {AnyType, p.type} \/ Present(p, cb))
  <2>1. Added(p, type, cb) = q
    BY <1>3 DEF Added
  <2>2. /\ Len(p.gets) \in Nat /\ DOMAIN p.gets = 1 .. Len(p.gets)
        /\ g \in Seq(Callbacks) /\ DOMAIN g = 1 .. Len(p.gets) + 1
        /\ \A i \in DOMAIN p.gets : g[i] = p.gets[i]
        /\ g[Len(p.gets) + 1] = cb
    BY <1>1, AppendedList, LenProperties
  <2>3. q \in ParameterValues /\ q.gets = g
    BY <1>1, <2>2 DEF ParameterValues
  <2> HIDE DEF g, q
  <2>4. \A i \in DOMAIN p.gets : p.gets[i].fn = cb.fn => ~cb.one
    BY <1>3 DEF Present
  <2>5. Once(g)
    <3> SUFFICES ASSUME NEW i \in DOMAIN g, NEW j \in DOMAIN g, i < j, g[i].fn = g[j].fn
                 PROVE  ~g[j].one
      BY DEF Once
    <3>1. i \in DOMAIN p.gets
      BY <2>2
    <3>2. CASE j = Len(p.gets) + 1
      BY <2>2, <2>4, <3>1, <3>2
    <3>3. CASE j # Len(p.gets) + 1
      <4>1. j \in DOMAIN p.gets
        BY <2>2, <3>3
      <4> QED
        BY <1>1, <2>2, <3>1, <4>1 DEF Once
    <3> QED
      BY <3>2, <3>3
  <2> QED
    BY <2>1, <2>3, <2>5 DEF Values
<1> QED
  BY <1>2, <1>3

-----------------------------------------------------------------------------
(***************************************************************************)
(* What a loop over a list picks of it.                                    *)
(***************************************************************************)

\* q is what the first n of list have in wanted, in their order.
Picks(q, S, list, wanted, n) ==
  /\ q \in Seq(S) /\ Len(q) <= n
  /\ \E at \in [DOMAIN q -> 1 .. n] :
        /\ \A i \in DOMAIN q : q[i] = list[at[i]]
        /\ \A i, j \in DOMAIN q : i < j => at[i] < at[j]
        /\ Range(at) = {k \in 1 .. n : list[k] \in wanted}

LEMMA PicksNone ==
  \A S, list, wanted : Picks(<<>>, S, list, wanted, 0)
<1> SUFFICES ASSUME NEW S, NEW list, NEW wanted PROVE Picks(<<>>, S, list, wanted, 0)
  OBVIOUS
<1> DEFINE q == <<>>
           at == [i \in {} |-> 0]
<1>1. q \in Seq(S) /\ Len(q) = 0 /\ DOMAIN q = {} /\ 1 .. 0 = {} /\ Len(q) <= 0
  BY EmptySeq
<1>2. at \in [{} -> {}] /\ Range(at) = {}
  BY DEF Range
<1> HIDE DEF at, q
<1>3. at \in [DOMAIN q -> 1 .. 0] /\ Range(at) = {k \in 1 .. 0 : list[k] \in wanted}
  BY <1>1, <1>2
<1>4. Picks(q, S, list, wanted, 0)
  BY <1>1, <1>3 DEF Picks
<1> QED
  BY <1>4 DEF q

LEMMA PicksMore ==
  \A S : \A list \in Seq(S) : \A q, wanted : \A n \in 0 .. Len(list) - 1 :
    Picks(q, S, list, wanted, n) =>
      Picks(IF list[n + 1] \in wanted THEN Append(q, list[n + 1]) ELSE q,
            S, list, wanted, n + 1)
<1> SUFFICES ASSUME NEW S, NEW list \in Seq(S), NEW q, NEW wanted, NEW n \in 0 .. Len(list) - 1,
                    Picks(q, S, list, wanted, n)
             PROVE  Picks(IF list[n + 1] \in wanted THEN Append(q, list[n + 1]) ELSE q,
                          S, list, wanted, n + 1)
  OBVIOUS
<1>1. Len(list) \in Nat /\ n \in Nat /\ n + 1 \in 1 .. Len(list) /\ list[n + 1] \in S
  BY LenProperties, ElementOfSeq
<1>2. q \in Seq(S) /\ Len(q) <= n /\ Len(q) \in Nat /\ DOMAIN q = 1 .. Len(q)
  BY LenProperties DEF Picks
<1>3. PICK at \in [DOMAIN q -> 1 .. n] :
        /\ \A i \in DOMAIN q : q[i] = list[at[i]]
        /\ \A i, j \in DOMAIN q : i < j => at[i] < at[j]
        /\ Range(at) = {k \in 1 .. n : list[k] \in wanted}
  BY DEF Picks
<1>4. 1 .. n + 1 = (1 .. n) \cup {n + 1} /\ n + 1 \notin 1 .. n
  BY <1>1
<1>5. CASE list[n + 1] \notin wanted
  <2>1. at \in [DOMAIN q -> 1 .. n + 1]
    BY <1>3, <1>4
  <2>2. Range(at) = {k \in 1 .. n + 1 : list[k] \in wanted}
    BY <1>3, <1>4, <1>5
  <2>3. Len(q) <= n + 1
    BY <1>1, <1>2
  <2> QED
    BY <1>2, <1>3, <1>5, <2>1, <2>2, <2>3 DEF Picks
<1>6. CASE list[n + 1] \in wanted
  <2> DEFINE r == Append(q, list[n + 1])
             m == Len(q) + 1
             to == [i \in 1 .. m |-> IF i = m THEN n + 1 ELSE at[i]]
  <2>1. /\ r \in Seq(S) /\ DOMAIN r = 1 .. m /\ Len(r) = m
        /\ \A i \in DOMAIN q : r[i] = q[i]
        /\ r[m] = list[n + 1]
    BY <1>1, <1>2, AppendedList
  <2>2. 1 .. m = DOMAIN q \cup {m} /\ m \notin DOMAIN q /\ m \in Nat /\ m <= n + 1
    BY <1>1, <1>2
  <2> HIDE DEF r, m
  <2>3. /\ DOMAIN to = 1 .. m /\ to[m] = n + 1
        /\ \A i \in DOMAIN q : to[i] = at[i] /\ at[i] \in 1 .. n
    BY <2>2
  <2>4. to \in [DOMAIN r -> 1 .. n + 1]
    BY <1>4, <2>1, <2>2, <2>3
  <2> HIDE DEF to
  <2>5. \A i \in DOMAIN r : r[i] = list[to[i]]
    BY <1>3, <2>1, <2>2, <2>3
  <2>6. ASSUME NEW i \in DOMAIN r, NEW j \in DOMAIN r, i < j
        PROVE  to[i] < to[j]
    <3>1. i \in DOMAIN q
      BY <2>1, <2>2, <2>6, <1>2
    <3>2. CASE j = m
      BY <1>1, <2>3, <3>1, <3>2
    <3>3. CASE j # m
      BY <1>3, <2>1, <2>2, <2>3, <2>6, <3>1, <3>3
    <3> QED
      BY <3>2, <3>3
  <2>7. Range(to) = {k \in 1 .. n + 1 : list[k] \in wanted}
    <3>1. Range(to) = Range(at) \cup {n + 1}
      BY <2>2, <2>3 DEF Range
    <3> QED
      BY <1>3, <1>4, <1>6, <3>1
  <2>8. Picks(r, S, list, wanted, n + 1)
    BY <2>1, <2>2, <2>4, <2>5, <2>6, <2>7 DEF Picks
  <2> QED
    BY <1>6, <2>8 DEF r
<1> QED
  BY <1>5, <1>6

LEMMA PickedFacts ==
  ASSUME NEW S, NEW list \in Seq(S), NEW wanted
  PROVE  Picks(Picked(list, wanted), S, list, wanted, Len(list))
<1> DEFINE N == Len(list)
           Is(f) == f = [i \in 0 .. Len(list) |->
                           IF i = 0 THEN <<>>
                           ELSE IF list[i] \in wanted THEN Append(f[i - 1], list[i])
                           ELSE f[i - 1]]
           upto == CHOOSE f : Is(f)
           step == [i \in 1 .. N |-> [q \in Seq(S) |->
                      IF list[i] \in wanted THEN Append(q, list[i]) ELSE q]]
<1>1. N \in Nat /\ \A i \in 1 .. N : list[i] \in S
  BY LenProperties, ElementOfSeq
<1>2. Picked(list, wanted) = upto[N]
  BY DEF Picked
<1>3. step \in [1 .. N -> [Seq(S) -> Seq(S)]]
  <2>1. \A i \in 1 .. N : \A q \in Seq(S) : Append(q, list[i]) \in Seq(S)
    BY <1>1, AppendProperties
  <2> HIDE DEF N
  <2> QED
    BY <2>1
<1>4. PICK g : Stepwise(g, Seq(S), <<>>, N, step)
  <2>1. <<>> \in Seq(S)
    BY EmptySeq
  <2> HIDE DEF N, step
  <2> QED
    BY <1>1, <1>3, <2>1, StepwiseExists
<1>5. /\ g \in [0 .. N -> Seq(S)] /\ g[0] = <<>>
      /\ \A i \in 1 .. N : g[i] = IF list[i] \in wanted THEN Append(g[i - 1], list[i]) ELSE g[i - 1]
  <2>1. \A i \in 1 .. N : i - 1 \in 0 .. N
    BY <1>1
  <2>2. /\ g \in [0 .. N -> Seq(S)] /\ g[0] = <<>>
        /\ \A i \in 1 .. N : g[i] = step[i][g[i - 1]]
    BY <1>4 DEF Stepwise
  <2> HIDE DEF N
  <2> QED
    BY <2>1, <2>2
<1> HIDE DEF step
<1>6. Is(g)
  <2>1. \A i \in 0 .. N : g[i] = IF i = 0 THEN <<>>
                                 ELSE IF list[i] \in wanted THEN Append(g[i - 1], list[i])
                                 ELSE g[i - 1]
    <3> HIDE DEF N
    <3>1. \A i \in 0 .. N : i = 0 \/ i \in 1 .. N
      BY <1>1
    <3>2. \A i \in 1 .. N : i # 0
      OBVIOUS
    <3> QED
      BY <1>5, <3>1, <3>2
  <2>2. g = [i \in 0 .. N |-> g[i]]
    BY <1>5
  <2> QED
    BY <2>1, <2>2
<1>7. Is(upto)
  <2> HIDE DEF Is
  <2> QED
    BY <1>6
<1>8. /\ upto[0] = <<>>
      /\ \A i \in 1 .. N : upto[i] = IF list[i] \in wanted THEN Append(upto[i - 1], list[i])
                                     ELSE upto[i - 1]
  <2> HIDE DEF upto
  <2>1. upto = [i \in 0 .. N |-> IF i = 0 THEN <<>>
                                 ELSE IF list[i] \in wanted THEN Append(upto[i - 1], list[i])
                                 ELSE upto[i - 1]]
    BY <1>7
  <2> HIDE DEF N, Is
  <2>2. 0 \in 0 .. N /\ \A i \in 1 .. N : i \in 0 .. N /\ i # 0
    BY <1>1
  <2> QED
    BY <2>1, <2>2
<1> HIDE DEF upto, Is
<1> DEFINE T == {n \in 0 .. N : Picks(upto[n], S, list, wanted, n)}
<1>9. 0 \in T
  BY <1>1, <1>8, PicksNone
<1>10. ASSUME NEW n \in 0 .. N - 1, n \in T PROVE n + 1 \in T
  <2>1. n + 1 \in 1 .. N /\ (n + 1) - 1 = n /\ n + 1 \in 0 .. N
    BY <1>1
  <2>2. upto[n + 1] = IF list[n + 1] \in wanted THEN Append(upto[n], list[n + 1]) ELSE upto[n]
    BY <1>8, <2>1
  <2>3. Picks(upto[n], S, list, wanted, n)
    BY <1>10
  <2>4. Picks(upto[n + 1], S, list, wanted, n + 1)
    BY <2>2, <2>3, PicksMore
  <2> QED
    BY <2>1, <2>4
<1>11. 0 .. N \subseteq T
  <2> HIDE DEF T, N
  <2> QED
    BY <1>1, <1>9, <1>10, UptoInduction
<1>12. N \in 0 .. N
  BY <1>1
<1> QED
  BY <1>2, <1>11, <1>12

\* The callbacks that stay are those to be kept, in their order.
LEMMA KeptFacts ==
  ASSUME NEW gets \in Seq(Callbacks)
  PROVE  /\ Kept(gets) \in Seq(Callbacks) /\ Len(Kept(gets)) <= Len(gets)
         /\ Once(gets) => Once(Kept(gets))
         /\ Book!Keeps(Kept(gets), gets)
<1> DEFINE wanted == {cb \in Callbacks : cb.keep}
           q == Kept(gets)
<1>1. Picks(q, Callbacks, gets, wanted, Len(gets))
  BY PickedFacts DEF Kept
<1> HIDE DEF q
<1>2. DOMAIN gets = 1 .. Len(gets) /\ Len(gets) \in Nat /\ \A k \in DOMAIN gets : gets[k] \in Callbacks
  BY LenProperties, ElementOfSeq
<1>3. q \in Seq(Callbacks) /\ Len(q) <= Len(gets) /\ DOMAIN q = 1 .. Len(q) /\ Len(q) \in Nat
  BY <1>1, LenProperties DEF Picks
<1>4. PICK at \in [DOMAIN q -> DOMAIN gets] :
        /\ \A i \in DOMAIN q : q[i] = gets[at[i]]
        /\ \A i, j \in DOMAIN q : i < j => at[i] < at[j]
        /\ Range(at) = {k \in DOMAIN gets : gets[k] \in wanted}
  BY <1>1, <1>2 DEF Picks
<1>5. Once(gets) => Once(q)
  BY <1>4 DEF Once
<1>6. Range(at) = {k \in DOMAIN gets : gets[k].keep}
  BY <1>2, <1>4
<1>7. Book!Keeps(q, gets)
  BY <1>4, <1>6 DEF Book!Keeps, Book!Range, Range
<1> QED
  BY <1>3, <1>5, <1>7 DEF q

LEMMA SqueezedFacts ==
  ASSUME NEW p \in Values
  PROVE  /\ Squeezed(p) \in Values
         /\ Squeezed(p).type = p.type /\ Squeezed(p).gets = Kept(p.gets)
<1>1. p \in ParameterValues /\ Once(p.gets) /\ p.gets \in Seq(Callbacks)
  BY DEF Values, ParameterValues
<1>2. Kept(p.gets) \in Seq(Callbacks) /\ Len(Kept(p.gets)) <= Len(p.gets) /\ Once(Kept(p.gets))
  BY <1>1, KeptFacts
<1>3. CASE p.gets = <<>>
  <2>1. Len(p.gets) = 0 /\ Len(Kept(p.gets)) \in Nat
    BY <1>2, <1>3, EmptySeq, LenProperties
  <2>2. Len(Kept(p.gets)) = 0
    BY <1>2, <2>1
  <2>3. Kept(p.gets) = <<>>
    BY <1>2, <2>2, EmptySeq
  <2> QED
    BY <1>3, <2>3 DEF Squeezed
<1>4. CASE p.gets # <<>>
  <2> DEFINE k == Kept(p.gets)
             q == [p EXCEPT !.gets = k, !.array = IF k = <<>> THEN "freed" ELSE "live"]
  <2>1. Squeezed(p) = q
    BY <1>4 DEF Squeezed
  <2> HIDE DEF k
  <2>2. k \in Seq(Callbacks) /\ Once(k)
    BY <1>2 DEF k
  <2>3. q \in ParameterValues /\ q.gets = k /\ q.type = p.type
    BY <1>1, <2>2 DEF ParameterValues
  <2> HIDE DEF q
  <2>4. q \in Values
    BY <2>2, <2>3 DEF Values
  <2> QED
    BY <2>1, <2>3, <2>4 DEF k
<1> QED
  BY <1>3, <1>4

-----------------------------------------------------------------------------
(***************************************************************************)
(* A pass over the dictionary.                                             *)
(***************************************************************************)

\* a and b part at the digit i, where a has the smaller one.
Parts(a, b, i) ==
  /\ i \in 1 .. Len(a) /\ i \in 1 .. Len(b) /\ a[i] < b[i]
  /\ \A k \in 1 .. i - 1 : a[k] = b[k]

LEMMA BeforeMeaning ==
  \A a, b \in Seq(Nat) : Before(a, b) <=> IsPrefix(a, b) \/ \E i \in Nat : Parts(a, b, i)
<1> SUFFICES ASSUME NEW a \in Seq(Nat), NEW b \in Seq(Nat)
             PROVE  Before(a, b) <=> IsPrefix(a, b) \/ \E i \in Nat : Parts(a, b, i)
  OBVIOUS
<1>1. Len(a) \in Nat /\ Len(b) \in Nat /\ DOMAIN a = 1 .. Len(a) /\ DOMAIN b = 1 .. Len(b)
  BY LenProperties
<1>2. ASSUME NEW i \in Nat, i \in DOMAIN a, i \in DOMAIN b
      PROVE  SubSeq(a, 1, i - 1) = SubSeq(b, 1, i - 1) <=> \A k \in 1 .. i - 1 : a[k] = b[k]
  <2> DEFINE p == SubSeq(a, 1, i - 1)
             q == SubSeq(b, 1, i - 1)
  <2>1. i - 1 \in Nat /\ i - 1 <= Len(a) /\ i - 1 <= Len(b)
    BY <1>1, <1>2
  <2>2. \A k \in 1 .. i - 1 : a[k] \in Nat /\ b[k] \in Nat
    BY <1>1, <2>1, ElementOfSeq
  <2>3. /\ p \in Seq(Nat) /\ Len(p) = i - 1 /\ \A k \in 1 .. i - 1 : p[k] = a[k]
        /\ q \in Seq(Nat) /\ Len(q) = i - 1 /\ \A k \in 1 .. i - 1 : q[k] = b[k]
    <3>1. /\ p \in Seq(Nat) /\ Len(p) = IF 1 <= i - 1 THEN i - 1 - 1 + 1 ELSE 0
          /\ \A k \in 1 .. i - 1 - 1 + 1 : p[k] = a[1 + k - 1]
      BY <1>1, <2>1, <2>2, SubSeqProperties
    <3>2. /\ q \in Seq(Nat) /\ Len(q) = IF 1 <= i - 1 THEN i - 1 - 1 + 1 ELSE 0
          /\ \A k \in 1 .. i - 1 - 1 + 1 : q[k] = b[1 + k - 1]
      BY <1>1, <2>1, <2>2, SubSeqProperties
    <3> HIDE DEF p, q
    <3>3. i - 1 - 1 + 1 = i - 1 /\ (IF 1 <= i - 1 THEN i - 1 - 1 + 1 ELSE 0) = i - 1
      BY <2>1
    <3>4. \A k \in 1 .. i - 1 : 1 + k - 1 = k
      OBVIOUS
    <3> QED
      BY <3>1, <3>2, <3>3, <3>4
  <2> HIDE DEF p, q
  <2>4. p = q <=> \A k \in 1 .. i - 1 : p[k] = q[k]
    BY <2>3, SeqEqual
  <2> QED
    BY <2>3, <2>4 DEF p, q
<1>3. ASSUME NEW i \in DOMAIN a \cap DOMAIN b, a[i] < b[i],
             SubSeq(a, 1, i - 1) = SubSeq(b, 1, i - 1)
      PROVE  i \in Nat /\ Parts(a, b, i)
  BY <1>1, <1>2, <1>3 DEF Parts
<1>4. ASSUME NEW i \in Nat, Parts(a, b, i)
      PROVE  /\ i \in DOMAIN a \cap DOMAIN b /\ a[i] < b[i]
             /\ SubSeq(a, 1, i - 1) = SubSeq(b, 1, i - 1)
  <2>1. i \in DOMAIN a /\ i \in DOMAIN b /\ a[i] < b[i] /\ \A k \in 1 .. i - 1 : a[k] = b[k]
    BY <1>1, <1>4 DEF Parts
  <2> QED
    BY <1>2, <2>1
<1> QED
  BY <1>3, <1>4 DEF Before

\* A place comes before another, in the order of a pass.
Passes(a, b) == a # b /\ Before(a, b)

LEMMA PassesOneWay ==
  \A a, b \in Seq(Nat) : ~(Passes(a, b) /\ Passes(b, a))
<1> SUFFICES ASSUME NEW a \in Seq(Nat), NEW b \in Seq(Nat), Passes(a, b), Passes(b, a)
             PROVE  FALSE
  OBVIOUS
<1>1. Len(a) \in Nat /\ Len(b) \in Nat /\ a # b
  BY LenProperties DEF Passes
<1>2. \A i \in 1 .. Len(a) : a[i] \in Nat
  BY ElementOfSeq
<1>3. \A i \in 1 .. Len(b) : b[i] \in Nat
  BY ElementOfSeq
<1>4. ~(IsPrefix(a, b) /\ IsPrefix(b, a))
  BY <1>1, PrefixEqual
<1>5. ASSUME NEW x \in Seq(Nat), NEW y \in Seq(Nat), IsPrefix(x, y), NEW i \in Nat, Parts(y, x, i)
      PROVE  FALSE
  <2>1. Len(x) \in Nat /\ \A k \in 1 .. Len(x) : x[k] = y[k] /\ x[k] \in Nat
    BY <1>5, PrefixMeaning, LenProperties, ElementOfSeq
  <2>2. i \in 1 .. Len(x) /\ y[i] < x[i]
    BY <1>5 DEF Parts
  <2> QED
    BY <2>1, <2>2
<1>6. ASSUME NEW i \in Nat, NEW j \in Nat, Parts(a, b, i), Parts(b, a, j)
      PROVE  FALSE
  <2>1. /\ i \in 1 .. Len(a) /\ i \in 1 .. Len(b) /\ a[i] < b[i]
        /\ j \in 1 .. Len(a) /\ j \in 1 .. Len(b) /\ b[j] < a[j]
    BY <1>6 DEF Parts
  <2>2. \A k \in 1 .. i - 1 : a[k] = b[k]
    BY <1>6 DEF Parts
  <2>3. \A k \in 1 .. j - 1 : b[k] = a[k]
    BY <1>6 DEF Parts
  <2>4. i = j \/ i \in 1 .. j - 1 \/ j \in 1 .. i - 1
    BY <1>1, <2>1
  <2>5. a[i] \in Nat /\ b[i] \in Nat /\ a[j] \in Nat /\ b[j] \in Nat
    BY <1>2, <1>3, <2>1
  <2>6. CASE i = j
    BY <2>1, <2>5, <2>6
  <2>7. CASE i \in 1 .. j - 1
    <3>1. b[i] = a[i]
      BY <2>3, <2>7
    <3> QED
      BY <2>1, <2>5, <3>1
  <2>8. CASE j \in 1 .. i - 1
    <3>1. a[j] = b[j]
      BY <2>2, <2>8
    <3> QED
      BY <2>1, <2>5, <3>1
  <2> QED
    BY <2>4, <2>6, <2>7, <2>8
<1> QED
  BY <1>4, <1>5, <1>6, BeforeMeaning DEF Passes

LEMMA PassesOnward ==
  \A a, b, c \in Seq(Nat) : Passes(a, b) /\ Passes(b, c) => Passes(a, c)
<1> SUFFICES ASSUME NEW a \in Seq(Nat), NEW b \in Seq(Nat), NEW c \in Seq(Nat),
                    Passes(a, b), Passes(b, c)
             PROVE  Passes(a, c)
  OBVIOUS
<1>1. a # c
  BY PassesOneWay
<1>2. Len(a) \in Nat /\ Len(b) \in Nat /\ Len(c) \in Nat
  BY LenProperties
<1>3. CASE IsPrefix(a, b) /\ IsPrefix(b, c)
  BY <1>1, <1>3, PrefixTrans, BeforeMeaning DEF Passes
<1>4. ASSUME IsPrefix(a, b), NEW i \in Nat, Parts(b, c, i) PROVE Passes(a, c)
  <2>1. \A k \in 1 .. Len(a) : a[k] = b[k]
    BY <1>4, PrefixMeaning
  <2>2. i \in 1 .. Len(b) /\ i \in 1 .. Len(c) /\ b[i] < c[i]
    BY <1>4 DEF Parts
  <2>3. \A k \in 1 .. i - 1 : b[k] = c[k]
    BY <1>4 DEF Parts
  <2>4. CASE i <= Len(a)
    <3>1. i \in 1 .. Len(a) /\ \A k \in 1 .. i - 1 : k \in 1 .. Len(a)
      BY <1>2, <2>2, <2>4
    <3>2. a[i] < c[i]
      BY <2>1, <2>2, <3>1
    <3>3. \A k \in 1 .. i - 1 : a[k] = c[k]
      BY <2>1, <2>3, <3>1
    <3>4. Parts(a, c, i)
      BY <2>2, <3>1, <3>2, <3>3 DEF Parts
    <3> QED
      BY <1>1, <3>4, BeforeMeaning DEF Passes
  <2>5. CASE ~(i <= Len(a))
    <3>1. Len(a) <= Len(c) /\ \A k \in 1 .. Len(a) : k \in 1 .. i - 1
      BY <1>2, <2>2, <2>5
    <3>2. \A k \in 1 .. Len(a) : a[k] = c[k]
      BY <2>1, <2>3, <3>1
    <3>3. IsPrefix(a, c)
      BY <3>1, <3>2, PrefixMeaning
    <3> QED
      BY <1>1, <3>3, BeforeMeaning DEF Passes
  <2> QED
    BY <2>4, <2>5
<1>5. ASSUME NEW i \in Nat, Parts(a, b, i), IsPrefix(b, c) PROVE Passes(a, c)
  <2>1. Len(b) <= Len(c) /\ \A k \in 1 .. Len(b) : b[k] = c[k]
    BY <1>5, PrefixMeaning
  <2>2. i \in 1 .. Len(a) /\ i \in 1 .. Len(b) /\ a[i] < b[i]
    BY <1>5 DEF Parts
  <2>3. \A k \in 1 .. i - 1 : a[k] = b[k]
    BY <1>5 DEF Parts
  <2>4. i \in 1 .. Len(c) /\ \A k \in 1 .. i - 1 : k \in 1 .. Len(b)
    BY <1>2, <2>1, <2>2
  <2>5. \A k \in 1 .. i - 1 : a[k] = c[k]
    BY <2>1, <2>3, <2>4
  <2>6. a[i] < c[i]
    BY <2>1, <2>2
  <2>7. Parts(a, c, i)
    BY <2>2, <2>4, <2>5, <2>6 DEF Parts
  <2> QED
    BY <1>1, <2>7, BeforeMeaning DEF Passes
<1>6. ASSUME NEW i \in Nat, NEW j \in Nat, Parts(a, b, i), Parts(b, c, j) PROVE Passes(a, c)
  <2>1. i \in 1 .. Len(a) /\ i \in 1 .. Len(b) /\ a[i] < b[i]
    BY <1>6 DEF Parts
  <2>2. \A k \in 1 .. i - 1 : a[k] = b[k]
    BY <1>6 DEF Parts
  <2>3. j \in 1 .. Len(b) /\ j \in 1 .. Len(c) /\ b[j] < c[j]
    BY <1>6 DEF Parts
  <2>4. \A k \in 1 .. j - 1 : b[k] = c[k]
    BY <1>6 DEF Parts
  <2>5. CASE i < j
    <3>1. i \in 1 .. j - 1 /\ \A k \in 1 .. i - 1 : k \in 1 .. j - 1
      <4>1. i \in 1 .. j - 1
        BY <2>1, <2>5
      <4>2. ASSUME NEW k \in 1 .. i - 1 PROVE k \in 1 .. j - 1
        BY <2>5
      <4> QED
        BY <4>1, <4>2
    <3>2. i \in 1 .. Len(c)
      BY <1>2, <2>1, <2>3, <2>5
    <3>3. a[i] < c[i]
      BY <2>1, <2>4, <3>1
    <3>4. \A k \in 1 .. i - 1 : a[k] = c[k]
      BY <2>2, <2>4, <3>1
    <3>5. Parts(a, c, i)
      BY <2>1, <3>2, <3>3, <3>4 DEF Parts
    <3> QED
      BY <1>1, <3>5, BeforeMeaning DEF Passes
  <2>6. CASE ~(i < j)
    <3>1. j = i \/ j \in 1 .. i - 1
      BY <2>3, <2>6
    <3>2. \A k \in 1 .. j - 1 : k \in 1 .. i - 1
      BY <2>6
    <3>3. j \in 1 .. Len(a)
      BY <1>2, <2>1, <2>3, <2>6
    <3>4. a[j] < c[j]
      <4>1. a[j] \in Nat /\ b[j] \in Nat /\ c[j] \in Nat
        BY <2>3, <3>3, ElementOfSeq
      <4>2. a[j] = b[j] \/ a[j] < b[j]
        BY <2>1, <2>2, <3>1
      <4> QED
        BY <2>3, <4>1, <4>2
    <3>5. \A k \in 1 .. j - 1 : a[k] = c[k]
      BY <2>2, <2>4, <3>2
    <3>6. Parts(a, c, j)
      BY <2>3, <3>3, <3>4, <3>5 DEF Parts
    <3> QED
      BY <1>1, <3>6, BeforeMeaning DEF Passes
  <2> QED
    BY <2>5, <2>6
<1> QED
  BY <1>3, <1>4, <1>5, <1>6, BeforeMeaning DEF Passes

LEMMA PassesTotal ==
  \A a, b \in Seq(Nat) : a = b \/ Passes(a, b) \/ Passes(b, a)
<1> SUFFICES ASSUME NEW a \in Seq(Nat), NEW b \in Seq(Nat), a # b
             PROVE  Before(a, b) \/ Before(b, a)
  BY DEF Passes
<1>0. \A x, y \in Seq(Nat) : IsPrefix(x, y) => Before(x, y)
  BY BeforeMeaning
<1> DEFINE D == {i \in Nat : i \in 1 .. Len(a) /\ i \in 1 .. Len(b) /\ a[i] # b[i]}
<1>1. Len(a) \in Nat /\ Len(b) \in Nat
  BY LenProperties
<1>2. CASE D = {}
  <2>1. ASSUME NEW x \in Seq(Nat), NEW y \in Seq(Nat), Len(x) <= Len(y),
               \A i \in 1 .. Len(x) : i \in 1 .. Len(y) => x[i] = y[i]
        PROVE  Before(x, y)
    <3>1. Len(x) \in Nat /\ Len(y) \in Nat
      BY LenProperties
    <3>2. \A i \in 1 .. Len(x) : x[i] = y[i]
      BY <2>1, <3>1
    <3>3. IsPrefix(x, y)
      BY <2>1, <3>2, PrefixMeaning
    <3> QED
      BY <1>0, <3>3
  <2>2. \A i : i \in 1 .. Len(a) /\ i \in 1 .. Len(b) => a[i] = b[i]
    <3> SUFFICES ASSUME NEW i, i \in 1 .. Len(a), i \in 1 .. Len(b), a[i] # b[i]
                 PROVE  FALSE
      OBVIOUS
    <3>1. i \in Nat
      BY <1>1
    <3>2. i \in D
      BY <3>1
    <3> QED
      BY <1>2, <3>2
  <2>3. Len(a) <= Len(b) \/ Len(b) <= Len(a)
    BY <1>1
  <2> HIDE DEF D
  <2> QED
    BY <2>1, <2>2, <2>3
<1>3. CASE D # {}
  <2>1. PICK m \in D : \A i \in D : m <= i
    <3>1. D \in SUBSET Nat
      OBVIOUS
    <3> HIDE DEF D
    <3> QED
      BY <1>3, <3>1, LeastNatural
  <2>2. m \in Nat /\ m \in 1 .. Len(a) /\ m \in 1 .. Len(b) /\ a[m] # b[m]
    OBVIOUS
  <2>3. \A k \in 1 .. m - 1 : a[k] = b[k]
    <3> SUFFICES ASSUME NEW k \in 1 .. m - 1, a[k] # b[k] PROVE FALSE
      OBVIOUS
    <3>1. k \in D /\ ~(m <= k)
      BY <1>1, <2>2
    <3> QED
      BY <2>1, <3>1
  <2>4. a[m] \in Nat /\ b[m] \in Nat
    BY <2>2, ElementOfSeq
  <2> HIDE DEF D
  <2>5. Parts(a, b, m) \/ Parts(b, a, m)
    BY <2>2, <2>3, <2>4 DEF Parts
  <2> QED
    BY <2>2, <2>5, BeforeMeaning
<1> QED
  BY <1>2, <1>3

\* qsDictionaryForEach() comes to every key, and to each once.
LEMMA ForEachFacts ==
  ASSUME NEW t, Frame(t)
  PROVE  /\ ForEach(t) \in Seq(Names) /\ ToSet(ForEach(t)) = Keys(t)
         /\ IsInjective(ForEach(t))
         /\ IsFiniteSet(Keys(t)) /\ Len(ForEach(t)) = Cardinality(Keys(t))
<1> DEFINE S == Keyed(t)
           n == Cardinality(S)
           R == {p \in Seq(Nat) \X Seq(Nat) : Passes(p[1], p[2])}
           Orderly(q) == \A i, j \in DOMAIN q : i < j => q[i] # q[j] /\ Before(q[i], q[j])
           pass == CHOOSE q \in [1 .. n -> S] : Orderly(q)
           list == ForEach(t)
<1>1. IsFiniteSet(S) /\ S \in SUBSET DOMAIN t /\ S \in SUBSET Seq(Nat)
  <2>1. S \in SUBSET DOMAIN t
    BY DEF Keyed
  <2>2. IsFiniteSet(DOMAIN t) /\ DOMAIN t \in SUBSET Seq(Nat)
    BY DEF Frame, Typed
  <2> HIDE DEF S
  <2> QED
    BY <2>1, <2>2, FS_Subset
<1>2. \A s \in S : t[s].key # NoKey /\ t[s].key = t[s].end /\ t[s].key \in Names
  BY NodeFacts DEF Frame, Keyed
<1>3. n \in Nat
  BY <1>1, FS_CardinalityType
<1>4. list = [i \in DOMAIN pass |-> t[pass[i]].key]
  BY DEF ForEach
<1> HIDE DEF S, list
<1>5. Orders(R, S)
  <2>1. \A x, y \in S : <<x, y>> \in R <=> Passes(x, y)
    BY <1>1
  <2>2. \A x, y, z \in S : x \in Seq(Nat) /\ y \in Seq(Nat) /\ z \in Seq(Nat)
    BY <1>1
  <2> HIDE DEF R
  <2>3. \A x \in S : <<x, x>> \notin R
    BY <2>1 DEF Passes
  <2>4. \A x, y, z \in S : <<x, y>> \in R /\ <<y, z>> \in R => <<x, z>> \in R
    BY <2>1, <2>2, PassesOnward
  <2>5. \A x, y \in S : x = y \/ <<x, y>> \in R \/ <<y, x>> \in R
    BY <2>1, <2>2, PassesTotal
  <2> QED
    BY <2>3, <2>4, <2>5 DEF Orders
<1>6. \E q \in [1 .. n -> S] : Orderly(q)
  <2>1. PICK q \in [1 .. n -> S] : \A i, j \in DOMAIN q : i < j => <<q[i], q[j]>> \in R
    <3> HIDE DEF R
    <3> QED
      BY <1>1, <1>5, OrderedList
  <2>2. Orderly(q)
    BY <2>1 DEF Passes
  <2> QED
    BY <2>2
<1>7. pass \in [1 .. n -> S] /\ Orderly(pass)
  <2> HIDE DEF Orderly
  <2> QED
    BY <1>6
<1> HIDE DEF pass
<1>8. IsInjective(pass)
  <2> SUFFICES ASSUME NEW i \in DOMAIN pass, NEW j \in DOMAIN pass, pass[i] = pass[j], i # j
               PROVE  FALSE
    BY DEF IsInjective
  <2>1. i \in Nat /\ j \in Nat
    BY <1>3, <1>7
  <2>2. i < j \/ j < i
    BY <2>1
  <2> QED
    BY <1>7, <2>2
<1>9. \A x \in S : \E i \in 1 .. n : pass[i] = x
  <2>1. pass \in Injection(1 .. n, S)
    BY <1>7, <1>8 DEF Injection
  <2>2. IsFiniteSet(1 .. n) /\ Cardinality(1 .. n) = n
    BY <1>3, FS_Interval
  <2>3. pass \in Surjection(1 .. n, S)
    BY <1>1, <2>1, <2>2, FS_Injection
  <2> QED
    BY <2>3 DEF Surjection
<1>10. DOMAIN list = 1 .. n /\ \A i \in 1 .. n : pass[i] \in S /\ list[i] = t[pass[i]].key
  BY <1>4, <1>7
<1>11. list \in Seq(Names) /\ Len(list) = n
  <2>1. list \in [1 .. n -> Names]
    BY <1>2, <1>4, <1>7, <1>10
  <2> QED
    BY <1>3, <2>1, LenProperties
<1>12. ToSet(list) = Keys(t)
  BY <1>9, <1>10 DEF ToSet, Keys, S
<1>13. IsInjective(list)
  <2> SUFFICES ASSUME NEW i \in 1 .. n, NEW j \in 1 .. n, list[i] = list[j]
               PROVE  i = j
    BY <1>10 DEF IsInjective
  <2>1. t[pass[i]].end = t[pass[j]].end /\ pass[i] \in DOMAIN t /\ pass[j] \in DOMAIN t
    BY <1>1, <1>2, <1>10
  <2>2. pass[i] = pass[j]
    BY <2>1, EndsApart
  <2> QED
    BY <1>7, <1>8, <2>2 DEF IsInjective
<1>14. IsFiniteSet(Keys(t)) /\ n = Cardinality(Keys(t))
  <2>1. list \in [1 .. n -> Names] /\ Range(list) = Keys(t)
    BY <1>10, <1>11, <1>12 DEF ToSet, Range
  <2>2. IsFiniteSet(1 .. n) /\ Cardinality(1 .. n) = n
    BY <1>3, FS_Interval
  <2>3. /\ IsFiniteSet(Range(list))
        /\ Cardinality(Range(list)) = Cardinality(1 .. n) <=> IsInjective(list)
    BY <2>1, <2>2, ImageSize
  <2> QED
    BY <1>13, <2>1, <2>2, <2>3
<1> QED
  BY <1>11, <1>12, <1>13, <1>14 DEF list

\* A removal of every key that is listed leaves the other keys.
LEMMA LeftFacts ==
  ASSUME NEW t, Trie(t), NEW list \in Seq(Names), NEW left,
         left = [i \in 0 .. Len(list) |->
                   IF i = 0 THEN t ELSE Removed(left[i - 1], list[Len(list) + 1 - i])]
  PROVE  /\ Trie(left[Len(list)])
         /\ \A n, v : <<n, v>> \in Pairs(left[Len(list)]) <=>
                        <<n, v>> \in Pairs(t) /\ n \notin ToSet(list)
<1> DEFINE N == Len(list)
           Gone(i) == {list[N + 1 - k] : k \in 1 .. i}
           T == {i \in 0 .. N : /\ Trie(left[i])
                                /\ \A n, v : <<n, v>> \in Pairs(left[i]) <=>
                                               <<n, v>> \in Pairs(t) /\ n \notin Gone(i)}
<1>1. N \in Nat /\ DOMAIN list = 1 .. N
  BY LenProperties
<1>2. left[0] = t /\ \A i \in 1 .. N : left[i] = Removed(left[i - 1], list[N + 1 - i])
  <2> HIDE DEF N
  <2>1. 0 \in 0 .. N /\ \A i \in 1 .. N : i \in 0 .. N /\ i # 0
    BY <1>1
  <2>2. left = [i \in 0 .. N |-> IF i = 0 THEN t ELSE Removed(left[i - 1], list[N + 1 - i])]
    BY DEF N
  <2> QED
    BY <2>1, <2>2
<1>3. 0 \in T
  <2>1. Gone(0) = {} /\ 0 \in 0 .. N
    BY <1>1
  <2> HIDE DEF Gone
  <2> QED
    BY <1>2, <2>1
<1>4. ASSUME NEW i \in 0 .. N - 1, i \in T PROVE i + 1 \in T
  <2>1. i + 1 \in 1 .. N /\ (i + 1) - 1 = i /\ i + 1 \in 0 .. N
    BY <1>1
  <2> DEFINE key == list[N + 1 - (i + 1)]
  <2>2. left[i + 1] = Removed(left[i], key)
    BY <1>2, <2>1
  <2>3. Gone(i + 1) = Gone(i) \cup {key}
    <3>1. 1 .. i + 1 = (1 .. i) \cup {i + 1}
      OBVIOUS
    <3> QED
      BY <3>1
  <2>4. Trie(left[i]) /\ \A n, v : <<n, v>> \in Pairs(left[i]) <=>
                                     <<n, v>> \in Pairs(t) /\ n \notin Gone(i)
    BY <1>4
  <2> HIDE DEF key, Gone, N
  <2>5. /\ Trie(left[i + 1])
        /\ \A n, v : <<n, v>> \in Pairs(left[i + 1]) <=>
                       <<n, v>> \in Pairs(left[i]) /\ n # key
    <3>1. Trie(left[i])
      BY <2>4
    <3>2. /\ Trie(Removed(left[i], key))
          /\ \A n, v : <<n, v>> \in Pairs(Removed(left[i], key)) <=>
                         <<n, v>> \in Pairs(left[i]) /\ n # key
      BY <3>1, RemovedFacts
    <3> QED
      BY <2>2, <3>2
  <2>6. \A n, v : <<n, v>> \in Pairs(left[i + 1]) <=>
                    <<n, v>> \in Pairs(t) /\ n \notin Gone(i + 1)
    BY <2>3, <2>4, <2>5
  <2> QED
    BY <2>1, <2>5, <2>6
<1>5. 0 .. N \subseteq T
  <2> HIDE DEF T, N
  <2> QED
    BY <1>1, <1>3, <1>4, UptoInduction
<1>6. Gone(N) = ToSet(list)
  <2>1. \A k \in 1 .. N : N + 1 - k \in 1 .. N /\ N + 1 - (N + 1 - k) = k
    BY <1>1
  <2> HIDE DEF N
  <2> QED
    BY <1>1, <2>1 DEF ToSet
<1>7. N \in T
  <2> HIDE DEF T, N
  <2> QED
    BY <1>1, <1>5
<1> HIDE DEF Gone
<1> QED
  BY <1>6, <1>7

LEMMA RemovedAllFacts ==
  ASSUME NEW t, Trie(t), NEW list \in Seq(Names)
  PROVE  /\ Trie(RemovedAll(t, list))
         /\ \A n, v : <<n, v>> \in Pairs(RemovedAll(t, list)) <=>
                        <<n, v>> \in Pairs(t) /\ n \notin ToSet(list)
<1> DEFINE N == Len(list)
           Is(f) == f = [i \in 0 .. Len(list) |->
                           IF i = 0 THEN t ELSE Removed(f[i - 1], list[Len(list) + 1 - i])]
           left == CHOOSE f : Is(f)
           V == {x \in UNION {[D -> Nodes] : D \in SUBSET Seq(Nat)} : Trie(x)}
           step == [i \in 1 .. N |-> [x \in V |-> Removed(x, list[N + 1 - i])]]
<1>1. N \in Nat
  BY LenProperties
<1>2. RemovedAll(t, list) = left[N]
  BY DEF RemovedAll
<1>3. \A x : Trie(x) => x \in V
  <2> SUFFICES ASSUME NEW x, Trie(x) PROVE x \in V
    OBVIOUS
  <2>1. DOMAIN x \in SUBSET Seq(Nat) /\ x \in [DOMAIN x -> Nodes]
    BY DEF Trie, Typed
  <2> QED
    BY <2>1
<1>4. \A x \in V : Trie(x)
  OBVIOUS
<1> HIDE DEF V, N
<1>5. \A x \in V : \A key : Removed(x, key) \in V
  BY <1>3, <1>4, RemovedFacts
<1>6. step \in [1 .. N -> [V -> V]]
  BY <1>5
<1>7. PICK g : Stepwise(g, V, t, N, step)
  <2>1. t \in V
    BY <1>3
  <2> HIDE DEF step
  <2> QED
    BY <1>1, <1>6, <2>1, StepwiseExists
<1>8. /\ g \in [0 .. N -> V] /\ g[0] = t
      /\ \A i \in 1 .. N : g[i] = Removed(g[i - 1], list[N + 1 - i])
  <2>1. \A i \in 1 .. N : i - 1 \in 0 .. N
    BY <1>1
  <2>2. /\ g \in [0 .. N -> V] /\ g[0] = t
        /\ \A i \in 1 .. N : g[i] = step[i][g[i - 1]]
    BY <1>7 DEF Stepwise
  <2> QED
    BY <2>1, <2>2
<1>9. Is(g)
  <2>1. \A i \in 0 .. N : i = 0 \/ i \in 1 .. N
    BY <1>1
  <2>2. \A i \in 1 .. N : i # 0
    OBVIOUS
  <2>3. \A i \in 0 .. N : g[i] = IF i = 0 THEN t ELSE Removed(g[i - 1], list[N + 1 - i])
    BY <1>8, <2>1, <2>2
  <2>4. g = [i \in 0 .. N |-> g[i]]
    BY <1>8
  <2> QED
    BY <2>3, <2>4 DEF N
<1>10. Is(left)
  <2> HIDE DEF Is
  <2> QED
    BY <1>9
<1> HIDE DEF left
<1> QED
  BY <1>2, <1>10, LeftFacts DEF N

-----------------------------------------------------------------------------
(***************************************************************************)
(* A trie as a map from its keys to their values.                          *)
(***************************************************************************)
Value(t, n) == CHOOSE v : <<n, v>> \in Pairs(t)

LEMMA ValueFacts ==
  ASSUME NEW t, Frame(t)
  PROVE  /\ \A n, v : <<n, v>> \in Pairs(t) <=> n \in Keys(t) /\ v = Value(t, n)
         /\ \A n \in Keys(t) : /\ n \in Names /\ Value(t, n) \in Values
                               /\ Value(t, n) \in ParameterValues
                               /\ Value(t, n).gets \in Seq(Callbacks)
                               /\ Value(t, n).type \in Types
         /\ \A s \in Keyed(t) : /\ s \in DOMAIN t /\ t[s].key \in Keys(t)
                                /\ t[s].value = Value(t, t[s].key)
         /\ IsFiniteSet(Keys(t)) /\ Keys(t) \subseteq Names
<1>1. /\ \A n : n \in Keys(t) <=> \E v : <<n, v>> \in Pairs(t)
      /\ \A n, v, w : <<n, v>> \in Pairs(t) /\ <<n, w>> \in Pairs(t) => v = w
      /\ \A n, v : <<n, v>> \in Pairs(t) => n \in Names /\ v \in Values
      /\ Keys(t) \subseteq Names
  BY KeyFacts
<1>2. \A n \in Keys(t) : <<n, Value(t, n)>> \in Pairs(t)
  BY <1>1 DEF Value
<1>3. \A n, v : <<n, v>> \in Pairs(t) <=> n \in Keys(t) /\ v = Value(t, n)
  BY <1>1, <1>2
<1>4. \A v \in Values : v \in ParameterValues /\ v.gets \in Seq(Callbacks) /\ v.type \in Types
  BY DEF Values, ParameterValues
<1>5. \A n \in Keys(t) : n \in Names /\ Value(t, n) \in Values
  BY <1>1, <1>2
<1>6. \A s \in Keyed(t) : s \in DOMAIN t /\ <<t[s].key, t[s].value>> \in Pairs(t)
  BY DEF Keyed, Pairs
<1>7. \A s \in Keyed(t) : t[s].key \in Keys(t) /\ t[s].value = Value(t, t[s].key)
  BY <1>3, <1>6
<1>8. IsFiniteSet(Keys(t))
  BY ForEachFacts
<1> QED
  BY <1>1, <1>3, <1>4, <1>5, <1>6, <1>7, <1>8


\* The callbacks of all parameters, by parameter and place.
Places(t) == UNION {{t[s].key} \X DOMAIN t[s].value.gets : s \in Keyed(t)}

LEMMA PlacesFacts ==
  ASSUME NEW t, Frame(t)
  PROVE  /\ IsFiniteSet(Places(t)) /\ NumGets(t) = Cardinality(Places(t))
         /\ Places(t) = UNION {{n} \X DOMAIN Value(t, n).gets : n \in Keys(t)}
<1>1. Places(t) = UNION {{n} \X DOMAIN Value(t, n).gets : n \in Keys(t)}
  <2>1. \A s \in Keyed(t) : t[s].key \in Keys(t) /\ t[s].value = Value(t, t[s].key)
    BY ValueFacts
  <2>2. \A n \in Keys(t) : \E s \in Keyed(t) : n = t[s].key
    BY DEF Keys
  <2> QED
    BY <2>1, <2>2 DEF Places
<1> DEFINE Q == {{n} \X DOMAIN Value(t, n).gets : n \in Keys(t)}
<1>2. IsFiniteSet(Q)
  <2> DEFINE f == [n \in Keys(t) |-> {n} \X DOMAIN Value(t, n).gets]
  <2>1. IsFiniteSet(Keys(t))
    BY ValueFacts
  <2>2. f \in [Keys(t) -> Q] /\ Range(f) = Q
    BY DEF Range
  <2> HIDE DEF f, Q
  <2> QED
    BY <2>1, <2>2, ImageSize
<1>3. \A q \in Q : IsFiniteSet(q)
  <2> SUFFICES ASSUME NEW n \in Keys(t) PROVE IsFiniteSet({n} \X DOMAIN Value(t, n).gets)
    OBVIOUS
  <2>1. Value(t, n).gets \in Seq(Callbacks)
    BY ValueFacts
  <2>2. DOMAIN Value(t, n).gets = 1 .. Len(Value(t, n).gets) /\ Len(Value(t, n).gets) \in Nat
    BY <2>1, LenProperties
  <2>3. IsFiniteSet(1 .. Len(Value(t, n).gets))
    BY <2>2, FS_Interval
  <2>4. IsFiniteSet({n})
    BY FS_Singleton
  <2> QED
    BY <2>2, <2>3, <2>4, FS_Product
<1>4. IsFiniteSet(UNION Q)
  <2> HIDE DEF Q
  <2> QED
    BY <1>2, <1>3, FS_UNION
<1> QED
  BY <1>1, <1>4 DEF NumGets, Places

\* Of two tries the one with no more keys and callbacks.
Within(u, t) ==
  \A n \in Keys(u) : \/ n \in Keys(t) /\ DOMAIN Value(u, n).gets \subseteq DOMAIN Value(t, n).gets
                     \/ DOMAIN Value(u, n).gets = {}

LEMMA WithinFacts ==
  \A t, u : Frame(t) /\ Frame(u) /\ Within(u, t) =>
    NumGets(u) \in Nat /\ NumGets(t) \in Nat /\ NumGets(u) <= NumGets(t)
<1> SUFFICES ASSUME NEW t, NEW u, Frame(t), Frame(u), Within(u, t)
             PROVE  NumGets(u) \in Nat /\ NumGets(t) \in Nat /\ NumGets(u) <= NumGets(t)
  OBVIOUS
<1>1. /\ IsFiniteSet(Places(t)) /\ NumGets(t) = Cardinality(Places(t))
      /\ Places(t) = UNION {{n} \X DOMAIN Value(t, n).gets : n \in Keys(t)}
  BY PlacesFacts
<1>2. /\ IsFiniteSet(Places(u)) /\ NumGets(u) = Cardinality(Places(u))
      /\ Places(u) = UNION {{n} \X DOMAIN Value(u, n).gets : n \in Keys(u)}
  BY PlacesFacts
<1>3. Places(u) \subseteq Places(t)
  <2> SUFFICES ASSUME NEW n \in Keys(u), NEW i \in DOMAIN Value(u, n).gets
               PROVE  <<n, i>> \in Places(t)
    BY <1>2
  <2>1. n \in Keys(t) /\ i \in DOMAIN Value(t, n).gets
    BY DEF Within
  <2> QED
    BY <1>1, <2>1
<1> QED
  BY <1>1, <1>2, <1>3, FS_Subset, FS_CardinalityType

LEMMA FewerKeys ==
  \A t, u : Frame(t) /\ Frame(u) /\ Keys(u) \subseteq Keys(t) =>
    /\ Cardinality(Keys(t)) \in Nat /\ Cardinality(Keys(u)) \in Nat
    /\ Cardinality(Keys(u)) <= Cardinality(Keys(t))
BY ValueFacts, FS_Subset, FS_CardinalityType

-----------------------------------------------------------------------------
(***************************************************************************)
(* What the operations make of the map.                                    *)
(***************************************************************************)

\* Some parameters are gone, and nothing became of the others.
Fewer(u, t) == Keys(u) \subseteq Keys(t) /\ \A n \in Keys(u) : Value(u, n) = Value(t, n)

LEMMA RemovedFewer ==
  \A t, key : Trie(t) => Trie(Removed(t, key)) /\ Fewer(Removed(t, key), t)
<1> SUFFICES ASSUME NEW t, NEW key, Trie(t) PROVE Trie(Removed(t, key)) /\ Fewer(Removed(t, key), t)
  OBVIOUS
<1> DEFINE u == Removed(t, key)
<1>1. Trie(u) /\ \A n, v : <<n, v>> \in Pairs(u) => <<n, v>> \in Pairs(t)
  BY RemovedFacts
<1> HIDE DEF u
<1>2. Frame(t) /\ Frame(u)
  BY <1>1 DEF Trie, Frame
<1>3. Fewer(u, t)
  BY <1>1, <1>2, ValueFacts DEF Fewer
<1> QED
  BY <1>1, <1>3 DEF u

LEMMA RemovedAllFewer ==
  \A t : \A list \in Seq(Names) :
    Trie(t) => Trie(RemovedAll(t, list)) /\ Fewer(RemovedAll(t, list), t)
<1> SUFFICES ASSUME NEW t, NEW list \in Seq(Names), Trie(t)
             PROVE  Trie(RemovedAll(t, list)) /\ Fewer(RemovedAll(t, list), t)
  OBVIOUS
<1> DEFINE u == RemovedAll(t, list)
<1>1. Trie(u) /\ \A n, v : <<n, v>> \in Pairs(u) => <<n, v>> \in Pairs(t)
  BY RemovedAllFacts
<1> HIDE DEF u
<1>2. Frame(t) /\ Frame(u)
  BY <1>1 DEF Trie, Frame
<1>3. Fewer(u, t)
  BY <1>1, <1>2, ValueFacts DEF Fewer
<1> QED
  BY <1>1, <1>3 DEF u

LEMMA EmptyFewer ==
  Trie(EmptyTrie) /\ Keys(EmptyTrie) = {} /\ \A t : Fewer(EmptyTrie, t)
<1>1. Trie(EmptyTrie) /\ Pairs(EmptyTrie) = {}
  BY EmptyTrieFacts
<1>2. Frame(EmptyTrie)
  BY <1>1 DEF Trie, Frame
<1>3. Keys(EmptyTrie) = {}
  BY <1>1, <1>2, KeyFacts
<1> QED
  BY <1>1, <1>3 DEF Fewer

\* A parameter is there that was not.
More(u, t, n, value) ==
  /\ n \notin Keys(t) /\ Keys(u) = Keys(t) \cup {n}
  /\ Value(u, n) = value /\ \A m \in Keys(t) : Value(u, m) = Value(t, m)

LEMMA InsertedMore ==
  \A t : \A n \in Names, value \in Values :
    Trie(t) => /\ Trie(Inserted(t, n, value))
               /\ IF n \in Keys(t) THEN Fewer(Inserted(t, n, value), t)
                  ELSE More(Inserted(t, n, value), t, n, value)
<1> SUFFICES ASSUME NEW t, NEW n \in Names, NEW value \in Values, Trie(t)
             PROVE  /\ Trie(Inserted(t, n, value))
                    /\ IF n \in Keys(t) THEN Fewer(Inserted(t, n, value), t)
                       ELSE More(Inserted(t, n, value), t, n, value)
  OBVIOUS
<1> DEFINE u == Inserted(t, n, value)
<1>1. Trie(u) /\ Pairs(u) = IF n \in Keys(t) THEN Pairs(t) ELSE Pairs(t) \cup {<<n, value>>}
  BY InsertedFacts
<1> HIDE DEF u
<1>2. Frame(t) /\ Frame(u)
  BY <1>1 DEF Trie, Frame
<1>3. /\ \A m, v : <<m, v>> \in Pairs(t) <=> m \in Keys(t) /\ v = Value(t, m)
      /\ \A m, v : <<m, v>> \in Pairs(u) <=> m \in Keys(u) /\ v = Value(u, m)
  BY <1>2, ValueFacts
<1>4. CASE n \in Keys(t)
  <2>1. Fewer(u, t)
    BY <1>1, <1>3, <1>4 DEF Fewer
  <2> QED
    BY <1>1, <1>4, <2>1 DEF u
<1>5. CASE n \notin Keys(t)
  <2>1. \A m, v : <<m, v>> \in Pairs(u) <=> <<m, v>> \in Pairs(t) \/ (m = n /\ v = value)
    BY <1>1, <1>5
  <2>2. Keys(u) = Keys(t) \cup {n}
    BY <1>3, <2>1
  <2>3. Value(u, n) = value
    BY <1>3, <2>1
  <2>4. \A m \in Keys(t) : Value(u, m) = Value(t, m)
    BY <1>3, <2>1
  <2>5. More(u, t, n, value)
    BY <1>5, <2>2, <2>3, <2>4 DEF More
  <2> QED
    BY <1>1, <1>5, <2>5 DEF u
<1> QED
  BY <1>4, <1>5

\* The values of the nodes in Q change as g says.
Changes(u, t, Q, g) ==
  /\ Q \subseteq Keyed(t) /\ g \in [Values -> Values]
  /\ u = [s \in DOMAIN t |-> IF s \in Q THEN [t[s] EXCEPT !.value = g[t[s].value]] ELSE t[s]]

Changed(u, t, names, g) ==
  /\ Keys(u) = Keys(t)
  /\ \A n \in Keys(t) : Value(u, n) = IF n \in names THEN g[Value(t, n)] ELSE Value(t, n)

LEMMA ChangedFacts ==
  \A t, u, Q, g : Trie(t) /\ Changes(u, t, Q, g) =>
    Trie(u) /\ Changed(u, t, {t[s].key : s \in Q}, g)
<1> SUFFICES ASSUME NEW t, NEW u, NEW Q, NEW g, Trie(t), Changes(u, t, Q, g)
             PROVE  Trie(u) /\ Changed(u, t, {t[s].key : s \in Q}, g)
  OBVIOUS
<1>1. Frame(t) /\ Typed(t)
  BY DEF Trie, Frame
<1>2. Q \subseteq Keyed(t) /\ g \in [Values -> Values] /\ DOMAIN u = DOMAIN t
  BY DEF Changes
<1>3. \A s \in DOMAIN t : u[s] = IF s \in Q THEN [t[s] EXCEPT !.value = g[t[s].value]] ELSE t[s]
  BY DEF Changes
<1>4. \A s \in DOMAIN t : t[s] \in Nodes /\ (t[s].key # NoKey => t[s].value \in Values)
  BY <1>1, NodeFacts DEF Frame
<1>5. \A s \in Q : s \in DOMAIN t /\ t[s].key # NoKey
  BY <1>2 DEF Keyed
<1>6. ASSUME NEW s \in DOMAIN t
      PROVE  /\ u[s] \in Nodes
             /\ u[s].end = t[s].end /\ u[s].chars = t[s].chars /\ u[s].key = t[s].key
             /\ u[s].value = IF s \in Q THEN g[t[s].value] ELSE t[s].value
             /\ t[s].key # NoKey => u[s].value \in Values
  <2>1. CASE s \notin Q
    BY <1>3, <1>4, <2>1
  <2>2. CASE s \in Q
    <3>1. g[t[s].value] \in Values
      BY <1>2, <1>4, <1>5, <2>2
    <3> DEFINE w == g[t[s].value]
    <3>2. u[s] = [t[s] EXCEPT !.value = w] /\ t[s] \in Nodes /\ w \in Values
      BY <1>3, <1>4, <2>2, <3>1
    <3> HIDE DEF w
    <3>3. u[s] \in Nodes /\ u[s].end = t[s].end /\ u[s].chars = t[s].chars
          /\ u[s].key = t[s].key /\ u[s].value = w
      BY <3>2 DEF Nodes
    <3> QED
      BY <2>2, <3>2, <3>3 DEF w
  <2> QED
    BY <2>1, <2>2
<1>7. Revalues(u, t)
  <2>1. u \in [DOMAIN t -> Nodes]
    <3>1. u = [s \in DOMAIN t |-> u[s]]
      BY DEF Changes
    <3> QED
      BY <1>6, <3>1
  <2> QED
    BY <1>2, <1>6, <2>1 DEF Revalues
<1>8. Trie(u) /\ Keyed(u) = Keyed(t) /\ Keys(u) = Keys(t)
  BY <1>7, Revalued
<1>9. Frame(u)
  BY <1>8 DEF Trie, Frame
<1>10. ASSUME NEW n \in Keys(t)
       PROVE  Value(u, n) = IF n \in {t[s].key : s \in Q} THEN g[Value(t, n)] ELSE Value(t, n)
  <2>1. PICK s \in Keyed(t) : n = t[s].key
    BY DEF Keys
  <2>2. s \in DOMAIN t /\ t[s].value = Value(t, n) /\ t[s].key # NoKey
    BY <1>1, <2>1, ValueFacts DEF Keyed
  <2>3. u[s].key = n /\ u[s].value = Value(u, n)
    BY <1>6, <1>8, <1>9, <2>1, <2>2, ValueFacts
  <2>4. n \in {t[r].key : r \in Q} <=> s \in Q
    <3>1. \A r \in Q : t[r].key = n => r = s
      BY <1>1, <1>5, <2>1, <2>2, KeyFacts, EndsApart
    <3> QED
      BY <2>1, <3>1
  <2> QED
    BY <1>6, <2>2, <2>3, <2>4
<1> QED
  BY <1>8, <1>10 DEF Changed

-----------------------------------------------------------------------------
(***************************************************************************)
(* The operations.                                                         *)
(***************************************************************************)

\* What a get adds, as a function.
Adding(type, cb) == [v \in Values |-> Added(v, type, cb)]

LEMMA AddingFacts ==
  ASSUME NEW t, Trie(t), NEW Q \in SUBSET Keyed(t), NEW type, NEW cb \in Callbacks,
         NEW u, u = [s \in DOMAIN t |-> IF s \in Q
                                        THEN [t[s] EXCEPT !.value = Added(@, type, cb)]
                                        ELSE t[s]]
  PROVE  Trie(u) /\ Changed(u, t, {t[s].key : s \in Q}, Adding(type, cb))
<1>1. Adding(type, cb) \in [Values -> Values]
  BY AddedFacts DEF Adding
<1>2. \A s \in Q : Adding(type, cb)[t[s].value] = Added(t[s].value, type, cb)
  <2>1. \A s \in Q : t[s].value \in Values
    BY DEF Keyed, Trie, Spelled
  <2> QED
    BY <2>1 DEF Adding
<1>3. Changes(u, t, Q, Adding(type, cb))
  BY <1>1, <1>2 DEF Changes
<1> QED
  BY <1>3, ChangedFacts

\* What the removal of callbacks at a restart leaves, as a function.
Squeezing == [v \in Values |-> Squeezed(v)]

LEMMA SqueezingFacts ==
  ASSUME NEW t, Trie(t),
         NEW u, u = [s \in DOMAIN t |-> IF s \in Keyed(t)
                                        THEN [t[s] EXCEPT !.value = Squeezed(@)]
                                        ELSE t[s]]
  PROVE  Trie(u) /\ Changed(u, t, Keys(t), Squeezing)
<1>1. Squeezing \in [Values -> Values]
  BY SqueezedFacts DEF Squeezing
<1>2. \A s \in Keyed(t) : Squeezing[t[s].value] = Squeezed(t[s].value)
  <2>1. \A s \in Keyed(t) : t[s].value \in Values
    BY DEF Keyed, Trie, Spelled
  <2> QED
    BY <2>1 DEF Squeezing
<1>3. Changes(u, t, Keyed(t), Squeezing)
  BY <1>1, <1>2 DEF Changes
<1> QED
  BY <1>3, ChangedFacts DEF Keys

\* The trie keeps its shape and the variables their types.
ParametersInv == Trie(parameters) /\ TypeOK

Heard == Seq({cb.fn : cb \in Callbacks})

\* What a search by name finds.
LEMMA FindFacts ==
  ASSUME Trie(parameters), NEW n
  PROVE  /\ FindEntry(parameters, n) \subseteq Entries
         /\ Find(n) = IF n \in Keys(parameters) THEN {Value(parameters, n)} ELSE {}
<1>1. Frame(parameters)
  BY DEF Trie, Frame
<1>2. FindEntry(parameters, n) = {s \in Entries : parameters[s].key = n}
  BY <1>1, FindEntryFacts DEF Entries, Keyed
<1>3. \A s \in Entries : parameters[s].value = Value(parameters, parameters[s].key)
  BY <1>1, ValueFacts DEF Entries
<1>4. n \in Keys(parameters) <=> \E s \in Entries : parameters[s].key = n
  BY DEF Keys, Entries
<1> QED
  BY <1>2, <1>3, <1>4 DEF Find

LEMMA CalledFacts ==
  ASSUME NEW p \in Values
  PROVE  Called(p) \in Heard
<1>1. p.gets \in Seq(Callbacks)
  BY DEF Values, ParameterValues
<1>2. Len(p.gets) \in Nat /\ DOMAIN p.gets = 1 .. Len(p.gets)
      /\ \A i \in DOMAIN p.gets : p.gets[i] \in Callbacks
  BY <1>1, LenProperties, ElementOfSeq
<1> DEFINE N == Len(p.gets)
           C == {cb.fn : cb \in Callbacks}
<1>3. Called(p) \in [1 .. N -> C]
  BY <1>2 DEF Called
<1> HIDE DEF N, C
<1>4. N \in Nat
  BY <1>2 DEF N
<1> QED
  BY <1>3, <1>4 DEF Heard, C

\* The bounds on parameters and callbacks.
Bounded(t) == Cardinality(Keys(t)) <= MaxParameters /\ NumGets(t) <= MaxGets

LEMMA ValuesTyped == \A t : Trie(t) => \A s \in Keyed(t) : t[s].value \in ParameterValues
<1> SUFFICES ASSUME NEW t, Trie(t) PROVE \A s \in Keyed(t) : t[s].value \in ParameterValues
  OBVIOUS
<1>1. Frame(t)
  BY DEF Trie, Frame
<1> QED
  BY <1>1, ValueFacts

LEMMA InvMeaning ==
  ParametersInv <=> Trie(parameters) /\ Bounded(parameters) /\ heard \in Heard /\ broken \in BOOLEAN
BY ValuesTyped DEF ParametersInv, TypeOK, Entries, Heard, Bounded

LEMMA NextMeaning ==
  ParametersInv' <=> /\ Trie(parameters') /\ Bounded(parameters')
                     /\ heard' \in Heard /\ broken' \in BOOLEAN
BY ValuesTyped DEF ParametersInv, TypeOK, Entries, Heard, Bounded

LEMMA SilentHeard == <<>> \in Heard
BY EmptySeq DEF Heard

LEMMA FewerBounded ==
  \A t, u : Trie(t) /\ Trie(u) /\ Bounded(t) /\ Fewer(u, t) => Bounded(u)
<1> SUFFICES ASSUME NEW t, NEW u, Trie(t), Trie(u), Bounded(t), Fewer(u, t)
             PROVE  Bounded(u)
  OBVIOUS
<1>1. Frame(t) /\ Frame(u)
  BY DEF Trie, Frame
<1>2. Keys(u) \subseteq Keys(t) /\ Within(u, t)
  BY DEF Fewer, Within
<1>3. /\ Cardinality(Keys(t)) \in Nat /\ Cardinality(Keys(u)) \in Nat
      /\ Cardinality(Keys(u)) <= Cardinality(Keys(t))
  BY <1>1, <1>2, FewerKeys
<1>4. NumGets(u) \in Nat /\ NumGets(t) \in Nat /\ NumGets(u) <= NumGets(t)
  BY <1>1, <1>2, WithinFacts
<1> QED
  BY <1>3, <1>4, BoundsAssumption DEF Bounded

LEMMA MoreBounded ==
  \A t, u, n, type :
    Trie(t) /\ Trie(u) /\ Bounded(t) /\ More(u, t, n, NewParameter(type))
    /\ Cardinality(Keys(t)) < MaxParameters => Bounded(u)
<1> SUFFICES ASSUME NEW t, NEW u, NEW n, NEW type, Trie(t), Trie(u), Bounded(t),
                    More(u, t, n, NewParameter(type)), Cardinality(Keys(t)) < MaxParameters
             PROVE  Bounded(u)
  OBVIOUS
<1>1. Frame(t) /\ Frame(u)
  BY DEF Trie, Frame
<1>2. Keys(u) = Keys(t) \cup {n} /\ n \notin Keys(t) /\ IsFiniteSet(Keys(t))
  BY <1>1, ValueFacts DEF More
<1>3. Cardinality(Keys(t)) \in Nat /\ Cardinality(Keys(u)) = Cardinality(Keys(t)) + 1
  BY <1>2, FS_AddElement, FS_CardinalityType
<1>4. Within(u, t)
  <2>1. DOMAIN Value(u, n).gets = {}
    <3>1. Value(u, n).gets = <<>>
      BY DEF More, NewParameter
    <3> QED
      BY <3>1
  <2> QED
    BY <1>2, <2>1 DEF Within, More
<1>5. NumGets(u) \in Nat /\ NumGets(t) \in Nat /\ NumGets(u) <= NumGets(t)
  BY <1>1, <1>4, WithinFacts
<1> QED
  BY <1>3, <1>5, BoundsAssumption DEF Bounded

LEMMA SqueezedBounded ==
  \A t, u : Trie(t) /\ Trie(u) /\ Bounded(t) /\ Changed(u, t, Keys(t), Squeezing) => Bounded(u)
<1> SUFFICES ASSUME NEW t, NEW u, Trie(t), Trie(u), Bounded(t),
                    Changed(u, t, Keys(t), Squeezing)
             PROVE  Bounded(u)
  OBVIOUS
<1>1. Frame(t) /\ Frame(u)
  BY DEF Trie, Frame
<1>2. Keys(u) = Keys(t)
  BY DEF Changed
<1>3. Within(u, t)
  <2> SUFFICES ASSUME NEW n \in Keys(t)
               PROVE  DOMAIN Value(u, n).gets \subseteq DOMAIN Value(t, n).gets
    BY <1>2 DEF Within
  <2> DEFINE v == Value(t, n)
             k == Kept(v.gets)
  <2>1. v \in Values /\ v.gets \in Seq(Callbacks)
    BY <1>1, ValueFacts
  <2>2. Value(u, n) = Squeezed(v)
    BY <2>1 DEF Changed, Squeezing
  <2> HIDE DEF v
  <2>3. Value(u, n).gets = k
    BY <2>1, <2>2, SqueezedFacts
  <2>4. k \in Seq(Callbacks) /\ Len(k) <= Len(v.gets)
    BY <2>1, KeptFacts
  <2> HIDE DEF k
  <2>5. /\ DOMAIN k = 1 .. Len(k) /\ Len(k) \in Nat
        /\ DOMAIN v.gets = 1 .. Len(v.gets) /\ Len(v.gets) \in Nat
    BY <2>1, <2>4, LenProperties
  <2> QED
    BY <2>3, <2>4, <2>5 DEF v
<1>4. NumGets(u) \in Nat /\ NumGets(t) \in Nat /\ NumGets(u) <= NumGets(t)
  BY <1>1, <1>3, WithinFacts
<1> QED
  BY <1>2, <1>4, BoundsAssumption DEF Bounded

\* What a step does to the map, and what it lets hear.
Removes == Fewer(parameters', parameters) /\ heard' = <<>>
Adds == \E n \in Names, type \in Types :
           More(parameters', parameters, n, NewParameter(type)) /\ heard' = <<>>
Subscribes == \E names, type : \E cb \in Callbacks :
                 Changed(parameters', parameters, names, Adding(type, cb)) /\ heard' = <<>>
Squeezes == Changed(parameters', parameters, Keys(parameters), Squeezing) /\ heard' = <<>>
Tells == \E n \in Keys(parameters) : heard' = Called(Value(parameters, n))
                                     /\ UNCHANGED parameters
Effect == Removes \/ Adds \/ Subscribes \/ Squeezes \/ Tells

LEMMA CreateStep ==
  ASSUME ParametersInv, NEW n \in Names, NEW type \in Types, Create(n, type)
  PROVE  ParametersInv' /\ (Removes \/ Adds)
<1> DEFINE t == parameters
           u == parameters'
           p == NewParameter(type)
<1>1. Trie(t) /\ Bounded(t) /\ heard \in Heard /\ broken \in BOOLEAN
  BY InvMeaning
<1>2. /\ Cardinality(Keys(t)) < MaxParameters /\ u = Inserted(t, n, p)
      /\ heard' = <<>> /\ broken' = broken
  BY DEF Create
<1>3. p \in Values /\ p.gets = <<>>
  <2>1. <<>> \in Seq(Callbacks) /\ DOMAIN <<>> = {}
    BY EmptySeq
  <2> DEFINE e == <<>>
  <2>2. e \in Seq(Callbacks) /\ Once(e)
    BY <2>1 DEF Once
  <2>3. p = [type |-> type, gets |-> e, array |-> "none"]
    BY DEF NewParameter
  <2> HIDE DEF e
  <2>4. p \in ParameterValues /\ p.gets = e
    BY <2>2, <2>3 DEF ParameterValues
  <2> QED
    BY <2>2, <2>4 DEF Values, e
<1> HIDE DEF t, u, p
<1>4. Trie(u) /\ IF n \in Keys(t) THEN Fewer(u, t) ELSE More(u, t, n, p)
  BY <1>1, <1>2, <1>3, InsertedMore
<1>5. Bounded(u)
  <2>1. Fewer(u, t) => Bounded(u)
    BY <1>1, <1>4, FewerBounded
  <2>2. More(u, t, n, p) => Bounded(u)
    BY <1>1, <1>2, <1>4, MoreBounded DEF p
  <2> QED
    BY <1>4, <2>1, <2>2
<1>6. ParametersInv'
  BY <1>1, <1>2, <1>4, <1>5, SilentHeard, NextMeaning DEF u
<1>7. Removes \/ Adds
  BY <1>2, <1>4 DEF t, u, p, Removes, Adds
<1> QED
  BY <1>6, <1>7

LEMMA DestroyStep ==
  ASSUME ParametersInv, NEW n \in Names, Destroy(n)
  PROVE  ParametersInv' /\ Removes
<1>1. Trie(parameters) /\ Bounded(parameters)
  BY InvMeaning
<1>2. parameters' = Removed(parameters, n) /\ heard' = <<>> /\ broken' \in BOOLEAN
  BY DEF Destroy
<1>3. Trie(parameters') /\ Fewer(parameters', parameters)
  BY <1>1, <1>2, RemovedFewer
<1>4. Bounded(parameters')
  BY <1>1, <1>3, FewerBounded
<1> QED
  BY <1>2, <1>3, <1>4, SilentHeard, NextMeaning DEF Removes

LEMMA DestroyMatchingStep ==
  ASSUME ParametersInv, NEW names, DestroyMatching(names)
  PROVE  ParametersInv' /\ Removes
<1> DEFINE marked == Picked(ForEach(parameters), names)
<1>1. Trie(parameters) /\ Bounded(parameters)
  BY InvMeaning
<1>2. parameters' = RemovedAll(parameters, marked) /\ heard' = <<>> /\ broken' \in BOOLEAN
  BY DEF DestroyMatching
<1>3. marked \in Seq(Names)
  <2>1. ForEach(parameters) \in Seq(Names)
    BY <1>1, ForEachFacts DEF Trie, Frame
  <2> QED
    BY <2>1, PickedFacts DEF Picks
<1> HIDE DEF marked
<1>4. Trie(parameters') /\ Fewer(parameters', parameters)
  BY <1>1, <1>2, <1>3, RemovedAllFewer
<1>5. Bounded(parameters')
  BY <1>1, <1>4, FewerBounded
<1> QED
  BY <1>2, <1>4, <1>5, SilentHeard, NextMeaning DEF Removes

LEMMA DestroyAllStep ==
  ASSUME ParametersInv, DestroyAll
  PROVE  ParametersInv' /\ Removes
<1>1. Trie(parameters) /\ Bounded(parameters)
  BY InvMeaning
<1>2. parameters' = EmptyTrie /\ heard' = <<>> /\ broken' \in BOOLEAN
  BY DEF DestroyAll
<1>3. Trie(parameters') /\ Fewer(parameters', parameters)
  BY <1>2, EmptyFewer
<1>4. Bounded(parameters')
  BY <1>1, <1>3, FewerBounded
<1> QED
  BY <1>2, <1>3, <1>4, SilentHeard, NextMeaning DEF Removes

LEMMA GetStep ==
  ASSUME ParametersInv, NEW n \in Names, NEW type, NEW cb \in Callbacks, Get(n, type, cb)
  PROVE  ParametersInv' /\ Subscribes
<1> DEFINE Q == FindDict(parameters, n) \cap Entries
           names == {parameters[s].key : s \in Q}
<1>1. Trie(parameters) /\ Bounded(parameters)
  BY InvMeaning
<1>2. /\ parameters' = [s \in DOMAIN parameters |->
                          IF s \in Q THEN [parameters[s] EXCEPT !.value = Added(@, type, cb)]
                          ELSE parameters[s]]
      /\ NumGets(parameters') <= MaxGets /\ heard' = <<>> /\ broken' \in BOOLEAN
  BY DEF Get
<1>3. Q \in SUBSET Keyed(parameters)
  BY DEF Entries
<1> HIDE DEF Q
<1>4. Trie(parameters') /\ Changed(parameters', parameters, names, Adding(type, cb))
  BY <1>1, <1>2, <1>3, AddingFacts
<1> HIDE DEF names
<1>5. Bounded(parameters')
  BY <1>1, <1>2, <1>4 DEF Bounded, Changed
<1> QED
  BY <1>2, <1>4, <1>5, SilentHeard, NextMeaning DEF Subscribes

LEMMA GetMatchingStep ==
  ASSUME ParametersInv, NEW names, NEW type, NEW cb \in Callbacks, GetMatching(names, type, cb)
  PROVE  ParametersInv' /\ Subscribes
<1> DEFINE Q == Matching(names)
           found == {parameters[s].key : s \in Q}
<1>1. Trie(parameters) /\ Bounded(parameters)
  BY InvMeaning
<1>2. /\ parameters' = [s \in DOMAIN parameters |->
                          IF s \in Q THEN [parameters[s] EXCEPT !.value = Added(@, type, cb)]
                          ELSE parameters[s]]
      /\ NumGets(parameters') <= MaxGets /\ heard' = <<>> /\ broken' \in BOOLEAN
  BY DEF GetMatching
<1>3. Q \in SUBSET Keyed(parameters)
  BY DEF Matching, Entries
<1> HIDE DEF Q
<1>4. Trie(parameters') /\ Changed(parameters', parameters, found, Adding(type, cb))
  BY <1>1, <1>2, <1>3, AddingFacts
<1> HIDE DEF found
<1>5. Bounded(parameters')
  BY <1>1, <1>2, <1>4 DEF Bounded, Changed
<1> QED
  BY <1>2, <1>4, <1>5, SilentHeard, NextMeaning DEF Subscribes

LEMMA RestartStep ==
  ASSUME ParametersInv, Restart
  PROVE  ParametersInv' /\ Squeezes
<1>1. Trie(parameters) /\ Bounded(parameters) /\ broken \in BOOLEAN
  BY InvMeaning
<1>2. /\ parameters' = [s \in DOMAIN parameters |->
                          IF s \in Keyed(parameters)
                          THEN [parameters[s] EXCEPT !.value = Squeezed(@)]
                          ELSE parameters[s]]
      /\ heard' = <<>> /\ broken' = broken
  BY DEF Restart, Entries
<1>3. Trie(parameters') /\ Changed(parameters', parameters, Keys(parameters), Squeezing)
  BY <1>1, <1>2, SqueezingFacts
<1>4. Bounded(parameters')
  BY <1>1, <1>3, SqueezedBounded
<1> QED
  BY <1>1, <1>2, <1>3, <1>4, SilentHeard, NextMeaning DEF Squeezes

LEMMA TellStep ==
  ASSUME ParametersInv, NEW n \in Names, NEW p \in Find(n), heard' = Called(p),
         parameters' = parameters, broken' \in BOOLEAN
  PROVE  ParametersInv' /\ Tells
<1>1. Trie(parameters) /\ Bounded(parameters)
  BY InvMeaning
<1>2. n \in Keys(parameters) /\ p = Value(parameters, n)
  BY <1>1, FindFacts
<1>3. p \in Values
  BY <1>1, <1>2, ValueFacts DEF Trie, Frame
<1>4. heard' \in Heard
  BY <1>3, CalledFacts
<1> QED
  BY <1>1, <1>2, <1>4, NextMeaning DEF Tells

LEMMA PushStep ==
  ASSUME ParametersInv, NEW n \in Names, Push(n)
  PROVE  ParametersInv' /\ Tells
<1>1. broken' \in BOOLEAN
  BY InvMeaning DEF Push
<1> QED
  BY <1>1, TellStep DEF Push

LEMMA SetStep ==
  ASSUME ParametersInv, NEW n \in Names, NEW type, Set(n, type)
  PROVE  ParametersInv' /\ (Tells \/ Removes)
<1>0. parameters' = parameters /\ broken' \in BOOLEAN
  BY DEF Set
<1>1. CASE \E p \in Find(n) : heard' = Called(p)
  BY <1>0, <1>1, TellStep
<1>2. CASE heard' = <<>>
  <2>1. parameters' = parameters /\ broken' \in BOOLEAN
    BY <1>0
  <2>2. Removes
    BY <1>2, <2>1 DEF Removes, Fewer
  <2> QED
    BY <1>2, <2>1, <2>2, SilentHeard, InvMeaning, NextMeaning
<1> QED
  BY <1>1, <1>2 DEF Set

LEMMA StepFacts ==
  ASSUME ParametersInv, [Next]_vars
  PROVE  ParametersInv' /\ (Effect \/ UNCHANGED <<parameters, heard>>)
<1>1. CASE UNCHANGED vars
  BY <1>1, InvMeaning, NextMeaning DEF vars
<1>2. CASE \E n \in Names, type \in Types : Create(n, type)
  BY <1>2, CreateStep DEF Effect
<1>3. CASE \E n \in Names : Destroy(n)
  BY <1>3, DestroyStep DEF Effect
<1>4. CASE \E names \in Patterns : DestroyMatching(names)
  BY <1>4, DestroyMatchingStep DEF Effect
<1>5. CASE DestroyAll
  BY <1>5, DestroyAllStep DEF Effect
<1>6. CASE \E n \in Names, type \in Types \cup {AnyType}, cb \in Callbacks : Get(n, type, cb)
  BY <1>6, GetStep DEF Effect
<1>7. CASE \E names \in Patterns, type \in Types \cup {AnyType}, cb \in Callbacks :
             GetMatching(names, type, cb)
  BY <1>7, GetMatchingStep DEF Effect
<1>8. CASE Restart
  BY <1>8, RestartStep DEF Effect
<1>9. CASE \E n \in Names : Push(n)
  BY <1>9, PushStep DEF Effect
<1>10. CASE \E n \in Names, type \in Types : Set(n, type)
  BY <1>10, SetStep DEF Effect
<1> QED
  BY <1>1, <1>2, <1>3, <1>4, <1>5, <1>6, <1>7, <1>8, <1>9, <1>10 DEF Next

-----------------------------------------------------------------------------
(***************************************************************************)
(* What holds of every behaviour.                                          *)
(***************************************************************************)

LEMMA InitFacts == Init => ParametersInv
<1> SUFFICES ASSUME Init PROVE ParametersInv
  OBVIOUS
<1>1. parameters = EmptyTrie /\ heard = <<>> /\ broken = FALSE
  BY DEF Init
<1>2. Trie(EmptyTrie) /\ Keys(EmptyTrie) = {} /\ Pairs(EmptyTrie) = {}
  BY EmptyFewer, EmptyTrieFacts
<1>3. Frame(EmptyTrie)
  BY <1>2 DEF Trie, Frame
<1>4. Cardinality({}) = 0
  BY FS_EmptySet
<1>5. NumGets(EmptyTrie) = 0
  <2>1. Places(EmptyTrie) = {}
    BY <1>2, <1>3, PlacesFacts
  <2> QED
    BY <1>3, <1>4, <2>1, PlacesFacts
<1>6. Bounded(EmptyTrie)
  BY <1>2, <1>4, <1>5, BoundsAssumption DEF Bounded
<1> QED
  BY <1>1, <1>2, <1>6, SilentHeard, InvMeaning

\* The trie of parameters keeps its shape through every call: a node's suffix
\* begins at its place and lies over nothing, an entry's key is what the way to
\* it spells, and whole characters in a suffix start where those of a key do
\* (Dictionary.c:492-743 inserts, 1162-1442 removes and merges).
THEOREM ParametersInvariant == Spec => []ParametersInv
<1>1. ParametersInv /\ [Next]_vars => ParametersInv'
  BY StepFacts
<1> QED
  BY <1>1, InitFacts, PTL DEF Spec

\* Every variable has its type and the bounds hold.
THEOREM ParametersTypeOK == Spec => []TypeOK
<1>1. ParametersInv => TypeOK
  BY DEF ParametersInv
<1> QED
  BY <1>1, ParametersInvariant, PTL

\* No insert and no removal, in any order, leaves a node that holds nothing
\* and parts nothing or one that the root does not lead to (Dictionary.c:1282,
\* PruneNodeDown()).
THEOREM ParametersWellShaped == Spec => []WellShaped
<1>1. ParametersInv => WellShaped
  <2> SUFFICES ASSUME ParametersInv PROVE WellShaped
    OBVIOUS
  <2>1. Trie(parameters) /\ TypeOK
    BY DEF ParametersInv
  <2>2. Frame(parameters) /\ NoIdleNode(parameters)
    BY <2>1 DEF Trie, Frame
  <2>3. WellRooted(parameters)
    <3> SUFFICES ASSUME NEW s \in DOMAIN parameters, s # <<>>
                 PROVE  /\ \E up \in DOMAIN parameters : s \in Children(parameters, up)
                        /\ parameters[s].key \in {NoKey, parameters[s].end}
      BY DEF WellRooted
    <3>1. \E up \in DOMAIN parameters : s \in Children(parameters, up)
      BY <2>2, ParentExists
    <3>2. parameters[s].key \in {NoKey, parameters[s].end}
      BY <2>2, NodeFacts DEF Frame
    <3> QED
      BY <3>1, <3>2
  <2> QED
    BY <2>1, <2>2, <2>3 DEF WellShaped
<1> QED
  BY <1>1, ParametersInvariant, PTL

\* A callback added with QS_KEEP_ONE is the first of its function on its
\* parameter, through every get and every restart (parameter.c:434).
THEOREM ParametersOnceOnly == Spec => []OnceOnly
<1>1. ParametersInv => OnceOnly
  <2> SUFFICES ASSUME ParametersInv, NEW s \in Entries
               PROVE  Once(parameters[s].value.gets)
    BY DEF OnceOnly, Once
  <2>1. parameters[s].value \in Values
    BY DEF ParametersInv, Trie, Spelled, Entries, Keyed
  <2> QED
    BY <2>1 DEF Values
<1> QED
  BY <1>1, ParametersInvariant, PTL

\* The names that can be found are the keys of the trie.
LEMMA FoundFacts ==
  ASSUME Trie(parameters)
  PROVE  Found = Keys(parameters) /\ IsFiniteSet(Found)
<1>1. Keys(parameters) \subseteq Names /\ IsFiniteSet(Keys(parameters))
  BY ValueFacts DEF Trie, Frame
<1>2. \A n \in Names : Find(n) # {} <=> n \in Keys(parameters)
  BY FindFacts
<1> QED
  BY <1>1, <1>2 DEF Found

\* A pass over the dictionary comes to each name that can be found, once; a
\* search with a regular expression visits exactly the parameters that match
\* and are of the type asked for, and none that a search by name for a type
\* would not (Dictionary.c:937-978, parameter.c:772-869).
THEOREM ParametersPassSeesAll == Spec => []PassSeesAll
<1>1. ParametersInv => PassSeesAll
  <2> SUFFICES ASSUME ParametersInv PROVE PassSeesAll
    OBVIOUS
  <2>1. Trie(parameters) /\ Frame(parameters)
    BY DEF ParametersInv, Trie, Frame
  <2>2. Found = Keys(parameters)
    BY <2>1, FoundFacts
  <2>3. /\ ForEach(parameters) \in Seq(Names) /\ ToSet(ForEach(parameters)) = Keys(parameters)
        /\ Len(ForEach(parameters)) = Cardinality(Keys(parameters))
    BY <2>1, ForEachFacts
  <2>4. ASSUME NEW names \in Patterns, NEW type \in Types \cup {AnyType}
        PROVE  ToSet(Visited(names, type)) = {n \in names : \E p \in Find(n) : OfType(p, type)}
    <3> DEFINE list == ForEach(parameters)
               wanted == {n \in names : \E s \in Entries :
                            parameters[s].key = n /\ OfType(parameters[s].value, type)}
               q == Visited(names, type)
    <3>1. Picks(q, Names, list, wanted, Len(list))
      BY <2>3, PickedFacts DEF Visited
    <3> HIDE DEF q
    <3>2. ToSet(q) = ToSet(list) \cap wanted
      <4>1. DOMAIN list = 1 .. Len(list)
        BY <2>3, LenProperties
      <4>2. PICK at \in [DOMAIN q -> 1 .. Len(list)] :
              /\ \A i \in DOMAIN q : q[i] = list[at[i]]
              /\ Range(at) = {k \in 1 .. Len(list) : list[k] \in wanted}
        BY <3>1 DEF Picks
      <4>3. \A i \in DOMAIN q : q[i] \in ToSet(list) \cap wanted
        <5>1. \A i \in DOMAIN q : at[i] \in Range(at)
          BY DEF Range
        <5> HIDE DEF list, wanted
        <5> QED
          BY <4>1, <4>2, <5>1 DEF ToSet
      <4>4. \A k \in 1 .. Len(list) : list[k] \in wanted => \E i \in DOMAIN q : q[i] = list[k]
        <5>1. \A k \in Range(at) : \E i \in DOMAIN q : at[i] = k
          BY DEF Range
        <5> HIDE DEF list, wanted
        <5> QED
          BY <4>2, <5>1
      <4> HIDE DEF list, wanted
      <4> QED
        BY <4>1, <4>3, <4>4 DEF ToSet
    <3>3. \A n \in names : n \in wanted <=>
             n \in Keys(parameters) /\ OfType(Value(parameters, n), type)
      <4>1. \A s \in Entries : /\ parameters[s].key \in Keys(parameters)
                               /\ parameters[s].value = Value(parameters, parameters[s].key)
        BY <2>1, ValueFacts DEF Entries
      <4>2. \A n \in Keys(parameters) : \E s \in Entries : parameters[s].key = n
        BY DEF Keys, Entries
      <4> QED
        BY <4>1, <4>2
    <3>4. \A n : Find(n) = IF n \in Keys(parameters) THEN {Value(parameters, n)} ELSE {}
      BY <2>1, FindFacts
    <3>5. wanted \subseteq names
      OBVIOUS
    <3> HIDE DEF wanted
    <3>6. wanted = {n \in names : \E p \in Find(n) : OfType(p, type)}
      BY <3>3, <3>4, <3>5
    <3>7. wanted \subseteq ToSet(list)
      BY <2>3, <3>3, <3>5
    <3> QED
      BY <3>2, <3>6, <3>7 DEF q
  <2>5. ASSUME NEW names \in Patterns, NEW type \in Types \ {AnyType}
        PROVE  ToSet(Visited(names, type)) \subseteq
                 UNION {ToSet(VisitedByName(n, type)) : n \in names}
    <3> SUFFICES ASSUME NEW n \in ToSet(Visited(names, type))
                 PROVE  n \in names /\ n \in ToSet(VisitedByName(n, type))
      OBVIOUS
    <3>1. n \in names /\ \E p \in Find(n) : OfType(p, type)
      BY <2>4
    <3>2. \E p \in Find(n) : type # AnyType \/ type = p.type
      BY <3>1
    <3>3. VisitedByName(n, type) = <<n>>
      BY <3>2 DEF VisitedByName
    <3>4. n \in ToSet(<<n>>)
      BY DEF ToSet
    <3> QED
      BY <3>1, <3>3, <3>4
  <2> QED
    BY <2>2, <2>3, <2>4, <2>5 DEF PassSeesAll
<1> QED
  BY <1>1, ParametersInvariant, PTL

-----------------------------------------------------------------------------
(***************************************************************************)
(* The trie and its arrays implement the book of parameters.               *)
(***************************************************************************)

\* What the book has for the trie t.
BookOf(t) == [n \in Keys(t) |-> [type |-> Value(t, n).type, gets |-> Value(t, n).gets]]

\* What Parameters gives for the book.
Written == [n \in Found |-> LET p == CHOOSE p \in Find(n) : TRUE
                            IN  [type |-> p.type, gets |-> p.gets]]

LEMMA WrittenFacts ==
  ASSUME ParametersInv PROVE Written = BookOf(parameters)
<1>1. Trie(parameters)
  BY DEF ParametersInv
<1>2. Found = Keys(parameters)
  BY <1>1, FoundFacts
<1>3. \A n \in Keys(parameters) : (CHOOSE p \in Find(n) : TRUE) = Value(parameters, n)
  <2> SUFFICES ASSUME NEW n \in Keys(parameters)
               PROVE  (CHOOSE p \in Find(n) : TRUE) = Value(parameters, n)
    OBVIOUS
  <2>1. Find(n) = {Value(parameters, n)}
    BY <1>1, FindFacts
  <2>2. (CHOOSE p \in Find(n) : TRUE) \in Find(n)
    BY <2>1
  <2> QED
    BY <2>1, <2>2
<1> QED
  BY <1>2, <1>3 DEF Written, BookOf

LEMMA WrittenNext == ParametersInv' => Written' = BookOf(parameters')
<1>1. ParametersInv => Written = BookOf(parameters)
  BY WrittenFacts
<1>2. (ParametersInv => Written = BookOf(parameters))'
  BY <1>1, PTL
<1> QED
  BY <1>2

LEMMA BookInit == Init => Book!Init
<1> SUFFICES ASSUME Init PROVE Book!Init
  OBVIOUS
<1>1. ParametersInv /\ parameters = EmptyTrie /\ heard = <<>>
  BY InitFacts DEF Init
<1>2. Keys(parameters) = {}
  BY <1>1, EmptyFewer
<1>3. Written = [n \in {} |-> [type |-> Value(parameters, n).type, gets |-> Value(parameters, n).gets]]
  BY <1>1, <1>2, WrittenFacts DEF BookOf
<1>4. Written = <<>>
  BY <1>3
<1> QED
  BY <1>1, <1>4 DEF Book!Init, Written

\* The steps of the book, from the map t to the map u.
LEMMA BookForgets ==
  \A t, u : Fewer(u, t) => BookOf(u) \in {Restrict(BookOf(t), names) : names \in SUBSET DOMAIN BookOf(t)}
<1> SUFFICES ASSUME NEW t, NEW u, Fewer(u, t)
             PROVE  \E names \in SUBSET DOMAIN BookOf(t) : BookOf(u) = Restrict(BookOf(t), names)
  OBVIOUS
<1>1. Keys(u) \in SUBSET DOMAIN BookOf(t)
  BY DEF Fewer, BookOf
<1>2. BookOf(u) = Restrict(BookOf(t), Keys(u))
  BY DEF Fewer, BookOf, Restrict
<1> QED
  BY <1>1, <1>2

Entered(c, b, n, type) ==
  /\ n \notin DOMAIN b
  /\ c = [m \in DOMAIN b \cup {n} |-> IF m = n THEN [type |-> type, gets |-> <<>>] ELSE b[m]]

LEMMA BookCreates ==
  \A t, u, n, type : More(u, t, n, NewParameter(type)) => Entered(BookOf(u), BookOf(t), n, type)
BY DEF More, NewParameter, BookOf, Entered

Joined(c, b, cb) ==
  \E some \in SUBSET DOMAIN b :
    c = [n \in DOMAIN b |-> IF n \in some THEN Book!Subscribed(b[n], cb) ELSE b[n]]

LEMMA BookSubscribes ==
  ASSUME NEW t, NEW u, Trie(t), NEW names, NEW type, NEW cb \in Callbacks,
         Changed(u, t, names, Adding(type, cb))
  PROVE  Joined(BookOf(u), BookOf(t), cb)
<1> DEFINE some == {n \in Keys(t) : n \in names /\ type \in {AnyType, Value(t, n).type}}
           Entry(v) == [type |-> v.type, gets |-> v.gets]
<1>1. DOMAIN BookOf(t) = Keys(t) /\ \A n \in Keys(t) : BookOf(t)[n] = Entry(Value(t, n))
  BY DEF BookOf
<1>2. Keys(u) = Keys(t) /\ BookOf(u) = [n \in Keys(t) |-> Entry(Value(u, n))]
  BY DEF Changed, BookOf
<1>3. ASSUME NEW n \in Keys(t)
      PROVE  Entry(Value(u, n)) = IF n \in some THEN Book!Subscribed(BookOf(t)[n], cb)
                                  ELSE BookOf(t)[n]
  <2> DEFINE v == Value(t, n)
             w == Value(u, n)
  <2>1. v \in Values /\ v \in ParameterValues
    BY ValueFacts DEF Trie, Frame
  <2>2. BookOf(t)[n] = Entry(v)
    BY <1>1
  <2>3. w = IF n \in names THEN Added(v, type, cb) ELSE v
    BY <2>1 DEF Changed, Adding
  <2> HIDE DEF v, w
  <2>4. CASE n \notin some
    <3>1. n \notin names \/ type \notin {AnyType, v.type}
      BY <2>4 DEF v
    <3>2. w = v
      BY <2>3, <3>1 DEF Added
    <3> QED
      BY <2>2, <2>4, <3>2 DEF w
  <2>5. CASE n \in some
    <3>1. n \in names /\ type \in {AnyType, v.type}
      BY <2>5 DEF v
    <3>2. w = IF Present(v, cb) THEN v
              ELSE [v EXCEPT !.gets = Append(@, cb), !.array = "live"]
      BY <2>3, <3>1 DEF Added
    <3>3. Present(v, cb) <=> cb.one /\ \E i \in DOMAIN Entry(v).gets : Entry(v).gets[i].fn = cb.fn
      BY DEF Present
    <3>4. CASE Present(v, cb)
      BY <2>2, <2>5, <3>2, <3>3, <3>4 DEF Book!Subscribed, w
    <3>5. CASE ~Present(v, cb)
      <4> DEFINE g == Append(v.gets, cb)
      <4>1. w = [v EXCEPT !.gets = g, !.array = "live"]
        BY <3>2, <3>5
      <4>2. Book!Subscribed(Entry(v), cb) = [Entry(v) EXCEPT !.gets = Append(@, cb)]
        BY <3>3, <3>5 DEF Book!Subscribed
      <4>3. Entry(v).gets = v.gets
        OBVIOUS
      <4>4. Book!Subscribed(Entry(v), cb) = [type |-> v.type, gets |-> g]
        BY <4>2, <4>3
      <4> HIDE DEF g
      <4>5. w.type = v.type /\ w.gets = g
        BY <2>1, <4>1 DEF ParameterValues
      <4> QED
        BY <2>2, <2>5, <4>4, <4>5 DEF w
    <3> QED
      BY <3>4, <3>5
  <2> QED
    BY <2>4, <2>5
<1>4. some \in SUBSET DOMAIN BookOf(t)
  BY <1>1
<1> HIDE DEF some, Entry
<1>5. BookOf(u) = [n \in DOMAIN BookOf(t) |->
                     IF n \in some THEN Book!Subscribed(BookOf(t)[n], cb) ELSE BookOf(t)[n]]
  BY <1>1, <1>2, <1>3
<1> QED
  BY <1>4, <1>5 DEF Joined

LEMMA BookRestarts ==
  ASSUME NEW t, NEW u, Trie(t), Changed(u, t, Keys(t), Squeezing)
  PROVE  /\ DOMAIN BookOf(u) = DOMAIN BookOf(t)
         /\ \A n \in DOMAIN BookOf(t) : /\ BookOf(u)[n].type = BookOf(t)[n].type
                                        /\ Book!Keeps(BookOf(u)[n].gets, BookOf(t)[n].gets)
<1>1. DOMAIN BookOf(t) = Keys(t) /\ DOMAIN BookOf(u) = Keys(t)
  BY DEF BookOf, Changed
<1> SUFFICES ASSUME NEW n \in Keys(t)
             PROVE  /\ BookOf(u)[n].type = BookOf(t)[n].type
                    /\ Book!Keeps(BookOf(u)[n].gets, BookOf(t)[n].gets)
  BY <1>1
<1> DEFINE v == Value(t, n)
           w == Value(u, n)
<1>2. v \in Values /\ v.gets \in Seq(Callbacks)
  BY ValueFacts DEF Trie, Frame
<1>3. w = Squeezed(v)
  BY <1>2 DEF Changed, Squeezing
<1>4. /\ BookOf(t)[n].type = v.type /\ BookOf(t)[n].gets = v.gets
      /\ BookOf(u)[n].type = w.type /\ BookOf(u)[n].gets = w.gets
  BY <1>1 DEF BookOf
<1> HIDE DEF v, w
<1>5. w.type = v.type /\ w.gets = Kept(v.gets)
  BY <1>2, <1>3, SqueezedFacts
<1>6. Book!Keeps(Kept(v.gets), v.gets)
  BY <1>2, KeptFacts
<1> QED
  BY <1>4, <1>5, <1>6

LEMMA BookStep ==
  ASSUME ParametersInv, [Next]_vars
  PROVE  [Book!Next]_(Book!vars)
<1> DEFINE t == parameters
           u == parameters'
<1>1. ParametersInv' /\ (Effect \/ UNCHANGED <<parameters, heard>>)
  BY StepFacts
<1>2. Trie(t)
  BY DEF ParametersInv
<1>3. Written = BookOf(t)
  BY WrittenFacts
<1>4. Written' = BookOf(u)
  BY <1>1, WrittenNext
<1> HIDE DEF t, u
<1>5. CASE UNCHANGED <<parameters, heard>>
  <2>1. Written' = Written
    BY <1>3, <1>4, <1>5 DEF t, u
  <2> QED
    BY <1>5, <2>1 DEF Book!vars, Written
<1>6. CASE Removes
  <2>1. Written' \in {Restrict(Written, names) : names \in SUBSET DOMAIN Written}
    BY <1>3, <1>4, <1>6, BookForgets DEF Removes, t, u
  <2>2. Written' \in {Book!Restrict(Written, names) : names \in SUBSET DOMAIN Written}
        /\ heard' = <<>>
    BY <1>6, <2>1 DEF Book!Restrict, Restrict, Removes
  <2>3. Book!Forget
    BY <2>2 DEF Book!Forget, Written
  <2> QED
    BY <2>3 DEF Book!Next
<1>7. CASE Adds
  <2>1. PICK n \in Names, type \in Types : More(u, t, n, NewParameter(type)) /\ heard' = <<>>
    BY <1>7 DEF Adds, t, u
  <2>2. Entered(Written', Written, n, type)
    BY <1>3, <1>4, <2>1, BookCreates
  <2>3. \E name \in Names \ DOMAIN Written, ty \in Types :
           /\ Written' = [m \in DOMAIN Written \cup {name} |->
                            IF m = name THEN [type |-> ty, gets |-> <<>>] ELSE Written[m]]
           /\ heard' = <<>>
    BY <2>1, <2>2 DEF Entered
  <2>4. Book!Create
    BY <2>3 DEF Book!Create, Written
  <2> QED
    BY <2>4 DEF Book!Next
<1>8. CASE Subscribes
  <2>1. PICK names, type : \E cb \in Callbacks :
           Changed(u, t, names, Adding(type, cb)) /\ heard' = <<>>
    BY <1>8 DEF Subscribes, t, u
  <2>2. PICK cb \in Callbacks : Changed(u, t, names, Adding(type, cb)) /\ heard' = <<>>
    BY <2>1
  <2>3. Joined(Written', Written, cb)
    BY <1>2, <1>3, <1>4, <2>2, BookSubscribes
  <2>4. \E some \in SUBSET DOMAIN Written, c \in Callbacks :
           /\ Written' = [n \in DOMAIN Written |->
                            IF n \in some THEN Book!Subscribed(Written[n], c) ELSE Written[n]]
           /\ heard' = <<>>
    BY <2>2, <2>3 DEF Joined
  <2>5. Book!Subscribe
    BY <2>4 DEF Book!Subscribe, Written
  <2> QED
    BY <2>5 DEF Book!Next
<1>9. CASE Squeezes
  <2>1. Changed(u, t, Keys(t), Squeezing) /\ heard' = <<>>
    BY <1>9 DEF Squeezes, t, u
  <2>2. /\ DOMAIN Written' = DOMAIN Written
        /\ \A n \in DOMAIN Written : /\ Written'[n].type = Written[n].type
                                     /\ Book!Keeps(Written'[n].gets, Written[n].gets)
    BY <1>2, <1>3, <1>4, <2>1, BookRestarts
  <2>3. Book!Restart
    BY <2>1, <2>2 DEF Book!Restart, Written
  <2> QED
    BY <2>3 DEF Book!Next
<1>10. CASE Tells
  <2>1. PICK n \in Keys(t) : heard' = Called(Value(t, n)) /\ UNCHANGED parameters
    BY <1>10 DEF Tells, t
  <2>2. n \in DOMAIN Written /\ Written[n].gets = Value(t, n).gets
    BY <1>3 DEF BookOf
  <2>3. heard' = [i \in DOMAIN Written[n].gets |-> Written[n].gets[i].fn]
    BY <2>1, <2>2 DEF Called
  <2>4. Written' = Written
    BY <1>3, <1>4, <2>1 DEF t, u
  <2>5. Book!Push
    BY <2>2, <2>3, <2>4 DEF Book!Push, Written
  <2> QED
    BY <2>5 DEF Book!Next
<1> QED
  BY <1>1, <1>5, <1>6, <1>7, <1>8, <1>9, <1>10 DEF Effect

\* What callers do with the parameters of a filter, through the trie and its
\* arrays of callbacks, is what the book of parameters does: no insert, split,
\* removal or merge of nodes loses, adds or confuses a name, a restart keeps the
\* callbacks that asked for it in their order, and a push calls exactly those
\* that are subscribed (parameter.c:137-769, over Dictionary.c).
THEOREM ParametersKeepsBook == Spec => KeepsBook
<1>1. Init => Book!Init
  BY BookInit
<1>2. ParametersInv /\ [Next]_vars => [Book!Next]_(Book!vars)
  BY BookStep
<1> QED
  BY <1>1, <1>2, ParametersInvariant, PTL DEF Spec, KeepsBook, Book!Spec
=============================================================================
