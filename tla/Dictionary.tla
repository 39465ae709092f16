----------------------------- MODULE Dictionary -----------------------------
(***************************************************************************)
(* lib/Dictionary.c: the compressed trie that every table of quickstream   *)
(* is kept in (the parameters of a filter, the controllers of an app, the  *)
(* post-input callbacks of a filter).                                      *)
(*                                                                         *)
(* The code splits each character of a key into Group = 4 digits from 1 to *)
(* 4 and branches on one digit at a time.  A node holds, after the digit   *)
(* that selects it, a suffix in which a group of digits that starts at a   *)
(* multiple of Group is written back as one whole character.  Here a key   *)
(* is its sequence of digits and a trie is a function from the place of a  *)
(* node, the digits before its suffix, to the node: the digits at the end  *)
(* of its suffix and the counts of digits at which the suffix has a whole  *)
(* character.  An unused slot of a children array is no node.              *)
(***************************************************************************)
EXTENDS Integers, Sequences, SequencesExt, Functions, FiniteSets

CONSTANTS Group,     \* digits to a character, 4 in the code
          NoValue    \* the null value of a node without a key

ASSUME GroupAssumption == Group \in Nat \ {0, 1}

-----------------------------------------------------------------------------
NoKey == <<>>

\* Where whole characters stand when the digits from first to last are
\* compressed by a caller that takes count digits to come before them.
Compress(first, last, count) ==
  {p \in first .. last - Group : (p - first + count) % Group = 0}

Node(start, end, key, value) ==
  [end   |-> end,
   chars |-> Compress(Len(start), Len(end), Len(start)),
   key   |-> key,
   value |-> value]

\* The trie t with node at place s, where there may have been none.
Put(t, s, node) ==
  [place \in DOMAIN t \cup {s} |-> IF place = s THEN node ELSE t[place]]

EmptyTrie == [s \in {<<>>} |-> Node(<<>>, <<>>, NoKey, NoValue)]

\* The nodes with an entry, and the keys of the entries.
Keyed(t) == {s \in DOMAIN t : t[s].key # NoKey}
Keys(t) == {t[s].key : s \in Keyed(t)}

Children(t, s) == {c \in DOMAIN t : c # <<>> /\ Front(c) = t[s].end}

\* The nodes on the way to key, and the last of them.
OnTheWay(t, key) == {s \in DOMAIN t : IsPrefix(s, key)}
Deepest(t, key) == CHOOSE s \in OnTheWay(t, key) :
                      \A other \in OnTheWay(t, key) : Len(other) <= Len(s)

\* The place of the child that is under a node which ends at end, on the way
\* to key.
Slot(key, end) == SubSeq(key, 1, Len(end) + 1)

-----------------------------------------------------------------------------
(* Looking a key up.                                                       *)

\* A whole character of a suffix is compared with a whole character of the
\* key, so it only matches where a character of the key starts.
Matches(node) == \A p \in node.chars : p % Group = 0

\* The nodes, at most one, that qsDictionaryFindDict() returns for key.  It
\* does not ask whether the node has a key.
FindDict(t, key) ==
  {s \in OnTheWay(t, key) :
     t[s].end = key /\ \A up \in OnTheWay(t, key) : Matches(t[up])}

\* The nodes that hold an entry for key.
FindEntry(t, key) == {s \in FindDict(t, key) : t[s].key # NoKey}

\* The keys in the order qsDictionaryForEach() comes to them: a node before
\* its children, children by digit.
Before(a, b) == \/ IsPrefix(a, b)
                \/ \E i \in DOMAIN a \cap DOMAIN b :
                      a[i] < b[i] /\ SubSeq(a, 1, i - 1) = SubSeq(b, 1, i - 1)
ForEach(t) ==
  LET pass == CHOOSE q \in [1 .. Cardinality(Keyed(t)) -> Keyed(t)] :
                 \A i, j \in DOMAIN q : i < j => q[i] # q[j] /\ Before(q[i], q[j])
  IN  [i \in DOMAIN pass |-> t[pass[i]].key]

-----------------------------------------------------------------------------
(* Inserting.                                                              *)

\* The node at s is cut at end: it keeps its place and loses its entry, and
\* the rest of its suffix, its entry and its children go to a new child.
Cut(t, s, end) ==
  LET rest == Slot(t[s].end, end)
  IN  Put(Put(t, s, Node(s, end, NoKey, NoValue)),
          rest, Node(rest, t[s].end, t[s].key, t[s].value))

CommonPrefix(a, b) ==
  LET same == {n \in 0 .. Len(a) : n <= Len(b)
                                    /\ \A i \in 1 .. n : a[i] = b[i]}
  IN  SubSeq(a, 1, Max(same))

\* The value an Insert of a key that is there already would have stored is
\* dropped: the caller sees a return of 1.
Inserted(t, key, value) ==
  LET s    == Deepest(t, key)
      meet == CommonPrefix(t[s].end, key)
      u    == IF meet = t[s].end THEN t ELSE Cut(t, s, meet)
  IN  IF meet = key
      THEN IF u[s].key = NoKey
           THEN [u EXCEPT ![s].key = key, ![s].value = value]
           ELSE u
      ELSE Put(u, Slot(key, meet), Node(Slot(key, meet), key, key, value))

-----------------------------------------------------------------------------
(* Removing.                                                               *)

\* Mutant: the count is taken to be zero.
AbsorbedUncounted(first, last, chars, hasKey) ==
  IF chars # {} \/ hasKey THEN Compress(first, last, 0) ELSE {}

\* The whole characters of a node that swallows its only child.  The count
\* of digits above the node is not known here and is guessed from the first
\* whole character, or from the end when the child holds an entry.
Absorbed(first, last, chars, hasKey) ==
  IF chars # {}
  THEN Compress(first, last, Group - ((Min(chars) - first) % Group))
  ELSE IF hasKey THEN Compress(first, last, Group - ((last - first) % Group))
  ELSE {}

AbsorbChild(t, s, child) ==
  [Restrict(t, DOMAIN t \ {child}) EXCEPT
     ![s] = [t[child] EXCEPT
               !.chars = Absorbed(Len(s), Len(t[child].end),
                                  t[s].chars \cup @, t[child].key # NoKey)]]

\* Mutant: only a node that has lost its own entry is looked at.
PruneNot(t, s) == t

\* A node below the root with no entry and one child swallows it.
Prune(t, s) ==
  IF s # <<>> /\ t[s].key = NoKey /\ \E c \in DOMAIN t : Children(t, s) = {c}
  THEN AbsorbChild(t, s, CHOOSE c \in DOMAIN t : Children(t, s) = {c})
  ELSE t

Emptied(t, s) ==
  IF Children(t, s) = {} THEN Restrict(t, DOMAIN t \ {s})
  ELSE Prune([t EXCEPT ![s].key = NoKey, ![s].value = NoValue], s)

\* The return of 1, nothing found, leaves the trie alone.
Removed(t, key) ==
  IF FindEntry(t, key) = {} THEN t
  ELSE LET s  == CHOOSE x \in FindEntry(t, key) : TRUE
           up == CHOOSE p \in DOMAIN t : s \in Children(t, p)
       IN  Prune(Emptied(t, s), up)

-----------------------------------------------------------------------------
(* The shape a trie has between calls.                                     *)

\* A node below the root either has an entry or parts two keys: Insert would
\* otherwise find a suffix on a slot it takes to be unused.
NoIdleNode(t) ==
  \A s \in DOMAIN t \ {<<>>} :
     t[s].key = NoKey => \E c, d \in Children(t, s) : c # d

\* Every node is reached from the root, and holds the key its place spells.
WellRooted(t) ==
  \A s \in DOMAIN t \ {<<>>} :
     /\ \E up \in DOMAIN t : s \in Children(t, up)
     /\ t[s].key \in {NoKey, t[s].end}
=============================================================================
