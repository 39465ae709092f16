----------------------------- MODULE Parameters -----------------------------
(***************************************************************************)
(* lib/parameter.c over lib/Dictionary.c: the parameters of one filter,    *)
(* the get callbacks that others add to them, and the pushes of values     *)
(* that call those.                                                        *)
(*                                                                         *)
(* A get callback is a record [fn, keep, one] of the function and its      *)
(* flags QS_KEEP_AT_RESTART and QS_KEEP_ONE.  A call that hands the C      *)
(* library memory it has freed, or reads through a null pointer, ends the  *)
(* program: broken says so and nothing follows.                            *)
(***************************************************************************)
EXTENDS Dictionary

CONSTANTS Names,        \* the names that callers use, sequences of digits
          Patterns,     \* the regular expressions, each the names it matches
          Types,        \* values of enum QsParameterType but AnyType
          AnyType,
          Callbacks,
          Settable,     \* the names whose parameters are created with a setCallback()
          MaxParameters, MaxGets    \* bounds on the entries and on all callbacks

ASSUME NamesAssumption ==
  \A n \in Names : n \in Seq(Nat) /\ n # <<>> /\ Len(n) % Group = 0
ASSUME CallbacksAssumption ==
  \A cb \in Callbacks : cb.keep \in BOOLEAN /\ cb.one \in BOOLEAN
ASSUME BoundsAssumption == MaxParameters \in Nat /\ MaxGets \in Nat

VARIABLES parameters,   \* f->parameters, a trie of struct QsParameter
          heard,        \* the getCallback()s of the last call, in order
          broken
vars == <<parameters, heard, broken>>

-----------------------------------------------------------------------------
\* What a struct QsParameter may hold; no null pointer is one.
ParameterValues == [type  : Types,
                    gets  : Seq(Callbacks),
                    array : {"none", "live", "freed"}]
ASSUME ValueAssumption == NoValue \notin ParameterValues

NewParameter(type) == [type |-> type, gets |-> <<>>, array |-> "none"]

Init == parameters = EmptyTrie /\ heard = <<>> /\ broken = FALSE

\* What qsDictionaryFind() gives callers: a node with no key has value null.
Find(n) == {parameters[s].value : s \in FindEntry(parameters, n)}
Entries == Keyed(parameters)
Matching(names) == {s \in Entries : parameters[s].key \in names}

\* What a loop over a list, or a pass over the dictionary, picks of it.
Picked(list, wanted) ==
  LET upto[i \in 0 .. Len(list)] ==
        IF i = 0 THEN <<>>
        ELSE IF list[i] \in wanted THEN Append(upto[i - 1], list[i])
        ELSE upto[i - 1]
  IN  upto[Len(list)]

\* FreeParameter() frees the array of callbacks by its pointer alone.
FreesTwice(s) == parameters[s].value.array = "freed"

\* qsParameterCreate(), qsParameterCreateForFilter()
Create(n, type) ==
  /\ Cardinality(Keys(parameters)) < MaxParameters
  /\ parameters' = Inserted(parameters, n, NewParameter(type))
  /\ heard' = <<>>
  /\ UNCHANGED broken

\* qsParameterDestroyForFilter() with a name, qsParameterDestroy()
Destroy(n) ==
  LET found == FindEntry(parameters, n)
  IN  /\ parameters' = Removed(parameters, n)
      /\ broken' = \E s \in found : FreesTwice(s)
      /\ heard' = <<>>

\* The names on a stack are removed from its top.
RemovedAll(t, stack) ==
  LET left[i \in 0 .. Len(stack)] ==
        IF i = 0 THEN t ELSE Removed(left[i - 1], stack[Len(stack) + 1 - i])
  IN  left[Len(stack)]

\* qsParameterDestroyForFilter() with a regular expression: the matches are
\* stacked by one pass.
DestroyMatching(names) ==
  /\ parameters' = RemovedAll(parameters, Picked(ForEach(parameters), names))
  /\ broken' = \E s \in Matching(names) : FreesTwice(s)
  /\ heard' = <<>>

\* DestroyFilter(): the dictionary and all it holds are freed.
DestroyAll ==
  /\ parameters' = EmptyTrie
  /\ broken' = \E s \in Entries : FreesTwice(s)
  /\ heard' = <<>>

-----------------------------------------------------------------------------
(* Get callbacks.                                                          *)

\* Mutant: the search stops before the first callback.
PresentLater(p, cb) ==
  cb.one /\ \E i \in DOMAIN p.gets \ {1} : p.gets[i].fn = cb.fn

Present(p, cb) ==
  cb.one /\ \E i \in DOMAIN p.gets : p.gets[i].fn = cb.fn

\* The parameter after AddGetCallback(); a type that does not agree adds none.
Added(p, type, cb) ==
  IF type \notin {AnyType, p.type} \/ Present(p, cb) THEN p
  ELSE [p EXCEPT !.gets = Append(@, cb), !.array = "live"]

\* AddGetCallback() gives the freed array to realloc().
ReallocsFreed(p, type, cb) == Added(p, type, cb) # p /\ p.array = "freed"

NumGets(t) ==
  Cardinality(UNION {{t[s].key} \X DOMAIN t[s].value.gets : s \in Keyed(t)})

\* qsParameterGet() with a name.  It follows the value of whatever node the
\* dictionary returns.
Get(n, type, cb) ==
  LET found == FindDict(parameters, n)
      next  == [s \in DOMAIN parameters |->
                  IF s \in found \cap Entries
                  THEN [parameters[s] EXCEPT !.value = Added(@, type, cb)]
                  ELSE parameters[s]]
  IN  /\ NumGets(next) <= MaxGets
      /\ parameters' = next
      /\ broken' = \E s \in found :
                      \/ s \notin Entries
                      \/ ReallocsFreed(parameters[s].value, type, cb)
      /\ heard' = <<>>

\* qsParameterGet() with a regular expression
GetMatching(names, type, cb) ==
  LET next == [s \in DOMAIN parameters |->
                 IF s \in Matching(names)
                 THEN [parameters[s] EXCEPT !.value = Added(@, type, cb)]
                 ELSE parameters[s]]
  IN  /\ NumGets(next) <= MaxGets
      /\ parameters' = next
      /\ broken' = \E s \in Matching(names) :
                      ReallocsFreed(parameters[s].value, type, cb)
      /\ heard' = <<>>

Kept(gets) == Picked(gets, {cb \in Callbacks : cb.keep})

\* Mutant: the callbacks that stay are counted and not moved.
SqueezedInPlace(p) ==
  LET num == Len(Kept(p.gets))
  IN  IF p.gets = <<>> THEN p
      ELSE [p EXCEPT !.gets = SubSeq(@, 1, num),
                     !.array = IF num = 0 THEN "freed" ELSE "live"]

\* RemoveCallbacksForRestart(): the callbacks that stay move to the front of
\* the array; if none stays the array is freed and its pointer stays.
Squeezed(p) ==
  IF p.gets = <<>> THEN p
  ELSE [p EXCEPT !.gets = Kept(@),
                 !.array = IF Kept(p.gets) = <<>> THEN "freed" ELSE "live"]

\* _qsParameterRemoveCallbacksForRestart(), called by qsStreamStop()
Restart ==
  /\ parameters' = [s \in DOMAIN parameters |->
                      IF s \in Entries
                      THEN [parameters[s] EXCEPT !.value = Squeezed(@)]
                      ELSE parameters[s]]
  /\ heard' = <<>>
  /\ UNCHANGED broken

-----------------------------------------------------------------------------
(* Values.                                                                 *)

Called(p) == [i \in DOMAIN p.gets |-> p.gets[i].fn]

\* qsParameterPush(), qsParameterPushByPointer()
Push(n) ==
  /\ \E p \in Find(n) : heard' = Called(p)
  /\ UNCHANGED <<parameters, broken>>

\* qsParameterSet(): the setCallback() of the owner may push the value or let
\* it be; a name or a type that does not agree is refused.  A parameter that
\* has no setCallback() is called through null.
Set(n, type) ==
  LET asked == {p \in Find(n) : p.type = type}
  IN  /\ \/ n \in Settable /\ \E p \in asked : heard' = Called(p)
         \/ heard' = <<>>
      /\ broken' = (asked # {} /\ n \notin Settable)
      /\ UNCHANGED parameters

-----------------------------------------------------------------------------
(* Looking through the parameters.                                         *)

OfType(p, type) == type \in {AnyType, p.type}

\* qsParameterForEach() with a name: the names its callback is called with.
\* The test is "type is given, or is the parameter's", so AnyType finds nothing
\* and any other type finds a parameter of another type too.
VisitedByName(n, type) ==
  IF \E p \in Find(n) : type # AnyType \/ type = p.type THEN <<n>> ELSE <<>>

\* qsParameterForEach() with a regular expression
Visited(names, type) ==
  Picked(ForEach(parameters),
         {n \in names : \E s \in Entries : /\ parameters[s].key = n
                                          /\ OfType(parameters[s].value, type)})

-----------------------------------------------------------------------------
Next ==
  /\ ~broken
  /\ \/ \E n \in Names, type \in Types : Create(n, type)
     \/ \E n \in Names : Destroy(n)
     \/ \E names \in Patterns : DestroyMatching(names)
     \/ DestroyAll
     \/ \E n \in Names, type \in Types \cup {AnyType}, cb \in Callbacks :
           Get(n, type, cb)
     \/ \E names \in Patterns, type \in Types \cup {AnyType}, cb \in Callbacks :
           GetMatching(names, type, cb)
     \/ Restart
     \/ \E n \in Names : Push(n)
     \/ \E n \in Names, type \in Types : Set(n, type)

Spec == Init /\ [][Next]_vars

-----------------------------------------------------------------------------
(* Properties.                                                             *)

\* Every value in the table is a parameter and the bounds are kept.
TypeOK ==
  /\ \A s \in Entries : parameters[s].value \in ParameterValues
  /\ heard \in Seq({cb.fn : cb \in Callbacks})
  /\ broken \in BOOLEAN
  /\ Cardinality(Keys(parameters)) <= MaxParameters
  /\ NumGets(parameters) <= MaxGets

\* Every variable has its type, and inserting and removing in any order leave
\* no node that holds nothing and parts nothing, and none that the root does
\* not lead to (Dictionary.c:1282, PruneNodeDown: "there must be a key/value
\* pair in at least one child").
WellShaped == TypeOK /\ NoIdleNode(parameters) /\ WellRooted(parameters)

\* A callback added with QS_KEEP_ONE is the first of its function on its
\* parameter, through every later Get and every squeeze of the array
\* (parameter.c:434, "only add this callback just once").
OnceOnly ==
  \A s \in Entries : LET gets == parameters[s].value.gets
                     IN  \A i, j \in DOMAIN gets :
                            i < j /\ gets[i].fn = gets[j].fn => ~gets[j].one

\* The book of the names that the trie finds.
Found == {n \in Names : Find(n) # {}}
Book == INSTANCE ParameterBook WITH
          book <- [n \in Found |->
                     LET p == CHOOSE p \in Find(n) : TRUE
                     IN  [type |-> p.type, gets |-> p.gets]]
\* The trie of parameters with its arrays of callbacks does what the book of
\* parameters does: no insert, split, removal or merge of nodes loses, adds or
\* confuses a name, and a push calls exactly the callbacks subscribed.
KeepsBook == Book!Spec

\* The names that a pass over the dictionary comes to are those that can be
\* found, each once (Dictionary.h:100, "Searches the entire data structure"),
\* and a search for parameters by regular expression comes to those that match
\* and are of the type asked for (parameter.h:499).  A search by name does not
\* look at the type (parameter.c:831): for a type it comes to no less.
PassSeesAll ==
  /\ Len(ForEach(parameters)) = Cardinality(Found)
  /\ ToSet(ForEach(parameters)) = Found
  /\ \A names \in Patterns, type \in Types \cup {AnyType} :
       ToSet(Visited(names, type)) = {n \in names : \E p \in Find(n) : OfType(p, type)}
  /\ \A names \in Patterns, type \in Types \ {AnyType} :
       ToSet(Visited(names, type)) \subseteq
         UNION {ToSet(VisitedByName(n, type)) : n \in names}

\* qsDictionaryFindDict() returns an entry for the name or nothing
\* (Dictionary.h:53, "Returns a struct QsDictionary for key or 0 if not
\* found", and the DASSERT(node->key) at Dictionary.c:898).
FoundHasKey ==
  \A n \in Names : FindDict(parameters, n) = FindEntry(parameters, n)

\* A parameter has an array of callbacks exactly when it has callbacks
\* (parameter.c:113, FreeParameter: if getCallbacks is set then
\* DASSERT(p->numGetCallbacks); and :256, with callbacks
\* DASSERT(p->getCallbacks)).
ArrayIffGets ==
  \A s \in Entries : parameters[s].value.array # "none"
                     <=> parameters[s].value.gets # <<>>
=============================================================================
