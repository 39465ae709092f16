----------------------------- MODULE FilterList -----------------------------
(***************************************************************************)
(* The filters of an app: how lib/filter.c and lib/filterList.h load, name *)
(* and unload them, and how lib/stream.c takes a whole stream down.        *)
(*                                                                         *)
(* All of it runs in the main thread while no stream is ready or flowing.  *)
(* Control passes to the modules' construct() and destroy(): a construct() *)
(* may load and unload other filters, a destroy() may unload others        *)
(* (filterList.h:71); neither unloads a filter whose function is running.  *)
(* A module without one of them is one whose function does nothing.        *)
(* Connections are in StreamGraph.tla, parameters in Parameters.tla.       *)
(***************************************************************************)
EXTENDS Integers, Sequences, SequencesExt, FiniteSets, FiniteSetsExt, Functions

CONSTANTS
  Streams,    \* the streams there may be in the app
  Filters,    \* where a struct QsFilter may be allocated
  Files,      \* the module files
  NoInput,    \* those that do not provide input()
  DerivedName, \* the name that is made of a file's
  LoadNames,  \* the names that callers ask for
  None        \* no filter, no name, no walk

\* A name is a sequence: "copy-2" is <<"copy", 2>>.
ASSUME FilesAssumption ==
  /\ NoInput \subseteq Files
  /\ DOMAIN DerivedName = Files
  /\ \A name \in LoadNames \cup {DerivedName[file] : file \in Files} :
       Len(name) \in Nat /\ name = [i \in 1 .. Len(name) |-> name[i]]
  /\ None \notin Filters \cup Streams \cup LoadNames
  /\ IsFiniteSet(Filters)

VARIABLES
  app,     \* the streams in app->streams
  list,    \* s->filters
  dict,    \* s->dict, from names to filters
  filter,  \* the filters allocated: their name, their stream, their handle
  opened,  \* how many times dlopen() has each handle open
  key,     \* the thread specific _qsKey
  frames,  \* calls of construct() and destroy(): the filter and the key before
  walk,    \* the stream qsStreamDestroy() takes down, and the filter it is at
  broken   \* a failed ASSERT() or a freed filter has ended the program
vars == <<app, list, dict, filter, opened, key, frames, walk, broken>>

\* The handle of a file, and of the temporary copy of it made for filter f.
Original(file) == <<file>>
CopyFor(file, f) == <<file, f>>
Handles == {Original(file) : file \in Files}
           \cup {CopyFor(file, f) : file \in Files, f \in Filters}

Listed(s) == ToSet(list[s])
Place(s, f) == CHOOSE i \in DOMAIN list[s] : list[s][i] = f

Init == /\ app = {}
        /\ list = [s \in Streams |-> <<>>]
        /\ dict = [s \in Streams |-> <<>>]
        /\ filter = <<>>
        /\ opened = [h \in Handles |-> 0]
        /\ key = None
        /\ frames = <<>>
        /\ walk = None
        /\ broken = FALSE

-----------------------------------------------------------------------------
(* Names and handles.                                                      *)

\* FindFilterNamed() goes through the filters of all streams.
Named(name) == {f \in UNION {Listed(s) : s \in app} : filter[f].name = name}

\* Mutant: only the stream that the filter is loaded in is searched.
NewNameInStream(name, s) ==
  LET taken == {filter[f].name : f \in Listed(s)}
  IN  IF name \notin taken THEN name
      ELSE Append(name, Min({n \in 2 .. Cardinality(Filters) + 1 :
                                Append(name, n) \notin taken}))

\* AllocAndAddToFilterList(s) counts up from 2 to a name that no stream has.
NewName(name, s) ==
  IF Named(name) = {} THEN name
  ELSE Append(name, Min({n \in 2 .. Cardinality(Filters) + 1 :
                            Named(Append(name, n)) = {}}))

\* Mutant: dlopen() is taken to give a new handle each time.
HandleShared(file, f, s) == Original(file)

\* dlopen() gives the handle it gave before; if a filter of the stream has it
\* the file is closed again and a copy of it is opened.
HandleGot(file, f, s) ==
  IF \E g \in Listed(s) : filter[g].handle = Original(file)
  THEN CopyFor(file, f) ELSE Original(file)

-----------------------------------------------------------------------------
(* Loading and unloading.                                                  *)

\* A table with one more entry.
Having(t, x, value) == [y \in DOMAIN t \cup {x} |-> IF y = x THEN value ELSE t[y]]

\* The library calls a function of filter f, on top of the others.
Enter(what, f, before, under) ==
  /\ frames' = Append(under, [what |-> what, who |-> f, saved |-> before])
  /\ key' = f

\* DestroyFilter(): out of the dictionary and the list, then FreeFilter()
\* calls destroy().
Detached(f, before, under) ==
  LET s == filter[f].stream
  IN  /\ dict' = [dict EXCEPT ![s] = Restrict(@, DOMAIN @ \ {filter[f].name})]
      /\ list' = [list EXCEPT ![s] = RemoveAt(@, Place(s, f))]
      /\ Enter("destroy", f, before, under)

\* The application or a construct() calls the library.
MayLoad == IF frames = <<>> THEN walk = None ELSE Last(frames).what = "construct"

\* qsStreamFilterLoad() up to the call of construct(); a name that was asked
\* for and is taken fails.
Load(s, file, asked) ==
  /\ MayLoad
  /\ s \in app /\ file \notin NoInput
  /\ asked # None => Named(asked) = {}
  /\ \E f \in Filters \ DOMAIN filter :
       LET name   == NewName(IF asked = None THEN DerivedName[file] ELSE asked, s)
           handle == HandleGot(file, f, s)
       IN  /\ filter' = Having(filter, f,
                              [name |-> name, stream |-> s, handle |-> handle])
           /\ list' = [list EXCEPT ![s] = Append(@, f)]
           /\ dict' = [dict EXCEPT ![s] = Having(@, name, f)]
           /\ opened' = [opened EXCEPT ![handle] = @ + 1]
           /\ Enter("construct", f, key, frames)
  /\ UNCHANGED <<app, walk, broken>>

\* A file without input(): DestroyFilter() is called before the filter is in
\* the dictionary, and its ASSERT() that the name is removed ends the program.
LoadNoInput(s, file, asked) ==
  /\ MayLoad
  /\ s \in app /\ file \in NoInput
  /\ asked # None => Named(asked) = {}
  /\ broken' = TRUE
  /\ UNCHANGED <<app, list, dict, filter, opened, key, frames, walk>>

\* Mutant: the key is cleared as if construct() had been called by nobody.
ConstructedClears(ok) ==
  /\ frames # <<>> /\ Last(frames).what = "construct"
  /\ IF ok
     THEN /\ frames' = Front(frames)
          /\ key' = None
          /\ UNCHANGED <<list, dict>>
     ELSE Detached(Last(frames).who, None, Front(frames))
  /\ UNCHANGED <<app, filter, opened, walk, broken>>

\* construct() returns; if it returned other than 0 the filter is unloaded.
Constructed(ok) ==
  /\ frames # <<>> /\ Last(frames).what = "construct"
  /\ IF ok
     THEN /\ frames' = Front(frames)
          /\ key' = Last(frames).saved
          /\ UNCHANGED <<list, dict>>
     ELSE Detached(Last(frames).who, Last(frames).saved, Front(frames))
  /\ UNCHANGED <<app, filter, opened, walk, broken>>

Running == {frames[i].who : i \in DOMAIN frames}

\* qsFilterUnload()
Unload(f) ==
  /\ frames = <<>> => walk = None
  /\ f \in DOMAIN filter \ Running
  /\ Detached(f, key, frames)
  /\ UNCHANGED <<app, filter, opened, walk, broken>>

\* destroy() returns to FreeFilter(): the module is closed, the filter freed.
Destroyed ==
  /\ frames # <<>> /\ Last(frames).what = "destroy"
  /\ frames' = Front(frames)
  /\ key' = Last(frames).saved
  /\ LET f == Last(frames).who
     IN  /\ opened' = [opened EXCEPT ![filter[f].handle] = @ - 1]
         /\ filter' = Restrict(filter, DOMAIN filter \ {f})
  /\ UNCHANGED <<app, list, dict, walk, broken>>

-----------------------------------------------------------------------------
(* Streams.                                                                *)

\* qsAppStreamCreate()
StreamCreate(s) ==
  /\ frames = <<>> /\ walk = None
  /\ s \notin app
  /\ app' = app \cup {s}
  /\ dict' = [dict EXCEPT ![s] = <<>>]
  /\ list' = [list EXCEPT ![s] = <<>>]
  /\ UNCHANGED <<filter, opened, key, frames, walk, broken>>

FirstIn(s) == IF list[s] = <<>> THEN None ELSE Head(list[s])
NextIn(s, f) ==
  IF f = Last(list[s]) THEN None ELSE list[s][Place(s, f) + 1]

\* qsStreamDestroy(), which qsAppDestroy() calls for each stream
StreamDestroy(s) ==
  /\ frames = <<>> /\ walk = None
  /\ s \in app
  /\ walk' = [stream |-> s, at |-> FirstIn(s)]
  /\ UNCHANGED <<app, list, dict, filter, opened, key, frames, broken>>

\* Mutant: the walk ends at a filter that is not the first.
WalkOnce ==
  /\ frames = <<>> /\ walk # None /\ walk.at \in Listed(walk.stream)
  /\ walk' = [walk EXCEPT !.at = None]
  /\ Detached(walk.at, key, frames)
  /\ UNCHANGED <<app, filter, opened, broken>>

\* The walk destroys a filter; the one after it was read before.
Walk ==
  /\ frames = <<>> /\ walk # None /\ walk.at \in Listed(walk.stream)
  /\ walk' = [walk EXCEPT !.at = NextIn(walk.stream, walk.at)]
  /\ Detached(walk.at, key, frames)
  /\ UNCHANGED <<app, filter, opened, broken>>

\* The filter that the walk comes to was freed by the destroy() before it.
WalkFreed ==
  /\ frames = <<>> /\ walk # None
  /\ walk.at \notin Listed(walk.stream) \cup {None}
  /\ broken' = TRUE
  /\ UNCHANGED <<app, list, dict, filter, opened, key, frames, walk>>

\* The walk is over: the dictionary and the stream go.
WalkEnd ==
  /\ frames = <<>> /\ walk # None /\ walk.at = None
  /\ app' = app \ {walk.stream}
  /\ walk' = None
  /\ UNCHANGED <<list, dict, filter, opened, key, frames, broken>>

-----------------------------------------------------------------------------
Next ==
  /\ ~broken
  /\ \/ \E s \in Streams, file \in Files, asked \in LoadNames \cup {None} :
          Load(s, file, asked) \/ LoadNoInput(s, file, asked)
     \/ \E ok \in BOOLEAN : Constructed(ok)
     \/ \E f \in Filters : Unload(f)
     \/ Destroyed
     \/ \E s \in Streams : StreamCreate(s) \/ StreamDestroy(s)
     \/ Walk \/ WalkFreed \/ WalkEnd

Spec == Init /\ [][Next]_vars

-----------------------------------------------------------------------------
(* Properties.                                                             *)

\* Every variable has its type, and a filter is in its own stream's list only.
TypeOK ==
  /\ app \subseteq Streams
  /\ list \in [Streams -> Seq(Filters)]
  /\ \A s \in Streams : IsInjective(list[s])
  /\ DOMAIN filter \subseteq Filters
  /\ \A f \in DOMAIN filter : filter[f].stream \in app /\ filter[f].handle \in Handles
  /\ \A s \in Streams : \A f \in Listed(s) : f \in DOMAIN filter /\ filter[f].stream = s
  /\ opened \in [Handles -> Nat]
  /\ key \in Filters \cup {None}
  /\ broken \in BOOLEAN

\* Every variable has its type; whatever is loaded and unloaded, with the name
\* that was asked for or made, no two filters of the app have one name, and
\* each stream's dictionary finds its filters and no others (filterList.h:176,
\* "name must be unique for all filters in stream", and the ASSERTs that inserts
\* and removals succeed).
NamesExact ==
  /\ TypeOK
  /\ \A s, t \in app : \A f \in Listed(s), g \in Listed(t) :
       filter[f].name = filter[g].name => f = g
  /\ \A s \in app :
       /\ DOMAIN dict[s] = {filter[f].name : f \in Listed(s)}
       /\ \A f \in Listed(s) : dict[s][filter[f].name] = f

\* The key names the filter whose function runs, innermost of those that call
\* each other, and none when none runs; no filter's functions are nested in
\* each other, and one that is being destroyed can no longer be found
\* (filter.c:253; filterList.h:78, "A filter cannot unload itself").
RunningExact ==
  /\ key = (IF frames = <<>> THEN None ELSE Last(frames).who)
  /\ IsInjective([i \in DOMAIN frames |-> frames[i].who])
  /\ \A i \in DOMAIN frames :
       LET f == frames[i].who
       IN  f \in DOMAIN filter /\ (f \in Listed(filter[f].stream)
                                   <=> frames[i].what = "construct")

\* No two filters of a stream share a module's data, and a module is open as
\* long as a filter uses it and no longer (filter.c:141, "Otherwise we will
\* have just the one plugin loaded, but referred to by two (or more) filters").
ModulesApart ==
  /\ \A s \in app : \A f, g \in Listed(s) :
       filter[f].handle = filter[g].handle => f = g
  /\ \A h \in Handles :
       opened[h] = Cardinality({f \in DOMAIN filter : filter[f].handle = h})
=============================================================================
