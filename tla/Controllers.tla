----------------------------- MODULE Controllers -----------------------------
(***************************************************************************)
(* The controllers of an app: how lib/controller.c loads and unloads them, *)
(* the hooks that lib/streamReady.c calls as a stream gets ready and stops *)
(* and the callbacks they add after a filter's input() (lib/               *)
(* prePostInputCallbacks.c, called from lib/flow.c).                       *)
(*                                                                         *)
(* Everything here runs in the main thread, but for the post-input         *)
(* callbacks, which run under the stream's mutex.  Control passes between  *)
(* the library and the modules' construct() and hooks, which may load and  *)
(* unload other controllers: frames is the stack of those calls.  destroy()*)
(* neither loads nor unloads.  A controller does not unload itself.        *)
(***************************************************************************)
EXTENDS Integers, Sequences, SequencesExt, FiniteSets, Functions

CONSTANTS Controllers,  \* the controllers there are to load, by their names
          Filters,      \* the filters of the one stream
          NameOrder,    \* the names in the order a dictionary comes to them
          Provides,     \* the hooks that a controller's module has
          None          \* no controller

Phases == {"preStart", "postStart", "preStop", "postStop"}
Fn == {"callback", "null"}

ASSUME ControllersAssumption ==
  /\ None \notin Controllers
  /\ ToSet(NameOrder) = Controllers /\ Len(NameOrder) = Cardinality(Controllers)
  /\ Provides \in [Controllers -> SUBSET Phases]

VARIABLES
  list,    \* app->first ... app->last
  mark,    \* c->mark of a loaded controller
  hooks,   \* the hook pointers c->preStart ... c->postStop that are not null
  key,     \* the thread specific _qsControllerKey
  frames,  \* calls of construct() and hooks: the controller and the key before
  stage,   \* what is being done with the stream
  at,      \* the controller a pass over the list for the hooks is at
  due,     \* in the list since the pass began, with a hook not yet called
  posts,   \* f->postInputCallbacks: by controller, [fn, returned]
  broken   \* a call through a null pointer has ended the program
vars == <<list, mark, hooks, key, frames, stage, at, due, posts, broken>>

-----------------------------------------------------------------------------
Loaded == ToSet(list)
Place(c) == CHOOSE i \in DOMAIN list : list[i] = c
IsStop(phase) == phase \in {"preStop", "postStop"}

Init == /\ list = <<>>
        /\ mark = [c \in Controllers |-> "none"]
        /\ hooks = [c \in Controllers |-> {}]
        /\ key = None
        /\ frames = <<>>
        /\ stage = "stopped"
        /\ at = None
        /\ due = {}
        /\ posts = [f \in Filters |-> <<>>]
        /\ broken = FALSE

\* Modules may call the library: from the app when nothing is called, or from
\* the construct() or the hook on top of the stack.
MayCall == stage # "flowing"
           /\ (frames # <<>> \/ stage \in {"stopped", "ready", "failed"})

\* A call into a module by the library: the key names it and so does its mark.
Enter(c, phase) ==
  /\ frames' = Append(frames, [who |-> c, saved |-> key])
  /\ key' = c
  /\ mark' = [mark EXCEPT ![c] = phase]

\* qsControllerUnload(): the post-input callbacks go, and the removal from the
\* dictionary runs DictionaryDestroyController(): destroy() and off the list.
Without(t, c) == Restrict(t, DOMAIN t \ {c})
Unloaded(c) ==
  /\ posts' = [f \in Filters |-> Without(posts[f], c)]
  /\ list' = RemoveAt(list, Place(c))
  /\ hooks' = [hooks EXCEPT ![c] = {}]
  /\ due' = due \ {c}

-----------------------------------------------------------------------------
(* Loading and unloading.                                                  *)

\* Mutant: the name is not looked up in the dictionary first.
LoadAnyName(c) ==
  /\ MayCall
  /\ mark[c] = "none"
  /\ list' = Append(list, c)
  /\ hooks' = [hooks EXCEPT ![c] = Provides[c]]
  /\ Enter(c, "construct")
  /\ UNCHANGED <<stage, at, due, posts, broken>>

\* qsAppControllerLoad() up to the call of construct()
Load(c) ==
  /\ MayCall
  /\ c \notin Loaded
  /\ list' = Append(list, c)
  /\ hooks' = [hooks EXCEPT ![c] = Provides[c]]
  /\ Enter(c, "construct")
  /\ UNCHANGED <<stage, at, due, posts, broken>>

\* Mutants: the key is cleared as after a hook; a load that fails leaves the
\* list without the removal of callbacks in qsControllerUnload().
ConstructedClears(ok) ==
  /\ frames # <<>> /\ mark[Last(frames).who] = "construct"
  /\ LET c == Last(frames).who
     IN  /\ key' = None
         /\ frames' = Front(frames)
         /\ mark' = [mark EXCEPT ![c] = "none"]
         /\ IF ok THEN UNCHANGED <<list, hooks, due, posts>> ELSE Unloaded(c)
  /\ UNCHANGED <<stage, at, broken>>

ConstructedTakenOff(ok) ==
  /\ frames # <<>> /\ mark[Last(frames).who] = "construct"
  /\ LET c == Last(frames).who
     IN  /\ key' = Last(frames).saved
         /\ frames' = Front(frames)
         /\ mark' = [mark EXCEPT ![c] = "none"]
         /\ IF ok THEN UNCHANGED <<list, hooks, due>>
            ELSE /\ list' = RemoveAt(list, Place(c))
                 /\ hooks' = [hooks EXCEPT ![c] = {}]
                 /\ due' = due \ {c}
  /\ UNCHANGED <<stage, at, posts, broken>>

\* construct() returns to qsAppControllerLoad(), which gives the key back.  If
\* it returned other than 0 the module is closed and unloaded with no destroy().
Constructed(ok) ==
  /\ frames # <<>> /\ mark[Last(frames).who] = "construct"
  /\ LET c == Last(frames).who
     IN  /\ key' = Last(frames).saved
         /\ frames' = Front(frames)
         /\ mark' = [mark EXCEPT ![c] = "none"]
         /\ IF ok THEN UNCHANGED <<list, hooks, due, posts>> ELSE Unloaded(c)
  /\ UNCHANGED <<stage, at, broken>>

\* qsControllerUnload() of a controller none of whose functions is running
Unload(c) ==
  /\ MayCall
  /\ c \in Loaded /\ mark[c] = "none"
  /\ Unloaded(c)
  /\ UNCHANGED <<mark, key, frames, stage, at, broken>>

-----------------------------------------------------------------------------
(* Hooks.                                                                  *)

\* The pass over the list: from the front for a start, from the end for a
\* stop, by the pointers of the controller whose hook has just returned.
FirstOfLoaded(phase) == IF list = <<>> THEN None ELSE Head(list)  \* mutant

FirstOf(phase) == IF list = <<>> THEN None
                  ELSE IF IsStop(phase) THEN Last(list) ELSE Head(list)
NextAt(c, phase) ==
  LET i == IF IsStop(phase) THEN Place(c) - 1 ELSE Place(c) + 1
  IN  IF i \in DOMAIN list THEN list[i] ELSE None

BeginPass(phase) ==
  /\ stage' = phase
  /\ at' = FirstOf(phase)
  /\ due' = {c \in Loaded : phase \in hooks[c]}

\* pSt_callback() calls the hook.
CallHook ==
  /\ frames = <<>> /\ at # None /\ stage \in hooks[at]
  /\ Enter(at, stage)
  /\ due' = due \ {at}
  /\ UNCHANGED <<list, hooks, stage, at, posts, broken>>

\* Mutant: a hook that is not to be called again ends the pass.
HookReturnedLast(ret) ==
  /\ frames # <<>> /\ mark[Last(frames).who] = stage
  /\ key' = None
  /\ frames' = <<>>
  /\ mark' = [mark EXCEPT ![at] = "none"]
  /\ hooks' = IF ret > 2 THEN [hooks EXCEPT ![at] = @ \ {stage}] ELSE hooks
  /\ at' = IF ret > 2 THEN None ELSE NextAt(at, stage)
  /\ UNCHANGED <<list, stage, due, posts, broken>>

\* The hook has been called for filters until it returned other than 0, or for
\* all of them.  A return above 2 has it never called again.
HookReturned(ret) ==
  /\ frames # <<>> /\ mark[Last(frames).who] = stage
  /\ key' = None
  /\ frames' = <<>>
  /\ mark' = [mark EXCEPT ![at] = "none"]
  /\ hooks' = IF ret > 2 THEN [hooks EXCEPT ![at] = @ \ {stage}] ELSE hooks
  /\ at' = NextAt(at, stage)
  /\ UNCHANGED <<list, stage, due, posts, broken>>

\* A controller without the hook is passed over.
SkipHook ==
  /\ frames = <<>> /\ at # None /\ stage \in Phases \ hooks[at]
  /\ at' = NextAt(at, stage)
  /\ UNCHANGED <<list, mark, hooks, key, frames, stage, due, posts, broken>>

-----------------------------------------------------------------------------
(* Callbacks after input().                                                *)

\* qsAddPostFilterInput(), from construct() or a hook: one for each filter and
\* controller, a new one takes the place of the old.
AddPost(f, fn) ==
  /\ frames # <<>> /\ key # None
  /\ posts' = [posts EXCEPT ![f] =
                 [c \in DOMAIN @ \cup {key} |->
                    IF c = key THEN [fn |-> fn, returned |-> FALSE] ELSE @[c]]]
  /\ UNCHANGED <<list, mark, hooks, key, frames, stage, at, due, broken>>

\* How far a ForEach with a callback that is declared to return nothing gets:
\* what is read as its result may stop the pass after any entry.
Passes(t) ==
  LET keys == SelectSeq(NameOrder, LAMBDA c : c \in DOMAIN t)
  IN  {ToSet(SubSeq(keys, 1, n)) : n \in (IF keys = <<>> THEN {0}
                                          ELSE 1 .. Len(keys))}

\* RunInput() of f: PostInputCallback() for the callbacks not yet finished.
InputReturned(f) ==
  /\ stage = "flowing"
  /\ posts[f] # <<>>
  /\ \E pass \in Passes(posts[f]) :
       LET called == {c \in pass : ~posts[f][c].returned}
       IN  /\ broken' = \E c \in called : posts[f][c].fn = "null"
           /\ \E finish \in SUBSET called :
                posts' = [posts EXCEPT ![f] =
                            [c \in DOMAIN @ |->
                               IF c \in finish
                               THEN [@[c] EXCEPT !.returned = TRUE] ELSE @[c]]]
  /\ UNCHANGED <<list, mark, hooks, key, frames, stage, at, due>>

\* What the pass of qsStreamStop() takes away: MarkInputCallback() lists the
\* finished callbacks it comes to, and they are removed after the pass.
Swept(t, pass) == Restrict(t, {c \in DOMAIN t : ~(c \in pass /\ t[c].returned)})

-----------------------------------------------------------------------------
(* The stream.                                                             *)

Idle == frames = <<>> /\ at = None

\* qsStreamReady() comes to preStart().
Ready ==
  /\ Idle /\ stage = "stopped"
  /\ BeginPass("preStart")
  /\ UNCHANGED <<list, mark, hooks, key, frames, posts, broken>>

\* The filters' start() functions; one that fails ends qsStreamReady() with
\* what is set up left as it is.
StartFilters ==
  /\ Idle /\ stage = "preStart"
  /\ \/ BeginPass("postStart")
     \/ stage' = "failed" /\ UNCHANGED <<at, due>>
  /\ UNCHANGED <<list, mark, hooks, key, frames, posts, broken>>

ReadyReturned ==
  /\ Idle /\ stage = "postStart"
  /\ stage' = "ready"
  /\ UNCHANGED <<list, mark, hooks, key, frames, at, due, posts, broken>>

\* qsStreamLaunch() and the end of the flow
Launch ==
  /\ Idle /\ stage = "ready"
  /\ stage' = "flowing"
  /\ UNCHANGED <<list, mark, hooks, key, frames, at, due, posts, broken>>

FlowEnded ==
  /\ stage = "flowing"
  /\ stage' = "ready"
  /\ UNCHANGED <<list, mark, hooks, key, frames, at, due, posts, broken>>

\* qsStreamStop() comes to preStop().
Stop ==
  /\ Idle /\ stage \in {"ready", "failed"}
  /\ BeginPass("preStop")
  /\ UNCHANGED <<list, mark, hooks, key, frames, posts, broken>>

\* qsStreamStop() from after preStop() to postStop()
StopFilters ==
  /\ Idle /\ stage = "preStop"
  /\ \E pass \in [Filters -> SUBSET Controllers] :
       /\ \A f \in Filters : pass[f] \in Passes(posts[f])
       /\ posts' = [f \in Filters |-> Swept(posts[f], pass[f])]
  /\ BeginPass("postStop")
  /\ UNCHANGED <<list, mark, hooks, key, frames, broken>>

StopReturned ==
  /\ Idle /\ stage = "postStop"
  /\ stage' = "stopped"
  /\ UNCHANGED <<list, mark, hooks, key, frames, at, due, posts, broken>>

-----------------------------------------------------------------------------
Next ==
  /\ ~broken
  /\ \/ \E c \in Controllers : Load(c) \/ Unload(c)
     \/ \E ok \in BOOLEAN : Constructed(ok)
     \/ CallHook \/ SkipHook
     \/ \E ret \in {1, 3} : HookReturned(ret)
     \/ \E f \in Filters, fn \in Fn : AddPost(f, fn)
     \/ \E f \in Filters : InputReturned(f)
     \/ Ready \/ StartFilters \/ ReadyReturned
     \/ Launch \/ FlowEnded
     \/ Stop \/ StopFilters \/ StopReturned

Spec == Init /\ [][Next]_vars

-----------------------------------------------------------------------------
(* Properties.                                                             *)

TypeOK ==
  /\ list \in Seq(Controllers) /\ IsInjective(list)
  /\ mark \in [Controllers -> Phases \cup {"none", "construct"}]
  /\ hooks \in [Controllers -> SUBSET Phases]
  /\ key \in Controllers \cup {None}
  /\ stage \in Phases \cup {"stopped", "failed", "ready", "flowing"}
  /\ at \in Loaded \cup {None}
  /\ due \subseteq Controllers
  /\ broken \in BOOLEAN

\* Every variable has its type; the key names the controller whose function
\* runs, innermost of those that loaded each other, and none when none runs;
\* the marks name all of them (controller.c:547, "set the thread specific
\* data to 0 for the case when it was 0 before", and the DASSERTs of
\* qsAddPostFilterInput on the mark).
KeyIsCaller ==
  /\ TypeOK
  /\ key = (IF frames = <<>> THEN None ELSE Last(frames).who)
  /\ {c \in Controllers : mark[c] # "none"} =
       {frames[i].who : i \in DOMAIN frames}
  /\ IsInjective([i \in DOMAIN frames |-> frames[i].who])

\* A callback belongs to a controller that is loaded: no input() calls into a
\* module that was closed (include/quickstream/controller.h, "When the
\* controller or the associated filter are unloaded this callback is removed").
CallbackOwned == \A f \in Filters : DOMAIN posts[f] \subseteq Loaded

\* A pass that is over has called the hook of every controller that was in
\* the list from its begin and still is, whatever the hooks loaded or unloaded.
NoneSkipped == Idle /\ stage \in Phases => due = {}

\* A controller's hook comes after those of the controllers loaded before it in
\* a start and before them in a stop (streamReady.c:509, "We call them in
\* reverse load order").
LoadOrder ==
  \A c \in due : at \in Loaded /\ stage \in Phases =>
     IF IsStop(stage) THEN Place(c) <= Place(at) ELSE Place(c) >= Place(at)
=============================================================================
